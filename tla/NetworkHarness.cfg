\* Two telemetry messages, one intersection, one broken connection.
SPECIFICATION HarnessFairSpec
CONSTANTS
  Messages = 2
  Peers = 1
  MaxDrops = 1
  None = None
INVARIANTS
  HarnessTypeOK
  CountersMatch
  ReconciledIsExact
PROPERTIES
  EveryoneEnds
CHECK_DEADLOCK FALSE
