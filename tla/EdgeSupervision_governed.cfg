\* The governed arm in a pilot; a transition outlasts the control interval.
SPECIFICATION FairRunSpec
CONSTANTS
  a = a
  b = b
  Link = {a, b}
  GreenState <- MCGreenState
  Yellow = 2
  AllRed = 1
  MinGreen = 2
  Horizon = 8
  None = None
  Governed = TRUE
  Pilot = TRUE
  ControlInterval = 2
  SupervisorInterval = 6
  EventTimes = {4}
  RateLimit = 4
  MaxAge = 5
  MaxValid = 6
  MaxGreen = 4
  MinimumHold = 3
  End = 12
  MaxDelay = 7
  Intent <- MCIntent
  Observation <- MCObservation
INVARIANTS
  RunTypeOK
  GreenBounded
  RequestsAccounted
PROPERTIES
  DecidedInOrder
  SupervisedWhileValid
  ImplementsExecutor
  RunEnds
