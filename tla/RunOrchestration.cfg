\* Up to two workers over three runs; one kill, one failure.
SPECIFICATION FairSpec
CONSTANTS
  a = a
  b = b
  c = c
  Order <- MCOrder
  MaxWorkers = 2
  MaxKills = 1
  MaxFailures = 1
INVARIANTS
  TypeOK
  AttemptsKept
  OneWorkerPerRun
  ReturnsEveryRun
PROPERTIES
  CompletedStays
  SweepEnds
