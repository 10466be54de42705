\* A rejected or fallback-requesting intent leaves an older intent in charge.
SPECIFICATION FairRunSpec
CONSTANTS
  a = a
  b = b
  Link = {a, b}
  GreenState <- MCGreenState
  Yellow = 1
  AllRed = 1
  MinGreen = 2
  Horizon = 8
  None = None
  Governed = TRUE
  Pilot = FALSE
  ControlInterval = 2
  SupervisorInterval = 6
  EventTimes = {4}
  RateLimit = 4
  MaxAge = 5
  MaxValid = 6
  MaxGreen = 4
  MinimumHold = 3
  End = 12
  MaxDelay = 7
  Intent <- MCIntent
  Observation <- MCObservation
PROPERTIES
  FallbackIsLocal
