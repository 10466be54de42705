\* The frozen timing of configs/experiment.yaml.
SPECIFICATION FairSpec
CONSTANTS
  a = a
  b = b
  c = c
  d = d
  Link = {a, b, c, d}
  GreenState <- MCGreenState
  Yellow = 3
  AllRed = 2
  MinGreen = 5
  Horizon = 8
  None = None
INVARIANTS
  TypeOK
  ConflictsCleared
PROPERTIES
  GreenNotCutShort
  ImplementsTiming
  TransitionEnds
