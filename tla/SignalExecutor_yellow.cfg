\* Link b is lit in phases 0 and 1: all-red ends its green without yellow.
SPECIFICATION FairSpec
CONSTANTS
  a = a
  b = b
  c = c
  d = d
  Link = {a, b, c, d}
  GreenState <- MCGreenState
  Yellow = 3
  AllRed = 2
  MinGreen = 5
  Horizon = 8
  None = None
PROPERTY
  YellowBeforeRed
