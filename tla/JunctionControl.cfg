\* Every arm, with a control interval of two seconds.  The actions of the cloud
\* take up to four, so that a younger one overtakes an older one.  No yellow and
\* no all-red seconds: the countdowns of the executor at their boundary.
SPECIFICATION JunctionSpec
CONSTANTS
  a = a
  b = b
  c = c
  north = north
  east = east
  west = west
  ahead = ahead
  Arms <- Arm
  Link <- MCLink
  GreenState <- MCGreenState
  InLane <- MCInLane
  OutLane <- MCOutLane
  Yellow = 0
  AllRed = 0
  MinGreen = 1
  Horizon = 10
  None = None
  ControlInterval = 2
  MinimumHold = 2
  SwitchMargin = 1
  MaxApproachWait = 2
  MaxGreen = 4
  Queue = {0, 1}
  Behind = {0, 2}
  MaxDelay = 4
  MaxDisturbed = 2
INVARIANTS
  JunctionTypeOK
  WaitBounded
  GreenEnds
  ConflictsCleared
PROPERTIES
  ImplementsTiming
