\* Nothing but the report of the cloud arm is lost.
SPECIFICATION JunctionFairSpec
CONSTANTS
  a = a
  b = b
  c = c
  north = north
  east = east
  west = west
  ahead = ahead
  Arms <- MCCloudArm
  Link <- MCLink
  GreenState <- MCGreenState
  InLane <- MCInLane
  OutLane <- MCOutLane
  Yellow = 0
  AllRed = 0
  MinGreen = 1
  Horizon = 12
  None = None
  ControlInterval = 2
  MinimumHold = 2
  SwitchMargin = 1
  MaxApproachWait = 3
  MaxGreen = 4
  Queue = {0, 1}
  Behind = {0}
  MaxDelay = 3
  MaxDisturbed = 1
PROPERTY CloudDecidesOnReports
