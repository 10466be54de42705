\* One process may be killed, holding any lock, and one append may fail: the
\* others come to the end of their calls all the same.
SPECIFICATION FairSpec
CONSTANTS
  p1 = p1
  p2 = p2
  t1 = t1
  t2 = t2
  t3 = t3
  pilot = pilot
  primary = primary
  Process = {p1, p2}
  Thread = {t1, t2, t3}
  ProcessOf <- MCProcessOf
  Phase = {primary}
  All = All
  Id = {i1, i2, i3}
  CallLimit <- MCCallLimitOnePhase
  CostLimit <- MCCostLimitOnePhase
  WorstCost = {1}
  None = None
  MaxCrashes = 1
  MaxFaults = 1
PROPERTY
  EverySettled
