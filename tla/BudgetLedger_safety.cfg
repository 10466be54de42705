\* Two processes, three threads; one process may be killed and restarted, and
\* one append to a file may fail, before or after the kill.
SPECIFICATION Spec
CONSTANTS
  p1 = p1
  p2 = p2
  t1 = t1
  t2 = t2
  t3 = t3
  pilot = pilot
  primary = primary
  Process = {p1, p2}
  Thread = {t1, t2, t3}
  ProcessOf <- MCProcessOf
  Phase = {pilot, primary}
  All = All
  Id = {i1, i2, i3, i4}
  CallLimit <- MCCallLimit
  CostLimit <- MCCostLimit
  WorstCost = {2}
  None = None
  MaxCrashes = 1
  MaxFaults = 1
SYMMETRY Symmetry
INVARIANTS
  TypeOK
  CallCap
  CostCap
  GrantStillAdmissible
  RowBeforeSettled
PROPERTY
  ImplementsSpendCap
