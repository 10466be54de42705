\* One worker, one retry, one kill, one lost message; a ceiling the plan of five
\* calls just fits and one it does not.
SPECIFICATION CallsSpec
CONSTANTS
  r1 = r1
  r2 = r2
  Run = {r1, r2}
  Agent = {a1, a2}
  Requests <- MCRequests
  States = 1
  MaxRetries = 1
  Platforms <- MCPlatforms
  Ceilings = {4, 5}
  Workers = 1
  Pilot = TRUE
  MaxStarts = 3
  MaxKills = 1
  MaxReplays = 1
  MaxLost = 1
  None = None
SYMMETRY MCSymmetry
INVARIANTS
  CallsTypeOK
  AttemptsAccounted
  SummaryMatchesRecord
  PlanFits
  AuditComplete
  CleanReplay
