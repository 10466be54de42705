\* One start, no kill and nothing lost; what is on record is replayed twice.
SPECIFICATION CallsSpec
CONSTANTS
  r1 = r1
  r2 = r2
  Run = {r1, r2}
  Agent = {a1}
  Requests <- MCRequests
  States = 1
  MaxRetries = 1
  Platforms <- MCPlatforms
  Ceilings = {6}
  Workers = 1
  Pilot = FALSE
  MaxStarts = 1
  MaxKills = 0
  MaxReplays = 2
  MaxLost = 0
  None = None
INVARIANT ReplayReproduces
