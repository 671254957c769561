SPECIFICATION MCSpec
CONSTANTS
  p1 = p1
  p2 = p2
  g1 = g1
  g2 = g2
  v1 = v1
  v2 = v2
  None = None
  Junk = Junk
  Procs = {p1, p2}
  Graphs = {g1, g2}
  Targets <- MCTargets
  Custom = {"custom"}
  Reads <- MCReads
  Plans <- MCPlans
  Paths <- MCPaths
  GraphPath = "graph"
  Writes <- MCWrites
  Claims = {"custom", "sdk"}
  Versions = {v1, v2}
  Calls <- MCCalls
  Fates <- MCFates
  MaxFaults = 2
INVARIANTS
  TypeOK
  SameAsSequential
