SPECIFICATION FairSpec
CONSTANTS
  r1 = r1
  r2 = r2
  r3 = r3
  p1 = p1
  p2 = p2
  p3 = p3
  Reqs <- MCReqs
  Puts <- MCPuts
  Wanted <- MCWanted
  MaxRestarts = 1
CHECK_DEADLOCK FALSE
INVARIANTS TypeOK ActiveCountsInService GateIsSaved
PROPERTIES DrainingOnlyShrinks DrainCompletes
