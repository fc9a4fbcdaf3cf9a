SPECIFICATION Spec
CONSTANTS
  k1 = k1
  k2 = k2
  k3 = k3
  r1 = r1
  r2 = r2
  NoKey = NoKey
  Keys <- MCKeys
  InitialKeys <- MCTwoKeys
  Reqs <- MCReqs
  ChatReqs <- MCChat
  AdminOps <- MCAllOps
  MaxOps = 4
CHECK_DEADLOCK FALSE
INVARIANT IndexInRange
