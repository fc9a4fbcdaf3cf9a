SPECIFICATION Spec
CONSTANTS
  k1 = k1
  k2 = k2
  k3 = k3
  m1 = m1
  r1 = r1
  r2 = r2
  r3 = r3
  r4 = r4
  NoKey = NoKey
  LastLevel = 1
  Keys <- MCKeys
  InitialKeys <- MCTwoKeys
  EnvKeys <- MCNoKeys
  Models <- MCOneModel
  Reqs <- MCTwoReqs
  ImageReqs <- MCNoChat
  NativeReqs <- MCNoChat
  MaxRequests = 2
  ChatReqs <- MCNoChat
  ModelOf <- MCModelOf
  AdminOps <- MCNoOps
  MaxOps = 0
  MaxRestarts = 1
  MaxDropped = 1
CHECK_DEADLOCK FALSE
PROPERTY RestartKeepsQuarantine
