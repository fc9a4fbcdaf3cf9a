SPECIFICATION Spec
CONSTANTS
  k1 = k1
  k2 = k2
  k3 = k3
  m1 = m1
  r1 = r1
  r2 = r2
  r3 = r3
  r4 = r4
  NoKey = NoKey
  LastLevel = 0
  Keys <- MCKeyPair
  InitialKeys <- MCTwoKeys
  EnvKeys <- MCOneEnvKey
  Models <- MCOneModel
  Reqs <- MCOneOfThree
  ImageReqs <- MCOneImage
  NativeReqs <- MCOneNative
  MaxRequests = 1
  ChatReqs <- MCNoChat
  ModelOf <- MCModelOf
  AdminOps <- MCAllOps
  MaxOps = 2
  MaxRestarts = 1
  MaxDropped = 0
CHECK_DEADLOCK FALSE
INVARIANTS IndexInRange RejectedIsQuarantined
