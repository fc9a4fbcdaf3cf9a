SPECIFICATION Spec
CONSTANTS
  k1 = k1
  k2 = k2
  k3 = k3
  m1 = m1
  r1 = r1
  r2 = r2
  r3 = r3
  r4 = r4
  NoKey = NoKey
  LastLevel = 0
  Keys <- MCKeys
  InitialKeys <- MCThreeKeys
  EnvKeys <- MCNoKeys
  Models <- MCOneModel
  Reqs <- MCNoMessages
  ImageReqs <- MCOneImage
  NativeReqs <- MCOneNative
  MaxRequests = 2
  ChatReqs <- MCOneChat
  ModelOf <- MCModelOf
  AdminOps <- MCNoOps
  MaxOps = 0
  MaxRestarts = 0
  MaxDropped = 1
CHECK_DEADLOCK FALSE
INVARIANTS TypeOK ExclusionsAreSaved
PROPERTY ChatTriesEveryKey
