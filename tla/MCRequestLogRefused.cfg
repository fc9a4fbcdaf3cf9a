SPECIFICATION FairSpec
CONSTANTS
  e1 = e1
  e2 = e2
  p1 = p1
  p2 = p2
  Events <- MCEvents2
  Procs <- MCOneProc
  BatchSize = 2
  MaxLen = 2
  Malformed <- MCNone
  Refused <- MCBad
  LoseAddReply = FALSE
  MaxFaults = 0
PROPERTY EntryEventuallyStored
