SPECIFICATION FairSpec
CONSTANTS
  e1 = e1
  e2 = e2
  p1 = p1
  p2 = p2
  Events <- MCEvents2
  Procs <- MCProcs
  BatchSize = 1
  MaxLen = 2
  Malformed <- MCBad
  Refused <- MCNone
  LoseAddReply = TRUE
  MaxFaults = 2
\* When every worker has failed to join its group nothing moves the stream on.
CHECK_DEADLOCK FALSE
PROPERTIES
  EntryEventuallyStored
  PendingEventuallyCleared
