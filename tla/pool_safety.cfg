CONSTANTS
  w1 = w1  w2 = w2  n1 = n1  n2 = n2
  b1 = b1  i1 = i1  i2 = i2
  Batches = {b1}
  Items = {i1, i2}
  BatchOf <- OneBatch
  MaxRetries = 1
  SmallIntMax = 5
  Workers = {w1, w2}
  Nodes = {n1, n2}
  Host <- MCHost
  ItemsPerPoll = 2
  Replies <- AnyReply
  SlowClaims = FALSE
  MaxCrashes = 1
  MaxDbErrors = 1
  NoJob = NoJob
SPECIFICATION Spec
SYMMETRY PoolSymmetry
INVARIANTS
  TypeOK PoolInv SingleHolder FinishedVerdict EventsBacked
  FailedItemsInDlq CancelledItemsBlockCompletion
PROPERTIES
  ImplementsLifecycle TerminalItemsStay RetriesNeverRefunded VerdictStays
CHECK_DEADLOCK FALSE
