CONSTANTS
  w1 = w1  w2 = w2  n1 = n1  n2 = n2
  b1 = b1  i1 = i1  i2 = i2
  Batches = {b1}
  Items = {i1, i2}
  BatchOf <- OneBatch
  MaxRetries = 1
  SmallIntMax = 4
  Workers = {w1, w2}
  Nodes = {n1, n2}
  Host <- MCHost
  ItemsPerPoll = 2
  Replies <- StorableReplies
  WebhookUrls <- ValidUrl
  WebhookMaxRetries = 0
  MaxCrashes = 1
  MaxDbErrors = 1
  NoJob = NoJob
SPECIFICATION FairSpec
PROPERTIES ImplementsDispatcher ItemsSettle BatchesReported
CHECK_DEADLOCK FALSE
