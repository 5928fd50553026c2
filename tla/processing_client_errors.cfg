CONSTANTS
  w1 = w1  w2 = w2  b1 = b1  i1 = i1  i2 = i2
  Batches = {b1}
  Items = {i1, i2}
  BatchOf <- OneBatch
  MaxRetries = 1
  SmallIntMax = 4
  Workers = {w1, w2}
  ItemsPerPoll = 2
  BadItems = {i2}
  Refusals = {"clientError"}
  MaxRequests = 1
  MinRequests = 2
  RatioNum = 1
  RatioDen = 2
  WaitMayFail = FALSE
  MaxOutages = 0
  MaxWindow = 2
  MaxCrashes = 0
  NoJob = NoJob
SPECIFICATION Spec
INVARIANT GoodItemsProcessed
CHECK_DEADLOCK FALSE
