CONSTANTS
  d1 = d1  d2 = d2  b1 = b1  b2 = b2  i1 = i1  i2 = i2
  Batches = {b1, b2}
  Items = {i1, i2}
  BatchOf <- OneEach
  MaxRetries = 1
  SmallIntMax = 2
  Dispatchers = {d1, d2}
  WebhookUrls <- FirstValid
  WebhookMaxRetries = 1
  EventsPerPoll = 2
  MaxCrashes = 1
  MaxDbErrors = 1
  NoJob = NoJob
SPECIFICATION FairSpec
INVARIANTS TypeOK SingleDispatcher DeliveredTruthful
PROPERTIES ImplementsDelivery EventsSettle
CHECK_DEADLOCK FALSE
