CONSTANTS
  i1 = i1  i2 = i2
  Items = {i1, i2}
  Seeds <- OneEach
  ItemRetries <- Retries
  MaxBackoff = 1
  Endpoints = {"valid", "malformed"}
  BatchSize = 2
  MaxBatches = 2
  MaxWebhooks = 2
  MaxFaults = 1
SPECIFICATION FairSpec
INVARIANTS TypeOK TriggerTruthful SentWasAccepted NoDuplicateSubmission
PROPERTIES QueueDrains
CHECK_DEADLOCK FALSE
