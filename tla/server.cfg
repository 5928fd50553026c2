CONSTANTS
  r1 = r1  r2 = r2
  MaxWorkers = 2
  Requests = {r1, r2}
  Unset = Unset
  Garbage = Garbage
  RawValues <- Raw
  DefaultCount = 2
  DefaultInterval = 2
SPECIFICATION FairSpec
INVARIANTS TypeOK ConnectionOutlivesUse
PROPERTIES BadIntervalEnds SignalEnds
CHECK_DEADLOCK FALSE
