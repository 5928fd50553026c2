CONSTANTS
  r1 = r1  r2 = r2  r3 = r3  i1 = i1  i2 = i2  i3 = i3  i4 = i4  k1 = k1
  c1 = c1  q1 = q1
  Batches = {r1, r2, r3}
  Items = {i1, i2, i3, i4}
  BatchOf <- ItemsOfThree
  MaxRetries = 1
  SmallIntMax = 2
  Keys = {k1}
  NoKey = NoKey
  KeyOf <- ThreeRequests
  Cancels = {}
  Queries = {}
  None = None
  MaxDbErrors = 1
SPECIFICATION Spec
INVARIANTS RetriesAccepted
CHECK_DEADLOCK FALSE
