CONSTANTS
  c1 = c1  c2 = c2  c3 = c3
  Callers = {c1, c2, c3}
  MaxRequests = 2
  MinRequests = 2
  RatioNum = 1
  RatioDen = 2
  WaitMayFail = TRUE
  MaxOutages = 2
  MaxWindow = 4
SPECIFICATION FairSpec
INVARIANTS TypeOK CountsAccount
PROPERTIES ProbesDecide BreakerRecovers
CHECK_DEADLOCK FALSE
