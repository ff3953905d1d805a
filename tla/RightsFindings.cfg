SPECIFICATION Spec
CONSTANTS
  NumUsers = 3
  Workers = {w1, w2}
  MaxRequests = 1
  Leavers = {1}
  Investigated = {1}
  Lapsers = {}
  MaxOutside = 1
INVARIANTS TreesAlwaysAgree
PROPERTIES NothingScrubbedUnderHold
CHECK_DEADLOCK FALSE
