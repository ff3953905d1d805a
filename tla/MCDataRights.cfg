SPECIFICATION Spec
CONSTANTS
  NumUsers = 3
  Workers = {w1, w2}
  MaxRequests = 2
  Leavers = {1, 2}
  Investigated = {1}
  Lapsers = {3}
  MaxOutside = 1
SYMMETRY Symmetry
INVARIANTS UplineHasEdge SponsorIsUpline NobodyTheirOwnUpline ScrubIsRecorded
CHECK_DEADLOCK FALSE
