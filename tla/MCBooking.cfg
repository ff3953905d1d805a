SPECIFICATION BookingSpec
CONSTANTS
  Reps = {p1, p2}
  Trainers = {p1, p2}
  Requests = {w1, w2}
  Nows = {0, 1, 3}
  Grid = 2
  Duration <- Minutes
  Horizon = 3
  Day = 1
  Week = 2
  Cap = 1
  MaxRows = 2
  MaxAnswers = 2
SYMMETRY Symmetry
INVARIANTS ClashExplained CapExplained
CHECK_DEADLOCK FALSE
