SPECIFICATION Spec
CONSTANTS
  Workers = {w1, w2}
  BookingStages = {"APPOINTMENT_PROPOSED"}
  ManualStages = {"IDENTIFIED", "DORMANT"}
  MaxMessages = 1
  MaxCalls = 6
SYMMETRY Symmetry
INVARIANTS FurthestEventCounts MinorStaysOut StopBlocksNewTouches AnsweredOnce
CHECK_DEADLOCK FALSE
