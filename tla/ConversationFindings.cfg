SPECIFICATION Spec
CONSTANTS
  Workers = {w1, w2}
  BookingStages = {"APPOINTMENT_PROPOSED"}
  ManualStages = {"IDENTIFIED", "DORMANT"}
  MaxMessages = 1
  MaxCalls = 5
PROPERTIES NeverPulledBack JoinStands
CHECK_DEADLOCK FALSE
