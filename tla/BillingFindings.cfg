CONSTANTS
  Workers = {w1, w2}
  MaxEvents = 3
  MaxFaults = 1
  MaxClock = 0
SPECIFICATION Spec
INVARIANTS NeverAppliedTwice
PROPERTIES DisputeSurvivesPayment EchoNeverUndoesCancel
CHECK_DEADLOCK FALSE
