CONSTANTS
  Workers = {w1, w2}
  MaxEvents = 3
  MaxFaults = 1
  MaxClock = 1
SPECIFICATION Spec
SYMMETRY Symmetry
INVARIANTS EffectAtMostOnce AckedIsHandled InOrderAgrees
CHECK_DEADLOCK FALSE
