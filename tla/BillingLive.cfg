CONSTANTS
  Workers = {w1, w2}
  MaxEvents = 2
  MaxFaults = 1
  MaxClock = 1
SPECIFICATION FairSpec
PROPERTIES EveryEventAcked
CHECK_DEADLOCK FALSE
