CONSTANTS
  Sponsors = {s1, s2}
  MaxRows = 2
  MaxDay = 3
  MaxFlips = 2
  MaxDeaths = 1
  Grace = 1
  Term = 2
  Notice = 1
SPECIFICATION SponsorshipSpec
INVARIANTS EndedIsSuspended PaidKeepsFunction
CHECK_DEADLOCK FALSE
