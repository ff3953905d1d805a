SPECIFICATION ImportSpec
CONSTANTS
  Calls = {c1, c2}
  NoKey = NoKey
  P = P
  E = E
  F = F
  Row <- Payload
  MaxImports = 3
  MaxFaults = 1
SYMMETRY Symmetry
INVARIANTS CompletedIsComplete DuplicatesExplained
CHECK_DEADLOCK FALSE
