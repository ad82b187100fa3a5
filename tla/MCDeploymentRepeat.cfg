SPECIFICATION Spec
CONSTANTS
  MaxHead = 1
  MaxCatalog = 1
  MaxMoves = 0
  MaxFaults = 1
  Legacy = legacy
  None = none
INVARIANTS
  RepeatReplays
