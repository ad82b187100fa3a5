SPECIFICATION Spec
CONSTANTS
  MaxHead = 2
  MaxCatalog = 2
  MaxMoves = 2
  MaxFaults = 1
  Legacy = legacy
  None = none
INVARIANTS
  TypeOK
  SuccessIsInstalled
  InstalledExists
PROPERTIES
  CompletionIsEarned
