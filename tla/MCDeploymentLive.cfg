SPECIFICATION FairSpec
CONSTANTS
  MaxHead = 2
  MaxCatalog = 2
  MaxMoves = 1
  MaxFaults = 1
  Legacy = legacy
  None = none
PROPERTIES
  DeployConverges
