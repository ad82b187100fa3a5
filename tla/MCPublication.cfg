SPECIFICATION FairSpec
CONSTANTS
  Timer = timer
  Jobs = {timer}
  MaxCommit = 2
  None = None
  Fragile = {"registry", "inventory", "bureau", "convergence", "remote", "catalog"}
  Torn = Torn
  Period = 2
  Limit = 4
  RunBound = 1
  MaxFaults = 1
INVARIANTS
  TypeOK
  NoTornSnapshot
  StaleMeansMissed
PROPERTIES
  NeverOlder
  OneSource
  Recovers
