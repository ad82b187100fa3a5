SPECIFICATION FairSpec
CONSTANTS
  Managed = {a}
  Legacy = legacy
  Configs = {c}
  Procs = {p, q}
  None = none
  MaxFaults = 1
INVARIANTS
  MutualExclusion
PROPERTIES
  LockReleased
