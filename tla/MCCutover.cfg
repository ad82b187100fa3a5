SPECIFICATION Spec
CONSTANTS
  Managed = {a, b}
  Legacy = legacy
  Configs = {c, d}
  Procs = {p}
  None = none
  MaxFaults = 1
INVARIANTS
  TypeOK
  CommittedIsTarget
  RestoredIsPrior
  SettledCoherent
  FallbackDiffers
SYMMETRY Symmetry
PROPERTIES
  ImplementsAtomicCutover
