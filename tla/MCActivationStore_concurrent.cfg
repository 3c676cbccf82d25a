SPECIFICATION Spec
CONSTANTS
  MaxVersion = 2
  Procs = {p1, p2}
  Concurrent = TRUE
  MaxHarms = 1
  None = None
SYMMETRY ProcSymmetry
INVARIANTS TypeOK SlotsComplete
PROPERTY VersionsImmutable
