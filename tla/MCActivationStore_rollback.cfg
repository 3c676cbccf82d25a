SPECIFICATION Spec
CONSTANTS
  MaxVersion = 2
  Procs = {p1}
  Concurrent = FALSE
  MaxHarms = 0
  None = None
INVARIANTS PreviousIsOther
