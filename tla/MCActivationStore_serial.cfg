SPECIFICATION Spec
CONSTANTS
  MaxVersion = 2
  Procs = {p1}
  Concurrent = FALSE
  MaxHarms = 6
  None = None
PROPERTY SelectsAtomically
