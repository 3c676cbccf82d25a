SPECIFICATION Spec
CONSTANTS
  Readers = {r1}
  Writers = {w1}
  Capacities = {2}
  PipeCapacity = 3
  None = none
PROPERTY NeverGivesUpOnWriter
