SPECIFICATION FairSpec
CONSTANTS
  Readers = {t1, t2}
  Writers = {t1, t2}
  Capacities = {1, 2}
  PipeCapacity = 3
  None = none
INVARIANTS TypeOK HintIsPending
PROPERTIES ReadsInOrder WritesWhole HolderReturns
