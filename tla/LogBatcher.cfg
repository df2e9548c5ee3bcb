SPECIFICATION BatcherFairSpec
CONSTANTS
  Log = {l1, l2, l3, l4}
  Flush = {f1, f2}
  BatchSize = 2
  MaxEnds = 1
CHECK_DEADLOCK FALSE
INVARIANTS NoneStranded OncePlaced SilencedIsEmpty
PROPERTY Drained
