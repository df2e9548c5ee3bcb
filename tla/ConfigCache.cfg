SPECIFICATION Spec
CONSTANTS
  Isolate = {i1, i2}
  Query = {q1}
  Writer = {w1}
  Nowhere = Nowhere
  First = {1}
  MaxChanges = 1
  MaxLoads = 2
  MaxFaults = 1
SYMMETRY Interchangeable
INVARIANTS TypeOK SettledIsCurrent FilterKept
CHECK_DEADLOCK FALSE
