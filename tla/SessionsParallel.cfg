\* Two tabs refresh at the same time.
SPECIFICATION Spec
CONSTANTS
  Isolate = {i1, i2}
  Call = {c1, c2}
  None = None
  Tabs = 2
  Grace = 0
  CacheTtl = 2
  Interval = 1
  LockTimeout = 4
  Duration = 6
  Delay = 1
  MaxNow = 6
  MaxFaults = 0
  Budgets <- Refreshing
SYMMETRY Interchangeable
PROPERTY ReuseMeansNewer
CHECK_DEADLOCK FALSE
