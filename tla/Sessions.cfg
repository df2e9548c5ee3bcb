\* Two isolates and two calls at once: locks, log-outs, revocations and wrong
\* PINs against requests and refreshes of one tab, under one failing statement.
SPECIFICATION Spec
CONSTANTS
  Isolate = {i1, i2}
  Call = {c1, c2}
  None = None
  Tabs = 1
  Grace = 0
  CacheTtl = 2
  Interval = 1
  LockTimeout = 4
  Duration = 6
  Delay = 1
  MaxNow = 6
  MaxFaults = 1
  Budgets <- Plans
SYMMETRY Interchangeable
INVARIANTS TypeOK BoundedAccess EarnedLock
PROPERTY ReuseMeansNewer
CHECK_DEADLOCK FALSE
