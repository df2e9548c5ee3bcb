CONSTANTS
    i1 = i1
    i2 = i2
    c1 = c1
    c2 = c2
    q1 = q1
    q2 = q2
    ann = ann
    bob = bob
    home = home
    work = work
    Isolate = {i1, i2}
    Pass = {c1, c2}
    Visit = {q1, q2}
    Profile = {home, work}
    User = {ann, bob}
    Owner <- OwnerOf
    None = None
    Hour = 2
    Memo = 1
    Idle = 1
    Active = 2
    Quiet = 4
    Batch = 1
    Budget = 2
    Chunk = 1
    Delay = 1
    MaxLapses = 2
    Plans <- Rosters
SPECIFICATION FairSpec
INVARIANTS TypeOK BudgetHolds
PROPERTIES ThrottleHolds ActiveKept KeepsUp
CHECK_DEADLOCK FALSE
