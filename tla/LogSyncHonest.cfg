\* Two delta syncs, more logs between them than one sync reads.
CONSTANTS
    Slot = {s1, s2}
    None = None
    MaxTime = 5
    Twins = 1
    MaxLogs = 4
    Overlap = 1
    Delay = 1
    PageSize <- PageSizes
    Pages <- PageLimits
    MaxPasses = 2
    Budgets <- TwoSyncs
SYMMETRY Slots
SPECIFICATION Spec
INVARIANT WatermarkIsHonest
\* The calls of a behaviour are bounded.
CHECK_DEADLOCK FALSE
