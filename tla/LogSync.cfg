\* Two calls of the views at once, in nine mixes of calls, faults, clearings
\* and insertions.
CONSTANTS
    Slot = {s1, s2}
    None = None
    MaxTime = 5
    Twins = 1
    MaxLogs = 3
    Overlap = 1
    Delay = 1
    PageSize <- PageSizes
    Pages <- PageLimits
    MaxPasses = 2
    Budgets <- Mixes
SYMMETRY Slots
SPECIFICATION Spec
INVARIANTS HiddenIsAccounted CheckpointCovers
\* The calls of a behaviour are bounded.
CHECK_DEADLOCK FALSE
