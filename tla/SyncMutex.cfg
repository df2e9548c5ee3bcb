\* Three concurrent calls of the four entry points, with fairness.
CONSTANTS
    Tasks = {t1, t2, t3}
    Profiles = {p, q}
    Lists = {a, b}
    Kinds = {"next", "all", "single", "rebuild"}
    None = None
    MaxRestarts = 1
SPECIFICATION FairSpec
INVARIANT EntryIsAlive
PROPERTIES AnswersAreWork Settles
