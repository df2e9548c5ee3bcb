\* Two profiles that share a list, with fairness: one operation after the other
\* without a failure, a request and a cron pass that overlap and fail, or two
\* requests that overlap while a list changes.
CONSTANTS
    t1 = t1
    t2 = t2
    c1 = c1
    home = home
    work = work
    ads = ads
    spy = spy
    Tasks = {t1, t2}
    Crons = {c1}
    Profiles = {home, work}
    Urls = {ads, spy}
    Owner <- OwnerOf
    UrlOf <- AddressOf
    None = None
    Subs = {1, 2, 3}
    Start = {1}
    Edits = {"add", "bulk", "toggle", "delete", "sync"}
    Oversized = {}
    MaxVersion = 2
    MaxFaults = 1
    Plans <- Modes
SPECIFICATION FairSpec
INVARIANTS TypeOK OwnListsOnly Converged RebuildIsNotASync
PROPERTIES MutexSpec Served
\* The system may rest: users stop editing, lists stop changing.
CHECK_DEADLOCK FALSE
