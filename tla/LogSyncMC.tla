------------------------------ MODULE LogSyncMC ------------------------------
(* Page limits and budgets for TLC: which calls a behaviour makes, next to *)
(* the clock and the logs that arrive.                                     *)
EXTENDS LogSync, TLC

PageSizes == [k \in Kinds |-> IF k = "profile" THEN 2 ELSE 1]
PageLimits == [k \in Kinds |-> CASE k \in {"profile", "backfill"} -> 1
                                 [] k = "missing" -> 2 [] k = "target" -> 3]

Counts(f) == [k \in Kinds \cup Extras |-> IF k \in DOMAIN f THEN f[k] ELSE 0]
Mixes == {Counts(f) : f \in {
    [profile |-> 2, insert |-> 1, fault |-> 1],
    [profile |-> 1, backfill |-> 1, clear |-> 1, fault |-> 1],
    [profile |-> 1, insert |-> 1, cleanup |-> 1],
    [profile |-> 1, missing |-> 1],
    [profile |-> 1, target |-> 1],
    [missing |-> 1, insert |-> 1, fault |-> 1],
    [missing |-> 1, insert |-> 2, clear |-> 1],
    [target |-> 2, fault |-> 1],
    [target |-> 1, clear |-> 1, fault |-> 1]}}
TwoSyncs == {Counts([profile |-> 2])}

Slots == Permutations(Slot)
==============================================================================
