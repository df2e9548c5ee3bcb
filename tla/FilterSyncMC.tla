---------------------------- MODULE FilterSyncMC ----------------------------
(* Rows of the table lists for TLC: 1 and 2 are the subscriptions of home  *)
(* to ads and spy, 3 is that of work to ads.                               *)
EXTENDS FilterSync

CONSTANTS t1, t2, c1, home, work, ads, spy

OwnerOf == [l \in Subs |-> IF l <= 2 THEN home ELSE work]
AddressOf == [l \in Subs |-> IF l = 2 THEN spy ELSE ads]

(* One operation after the other without a failure; a request and a cron   *)
(* pass that overlap and fail; requests that overlap.                      *)
Modes == {[edits |-> 3, news |-> 2, faults |-> 0, overlap |-> FALSE, crew |-> {t1, c1}],
          [edits |-> 1, news |-> 1, faults |-> 1, overlap |-> TRUE, crew |-> {t1, c1}],
          [edits |-> 2, news |-> 1, faults |-> 0, overlap |-> TRUE, crew |-> {t1, t2}]}
=============================================================================
