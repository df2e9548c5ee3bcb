------------------------------- MODULE LogSync -------------------------------
(***************************************************************************)
(* The browser's copy of the query logs of one profile: which logs the     *)
(* local SQLite database holds, the watermark that says what it covers,    *)
(* the checkpoint of an interrupted download, and the downloads that run   *)
(* at once.                                                                *)
(*                                                                         *)
(*   web/src/services/localDb/syncEngine.ts      the downloads             *)
(*   web/src/services/localDb/syncLogFetcher.ts  one page                  *)
(*   web/src/services/localDb/syncIntervalPlanner.ts, syncCheckpoint.ts    *)
(*   web/src/workers/sqlite/sync.ts, maintenance.ts   the local statements *)
(*   src/models/log/core.ts, src/api/profiles/logs.ts the server's answer  *)
(*                                                                         *)
(* A slot is a call of the views.  A page is fetched in one step, taken    *)
(* into the database in a later one, and the watermark widened to the      *)
(* interval in a third: whatever else runs comes in between.  The 15-second*)
(* throttle of syncProfileLogs is left out, as force skips it.             *)
(***************************************************************************)
EXTENDS Integers, Sequences, FiniteSets

CONSTANTS
    Slot,           \* calls that may be under way at once
    None,           \* no value
    MaxTime,        \* bound: seconds of a behaviour
    Twins,          \* bound: logs of one second
    MaxLogs,        \* bound: logs on the server
    Overlap,        \* the 60 seconds a download reads again
    Delay,          \* how much later than its timestamp a log reaches the server
    PageSize,       \* for each kind of download, the logs of a full page
    Pages,          \* for each kind of download, the pages it asks for at most
    MaxPasses,      \* MAX_PASSES of syncMissingIntervals
    Budgets         \* bound: calls of each kind and faults of a behaviour

Kinds == {"profile", "missing", "target", "backfill"}
Extras == {"insert", "clear", "cleanup", "fault"}
Times == 1..MaxTime
Log == Times \X (1..Twins)
T(l) == l[1]

ASSUME NumbersAssumption ==
    /\ MaxTime \in Nat /\ Twins \in Nat /\ MaxLogs \in Nat /\ Overlap \in Nat
    /\ PageSize \in [Kinds -> Nat \ {0}] /\ Pages \in [Kinds -> Nat \ {0}]
    /\ MaxPasses \in Nat
    /\ Budgets \subseteq [Kinds \cup Extras -> Nat]
(* The overlap is there for logs that reach the server late (the batcher   *)
(* writes them seconds after their query).                                 *)
ASSUME DelayAssumption == Delay \in 0..Overlap

VARIABLES
    now,            \* the clock
    server,         \* table logs
    local,          \* table local_logs
    mark,           \* row of sync_watermarks: the seconds it claims, or None
    checkpoint,     \* localStorage: where an interrupted syncTargetInterval stopped
    op,             \* the call each slot runs, or None
    budget,         \* calls and faults left
    holes           \* history: seconds left out for a known cause, see Holes

vars == <<now, server, local, mark, checkpoint, op, budget, holes>>

Smaller(a, b) == IF a <= b THEN a ELSE b
Larger(a, b) == IF a <= b THEN b ELSE a
Oldest(S) == CHOOSE t \in {T(l) : l \in S} : \A l \in S : t <= T(l)
Newest(S) == CHOOSE t \in {T(l) : l \in S} : \A l \in S : t >= T(l)
Spend(what) == /\ budget[what] > 0
               /\ budget' = [budget EXCEPT ![what] = @ - 1]

(* A call: the range it was asked for, the interval under way, the cursor  *)
(* (past hi while undefined), the page that was answered, the intervals    *)
(* still planned.  dry: the server said that there is nothing older.       *)
Call(kind, since, until) ==
    [kind |-> kind, since |-> since, until |-> until, lo |-> since, hi |-> until,
     before |-> until + 1, page |-> {}, todo |-> <<>>, pages |-> 0, passes |-> 0,
     got |-> FALSE, more |-> TRUE, dry |-> FALSE, aborted |-> FALSE, want |-> 0,
     at |-> "fetch"]
Undefined(o) == o.before > o.hi
Stages == {"plan", "count", "fetch", "ingest", "bound"}
Calls == [kind : Kinds, since : Nat, until : Nat, lo : Nat, hi : Nat, before : Nat,
          page : SUBSET Log, todo : Seq(Nat \X Nat), pages : Nat, passes : Nat,
          got : BOOLEAN, more : BOOLEAN, dry : BOOLEAN, aborted : BOOLEAN, want : Nat,
          at : Stages]
Claims == [early : Nat, late : Nat]
Checkpoints == [since : Nat, until : Nat, before : Nat]

ASSUME NoneAssumption == None \notin Calls /\ None \notin Claims /\ None \notin Checkpoints

Init ==
    /\ now = 1 /\ server = {} /\ local = {} /\ mark = None /\ checkpoint = None
    /\ op = [s \in Slot |-> None]
    /\ budget \in Budgets
    /\ holes = {}

-----------------------------------------------------------------------------
(* The local statements.                                                   *)

(* handleSyncBatch and handleUpdateWatermarkBounds widen the one interval. *)
Widened(m, lo, hi) ==
    IF m = None THEN [early |-> lo, late |-> hi]
    ELSE [early |-> Smaller(m.early, lo), late |-> Larger(m.late, hi)]
Ingested(m, S) == Widened(m, Oldest(S), Newest(S))

(* handleGetWatermark: the row, reconciled with the logs there are.        *)
Reported(m, S) ==
    IF S = {} THEN m
    ELSE IF m = None THEN [early |-> Oldest(S), late |-> Newest(S)]
    ELSE [early |-> Larger(m.early, Oldest(S)), late |-> Larger(m.late, Newest(S))]
Covered(w) == IF w = None THEN {} ELSE w.early..w.late

(* planMissingIntervals.                                                   *)
Plan(w, since, until) ==
    IF w = None \/ until <= w.early \/ since >= w.late THEN <<<<since, until>>>>
    ELSE (IF until > w.late
            THEN <<<<Larger(since, w.late - Overlap), until>>>> ELSE <<>>)
         \o (IF since < w.early
               THEN <<<<since, Smaller(until, w.early + Overlap)>>>> ELSE <<>>)

-----------------------------------------------------------------------------
(* Holes: the known causes for which a second inside the watermark may lack*)
(* logs.                                                                   *)

(* The claim jumps over what lies between the interval downloaded and the  *)
(* old claim: the watermark is one interval.  The interval may end where   *)
(* logs still come late.                                                   *)
Jumped(lo, hi, from, to) ==
    IF mark = None THEN {}
    ELSE (IF to > mark.late THEN (mark.late - Overlap)..(lo - 1) ELSE {})
         \cup (IF from < mark.early THEN (hi - Overlap)..(mark.early - 1) ELSE {})

(* A download was cut short by a page limit, an error or an abort, and what*)
(* it did not read lies inside the claim.  One that fails at its first page*)
(* claims the interval all the same.                                       *)
Cut(o, m) == IF o.dry THEN {} ELSE (o.lo..(o.before - 1)) \cap Covered(m)

(* A full page ends within a second; the cursor passes over the rest of it.*)
Split(o) == IF Cardinality(o.page) = PageSize[o.kind] THEN {Oldest(o.page)} ELSE {}

(* The logs were cleared while a download, or a checkpoint, counted on     *)
(* having received them.                                                   *)
Received(o) == IF o = None \/ o.at = "plan" THEN {}
               ELSE (IF o.dry THEN o.lo ELSE o.before)..(o.hi - Overlap - 1)
Lost == (UNION {Received(op[s]) : s \in Slot})
        \cup (IF checkpoint = None THEN {}
              ELSE checkpoint.before..(checkpoint.until - Overlap - 1))

-----------------------------------------------------------------------------
(* The server.                                                             *)
Tick == /\ now < MaxTime
        /\ now' = now + 1
        /\ UNCHANGED <<server, local, mark, checkpoint, op, budget, holes>>

Arrive(l) ==
    /\ l \notin server /\ Cardinality(server) < MaxLogs
    /\ T(l) \in (now - Delay)..now
    /\ l[2] > 1 => <<T(l), l[2] - 1>> \in server
    /\ server' = server \cup {l}
    /\ UNCHANGED <<now, local, mark, checkpoint, op, budget, holes>>

(* getLogs: the newest logs, a page, of the interval before the cursor;    *)
(* within a second, any of them.                                           *)
Matching(o) == {l \in server : o.lo <= T(l) /\ T(l) <= o.hi /\ T(l) < o.before}
IsPage(P, M, n) == /\ Cardinality(P) = Smaller(n, Cardinality(M))
                   /\ \A l \in P, k \in M \ P : T(l) >= T(k)

-----------------------------------------------------------------------------
(* The calls.                                                              *)
Set(s, o) == op' = [op EXCEPT ![s] = o]
Starts(s, kind) == op[s] = None /\ Spend(kind)

(* syncProfileLogs: one at a time for a profile (inFlightSyncs).           *)
StartProfile(s, since) ==
    LET w == Reported(mark, local)
        lo == IF w = None THEN since ELSE Larger(0, w.late - Overlap)
    IN /\ Starts(s, "profile")
       /\ ~\E r \in Slot : op[r] # None /\ op[r].kind = "profile"
       /\ Set(s, Call("profile", lo, now))
       /\ UNCHANGED <<now, server, local, mark, checkpoint, holes>>

StartMissing(s, since, until) ==
    /\ Starts(s, "missing")
    /\ Set(s, [Call("missing", since, until) EXCEPT !.at = "plan"])
    /\ UNCHANGED <<now, server, local, mark, checkpoint, holes>>

InRange(S, o) == {l \in S : o.since <= T(l) /\ T(l) <= o.until}

(* syncTargetInterval asks for the count first; a failed request counts 0. *)
StartTarget(s, since, until) ==
    LET o == Call("target", since, until)
        n == Cardinality(InRange(server, o))
    IN /\ op[s] = None /\ budget["target"] > 0
       /\ \/ /\ n > 0 /\ Spend("target")
             /\ Set(s, [o EXCEPT !.want = n, !.at = "count"])
             /\ UNCHANGED checkpoint
          \/ /\ n = 0 \/ budget["fault"] > 0
             /\ budget' = [budget EXCEPT !["target"] = @ - 1,
                                         !["fault"] = IF n = 0 THEN @ ELSE @ - 1]
             /\ checkpoint' = None
             /\ UNCHANGED op
       /\ UNCHANGED <<now, server, local, mark, holes>>

StartBackfill(s, since, before) ==
    /\ Starts(s, "backfill")
    /\ Set(s, [Call("backfill", since, before) EXCEPT !.before = before])
    /\ UNCHANGED <<now, server, local, mark, checkpoint, holes>>

(* Mutant: a checkpoint is resumed whatever range it was left for.         *)
ResumesAny(o) == /\ checkpoint # None
                 /\ o.since < checkpoint.before /\ checkpoint.before < o.until

(* The local count; then resume at a checkpoint for the same range.        *)
Resumes(o) == /\ checkpoint # None
              /\ checkpoint.since = o.since /\ checkpoint.until = o.until
              /\ o.since < checkpoint.before /\ checkpoint.before < o.until

CountLocal(s) ==
    LET o == op[s] IN
    /\ o # None /\ o.at = "count"
    /\ IF o.want <= Cardinality(InRange(local, o))
         THEN Set(s, None) /\ checkpoint' = None
         ELSE /\ Set(s, [o EXCEPT !.at = "fetch",
                           !.before = IF Resumes(o) THEN checkpoint.before ELSE @])
              /\ UNCHANGED checkpoint
    /\ UNCHANGED <<now, server, local, mark, budget, holes>>

(* syncMissingIntervals, between its passes.                               *)
Interval(o, todo) ==
    [o EXCEPT !.lo = Head(todo)[1], !.hi = Head(todo)[2],
              !.before = Head(todo)[2] + 1, !.todo = Tail(todo), !.pages = 0,
              !.more = TRUE, !.dry = FALSE, !.at = "fetch"]
PlanPass(s) ==
    LET o == op[s]
        todo == Plan(Reported(mark, local), o.since, o.until)
    IN /\ o # None /\ o.at = "plan"
       /\ Set(s, IF todo = <<>> THEN None
                 ELSE Interval([o EXCEPT !.got = FALSE], todo))
       /\ UNCHANGED <<now, server, local, mark, checkpoint, budget, holes>>

(* Mutant: the checkpoint is saved when the page has come, not when it is  *)
(* in the database.                                                        *)
FetchMarked(s) ==
    /\ op[s] # None /\ op[s].at = "fetch"
    /\ \E P \in SUBSET Matching(op[s]) :
          /\ IsPage(P, Matching(op[s]), PageSize[op[s].kind])
          /\ Set(s, [op[s] EXCEPT !.page = P, !.at = "ingest"])
          /\ checkpoint' = IF op[s].kind = "target" /\ P # {}
                             THEN [since |-> op[s].since, until |-> op[s].until,
                                   before |-> Oldest(P)]
                             ELSE checkpoint
    /\ UNCHANGED <<now, server, local, mark, budget, holes>>

Fetch(s) ==
    /\ op[s] # None /\ op[s].at = "fetch"
    /\ \E P \in SUBSET Matching(op[s]) :
          /\ IsPage(P, Matching(op[s]), PageSize[op[s].kind])
          /\ Set(s, [op[s] EXCEPT !.page = P, !.at = "ingest"])
    /\ UNCHANGED <<now, server, local, mark, checkpoint, budget, holes>>

(* What follows the last page.  Only the interval downloads widen the      *)
(* watermark themselves; syncTargetInterval not when it got nothing.       *)
Bounds(o) == o.kind = "missing"
             \/ (o.kind = "target" /\ (~Undefined(o) \/ (~o.more /\ ~o.aborted)))
Close(s, o) ==
    IF Bounds(o) THEN Set(s, [o EXCEPT !.page = {}, !.at = "bound"]) /\ UNCHANGED holes
    ELSE Set(s, None)
         /\ holes' = holes \cup (IF o.pages = 0 THEN {} ELSE Cut(o, mark))

(* An empty page: profile and interval leave the loop with hasMore still   *)
(* set.                                                                    *)
IngestNone(s) ==
    LET o == op[s] IN
    /\ o # None /\ o.at = "ingest" /\ o.page = {}
    /\ Close(s, [o EXCEPT !.dry = TRUE, !.more = o.kind # "target"])
    /\ checkpoint' = IF o.kind = "target" THEN None ELSE checkpoint
    /\ UNCHANGED <<now, server, local, mark, budget>>

(* The batch and its watermark in one transaction, then the next cursor.   *)
Ingest(s) ==
    LET o == op[s]
        oldest == Oldest(o.page)
        more == Cardinality(o.page) = PageSize[o.kind] /\ oldest > o.lo /\ oldest < o.before
        next == [o EXCEPT !.pages = @ + 1, !.got = TRUE, !.page = {},
                          !.before = IF more THEN oldest ELSE @,
                          !.more = more, !.dry = ~more, !.at = "fetch"]
    IN /\ o # None /\ o.at = "ingest" /\ o.page # {}
       /\ local' = local \cup o.page
       /\ mark' = Ingested(mark, o.page)
       /\ LET known == holes \cup Split(o)
                         \cup Jumped(o.lo, o.hi, oldest, Newest(o.page))
          IN IF more /\ next.pages < Pages[o.kind]
               THEN Set(s, next) /\ holes' = known
             ELSE IF Bounds(next)
               THEN Set(s, [next EXCEPT !.at = "bound"]) /\ holes' = known
             ELSE /\ Set(s, None)
                  /\ holes' = known \cup Cut(next, mark')
       /\ checkpoint' = IF o.kind # "target" THEN checkpoint
                        ELSE IF more THEN [since |-> o.since, until |-> o.until,
                                           before |-> oldest]
                        ELSE None
       /\ UNCHANGED <<now, server, budget>>

(* A failed request, or an abort before it or while it is under way; an    *)
(* abort once the page has come reads as an empty page.  An abort between  *)
(* the passes just ends the call.                                          *)
Stop(s) ==
    LET o == op[s] IN
    /\ o # None /\ Spend("fault")
    /\ \/ /\ o.at = "plan"
          /\ Set(s, None) /\ UNCHANGED <<checkpoint, holes>>
       \/ /\ o.at \in {"fetch", "ingest"}
          /\ \E a \in {o.at = "ingest", TRUE} :
               Close(s, [o EXCEPT !.aborted = a, !.page = {}])
          /\ UNCHANGED checkpoint
       \/ /\ o.kind = "target" /\ o.at = "ingest"
          /\ Close(s, [o EXCEPT !.aborted = TRUE, !.more = FALSE])
          /\ checkpoint' = None
    /\ UNCHANGED <<now, server, local, mark>>

(* updateWatermarkBounds; then the next interval, the next pass or the end.*)
Bound(s) ==
    LET o == op[s]
        start == IF ~Undefined(o) /\ (o.more \/ o.kind = "target")
                   THEN o.before ELSE o.lo
        passed == [o EXCEPT !.passes = @ + 1, !.at = "plan"]
    IN /\ o # None /\ o.at = "bound"
       /\ mark' = Widened(mark, start, o.hi)
       /\ holes' = holes \cup Jumped(o.lo, o.hi, start, o.hi) \cup Cut(o, mark')
       /\ Set(s, IF o.kind = "target" \/ o.aborted THEN None
                 ELSE IF o.todo # <<>> THEN Interval(o, o.todo)
                 ELSE IF o.got /\ passed.passes < MaxPasses THEN passed
                 ELSE None)
       /\ UNCHANGED <<now, server, local, checkpoint, budget>>

-----------------------------------------------------------------------------
(* batchInsertLogs: the live stream and the export bring logs of their own.*)
BatchInsert(l) ==
    /\ l \in server /\ Spend("insert")
    /\ local' = local \cup {l}
    /\ mark' = Ingested(mark, {l})
    /\ holes' = holes \cup Jumped(T(l), T(l), T(l), T(l))
    /\ UNCHANGED <<now, server, checkpoint, op>>

(* clearProfile: the logs and the watermark, not the checkpoint.           *)
ClearProfile ==
    /\ Spend("clear")
    /\ local' = {} /\ mark' = None /\ holes' = Lost
    /\ UNCHANGED <<now, server, checkpoint, op>>

(* cleanup: the logs older than the local retention, not the watermark.    *)
Cleanup(cutoff) ==
    /\ Spend("cleanup")
    /\ local' = {l \in local : T(l) >= cutoff}
    /\ holes' = holes \cup 1..(cutoff - 1)
    /\ UNCHANGED <<now, server, mark, checkpoint, op>>

Next ==
    \/ Tick
    \/ \E l \in Log : Arrive(l) \/ BatchInsert(l)
    \/ \E s \in Slot :
          \/ \E t \in 1..now : StartProfile(s, t)
          \/ \E a, b \in 1..now : a < b /\ (StartMissing(s, a, b) \/ StartTarget(s, a, b)
                                            \/ StartBackfill(s, a, b))
          \/ CountLocal(s) \/ PlanPass(s) \/ Fetch(s) \/ IngestNone(s) \/ Ingest(s)
          \/ Stop(s) \/ Bound(s)
    \/ ClearProfile
    \/ \E t \in 2..now : Cleanup(t)

Spec == Init /\ [][Next]_vars

-----------------------------------------------------------------------------
(* A download has widened the watermark and will read the second of l yet. *)
Pending(s, l) == /\ op[s] # None /\ op[s].at # "plan" /\ op[s].pages > 0
                 /\ T(l) \in op[s].lo..(op[s].before - 1)

(* What the watermark hides is accounted for: a log of the server that the *)
(* local copy lacks, inside the claimed interval and older than the part   *)
(* the next download reads again, is still to be fetched by a download     *)
(* under way or lies in a second left out for a known cause.               *)
HiddenIsAccounted ==
    LET w == Reported(mark, local) IN
    \A l \in server \ local :
        w # None /\ w.early <= T(l) /\ T(l) < w.late - Overlap
          => T(l) \in holes \/ \E s \in Slot : Pending(s, l)

(* A resumed download may start at the checkpoint: whatever lies between   *)
(* it and the end of its range is in the local copy, or left out for a     *)
(* known cause, or came late.                                              *)
CheckpointCovers ==
    checkpoint # None =>
        \A l \in server \ local :
            checkpoint.before < T(l) /\ T(l) < checkpoint.until - Overlap
              => T(l) \in holes

(* When no download is under way the watermark hides nothing: it "never    *)
(* falsely claims historical coverage" (web/src/workers/sqlite/sync.ts:134)*)
WatermarkIsHonest ==
    LET w == Reported(mark, local) IN
    (\A s \in Slot : op[s] = None) =>
        \A l \in server \ local :
            ~(w # None /\ w.early <= T(l) /\ T(l) < w.late - Overlap)
==============================================================================
