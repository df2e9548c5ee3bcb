------------------------------- MODULE Upkeep -------------------------------
(***************************************************************************)
(* The cron trigger: its hourly clean-up behind three throttles, the       *)
(* deletion of expired logs within a daily budget, the clearing of users   *)
(* who resolve nothing any more, the turn of the lists; and the activity   *)
(* timestamps that DNS queries leave for it.                               *)
(*                                                                         *)
(*   cron.ts                  handleScheduled                              *)
(*   models/log/retention.ts  cleanupGlobal                                *)
(*   models/user/lifecycle.ts applyInactivityPolicy                        *)
(*   models/systemSettings.ts get, set                                     *)
(*   api/doh.ts               the task left to waitUntil                   *)
(*                                                                         *)
(* Time is told by ages: every timestamp is the number of ticks since it   *)
(* was taken, up to a number from which on nothing compares it; a missing  *)
(* one is that old.  So the clock needs no bound.                          *)
(***************************************************************************)
EXTENDS Integers, FiniteSets

CONSTANTS
    Isolate,        \* each with its own memory
    Pass,           \* runs of the cron trigger that may be under way at once
    Visit,          \* tasks of DNS queries that may be
    Profile, User,
    Owner,          \* of each profile
    None,
    Hour,           \* the 3600 seconds between clean-ups
    Memo,           \* CACHE_TTL_MS, how long an isolate trusts a setting it read
    Idle,           \* SYNC_IDLE_INTERVAL_SEC
    Active,         \* THROTTLE_ACTIVE_SEC
    Quiet,          \* the 30 days
    Batch,          \* LOG_CLEANUP_BATCH_LIMIT
    Budget,         \* LOG_CLEANUP_DAILY_BUDGET, 0 for none
    Chunk,          \* CHUNK_SIZE
    Delay,          \* bound: ticks that a pass or a task takes
    MaxLapses,      \* bound: of the count lapses
    Plans           \* bound: who acts in a behaviour, and how often

ASSUME NumbersAssumption ==
    /\ {Hour, Memo, Idle, Active, Quiet, Batch, Budget, Chunk, Delay, MaxLapses}
         \subseteq Nat
    /\ Chunk > 0
ASSUME FiniteAssumption == IsFiniteSet(Pass) /\ IsFiniteSet(Profile)
ASSUME OwnerAssumption == Owner \in [Profile -> User]
(* A second clean-up of an isolate comes later than what it remembers of   *)
(* the daily count, so Memo matters to the stamp only.                     *)
ASSUME MemoAssumption == Memo <= Hour
ASSUME PlansAssumption ==
    Plans \subseteq [isolates : SUBSET Isolate, passes : SUBSET Pass, visits : SUBSET Visit,
                     rows : SUBSET Profile, plain : SUBSET User,
                     delay : 0..Delay, turn : BOOLEAN, due : Nat, logs : Nat, stale : Nat, faults : Nat]

VARIABLES
    plan,           \* the bounds in force; rows: the profiles there are at first;
                    \* plain: users who are not administrators; turn: whether
                    \* passes go on to the lists, which no clean-up depends on
    faults,         \* failures so far
    memory,         \* lastCleanupMemoryTs of each isolate
    memo,           \* MEMORY_CACHE: the stamp as an isolate read it, and for how long yet
    shared,         \* cron:last_cleanup_timestamp in the cache
    stamp,          \* cron_last_cleanup_timestamp in system_settings
    run,            \* the passes
    last,           \* history: when the latest clean-up began
    profiles,       \* rows of profiles
    due,            \* for each profile, logs past its retention
    saved,          \* log_cleanup_daily_date and _count
    spent, lapses,  \* history: logs deleted today and the day before, and
                    \* how often their count got lost
    idle,           \* cron:last_idle_sync_check in the cache
    stale,          \* lists past their sync interval
    visit,          \* the tasks of DNS queries
    beat,           \* activeThrottleMemoryMap
    sharedBeat,     \* active_throttle:<profile> in the cache
    active,         \* users.last_active_at
    queried,        \* history: when a user last resolved a name
    missed          \* history: users whose latest record failed

throttle == <<memory, memo, shared, stamp, last>>
logs     == <<profiles, due, saved, spent, lapses>>
lists    == <<idle, stale>>
activity == <<visit, beat, sharedBeat, active, queried, missed>>
vars == <<plan, faults, throttle, run, logs, lists, activity>>

Smaller(a, b) == IF a <= b THEN a ELSE b
Larger(a, b) == IF a <= b THEN b ELSE a

(* Ages from which on a timestamp is as good as none. *)
Past == Hour + Delay
PastIdle == Idle + Delay
PastBeat == Active + Delay
PastActive == Quiet + Delay + 1
Ages(n) == 0..n

(* A date is today (0), yesterday (1) or older. *)
NoPass == [pc |-> "none", at |-> None, age |-> 0, met |-> FALSE, memo |-> FALSE,
           date |-> 0, todo |-> {}, per |-> 0, base |-> 0, gone |-> 0]
NoVisit == [pc |-> "none", at |-> None, of |-> None, age |-> 0]
Forgotten == [v |-> Past, left |-> 0]
NotSaved == [date |-> 2, n |-> 0]

Init ==
    /\ plan \in Plans /\ faults = 0
    /\ memory = [i \in Isolate |-> Past] /\ memo = [i \in Isolate |-> Forgotten]
    /\ shared = Past /\ stamp = Past /\ last = Past
    /\ run = [c \in Pass |-> NoPass]
    /\ profiles = plan.rows /\ due = [p \in Profile |-> IF p \in plan.rows THEN plan.due ELSE 0]
    /\ saved = NotSaved
    /\ spent = [d \in 0..1 |-> 0] /\ lapses = [d \in 0..1 |-> 0]
    /\ idle = PastIdle /\ stale = 0
    /\ visit = [q \in Visit |-> NoVisit]
    /\ beat = [i \in Isolate |-> [p \in Profile |-> PastBeat]]
    /\ sharedBeat = [p \in Profile |-> PastBeat]
    /\ active = [u \in User |-> IF u \in plan.plain THEN 0 ELSE PastActive]
    /\ queried = active
    /\ missed = [u \in User |-> FALSE]

Fault == faults < plan.faults /\ faults' = faults + 1
NoFault == UNCHANGED faults

-----------------------------------------------------------------------------
(* A pass: the throttles of the clean-up.                                  *)

At(c, pc) == run[c].pc = pc
Goto(c, pc) == run' = [run EXCEPT ![c].pc = pc]
Leave(c) == run' = [run EXCEPT ![c] = NoPass]

(* now - timestamp < span, with the clock read at the beginning.           *)
Within(age, span, c) == age - run[c].age < span

Begin(c, i) ==
    /\ At(c, "none") /\ c \in plan.passes /\ i \in plan.isolates
    /\ run' = [run EXCEPT ![c] = [NoPass EXCEPT
                  !.pc = IF memory[i] < Hour THEN "lists" ELSE "shared", !.at = i]]
    /\ UNCHANGED <<plan, faults, throttle, logs, lists, activity>>

AskShared(c) ==
    /\ At(c, "shared")
    /\ \/ /\ Within(shared, Hour, c)
          /\ memory' = [memory EXCEPT ![run[c].at] = shared]
          /\ Goto(c, "lists")
       \/ /\ ~Within(shared, Hour, c)
          /\ Goto(c, "stamp") /\ UNCHANGED memory
    /\ UNCHANGED <<plan, faults, memo, shared, stamp, last, logs, lists, activity>>

(* get answers from memory while it may; a read that fails is taken, and   *)
(* remembered (for a minute, here for Memo), for the absence of the        *)
(* setting.                                                                *)
AskStamp(c) ==
    LET i == run[c].at
        known == memo[i].left > 0
    IN /\ At(c, "stamp")
       /\ \E v \in IF known THEN {memo[i].v} ELSE {stamp, Past} :
             /\ IF known \/ v = stamp THEN NoFault ELSE Fault
             /\ memo' = IF known THEN memo ELSE [memo EXCEPT ![i] = [v |-> v, left |-> Memo]]
             /\ \/ /\ Within(v, Hour, c)
                   /\ memory' = [memory EXCEPT ![i] = v]
                   /\ Goto(c, "lists")
                \/ /\ ~Within(v, Hour, c)
                   /\ memory' = [memory EXCEPT ![i] = run[c].age]
                   /\ run' = [run EXCEPT ![c].pc = "mark", ![c].memo = known]
       /\ UNCHANGED <<plan, shared, stamp, last, logs, lists, activity>>

(* Mutant: the cache is not told that a clean-up begins.                   *)
MarkNothing(c) ==
    /\ At(c, "mark") /\ Goto(c, "persist")
    /\ UNCHANGED <<plan, faults, throttle, logs, lists, activity>>
Mark(c) ==
    /\ At(c, "mark")
    /\ shared' = run[c].age
    /\ Goto(c, "persist")
    /\ UNCHANGED <<plan, faults, memory, memo, stamp, last, logs, lists, activity>>

(* The cache fails, which nothing catches but the end of the handler.      *)
Abandon(c) ==
    /\ run[c].pc \in {"shared", "mark"} /\ Fault
    /\ Leave(c)
    /\ UNCHANGED <<plan, throttle, logs, lists, activity>>

Persist(c) ==
    /\ At(c, "persist")
    /\ \/ /\ stamp' = run[c].age
          /\ memo' = [memo EXCEPT ![run[c].at] = [v |-> run[c].age, left |-> Memo]]
          /\ NoFault
       \/ Fault /\ UNCHANGED <<stamp, memo>>
    /\ last' = run[c].age
    /\ run' = [d \in Pass |-> IF d = c THEN [run[d] EXCEPT !.pc = "inactive"]
                              ELSE [run[d] EXCEPT !.met = ~At(d, "none")]]
    /\ UNCHANGED <<plan, memory, shared, logs, lists, activity>>

-----------------------------------------------------------------------------
(* A pass: the jobs of the clean-up.  A job that fails ends itself only.   *)

(* applyInactivityPolicy: one batch of statements; that it removes users   *)
(* who have not logged in for 90 days is left out.                         *)
Silent(c) == {p \in profiles : /\ Owner[p] \in plan.plain
                               /\ active[Owner[p]] - run[c].age > Quiet}
Clear(c) ==
    /\ At(c, "inactive") /\ Goto(c, "select")
    /\ \/ /\ profiles' = profiles \ Silent(c)
          /\ due' = [p \in Profile |-> IF p \in Silent(c) THEN 0 ELSE due[p]]
          /\ NoFault
       \/ Fault /\ UNCHANGED <<profiles, due>>
    /\ UNCHANGED <<plan, throttle, saved, spent, lapses, lists, activity>>

Retaining == {c \in Pass : run[c].pc \in {"count", "delete", "save"}}
Lapse(d) == lapses' = [lapses EXCEPT ![d] = Smaller(@ + 1, MaxLapses)]

(* cleanupGlobal: the profiles and today's date.  Of the counts that two    *)
(* passes save, even for two days, one is lost.                            *)
Select(c) ==
    /\ At(c, "select")
    /\ \/ /\ profiles # {} /\ NoFault
          /\ run' = [run EXCEPT ![c].pc = "count", ![c].todo = profiles, ![c].date = 0]
          /\ lapses' = [d \in 0..1 |->
                IF Retaining # {} /\ (d = 0 \/ \E b \in Retaining : run[b].date = d)
                THEN Smaller(lapses[d] + 1, MaxLapses) ELSE lapses[d]]
       \/ profiles = {} /\ NoFault /\ Goto(c, "lists") /\ UNCHANGED lapses
       \/ Fault /\ Goto(c, "lists") /\ UNCHANGED lapses
    /\ UNCHANGED <<plan, throttle, profiles, due, saved, spent, lists, activity>>

Remaining(base) == Larger(0, Budget - base)
Limit(base) == IF Budget > 0 THEN Smaller(Batch, Remaining(base)) ELSE Batch
(* Mutant: a share may be nothing.                                         *)
PerProfileRounded(base, n) == Limit(base) \div n
PerProfile(base, n) == Larger(1, Limit(base) \div n)

(* The daily count so far, none if it cannot be read; then the limits.     *)
Count(c) ==
    /\ At(c, "count")
    /\ \E base \in {IF saved.date = run[c].date THEN saved.n ELSE 0, 0} :
          /\ \/ base = (IF saved.date = run[c].date THEN saved.n ELSE 0)
                /\ NoFault /\ UNCHANGED lapses
             \/ base = 0 /\ Fault /\ Lapse(run[c].date)
          /\ run' = [run EXCEPT
                ![c].pc = IF Limit(base) = 0 THEN "lists" ELSE "delete",
                ![c].base = base, ![c].per = PerProfile(base, Cardinality(run[c].todo))]
    /\ UNCHANGED <<plan, throttle, profiles, due, saved, spent, lists, activity>>

Total(f, S) == LET sum[T \in SUBSET S] ==
                     IF T = {} THEN 0
                     ELSE LET x == CHOOSE x \in T : TRUE IN f[x] + sum[T \ {x}]
               IN sum[S]

(* One batch of deletions.  If it fails (or that of the roll-ups before    *)
(* it), those already done are not counted.                                *)
Delete(c) ==
    /\ At(c, "delete")
    /\ \/ \E S \in SUBSET run[c].todo :
            LET cut == [p \in S |-> Smaller(run[c].per, due[p])]
                left == run[c].todo \ S
            IN /\ Cardinality(S) = Smaller(Chunk, Cardinality(run[c].todo))
               /\ due' = [p \in Profile |-> IF p \in S THEN due[p] - cut[p] ELSE due[p]]
               /\ spent' = [spent EXCEPT ![run[c].date] = @ + Total(cut, S)]
               /\ run' = [run EXCEPT ![c].todo = left, ![c].gone = @ + Total(cut, S),
                             ![c].pc = CASE left # {} -> "delete"
                                         [] left = {} /\ Budget > 0 -> "save"
                                         [] left = {} /\ Budget = 0 -> "lists"]
               /\ NoFault /\ UNCHANGED lapses
       \/ /\ Fault /\ Lapse(run[c].date)
          /\ Goto(c, "lists") /\ UNCHANGED <<due, spent>>
    /\ UNCHANGED <<plan, throttle, profiles, saved, lists, activity>>

(* Mutant: what this pass deleted is saved for what the day did.           *)
SaveOwn(c) ==
    /\ At(c, "save") /\ Goto(c, "lists")
    /\ \/ saved' = [date |-> run[c].date, n |-> run[c].gone] /\ NoFault /\ UNCHANGED lapses
       \/ Fault /\ Lapse(run[c].date) /\ UNCHANGED saved
    /\ UNCHANGED <<plan, throttle, profiles, due, spent, lists, activity>>
(* Mutant: a batch that does not tell its changes makes the sum NaN.       *)
SaveNaN(c) ==
    /\ At(c, "save") /\ Goto(c, "lists") /\ NoFault
    /\ saved' = [date |-> run[c].date, n |-> None]
    /\ UNCHANGED <<plan, throttle, profiles, due, spent, lapses, lists, activity>>
Save(c) ==
    /\ At(c, "save") /\ Goto(c, "lists")
    /\ \/ /\ saved' = [date |-> run[c].date, n |-> run[c].base + run[c].gone]
          /\ NoFault /\ UNCHANGED lapses
       \/ Fault /\ Lapse(run[c].date) /\ UNCHANGED saved
    /\ UNCHANGED <<plan, throttle, profiles, due, spent, lists, activity>>

-----------------------------------------------------------------------------
(* A pass: one list.  syncNextGlobalList answers a failure as it does when *)
(* there is nothing to do; and what it answers may not reach the cache.    *)
Lists(c) ==
    /\ At(c, "lists")
    /\ \/ plan.turn /\ ~Within(idle, Idle, c) /\ Goto(c, "sync") /\ NoFault
       \/ plan.turn /\ Within(idle, Idle, c) /\ Leave(c) /\ NoFault
       \/ plan.turn /\ Leave(c) /\ Fault
       \/ ~plan.turn /\ Leave(c) /\ NoFault
    /\ UNCHANGED <<plan, throttle, logs, lists, activity>>

Sync(c) ==
    /\ At(c, "sync") /\ Leave(c)
    /\ \/ stale > 0 /\ stale' = stale - 1 /\ idle' = PastIdle /\ NoFault
       \/ stale > 0 /\ stale' = stale - 1 /\ UNCHANGED idle /\ Fault
       \/ stale = 0 /\ idle' = run[c].age /\ NoFault /\ UNCHANGED stale
       \/ stale > 0 /\ idle' = run[c].age /\ Fault /\ UNCHANGED stale
       \/ stale = 0 /\ Fault /\ UNCHANGED lists
    /\ UNCHANGED <<plan, throttle, logs, activity>>

-----------------------------------------------------------------------------
(* A DNS query of profile p: its task records that the owner is active,    *)
(* at most once per Active in an isolate, or in the cache they share.      *)

AtTask(q, pc) == visit[q].pc = pc
GotoTask(q, pc) == visit' = [visit EXCEPT ![q].pc = pc]
EndTask(q) == visit' = [visit EXCEPT ![q] = NoVisit]
UserOf(q) == Owner[visit[q].of]

(* Mutant: each query renews the throttle it meets.                        *)
QueryRenews(q, i, p) ==
    /\ AtTask(q, "none") /\ q \in plan.visits /\ i \in plan.isolates /\ p \in profiles
    /\ queried' = [queried EXCEPT ![Owner[p]] = 0]
    /\ IF beat[i][p] < Active THEN beat' = [beat EXCEPT ![i][p] = 0] /\ UNCHANGED visit
       ELSE /\ visit' = [visit EXCEPT ![q] = [pc |-> "ask", at |-> i, of |-> p, age |-> 0]]
            /\ UNCHANGED beat
    /\ UNCHANGED <<plan, faults, throttle, run, logs, lists, sharedBeat, active, missed>>
Query(q, i, p) ==
    /\ AtTask(q, "none") /\ q \in plan.visits /\ i \in plan.isolates /\ p \in profiles
    /\ queried' = [queried EXCEPT ![Owner[p]] = 0]
    /\ visit' = IF beat[i][p] < Active THEN visit
                ELSE [visit EXCEPT ![q] = [pc |-> "ask", at |-> i, of |-> p, age |-> 0]]
    /\ UNCHANGED <<plan, faults, throttle, run, logs, lists, beat, sharedBeat,
                   active, missed>>

AskBeat(q) ==
    LET v == sharedBeat[visit[q].of]
        known == v - visit[q].age < Active
        mark(a) == beat' = [beat EXCEPT ![visit[q].at][visit[q].of] = a]
    IN /\ AtTask(q, "ask")
       /\ \/ known /\ mark(v) /\ EndTask(q) /\ NoFault /\ UNCHANGED missed
          \/ ~known /\ mark(visit[q].age) /\ GotoTask(q, "write") /\ NoFault /\ UNCHANGED missed
          \/ /\ Fault /\ missed' = [missed EXCEPT ![UserOf(q)] = TRUE]
             /\ EndTask(q) /\ UNCHANGED beat
       /\ UNCHANGED <<plan, throttle, run, logs, lists, sharedBeat, active, queried>>

(* The row is found by the profile, which may be gone. *)
Record(q) ==
    /\ AtTask(q, "write") /\ GotoTask(q, "share")
    /\ \/ /\ NoFault
          /\ active' = [active EXCEPT ![UserOf(q)] =
                           IF visit[q].of \in profiles THEN visit[q].age ELSE @]
          /\ missed' = [missed EXCEPT ![UserOf(q)] = FALSE]
       \/ /\ Fault /\ UNCHANGED active
          /\ missed' = [missed EXCEPT ![UserOf(q)] = TRUE]
    /\ UNCHANGED <<plan, throttle, run, logs, lists, beat, sharedBeat, queried>>

(* Whether the row was written or not. *)
Share(q) ==
    /\ AtTask(q, "share") /\ EndTask(q)
    /\ \/ NoFault /\ sharedBeat' = [sharedBeat EXCEPT ![visit[q].of] = visit[q].age]
       \/ Fault /\ UNCHANGED sharedBeat
    /\ UNCHANGED <<plan, throttle, run, logs, lists, beat, active, queried, missed>>

-----------------------------------------------------------------------------
(* The environment.                                                        *)

(* The runtime ends an isolate with all that runs in it.                   *)
End(i) ==
    LET here == {c \in Pass : run[c].at = i}
        tasks == {q \in Visit : visit[q].at = i}
    IN /\ Fault /\ i \in plan.isolates
       /\ memory' = [memory EXCEPT ![i] = Past]
       /\ memo' = [memo EXCEPT ![i] = Forgotten]
       /\ beat' = [beat EXCEPT ![i] = [p \in Profile |-> PastBeat]]
       /\ run' = [c \in Pass |-> IF c \in here THEN NoPass ELSE run[c]]
       /\ visit' = [q \in Visit |-> IF q \in tasks THEN NoVisit ELSE visit[q]]
       /\ missed' = [u \in User |-> missed[u] \/ \E q \in tasks : UserOf(q) = u]
       /\ lapses' = [d \in 0..1 |-> Smaller(MaxLapses,
              lapses[d] + Cardinality({c \in here \cap Retaining : run[c].date = d}))]
       /\ UNCHANGED <<plan, shared, stamp, last, profiles, due, saved, spent, lists,
                      sharedBeat, active, queried>>

(* The cache drops an entry when it likes. *)
Evict ==
    /\ Fault
    /\ \/ shared < Past /\ shared' = Past /\ UNCHANGED <<idle, sharedBeat>>
       \/ idle < PastIdle /\ idle' = PastIdle /\ UNCHANGED <<shared, sharedBeat>>
       \/ /\ \E p \in Profile : /\ sharedBeat[p] < PastBeat
                                /\ sharedBeat' = [sharedBeat EXCEPT ![p] = PastBeat]
          /\ UNCHANGED <<shared, idle>>
    /\ UNCHANGED <<plan, memory, memo, stamp, last, run, logs, stale,
                   visit, beat, active, queried, missed>>

(* A log passes the retention of its profile, or a list its interval.      *)
Expire(p) ==
    /\ plan.logs > 0 /\ p \in profiles
    /\ plan' = [plan EXCEPT !.logs = @ - 1]
    /\ due' = [due EXCEPT ![p] = @ + 1]
    /\ UNCHANGED <<faults, throttle, run, profiles, saved, spent, lapses, lists, activity>>

Outdate ==
    /\ plan.stale > 0
    /\ plan' = [plan EXCEPT !.stale = @ - 1]
    /\ stale' = stale + 1
    /\ UNCHANGED <<faults, throttle, run, logs, idle, activity>>

Older(a, n) == Smaller(a + 1, n)

Tick ==
    /\ \A c \in Pass : At(c, "none") \/ run[c].age < plan.delay
    /\ \A q \in Visit : AtTask(q, "none") \/ visit[q].age < plan.delay
    /\ memory' = [i \in Isolate |-> Older(memory[i], Past)]
    /\ memo' = [i \in Isolate |-> IF memo[i].left <= 1 THEN Forgotten
                                  ELSE [v |-> Older(memo[i].v, Past), left |-> memo[i].left - 1]]
    /\ shared' = Older(shared, Past) /\ stamp' = Older(stamp, Past)
    /\ last' = Older(last, Past) /\ idle' = Older(idle, PastIdle)
    /\ run' = [c \in Pass |-> IF At(c, "none") THEN run[c] ELSE [run[c] EXCEPT !.age = @ + 1]]
    /\ visit' = [q \in Visit |-> IF AtTask(q, "none") THEN visit[q]
                                 ELSE [visit[q] EXCEPT !.age = @ + 1]]
    /\ beat' = [i \in Isolate |-> [p \in Profile |-> Older(beat[i][p], PastBeat)]]
    /\ sharedBeat' = [p \in Profile |-> Older(sharedBeat[p], PastBeat)]
    /\ active' = [u \in User |-> Older(active[u], PastActive)]
    /\ queried' = [u \in User |-> Older(queried[u], PastActive)]
    /\ UNCHANGED <<plan, faults, logs, stale, missed>>

(* Midnight, UTC.  Yesterday matters only to a pass that still deletes for *)
(* it.  How many clean-ups a day has does not matter here; a pass is       *)
(* shorter than a day.                                                     *)
Midnight ==
    LET kept == Retaining # {}
        shifted(f) == [d \in 0..1 |-> IF d = 1 /\ kept THEN f[0] ELSE 0]
    IN /\ \A c \in Retaining : run[c].date = 0
       /\ run' = [c \in Pass |-> IF c \in Retaining THEN [run[c] EXCEPT !.date = 1] ELSE run[c]]
       /\ saved' = IF kept /\ saved.date = 0 THEN [saved EXCEPT !.date = 1] ELSE NotSaved
       /\ spent' = shifted(spent) /\ lapses' = shifted(lapses)
       /\ UNCHANGED <<plan, faults, throttle, profiles, due, lists, activity>>

CleanUp(c) == AskShared(c) \/ AskStamp(c) \/ Mark(c) \/ Abandon(c) \/ Persist(c) \/ Clear(c)
Retain(c) == Select(c) \/ Count(c) \/ Delete(c) \/ Save(c)
Advance(c) == CleanUp(c) \/ Retain(c) \/ Lists(c) \/ Sync(c)
Work(q) == AskBeat(q) \/ Record(q) \/ Share(q)

Next ==
    \/ \E c \in Pass : Advance(c) \/ \E i \in Isolate : Begin(c, i)
    \/ \E q \in Visit : Work(q) \/ \E i \in Isolate, p \in Profile : Query(q, i, p)
    \/ \E i \in Isolate : End(i)
    \/ Evict \/ Outdate \/ Tick \/ Midnight
    \/ \E p \in Profile : Expire(p)

Spec == Init /\ [][Next]_vars

(* Time does not stop, the trigger fires every minute, and what a handler  *)
(* awaits comes or fails.  Nothing is assumed of users or failures.        *)
FairSpec ==
    /\ Spec /\ []<><<Tick>>_vars /\ WF_vars(Midnight)
    /\ WF_vars(\E c \in Pass, i \in Isolate : Begin(c, i))
    /\ \A c \in Pass : WF_vars(Advance(c))
    /\ \A q \in Visit : WF_vars(Work(q))

-----------------------------------------------------------------------------
(* Properties.                                                             *)

(* Types.  The count that is saved stays a number whatever the database     *)
(* answers to a deletion.                                                  *)
TypeOK ==
    /\ faults \in Nat
    /\ memory \in [Isolate -> Ages(Past)]
    /\ memo \in [Isolate -> [v : Ages(Past), left : 0..Memo]]
    /\ {shared, stamp, last} \subseteq Ages(Past)
    /\ run \in [Pass ->
          [pc : {"none", "shared", "stamp", "mark", "persist", "inactive", "select", "count",
                 "delete", "save", "lists", "sync"},
           at : Isolate \cup {None}, age : 0..Delay, met : BOOLEAN, memo : BOOLEAN,
           date : 0..1, todo : SUBSET Profile, per : Nat, base : Nat, gone : Nat]]
    /\ visit \in [Visit -> [pc : {"none", "ask", "write", "share"}, at : Isolate \cup {None},
                            of : Profile \cup {None}, age : 0..Delay]]
    /\ profiles \subseteq Profile /\ due \in [Profile -> Nat]
    /\ saved \in [date : 0..2, n : Nat]
    /\ spent \in [0..1 -> Nat] /\ lapses \in [0..1 -> Nat]
    /\ idle \in Ages(PastIdle) /\ stale \in Nat
    /\ sharedBeat \in [Profile -> Ages(PastBeat)]
    /\ beat \in [Isolate -> [Profile -> Ages(PastBeat)]]
    /\ active \in [User -> Ages(PastActive)] /\ queried \in [User -> Ages(PastActive)]
    /\ missed \in [User -> BOOLEAN]

(* The hourly throttle of cron.ts survives any one failure: two clean-ups  *)
(* begin less than an hour apart only if one began while the other was     *)
(* deciding, after two failures, or after one if the isolate judged by its *)
(* copy of the stamp.                                                      *)
ThrottleHolds ==
    [][\A c \in Pass : At(c, "persist") /\ run'[c].pc = "inactive" =>
          \/ last - run[c].age >= Hour - Delay
          \/ run[c].met \/ faults' > 1 \/ (faults' = 1 /\ run[c].memo)]_vars

(* The daily budget of deletions, over all the passes of a day: every      *)
(* profile may lose one log although the budget is used up, and each time  *)
(* the count gets lost costs no more than another budget.                  *)
BudgetHolds ==
    Budget > 0 => \A d \in 0..1 :
        \/ spent[d] <= (1 + lapses[d]) * (Budget + Larger(1, Cardinality(plan.rows)) - 1)
        \/ lapses[d] = MaxLapses

(* The profiles of a user who resolved something within the 30 days (less  *)
(* the throttle of the records) are not cleared, whichever isolates the    *)
(* queries met, unless the record is on its way or failed.                 *)
ActiveKept ==
    [][\A p \in profiles \ profiles' :
          \/ queried[Owner[p]] > Quiet - Active - Delay
          \/ missed[Owner[p]]
          \/ \E q \in Visit : ~AtTask(q, "none") /\ UserOf(q) = Owner[p]]_vars

(* However small the budget and whatever failed, the logs past their       *)
(* retention are deleted in the end, and the lists past their interval     *)
(* have their turn.                                                        *)
KeepsUp ==
    /\ stale > 0 ~> stale = 0
    /\ \A p \in Profile : due[p] > 0 ~> due[p] = 0
=============================================================================
