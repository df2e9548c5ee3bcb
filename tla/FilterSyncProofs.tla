-------------------------- MODULE FilterSyncProofs --------------------------
(***************************************************************************)
(* What FilterSync promises, for every set of tasks, cron passes, profiles,*)
(* rows and every bound.                                                   *)
(*                                                                         *)
(* First the refinement: FilterSync uses the mutex as SyncMutex specifies. *)
(* Then an inductive invariant, IInv, about every body wherever it is and  *)
(* whatever overlaps or fails: with it the types hold and no profile gets  *)
(* a list it never had a row for. Last, Solo, which IInv does not imply:   *)
(* without overlap a profile's filter and rules fit its rows, except for   *)
(* what the one body under way is still going to write. Where nothing is   *)
(* under way, nothing is left to write, and that is Converged.             *)
(***************************************************************************)
EXTENDS FilterSync, TLAPS, WellFoundedInduction

(* The one fact the mutex needs to know of its callers: a request handler  *)
(* asks for well-formed syncs only.                                        *)
AskOK == ask \in [Tasks -> M!Asks \cup {M!NoRequest}]

LEMMA AskIsRequest ==
  ASSUME NEW k \in Kinds, NEW p \in Profiles, NEW l \in Subs \cup {None},
         (k = "single") <=> (l # None)
  PROVE  [kind |-> k, profile |-> p, list |-> l] \in M!Asks
BY DEF M!Asks, M!Request

LEMMA AskOKInit == Init => AskOK
BY DEF Init, AskOK

LEMMA ApiAsks ==
  ASSUME AskOK, NEW t \in Tasks, Api(t)
  PROVE  AskOK' /\ UNCHANGED mutex
<1> USE RowsAssumption, NoneAssumption
<1>a. ASSUME NEW k \in Kinds, NEW p \in Profiles, NEW l \in Subs \cup {None},
             (k = "single") <=> (l # None), Asking(t, k, p, l)
      PROVE  AskOK'
  <2>1. [kind |-> k, profile |-> p, list |-> l] \in M!Asks
    BY <1>a, AskIsRequest
  <2> QED BY <1>a, <2>1 DEF AskOK, Asking
<1>1. ASSUME NEW l \in Subs, AddList(t, l)
      PROVE  AskOK' /\ UNCHANGED mutex
  <2>1. Asking(t, "single", Owner[l], l) /\ UNCHANGED mutex
    BY <1>1 DEF AddList, Edited
  <2> QED BY <2>1, <1>a DEF Kinds
<1>2. ASSUME NEW l \in Subs, DeleteList(t, l)
      PROVE  AskOK' /\ UNCHANGED mutex
  <2>1. Asking(t, "rebuild", Owner[l], None) /\ UNCHANGED mutex
    BY <1>2 DEF DeleteList, Edited
  <2> QED BY <2>1, <1>a DEF Kinds
<1>3. ASSUME NEW l \in Subs, SyncSingle(t, l)
      PROVE  AskOK' /\ UNCHANGED mutex
  <2>1. Asking(t, "single", Owner[l], l) /\ UNCHANGED mutex
    BY <1>3 DEF SyncSingle, Edited
  <2> QED BY <2>1, <1>a DEF Kinds
<1>4. ASSUME NEW l \in Subs, NEW s \in {"on", "off"}, SetEnabled(t, l, s)
      PROVE  AskOK' /\ UNCHANGED mutex
  <2>1. Asking(t, "rebuild", Owner[l], None) /\ UNCHANGED mutex
    BY <1>4 DEF SetEnabled, Edited
  <2> QED BY <2>1, <1>a DEF Kinds
<1>5. ASSUME NEW p \in Profiles, SyncAll(t, p)
      PROVE  AskOK' /\ UNCHANGED mutex
  <2>1. Asking(t, "all", p, None) /\ UNCHANGED mutex
    BY <1>5 DEF SyncAll, Edited
  <2> QED BY <2>1, <1>a DEF Kinds
<1>6. ASSUME NEW p \in Profiles, NEW ls \in SUBSET Rows(p), NEW on \in SUBSET ls,
             AddBulk(t, p, ls, on)
      PROVE  AskOK' /\ UNCHANGED mutex
  <2>1. Asking(t, "rebuild", p, None) /\ UNCHANGED mutex
    BY <1>6 DEF AddBulk, Edited
  <2> QED BY <2>1, <1>a DEF Kinds
<1> QED BY <1>1, <1>2, <1>3, <1>4, <1>5, <1>6 DEF Api

(* Every step of a body but its end leaves mutex and requests alone.       *)
LEMMA StepsAside ==
  ASSUME NEW t \in Tasks \cup Crons, Step(t)
  PROVE  /\ UNCHANGED ask
         /\ UNCHANGED mutex \/ (t \in Tasks /\ M!Finish(t))
<1>1. CASE End(t)
  BY <1>1 DEF End
<1>2. CASE BeginAll(t) \/ BeginSingle(t) \/ BeginRebuild(t) \/ ReadLists(t)
           \/ Probe(t) \/ ProbeDone(t) \/ ReadSubscribers(t) \/ CronDone(t)
           \/ Combine(t) \/ (\E h \in Tables : Load(t, h))
  BY <1>2 DEF BeginAll, BeginSingle, BeginRebuild, ReadLists, Probe, ProbeDone,
              ReadSubscribers, CronDone, Combine, Load, Reads
<1>3. CASE (\E p \in Profiles : NextSubscriber(t, p)) \/ (\E l \in Subs : ProbeFails(t, l))
  BY <1>3 DEF NextSubscriber, ProbeFails, Reads
<1>4. CASE NotModified(t) \/ Fetched(t) \/ FetchFails(t)
  BY <1>4 DEF NotModified, Fetched, FetchFails
<1>5. CASE Wipe(t) \/ Touch(t) \/ TouchLast(t) \/ LoadFails(t)
  BY <1>5 DEF Wipe, Touch, TouchLast, Touched, LoadFails
<1>6. CASE (\E h \in Tables : Put(t, h)) \/ PutDone(t) \/ Restore(t) \/ Throws(t)
  BY <1>6 DEF Put, PutDone, Touched, Restore, Throws
<1> QED BY <1>1, <1>2, <1>3, <1>4, <1>5, <1>6 DEF Step

LEMMA StepRefines ==
  ASSUME AskOK, [Next]_vars
  PROVE  AskOK' /\ [M!Next]_(M!vars)
<1>1. CASE UNCHANGED vars
  BY <1>1 DEF vars, mutex, AskOK, M!vars
<1>2. CASE \E u \in Urls : SourceChanges(u) \/ IntervalEnds(u)
  BY <1>2 DEF SourceChanges, IntervalEnds, mutex, AskOK, M!vars
<1>3. ASSUME NEW t \in Tasks, Api(t)
      PROVE  AskOK' /\ [M!Next]_(M!vars)
  BY <1>3, ApiAsks DEF mutex, M!vars
<1>4. ASSUME NEW t \in Tasks, Call(t)
      PROVE  AskOK' /\ [M!Next]_(M!vars)
  <2>1. ask[t] \in M!Asks
    BY <1>4 DEF Call, AskOK
  <2>2. AskOK'
    BY <1>4 DEF Call, AskOK
  <2>3. M!StartAtOnce(t, ask[t]) \/ M!JoinAtOnce(t, ask[t]) \/ M!WaitForOther(t, ask[t])
    BY <1>4 DEF Call
  <2> QED BY <2>1, <2>2, <2>3 DEF M!Next
<1>5. ASSUME NEW t \in Tasks, Wake(t)
      PROVE  AskOK' /\ [M!Next]_(M!vars)
  <2>1. UNCHANGED ask /\ (M!WakeAndStart(t) \/ M!WakeAndJoin(t))
    BY <1>5 DEF Wake
  <2> QED BY <2>1 DEF M!Next, AskOK
<1>6. CASE \E c \in Crons, u \in Urls : CronPass(c, u)
  BY <1>6 DEF CronPass, Reads, mutex, AskOK, M!vars
<1>7. ASSUME NEW t \in Tasks \cup Crons, Step(t)
      PROVE  AskOK' /\ [M!Next]_(M!vars)
  <2>1. UNCHANGED ask /\ (UNCHANGED mutex \/ (t \in Tasks /\ M!Finish(t)))
    BY <1>7, StepsAside
  <2> QED BY <2>1 DEF M!Next, AskOK, mutex, M!vars
<1>8. CASE Restart
  <2>1. M!Restart /\ ask' = [t \in Tasks |-> M!NoRequest]
    BY <1>8 DEF Restart
  <2> QED BY <2>1 DEF M!Next, AskOK
<1>9. Next => \/ \E u \in Urls : SourceChanges(u) \/ IntervalEnds(u)
              \/ \E t \in Tasks : Api(t) \/ Call(t) \/ Wake(t)
              \/ \E c \in Crons, u \in Urls : CronPass(c, u)
              \/ \E t \in Tasks \cup Crons : Step(t)
              \/ Restart
  BY DEF Next
<1> QED BY <1>1, <1>2, <1>3, <1>4, <1>5, <1>6, <1>7, <1>8, <1>9

(* The system of bodies, API handlers and cron passes is an implementation *)
(* of SyncMutex: whatever the bodies do, the mutex only takes the steps it *)
(* is specified to take.                                                   *)
THEOREM ImplementsMutex == Spec => MutexSpec
<1>1. Init => M!Init
  BY DEF Init
<1> QED BY <1>1, AskOKInit, StepRefines, PTL DEF Spec, MutexSpec, M!Spec

-----------------------------------------------------------------------------
(* What a body may be where, by the kind of the sync.                      *)
Placed(x) ==
    /\ x.at # "idle" /\ x.kind \in Kinds \cup {"cron"}
    /\ x.kind = "cron" => x.at \in {"fetch", "subscribers", "next", "combine", "load", "put"}
    /\ x.at \in {"subscribers", "next"} => x.kind = "cron"
    /\ x.at \in {"wipe", "stamp", "last"} => x.kind = "all"
    /\ x.at \in {"lists", "restore"} => x.kind = "rebuild"
    /\ x.at = "touch" => x.kind \in {"all", "single"}

Own(p, m) == /\ \E l \in Rows(p) : UrlOf[l] = m[1] /\ sub[l] # "none"
             /\ m[2] <= filter[m[1]]

BodyOK(x) ==
    /\ x \in Bodies
    /\ x = Idle \/ Placed(x)
    /\ x.at \in {"fetch", "subscribers"} => x.url \in Urls
    /\ x.at \notin {"idle", "fetch", "subscribers", "next"} => x.profile \in Profiles
    /\ x.at \in {"load", "put"} => \A h \in Tables : \A m \in x.got[h] : Own(x.profile, m)
    /\ x.at = "load" => /\ x.todo # {} /\ x.todo \subseteq Rows(x.profile)
                        /\ \A l \in x.todo : sub[l] # "none"

(* Which task may have which body: the mutex, and the requests.            *)
Runs(t, x) ==
    IF t \in Crons THEN x = Idle \/ x.kind = "cron"
    ELSE IF pc[t] = "running" THEN x # Idle /\ x.kind = req[t].kind /\ x.profile = req[t].profile
    ELSE x = Idle

MutexOK == M!TypeOK /\ M!EntryIsAlive
TablesOK == /\ source \in [Urls -> 1..MaxVersion]
            /\ tag \in [Urls -> 0..MaxVersion] /\ filter \in [Urls -> 0..MaxVersion]
            /\ \A u \in Urls : filter[u] <= source[u]
            /\ due \subseteq Urls
            /\ sub \in [Subs -> {"none", "on", "off", "gone"}]
            /\ stamped \in [Profiles -> BOOLEAN] /\ synced \in [Profiles -> BOOLEAN]
ActiveOK == /\ active \in [Tables -> [Profiles -> Merges]]
            /\ \A h \in Tables, p \in Profiles : \A m \in active[h][p] : Own(p, m)
AsksOK == /\ AskOK
          /\ \A t \in Tasks : ask[t] # M!NoRequest => pc[t] = "idle"
RunsOK == /\ run \in [Tasks \cup Crons -> Bodies]
          /\ \A t \in Tasks \cup Crons : BodyOK(run[t]) /\ Runs(t, run[t])
BudgetOK == budget \in Budgets /\ (budget.overlap \/ budget.faults = 0)

IInv == MutexOK /\ TablesOK /\ ActiveOK /\ AsksOK /\ RunsOK /\ BudgetOK

-----------------------------------------------------------------------------
(* Without overlap one actor at most is busy, and nobody waits.            *)
Busy(t) == run[t] # Idle \/ (t \in Tasks /\ ~Free(t))
Alone == \A t, u \in Tasks \cup Crons : Busy(t) /\ Busy(u) => t = u
NoWaiting == \A t \in Tasks : pc[t] \in {"idle", "running"}

(* A request for one row comes from the row's profile.                     *)
ForItsRow(r) == r.kind = "single" => r.list \in Rows(r.profile)
RowAsks == \A t \in Tasks : ForItsRow(ask[t]) /\ ForItsRow(req[t])

(* What t, where it is, is still going to write of a profile.              *)
Requested(r) == r.kind = "rebuild" \/ (r.kind = "single" /\ sub[r.list] = "on")
Rewrites(t, x, h) ==
    \/ x.at = "begin" /\ Requested(req[t])
    \/ x.at \in {"lists", "touch", "combine", "load"}
    \/ x.at \in {"probe", "fetch"} /\ (x.kind \in {"all", "rebuild"} \/ (x.kind = "single" /\ x.many))
    \/ x.at = "put" /\ h \in x.put
Pending(t, x, h, p) ==
    \/ x.profile = p /\ Rewrites(t, x, h)
    \/ x.at = "subscribers" /\ p \in Subscribers(x.url)
    \/ x.kind = "cron" /\ p \in x.rest
Owes(t, h, p) == \/ t \in Tasks /\ ask[t].profile = p /\ Requested(ask[t])
                 \/ Pending(t, run[t], h, p)

(* Where nothing more is to be written, filter and rules fit.              *)
Fitting == \A h \in Tables, p \in Profiles :
              (\A t \in Tasks \cup Crons : ~Owes(t, h, p)) => Fits(h, p)

(* What a body that runs alone knows.                                      *)
SoloBody(x) ==
    /\ x.kind = "cron" /\ x.at \in {"fetch", "subscribers"} => x.rest = {}
    /\ x.kind # "cron" /\ x.at \in {"probe", "fetch"} =>
          /\ x.todo \subseteq Rows(x.profile) /\ \A l \in x.todo : sub[l] # "none"
          /\ x.kind = "single" /\ ~x.many => \A l \in x.todo : sub[l] # "on"
    /\ x.kind # "cron" /\ x.at = "fetch" =>
          /\ filter[x.url] = 0
          /\ \E l \in Rows(x.profile) : /\ UrlOf[l] = x.url /\ sub[l] # "none"
                                        /\ x.kind = "single" /\ ~x.many => sub[l] # "on"
    /\ x.at = "wipe" => Active(x.profile) = {}
    /\ x.at = "load" =>
          /\ x.todo \subseteq Active(x.profile)
          /\ \A h \in Tables : x.got[h] = Merged(Active(x.profile) \ x.todo) \cup
                                (IF h \in x.put THEN {} ELSE Merged({First(x.todo)}))
    /\ x.at = "put" => \A h \in x.put : x.got[h] = Merged(Active(x.profile))

(* What a rebuild is going to put back is what it found.                   *)
Stamps(x) ==
    IF x.at = "restore" THEN x.prior = synced[x.profile]
    ELSE x.kind = "rebuild" /\ x.at \in {"lists", "probe", "fetch", "combine", "load", "put"} =>
           x.prior = stamped[x.profile]
Stamping == /\ \A t \in Tasks \cup Crons : Stamps(run[t])
            /\ \A p \in Profiles :
                  (\A t \in Tasks \cup Crons : run[t].at = "restore" => run[t].profile # p)
                     => stamped[p] = synced[p]

KnownFirst == \A l \in Start : filter[UrlOf[l]] # 0
Solo == ~budget.overlap =>
          /\ Alone /\ NoWaiting /\ RowAsks /\ Fitting /\ Stamping
          /\ \A t \in Tasks \cup Crons : SoloBody(run[t])

-----------------------------------------------------------------------------
(* The mutex by itself: its types, and that its entries are alive.         *)
LEMMA AsksAreRequests ==
  ASSUME NEW r \in M!Asks
  PROVE  /\ r \in M!Request /\ r.kind \in Kinds /\ r.profile \in Profiles
         /\ r # M!NoRequest
BY DEF M!Asks, M!Request, M!NoRequest, Kinds

LEMMA TasksFact == None \notin Tasks
BY NoneAssumption

LEMMA MutexInit == M!Init => MutexOK
BY BoundsAssumption DEF M!Init, MutexOK, M!TypeOK, M!EntryIsAlive, M!States

LEMMA MutexBegins ==
  ASSUME MutexOK, NEW t \in Tasks, NEW r \in M!Asks, pc[t] \in {"idle", "woken"},
         M!Begin(t, r)
  PROVE  MutexOK'
<1>1. M!TypeOK'
  BY AsksAreRequests DEF MutexOK, M!TypeOK, M!Begin, M!States
<1>2. ASSUME NEW p \in Profiles, inFlight'[p] # None
      PROVE  pc'[inFlight'[p]] = "running" /\ req'[inFlight'[p]].profile = p
  <2>1. CASE p = r.profile
    BY <2>1 DEF MutexOK, M!TypeOK, M!Begin
  <2>2. CASE p # r.profile
    <3>1. inFlight'[p] = inFlight[p] /\ inFlight[p] \in Tasks
      BY <1>2, <2>2, AsksAreRequests DEF MutexOK, M!TypeOK, M!Begin
    <3>2. inFlight[p] # t /\ pc[inFlight[p]] = "running" /\ req[inFlight[p]].profile = p
      BY <1>2, <3>1 DEF MutexOK, M!EntryIsAlive
    <3> QED BY <3>1, <3>2 DEF MutexOK, M!TypeOK, M!Begin
  <2> QED BY <2>1, <2>2
<1> QED BY <1>1, <1>2 DEF MutexOK, M!EntryIsAlive

LEMMA MutexAwaits ==
  ASSUME MutexOK, NEW t \in Tasks, NEW r \in M!Asks, pc[t] \in {"idle", "woken"},
         inFlight[r.profile] # None,
         M!Join(t, r, inFlight[r.profile]) \/ M!Wait(t, r, inFlight[r.profile])
  PROVE  MutexOK'
<1>1. M!TypeOK'
  BY AsksAreRequests DEF MutexOK, M!TypeOK, M!Join, M!Wait, M!States
<1>2. ASSUME NEW p \in Profiles, inFlight'[p] # None
      PROVE  pc'[inFlight'[p]] = "running" /\ req'[inFlight'[p]].profile = p
  <2>1. inFlight'[p] = inFlight[p] /\ inFlight[p] \in Tasks
    BY <1>2 DEF MutexOK, M!TypeOK, M!Join, M!Wait
  <2>2. inFlight[p] # t /\ pc[inFlight[p]] = "running" /\ req[inFlight[p]].profile = p
    BY <1>2, <2>1 DEF MutexOK, M!EntryIsAlive
  <2> QED BY <2>1, <2>2 DEF MutexOK, M!TypeOK, M!Join, M!Wait
<1> QED BY <1>1, <1>2 DEF MutexOK, M!EntryIsAlive

LEMMA MutexFinishes ==
  ASSUME MutexOK, NEW t \in Tasks, M!Finish(t)
  PROVE  MutexOK'
<1>0. req[t] \in M!Asks /\ req[t].profile \in Profiles /\ pc[t] = "running"
  BY AsksAreRequests DEF MutexOK, M!TypeOK, M!Finish
<1>1. M!TypeOK'
  <2>1. pc' \in [Tasks -> M!States]
    BY DEF MutexOK, M!TypeOK, M!Finish, M!States
  <2>2. req' \in [Tasks -> M!Asks \cup {M!NoRequest}]
    BY DEF MutexOK, M!TypeOK, M!Finish
  <2>3. \A u \in Tasks : pc'[u] # "idle" => req'[u] \in M!Asks
    BY DEF MutexOK, M!TypeOK, M!Finish, M!Settled
  <2>4. /\ waitOn' \in [Tasks -> Tasks \cup {None}] /\ epoch' = epoch
        /\ inFlight' \in [Profiles -> Tasks \cup {None}]
    BY DEF MutexOK, M!TypeOK, M!Finish, M!Delete
  <2> QED BY <2>1, <2>2, <2>3, <2>4 DEF M!TypeOK, MutexOK
<1>2. ASSUME NEW p \in Profiles, inFlight'[p] # None
      PROVE  pc'[inFlight'[p]] = "running" /\ req'[inFlight'[p]].profile = p
  <2>1. p # req[t].profile /\ inFlight'[p] = inFlight[p] /\ inFlight[p] \in Tasks
    BY <1>0, <1>2 DEF MutexOK, M!TypeOK, M!Finish, M!Delete
  <2>2. pc[inFlight[p]] = "running" /\ req[inFlight[p]].profile = p /\ inFlight[p] # t
    BY <1>2, <2>1 DEF MutexOK, M!EntryIsAlive
  <2>3. pc'[inFlight[p]] = "running" /\ req'[inFlight[p]] = req[inFlight[p]]
    BY <2>1, <2>2 DEF M!Finish, M!Settled
  <2> QED BY <2>1, <2>2, <2>3
<1> QED BY <1>1, <1>2 DEF MutexOK, M!EntryIsAlive

LEMMA MutexStep == MutexOK /\ [M!Next]_(M!vars) => MutexOK'
<1> SUFFICES ASSUME MutexOK, [M!Next]_(M!vars) PROVE MutexOK'
  OBVIOUS
<1>1. ASSUME NEW t \in Tasks, NEW r \in M!Asks, M!StartAtOnce(t, r) PROVE MutexOK'
  BY <1>1, MutexBegins DEF M!StartAtOnce
<1>2. ASSUME NEW t \in Tasks, NEW r \in M!Asks, M!JoinAtOnce(t, r) \/ M!WaitForOther(t, r)
      PROVE  MutexOK'
  BY <1>2, MutexAwaits DEF M!JoinAtOnce, M!WaitForOther, M!Joins
<1>3. ASSUME NEW t \in Tasks, M!WakeAndJoin(t) \/ M!WakeAndStart(t) PROVE MutexOK'
  <2>1. req[t] \in M!Asks /\ pc[t] = "woken"
    BY <1>3 DEF M!WakeAndJoin, M!WakeAndStart, MutexOK, M!TypeOK
  <2>2. CASE M!WakeAndJoin(t)
    BY <2>1, <2>2, MutexAwaits DEF M!WakeAndJoin, M!Joins
  <2>3. CASE M!WakeAndStart(t)
    BY <2>1, <2>3, MutexBegins DEF M!WakeAndStart
  <2> QED BY <1>3, <2>2, <2>3
<1>4. CASE M!Restart
  BY <1>4, BoundsAssumption DEF M!Restart, MutexOK, M!TypeOK, M!EntryIsAlive, M!States
<1>5. CASE UNCHANGED M!vars
  BY <1>5 DEF M!vars, MutexOK, M!TypeOK, M!EntryIsAlive
<1> QED BY <1>1, <1>2, <1>3, <1>4, <1>5, MutexFinishes DEF M!Next, M!GiveWay

-----------------------------------------------------------------------------
(* Numbers: the first of some rows is one of them.                         *)
Less == {x \in Nat \X Nat : x[1] < x[2]}

LEMMA FirstFacts ==
  ASSUME NEW ls \in SUBSET Subs, ls # {}
  PROVE  First(ls) \in ls
<1>1. IsWellFoundedOn(Less, Nat)
  BY NatLessThanWellFounded, Zenon DEF OpToRel, Less
<1>2. ls \subseteq Nat
  BY RowsAssumption
<1>3. PICK l \in ls : \A k \in ls : ~(<<k, l>> \in Less)
  BY <1>1, <1>2, WFMin
<1>4. \A k \in ls : l <= k
  <2> SUFFICES ASSUME NEW k \in ls, k < l PROVE FALSE
    BY <1>2
  <2>1. <<k, l>> \in Less
    BY <1>2 DEF Less
  <2> QED BY <1>3, <2>1
<1> QED BY <1>4 DEF First

LEMMA TypesHold == IInv => TypeOK /\ OwnListsOnly
<1> SUFFICES ASSUME IInv PROVE TypeOK /\ OwnListsOnly
  OBVIOUS
<1>1. ASSUME NEW t \in Tasks
      PROVE  IF pc[t] = "running"
               THEN /\ run[t].at # "idle" /\ run[t].kind = req[t].kind
                    /\ run[t].profile = req[t].profile
               ELSE run[t] = Idle
  <2>1. BodyOK(run[t]) /\ Runs(t, run[t]) /\ t \notin Crons
    BY TasksAssumption DEF IInv, RunsOK
  <2> QED BY <2>1 DEF BodyOK, Runs, Placed
<1>2. TypeOK
  BY <1>1 DEF IInv, TypeOK, MutexOK, TablesOK, ActiveOK, AsksOK, AskOK, RunsOK, BudgetOK
<1>3. OwnListsOnly
  BY DEF IInv, ActiveOK, Own, OwnListsOnly
<1> QED BY <1>2, <1>3

LEMMA RunFacts ==
  ASSUME IInv, NEW t \in Tasks \cup Crons
  PROVE  /\ run[t] \in Bodies /\ BodyOK(run[t]) /\ Runs(t, run[t])
         /\ DOMAIN run = Tasks \cup Crons
BY DEF IInv, RunsOK, BodyOK

(* Rows stay known and versions only grow: what was a profile's own is.    *)
Grows == /\ \A l \in Subs : sub[l] # "none" => sub'[l] # "none"
         /\ \A u \in Urls : filter[u] <= filter'[u]

LEMMA OwnGrows ==
  ASSUME IInv, TablesOK', Grows, NEW t \in Tasks \cup Crons,
         NEW m \in Urls \X (1..MaxVersion), Own(run'[t].profile, m)
  PROVE  Own(run[t].profile, m)'
<1>1. m[1] \in Urls /\ m[2] \in Nat
  BY BoundsAssumption
<1>2. filter[m[1]] \in Nat /\ filter'[m[1]] \in Nat /\ filter[m[1]] <= filter'[m[1]]
  BY <1>1 DEF IInv, TablesOK, Grows
<1> QED BY <1>1, <1>2 DEF Own, Grows, Rows

LEMMA OwnStays ==
  ASSUME IInv, TablesOK', Grows, NEW p \in Profiles, NEW m \in Urls \X (1..MaxVersion), Own(p, m)
  PROVE  Own(p, m)'
<1>1. m[1] \in Urls /\ m[2] \in Nat
  BY BoundsAssumption
<1>2. filter[m[1]] \in Nat /\ filter'[m[1]] \in Nat /\ filter[m[1]] <= filter'[m[1]]
  BY <1>1 DEF IInv, TablesOK, Grows
<1> QED BY <1>1, <1>2 DEF Own, Grows, Rows

LEMMA ActiveStays ==
  ASSUME IInv, TablesOK', Grows, UNCHANGED active
  PROVE  ActiveOK'
BY OwnStays DEF IInv, ActiveOK, Merges, Grows

(* A body that fits the state as it was fits the next one.                 *)
LEMMA BodyStays ==
  ASSUME IInv, TablesOK', Grows, NEW t \in Tasks \cup Crons, BodyOK(run'[t])
  PROVE  BodyOK(run[t])'
<1>1. run'[t].at # "idle" /\ run'[t].at \notin {"fetch", "subscribers", "next"} =>
        run'[t].profile \in Profiles
  BY DEF BodyOK
<1>2. ASSUME run'[t].at \in {"load", "put"}, NEW h \in Tables, NEW m \in run'[t].got[h]
      PROVE  Own(run[t].profile, m)'
  <2>1. m \in Urls \X (1..MaxVersion) /\ Own(run'[t].profile, m)
    BY <1>2 DEF BodyOK, Bodies, Merges
  <2> QED BY <1>1, <1>2, <2>1, OwnGrows
<1>3. run'[t].at = "load" => \A l \in run'[t].todo : sub'[l] # "none"
  BY DEF BodyOK, Bodies, Grows
<1> QED BY <1>2, <1>3 DEF BodyOK

(* One body goes on, or ends.                                              *)
LEMMA Moves ==
  ASSUME IInv, TablesOK', Grows, NEW t \in Tasks \cup Crons, NEW x,
         run' = [run EXCEPT ![t] = x], BodyOK(x), Runs(t, x), UNCHANGED <<pc, req>>
  PROVE  RunsOK'
<1>1. \A u \in Tasks \cup Crons : run'[u] = IF u = t THEN x ELSE run[u]
  BY RunFacts
<1>2. \A u \in Tasks \cup Crons : BodyOK(run[u])'
  BY <1>1, RunFacts, BodyStays
<1>3. \A u \in Tasks \cup Crons : Runs(u, run[u])'
  <2>1. \A u \in Tasks \cup Crons : Runs(u, run'[u])
    BY <1>1, RunFacts
  <2> QED BY <2>1 DEF Runs
<1>4. run' \in [Tasks \cup Crons -> Bodies]
  BY DEF IInv, RunsOK, BodyOK
<1> QED BY <1>2, <1>3, <1>4 DEF RunsOK

(* A step that only moves a body.                                          *)
LEMMA Reading ==
  ASSUME IInv, NEW t \in Tasks \cup Crons, NEW x,
         run' = [run EXCEPT ![t] = x], BodyOK(x), Runs(t, x),
         UNCHANGED <<mutex, upstream, sub, compiled, ask>>, BudgetOK'
  PROVE  IInv'
<1>1. TablesOK'
  BY DEF IInv, TablesOK, upstream, compiled
<1>2. Grows
  BY DEF Grows, IInv, TablesOK, upstream
<1>3. RunsOK'
  BY <1>1, <1>2, Moves DEF mutex
<1>4. ActiveOK'
  BY <1>1, <1>2, ActiveStays DEF compiled
<1>5. MutexOK' /\ AsksOK'
  BY DEF IInv, MutexOK, M!TypeOK, M!EntryIsAlive, mutex, AsksOK, AskOK
<1> QED BY <1>1, <1>3, <1>4, <1>5 DEF IInv

LEMMA IdleFacts == Idle \in Bodies /\ BodyOK(Idle) /\ Idle.at = "idle"
BY BoundsAssumption DEF Idle, Nothing, Bodies, BodyOK, Places, Merges

LEMMA OwnMerged ==
  ASSUME TablesOK, NEW p \in Profiles, NEW ls \in SUBSET Rows(p), \A l \in ls : sub[l] # "none"
  PROVE  Merged(ls) \in Merges /\ \A m \in Merged(ls) : Own(p, m)
<1>1. ASSUME NEW m \in Merged(ls) PROVE m \in Urls \X (1..MaxVersion) /\ Own(p, m)
  <2>1. PICK l \in ls : filter[UrlOf[l]] # 0 /\ m = <<UrlOf[l], filter[UrlOf[l]]>>
    BY <1>1 DEF Merged
  <2>2. l \in Subs /\ UrlOf[l] \in Urls
    BY RowsAssumption DEF Rows
  <2>3. filter[UrlOf[l]] \in 1..MaxVersion
    BY <2>1, <2>2, BoundsAssumption DEF TablesOK
  <2> QED BY <2>1, <2>2, <2>3 DEF Own
<1> QED BY <1>1 DEF Merges

LEMMA ActiveFacts ==
  ASSUME IInv, NEW p
  PROVE  Active(p) \in SUBSET Rows(p) /\ Active(p) \in SUBSET Subs
         /\ \A l \in Active(p) : sub[l] = "on"
BY DEF Active, Rows

-----------------------------------------------------------------------------
(* Where a body may go on.                                                 *)
LEMMA WhoseBody ==
  ASSUME IInv, NEW t \in Tasks \cup Crons, run[t].at # "idle"
  PROVE  /\ Placed(run[t]) /\ run[t].kind \in Kinds \cup {"cron"}
         /\ run[t].kind = "cron" <=> t \in Crons
         /\ t \notin Crons => t \in Tasks /\ pc[t] = "running" /\ req[t] \in M!Asks
<1>1. run[t] # Idle /\ Placed(run[t]) /\ Runs(t, run[t])
  BY RunFacts, IdleFacts DEF BodyOK
<1>2. t \notin Crons => t \in Tasks /\ pc[t] = "running" /\ req[t] \in M!Asks /\ run[t].kind = req[t].kind
  BY <1>1 DEF Runs, IInv, MutexOK, M!TypeOK
<1>3. t \notin Crons => req[t].kind \in Kinds
  BY <1>2 DEF M!Asks, M!Request, Kinds
<1> QED BY <1>1, <1>2, <1>3 DEF Placed, Runs, Kinds

LEMMA GoesOn ==
  ASSUME IInv, NEW t \in Tasks \cup Crons, NEW x \in Bodies, run[t].at # "idle",
         Placed(x), x.kind = run[t].kind, t \notin Crons => x.profile = run[t].profile,
         x.at \in {"fetch", "subscribers"} => x.url \in Urls,
         x.at \notin {"fetch", "subscribers", "next"} => x.profile \in Profiles,
         x.at \notin {"load", "put"}
  PROVE  BodyOK(x) /\ Runs(t, x)
<1>1. x # Idle
  BY IdleFacts DEF Placed
<1>2. Runs(t, run[t]) /\ run[t] # Idle
  BY RunFacts, IdleFacts
<1>3. Runs(t, x)
  BY <1>1, <1>2, WhoseBody DEF Runs
<1>4. BodyOK(x)
  BY DEF BodyOK
<1> QED BY <1>3, <1>4

-----------------------------------------------------------------------------
(* The bodies, up to the combiner.                                         *)
LEMMA Kept ==
  ASSUME IInv, Reads
  PROVE  BudgetOK' /\ UNCHANGED <<mutex, upstream, sub, compiled, ask>>
BY DEF IInv, BudgetOK, Reads

LEMMA Begins ==
  ASSUME IInv, NEW t \in Tasks \cup Crons,
         BeginAll(t) \/ BeginSingle(t) \/ BeginRebuild(t) \/ ReadLists(t)
  PROVE  IInv'
<1> DEFINE mine == run[t]
<1>0. mine \in Bodies /\ BodyOK(mine) /\ Runs(t, mine) /\ DOMAIN run = Tasks \cup Crons
  BY RunFacts
<1>1. CASE BeginAll(t)
  <2> DEFINE ls == Active(mine.profile)
             x == [mine EXCEPT !.at = IF ls = {} THEN "wipe" ELSE "probe", !.todo = ls]
  <2>1. /\ mine.at = "begin" /\ mine.kind = "all" /\ run' = [run EXCEPT ![t] = x] /\ Reads
    BY <1>1 DEF BeginAll, At
  <2>2. BodyOK(x) /\ Runs(t, x)
    <3>1. ls \in SUBSET Subs
      BY ActiveFacts
    <3> HIDE DEF ls
    <3>a. x \in Bodies /\ x.at \in {"wipe", "probe"} /\ x.kind = mine.kind /\ x.profile = mine.profile
      BY <1>0, <2>1, <3>1 DEF Bodies, Places
    <3> HIDE DEF x
    <3>b. Placed(x)
      BY <1>0, <2>1, <3>1, <3>a, WhoseBody DEF Placed
    <3> QED BY <1>0, <2>1, <3>1, <3>a, <3>b, WhoseBody, GoesOn DEF BodyOK
  <2> HIDE DEF x
  <2> QED BY <2>1, <2>2, Kept, Reading
<1>2. CASE BeginSingle(t)
  <2> DEFINE l == req[t].list
             on == sub[l] = "on"
             x1 == [mine EXCEPT !.at = "probe", !.todo = {l}, !.many = on]
             x2 == [mine EXCEPT !.at = "done"]
  <2>1. PICK x \in {x1, x2} : /\ mine.at = "begin" /\ mine.kind = "single"
                              /\ run' = [run EXCEPT ![t] = x] /\ Reads
    BY <1>2 DEF BeginSingle, At, Goto
  <2>2. BodyOK(x) /\ Runs(t, x)
    <3>1. l \in Subs
      BY <1>0, <2>1, TasksAssumption DEF Runs, Idle, IInv, MutexOK, M!TypeOK, M!Asks, M!Request
    <3>2. on \in BOOLEAN
      OBVIOUS
    <3> HIDE DEF l, on
    <3>a. x \in Bodies /\ x.at \in {"probe", "done"} /\ x.kind = mine.kind /\ x.profile = mine.profile
      <4>1. /\ x1 \in Bodies /\ x1.at = "probe" /\ x1.kind = mine.kind
            /\ x1.profile = mine.profile
        BY <1>0, <3>1, <3>2 DEF Bodies, Places
      <4>2. /\ x2 \in Bodies /\ x2.at = "done" /\ x2.kind = mine.kind
            /\ x2.profile = mine.profile
        BY <1>0 DEF Bodies, Places
      <4> HIDE DEF x1, x2
      <4> QED BY <2>1, <4>1, <4>2
    <3> HIDE DEF x1, x2
    <3>b. Placed(x)
      BY <1>0, <2>1, <3>1, <3>2, <3>a, WhoseBody DEF Placed
    <3> QED BY <1>0, <2>1, <3>1, <3>2, <3>a, <3>b, WhoseBody, GoesOn DEF BodyOK
  <2> HIDE DEF x1, x2
  <2> QED BY <2>1, <2>2, Kept, Reading
<1>3. CASE BeginRebuild(t)
  <2> DEFINE p == stamped[mine.profile]
             x == [mine EXCEPT !.at = "lists", !.prior = p]
  <2>1. /\ mine.at = "begin" /\ mine.kind = "rebuild" /\ run' = [run EXCEPT ![t] = x] /\ Reads
    BY <1>3 DEF BeginRebuild, At
  <2>2. BodyOK(x) /\ Runs(t, x)
    <3>1. p \in BOOLEAN
      BY <1>0, <2>1 DEF BodyOK, IInv, TablesOK
    <3> HIDE DEF p
    <3>a. x \in Bodies /\ x.at = "lists" /\ x.kind = mine.kind /\ x.profile = mine.profile
      BY <1>0, <2>1, <3>1 DEF Bodies, Places
    <3> HIDE DEF x
    <3>b. Placed(x)
      BY <1>0, <2>1, <3>1, <3>a, WhoseBody DEF Placed
    <3> QED BY <1>0, <2>1, <3>1, <3>a, <3>b, WhoseBody, GoesOn DEF BodyOK
  <2> HIDE DEF x
  <2> QED BY <2>1, <2>2, Kept, Reading
<1>4. CASE ReadLists(t)
  <2> DEFINE ls == Active(mine.profile)
             x == [mine EXCEPT !.at = "probe", !.todo = ls]
  <2>1. /\ mine.at = "lists" /\ run' = [run EXCEPT ![t] = x] /\ Reads
    BY <1>4 DEF ReadLists, At
  <2>2. BodyOK(x) /\ Runs(t, x)
    <3>1. ls \in SUBSET Subs
      BY ActiveFacts
    <3> HIDE DEF ls
    <3>a. x \in Bodies /\ x.at = "probe" /\ x.kind = mine.kind /\ x.profile = mine.profile
      BY <1>0, <2>1, <3>1 DEF Bodies, Places
    <3> HIDE DEF x
    <3>b. Placed(x)
      BY <1>0, <2>1, <3>1, <3>a, WhoseBody DEF Placed
    <3> QED BY <1>0, <2>1, <3>1, <3>a, <3>b, WhoseBody, GoesOn DEF BodyOK
  <2> HIDE DEF x
  <2> QED BY <2>1, <2>2, Kept, Reading
<1> QED BY <1>1, <1>2, <1>3, <1>4

(* A failure is one of a behaviour with overlap.                           *)
LEMMA Faults ==
  ASSUME IInv, Fault
  PROVE  budget.overlap /\ BudgetOK'
<1>1. budget \in Budgets /\ budget.faults \in 0..MaxFaults /\ budget.faults > 0
  BY DEF IInv, BudgetOK, Budgets, Fault
<1>2. budget.faults - 1 \in 0..MaxFaults
  BY <1>1, BoundsAssumption
<1>3. budget.overlap
  BY <1>1 DEF IInv, BudgetOK
<1>4. budget' \in Budgets /\ budget'.overlap = budget.overlap
  BY <1>1, <1>2 DEF Fault, Budgets
<1> QED BY <1>3, <1>4 DEF BudgetOK

LEMMA MissingFacts ==
  ASSUME IInv, NEW t \in Tasks \cup Crons, Missing(t) # {}
  PROVE  LET l == First(Missing(t)) IN
         /\ l \in run[t].todo /\ l \in Subs /\ UrlOf[l] \in Urls /\ filter[UrlOf[l]] = 0
         /\ tag[UrlOf[l]] \in 0..MaxVersion
<1>1. Missing(t) \in SUBSET Subs
  BY RunFacts DEF Missing, Bodies
<1>2. First(Missing(t)) \in Missing(t)
  BY <1>1, FirstFacts
<1> QED BY <1>1, <1>2, RowsAssumption DEF Missing, IInv, TablesOK

LEMMA Probes ==
  ASSUME IInv, NEW t \in Tasks \cup Crons,
         Probe(t) \/ ProbeDone(t) \/ (\E l \in Subs : ProbeFails(t, l))
  PROVE  IInv'
<1> DEFINE mine == run[t]
<1>0. mine \in Bodies /\ BodyOK(mine) /\ Runs(t, mine) /\ DOMAIN run = Tasks \cup Crons
  BY RunFacts
<1>1. CASE Probe(t)
  <2> DEFINE l == First(Missing(t))
             u == UrlOf[l]
             g == tag[u]
             left == IF mine.kind = "rebuild" THEN {} ELSE mine.todo \ {k \in Subs : k <= l}
             x == [mine EXCEPT !.at = "fetch", !.url = u, !.tag = g, !.todo = left]
  <2>1. /\ mine.at = "probe" /\ run' = [run EXCEPT ![t] = x] /\ Reads
    BY <1>1, <1>0 DEF Probe, At
  <2>2. BodyOK(x) /\ Runs(t, x)
    <3>1. u \in Urls /\ g \in 0..MaxVersion
      BY <1>1, MissingFacts DEF Probe
    <3>2. left \in SUBSET Subs
      BY <1>0 DEF Bodies
    <3> HIDE DEF u, g, left
    <3>a. x \in Bodies /\ x.at = "fetch" /\ x.url = u /\ x.kind = mine.kind /\ x.profile = mine.profile
      BY <1>0, <2>1, <3>1, <3>2 DEF Bodies, Places
    <3> HIDE DEF x
    <3>b. Placed(x)
      BY <1>0, <2>1, <3>1, <3>2, <3>a, WhoseBody DEF Placed
    <3> QED BY <1>0, <2>1, <3>1, <3>2, <3>a, <3>b, WhoseBody, GoesOn DEF BodyOK
  <2> HIDE DEF x
  <2> QED BY <2>1, <2>2, Kept, Reading
<1>2. CASE ProbeDone(t)
  <2>1. mine.at = "probe" /\ Reads /\ mine.kind \in Kinds
    BY <1>0, <1>2 DEF ProbeDone, At, BodyOK, Placed, Idle, Kinds
  <2>2. PICK s \in {"touch", "done", "combine"} :
           /\ run' = [run EXCEPT ![t] = [mine EXCEPT !.at = s]]
           /\ s = "touch" => mine.kind # "rebuild"
    <3>1. CASE mine.kind = "all"
      BY <1>2, <3>1 DEF ProbeDone, Goto
    <3>2. CASE mine.kind = "single"
      BY <1>2, <3>2 DEF ProbeDone, Goto
    <3>3. CASE mine.kind = "rebuild"
      BY <1>2, <3>3 DEF ProbeDone, Goto
    <3> QED BY <2>1, <3>1, <3>2, <3>3 DEF Kinds
  <2> DEFINE x == [mine EXCEPT !.at = s]
  <2>3. BodyOK(x) /\ Runs(t, x)
    <3>a. x \in Bodies /\ x.at = s /\ x.kind = mine.kind /\ x.profile = mine.profile
      BY <1>0, <2>1, <2>2 DEF Bodies, Places
    <3> HIDE DEF x
    <3>b. Placed(x)
      BY <1>0, <2>1, <2>2, <3>a, WhoseBody DEF Placed, Kinds
    <3> QED BY <1>0, <2>1, <2>2, <3>a, <3>b, WhoseBody, GoesOn DEF BodyOK
  <2> HIDE DEF x
  <2> QED BY <2>1, <2>2, <2>3, Kept, Reading DEF x
<1>3. ASSUME NEW l \in Subs, ProbeFails(t, l) PROVE IInv'
  <2> DEFINE left == mine.todo \ {l}
             x == [mine EXCEPT !.todo = left]
  <2>1. /\ mine.at = "probe" /\ run' = [run EXCEPT ![t] = x] /\ Fault
        /\ UNCHANGED <<mutex, upstream, sub, compiled, ask>>
    BY <1>0, <1>3 DEF ProbeFails, At
  <2>2. BodyOK(x) /\ Runs(t, x)
    <3>1. left \in SUBSET Subs
      BY <1>0 DEF Bodies
    <3> HIDE DEF left
    <3>a. x \in Bodies /\ x.at = "probe" /\ x.kind = mine.kind /\ x.profile = mine.profile
      BY <1>0, <2>1, <3>1 DEF Bodies
    <3> HIDE DEF x
    <3>b. Placed(x)
      BY <1>0, <2>1, <3>a, WhoseBody DEF Placed
    <3> QED BY <1>0, <2>1, <3>a, <3>b, WhoseBody, GoesOn DEF BodyOK
  <2> HIDE DEF x
  <2> QED BY <2>1, <2>2, Faults, Reading
<1> QED BY <1>1, <1>2, <1>3

LEMMA CronReads ==
  ASSUME IInv, NEW t \in Tasks \cup Crons,
         \/ \E u \in Urls : CronPass(t, u)
         \/ ReadSubscribers(t) \/ (\E p \in Profiles : NextSubscriber(t, p)) \/ CronDone(t)
  PROVE  IInv'
<1> DEFINE mine == run[t]
<1>0. mine \in Bodies /\ BodyOK(mine) /\ Runs(t, mine) /\ DOMAIN run = Tasks \cup Crons
  BY RunFacts
<1>1. ASSUME NEW u \in Urls, CronPass(t, u) PROVE IInv'
  <2> DEFINE g == tag[u]
             x == [Idle EXCEPT !.at = "fetch", !.kind = "cron", !.url = u, !.tag = g]
  <2>1. t \in Crons /\ run' = [run EXCEPT ![t] = x] /\ Reads
    BY <1>1 DEF CronPass
  <2>2. BodyOK(x) /\ Runs(t, x)
    <3>1. g \in 0..MaxVersion
      BY DEF IInv, TablesOK
    <3> HIDE DEF g
    <3> QED BY <2>1, <3>1, IdleFacts, IdleFacts DEF BodyOK, Bodies, Placed, Runs, Idle, Places
  <2> HIDE DEF x
  <2> QED BY <2>1, <2>2, Kept, Reading
<1>2. CASE ReadSubscribers(t)
  <2> DEFINE ps == Subscribers(mine.url)
             x == [mine EXCEPT !.at = "next", !.url = None, !.rest = ps]
  <2>1. mine.at = "subscribers" /\ run' = [run EXCEPT ![t] = x] /\ Reads
    BY <1>2 DEF ReadSubscribers, At
  <2>2. BodyOK(x) /\ Runs(t, x)
    <3>1. ps \in SUBSET Profiles
      BY RowsAssumption DEF Subscribers
    <3> HIDE DEF ps
    <3>a. x \in Bodies /\ x.at = "next" /\ x.kind = mine.kind /\ x.profile = mine.profile
      BY <1>0, <2>1, <3>1 DEF Bodies, Places
    <3> HIDE DEF x
    <3>b. Placed(x)
      BY <1>0, <2>1, <3>1, <3>a, WhoseBody DEF Placed
    <3> QED BY <1>0, <2>1, <3>1, <3>a, <3>b, WhoseBody, GoesOn DEF BodyOK
  <2> HIDE DEF x
  <2> QED BY <2>1, <2>2, Kept, Reading
<1>3. ASSUME NEW p \in Profiles, NextSubscriber(t, p) PROVE IInv'
  <2> DEFINE x == [mine EXCEPT !.at = "combine", !.profile = p, !.rest = mine.rest \ {p}]
  <2>1. mine.at = "next" /\ run' = [run EXCEPT ![t] = x] /\ Reads
    BY <1>0, <1>3 DEF NextSubscriber, At
  <2>2. BodyOK(x) /\ Runs(t, x)
    <3>1. t \in Crons
      BY <1>0, <2>1 DEF Runs, BodyOK, Placed, Idle, Kinds, IInv, MutexOK, M!TypeOK, M!Asks,
         M!Request
    <3>a. x \in Bodies /\ x.at = "combine" /\ x.profile = p /\ x.kind = mine.kind
      BY <1>0, <2>1, <3>1 DEF Bodies, Places
    <3> HIDE DEF x
    <3>b. Placed(x)
      BY <1>0, <2>1, <3>1, <3>a, WhoseBody DEF Placed
    <3> QED BY <1>0, <2>1, <3>1, <3>a, <3>b, WhoseBody, GoesOn DEF BodyOK
  <2> HIDE DEF x
  <2> QED BY <2>1, <2>2, Kept, Reading
<1>4. CASE CronDone(t)
  <2>1. run' = [run EXCEPT ![t] = Idle] /\ Reads /\ mine.at = "next"
    BY <1>4 DEF CronDone, At
  <2>2. t \in Crons
    BY <1>0, <2>1 DEF Runs, BodyOK, Placed, Idle, Kinds, IInv, MutexOK, M!TypeOK, M!Asks,
       M!Request
  <2> QED BY <2>1, <2>2, IdleFacts, Kept, Reading DEF Runs
<1> QED BY <1>1, <1>2, <1>3, <1>4

-----------------------------------------------------------------------------
(* Steps of a body that write.                                             *)
LEMMA Writing ==
  ASSUME IInv, TablesOK', Grows, ActiveOK', NEW t \in Tasks \cup Crons, NEW x,
         run' = [run EXCEPT ![t] = x], BodyOK(x), Runs(t, x),
         UNCHANGED <<mutex, ask>>, BudgetOK'
  PROVE  IInv'
<1>1. RunsOK'
  BY Moves DEF mutex
<1>2. MutexOK' /\ AsksOK'
  BY DEF IInv, MutexOK, M!TypeOK, M!EntryIsAlive, mutex, AsksOK, AskOK
<1> QED BY <1>1, <1>2 DEF IInv

LEMMA Writes ==
  ASSUME IInv, NEW h \in Tables, NEW p \in Profiles, NEW v \in Merges, \A m \in v : Own(p, m),
         active' = [active EXCEPT ![h][p] = v], UNCHANGED <<sub, filter>>
  PROVE  ActiveOK'
<1>1. active' \in [Tables -> [Profiles -> Merges]]
  BY DEF IInv, ActiveOK
<1>2. ASSUME NEW k \in Tables, NEW q \in Profiles, NEW m \in active'[k][q]
      PROVE  Own(q, m)
  <2>1. active'[k][q] = IF k = h /\ q = p THEN v ELSE active[k][q]
    BY DEF IInv, ActiveOK
  <2> QED BY <1>2, <2>1 DEF IInv, ActiveOK
<1>3. \A q, m : Own(q, m) => Own(q, m)'
  BY DEF Own, Rows
<1> QED BY <1>1, <1>2, <1>3 DEF ActiveOK

LEMMA Merging ==
  ASSUME IInv, NEW t \in Tasks \cup Crons, NEW x \in Bodies,
         run[t].at \in {"combine", "load", "put"}, x.at \in {"load", "put"},
         x.kind = run[t].kind, x.profile = run[t].profile,
         \A h \in Tables : \A m \in x.got[h] : Own(x.profile, m),
         x.at = "load" => /\ x.todo # {} /\ x.todo \subseteq Rows(x.profile)
                          /\ \A l \in x.todo : sub[l] # "none"
  PROVE  BodyOK(x) /\ Runs(t, x)
<1>1. Placed(x) /\ x # Idle
  BY WhoseBody, IdleFacts DEF Placed
<1>2. Runs(t, run[t]) /\ run[t] # Idle /\ run[t].profile \in Profiles
  BY RunFacts, IdleFacts DEF BodyOK
<1>3. Runs(t, x)
  BY <1>1, <1>2, WhoseBody DEF Runs
<1>4. BodyOK(x)
  BY <1>1, <1>2 DEF BodyOK
<1> QED BY <1>3, <1>4

LEMMA Combines ==
  ASSUME IInv, NEW t \in Tasks \cup Crons, Combine(t)
  PROVE  IInv'
<1> DEFINE mine == run[t]
           ls == Active(mine.profile)
           lots == Cardinality(ls) > 1
           x == [[mine EXCEPT !.at = IF ls = {} THEN "put" ELSE "load", !.todo = ls,
                              !.many = lots, !.put = Tables] EXCEPT !.got = Nothing]
<1>1. mine.at = "combine" /\ run' = [run EXCEPT ![t] = x] /\ Reads
  BY DEF Combine, At, Takes
<1>2. BodyOK(x) /\ Runs(t, x)
  <2>1. /\ ls \in SUBSET Subs /\ ls \in SUBSET Rows(mine.profile) /\ lots \in BOOLEAN
        /\ \A l \in ls : sub[l] # "none"
    BY ActiveFacts
  <2>2. Nothing \in [Tables -> Merges] /\ \A h \in Tables : Nothing[h] = {}
    BY DEF Nothing, Merges
  <2>3. mine \in Bodies
    BY RunFacts
  <2> HIDE DEF ls, lots
  <2>4. /\ x \in Bodies /\ x.kind = mine.kind /\ x.profile = mine.profile
        /\ x.at = (IF ls = {} THEN "put" ELSE "load") /\ x.todo = ls /\ x.got = Nothing
    BY <2>1, <2>2, <2>3 DEF Bodies, Places
  <2> HIDE DEF x
  <2> QED BY <1>1, <2>1, <2>2, <2>4, Merging
<1> HIDE DEF x
<1> QED BY <1>1, <1>2, Kept, Reading

LEMMA NextFacts ==
  ASSUME IInv, NEW t \in Tasks \cup Crons, run[t].at = "load", NEW x \in Bodies,
         x.kind = run[t].kind, x.profile = run[t].profile, x.todo = run[t].todo,
         \A h \in Tables : \A m \in x.got[h] : Own(x.profile, m)
  PROVE  BodyOK(NextList(x)) /\ Runs(t, NextList(x))
<1> DEFINE left == x.todo \ {First(x.todo)}
           y == [x EXCEPT !.todo = left, !.put = Tables,
                          !.at = IF left = {} THEN "put" ELSE "load"]
<1>0. NextList(x) = y
  BY DEF NextList
<1>1. BodyOK(run[t])
  BY RunFacts
<1>2. left \in SUBSET Subs /\ left \subseteq Rows(x.profile) /\ \A k \in left : sub[k] # "none"
  BY <1>1 DEF BodyOK, Bodies
<1> HIDE DEF left
<1>3. /\ y \in Bodies /\ y.kind = x.kind /\ y.profile = x.profile
      /\ y.at = (IF left = {} THEN "put" ELSE "load") /\ y.todo = left /\ y.got = x.got
  BY <1>2 DEF Bodies, Places
<1> HIDE DEF y
<1>4. BodyOK(y) /\ Runs(t, y)
  BY <1>2, <1>3, Merging
<1> QED BY <1>0, <1>4

LEMMA Loads ==
  ASSUME IInv, NEW t \in Tasks \cup Crons, NEW h \in Tables, Load(t, h)
  PROVE  IInv'
<1> DEFINE mine == run[t]
           l == First(mine.todo)
           new == Merged({l})
           got == [mine.got EXCEPT ![h] = @ \cup new]
           x == [mine EXCEPT !.put = mine.put \ {h}, !.got = got]
<1>0. mine \in Bodies /\ BodyOK(mine) /\ DOMAIN run = Tasks \cup Crons /\ mine.profile \in Profiles
  BY RunFacts DEF Load, At, BodyOK
<1>1. /\ mine.at = "load" /\ Reads
      /\ run' = [run EXCEPT ![t] = IF x.put = {} THEN NextList(x) ELSE x]
  BY <1>0 DEF Load, At
<1>2. /\ mine.todo # {} /\ mine.todo \in SUBSET Rows(mine.profile) /\ mine.todo \in SUBSET Subs
      /\ \A k \in mine.todo : sub[k] # "none"
      /\ \A k \in Tables : \A m \in mine.got[k] : Own(mine.profile, m)
  BY <1>0, <1>1 DEF BodyOK, Bodies
<1>3. new \in Merges /\ \A m \in new : Own(mine.profile, m)
  <2>1. l \in mine.todo
    BY <1>2, FirstFacts
  <2>2. {l} \in SUBSET Rows(mine.profile) /\ \A k \in {l} : sub[k] # "none"
    BY <1>2, <2>1
  <2> HIDE DEF l
  <2> QED BY <2>2, <1>0, OwnMerged DEF IInv
<1> HIDE DEF l, new
<1>4. /\ got \in [Tables -> Merges]
      /\ \A k \in Tables : \A m \in got[k] : Own(mine.profile, m)
  <2>1. mine.got \in [Tables -> Merges]
    BY <1>0 DEF Bodies
  <2>2. \A k \in Tables : got[k] = IF k = h THEN mine.got[k] \cup new ELSE mine.got[k]
    BY <2>1
  <2>3. got \in [Tables -> Merges]
    BY <1>3, <2>1 DEF Merges
  <2> HIDE DEF got
  <2> QED BY <1>2, <1>3, <2>2, <2>3
<1> HIDE DEF got
<1>5. /\ x \in Bodies /\ x.kind = mine.kind /\ x.profile = mine.profile
      /\ x.at = "load" /\ x.todo = mine.todo /\ x.got = got
  BY <1>0, <1>1, <1>4 DEF Bodies
<1> HIDE DEF x
<1>6. BodyOK(NextList(x)) /\ Runs(t, NextList(x))
  BY <1>1, <1>4, <1>5, NextFacts
<1>7. BodyOK(x) /\ Runs(t, x)
  BY <1>1, <1>2, <1>4, <1>5, Merging
<1> QED BY <1>1, <1>6, <1>7, Kept, Reading

-----------------------------------------------------------------------------
(* The outcomes of a fetch, in the tables all lists share.                 *)
LEMMA Returns ==
  ASSUME IInv, NEW t \in Tasks \cup Crons, NEW fresh \in BOOLEAN, At(t, "fetch"),
         AfterFetch(t, fresh)
  PROVE  \E x : run' = [run EXCEPT ![t] = x] /\ BodyOK(x) /\ Runs(t, x)
<1> DEFINE mine == run[t]
           place == Then(t, fresh)
           x == [mine EXCEPT !.at = place, !.tag = 0]
<1>0. mine \in Bodies /\ BodyOK(mine) /\ DOMAIN run = Tasks \cup Crons /\ mine.at = "fetch"
  BY RunFacts DEF At
<1>1. run' = [run EXCEPT ![t] = IF place = "idle" THEN Idle ELSE x]
  BY <1>0 DEF AfterFetch
<1>2. /\ place = "probe" => t \notin Crons
      /\ place \in {"subscribers", "idle"} => t \in Crons
      /\ place \in {"probe", "subscribers", "idle"}
  BY <1>0, WhoseBody DEF Then
<1>3. CASE place = "idle"
  <2>1. BodyOK(Idle) /\ Runs(t, Idle)
    BY <1>2, <1>3, IdleFacts DEF Runs
  <2> QED BY <1>1, <1>3, <2>1
<1>4. CASE place # "idle"
  <2> HIDE DEF place
  <2>1. x \in Bodies /\ x.at = place /\ x.kind = mine.kind /\ x.profile = mine.profile
        /\ x.url = mine.url
    <3>1. 0 \in 0..MaxVersion /\ place \in Places
      BY <1>2, <1>4, BoundsAssumption DEF Places
    <3> QED BY <1>0, <3>1 DEF Bodies
  <2> HIDE DEF x
  <2>2. t \notin Crons => mine.profile \in Profiles
    BY <1>0, RunFacts, WhoseBody, AsksAreRequests, IdleFacts DEF Runs
  <2>3. Placed(x) /\ mine.url \in Urls
    BY <1>0, <1>2, <1>4, <2>1, WhoseBody DEF Placed, BodyOK
  <2>4. BodyOK(x) /\ Runs(t, x)
    BY <1>0, <1>2, <1>4, <2>1, <2>2, <2>3, GoesOn
  <2> QED BY <1>1, <1>4, <2>4
<1> QED BY <1>3, <1>4

LEMMA Fetches ==
  ASSUME IInv, NEW t \in Tasks \cup Crons, NotModified(t) \/ Fetched(t) \/ FetchFails(t)
  PROVE  IInv'
<1> DEFINE u == run[t].url
<1>0. At(t, "fetch") /\ u \in Urls /\ run[t].tag \in 0..MaxVersion
  BY RunFacts DEF NotModified, Fetched, FetchFails, BodyOK, At, Bodies
<1>1. PICK fresh \in BOOLEAN : AfterFetch(t, fresh)
  BY DEF NotModified, Fetched, FetchFails
<1>2. PICK x : run' = [run EXCEPT ![t] = x] /\ BodyOK(x) /\ Runs(t, x)
  BY <1>0, <1>1, Returns
<1>3. TablesOK' /\ Grows /\ UNCHANGED <<mutex, source, sub, compiled, ask>>
  <2>1. CASE NotModified(t)
    BY <1>0, <2>1 DEF NotModified, IInv, TablesOK, Grows, compiled
  <2>2. CASE Fetched(t)
    BY <1>0, <2>2 DEF Fetched, IInv, TablesOK, Grows, compiled
  <2>3. CASE FetchFails(t)
    BY <1>0, <2>3 DEF FetchFails, IInv, TablesOK, Grows, compiled
  <2> QED BY <2>1, <2>2, <2>3
<1>4. ActiveOK'
  BY <1>3, ActiveStays DEF compiled
<1>5. BudgetOK'
  <2>1. Fault \/ UNCHANGED budget
    BY DEF NotModified, Fetched, FetchFails, Refused
  <2> QED BY <2>1, Faults DEF IInv, BudgetOK
<1> QED BY <1>2, <1>3, <1>4, <1>5, Writing

-----------------------------------------------------------------------------
(* The profile's own tables.                                               *)
LEMMA MayGoto ==
  ASSUME IInv, NEW t \in Tasks \cup Crons, NEW s \in Places, Goto(t, s),
         run[t].at \in {"wipe", "stamp", "touch", "last", "put", "restore"},
         s \in {"stamp", "combine", "restore", "next", "done"},
         s = "next" => run[t].kind = "cron", s = "done" => run[t].kind # "cron",
         s = "stamp" => run[t].kind = "all", s = "restore" => run[t].kind = "rebuild"
  PROVE  \E x : run' = [run EXCEPT ![t] = x] /\ BodyOK(x) /\ Runs(t, x)
<1> DEFINE mine == run[t]
           x == [mine EXCEPT !.at = s]
<1>0. mine \in Bodies /\ BodyOK(mine) /\ mine.profile \in Profiles
  BY RunFacts DEF BodyOK
<1>1. run' = [run EXCEPT ![t] = x]
  BY DEF Goto
<1>2. x \in Bodies /\ x.at = s /\ x.kind = mine.kind /\ x.profile = mine.profile
  BY <1>0 DEF Bodies
<1> HIDE DEF x
<1>3. Placed(x)
  BY <1>2, WhoseBody DEF Placed, Places
<1>4. BodyOK(x) /\ Runs(t, x)
  BY <1>0, <1>2, <1>3, GoesOn
<1> QED BY <1>1, <1>4

LEMMA Touches ==
  ASSUME IInv, NEW t \in Tasks \cup Crons, run[t].profile \in Profiles, Touched(t)
  PROVE  TablesOK' /\ Grows /\ ActiveOK' /\ BudgetOK' /\ UNCHANGED <<mutex, ask>>
<1>1. TablesOK'
  <2>1. stamped' \in [Profiles -> BOOLEAN]
    BY DEF Touched, IInv, TablesOK
  <2>2. synced' \in [Profiles -> BOOLEAN]
    BY DEF Touched, IInv, TablesOK
  <2> QED BY <2>1, <2>2 DEF Touched, IInv, TablesOK, upstream
<1>2. Grows
  BY DEF Touched, Grows, IInv, TablesOK, upstream
<1>3. ActiveOK'
  BY <1>1, <1>2, ActiveStays DEF Touched
<1> QED BY <1>1, <1>2, <1>3 DEF Touched, IInv, BudgetOK

LEMMA OwnTables ==
  ASSUME IInv, NEW t \in Tasks \cup Crons,
         Wipe(t) \/ Touch(t) \/ TouchLast(t) \/ PutDone(t) \/ Restore(t)
  PROVE  IInv'
<1> DEFINE mine == run[t]
<1>0. /\ mine.at \in {"wipe", "stamp", "touch", "last", "put", "restore"} /\ BodyOK(mine)
      /\ mine.profile \in Profiles /\ Placed(mine) /\ mine.kind \in Kinds \cup {"cron"}
  BY RunFacts, WhoseBody DEF BodyOK, Wipe, Touch, TouchLast, PutDone, Restore, At
<1>1. CASE Wipe(t)
  <2>1. PICK x : run' = [run EXCEPT ![t] = x] /\ BodyOK(x) /\ Runs(t, x)
    BY <1>0, <1>1, MayGoto DEF Wipe, At, Placed, Places
  <2>2. TablesOK' /\ Grows /\ BudgetOK' /\ UNCHANGED <<mutex, ask>>
    BY <1>1 DEF Wipe, IInv, TablesOK, Grows, BudgetOK, upstream
  <2>3. ActiveOK'
    <3>1. "bloom" \in Tables /\ {} \in Merges /\ \A m \in {} : Own(mine.profile, m)
      BY DEF Tables, Merges
    <3>2. active' = [active EXCEPT !["bloom"][mine.profile] = {}] /\ UNCHANGED <<sub, filter>>
      BY <1>1 DEF Wipe, upstream
    <3> QED BY <1>0, <3>1, <3>2, Writes
  <2> QED BY <2>1, <2>2, <2>3, Writing
<1>2. CASE Touch(t)
  <2>1. PICK x : run' = [run EXCEPT ![t] = x] /\ BodyOK(x) /\ Runs(t, x)
    BY <1>0, <1>2, MayGoto DEF Touch, At, Placed, Places
  <2> QED BY <1>0, <1>2, <2>1, Touches, Writing DEF Touch
<1>3. CASE TouchLast(t)
  <2>1. PICK x : run' = [run EXCEPT ![t] = x] /\ BodyOK(x) /\ Runs(t, x)
    BY <1>0, <1>3, MayGoto DEF TouchLast, At, Placed, Places
  <2> QED BY <1>0, <1>3, <2>1, Touches, Writing DEF TouchLast
<1>4. CASE PutDone(t)
  <2> DEFINE s == AfterCombine(t)
  <2>1. /\ s \in {"next", "restore", "done"} /\ (s = "next" <=> mine.kind = "cron")
        /\ (s = "restore" <=> mine.kind = "rebuild")
    <3>1. CASE mine.kind = "cron"
      BY <3>1, Zenon DEF AfterCombine
    <3>2. CASE mine.kind = "rebuild"
      BY <3>2, Zenon DEF AfterCombine
    <3>3. CASE mine.kind \notin {"cron", "rebuild"}
      BY <3>3, Zenon DEF AfterCombine
    <3> QED BY <3>1, <3>2, <3>3
  <2>2. Goto(t, s) /\ Touched(t) /\ mine.at = "put"
    BY <1>4 DEF PutDone, At
  <2> HIDE DEF s
  <2>3. PICK x : run' = [run EXCEPT ![t] = x] /\ BodyOK(x) /\ Runs(t, x)
    BY <1>0, <2>1, <2>2, MayGoto DEF Places
  <2> QED BY <1>0, <2>2, <2>3, Touches, Writing
<1>5. CASE Restore(t)
  <2>1. PICK x : run' = [run EXCEPT ![t] = x] /\ BodyOK(x) /\ Runs(t, x)
    BY <1>0, <1>5, MayGoto DEF Restore, At, Placed, Places
  <2>2. mine.prior \in BOOLEAN
    BY RunFacts DEF Bodies
  <2>3. TablesOK' /\ Grows /\ BudgetOK' /\ UNCHANGED <<mutex, ask, active>>
    <3>1. stamped' \in [Profiles -> BOOLEAN]
      BY <1>5, <2>2 DEF Restore, IInv, TablesOK
    <3> QED BY <1>5, <3>1 DEF Restore, IInv, TablesOK, Grows, BudgetOK, upstream
  <2>4. ActiveOK'
    BY <2>3, ActiveStays
  <2> QED BY <2>1, <2>3, <2>4, Writing
<1> QED BY <1>1, <1>2, <1>3, <1>4, <1>5

LEMMA Puts ==
  ASSUME IInv, NEW t \in Tasks \cup Crons, NEW h \in Tables, Put(t, h)
  PROVE  IInv'
<1> DEFINE mine == run[t]
           x == [mine EXCEPT !.put = mine.put \ {h}]
<1>0. /\ mine \in Bodies /\ BodyOK(mine) /\ mine.at = "put" /\ mine.profile \in Profiles
      /\ DOMAIN run = Tasks \cup Crons
  BY RunFacts DEF BodyOK, Put, At
<1>1. run' = [run EXCEPT ![t] = x]
  BY <1>0 DEF Put
<1>2. \A k \in Tables : mine.got[k] \in Merges /\ \A m \in mine.got[k] : Own(mine.profile, m)
  BY <1>0 DEF BodyOK, Bodies
<1>3. BodyOK(x) /\ Runs(t, x)
  <2>1. /\ x \in Bodies /\ x.kind = mine.kind /\ x.profile = mine.profile
        /\ x.at = "put" /\ x.got = mine.got
    BY <1>0 DEF Bodies
  <2> HIDE DEF x
  <2> QED BY <1>0, <1>2, <2>1, Merging
<1> HIDE DEF x
<1>4. ActiveOK'
  BY <1>0, <1>2, Writes DEF Put, upstream
<1>5. TablesOK' /\ Grows /\ BudgetOK' /\ UNCHANGED <<mutex, ask>>
  BY DEF Put, IInv, TablesOK, Grows, BudgetOK, upstream
<1> QED BY <1>1, <1>3, <1>4, <1>5, Writing

-----------------------------------------------------------------------------
LEMMA LoadsFail ==
  ASSUME IInv, NEW t \in Tasks \cup Crons, LoadFails(t)
  PROVE  IInv'
<1>1. /\ run[t] \in Bodies /\ BodyOK(run[t]) /\ run[t].at = "load"
      /\ DOMAIN run = Tasks \cup Crons
  BY RunFacts DEF LoadFails, At
<1>2. run' = [run EXCEPT ![t] = NextList(run[t])]
  BY <1>1 DEF LoadFails
<1>3. \A h \in Tables : \A m \in run[t].got[h] : Own(run[t].profile, m)
  BY <1>1 DEF BodyOK
<1>4. BodyOK(NextList(run[t])) /\ Runs(t, NextList(run[t]))
  BY <1>1, <1>3, NextFacts
<1>5. BudgetOK' /\ UNCHANGED <<mutex, upstream, sub, compiled, ask>>
  BY Faults DEF LoadFails
<1> QED BY <1>2, <1>4, <1>5, Reading

LEMMA CaughtWhere ==
  ASSUME IInv, NEW t \in Tasks \cup Crons, MayThrow(t)
  PROVE  LET s == Caught(t) IN
         \/ t \in Crons /\ s \in {"idle", "next"}
         \/ t \notin Crons /\ \/ s \in {"probe", "done"}
                              \/ s = "last" /\ run[t].kind = "all"
<1> DEFINE mine == run[t]
<1>0. /\ run[t].at # "idle" /\ run[t].kind \in Kinds \cup {"cron"}
      /\ run[t].kind = "cron" <=> t \in Crons
  BY WhoseBody DEF MayThrow, At
<1>1. CASE run[t].kind = "cron"
  BY <1>0, <1>1, Zenon DEF Caught
<1>2. CASE run[t].kind = "rebuild"
  BY <1>0, <1>2, Zenon DEF Caught
<1>3. CASE run[t].kind = "all"
  BY <1>0, <1>3, Zenon DEF Caught
<1>4. CASE run[t].kind = "single"
  BY <1>0, <1>4, Zenon DEF Caught
<1> QED BY <1>0, <1>1, <1>2, <1>3, <1>4 DEF Kinds

LEMMA ThrowsOn ==
  ASSUME IInv, NEW t \in Tasks \cup Crons, Throws(t)
  PROVE  IInv'
<1> DEFINE mine == run[t]
           s == Caught(t)
           x == [mine EXCEPT !.at = s, !.todo = {}, !.put = {}]
<1>0. mine \in Bodies /\ BodyOK(mine) /\ DOMAIN run = Tasks \cup Crons /\ mine.at # "idle"
  BY RunFacts DEF Throws, MayThrow, At
<1>1. run' = [run EXCEPT ![t] = IF s = "idle" THEN Idle ELSE x]
  BY <1>0 DEF Throws
<1>2. /\ BudgetOK' /\ UNCHANGED <<mutex, upstream, sub, compiled, ask>>
      /\ \/ t \in Crons /\ s \in {"idle", "next"}
         \/ t \notin Crons /\ (s \in {"probe", "done"} \/ (s = "last" /\ mine.kind = "all"))
  BY CaughtWhere, Faults DEF Throws
<1> HIDE DEF s
<1>3. CASE s = "idle"
  BY <1>1, <1>2, <1>3, IdleFacts, Reading DEF Runs
<1>4. CASE s # "idle"
  <2>1. x \in Bodies /\ x.at = s /\ x.kind = mine.kind /\ x.profile = mine.profile
    BY <1>0, <1>2, <1>4 DEF Bodies, Places
  <2> HIDE DEF x
  <2>2. Placed(x)
    BY <1>0, <1>2, <1>4, <2>1, WhoseBody DEF Placed
  <2>3. t \notin Crons => mine.profile \in Profiles
    BY <1>0, RunFacts, WhoseBody, AsksAreRequests, IdleFacts DEF Runs
  <2>4. BodyOK(x) /\ Runs(t, x)
    BY <1>0, <1>2, <1>4, <2>1, <2>2, <2>3, GoesOn
  <2> QED BY <1>1, <1>2, <1>4, <2>4, Reading
<1> QED BY <1>3, <1>4

-----------------------------------------------------------------------------
(* Steps of the handlers, the mutex and the upstream.                      *)
LEMMA Aside ==
  ASSUME IInv, TablesOK', Grows, UNCHANGED <<mutex, active, run>>, AsksOK', BudgetOK'
  PROVE  IInv'
<1>1. \A t \in Tasks \cup Crons : BodyOK(run[t])'
  <2> SUFFICES ASSUME NEW t \in Tasks \cup Crons PROVE BodyOK(run[t])'
    OBVIOUS
  <2> QED BY RunFacts, BodyStays
<1>2. \A t \in Tasks \cup Crons : Runs(t, run[t])'
  BY RunFacts DEF Runs, mutex
<1>3. RunsOK'
  BY <1>1, <1>2 DEF IInv, RunsOK
<1>4. ActiveOK' /\ MutexOK'
  BY ActiveStays DEF IInv, MutexOK, M!TypeOK, M!EntryIsAlive, mutex
<1> QED BY <1>3, <1>4 DEF IInv

LEMMA Upstream ==
  ASSUME IInv, NEW u \in Urls, SourceChanges(u) \/ IntervalEnds(u)
  PROVE  IInv'
<1>1. TablesOK' /\ Grows
  <2>1. CASE SourceChanges(u)
    <3>1. source[u] \in 1..MaxVersion /\ source[u] < MaxVersion
      BY <2>1 DEF SourceChanges, IInv, TablesOK
    <3>2. source[u] + 1 \in 1..MaxVersion
      BY <3>1, BoundsAssumption
    <3>3. source' \in [Urls -> 1..MaxVersion] /\ \A w \in Urls : source[w] <= source'[w]
      BY <2>1, <3>1, <3>2 DEF SourceChanges, IInv, TablesOK
    <3>4. \A w \in Urls : filter[w] \in Nat /\ source[w] \in Nat /\ source'[w] \in Nat
      BY <3>3 DEF IInv, TablesOK
    <3> QED BY <2>1, <3>3, <3>4 DEF SourceChanges, IInv, TablesOK, Grows, compiled
  <2>2. CASE IntervalEnds(u)
    BY <2>2 DEF IntervalEnds, IInv, TablesOK, Grows, compiled
  <2> QED BY <2>1, <2>2
<1>2. BudgetOK'
  BY DEF SourceChanges, IntervalEnds, News, IInv, BudgetOK, Budgets
<1>3. UNCHANGED <<mutex, active, run, ask>>
  BY DEF SourceChanges, IntervalEnds, compiled
<1>4. AsksOK'
  BY <1>3 DEF AsksOK, AskOK, IInv, mutex
<1> QED BY <1>1, <1>2, <1>3, <1>4, Aside

LEMMA ApiRows ==
  ASSUME IInv, NEW t \in Tasks, Api(t)
  PROVE  /\ Free(t) /\ Edited(t)
         /\ sub' \in [Subs -> {"none", "on", "off", "gone"}]
         /\ \A l \in Subs : sub[l] # "none" => sub'[l] # "none"
         /\ \E r : ask' = [ask EXCEPT ![t] = r]
<1>0. sub \in [Subs -> {"none", "on", "off", "gone"}]
  BY DEF IInv, TablesOK
<1>1. ASSUME NEW l \in Subs,
             \/ AddList(t, l) \/ DeleteList(t, l) \/ SyncSingle(t, l)
             \/ \E s \in {"on", "off"} : SetEnabled(t, l, s)
      PROVE  /\ Free(t) /\ Edited(t) /\ \E r : ask' = [ask EXCEPT ![t] = r]
             /\ \E s \in {"on", "off", "gone"} : sub' = [sub EXCEPT ![l] = s] \/ sub' = sub
  <2>1. CASE DeleteList(t, l)
    <3>1. sub' = [sub EXCEPT ![l] = "gone"] \/ sub' = sub
      BY <1>0, <2>1 DEF DeleteList
    <3> QED BY <2>1, <3>1 DEF DeleteList, Asking
  <2>2. CASE ~DeleteList(t, l)
    BY <1>1, <2>2 DEF AddList, SyncSingle, SetEnabled, Asking
  <2> QED BY <2>1, <2>2
<1>2. ASSUME NEW p \in Profiles, NEW ls \in SUBSET Rows(p), NEW on \in SUBSET ls,
             AddBulk(t, p, ls, on)
      PROVE  /\ Free(t) /\ Edited(t) /\ \E r : ask' = [ask EXCEPT ![t] = r]
             /\ sub' = [l \in Subs |-> IF l \in on THEN "on"
                                       ELSE IF l \in ls THEN "off" ELSE sub[l]]
  BY <1>2 DEF AddBulk, Asking
<1>3. ASSUME NEW p \in Profiles, SyncAll(t, p)
      PROVE  Free(t) /\ Edited(t) /\ (\E r : ask' = [ask EXCEPT ![t] = r]) /\ sub' = sub
  BY <1>3 DEF SyncAll, Asking
<1>4. CASE \E l \in Subs : \/ AddList(t, l) \/ DeleteList(t, l) \/ SyncSingle(t, l)
                           \/ \E s \in {"on", "off"} : SetEnabled(t, l, s)
  BY <1>0, <1>1, <1>4
<1>5. CASE \E p \in Profiles : \E ls \in SUBSET Rows(p) : \E on \in SUBSET ls :
              AddBulk(t, p, ls, on)
  BY <1>0, <1>2, <1>5
<1>6. CASE \E p \in Profiles : SyncAll(t, p)
  BY <1>0, <1>3, <1>6
<1> QED BY <1>4, <1>5, <1>6 DEF Api

LEMMA Handles ==
  ASSUME IInv, NEW t \in Tasks, Api(t)
  PROVE  IInv'
<1>1. UNCHANGED <<mutex, upstream, compiled, run>>
  BY ApiRows DEF Edited
<1>2. TablesOK' /\ Grows
  BY <1>1, ApiRows DEF IInv, TablesOK, Grows, upstream, compiled
<1>3. BudgetOK'
  BY ApiRows DEF Edited, IInv, BudgetOK, Budgets
<1>4. AsksOK'
  <2>1. AskOK' /\ pc' = pc
    BY ApiAsks DEF IInv, AsksOK, mutex
  <2>2. \A u \in Tasks : u # t => ask'[u] = ask[u]
    BY ApiRows DEF IInv, AsksOK, AskOK
  <2> QED BY <2>1, <2>2, ApiRows DEF IInv, AsksOK, Free
<1> QED BY <1>1, <1>2, <1>3, <1>4, Aside DEF compiled

-----------------------------------------------------------------------------
(* Steps that start and end bodies.                                        *)
LEMMA Regroups ==
  ASSUME IInv, MutexOK', AsksOK', UNCHANGED <<upstream, sub, compiled>>, BudgetOK',
         run' \in [Tasks \cup Crons -> Bodies], \A t \in Tasks \cup Crons : BodyOK(run'[t]),
         \A t \in Crons : run'[t] \in {run[t], Idle},
         \A t \in Tasks : IF pc'[t] = "running"
                            THEN /\ run'[t] # Idle /\ run'[t].kind = req'[t].kind
                                 /\ run'[t].profile = req'[t].profile
                            ELSE run'[t] = Idle
  PROVE  IInv'
<1>1. TablesOK' /\ Grows
  BY DEF IInv, TablesOK, Grows, upstream, compiled
<1>2. \A t \in Tasks \cup Crons : BodyOK(run[t])'
  BY <1>1, BodyStays
<1>3. ASSUME NEW t \in Tasks \cup Crons PROVE Runs(t, run[t])'
  <2>1. CASE t \in Crons
    BY <2>1, RunFacts DEF Runs
  <2>2. CASE t \notin Crons
    BY <2>2 DEF Runs
  <2> QED BY <2>1, <2>2
<1>4. RunsOK'
  BY <1>2, <1>3 DEF RunsOK
<1>5. ActiveOK'
  BY <1>1, ActiveStays DEF compiled
<1> QED BY <1>1, <1>4, <1>5 DEF IInv

LEMMA Started ==
  ASSUME NEW r \in M!Asks
  PROVE  /\ Body(r) \in Bodies /\ BodyOK(Body(r)) /\ Body(r) # Idle
         /\ Body(r).kind = r.kind /\ Body(r).profile = r.profile /\ Body(r).at = "begin"
<1>1. r.kind \in Kinds /\ r.profile \in Profiles
  BY AsksAreRequests
<1>2. /\ Body(r) \in Bodies /\ Body(r).at = "begin"
      /\ Body(r).kind = r.kind /\ Body(r).profile = r.profile
  BY <1>1, IdleFacts DEF Body, Bodies, Places, Idle
<1> QED BY <1>1, <1>2, IdleFacts DEF BodyOK, Placed, Kinds

LEMMA Runners ==
  ASSUME IInv, NEW t \in Tasks
  PROVE  /\ IF pc[t] = "running"
              THEN run[t] # Idle /\ run[t].kind = req[t].kind /\ run[t].profile = req[t].profile
              ELSE run[t] = Idle
         /\ t \notin Crons
BY RunFacts, TasksAssumption DEF Runs

LEMMA Calls ==
  ASSUME IInv, NEW t \in Tasks, Call(t) \/ Wake(t), MutexOK', AskOK'
  PROVE  IInv'
<1> DEFINE r == IF pc[t] = "idle" THEN ask[t] ELSE req[t]
<1>1. /\ r \in M!Asks /\ pc[t] \in {"idle", "woken"}
      /\ \/ M!Begin(t, r) /\ run' = [run EXCEPT ![t] = Body(r)]
         \/ (\E o : M!Join(t, r, o) \/ M!Wait(t, r, o)) /\ run' = run
      /\ UNCHANGED <<upstream, sub, compiled, budget>>
      /\ ask' = [ask EXCEPT ![t] = M!NoRequest]
  <2>1. CASE Call(t)
    <3>1. ask[t] \in M!Asks
      BY <2>1 DEF Call, IInv, AsksOK, AskOK
    <3>2. pc[t] = "idle"
      BY <2>1 DEF Call, IInv, AsksOK
    <3> QED BY <2>1, <3>1, <3>2 DEF Call, M!StartAtOnce, M!JoinAtOnce, M!WaitForOther
  <2>2. CASE Wake(t)
    <3>1. pc[t] = "woken"
      BY <2>2 DEF Wake, M!WakeAndStart, M!WakeAndJoin
    <3>2. req[t] \in M!Asks /\ ask[t] = M!NoRequest
      BY <3>1 DEF IInv, MutexOK, M!TypeOK, AsksOK
    <3>3. ask' = [ask EXCEPT ![t] = M!NoRequest]
      BY <2>2, <3>2 DEF Wake, IInv, AsksOK, AskOK
    <3> QED BY <2>2, <3>1, <3>2, <3>3 DEF Wake, M!WakeAndStart, M!WakeAndJoin
  <2> QED BY <2>1, <2>2
<1> HIDE DEF r
<1>2. AsksOK'
  <2>1. \A u \in Tasks : u # t => ask'[u] = ask[u] /\ pc'[u] = pc[u]
    BY <1>1 DEF IInv, AsksOK, AskOK, MutexOK, M!TypeOK, M!Begin, M!Join, M!Wait
  <2>2. ask'[t] = M!NoRequest
    BY <1>1 DEF IInv, AsksOK, AskOK
  <2> QED BY <2>1, <2>2 DEF IInv, AsksOK
<1>3. CASE M!Begin(t, r) /\ run' = [run EXCEPT ![t] = Body(r)]
  <2>1. /\ run' \in [Tasks \cup Crons -> Bodies]
        /\ \A u \in Tasks \cup Crons : run'[u] = IF u = t THEN Body(r) ELSE run[u]
    BY <1>1, <1>3, Started DEF IInv, RunsOK
  <2>2. \A u \in Tasks : IF u = t THEN pc'[u] = "running" /\ req'[u] = r
                         ELSE pc'[u] = pc[u] /\ req'[u] = req[u]
    BY <1>3 DEF IInv, MutexOK, M!TypeOK, M!Begin
  <2>3. \A u \in Tasks \cup Crons : BodyOK(run'[u])
    BY <1>1, <2>1, Started, RunFacts
  <2>4. \A u \in Crons : run'[u] = run[u]
    BY <2>1, Runners
  <2>5. ASSUME NEW u \in Tasks
        PROVE  IF pc'[u] = "running"
                 THEN /\ run'[u] # Idle /\ run'[u].kind = req'[u].kind
                      /\ run'[u].profile = req'[u].profile
                 ELSE run'[u] = Idle
    <3>1. CASE u = t
      BY <1>1, <2>1, <2>2, <3>1, Started
    <3>2. CASE u # t
      BY <2>1, <2>2, <3>2, Runners
    <3> QED BY <3>1, <3>2
  <2>6. BudgetOK'
    BY <1>1 DEF IInv, BudgetOK
  <2> QED BY <1>1, <1>2, <2>1, <2>3, <2>4, <2>5, <2>6, Regroups
<1>4. CASE (\E o : M!Join(t, r, o) \/ M!Wait(t, r, o)) /\ run' = run
  <2>1. \A u \in Tasks : IF u = t THEN pc'[u] # "running" ELSE pc'[u] = pc[u] /\ req'[u] = req[u]
    BY <1>4 DEF IInv, MutexOK, M!TypeOK, M!Join, M!Wait
  <2>2. ASSUME NEW u \in Tasks
        PROVE  IF pc'[u] = "running"
                 THEN /\ run'[u] # Idle /\ run'[u].kind = req'[u].kind
                      /\ run'[u].profile = req'[u].profile
                 ELSE run'[u] = Idle
    BY <1>1, <1>4, <2>1, Runners
  <2>3. /\ run' \in [Tasks \cup Crons -> Bodies]
        /\ \A u \in Tasks \cup Crons : BodyOK(run'[u])
    BY <1>4, RunFacts DEF IInv, RunsOK
  <2>4. BudgetOK'
    BY <1>1 DEF IInv, BudgetOK
  <2> QED BY <1>1, <1>2, <1>4, <2>2, <2>3, <2>4, Regroups
<1> QED BY <1>1, <1>3, <1>4

LEMMA Ends ==
  ASSUME IInv, NEW t \in Tasks \cup Crons, End(t), MutexOK', AskOK'
  PROVE  IInv'
<1>0. t \in Tasks /\ M!Finish(t) /\ run' = [run EXCEPT ![t] = Idle]
      /\ UNCHANGED <<upstream, sub, compiled, ask, budget>>
  BY DEF End
<1>1. \A u \in Tasks : /\ pc[u] = "idle" => pc'[u] = "idle"
                       /\ u = t => pc'[u] = "idle"
                       /\ u # t => /\ pc'[u] = "running" <=> pc[u] = "running"
                                   /\ pc'[u] = "running" => req'[u] = req[u]
  BY <1>0 DEF M!Finish, M!Settled, IInv, MutexOK, M!TypeOK
<1>2. /\ run' \in [Tasks \cup Crons -> Bodies]
      /\ \A u \in Tasks \cup Crons : run'[u] = IF u = t THEN Idle ELSE run[u]
  BY <1>0, IdleFacts DEF IInv, RunsOK
<1>3. AsksOK'
  BY <1>0, <1>1 DEF IInv, AsksOK
<1>4. \A u \in Tasks \cup Crons : BodyOK(run'[u])
  BY <1>2, IdleFacts, RunFacts
<1>5. \A u \in Crons : run'[u] = run[u]
  BY <1>0, <1>2, Runners
<1>6. ASSUME NEW u \in Tasks
      PROVE  IF pc'[u] = "running"
               THEN /\ run'[u] # Idle /\ run'[u].kind = req'[u].kind
                    /\ run'[u].profile = req'[u].profile
               ELSE run'[u] = Idle
  BY <1>0, <1>1, <1>2, Runners
<1>7. BudgetOK'
  BY <1>0 DEF IInv, BudgetOK
<1> QED BY <1>0, <1>2, <1>3, <1>4, <1>5, <1>6, <1>7, Regroups

LEMMA Restarts ==
  ASSUME IInv, Restart, MutexOK', AskOK'
  PROVE  IInv'
<1>1. \A t \in Tasks : pc'[t] = "idle" /\ ask'[t] = M!NoRequest
  BY DEF Restart, M!Restart
<1>2. run' \in [Tasks \cup Crons -> Bodies] /\ \A t \in Tasks \cup Crons : run'[t] = Idle
  BY IdleFacts DEF Restart
<1>3. BudgetOK' /\ UNCHANGED <<upstream, sub, compiled>>
  BY Faults DEF Restart
<1>4. AsksOK'
  BY <1>1 DEF AsksOK
<1> QED BY <1>1, <1>2, <1>3, <1>4, IdleFacts, Regroups

-----------------------------------------------------------------------------
(* It holds at the start, and each step of a body keeps it.                *)
LEMMA Starts == Init => IInv
<1> SUFFICES ASSUME Init PROVE IInv
  OBVIOUS
<1> USE DEF Init
<1>1. MutexOK
  BY MutexInit
<1>2. TablesOK
  <2>1. 0 \in 0..MaxVersion /\ 1 \in 1..MaxVersion /\ 1 \in 0..MaxVersion
    BY BoundsAssumption
  <2> QED BY <2>1, RowsAssumption DEF TablesOK
<1>3. ActiveOK
  <2>1. ASSUME NEW p \in Profiles
        PROVE  Merged(Active(p)) \in Merges /\ \A m \in Merged(Active(p)) : Own(p, m)
    <3>1. Active(p) \in SUBSET Rows(p) /\ \A l \in Active(p) : sub[l] # "none"
      BY DEF Active
    <3> QED BY <1>2, <3>1, OwnMerged
  <2>2. active = [h \in Tables |-> [p \in Profiles |-> Merged(Active(p))]]
    OBVIOUS
  <2>3. \A h \in Tables, p \in Profiles : active[h][p] = Merged(Active(p))
    BY <2>2, Zenon
  <2>4. active \in [Tables -> [Profiles -> Merges]]
    BY <2>1, <2>2, Zenon
  <2> QED BY <2>1, <2>3, <2>4 DEF ActiveOK
<1>4. AsksOK
  BY AskOKInit DEF AsksOK
<1>5. RunsOK
  BY IdleFacts DEF RunsOK, Runs, M!Init
<1>6. BudgetOK
  BY BoundsAssumption DEF BudgetOK
<1> QED BY <1>1, <1>2, <1>3, <1>4, <1>5, <1>6 DEF IInv

LEMMA BodySteps ==
  ASSUME IInv, NEW t \in Tasks \cup Crons, Step(t), MutexOK', AskOK'
  PROVE  IInv'
<1>1. CASE BeginAll(t) \/ BeginSingle(t) \/ BeginRebuild(t) \/ ReadLists(t)
  BY <1>1, Begins
<1>2. CASE Probe(t) \/ ProbeDone(t) \/ (\E l \in Subs : ProbeFails(t, l))
  BY <1>2, Probes
<1>3. CASE NotModified(t) \/ Fetched(t) \/ FetchFails(t)
  BY <1>3, Fetches
<1>4. CASE ReadSubscribers(t) \/ (\E p \in Profiles : NextSubscriber(t, p)) \/ CronDone(t)
  BY <1>4, CronReads
<1>5. CASE Wipe(t) \/ Touch(t) \/ TouchLast(t) \/ PutDone(t) \/ Restore(t)
  BY <1>5, OwnTables
<1>6. CASE Combine(t) \/ LoadFails(t)
  BY <1>6, Combines, LoadsFail
<1>7. CASE \E h \in Tables : Load(t, h) \/ Put(t, h)
  BY <1>7, Loads, Puts
<1>8. CASE Throws(t)
  BY <1>8, ThrowsOn
<1>9. CASE End(t)
  BY <1>9, Ends
<1> QED BY <1>1, <1>2, <1>3, <1>4, <1>5, <1>6, <1>7, <1>8, <1>9 DEF Step

(* No step of the system disturbs it.                                      *)
LEMMA Preserved == IInv /\ [Next]_vars => IInv'
<1> SUFFICES ASSUME IInv, [Next]_vars PROVE IInv'
  OBVIOUS
<1>0. MutexOK' /\ AskOK'
  BY StepRefines, MutexStep DEF IInv, AsksOK
<1>1. CASE UNCHANGED vars
  <2>1. TablesOK' /\ Grows /\ AsksOK' /\ BudgetOK' /\ UNCHANGED <<mutex, active, run>>
    BY <1>0, <1>1 DEF vars, upstream, compiled, IInv, TablesOK, Grows, AsksOK, BudgetOK, mutex
  <2> QED BY <2>1, Aside
<1>2. CASE \E u \in Urls : SourceChanges(u) \/ IntervalEnds(u)
  BY <1>2, Upstream
<1>3. CASE \E t \in Tasks : Api(t) \/ Call(t) \/ Wake(t)
  BY <1>0, <1>3, Handles, Calls
<1>4. CASE \E c \in Crons, u \in Urls : CronPass(c, u)
  BY <1>4, CronReads
<1>5. CASE \E t \in Tasks \cup Crons : Step(t)
  BY <1>0, <1>5, BodySteps
<1>6. CASE Restart
  BY <1>0, <1>6, Restarts
<1> QED BY <1>1, <1>2, <1>3, <1>4, <1>5, <1>6 DEF Next

(* The bodies, the rows, the merged lists and the mutex fit together in    *)
(* every state of the system.                                              *)
THEOREM Invariant == Spec => []IInv
BY Starts, Preserved, PTL DEF Spec

(* The types, and that a body runs exactly where the mutex says that one   *)
(* runs, of the kind and for the profile of the recorded request.          *)
THEOREM TypeCorrect == Spec => []TypeOK
BY Invariant, TypesHold, PTL

(* A profile's filter and rules never hold a list the profile had no row   *)
(* for, nor a version that was not compiled, however syncs and cron passes *)
(* overlap and fail: what a body carries, it took from rows of its profile.*)
THEOREM OwnLists == Spec => []OwnListsOnly
BY Invariant, TypesHold, PTL

-----------------------------------------------------------------------------
(* One operation at a time. Who is not busy has nothing left to write.     *)
LEMMA RequestFacts ==
  M!NoRequest.kind = "none" /\ ~Requested(M!NoRequest) /\ ForItsRow(M!NoRequest)
BY DEF M!NoRequest, Requested, ForItsRow

LEMMA IdleSolo ==
  /\ SoloBody(Idle) /\ Stamps(Idle) /\ \A t, h, p : ~Pending(t, Idle, h, p)
  /\ Idle.kind = "none"
BY DEF Idle, SoloBody, Stamps, Pending, Rewrites

LEMMA NotBusy ==
  ASSUME NEW t \in Tasks \cup Crons, ~Busy(t)
  PROVE  \A h, p : ~Owes(t, h, p)
BY IdleSolo, RequestFacts DEF Busy, Free, Owes

(* What holds for the one that is busy; with nobody busy, of everybody.    *)
LEMMA Lone ==
  ASSUME IInv, Solo, ~budget.overlap, NEW t \in Tasks \cup Crons, Busy(t) \/ AtRest
  PROVE  /\ \A u \in Tasks \cup Crons : u # t => ~Busy(u)
         /\ \A h \in Tables, p \in Profiles : ~Owes(t, h, p) => Fits(h, p)
         /\ SoloBody(run[t]) /\ Stamps(run[t])
         /\ \A p \in Profiles : (run[t].at = "restore" => run[t].profile # p) =>
                                   stamped[p] = synced[p]
<1>1. \A u \in Tasks \cup Crons : u # t => ~Busy(u)
  BY DEF Solo, Alone, AtRest, Busy
<1>2. ASSUME NEW h \in Tables, NEW p \in Profiles, ~Owes(t, h, p) PROVE Fits(h, p)
  BY <1>1, <1>2, NotBusy DEF Solo, Fitting
<1>3. \A u \in Tasks \cup Crons : u # t => run[u] = Idle
  BY <1>1 DEF Busy
<1>4. ASSUME NEW p \in Profiles, run[t].at = "restore" => run[t].profile # p
      PROVE  stamped[p] = synced[p]
  <2>1. \A u \in Tasks \cup Crons : run[u].at = "restore" => run[u].profile # p
    BY <1>3, <1>4, IdleFacts
  <2> QED BY <2>1 DEF Solo, Stamping
<1> QED BY <1>1, <1>2, <1>4 DEF Solo, Stamping

(* The busy one goes on; x is what becomes of its body.                    *)
LEMMA LoneGoes ==
  ASSUME IInv, Solo, ~budget.overlap, NEW t \in Tasks \cup Crons, Busy(t) \/ AtRest,
         NEW x, run' = [run EXCEPT ![t] = x],
         \A u \in Tasks : u # t => pc'[u] = pc[u] /\ ask'[u] = ask[u] /\ ForItsRow(req'[u]),
         t \in Tasks => /\ pc'[t] \in {"idle", "running"}
                        /\ ForItsRow(ask'[t]) /\ ForItsRow(req'[t]),
         SoloBody(run[t])', Stamps(run[t])',
         \A h \in Tables, p \in Profiles : ~Owes(t, h, p)' => Fits(h, p)',
         \A p \in Profiles : (x.at = "restore" => x.profile # p) => stamped'[p] = synced'[p]
  PROVE  Solo'
<1>1. \A u \in Tasks \cup Crons : u # t => ~Busy(u)
  BY Lone
<1>2. \A u \in Tasks \cup Crons : run'[u] = IF u = t THEN x ELSE run[u]
  BY RunFacts
<1>3. \A u \in Tasks \cup Crons : u # t => run'[u] = Idle /\ (u \in Tasks => Free(u)')
  BY <1>1, <1>2 DEF Busy, Free
<1>4. Alone'
  BY <1>3 DEF Alone, Busy
<1>5. NoWaiting'
  BY DEF Solo, NoWaiting
<1>6. RowAsks'
  BY DEF Solo, RowAsks, ForItsRow
<1>7. Fitting'
  BY DEF Fitting
<1>8. \A u \in Tasks \cup Crons : SoloBody(run[u])'
  <2>1. ASSUME NEW u \in Tasks \cup Crons, u # t PROVE SoloBody(run[u])'
    <3>1. run'[u] = Idle
      BY <1>3, <2>1
    <3> QED BY <3>1, IdleFacts, IdleSolo DEF SoloBody
  <2> QED BY <2>1
<1>9. Stamping'
  <2>1. ASSUME NEW u \in Tasks \cup Crons, u # t PROVE Stamps(run[u])'
    <3>1. run'[u] = Idle
      BY <1>3, <2>1
    <3> QED BY <3>1, IdleFacts, IdleSolo DEF Stamps
  <2>2. \A p \in Profiles :
           (\A u \in Tasks \cup Crons : run'[u].at = "restore" => run'[u].profile # p) =>
              stamped'[p] = synced'[p]
    BY <1>2
  <2> QED BY <2>1, <2>2 DEF Stamping
<1> QED BY <1>4, <1>5, <1>6, <1>7, <1>8, <1>9 DEF Solo

LEMMA FitsStays ==
  ASSUME NEW h, NEW p, Fits(h, p), UNCHANGED <<filter, sub, active>>
  PROVE  Fits(h, p)'
BY DEF Fits, Active, Rows, Merged, Cut, LateShared

(* A body step by itself: the mutex and the requests stay as they are.     *)
LEMMA LoneSteps ==
  ASSUME IInv, Solo, ~budget.overlap, NEW t \in Tasks \cup Crons, run[t].at # "idle",
         NEW x, run' = [run EXCEPT ![t] = x], UNCHANGED <<mutex, ask>>,
         SoloBody(run[t])', Stamps(run[t])',
         \A h \in Tables, p \in Profiles : ~Pending(t, x, h, p)' => Fits(h, p)',
         \A p \in Profiles : (x.at = "restore" => x.profile # p) => stamped'[p] = synced'[p]
  PROVE  Solo'
<1>1. Busy(t)
  BY IdleFacts DEF Busy
<1>2. run'[t] = x
  BY RunFacts
<1>3. \A h \in Tables, p \in Profiles : ~Owes(t, h, p)' => Fits(h, p)'
  BY <1>2 DEF Owes
<1>4. t \in Tasks => /\ pc'[t] \in {"idle", "running"}
                     /\ ForItsRow(ask'[t]) /\ ForItsRow(req'[t])
  BY DEF Solo, NoWaiting, RowAsks, mutex
<1>5. \A u \in Tasks : u # t => pc'[u] = pc[u] /\ ask'[u] = ask[u] /\ ForItsRow(req'[u])
  BY DEF mutex, Solo, RowAsks
<1> QED BY <1>1, <1>3, <1>4, <1>5, LoneGoes

(* Of a body under way: what it does not still write fits already.         *)
LEMMA LoneBody ==
  ASSUME IInv, Solo, ~budget.overlap, NEW t \in Tasks \cup Crons, run[t].at # "idle"
  PROVE  /\ \A h \in Tables, p \in Profiles : ~Pending(t, run[t], h, p) => Fits(h, p)
         /\ SoloBody(run[t]) /\ Stamps(run[t])
         /\ \A p \in Profiles : (run[t].at = "restore" => run[t].profile # p) =>
                                   stamped[p] = synced[p]
<1>1. Busy(t)
  BY IdleFacts DEF Busy
<1>2. t \in Tasks => ask[t] = M!NoRequest
  <2>1. t \in Tasks => pc[t] = "running"
    BY Runners, IdleFacts
  <2> QED BY <2>1 DEF IInv, AsksOK
<1>3. \A h, p : Owes(t, h, p) => Pending(t, run[t], h, p)
  BY <1>2, RequestFacts DEF Owes
<1> QED BY <1>1, <1>3, Lone

(* A step that only moves the body and forgets no write.                   *)
LEMMA LoneReads ==
  ASSUME IInv, Solo, ~budget.overlap, NEW t \in Tasks \cup Crons, run[t].at \notin {"idle", "restore"},
         NEW x, run' = [run EXCEPT ![t] = x],
         UNCHANGED <<mutex, ask, filter, sub, active, stamped, synced>>,
         SoloBody(x), Stamps(x), x.at # "restore",
         \A h \in Tables, p \in Profiles : Pending(t, run[t], h, p) => Pending(t, x, h, p)
  PROVE  Solo'
<1>1. run'[t] = x
  BY RunFacts
<1>2. SoloBody(run[t])'
  BY <1>1 DEF SoloBody, Active, Rows, Merged
<1>3. Stamps(run[t])'
  BY <1>1 DEF Stamps
<1>4. ASSUME NEW h \in Tables, NEW p \in Profiles, ~Pending(t, x, h, p)'
      PROVE  Fits(h, p)'
  <2>1. ~Pending(t, x, h, p)
    BY <1>4 DEF Pending, Rewrites, Requested, Subscribers, mutex
  <2> QED BY <2>1, LoneBody, FitsStays
<1>5. \A p \in Profiles : stamped'[p] = synced'[p]
  BY LoneBody
<1> QED BY <1>2, <1>3, <1>4, <1>5, LoneSteps

-----------------------------------------------------------------------------
LEMMA LoneBegins ==
  ASSUME IInv, Solo, ~budget.overlap, NEW t \in Tasks \cup Crons,
         BeginAll(t) \/ BeginSingle(t) \/ BeginRebuild(t) \/ ReadLists(t)
  PROVE  Solo'
<1> DEFINE mine == run[t]
<1>0. /\ mine \in Bodies /\ BodyOK(mine) /\ DOMAIN run = Tasks \cup Crons /\ Reads
      /\ mine.at \in {"begin", "lists"} /\ mine.kind # "cron" /\ Placed(mine) /\ t \in Tasks
      /\ req[t].kind = mine.kind /\ req[t].profile = mine.profile
  <2>1. mine.at \in {"begin", "lists"} /\ Reads
    BY DEF BeginAll, BeginSingle, BeginRebuild, ReadLists, At
  <2>2. mine.kind # "cron"
    BY <2>1, WhoseBody DEF Placed
  <2> QED BY <2>1, <2>2, RunFacts, WhoseBody, Runners
<1>1. UNCHANGED <<mutex, ask, filter, sub, active, stamped, synced>>
  BY <1>0 DEF Reads, upstream, compiled
<1>2. CASE BeginAll(t)
  <2>1. mine.at = "begin" /\ mine.kind = "all"
    BY <1>2 DEF BeginAll, At
  <2>2. PICK x : /\ run' = [run EXCEPT ![t] = x]
                 /\ x.at = (IF Active(mine.profile) = {} THEN "wipe" ELSE "probe")
                 /\ x.todo = Active(mine.profile) /\ x.kind = "all" /\ x.profile = mine.profile
    <3> DEFINE x == [mine EXCEPT !.at = IF Active(mine.profile) = {} THEN "wipe" ELSE "probe",
                                 !.todo = Active(mine.profile)]
    <3>1. run' = [run EXCEPT ![t] = x]
      BY <1>0, <1>2 DEF BeginAll
    <3>2. /\ x.at = (IF Active(mine.profile) = {} THEN "wipe" ELSE "probe")
          /\ x.todo = Active(mine.profile) /\ x.kind = "all" /\ x.profile = mine.profile
      BY <1>0, <2>1 DEF Bodies
    <3> QED BY <3>1, <3>2
  <2>3. SoloBody(x) /\ Stamps(x)
    BY <2>2, ActiveFacts DEF SoloBody, Stamps
  <2>4. \A h, p : ~Pending(t, mine, h, p)
    BY <1>0, <2>1 DEF Pending, Rewrites, Requested
  <2> QED BY <1>0, <1>1, <2>2, <2>3, <2>4, LoneReads
<1>3. CASE BeginSingle(t)
  <2> DEFINE l == req[t].list
  <2>1. mine.at = "begin" /\ mine.kind = "single" /\ l \in Rows(mine.profile)
    BY <1>0, <1>3 DEF BeginSingle, At, Solo, RowAsks, ForItsRow
  <2>2. PICK x : /\ run' = [run EXCEPT ![t] = x]
                 /\ x.kind = "single" /\ x.profile = mine.profile
                 /\ IF Present(l) THEN x.at = "probe" /\ x.todo = {l} /\ (x.many <=> sub[l] = "on")
                    ELSE x.at = "done"
    <3> DEFINE on == sub[l] = "on"
               x1 == [mine EXCEPT !.at = "probe", !.todo = {l}, !.many = on]
               x2 == [mine EXCEPT !.at = "done"]
    <3>1. run' = [run EXCEPT ![t] = IF Present(l) THEN x1 ELSE x2]
      BY <1>0, <1>3 DEF BeginSingle, Goto
    <3> HIDE DEF on
    <3>2. /\ x1.at = "probe" /\ x1.todo = {l} /\ x1.many = on
          /\ x1.kind = "single" /\ x1.profile = mine.profile
          /\ x2.at = "done" /\ x2.kind = "single" /\ x2.profile = mine.profile
      BY <1>0, <2>1 DEF Bodies
    <3> HIDE DEF x1, x2
    <3> QED BY <3>1, <3>2 DEF on
  <2>3. SoloBody(x) /\ Stamps(x)
    BY <2>1, <2>2 DEF SoloBody, Stamps, Present
  <2>4. \A h, p : Pending(t, mine, h, p) => Pending(t, x, h, p)
    BY <1>0, <2>1, <2>2 DEF Pending, Rewrites, Requested, Present
  <2>5. x.at # "restore"
    BY <2>2
  <2> QED BY <1>0, <1>1, <2>2, <2>3, <2>4, <2>5, LoneReads
<1>4. CASE BeginRebuild(t)
  <2>1. mine.at = "begin" /\ mine.kind = "rebuild"
    BY <1>4 DEF BeginRebuild, At
  <2>2. PICK x : /\ run' = [run EXCEPT ![t] = x] /\ x.at = "lists" /\ x.kind = "rebuild"
                 /\ x.profile = mine.profile /\ x.prior = stamped[mine.profile]
    <3> DEFINE s == stamped[mine.profile]
               x == [mine EXCEPT !.at = "lists", !.prior = s]
    <3>1. run' = [run EXCEPT ![t] = x]
      BY <1>0, <1>4 DEF BeginRebuild
    <3> HIDE DEF s
    <3>2. x.at = "lists" /\ x.kind = "rebuild" /\ x.profile = mine.profile /\ x.prior = s
      BY <1>0, <2>1 DEF Bodies
    <3> QED BY <3>1, <3>2 DEF s
  <2>3. SoloBody(x) /\ Stamps(x)
    BY <2>2 DEF SoloBody, Stamps
  <2>4. \A h, p : Pending(t, mine, h, p) => Pending(t, x, h, p)
    BY <1>0, <2>1, <2>2 DEF Pending, Rewrites
  <2> QED BY <1>0, <1>1, <2>2, <2>3, <2>4, LoneReads
<1>5. CASE ReadLists(t)
  <2>1. mine.at = "lists" /\ mine.kind = "rebuild"
    BY <1>0, <1>5 DEF ReadLists, At, Placed
  <2>2. PICK x : /\ run' = [run EXCEPT ![t] = x] /\ x.at = "probe" /\ x.kind = "rebuild"
                 /\ x.profile = mine.profile /\ x.prior = mine.prior
                 /\ x.todo = Active(mine.profile)
    <3> DEFINE x == [mine EXCEPT !.at = "probe", !.todo = Active(mine.profile)]
    <3>1. run' = [run EXCEPT ![t] = x]
      BY <1>0, <1>5 DEF ReadLists
    <3>2. /\ x.at = "probe" /\ x.kind = "rebuild" /\ x.profile = mine.profile
          /\ x.prior = mine.prior /\ x.todo = Active(mine.profile)
      BY <1>0, <2>1 DEF Bodies
    <3> QED BY <3>1, <3>2
  <2>3. mine.prior = stamped[mine.profile]
    BY <1>0, <2>1, LoneBody DEF Stamps
  <2>4. SoloBody(x) /\ Stamps(x)
    BY <2>2, <2>3, ActiveFacts DEF SoloBody, Stamps
  <2>5. \A h, p : Pending(t, mine, h, p) => Pending(t, x, h, p)
    BY <1>0, <2>1, <2>2 DEF Pending, Rewrites
  <2> QED BY <1>0, <1>1, <2>2, <2>4, <2>5, LoneReads
<1> QED BY <1>2, <1>3, <1>4, <1>5

LEMMA LoneProbes ==
  ASSUME IInv, Solo, ~budget.overlap, NEW t \in Tasks \cup Crons, Probe(t) \/ ProbeDone(t)
  PROVE  Solo'
<1> DEFINE mine == run[t]
<1>0. /\ mine \in Bodies /\ BodyOK(mine) /\ DOMAIN run = Tasks \cup Crons /\ Reads
      /\ mine.at = "probe" /\ mine.kind \in Kinds
  <2>1. mine.at = "probe" /\ Reads
    BY DEF Probe, ProbeDone, At
  <2> QED BY <2>1, RunFacts, WhoseBody DEF Placed
<1>1. UNCHANGED <<mutex, ask, filter, sub, active, stamped, synced>>
  BY <1>0 DEF Reads, upstream, compiled
<1>2. /\ mine.todo \subseteq Rows(mine.profile) /\ \A l \in mine.todo : sub[l] # "none"
      /\ mine.kind = "single" /\ ~mine.many => \A l \in mine.todo : sub[l] # "on"
      /\ Stamps(mine)
  BY <1>0, LoneBody DEF SoloBody, Kinds
<1>3. CASE Probe(t)
  <2> DEFINE l == First(Missing(t))
             left == IF mine.kind = "rebuild" THEN {} ELSE mine.todo \ {k \in Subs : k <= l}
  <2>1. l \in mine.todo /\ filter[UrlOf[l]] = 0
    BY <1>3, MissingFacts DEF Probe
  <2>2. PICK x : /\ run' = [run EXCEPT ![t] = x] /\ x.at = "fetch" /\ x.kind = mine.kind
                 /\ x.profile = mine.profile /\ x.prior = mine.prior /\ x.many = mine.many
                 /\ x.url = UrlOf[l] /\ x.todo \subseteq mine.todo
    <3> DEFINE u == UrlOf[l]
               g == tag[u]
               x == [mine EXCEPT !.at = "fetch", !.url = u, !.tag = g, !.todo = left]
    <3>1. run' = [run EXCEPT ![t] = x]
      BY <1>0, <1>3 DEF Probe
    <3>2. left \subseteq mine.todo
      OBVIOUS
    <3> HIDE DEF u, g, left
    <3>3. /\ x.at = "fetch" /\ x.kind = mine.kind
          /\ x.profile = mine.profile /\ x.prior = mine.prior /\ x.many = mine.many
          /\ x.url = u /\ x.todo = left
      BY <1>0 DEF Bodies
    <3> HIDE DEF x
    <3> QED BY <3>1, <3>2, <3>3 DEF u
  <2> HIDE DEF l
  <2>3. SoloBody(x) /\ Stamps(x)
    BY <1>0, <1>2, <2>1, <2>2 DEF SoloBody, Stamps, Kinds
  <2>4. \A h, p : Pending(t, mine, h, p) => Pending(t, x, h, p)
    BY <1>0, <2>2 DEF Pending, Rewrites, Kinds
  <2> QED BY <1>0, <1>1, <2>2, <2>3, <2>4, LoneReads
<1>4. CASE ProbeDone(t)
  <2>1. PICK s \in {"touch", "done", "combine"} :
           /\ Goto(t, s)
           /\ s = "done" => mine.kind = "single" /\ ~mine.many
    <3>1. CASE mine.kind = "all"
      BY <1>4, <3>1 DEF ProbeDone
    <3>2. CASE mine.kind = "single"
      BY <1>4, <3>2 DEF ProbeDone
    <3>3. CASE mine.kind = "rebuild"
      BY <1>4, <3>3 DEF ProbeDone
    <3> QED BY <1>0, <3>1, <3>2, <3>3 DEF Kinds
  <2>2. PICK x : /\ run' = [run EXCEPT ![t] = x] /\ x.at = s /\ x.kind = mine.kind
                 /\ x.profile = mine.profile /\ x.prior = mine.prior
    <3> DEFINE x == [mine EXCEPT !.at = s]
    <3>1. x.at = s /\ x.kind = mine.kind /\ x.profile = mine.profile /\ x.prior = mine.prior
      BY <1>0 DEF Bodies
    <3> QED BY <2>1, <3>1 DEF Goto
  <2>3. SoloBody(x) /\ Stamps(x)
    BY <1>0, <1>2, <2>1, <2>2 DEF SoloBody, Stamps
  <2>4. \A h, p : Pending(t, mine, h, p) => Pending(t, x, h, p)
    BY <1>0, <2>1, <2>2 DEF Pending, Rewrites, Kinds
  <2> QED BY <1>0, <1>1, <2>1, <2>2, <2>3, <2>4, LoneReads
<1> QED BY <1>3, <1>4

-----------------------------------------------------------------------------
LEMMA MergedNone == Merged({}) = {}
BY DEF Merged

LEMMA LoneCombines ==
  ASSUME IInv, Solo, ~budget.overlap, NEW t \in Tasks \cup Crons, Combine(t)
  PROVE  Solo'
<1> DEFINE mine == run[t]
           ls == Active(mine.profile)
<1>0. /\ mine \in Bodies /\ mine.at = "combine" /\ Reads
      /\ UNCHANGED <<mutex, ask, filter, sub, active, stamped, synced>>
  BY RunFacts DEF Combine, At, Reads, upstream, compiled
<1>1. PICK x : /\ run' = [run EXCEPT ![t] = x] /\ x.kind = mine.kind
               /\ x.profile = mine.profile /\ x.prior = mine.prior /\ x.rest = mine.rest
               /\ x.at = (IF ls = {} THEN "put" ELSE "load") /\ x.todo = ls
               /\ x.put = Tables /\ x.got = Nothing
  <2> DEFINE lots == Cardinality(ls) > 1
             x == [[mine EXCEPT !.at = IF ls = {} THEN "put" ELSE "load", !.todo = ls,
                                !.many = lots, !.put = Tables] EXCEPT !.got = Nothing]
  <2>1. run' = [run EXCEPT ![t] = x]
    BY DEF Combine, Takes
  <2> HIDE DEF lots
  <2>2. /\ x.kind = mine.kind
        /\ x.profile = mine.profile /\ x.prior = mine.prior /\ x.rest = mine.rest
        /\ x.at = (IF ls = {} THEN "put" ELSE "load") /\ x.todo = ls
        /\ x.put = Tables /\ x.got = Nothing
    BY <1>0 DEF Bodies
  <2> QED BY <2>1, <2>2
<1>2. \A h \in Tables : x.got[h] = {}
  BY <1>1 DEF Nothing
<1>3. SoloBody(x)
  <2>1. x.at = "load" =>
          \A h \in Tables : h \in x.put /\ x.got[h] = Merged(Active(x.profile) \ x.todo)
    <3>1. Active(x.profile) \ x.todo = {}
      BY <1>1
    <3> QED BY <1>1, <1>2, <3>1, MergedNone
  <2>2. x.at = "put" => \A h \in x.put : x.got[h] = Merged(Active(x.profile))
    <3>1. x.at = "put" => Active(x.profile) = {}
      BY <1>1
    <3> QED BY <1>1, <1>2, <3>1, MergedNone
  <2> QED BY <1>1, <2>1, <2>2 DEF SoloBody
<1>4. Stamps(x)
  <2>1. Stamps(mine)
    BY <1>0, LoneBody
  <2> QED BY <1>0, <1>1, <2>1 DEF Stamps
<1>5. \A h \in Tables, p \in Profiles : Pending(t, mine, h, p) => Pending(t, x, h, p)
  BY <1>0, <1>1 DEF Pending, Rewrites
<1>6. x.at # "restore"
  BY <1>1
<1> QED BY <1>0, <1>1, <1>3, <1>4, <1>5, <1>6, LoneReads

LEMMA LoneLoads ==
  ASSUME IInv, Solo, ~budget.overlap, NEW t \in Tasks \cup Crons, NEW h \in Tables, Load(t, h)
  PROVE  Solo'
<1> DEFINE mine == run[t]
           l == First(mine.todo)
           left == mine.todo \ {l}
           all == Active(mine.profile)
           rest == mine.put \ {h}
<1>0. /\ mine \in Bodies /\ BodyOK(mine) /\ mine.at = "load" /\ Reads /\ h \in mine.put
      /\ DOMAIN run = Tasks \cup Crons
      /\ UNCHANGED <<mutex, ask, filter, sub, active, stamped, synced>>
  BY RunFacts DEF Load, InTurn, At, Reads, upstream, compiled
<1>1. PICK x : /\ run' = [run EXCEPT ![t] = x] /\ x.kind = mine.kind
               /\ x.profile = mine.profile /\ x.prior = mine.prior /\ x.rest = mine.rest
               /\ IF rest # {} THEN x.at = "load" /\ x.todo = mine.todo /\ x.put = rest
                  ELSE /\ x.at = (IF left = {} THEN "put" ELSE "load") /\ x.todo = left
                       /\ x.put = Tables
               /\ \A k \in Tables : x.got[k] = mine.got[k] \cup
                                        (IF k = h THEN Merged({l}) ELSE {})
  <2> DEFINE new == Merged({l})
             got == [mine.got EXCEPT ![h] = @ \cup new]
             y == [mine EXCEPT !.put = rest, !.got = got]
             z == [y EXCEPT !.todo = left, !.put = Tables,
                            !.at = IF left = {} THEN "put" ELSE "load"]
  <2>1. \A k \in Tables : got[k] = mine.got[k] \cup (IF k = h THEN new ELSE {})
    <3>1. mine.got \in [Tables -> Merges]
      BY <1>0 DEF Bodies
    <3> HIDE DEF new
    <3> QED BY <3>1
  <2>2. run' = [run EXCEPT ![t] = IF y.put = {} THEN NextList(y) ELSE y]
    BY <1>0 DEF Load
  <2>3. y.todo = mine.todo /\ y.put = rest
    BY <1>0 DEF Bodies
  <2>4. NextList(y) = z
    BY <2>3 DEF NextList
  <2> HIDE DEF got, left, rest, new
  <2>5. /\ y.kind = mine.kind /\ y.at = "load" /\ y.todo = mine.todo /\ y.put = rest
        /\ y.profile = mine.profile /\ y.prior = mine.prior /\ y.rest = mine.rest
        /\ y.got = got
    BY <1>0 DEF Bodies
  <2>6. /\ z.kind = mine.kind /\ z.todo = left /\ z.put = Tables
        /\ z.at = (IF left = {} THEN "put" ELSE "load")
        /\ z.profile = mine.profile /\ z.prior = mine.prior /\ z.rest = mine.rest
        /\ z.got = got
    BY <1>0 DEF Bodies
  <2> HIDE DEF y, z
  <2>7. CASE rest # {}
    BY <2>1, <2>2, <2>3, <2>5, <2>7 DEF new
  <2>8. CASE rest = {}
    <3>1. run' = [run EXCEPT ![t] = z]
      BY <2>2, <2>3, <2>4, <2>8
    <3> QED BY <2>1, <2>6, <2>8, <3>1 DEF new
  <2> QED BY <2>7, <2>8
<1>2. /\ mine.todo \subseteq all
      /\ \A k \in Tables : mine.got[k] = Merged(all \ mine.todo) \cup
                               (IF k \in mine.put THEN {} ELSE Merged({l}))
      /\ Stamps(mine)
  BY <1>0, LoneBody DEF SoloBody
<1>3. l \in mine.todo
  BY <1>0, FirstFacts DEF BodyOK, Bodies
<1>4. Merged(all \ left) = Merged(all \ mine.todo) \cup Merged({l})
  <2>1. all \ left = (all \ mine.todo) \cup {l}
    BY <1>2, <1>3
  <2>2. \A a, b : Merged(a \cup b) = Merged(a) \cup Merged(b)
    BY DEF Merged
  <2> HIDE DEF all, left, l
  <2> QED BY <2>1, <2>2
<1>5. SoloBody(x)
  <2> DEFINE new == Merged({l})
             old == Merged(all \ mine.todo)
             done == Merged(all \ left)
  <2>1. \A k \in Tables : x.got[k] = old \cup (IF k \in rest THEN {} ELSE new)
    <3> HIDE DEF new, old
    <3>1. \A k \in Tables : mine.got[k] = old \cup (IF k \in mine.put THEN {} ELSE new)
      BY <1>2 DEF new, old
    <3>2. \A k \in Tables : x.got[k] = mine.got[k] \cup (IF k = h THEN new ELSE {})
      BY <1>1 DEF new
    <3> QED BY <1>0, <3>1, <3>2
  <2>2. CASE rest # {}
    BY <1>1, <1>2, <2>1, <2>2 DEF SoloBody
  <2>3. CASE rest = {} /\ left # {}
    <3>1. \A k \in Tables : x.got[k] = done
      BY <1>4, <2>1, <2>3
    <3>2. x.at = "load" /\ x.todo = left /\ x.put = Tables /\ left \subseteq all
      BY <1>1, <1>2, <2>3
    <3> HIDE DEF left, done, all
    <3> QED BY <1>1, <3>1, <3>2 DEF SoloBody, done, all
  <2>4. CASE rest = {} /\ left = {}
    <3>1. \A k \in Tables : x.got[k] = done
      BY <1>4, <2>1, <2>4
    <3>2. all \ left = all
      BY <2>4
    <3>3. x.at = "put" /\ x.put = Tables
      BY <1>1, <2>4
    <3> HIDE DEF left, all
    <3> QED BY <1>1, <3>1, <3>2, <3>3 DEF SoloBody, done, all
  <2> QED BY <2>2, <2>3, <2>4
<1>6. Stamps(x)
  BY <1>0, <1>1, <1>2 DEF Stamps
<1>7. \A k \in Tables, p \in Profiles : Pending(t, mine, k, p) => Pending(t, x, k, p)
  BY <1>0, <1>1 DEF Pending, Rewrites
<1>8. x.at # "restore"
  BY <1>1
<1> QED BY <1>0, <1>1, <1>5, <1>6, <1>7, <1>8, LoneReads

-----------------------------------------------------------------------------
(* Fetches. Where no version was compiled before, nothing was merged.      *)
LEMMA FirstVersion ==
  ASSUME IInv, KnownFirst, NEW u \in Urls, NEW v, filter[u] = 0,
         filter' = [filter EXCEPT ![u] = v], UNCHANGED <<sub, active>>,
         NEW h \in Tables, NEW p \in Profiles, Fits(h, p),
         NEW l \in Subs, UrlOf[l] = u, sub[l] # "none", l \notin Active(p)
  PROVE  Fits(h, p)'
<1>1. \A w \in Urls : filter'[w] = IF w = u THEN v ELSE filter[w]
  BY DEF IInv, TablesOK
<1>2. Active(p)' = Active(p) /\ Active(p) \in SUBSET Subs
  BY DEF Active, Rows
<1>3. ASSUME NEW m \in active[h][p]
      PROVE  /\ \E k \in Active(p) : UrlOf[k] = m[1]
             /\ m[2] = filter'[m[1]] \/ Cut(m[1])'
  <2>1. m[1] \in Urls /\ m[2] \in 1..MaxVersion /\ m[2] <= filter[m[1]]
    BY DEF IInv, ActiveOK, Merges, Own
  <2>2. m[1] # u
    BY <2>1, BoundsAssumption
  <2>3. \E k \in Active(p) : UrlOf[k] = m[1]
    BY DEF Fits
  <2>4. m[2] = filter[m[1]] \/ Cut(m[1])
    BY DEF Fits
  <2> QED BY <1>1, <2>1, <2>2, <2>3, <2>4 DEF Cut
<1>4. ASSUME NEW m \in Merged(Active(p))'
      PROVE  m \in active[h][p] \/ Cut(m[1])' \/ LateShared(m[1])
  <2>1. PICK k \in Active(p) : filter'[UrlOf[k]] # 0 /\ m = <<UrlOf[k], filter'[UrlOf[k]]>>
    BY <1>2 DEF Merged
  <2>2. k \in Subs /\ UrlOf[k] \in Urls
    BY <1>2, <2>1, RowsAssumption
  <2>3. CASE UrlOf[k] = u
    <3>1. k # l /\ sub[k] # "none"
      BY DEF Active
    <3>2. \A s \in Start : UrlOf[s] # u
      BY DEF KnownFirst
    <3> QED BY <2>1, <2>2, <2>3, <3>1, <3>2 DEF LateShared
  <2>4. CASE UrlOf[k] # u
    <3>1. filter'[UrlOf[k]] = filter[UrlOf[k]]
      BY <1>1, <2>2, <2>4
    <3>2. m \in Merged(Active(p))
      BY <2>1, <3>1 DEF Merged
    <3>3. m \in active[h][p] \/ Cut(m[1]) \/ LateShared(m[1])
      BY <3>2 DEF Fits
    <3> QED BY <2>1, <3>1, <3>3 DEF Cut
  <2> QED BY <2>3, <2>4
<1> QED BY <1>2, <1>3, <1>4 DEF Fits, LateShared

(* A new version of a list that no row of the profile wants, or that was   *)
(* cut.                                                                    *)
LEMMA OtherVersion ==
  ASSUME IInv, NEW u \in Urls, NEW v,
         filter' = [filter EXCEPT ![u] = v], UNCHANGED <<sub, active>>,
         NEW h \in Tables, NEW p \in Profiles, Fits(h, p),
         v \in Oversized \/ \A l \in Active(p) : UrlOf[l] # u
  PROVE  Fits(h, p)'
<1>1. \A w \in Urls : filter'[w] = IF w = u THEN v ELSE filter[w]
  BY DEF IInv, TablesOK
<1>2. Active(p)' = Active(p) /\ Active(p) \in SUBSET Subs
  BY DEF Active, Rows
<1>3. ASSUME NEW m \in active[h][p]
      PROVE  /\ \E k \in Active(p) : UrlOf[k] = m[1]
             /\ m[2] = filter'[m[1]] \/ Cut(m[1])'
  <2>1. m[1] \in Urls
    BY DEF IInv, ActiveOK, Merges
  <2>2. /\ \E k \in Active(p) : UrlOf[k] = m[1]
        /\ m[2] = filter[m[1]] \/ Cut(m[1])
    BY DEF Fits
  <2> QED BY <1>1, <2>1, <2>2 DEF Cut
<1>4. ASSUME NEW m \in Merged(Active(p))'
      PROVE  m \in active[h][p] \/ Cut(m[1])' \/ LateShared(m[1])
  <2>1. PICK k \in Active(p) : filter'[UrlOf[k]] # 0 /\ m = <<UrlOf[k], filter'[UrlOf[k]]>>
    BY <1>2 DEF Merged
  <2>2. k \in Subs /\ UrlOf[k] \in Urls
    BY <1>2, <2>1, RowsAssumption
  <2>3. CASE UrlOf[k] = u
    BY <1>1, <2>1, <2>2, <2>3 DEF Cut
  <2>4. CASE UrlOf[k] # u
    <3>1. filter'[UrlOf[k]] = filter[UrlOf[k]]
      BY <1>1, <2>2, <2>4
    <3>2. m \in Merged(Active(p))
      BY <2>1, <3>1 DEF Merged
    <3>3. m \in active[h][p] \/ Cut(m[1]) \/ LateShared(m[1])
      BY <3>2 DEF Fits
    <3> QED BY <2>1, <3>1, <3>3 DEF Cut
  <2> QED BY <2>3, <2>4
<1> QED BY <1>2, <1>3, <1>4 DEF Fits, LateShared

LEMMA Resumes ==
  ASSUME IInv, NEW t \in Tasks \cup Crons, NEW fresh \in BOOLEAN, At(t, "fetch"),
         AfterFetch(t, fresh)
  PROVE  \E x : /\ run' = [run EXCEPT ![t] = x]
                /\ IF run[t].kind = "cron" /\ ~fresh THEN x = Idle
                   ELSE /\ x.at = (IF run[t].kind = "cron" THEN "subscribers" ELSE "probe")
                        /\ x.kind = run[t].kind /\ x.profile = run[t].profile
                        /\ x.prior = run[t].prior /\ x.rest = run[t].rest
                        /\ x.url = run[t].url /\ x.todo = run[t].todo /\ x.many = run[t].many
<1> DEFINE mine == run[t]
           place == Then(t, fresh)
           y == [mine EXCEPT !.at = place, !.tag = 0]
           x == IF place = "idle" THEN Idle ELSE y
<1>0. mine \in Bodies /\ DOMAIN run = Tasks \cup Crons
  BY RunFacts
<1>1. run' = [run EXCEPT ![t] = x]
  BY <1>0 DEF AfterFetch
<1>2. place = IF mine.kind # "cron" THEN "probe" ELSE IF fresh THEN "subscribers" ELSE "idle"
  BY DEF Then
<1> HIDE DEF place
<1>3. /\ y.at = place
      /\ y.kind = mine.kind /\ y.profile = mine.profile
      /\ y.prior = mine.prior /\ y.rest = mine.rest
      /\ y.url = mine.url /\ y.todo = mine.todo /\ y.many = mine.many
  BY <1>0 DEF Bodies
<1> HIDE DEF y
<1> QED BY <1>1, <1>2, <1>3

LEMMA LoneFetches ==
  ASSUME IInv, KnownFirst, Solo, ~budget.overlap, NEW t \in Tasks \cup Crons,
         NotModified(t) \/ Fetched(t) \/ FetchFails(t)
  PROVE  Solo'
<1> DEFINE mine == run[t]
           u == mine.url
<1>0. /\ mine \in Bodies /\ BodyOK(mine) /\ mine.at = "fetch" /\ u \in Urls
      /\ mine.kind \in Kinds \cup {"cron"}
  <2>1. mine.at = "fetch"
    BY DEF NotModified, Fetched, FetchFails, At
  <2> QED BY <2>1, RunFacts, WhoseBody DEF BodyOK
<1>1. /\ mine.kind = "cron" => mine.rest = {}
      /\ mine.kind # "cron" =>
           /\ mine.todo \subseteq Rows(mine.profile) /\ \A l \in mine.todo : sub[l] # "none"
           /\ mine.kind = "single" /\ ~mine.many => \A l \in mine.todo : sub[l] # "on"
           /\ filter[u] = 0
           /\ \E l \in Rows(mine.profile) :
                 /\ UrlOf[l] = u /\ sub[l] # "none"
                 /\ mine.kind = "single" /\ ~mine.many => sub[l] # "on"
      /\ Stamps(mine)
  BY <1>0, LoneBody DEF SoloBody
<1>2. PICK fresh \in BOOLEAN : /\ AfterFetch(t, fresh)
                               /\ Fetched(t) => fresh = (source[u] \notin Oversized)
                               /\ ~Fetched(t) => ~fresh
  BY DEF NotModified, Fetched, FetchFails
<1>3. PICK x : /\ run' = [run EXCEPT ![t] = x]
               /\ IF mine.kind = "cron" /\ ~fresh THEN x = Idle
                  ELSE /\ x.at = (IF mine.kind = "cron" THEN "subscribers" ELSE "probe")
                       /\ x.kind = mine.kind /\ x.profile = mine.profile
                       /\ x.prior = mine.prior /\ x.rest = mine.rest
                       /\ x.url = u /\ x.todo = mine.todo /\ x.many = mine.many
  BY <1>0, <1>2, Resumes DEF At
<1>4. UNCHANGED <<mutex, ask, sub, active, stamped, synced>>
  BY DEF NotModified, Fetched, FetchFails, compiled
<1>5. SoloBody(x) /\ SoloBody(run[t])' /\ Stamps(x) /\ x.at # "restore"
  <2>1. CASE mine.kind = "cron" /\ ~fresh
    BY <1>3, <2>1, RunFacts, IdleSolo, IdleFacts DEF SoloBody
  <2>2. CASE ~(mine.kind = "cron" /\ ~fresh)
    <3>1. run'[t] = x
      BY <1>3, RunFacts
    <3>2. x.at \in {"probe", "subscribers"} /\ (x.at = "probe" <=> x.kind # "cron")
      BY <1>3, <2>2
    <3>3. SoloBody(x)
      BY <1>1, <1>3, <2>2, <3>2 DEF SoloBody
    <3>4. SoloBody(run[t])'
      BY <1>1, <1>3, <1>4, <2>2, <3>1, <3>2 DEF SoloBody, Rows
    <3>5. Stamps(x)
      BY <1>0, <1>1, <1>3, <2>2, <3>2 DEF Stamps
    <3> QED BY <3>2, <3>3, <3>4, <3>5
  <2> QED BY <2>1, <2>2
<1>6. CASE ~Fetched(t)
  <2>1. UNCHANGED filter
    BY <1>6 DEF NotModified, FetchFails
  <2>2. \A h \in Tables, p \in Profiles : Pending(t, mine, h, p) => Pending(t, x, h, p)
    <3>1. CASE mine.kind = "cron"
      BY <1>0, <1>1, <3>1 DEF Pending, Rewrites
    <3>2. CASE mine.kind # "cron"
      BY <1>0, <1>3, <3>2 DEF Pending, Rewrites
    <3> QED BY <3>1, <3>2
  <2> QED BY <1>0, <1>3, <1>4, <1>5, <2>1, <2>2, LoneReads
<1>7. CASE Fetched(t)
  <2>1. filter' = [filter EXCEPT ![u] = source[u]]
    BY <1>7 DEF Fetched
  <2>2. Stamps(run[t])'
    BY <1>3, <1>4, <1>5, RunFacts DEF Stamps
  <2>3. ASSUME NEW h \in Tables, NEW p \in Profiles, ~Pending(t, x, h, p)'
        PROVE  Fits(h, p)'
    <3>0. ~Pending(t, x, h, p)
      BY <1>4, <2>3 DEF Pending, Rewrites, Requested, Subscribers, mutex
    <3>1. CASE mine.kind # "cron"
      <4>1. ~Pending(t, mine, h, p)
        BY <1>0, <1>3, <3>0, <3>1 DEF Pending, Rewrites
      <4>2. Fits(h, p)
        BY <1>0, <4>1, LoneBody
      <4>3. PICK l \in Rows(mine.profile) : /\ UrlOf[l] = u /\ sub[l] # "none"
                                            /\ mine.kind = "single" /\ ~mine.many => sub[l] # "on"
        BY <1>1, <3>1
      <4>4. l \in Subs /\ Owner[l] = mine.profile
        BY <4>3 DEF Rows
      <4>5. mine.profile = p => mine.kind = "single" /\ ~mine.many
        BY <1>0, <3>1, <4>1 DEF Pending, Rewrites, Kinds
      <4>6. l \notin Active(p)
        BY <4>3, <4>4, <4>5 DEF Active, Rows
      <4> QED BY <1>0, <1>1, <1>4, <2>1, <3>1, <4>2, <4>3, <4>4, <4>6, FirstVersion
    <3>2. CASE mine.kind = "cron"
      <4>1. ~Pending(t, mine, h, p)
        BY <1>0, <1>1, <3>2 DEF Pending, Rewrites
      <4>2. Fits(h, p)
        BY <1>0, <4>1, LoneBody
      <4>3. source[u] \in Oversized \/ \A l \in Active(p) : UrlOf[l] # u
        <5>1. ASSUME source[u] \notin Oversized, NEW l \in Active(p), UrlOf[l] = u
              PROVE  FALSE
          <6>1. x.at = "subscribers" /\ x.url = u
            BY <1>2, <1>3, <1>7, <3>2, <5>1
          <6>2. p \in Subscribers(u)
            BY <5>1 DEF Subscribers, Active, Rows
          <6> QED BY <3>0, <6>1, <6>2 DEF Pending
        <5> QED BY <5>1
      <4> QED BY <1>0, <1>4, <2>1, <4>2, <4>3, OtherVersion
    <3> QED BY <3>1, <3>2
  <2>4. \A p \in Profiles : (x.at = "restore" => x.profile # p) => stamped'[p] = synced'[p]
    BY <1>0, <1>4, LoneBody
  <2> QED BY <1>0, <1>3, <1>4, <1>5, <2>2, <2>3, <2>4, LoneSteps
<1> QED BY <1>6, <1>7

-----------------------------------------------------------------------------
LEMMA LoneCron ==
  ASSUME IInv, Solo, ~budget.overlap, NEW t \in Tasks \cup Crons,
         ReadSubscribers(t) \/ (\E p \in Profiles : NextSubscriber(t, p)) \/ CronDone(t)
  PROVE  Solo'
<1> DEFINE mine == run[t]
<1>0. /\ mine \in Bodies /\ DOMAIN run = Tasks \cup Crons /\ mine.at \in {"subscribers", "next"}
      /\ mine.kind = "cron" /\ UNCHANGED <<mutex, ask, filter, sub, active, stamped, synced>>
  <2>1. mine.at \in {"subscribers", "next"} /\ Reads
    BY DEF ReadSubscribers, NextSubscriber, CronDone, At
  <2> QED BY <2>1, RunFacts, WhoseBody DEF Placed, Reads, upstream, compiled
<1>1. CASE ReadSubscribers(t)
  <2>1. mine.at = "subscribers" /\ mine.rest = {}
    BY <1>0, <1>1, LoneBody DEF ReadSubscribers, At, SoloBody
  <2>2. PICK x : /\ run' = [run EXCEPT ![t] = x] /\ x.at = "next" /\ x.kind = "cron"
                 /\ x.rest = Subscribers(mine.url)
    <3> DEFINE ps == Subscribers(mine.url)
               x == [mine EXCEPT !.at = "next", !.url = None, !.rest = ps]
    <3>1. run' = [run EXCEPT ![t] = x]
      BY <1>0, <1>1 DEF ReadSubscribers
    <3> HIDE DEF ps
    <3>2. x.at = "next" /\ x.kind = "cron" /\ x.rest = ps
      BY <1>0 DEF Bodies
    <3> QED BY <3>1, <3>2 DEF ps
  <2>3. SoloBody(x) /\ Stamps(x)
    BY <2>2 DEF SoloBody, Stamps
  <2>4. \A h \in Tables, p \in Profiles : Pending(t, mine, h, p) => Pending(t, x, h, p)
    BY <2>1, <2>2 DEF Pending, Rewrites
  <2> QED BY <1>0, <2>2, <2>3, <2>4, LoneReads
<1>2. ASSUME NEW p \in Profiles, NextSubscriber(t, p) PROVE Solo'
  <2>1. mine.at = "next"
    BY <1>2 DEF NextSubscriber, At
  <2>2. PICK x : /\ run' = [run EXCEPT ![t] = x] /\ x.at = "combine" /\ x.kind = "cron"
                 /\ x.profile = p /\ x.rest = mine.rest \ {p}
    <3> DEFINE x == [mine EXCEPT !.at = "combine", !.profile = p, !.rest = mine.rest \ {p}]
    <3>1. run' = [run EXCEPT ![t] = x]
      BY <1>0, <1>2 DEF NextSubscriber
    <3>2. x.at = "combine" /\ x.kind = "cron" /\ x.profile = p /\ x.rest = mine.rest \ {p}
      BY <1>0 DEF Bodies
    <3> QED BY <3>1, <3>2
  <2>3. SoloBody(x) /\ Stamps(x)
    BY <2>2 DEF SoloBody, Stamps
  <2>4. \A h \in Tables, q \in Profiles : Pending(t, mine, h, q) => Pending(t, x, h, q)
    BY <1>0, <2>1, <2>2 DEF Pending, Rewrites
  <2> QED BY <1>0, <2>2, <2>3, <2>4, LoneReads
<1>3. CASE CronDone(t)
  <2>1. mine.at = "next" /\ mine.rest = {} /\ run' = [run EXCEPT ![t] = Idle]
    BY <1>3 DEF CronDone, At
  <2>2. \A h \in Tables, p \in Profiles : ~Pending(t, mine, h, p)
    BY <2>1 DEF Pending, Rewrites
  <2> QED BY <1>0, <2>1, <2>2, IdleSolo, IdleFacts, LoneReads
<1> QED BY <1>1, <1>2, <1>3

-----------------------------------------------------------------------------
(* The body goes on at s, and has stamped the profile.                     *)
LEMMA LoneTouches ==
  ASSUME IInv, Solo, ~budget.overlap, NEW t \in Tasks \cup Crons, NEW s, Goto(t, s), Touched(t),
         run[t].at \in {"stamp", "touch", "last", "put"}, s \in {"combine", "next", "restore", "done"},
         run[t].profile \in Profiles,
         run[t].at = "put" => run[t].put = {},
         s = "combine" <=> run[t].at = "touch",
         run[t].kind = "rebuild" => run[t].at = "put",
         s = "restore" <=> run[t].kind = "rebuild"
  PROVE  Solo'
<1> DEFINE mine == run[t]
           p == mine.profile
<1>0. mine \in Bodies /\ DOMAIN run = Tasks \cup Crons
  BY RunFacts
<1>1. UNCHANGED <<mutex, ask, filter, sub, active>>
  BY DEF Touched, upstream
<1>2. PICK x : /\ run' = [run EXCEPT ![t] = x] /\ x.at = s /\ x.kind = mine.kind
               /\ x.profile = p /\ x.prior = mine.prior /\ x.rest = mine.rest
  <2> DEFINE x == [mine EXCEPT !.at = s]
  <2>1. /\ x.at = s /\ x.kind = mine.kind
        /\ x.profile = p /\ x.prior = mine.prior /\ x.rest = mine.rest
    BY <1>0 DEF Bodies
  <2> QED BY <2>1 DEF Goto
<1>3. run'[t] = x
  BY <1>2, RunFacts
<1>4. /\ \A q \in Profiles : stamped[q] = synced[q]
      /\ Stamps(mine)
  BY LoneBody
<1>5. /\ \A q \in Profiles : stamped'[q] = IF q = p THEN TRUE ELSE stamped[q]
      /\ \A q \in Profiles : synced'[q] = IF q = p THEN synced[q] \/ mine.kind # "rebuild"
                                          ELSE synced[q]
      /\ stamped[p] \in BOOLEAN /\ synced[p] \in BOOLEAN
  BY DEF Touched, IInv, TablesOK
<1>6. SoloBody(run[t])'
  BY <1>2, <1>3 DEF SoloBody
<1>7. Stamps(run[t])'
  <2>1. CASE mine.kind = "rebuild"
    <3>1. x.at = "restore" /\ mine.prior = stamped[p]
      BY <1>2, <1>4, <2>1 DEF Stamps
    <3>2. synced'[p] = stamped[p]
      BY <1>4, <1>5, <2>1
    <3> QED BY <1>2, <1>3, <3>1, <3>2 DEF Stamps
  <2>2. CASE mine.kind # "rebuild"
    BY <1>2, <1>3, <2>2 DEF Stamps
  <2> QED BY <2>1, <2>2
<1>8. \A h \in Tables, q \in Profiles : ~Pending(t, x, h, q)' => Fits(h, q)'
  <2> SUFFICES ASSUME NEW h \in Tables, NEW q \in Profiles, ~Pending(t, x, h, q)'
               PROVE  Fits(h, q)'
    OBVIOUS
  <2>1. ~Pending(t, x, h, q)
    BY <1>1 DEF Pending, Rewrites, Requested, Subscribers, mutex
  <2>2. ~Pending(t, mine, h, q)
    BY <1>2, <2>1 DEF Pending, Rewrites
  <2> QED BY <1>1, <2>2, LoneBody, FitsStays
<1>9. \A q \in Profiles : (x.at = "restore" => x.profile # q) => stamped'[q] = synced'[q]
  <2> SUFFICES ASSUME NEW q \in Profiles, x.at = "restore" => x.profile # q
               PROVE  stamped'[q] = synced'[q]
    OBVIOUS
  <2>1. CASE q = p
    BY <1>2, <1>5, <2>1
  <2>2. CASE q # p
    BY <1>4, <1>5, <2>2
  <2> QED BY <2>1, <2>2
<1> QED BY <1>1, <1>2, <1>6, <1>7, <1>8, <1>9, LoneSteps

LEMMA AfterFacts ==
  ASSUME NEW t, run[t].kind \in Kinds \cup {"cron"}
  PROVE  /\ AfterCombine(t) \in {"next", "restore", "done"}
         /\ AfterCombine(t) = "next" <=> run[t].kind = "cron"
         /\ AfterCombine(t) = "restore" <=> run[t].kind = "rebuild"
<1>1. CASE run[t].kind = "cron"
  BY <1>1, Zenon DEF AfterCombine
<1>2. CASE run[t].kind = "rebuild"
  BY <1>2, Zenon DEF AfterCombine
<1>3. CASE run[t].kind \notin {"cron", "rebuild"}
  BY <1>3, Zenon DEF AfterCombine
<1> QED BY <1>1, <1>2, <1>3

LEMMA LoneTables ==
  ASSUME IInv, Solo, ~budget.overlap, NEW t \in Tasks \cup Crons,
         Touch(t) \/ TouchLast(t) \/ PutDone(t)
  PROVE  Solo'
<1> DEFINE mine == run[t]
<1>0. /\ mine.at \in {"stamp", "touch", "last", "put"} /\ mine.profile \in Profiles
      /\ Placed(mine) /\ mine.kind \in Kinds \cup {"cron"}
  BY RunFacts, WhoseBody DEF BodyOK, Touch, TouchLast, PutDone, At
<1>1. CASE Touch(t)
  BY <1>0, <1>1, LoneTouches DEF Touch, At, Placed
<1>2. CASE TouchLast(t)
  BY <1>0, <1>2, LoneTouches DEF TouchLast, At, Placed
<1>3. CASE PutDone(t)
  <2> DEFINE s == AfterCombine(t)
  <2>1. /\ s \in {"next", "restore", "done"} /\ (s = "restore" <=> mine.kind = "rebuild")
        /\ Goto(t, s) /\ Touched(t) /\ mine.at = "put" /\ mine.put = {}
    BY <1>0, <1>3, AfterFacts DEF PutDone, At
  <2> HIDE DEF s
  <2> QED BY <1>0, <2>1, LoneTouches
<1> QED BY <1>1, <1>2, <1>3

LEMMA LoneRestores ==
  ASSUME IInv, Solo, ~budget.overlap, NEW t \in Tasks \cup Crons, Restore(t)
  PROVE  Solo'
<1> DEFINE mine == run[t]
           p == mine.profile
<1>0. /\ mine \in Bodies /\ BodyOK(mine) /\ mine.at = "restore" /\ p \in Profiles
      /\ Placed(mine) /\ mine.kind = "rebuild"
      /\ UNCHANGED <<mutex, ask, filter, sub, active, synced>>
  <2>1. mine.at = "restore"
    BY DEF Restore, At
  <2> QED BY <2>1, RunFacts, WhoseBody DEF BodyOK, Restore, upstream, Placed
<1>1. PICK x : run' = [run EXCEPT ![t] = x] /\ x.at = "done" /\ x.kind = "rebuild"
  <2> DEFINE x == [mine EXCEPT !.at = "done"]
  <2>1. x.at = "done" /\ x.kind = "rebuild"
    BY <1>0 DEF Bodies
  <2> QED BY <2>1 DEF Restore, Goto
<1>2. SoloBody(run[t])' /\ Stamps(run[t])'
  BY <1>1, RunFacts DEF SoloBody, Stamps
<1>3. \A q \in Profiles : stamped'[q] = synced'[q]
  <2>1. mine.prior = synced[p] /\ \A q \in Profiles : q # p => stamped[q] = synced[q]
    BY <1>0, LoneBody DEF Stamps
  <2>2. \A q \in Profiles : stamped'[q] = IF q = p THEN mine.prior ELSE stamped[q]
    BY DEF Restore, IInv, TablesOK
  <2> QED BY <1>0, <2>1, <2>2
<1>4. \A h \in Tables, q \in Profiles : Fits(h, q)'
  <2>1. \A h \in Tables, q \in Profiles : Fits(h, q)
    BY <1>0, LoneBody DEF Pending, Rewrites
  <2> QED BY <1>0, <2>1, FitsStays
<1> QED BY <1>0, <1>1, <1>2, <1>3, <1>4, LoneSteps

LEMMA LoneWipes ==
  ASSUME IInv, Solo, ~budget.overlap, NEW t \in Tasks \cup Crons, Wipe(t)
  PROVE  Solo'
<1> DEFINE mine == run[t]
           p == mine.profile
<1>0. /\ mine \in Bodies /\ BodyOK(mine) /\ mine.at = "wipe" /\ p \in Profiles
      /\ mine.kind = "all" /\ Active(p) = {}
      /\ UNCHANGED <<mutex, ask, filter, sub, stamped, synced>>
      /\ active' = [active EXCEPT !["bloom"][p] = {}]
  <2>1. mine.at = "wipe"
    BY DEF Wipe, At
  <2> QED BY <2>1, RunFacts, WhoseBody, LoneBody DEF BodyOK, Wipe, upstream, Placed, SoloBody
<1>1. PICK x : run' = [run EXCEPT ![t] = x] /\ x.at = "stamp" /\ x.kind = "all"
  <2> DEFINE x == [mine EXCEPT !.at = "stamp"]
  <2>1. x.at = "stamp" /\ x.kind = "all"
    BY <1>0 DEF Bodies
  <2> QED BY <2>1 DEF Wipe, Goto
<1>2. SoloBody(run[t])' /\ Stamps(run[t])'
  BY <1>1, RunFacts DEF SoloBody, Stamps
<1>3. \A q \in Profiles : stamped'[q] = synced'[q]
  BY <1>0, LoneBody
<1>4. ASSUME NEW h \in Tables, NEW q \in Profiles PROVE Fits(h, q)'
  <2>1. Fits(h, q)
    BY <1>0, LoneBody DEF Pending, Rewrites
  <2>2. active'[h][q] = IF h = "bloom" /\ q = p THEN {} ELSE active[h][q]
    BY <1>0 DEF IInv, ActiveOK
  <2>3. /\ Merged(Active(q))' = Merged(Active(q)) /\ Active(q)' = Active(q)
        /\ \A u : Cut(u)' <=> Cut(u)
    BY <1>0 DEF Merged, Active, Rows, Cut
  <2>4. q = p => Merged(Active(q)) = {}
    BY <1>0, MergedNone
  <2>5. /\ \A m \in active'[h][q] : /\ \E l \in Active(q) : UrlOf[l] = m[1]
                                    /\ m[2] = filter[m[1]] \/ Cut(m[1])
        /\ \A m \in Merged(Active(q)) : m \in active'[h][q] \/ Cut(m[1]) \/ LateShared(m[1])
    BY <2>1, <2>2, <2>4 DEF Fits
  <2> QED BY <1>0, <2>3, <2>5 DEF Fits, LateShared
<1> QED BY <1>0, <1>1, <1>2, <1>3, <1>4, LoneSteps

LEMMA LonePuts ==
  ASSUME IInv, Solo, ~budget.overlap, NEW t \in Tasks \cup Crons, NEW h \in Tables, Put(t, h)
  PROVE  Solo'
<1> DEFINE mine == run[t]
<1>p. PICK p : p = mine.profile
  OBVIOUS
<1>0. /\ mine \in Bodies /\ BodyOK(mine) /\ mine.at = "put" /\ p \in Profiles
      /\ h \in mine.put /\ DOMAIN run = Tasks \cup Crons
      /\ UNCHANGED <<mutex, ask, filter, sub, stamped, synced>>
      /\ active' = [active EXCEPT ![h][p] = mine.got[h]]
      /\ \A k \in mine.put : mine.got[k] = Merged(Active(p))
      /\ Stamps(mine)
  <2>1. mine.at = "put"
    BY DEF Put, At
  <2> QED BY <1>p, <2>1, RunFacts, LoneBody DEF BodyOK, Put, InTurn, upstream, SoloBody
<1>1. PICK x : /\ run' = [run EXCEPT ![t] = x] /\ x.at = "put" /\ x.kind = mine.kind
               /\ x.profile = p /\ x.got = mine.got /\ x.put = mine.put \ {h}
               /\ x.prior = mine.prior /\ x.rest = mine.rest
  <2> DEFINE x == [mine EXCEPT !.put = mine.put \ {h}]
  <2>1. /\ x.at = "put" /\ x.kind = mine.kind
        /\ x.profile = p /\ x.got = mine.got /\ x.put = mine.put \ {h}
        /\ x.prior = mine.prior /\ x.rest = mine.rest
    BY <1>0, <1>p DEF Bodies
  <2> QED BY <1>0, <2>1 DEF Put
<1>2. run'[t] = x
  BY <1>1, RunFacts
<1>3. /\ Merged(Active(p))' = Merged(Active(p)) /\ Active(p)' = Active(p)
      /\ \A u : Cut(u)' <=> Cut(u)
  <2>1. UNCHANGED <<filter, sub>>
    BY <1>0
  <2> QED BY <2>1 DEF Merged, Active, Rows, Cut
<1>4. SoloBody(run[t])'
  BY <1>0, <1>1, <1>2, <1>3 DEF SoloBody
<1>5. Stamps(run[t])'
  BY <1>p, <1>0, <1>1, <1>2 DEF Stamps
<1>6. \A q \in Profiles : stamped'[q] = synced'[q]
  BY <1>0, LoneBody
<1>7. ASSUME NEW k \in Tables, NEW q \in Profiles, ~Pending(t, x, k, q)'
      PROVE  Fits(k, q)'
  <2>1. ~Pending(t, x, k, q)
    BY <1>0, <1>7 DEF Pending, Rewrites, Requested, Subscribers, mutex
  <2>2. CASE k = h /\ q = p
    <3>1. active'[k][q] = Merged(Active(p))
      BY <1>0, <2>2 DEF IInv, ActiveOK
    <3>2. \A m \in Merged(Active(p)) : /\ \E l \in Active(p) : UrlOf[l] = m[1]
                                       /\ m[2] = filter[m[1]]
      BY DEF Merged
    <3>3. /\ \A m \in active'[k][q] : \E l \in Active(q) : UrlOf[l] = m[1]
          /\ \A m \in active'[k][q] : m[2] = filter[m[1]]
          /\ \A m \in Merged(Active(q)) : m \in active'[k][q]
      BY <2>2, <3>1, <3>2
    <3>4. Merged(Active(q))' = Merged(Active(q)) /\ Active(q)' = Active(q) /\ filter' = filter
      BY <1>0, <1>3, <2>2
    <3> QED BY <3>3, <3>4 DEF Fits
  <2>3. CASE ~(k = h /\ q = p)
    <3>1. ~Pending(t, mine, k, q)
      BY <1>p, <1>0, <1>1, <2>1, <2>3 DEF Pending, Rewrites
    <3>2. Fits(k, q)
      BY <1>0, <3>1, LoneBody
    <3>3. active'[k][q] = active[k][q]
      BY <1>0, <2>3 DEF IInv, ActiveOK
    <3> QED BY <1>0, <3>2, <3>3 DEF Fits, Active, Rows, Merged, Cut, LateShared
  <2> QED BY <2>2, <2>3
<1> QED BY <1>0, <1>1, <1>4, <1>5, <1>6, <1>7, LoneSteps

-----------------------------------------------------------------------------
(* The steps of the handlers, of the upstream, of the cron clock, and of   *)
(* the end of a body.                                                      *)
LEMMA LoneStill ==
  ASSUME Solo, UNCHANGED <<budget.overlap, pc, ask, req, run, filter, sub, active, stamped, synced>>
  PROVE  Solo'
<1> SUFFICES ASSUME ~budget'.overlap PROVE Solo'
  BY DEF Solo
<1>1. Alone' /\ NoWaiting' /\ RowAsks'
  BY DEF Solo, Alone, Busy, Free, NoWaiting, RowAsks, ForItsRow
<1>2. Fitting'
  <2>1. \A t, h, p : Owes(t, h, p)' <=> Owes(t, h, p)
    BY DEF Owes, Pending, Rewrites, Requested, Subscribers
  <2> QED BY <2>1, FitsStays DEF Solo, Fitting
<1>3. Stamping'
  BY DEF Solo, Stamping, Stamps
<1>4. \A t \in Tasks \cup Crons : SoloBody(run[t])'
  BY DEF Solo, SoloBody, Active, Rows, Merged
<1> QED BY <1>1, <1>2, <1>3, <1>4 DEF Solo

LEMMA LoneCronPass ==
  ASSUME IInv, Solo, ~budget.overlap, NEW c \in Crons, NEW u \in Urls, CronPass(c, u)
  PROVE  Solo'
<1>0. /\ AtRest /\ run[c] = Idle /\ c \notin Tasks
      /\ UNCHANGED <<mutex, ask, filter, sub, active, stamped, synced>>
  BY TasksAssumption DEF CronPass, MayStart, AtRest, Reads, upstream, compiled
<1>1. PICK x : /\ run' = [run EXCEPT ![c] = x] /\ x.at = "fetch" /\ x.kind = "cron"
               /\ x.rest = {}
  <2> DEFINE g == tag[u]
             x == [Idle EXCEPT !.at = "fetch", !.kind = "cron", !.url = u, !.tag = g]
  <2>1. run' = [run EXCEPT ![c] = x]
    BY DEF CronPass
  <2> HIDE DEF g
  <2>2. x.at = "fetch" /\ x.kind = "cron" /\ x.rest = {}
    BY DEF Idle
  <2> QED BY <2>1, <2>2
<1>2. run'[c] = x
  BY <1>1, RunFacts
<1>3. SoloBody(run[c])' /\ Stamps(run[c])'
  BY <1>1, <1>2 DEF SoloBody, Stamps
<1>4. \A h \in Tables, p \in Profiles : Fits(h, p)'
  <2>1. ~Busy(c)
    BY <1>0 DEF Busy
  <2>2. \A h \in Tables, p \in Profiles : Fits(h, p)
    BY <1>0, <2>1, NotBusy, Lone
  <2> QED BY <1>0, <2>2, FitsStays
<1>5. \A p \in Profiles : stamped'[p] = synced'[p]
  BY <1>0, IdleFacts, Lone
<1>6. \A t \in Tasks : pc'[t] = pc[t] /\ ask'[t] = ask[t] /\ ForItsRow(req'[t])
  BY <1>0 DEF mutex, Solo, RowAsks
<1> QED BY <1>0, <1>1, <1>3, <1>4, <1>5, <1>6, LoneGoes

LEMMA LoneCalls ==
  ASSUME IInv, Solo, ~budget.overlap, NEW t \in Tasks, Call(t) \/ Wake(t)
  PROVE  Solo'
<1>1. Call(t) /\ ask[t] \in M!Asks /\ pc[t] = "idle" /\ run[t] = Idle /\ Busy(t)
  <2>1. ~Wake(t)
    BY DEF Wake, M!WakeAndStart, M!WakeAndJoin, Solo, NoWaiting
  <2>2. ask[t] \in M!Asks /\ pc[t] = "idle" /\ Busy(t)
    BY <2>1 DEF Call, IInv, AsksOK, AskOK, Busy, Free
  <2> QED BY <2>1, <2>2, Runners
<1> DEFINE r == ask[t]
           x == Body(r)
<1>2. inFlight[r.profile] = None
  <2> SUFFICES ASSUME inFlight[r.profile] # None PROVE FALSE
    OBVIOUS
  <2> DEFINE o == inFlight[r.profile]
  <2>1. o \in Tasks /\ pc[o] = "running"
    BY <1>1, AsksAreRequests DEF IInv, MutexOK, M!TypeOK, M!EntryIsAlive
  <2>2. Busy(o)
    BY <2>1 DEF Busy, Free
  <2> QED BY <1>1, <2>1, <2>2 DEF Solo, Alone
<1>3. /\ M!Begin(t, r) /\ run' = [run EXCEPT ![t] = x]
      /\ ask' = [ask EXCEPT ![t] = M!NoRequest]
      /\ UNCHANGED <<filter, sub, active, stamped, synced>>
  BY <1>1, <1>2 DEF Call, M!StartAtOnce, M!JoinAtOnce, M!WaitForOther, M!Joins, upstream, compiled
<1>4. /\ pc'[t] = "running" /\ req'[t] = r /\ ask'[t] = M!NoRequest
      /\ \A u \in Tasks : u # t => pc'[u] = pc[u] /\ ask'[u] = ask[u] /\ req'[u] = req[u]
  BY <1>3 DEF M!Begin, IInv, MutexOK, M!TypeOK, AsksOK, AskOK
<1>5. run'[t] = x /\ x.at = "begin" /\ x.kind = r.kind /\ x.profile = r.profile
  BY <1>1, <1>3, Started, RunFacts
<1>6. /\ ForItsRow(ask'[t]) /\ ForItsRow(req'[t])
      /\ \A u \in Tasks : u # t => ForItsRow(req'[u])
  BY <1>4, RequestFacts DEF Solo, RowAsks
<1> HIDE DEF x
<1>7. SoloBody(run[t])' /\ Stamps(run[t])'
  BY <1>5 DEF SoloBody, Stamps
<1>8. ASSUME NEW h \in Tables, NEW p \in Profiles, ~Owes(t, h, p)' PROVE Fits(h, p)'
  <2>1. ~(r.profile = p /\ Requested(r))
    BY <1>3, <1>4, <1>5, <1>8 DEF Owes, Pending, Rewrites, Requested
  <2>2. ~Owes(t, h, p)
    BY <1>1, <2>1, IdleSolo DEF Owes
  <2> QED BY <1>1, <1>3, <2>2, Lone, FitsStays
<1>9. \A p \in Profiles : stamped'[p] = synced'[p]
  BY <1>1, <1>3, IdleFacts, Lone
<1>10. \A p \in Profiles : (x.at = "restore" => x.profile # p) => stamped'[p] = synced'[p]
  BY <1>9
<1>11. run' = [run EXCEPT ![t] = x] /\ pc'[t] \in {"idle", "running"}
  BY <1>3, <1>4
<1>12. \A u \in Tasks : u # t => pc'[u] = pc[u] /\ ask'[u] = ask[u] /\ ForItsRow(req'[u])
  BY <1>4, <1>6
<1>13. \A h \in Tables, p \in Profiles : ~Owes(t, h, p)' => Fits(h, p)'
  BY <1>8
<1> QED BY <1>1, <1>6, <1>7, <1>10, <1>11, <1>12, <1>13, LoneGoes

LEMMA LoneEnds ==
  ASSUME IInv, Solo, ~budget.overlap, NEW t \in Tasks \cup Crons, End(t)
  PROVE  Solo'
<1> DEFINE mine == run[t]
<1>0. /\ t \in Tasks /\ mine.at = "done" /\ M!Finish(t) /\ run' = [run EXCEPT ![t] = Idle]
      /\ UNCHANGED <<ask, filter, sub, active, stamped, synced>>
  BY DEF End, upstream, compiled
<1>1. Busy(t) /\ mine.at # "idle" /\ mine.kind # "cron"
  BY <1>0, IdleFacts, WhoseBody DEF Busy, Placed
<1>2. \A u \in Tasks : u # t => pc[u] = "idle" /\ ask[u] = M!NoRequest
  BY <1>1, Lone DEF Busy, Free
<1>3. \A u \in Tasks : /\ pc'[u] = "idle" /\ req'[u] = M!NoRequest
                       /\ u # t => pc'[u] = pc[u] /\ ask'[u] = ask[u]
  BY <1>0, <1>2 DEF M!Finish, M!Settled, IInv, MutexOK, M!TypeOK
<1>4. ask'[t] = M!NoRequest
  BY <1>0, <1>1, IdleFacts, Runners DEF IInv, AsksOK
<1>5. run'[t] = Idle
  BY <1>0, RunFacts
<1>6. SoloBody(run[t])' /\ Stamps(run[t])'
  BY <1>5, IdleFacts, IdleSolo DEF SoloBody, Stamps
<1>7. \A h \in Tables, p \in Profiles : Fits(h, p)'
  <2>1. \A h \in Tables, p \in Profiles : ~Pending(t, mine, h, p)
    BY <1>0, <1>1 DEF Pending, Rewrites
  <2> QED BY <1>0, <1>1, <2>1, LoneBody, FitsStays
<1>8. \A p \in Profiles : stamped'[p] = synced'[p]
  BY <1>0, <1>1, LoneBody
<1>9. ForItsRow(ask'[t]) /\ \A u \in Tasks : ForItsRow(req'[u])
  BY <1>3, <1>4, RequestFacts
<1> QED BY <1>0, <1>1, <1>3, <1>6, <1>7, <1>8, <1>9, LoneGoes

-----------------------------------------------------------------------------
(* An operation of the API changes no rows but those whose profile asks    *)
(* for a rewrite at once.                                                  *)
LEMMA LoneApi ==
  ASSUME IInv, Solo, ~budget.overlap, NEW t \in Tasks, Api(t)
  PROVE  Solo'
<1>0. sub \in [Subs -> {"none", "on", "off", "gone"}] /\ ask \in [Tasks -> M!Asks \cup {M!NoRequest}]
  BY DEF IInv, TablesOK, AsksOK, AskOK
<1>1. /\ AtRest /\ Edited(t) /\ Free(t) /\ UNCHANGED <<mutex, filter, active, stamped, synced, run>>
  BY ApiRows DEF Edited, MayStart, upstream, compiled
<1>2. run[t] = Idle /\ ~Busy(t)
  BY <1>1 DEF AtRest, Busy
<1>a. ASSUME NEW l \in Subs, NEW s, sub' = [sub EXCEPT ![l] = s]
      PROVE  \A p \in Profiles : p # Owner[l] => Active(p)' = Active(p)
  <2>1. \A k \in Subs : k # l => sub'[k] = sub[k]
    BY <1>0, <1>a
  <2> QED BY <2>1 DEF Active, Rows
<1>b. ASSUME NEW k, NEW p, NEW l, Asking(t, k, p, l), k = "single" => l \in Rows(p),
             k = "rebuild" \/ (k = "single" /\ sub'[l] = "on") \/ sub' = sub,
             \A q \in Profiles : q # p => Active(q)' = Active(q)
      PROVE  /\ ForItsRow(ask'[t])
             /\ \A q \in Profiles : \/ Active(q)' = Active(q)
                                    \/ ask'[t].profile = q /\ Requested(ask[t])'
  <2>1. ask'[t] = [kind |-> k, profile |-> p, list |-> l]
    BY <1>0, <1>b DEF Asking
  <2>2. ask'[t].kind = k /\ ask'[t].profile = p /\ ask'[t].list = l
    BY <2>1
  <2>3. ForItsRow(ask'[t])
    BY <1>b, <2>2 DEF ForItsRow
  <2>4. \A q \in Profiles : \/ Active(q)' = Active(q)
                            \/ ask'[t].profile = q /\ Requested(ask[t])'
    BY <1>b, <2>2 DEF Requested, Active, Rows
  <2> QED BY <2>3, <2>4
<1>3. /\ ForItsRow(ask'[t])
      /\ \A q \in Profiles : \/ Active(q)' = Active(q)
                             \/ ask'[t].profile = q /\ Requested(ask[t])'
  <2>1. ASSUME NEW l \in Subs, AddList(t, l) PROVE <1>3!:
    <3>1. sub' = [sub EXCEPT ![l] = "on"] /\ Asking(t, "single", Owner[l], l)
      BY <2>1 DEF AddList
    <3>2. l \in Rows(Owner[l]) /\ sub'[l] = "on"
      BY <1>0, <3>1 DEF Rows
    <3> QED BY <3>1, <3>2, <1>a, <1>b
  <2>2. ASSUME NEW l \in Subs, DeleteList(t, l) PROVE <1>3!:
    <3>1. (sub' = [sub EXCEPT ![l] = "gone"] \/ sub' = sub) /\ Asking(t, "rebuild", Owner[l], None)
      BY <1>0, <2>2 DEF DeleteList
    <3>2. \A q \in Profiles : q # Owner[l] => Active(q)' = Active(q)
      BY <3>1, <1>a DEF Active, Rows
    <3> QED BY <3>1, <3>2, <1>b
  <2>3. ASSUME NEW l \in Subs, SyncSingle(t, l) PROVE <1>3!:
    <3>1. sub' = sub /\ Asking(t, "single", Owner[l], l) /\ l \in Rows(Owner[l])
      BY <2>3 DEF SyncSingle, Rows
    <3> QED BY <3>1, <1>b DEF Active, Rows
  <2>4. ASSUME NEW l \in Subs, NEW s, SetEnabled(t, l, s) PROVE <1>3!:
    <3>1. sub' = [sub EXCEPT ![l] = s] /\ Asking(t, "rebuild", Owner[l], None)
      BY <2>4 DEF SetEnabled
    <3> QED BY <3>1, <1>a, <1>b
  <2>5. ASSUME NEW p \in Profiles, SyncAll(t, p) PROVE <1>3!:
    <3>1. sub' = sub /\ Asking(t, "all", p, None)
      BY <2>5 DEF SyncAll
    <3> QED BY <3>1, <1>b DEF Active, Rows
  <2>6. ASSUME NEW p \in Profiles, NEW ls \in SUBSET Rows(p), NEW on \in SUBSET ls,
               AddBulk(t, p, ls, on)
        PROVE  <1>3!:
    <3>1. sub' = [l \in Subs |-> IF l \in on THEN "on" ELSE IF l \in ls THEN "off" ELSE sub[l]]
          /\ Asking(t, "rebuild", p, None)
      BY <2>6 DEF AddBulk
    <3>2. \A q \in Profiles : q # p => Active(q)' = Active(q)
      BY <3>1 DEF Active, Rows
    <3> QED BY <3>1, <3>2, <1>b
  <2> QED BY <2>1, <2>2, <2>3, <2>4, <2>5, <2>6 DEF Api
<1>4. \A u \in Tasks : u # t => pc'[u] = pc[u] /\ ask'[u] = ask[u] /\ ForItsRow(req'[u])
  <2>1. \A u \in Tasks : u # t => ask'[u] = ask[u]
    BY <1>0, ApiRows
  <2> QED BY <1>1, <2>1 DEF mutex, Solo, RowAsks
<1>5. pc'[t] \in {"idle", "running"} /\ ForItsRow(ask'[t]) /\ ForItsRow(req'[t])
  BY <1>1, <1>3 DEF Free, mutex, Solo, RowAsks
<1>6. run' = [run EXCEPT ![t] = Idle] /\ run'[t] = Idle
  BY <1>1, <1>2, RunFacts DEF IInv, RunsOK
<1>7. SoloBody(run[t])' /\ Stamps(run[t])'
  BY <1>6, IdleFacts, IdleSolo DEF SoloBody, Stamps
<1>8. ASSUME NEW h \in Tables, NEW p \in Profiles, ~Owes(t, h, p)' PROVE Fits(h, p)'
  <2>1. Fits(h, p)
    BY <1>1, <1>2, NotBusy, Lone
  <2>2. Active(p)' = Active(p)
    BY <1>3, <1>8 DEF Owes
  <2>3. Merged(Active(p))' = Merged(Active(p))
    BY <1>1, <2>2 DEF Merged
  <2>4. \A v : LateShared(v) => LateShared(v)'
    BY ApiRows DEF LateShared
  <2> QED BY <1>1, <2>1, <2>2, <2>3, <2>4 DEF Fits, Cut
<1>9. \A p \in Profiles : (Idle.at = "restore" => Idle.profile # p) => stamped'[p] = synced'[p]
  BY <1>1, <1>2, IdleFacts, Lone
<1>10. \A h \in Tables, p \in Profiles : ~Owes(t, h, p)' => Fits(h, p)'
  BY <1>8
<1> QED BY <1>1, <1>4, <1>5, <1>6, <1>7, <1>9, <1>10, LoneGoes

-----------------------------------------------------------------------------
(* Every step, put together.                                               *)
LEMMA LoneBodySteps ==
  ASSUME IInv, KnownFirst, Solo, ~budget.overlap, NEW t \in Tasks \cup Crons, Step(t)
  PROVE  Solo'
<1>0. ~Fault
  BY Faults
<1>1. CASE BeginAll(t) \/ BeginSingle(t) \/ BeginRebuild(t) \/ ReadLists(t)
  BY <1>1, LoneBegins
<1>2. CASE Probe(t) \/ ProbeDone(t)
  BY <1>2, LoneProbes
<1>3. CASE NotModified(t) \/ Fetched(t) \/ FetchFails(t)
  BY <1>3, LoneFetches
<1>4. CASE ReadSubscribers(t) \/ (\E p \in Profiles : NextSubscriber(t, p)) \/ CronDone(t)
  BY <1>4, LoneCron
<1>5. CASE Touch(t) \/ TouchLast(t) \/ PutDone(t)
  BY <1>5, LoneTables
<1>6. CASE Wipe(t) \/ Restore(t)
  BY <1>6, LoneWipes, LoneRestores
<1>7. CASE Combine(t) \/ \E h \in Tables : Load(t, h) \/ Put(t, h)
  BY <1>7, LoneCombines, LoneLoads, LonePuts
<1>8. CASE LoadFails(t) \/ Throws(t) \/ (\E l \in Subs : ProbeFails(t, l))
  BY <1>0, <1>8 DEF LoadFails, Throws, ProbeFails
<1>9. CASE End(t)
  BY <1>9, LoneEnds
<1> QED BY <1>1, <1>2, <1>3, <1>4, <1>5, <1>6, <1>7, <1>8, <1>9 DEF Step

LEMMA OverlapStays == IInv /\ [Next]_vars => budget'.overlap = budget.overlap
<1> SUFFICES ASSUME IInv, [Next]_vars PROVE budget'.overlap = budget.overlap
  OBVIOUS
<1>0. budget \in Budgets
  BY DEF IInv, BudgetOK
<1>1. CASE UNCHANGED budget
  BY <1>1
<1>2. CASE budget' = [budget EXCEPT !.faults = @ - 1]
  BY <1>0, <1>2 DEF Budgets
<1>3. CASE budget' = [budget EXCEPT !.news = @ - 1]
  BY <1>0, <1>3 DEF Budgets
<1>4. CASE budget' = [budget EXCEPT !.edits = @ - 1]
  BY <1>0, <1>4 DEF Budgets
<1>5. CASE \E u \in Urls : SourceChanges(u) \/ IntervalEnds(u)
  BY <1>3, <1>5 DEF SourceChanges, IntervalEnds, News
<1>6. ASSUME NEW t \in Tasks, Api(t) \/ Call(t) \/ Wake(t)
      PROVE  budget'.overlap = budget.overlap
  BY <1>1, <1>4, <1>6, ApiRows DEF Edited, Call, Wake
<1>7. CASE \E c \in Crons, u \in Urls : CronPass(c, u)
  BY <1>1, <1>7 DEF CronPass, Reads
<1>8. ASSUME NEW t \in Tasks \cup Crons, Step(t) PROVE budget'.overlap = budget.overlap
  <2>1. CASE BeginAll(t) \/ BeginSingle(t) \/ BeginRebuild(t) \/ ReadLists(t)
             \/ Probe(t) \/ ProbeDone(t) \/ ReadSubscribers(t) \/ CronDone(t)
             \/ Combine(t) \/ (\E h \in Tables : Load(t, h))
             \/ \E p \in Profiles : NextSubscriber(t, p)
    BY <1>1, <2>1 DEF BeginAll, BeginSingle, BeginRebuild, ReadLists, Probe, ProbeDone,
                      ReadSubscribers, CronDone, Combine, Load, NextSubscriber, Reads
  <2>2. CASE NotModified(t) \/ Fetched(t) \/ FetchFails(t)
    BY <1>1, <1>2, <2>2 DEF NotModified, Fetched, FetchFails, Refused, Fault
  <2>3. CASE \/ Wipe(t) \/ Touch(t) \/ TouchLast(t) \/ LoadFails(t)
             \/ \E l \in Subs : ProbeFails(t, l)
    BY <1>1, <1>2, <2>3 DEF Wipe, Touch, TouchLast, Touched, LoadFails, ProbeFails, Fault
  <2>4. CASE (\E h \in Tables : Put(t, h)) \/ PutDone(t) \/ Restore(t) \/ Throws(t) \/ End(t)
    BY <1>1, <1>2, <2>4 DEF Put, PutDone, Touched, Restore, Throws, End, Fault
  <2> QED BY <1>8, <2>1, <2>2, <2>3, <2>4 DEF Step
<1>9. CASE Restart
  BY <1>2, <1>9 DEF Restart, Fault
<1> QED BY <1>1, <1>5, <1>6, <1>7, <1>8, <1>9 DEF Next, vars

LEMMA KnownStays ==
  IInv /\ KnownFirst /\ [Next]_vars => KnownFirst'
<1> SUFFICES ASSUME IInv, KnownFirst, [Next]_vars PROVE KnownFirst'
  OBVIOUS
<1>1. CASE UNCHANGED filter
  BY <1>1 DEF KnownFirst
<1>2. ASSUME NEW t \in Tasks \cup Crons, Fetched(t) PROVE KnownFirst'
  <2>1. run[t].url \in Urls /\ source[run[t].url] # 0
    BY <1>2, RunFacts DEF Fetched, At, BodyOK, IInv, TablesOK
  <2>2. \A u \in Urls : filter[u] # 0 => filter'[u] # 0
    BY <1>2, <2>1 DEF Fetched, IInv, TablesOK
  <2> QED BY <2>2, RowsAssumption DEF KnownFirst
<1>3. UNCHANGED upstream => UNCHANGED filter
  BY DEF upstream
<1>4. CASE \E u \in Urls : SourceChanges(u) \/ IntervalEnds(u)
  BY <1>1, <1>4 DEF SourceChanges, IntervalEnds
<1>5. ASSUME NEW t \in Tasks, Api(t) \/ Call(t) \/ Wake(t) PROVE KnownFirst'
  BY <1>1, <1>3, <1>5, ApiRows DEF Edited, Call, Wake
<1>6. CASE \E c \in Crons, u \in Urls : CronPass(c, u)
  BY <1>1, <1>3, <1>6 DEF CronPass, Reads
<1>7. ASSUME NEW t \in Tasks \cup Crons, Step(t) PROVE KnownFirst'
  <2>1. CASE BeginAll(t) \/ BeginSingle(t) \/ BeginRebuild(t) \/ ReadLists(t)
             \/ Probe(t) \/ ProbeDone(t) \/ ReadSubscribers(t) \/ CronDone(t)
             \/ Combine(t) \/ (\E h \in Tables : Load(t, h))
             \/ \E p \in Profiles : NextSubscriber(t, p)
    BY <1>1, <1>3, <2>1 DEF BeginAll, BeginSingle, BeginRebuild, ReadLists, Probe, ProbeDone,
                      ReadSubscribers, CronDone, Combine, Load, NextSubscriber, Reads
  <2>2. CASE NotModified(t) \/ Fetched(t) \/ FetchFails(t)
    BY <1>1, <1>2, <2>2 DEF NotModified, FetchFails
  <2>3. CASE \/ Wipe(t) \/ Touch(t) \/ TouchLast(t) \/ LoadFails(t)
             \/ \E l \in Subs : ProbeFails(t, l)
    BY <1>1, <1>3, <2>3 DEF Wipe, Touch, TouchLast, Touched, LoadFails, ProbeFails
  <2>4. CASE (\E h \in Tables : Put(t, h)) \/ PutDone(t) \/ Restore(t) \/ Throws(t) \/ End(t)
    BY <1>1, <1>3, <2>4 DEF Put, PutDone, Touched, Restore, Throws, End
  <2> QED BY <1>7, <2>1, <2>2, <2>3, <2>4 DEF Step
<1>8. CASE Restart
  BY <1>1, <1>3, <1>8 DEF Restart
<1> QED BY <1>1, <1>4, <1>5, <1>6, <1>7, <1>8 DEF Next, vars, upstream

LEMMA SoloPreserved == IInv /\ KnownFirst /\ Solo /\ [Next]_vars => Solo'
<1> SUFFICES ASSUME IInv, KnownFirst, Solo, [Next]_vars, ~budget'.overlap PROVE Solo'
  BY DEF Solo
<1>0. ~budget.overlap /\ ~Fault /\ budget'.overlap = budget.overlap
  BY OverlapStays, Faults
<1>1. CASE UNCHANGED vars
  BY <1>1, LoneStill DEF vars, mutex, upstream, compiled
<1>2. CASE \E u \in Urls : SourceChanges(u) \/ IntervalEnds(u)
  BY <1>0, <1>2, LoneStill DEF SourceChanges, IntervalEnds, mutex, compiled
<1>3. CASE \E t \in Tasks : Api(t) \/ Call(t) \/ Wake(t)
  BY <1>0, <1>3, LoneApi, LoneCalls
<1>4. CASE \E c \in Crons, u \in Urls : CronPass(c, u)
  BY <1>0, <1>4, LoneCronPass
<1>5. CASE \E t \in Tasks \cup Crons : Step(t)
  BY <1>0, <1>5, LoneBodySteps
<1>6. CASE Restart
  BY <1>0, <1>6 DEF Restart
<1> QED BY <1>1, <1>2, <1>3, <1>4, <1>5, <1>6 DEF Next

LEMMA SoloStarts == Init => KnownFirst /\ Solo
<1> SUFFICES ASSUME Init PROVE KnownFirst /\ Solo
  OBVIOUS
<1>0. IInv
  BY Starts
<1>1. KnownFirst
  <2>1. filter = [u \in Urls |-> IF \E l \in Start : UrlOf[l] = u THEN 1 ELSE 0]
    BY DEF Init
  <2> QED BY <2>1, RowsAssumption DEF KnownFirst
<1>2. /\ \A t \in Tasks \cup Crons : run[t] = Idle
      /\ \A t \in Tasks : pc[t] = "idle" /\ ask[t] = M!NoRequest /\ req[t] = M!NoRequest
  BY DEF Init, M!Init
<1>3. Alone /\ NoWaiting /\ RowAsks
  BY <1>2, RequestFacts DEF Alone, Busy, Free, NoWaiting, RowAsks
<1>4. Fitting
  <2>1. ASSUME NEW h \in Tables, NEW p \in Profiles PROVE Fits(h, p)
    <3>1. active[h][p] = Merged(Active(p))
      <4>1. active = [k \in Tables |-> [q \in Profiles |-> Merged(Active(q))]]
        BY DEF Init
      <4> QED BY <4>1, Zenon
    <3>2. \A m \in Merged(Active(p)) : /\ \E l \in Active(p) : UrlOf[l] = m[1]
                                       /\ m[2] = filter[m[1]]
      BY DEF Merged
    <3> QED BY <3>1, <3>2 DEF Fits
  <2> QED BY <2>1 DEF Fitting
<1>5. Stamping
  BY <1>2, IdleSolo DEF Stamping, Init
<1>6. \A t \in Tasks \cup Crons : SoloBody(run[t])
  BY <1>2, IdleSolo
<1> QED BY <1>1, <1>3, <1>4, <1>5, <1>6 DEF Solo

LEMMA SoloRests ==
  IInv /\ Solo => Converged /\ RebuildIsNotASync
<1> SUFFICES ASSUME IInv, Solo, Quiet PROVE (\A h \in Tables, p \in Profiles : Fits(h, p))
                                            /\ stamped = synced
  BY DEF Converged, RebuildIsNotASync
<1>1. AtRest /\ ~budget.overlap /\ \A t \in Tasks \cup Crons : run[t] = Idle /\ ~Busy(t)
  BY DEF Quiet, AtRest, Busy
<1>2. \A h \in Tables, p \in Profiles : Fits(h, p)
  BY <1>1, NotBusy DEF Solo, Fitting
<1>3. \A p \in Profiles : stamped[p] = synced[p]
  BY <1>1, IdleFacts DEF Solo, Stamping
<1>4. stamped = synced
  BY <1>3 DEF IInv, TablesOK
<1> QED BY <1>2, <1>4

(* One operation at a time and no failure: what is not going to be written *)
(* by the one body under way fits already.                                 *)
THEOREM SoloInvariant == Spec => [](IInv /\ KnownFirst /\ Solo)
<1>1. Init => IInv /\ KnownFirst /\ Solo
  BY Starts, SoloStarts
<1>2. (IInv /\ KnownFirst /\ Solo) /\ [Next]_vars => (IInv /\ KnownFirst /\ Solo)'
  BY Preserved, KnownStays, SoloPreserved
<1> QED BY <1>1, <1>2, PTL DEF Spec

(* After every operation of the list API and every cron pass, with no      *)
(* overlap and no failure, filter and rules are what the enabled lists     *)
(* compile to: each handler asks for a sync that rewrites what it changed. *)
THEOREM Converges == Spec => []Converged
BY SoloInvariant, SoloRests, PTL

(* ... and a rebuild leaves the profile's timestamp as it found it.        *)
THEOREM RebuildsDoNotStamp == Spec => []RebuildIsNotASync
BY SoloInvariant, SoloRests, PTL
=============================================================================
