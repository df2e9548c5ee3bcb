-------------------------- MODULE ListSyncProofs --------------------------
(***************************************************************************)
(* The two parts that the synchronisation of a profile is built of: the    *)
(* map of synchronisations under way (SyncMutex), and the fetch of one     *)
(* list (GlobalList), which share nothing but their callers.               *)
(***************************************************************************)
EXTENDS SyncMutex, GlobalList, TLAPS

-----------------------------------------------------------------------------
(***************************************************************************)
(* The mutex. TypeOK, EntryIsAlive and AwaitedIsRunning are inductive      *)
(* together: the deletion in Finish is harmless to the entries of other    *)
(* profiles because a call's entry is under its own profile                *)
(* (EntryIsAlive), and nobody is left awaiting a call that stops running,  *)
(* because Finish settles it.                                              *)
(***************************************************************************)
IInv == TypeOK /\ EntryIsAlive /\ AwaitedIsRunning

LEMMA AsksAreRequests ==
    ASSUME NEW r \in Asks
    PROVE  /\ r.kind \in AllKinds
           /\ r.profile \in Profiles
           /\ r \in Request
  BY KindsAssumption DEF Asks, Request

(* The map is empty and no call is made at the start.                      *)
LEMMA InitInv == Init => IInv
  BY RestartsAssumption
  DEF Init, IInv, TypeOK, EntryIsAlive, AwaitedIsRunning, States

(* Putting a call that was not running, for a profile of the constants,    *)
(* into the map keeps the invariant.                                       *)
LEMMA BeginInv ==
    ASSUME IInv, NEW t \in Tasks, NEW r \in Asks,
           pc[t] \in {"idle", "woken"}, Begin(t, r)
    PROVE  IInv'
  <1>1. TypeOK'
    BY NoneAssumption, AsksAreRequests DEF IInv, TypeOK, Begin, States
  <1>2. EntryIsAlive'
    <2> SUFFICES ASSUME NEW p \in Profiles, inFlight'[p] # None
                 PROVE  /\ pc'[inFlight'[p]] = "running"
                        /\ req'[inFlight'[p]].profile = p
      BY DEF EntryIsAlive
    <2>1. CASE p = r.profile
      BY <2>1 DEF IInv, TypeOK, Begin
    <2>2. CASE p # r.profile
      BY <2>2, NoneAssumption, AsksAreRequests
      DEF IInv, TypeOK, Begin, EntryIsAlive
    <2> QED BY <2>1, <2>2
  <1>3. AwaitedIsRunning'
    BY NoneAssumption DEF IInv, TypeOK, Begin, AwaitedIsRunning
  <1> QED BY <1>1, <1>2, <1>3 DEF IInv

(* Awaiting the call in the map, which is alive, keeps the invariant.      *)
LEMMA AwaitInv ==
    ASSUME IInv, NEW t \in Tasks, NEW r \in Asks,
           pc[t] \in {"idle", "woken"}, inFlight[r.profile] # None,
           \/ Join(t, r, inFlight[r.profile])
           \/ Wait(t, r, inFlight[r.profile])
    PROVE  IInv'
  <1> DEFINE o == inFlight[r.profile]
  <1>0. /\ r.profile \in Profiles
        /\ o \in Tasks /\ o # t
        /\ pc[o] = "running" /\ req[o].profile = r.profile
    BY AsksAreRequests, NoneAssumption DEF IInv, TypeOK, EntryIsAlive
  <1>a. /\ pc' \in {[pc EXCEPT ![t] = "joined"], [pc EXCEPT ![t] = "waiting"]}
        /\ req' = [req EXCEPT ![t] = r]
        /\ waitOn' = [waitOn EXCEPT ![t] = o]
        /\ inFlight' = inFlight /\ epoch' = epoch
    BY DEF Join, Wait
  <1>1. TypeOK'
    BY <1>0, <1>a DEF IInv, TypeOK, States
  <1>2. EntryIsAlive'
    <2> SUFFICES ASSUME NEW p \in Profiles, inFlight'[p] # None
                 PROVE  /\ pc'[inFlight'[p]] = "running"
                        /\ req'[inFlight'[p]].profile = p
      BY DEF EntryIsAlive
    <2>1. inFlight[p] \in Tasks /\ inFlight[p] # t
      BY <1>a DEF IInv, TypeOK, EntryIsAlive
    <2> QED BY <2>1, <1>a DEF IInv, TypeOK, EntryIsAlive
  <1>3. AwaitedIsRunning'
    <2> SUFFICES ASSUME NEW u \in Tasks, pc'[u] \in {"waiting", "joined"}
                 PROVE  /\ waitOn'[u] \in Tasks
                        /\ pc'[waitOn'[u]] = "running"
                        /\ req'[waitOn'[u]].profile = req'[u].profile
      BY DEF AwaitedIsRunning
    <2>1. CASE u = t
      BY <2>1, <1>0, <1>a DEF IInv, TypeOK
    <2>2. CASE u # t
      <3>1. /\ pc[u] \in {"waiting", "joined"}
            /\ waitOn'[u] = waitOn[u] /\ req'[u] = req[u]
        BY <2>2, <1>a DEF IInv, TypeOK
      <3>2. /\ waitOn[u] \in Tasks /\ pc[waitOn[u]] = "running"
            /\ req[waitOn[u]].profile = req[u].profile
        BY <3>1 DEF IInv, AwaitedIsRunning
      <3> QED BY <3>1, <3>2, <1>a DEF IInv, TypeOK
    <2> QED BY <2>1, <2>2
  <1> QED BY <1>1, <1>2, <1>3 DEF IInv

(* Finish removes one entry, its profile's, and everyone who awaited it.   *)
LEMMA FinishInv ==
    ASSUME IInv, NEW t \in Tasks, Finish(t)
    PROVE  IInv'
  <1>0. req[t] \in Asks /\ req[t].profile \in Profiles
    BY AsksAreRequests DEF IInv, TypeOK, Finish
  <1>1. TypeOK'
    <2>1. pc' \in [Tasks -> States]
      BY DEF IInv, TypeOK, Finish, States
    <2>2. req' \in [Tasks -> Asks \cup {NoRequest}]
      BY DEF IInv, TypeOK, Finish
    <2>3. \A u \in Tasks : pc'[u] # "idle" => req'[u] \in Asks
      BY DEF IInv, TypeOK, Finish, Settled
    <2>4. /\ waitOn' \in [Tasks -> Tasks \cup {None}]
          /\ inFlight' \in [Profiles -> Tasks \cup {None}]
          /\ epoch' \in 0..MaxRestarts
      BY DEF IInv, TypeOK, Finish, Delete
    <2> QED BY <2>1, <2>2, <2>3, <2>4 DEF TypeOK
  <1>2. EntryIsAlive'
    <2> SUFFICES ASSUME NEW p \in Profiles, inFlight'[p] # None
                 PROVE  /\ pc'[inFlight'[p]] = "running"
                        /\ req'[inFlight'[p]].profile = p
      BY DEF EntryIsAlive
    <2>1. p # req[t].profile /\ inFlight'[p] = inFlight[p]
      BY <1>0 DEF IInv, TypeOK, Finish, Delete
    <2> DEFINE o == inFlight[p]
    <2>2. o \in Tasks /\ pc[o] = "running" /\ req[o].profile = p /\ o # t
      BY <2>1 DEF IInv, TypeOK, EntryIsAlive
    <2>3. pc'[o] = "running" /\ req'[o] = req[o]
      BY <2>2 DEF Finish, Settled
    <2> QED BY <2>1, <2>2, <2>3
  <1>3. AwaitedIsRunning'
    <2> SUFFICES ASSUME NEW u \in Tasks, pc'[u] \in {"waiting", "joined"}
                 PROVE  /\ waitOn'[u] \in Tasks
                        /\ pc'[waitOn'[u]] = "running"
                        /\ req'[waitOn'[u]].profile = req'[u].profile
      BY DEF AwaitedIsRunning
    <2>1. /\ u # t /\ ~Settled(t, u) /\ pc'[u] = pc[u]
          /\ req'[u] = req[u] /\ waitOn'[u] = waitOn[u]
      BY DEF Finish
    <2> DEFINE o == waitOn[u]
    <2>2. /\ o \in Tasks /\ o # t
          /\ pc[o] = "running" /\ req[o].profile = req[u].profile
      BY <2>1 DEF IInv, AwaitedIsRunning, Settled
    <2>3. pc'[o] = "running" /\ req'[o] = req[o]
      BY <2>2 DEF Finish, Settled
    <2> QED BY <2>1, <2>2, <2>3
  <1> QED BY <1>1, <1>2, <1>3 DEF IInv

LEMMA RestartInv == IInv /\ Restart => IInv'
  BY RestartsAssumption
  DEF IInv, TypeOK, Restart, EntryIsAlive, AwaitedIsRunning, States

(* Every step of the entry points keeps the invariant.                     *)
LEMMA NextInv == IInv /\ [Next]_vars => IInv'
  <1> SUFFICES ASSUME IInv, [Next]_vars PROVE IInv'
    OBVIOUS
  <1>1. ASSUME NEW t \in Tasks, NEW r \in Asks, StartAtOnce(t, r) PROVE IInv'
    BY <1>1, BeginInv DEF StartAtOnce
  <1>2. ASSUME NEW t \in Tasks, NEW r \in Asks,
               JoinAtOnce(t, r) \/ WaitForOther(t, r)
        PROVE  IInv'
    BY <1>2, AwaitInv DEF JoinAtOnce, WaitForOther, Joins
  <1>3. ASSUME NEW t \in Tasks, WakeAndJoin(t) \/ WakeAndStart(t) PROVE IInv'
    <2>1. req[t] \in Asks /\ pc[t] = "woken"
      BY <1>3 DEF WakeAndJoin, WakeAndStart, IInv, TypeOK
    <2>2. CASE WakeAndJoin(t)
      BY <2>1, <2>2, AwaitInv DEF WakeAndJoin, Joins
    <2>3. CASE WakeAndStart(t)
      BY <2>1, <2>3, BeginInv DEF WakeAndStart
    <2> QED BY <1>3, <2>2, <2>3
  <1>4. ASSUME UNCHANGED vars PROVE IInv'
    BY <1>4 DEF vars, IInv, TypeOK, EntryIsAlive, AwaitedIsRunning
  <1> QED
    BY <1>1, <1>2, <1>3, <1>4, FinishInv, RestartInv DEF Next, GiveWay

LEMMA Invariance == Spec => []IInv
  BY InitInv, NextInv, PTL DEF Spec

(* The variables keep their types.                                         *)
THEOREM TypeCorrect == Spec => []TypeOK
  BY Invariance, PTL DEF IInv

(* No dead entry stays in inFlightSyncs, for any number of calls,          *)
(* profiles and lists.                                                     *)
THEOREM EntriesAreAlive == Spec => []EntryIsAlive
  BY Invariance, PTL DEF IInv

(* No call awaits a promise that nothing is left to settle.                *)
THEOREM AwaitedAreRunning == Spec => []AwaitedIsRunning
  BY Invariance, PTL DEF IInv

-----------------------------------------------------------------------------
(* Without a restart a call returns only when its own body, or the one it  *)
(* joined, does. That the joined one is a full sync or the same one is     *)
(* part of the invariant JoinedFits.                                       *)
JoinedFits ==
    \A t \in Tasks :
        pc[t] = "joined" => /\ req[t].kind \in {"all", "single"}
                            /\ \/ req[waitOn[t]].kind = "all"
                               \/ req[waitOn[t]] = req[t]

LEMMA InitFits == Init => JoinedFits
  BY DEF Init, JoinedFits

LEMMA JoinFits ==
    ASSUME IInv, JoinedFits, NEW t \in Tasks, NEW r \in Asks,
           pc[t] \in {"idle", "woken"}, Joins(r, inFlight[r.profile]),
           Join(t, r, inFlight[r.profile])
    PROVE  JoinedFits'
  <1> DEFINE o == inFlight[r.profile]
  <1>0. r.profile \in Profiles /\ o \in Tasks /\ o # t
    BY AsksAreRequests, NoneAssumption DEF IInv, TypeOK, EntryIsAlive, Joins
  <1> SUFFICES ASSUME NEW u \in Tasks, pc'[u] = "joined"
               PROVE  /\ req'[u].kind \in {"all", "single"}
                      /\ \/ req'[waitOn'[u]].kind = "all"
                         \/ req'[waitOn'[u]] = req'[u]
    BY DEF JoinedFits
  <1>1. CASE u = t
    BY <1>0, <1>1 DEF IInv, TypeOK, Join, Joins
  <1>2. CASE u # t
    <2>1. pc[u] = "joined" /\ req'[u] = req[u] /\ waitOn'[u] = waitOn[u]
      BY <1>2 DEF IInv, TypeOK, Join
    <2>2. waitOn[u] \in Tasks /\ waitOn[u] # t
      BY <2>1 DEF IInv, AwaitedIsRunning
    <2> QED BY <2>1, <2>2 DEF IInv, TypeOK, Join, JoinedFits
  <1> QED BY <1>1, <1>2

(* Starting or waiting changes the request of a call nobody has joined.    *)
LEMMA OthersFit ==
    ASSUME IInv, JoinedFits, NEW t \in Tasks, pc[t] \in {"idle", "woken"},
           NEW r \in Asks,
           Begin(t, r) \/ Wait(t, r, inFlight[r.profile])
    PROVE  JoinedFits'
  <1> SUFFICES ASSUME NEW u \in Tasks, pc'[u] = "joined"
               PROVE  /\ req'[u].kind \in {"all", "single"}
                      /\ \/ req'[waitOn'[u]].kind = "all"
                         \/ req'[waitOn'[u]] = req'[u]
    BY DEF JoinedFits
  <1>1. /\ u # t /\ pc[u] = "joined"
        /\ req'[u] = req[u] /\ waitOn'[u] = waitOn[u]
    BY DEF IInv, TypeOK, Begin, Wait
  <1>2. waitOn[u] \in Tasks /\ waitOn[u] # t
    BY <1>1 DEF IInv, AwaitedIsRunning
  <1>3. req'[waitOn[u]] = req[waitOn[u]]
    BY <1>2 DEF IInv, TypeOK, Begin, Wait
  <1> QED BY <1>1, <1>3 DEF JoinedFits

LEMMA FinishFits ==
    ASSUME IInv, JoinedFits, NEW t \in Tasks, Finish(t)
    PROVE  JoinedFits'
  <1> SUFFICES ASSUME NEW u \in Tasks, pc'[u] = "joined"
               PROVE  /\ req'[u].kind \in {"all", "single"}
                      /\ \/ req'[waitOn'[u]].kind = "all"
                         \/ req'[waitOn'[u]] = req'[u]
    BY DEF JoinedFits
  <1>1. /\ u # t /\ ~Settled(t, u) /\ pc[u] = "joined"
        /\ req'[u] = req[u] /\ waitOn'[u] = waitOn[u]
    BY DEF Finish
  <1>2. waitOn[u] \in Tasks /\ waitOn[u] # t /\ pc[waitOn[u]] = "running"
    BY <1>1 DEF IInv, AwaitedIsRunning, Settled
  <1>3. req'[waitOn[u]] = req[waitOn[u]]
    BY <1>2 DEF Finish, Settled
  <1> QED BY <1>1, <1>3 DEF JoinedFits

LEMMA NextFits == IInv /\ JoinedFits /\ [Next]_vars => JoinedFits'
  <1> SUFFICES ASSUME IInv, JoinedFits, [Next]_vars PROVE JoinedFits'
    OBVIOUS
  <1>1. ASSUME NEW t \in Tasks, NEW r \in Asks,
               StartAtOnce(t, r) \/ WaitForOther(t, r)
        PROVE  JoinedFits'
    BY <1>1, OthersFit DEF StartAtOnce, WaitForOther
  <1>2. ASSUME NEW t \in Tasks, NEW r \in Asks, JoinAtOnce(t, r)
        PROVE  JoinedFits'
    BY <1>2, JoinFits DEF JoinAtOnce
  <1>3. ASSUME NEW t \in Tasks, WakeAndJoin(t) \/ WakeAndStart(t)
        PROVE  JoinedFits'
    <2>1. req[t] \in Asks /\ pc[t] = "woken"
      BY <1>3 DEF WakeAndJoin, WakeAndStart, IInv, TypeOK
    <2>2. CASE WakeAndJoin(t)
      BY <2>1, <2>2, JoinFits DEF WakeAndJoin
    <2>3. CASE WakeAndStart(t)
      BY <2>1, <2>3, OthersFit DEF WakeAndStart
    <2> QED BY <1>3, <2>2, <2>3
  <1>4. CASE Restart
    BY <1>4 DEF Restart, JoinedFits
  <1>5. CASE UNCHANGED vars
    BY <1>5 DEF vars, JoinedFits
  <1> QED
    BY <1>1, <1>2, <1>3, <1>4, <1>5, FinishFits DEF Next, GiveWay

(* A step in which a call returns is a Finish, its own or of what it       *)
(* joined, or a restart.                                                   *)
LEMMA StepAnswers ==
    IInv /\ JoinedFits /\ [Next]_vars => AnsweredByWork
  <1> SUFFICES ASSUME IInv, JoinedFits, [Next]_vars,
                      NEW u \in Tasks, pc[u] # "idle", pc'[u] = "idle",
                      epoch' = epoch
               PROVE  \/ pc[u] = "running"
                      \/ /\ pc[u] = "joined"
                         /\ req[u].kind \in {"all", "single"}
                         /\ pc[waitOn[u]] = "running"
                         /\ pc'[waitOn[u]] = "idle"
                         /\ \/ req[waitOn[u]].kind = "all"
                            \/ req[waitOn[u]] = req[u]
    BY DEF AnsweredByWork
  <1>1. ~Restart
    BY DEF Restart, IInv, TypeOK
  <1>2. ASSUME NEW t \in Tasks, NEW r \in Asks,
               StartAtOnce(t, r) \/ JoinAtOnce(t, r) \/ WaitForOther(t, r)
        PROVE  FALSE
    BY <1>2 DEF StartAtOnce, JoinAtOnce, WaitForOther, Begin, Join, Wait,
                IInv, TypeOK
  <1>3. ASSUME NEW t \in Tasks, WakeAndJoin(t) \/ WakeAndStart(t) PROVE FALSE
    BY <1>3 DEF WakeAndJoin, WakeAndStart, Begin, Join, IInv, TypeOK
  <1>4. pc' # pc
    BY DEF IInv, TypeOK
  <1>5. PICK t \in Tasks : Finish(t)
    BY <1>1, <1>2, <1>3, <1>4 DEF Next, GiveWay, vars
  <1>6. CASE u = t
    BY <1>5, <1>6 DEF Finish
  <1>7. CASE u # t
    <2>1. pc[u] = "joined" /\ waitOn[u] = t
      BY <1>5, <1>7 DEF Finish, Settled
    <2> QED BY <1>5, <2>1 DEF Finish, JoinedFits
  <1> QED BY <1>6, <1>7

(* A call of an entry point is answered by a sync that covers it.          *)
THEOREM AllAnswersAreWork == Spec => AnswersAreWork
  <1>1. Spec => []JoinedFits
    BY Invariance, InitFits, NextFits, PTL DEF Spec
  <1> QED
    BY <1>1, Invariance, StepAnswers, PTL DEF Spec, AnswersAreWork

-----------------------------------------------------------------------------
(***************************************************************************)
(* The fetch of a list. StampedIsCompiled for any number of calls and      *)
(* URLs. It is not inductive alone: a call about to stamp must have its    *)
(* filter saved (JobsAreSound), and that stays true while other calls      *)
(* write the same tables because no step ever takes a filter away (the     *)
(* lemmas on Saved).                                                       *)
(***************************************************************************)
(* What a call knows of the filter of its URL.                             *)
Sound(t) ==
    LET u == job[t].url IN
    /\ job[t].step = "fetch" => (job[t].tag # 0 => Compiled(u))
    /\ job[t].step = "save" =>
         /\ job[t].tag # 0
         /\ "bloom" \notin job[t].pend => listBloom[u] # 0
         /\ "rules" \notin job[t].pend => listRules[u] # 0
    /\ job[t].step = "stamp" =>
         (job[t].tag # 0 \/ job[t].answer # "failed" => Compiled(u))

JobsAreSound == \A t \in Callers : Sound(t)

ListInv == ListTypeOK /\ StampedIsCompiled /\ JobsAreSound

LEMMA NoJobIsJob == NoJob \in Job
  BY BoundsAssumption DEF NoJob, Call, Job, Steps, Answers, Halves

(* Replacing a call by another well-formed one.                            *)
LEMMA CallTypes ==
    ASSUME ListInv, NEW t \in Callers, NEW c \in Job, c.url \in Urls,
           job' = [job EXCEPT ![t] = c]
    PROVE  /\ job' \in [Callers -> Job]
           /\ \A s \in Callers : job'[s].step # "idle" => job'[s].url \in Urls
           /\ \A s \in Callers : s # t => job'[s] = job[s]
           /\ job'[t] = c
  BY DEF ListInv, ListTypeOK

LEMMA ListInitInv == ListInit => ListInv
  <1> SUFFICES ASSUME ListInit PROVE ListInv
    OBVIOUS
  <1>1. ListTypeOK
    BY BoundsAssumption, NoJobIsJob
    DEF ListInit, ListTypeOK, Versions, Answers, NoJob, Call
  <1>2. StampedIsCompiled
    BY DEF ListInit, StampedIsCompiled
  <1>3. JobsAreSound
    BY DEF ListInit, JobsAreSound, Sound, NoJob, Call
  <1> QED BY <1>1, <1>2, <1>3 DEF ListInv

(* A call that is idle or has just read the row knows nothing false.       *)
LEMMA NoJobIsSound ==
    ASSUME ListInv, NEW t \in Callers, job' = [job EXCEPT ![t] = NoJob]
    PROVE  Sound(t)'
  BY DEF ListInv, ListTypeOK, Sound, NoJob, Call

(* The tables of filters only ever gain: what is compiled stays compiled,  *)
(* and the other calls' knowledge stays true.                              *)
LEMMA OthersStaySound ==
    ASSUME ListInv, NEW t \in Callers, NEW s \in Callers, s # t,
           job'[s] = job[s],
           \A u \in Urls : /\ listBloom[u] # 0 => listBloom'[u] # 0
                           /\ listRules[u] # 0 => listRules'[u] # 0
    PROVE  Sound(s)'
  <1>1. job[s].step # "idle" => job[s].url \in Urls
    BY DEF ListInv, ListTypeOK
  <1>2. Sound(s) /\ job[s] \in Job
    BY DEF ListInv, ListTypeOK, JobsAreSound
  <1> QED BY <1>1, <1>2 DEF Sound, Compiled

LEMMA SavedTypes ==
    ASSUME ListInv, NEW u \in Urls, NEW v \in 1..MaxVersion, NEW hs \in SUBSET Halves,
           Saved(u, v, hs)
    PROVE  /\ listBloom' \in [Urls -> 0..MaxVersion]
           /\ listRules' \in [Urls -> 0..MaxVersion]
           /\ \A x \in Urls : /\ listBloom[x] # 0 => listBloom'[x] # 0
                              /\ listRules[x] # 0 => listRules'[x] # 0
           /\ "bloom" \in hs => listBloom'[u] # 0
           /\ "rules" \in hs => listRules'[u] # 0
  BY BoundsAssumption DEF ListInv, ListTypeOK, Saved

(* Steps that leave the metadata and do not lose filters keep the claim.   *)
LEMMA StampedStays ==
    ASSUME ListInv, etag' = etag, syncError' = syncError,
           \A u \in Urls : /\ listBloom[u] # 0 => listBloom'[u] # 0
                           /\ listRules[u] # 0 => listRules'[u] # 0
    PROVE  StampedIsCompiled'
  BY DEF ListInv, StampedIsCompiled, Compiled

LEMMA WorldInv ==
    ASSUME ListInv, NEW u \in Urls, SourceChanges(u) \/ IntervalEnds(u)
    PROVE  ListInv'
  <1>1. ListTypeOK'
    <2>1. CASE SourceChanges(u)
      BY <2>1, BoundsAssumption
      DEF ListInv, ListTypeOK, SourceChanges, stored, Versions
    <2>2. CASE IntervalEnds(u)
      BY <2>2 DEF ListInv, ListTypeOK, IntervalEnds
    <2> QED BY <2>1, <2>2
  <1>2. UNCHANGED <<etag, syncError, listBloom, listRules, job>>
    BY DEF SourceChanges, IntervalEnds, stored
  <1>3. StampedIsCompiled' /\ JobsAreSound'
    BY <1>2 DEF ListInv, StampedIsCompiled, Compiled, JobsAreSound, Sound
  <1> QED BY <1>1, <1>3 DEF ListInv

LEMMA BeginCallInv ==
    ASSUME ListInv, NEW t \in Callers, NEW u \in Urls, BeginCall(t, u)
    PROVE  ListInv'
  <1>1. /\ job'[t].step = "fetch" /\ job'[t].url = u /\ job'[t].tag = etag[u]
        /\ \A s \in Callers : job'[s].step # "idle" => job'[s].url \in Urls
        /\ \A s \in Callers : s # t => job'[s] = job[s]
        /\ job' \in [Callers -> Job]
    <2> DEFINE c == Call("fetch", u, etag[u], {}, "none")
    <2>1. /\ c \in Job
          /\ c.step = "fetch" /\ c.url = u /\ c.tag = etag[u]
      BY BoundsAssumption DEF ListInv, ListTypeOK, Call, Job, Steps, Answers
    <2>2. job' = [job EXCEPT ![t] = c]
      BY DEF BeginCall
    <2> HIDE DEF c
    <2> QED BY <2>1, <2>2, CallTypes
  <1>2. ListTypeOK'
    BY <1>1 DEF ListInv, ListTypeOK, BeginCall, stored, Met
  <1>3. StampedIsCompiled'
    BY StampedStays DEF BeginCall, stored
  <1>4. JobsAreSound'
    <2>1. Sound(t)'
      BY <1>1 DEF ListInv, StampedIsCompiled, BeginCall, stored, Sound, Compiled
    <2>2. \A s \in Callers : s # t => Sound(s)'
      BY <1>1, OthersStaySound DEF BeginCall, stored
    <2> QED BY <2>1, <2>2 DEF JobsAreSound
  <1> QED BY <1>2, <1>3, <1>4 DEF ListInv

(* An answer that agrees with what the call knows.                         *)
LEMMA AnsweredInv ==
    ASSUME ListInv, NEW t \in Callers, job[t].step = "fetch",
           NEW step \in {"save", "stamp"}, NEW tag \in 0..MaxVersion,
           NEW pend \in SUBSET Halves, NEW answer \in Answers,
           Answered(t, step, tag, pend, answer),
           step = "save" => tag # 0 /\ pend = Halves,
           step = "stamp" => (tag # 0 \/ answer # "failed"
                                => Compiled(job[t].url)),
           faults' \in 0..MaxFaults,
           UNCHANGED <<source, stored, overlap>>
    PROVE  ListInv'
  <1>1. /\ job'[t].step = step /\ job'[t].url = job[t].url
        /\ job'[t].tag = tag /\ job'[t].pend = pend
        /\ job'[t].answer = answer
        /\ \A s \in Callers : job'[s].step # "idle" => job'[s].url \in Urls
        /\ \A s \in Callers : s # t => job'[s] = job[s]
        /\ job' \in [Callers -> Job]
    <2> DEFINE c == Call(step, job[t].url, tag, pend, answer)
    <2>1. /\ c \in Job /\ c.url \in Urls
          /\ c.step = step /\ c.url = job[t].url
          /\ c.tag = tag /\ c.pend = pend /\ c.answer = answer
      BY DEF ListInv, ListTypeOK, Call, Job, Steps
    <2>2. job' = [job EXCEPT ![t] = c]
      BY DEF Answered
    <2> HIDE DEF c
    <2> QED BY <2>1, <2>2, CallTypes
  <1>2. ListTypeOK'
    BY <1>1 DEF ListInv, ListTypeOK, stored
  <1>3. StampedIsCompiled'
    BY StampedStays DEF stored
  <1>4. JobsAreSound'
    <2>1. Sound(t)'
      BY <1>1 DEF stored, Sound, Compiled, Halves
    <2>2. \A s \in Callers : s # t => Sound(s)'
      BY <1>1, OthersStaySound DEF stored
    <2> QED BY <2>1, <2>2 DEF JobsAreSound
  <1> QED BY <1>2, <1>3, <1>4 DEF ListInv

LEMMA FetchInv ==
    ASSUME ListInv, NEW t \in Callers, NotModified(t) \/ Fetched(t) \/ FetchFails(t)
    PROVE  ListInv'
  <1>0. /\ job[t] \in Job /\ job[t].step = "fetch" /\ job[t].url \in Urls
        /\ job[t].tag \in 0..MaxVersion
        /\ source[job[t].url] \in 1..MaxVersion
        /\ job[t].tag # 0 => Compiled(job[t].url)
        /\ UNCHANGED <<source, stored, overlap>>
    BY DEF ListInv, ListTypeOK, JobsAreSound, Sound, NotModified, Fetched, FetchFails, Refused,
           Job, Versions
  <1>1. CASE NotModified(t)
    <2>1. job[t].tag # 0
      BY <1>0, <1>1, BoundsAssumption DEF NotModified
    <2>2. faults' \in 0..MaxFaults /\ "304" \in Answers /\ {} \in SUBSET Halves
      BY <1>1 DEF NotModified, ListInv, ListTypeOK, Answers
    <2> QED BY <1>0, <1>1, <2>1, <2>2, AnsweredInv DEF NotModified
  <1>2. CASE Fetched(t)
    <2> DEFINE v == source[job[t].url]
               a == IF <<job[t].url, v>> \in Oversized THEN "cut" ELSE "ok"
    <2>1. v \in 0..MaxVersion /\ v # 0 /\ a \in Answers /\ faults' \in 0..MaxFaults
      BY <1>0, <1>2, BoundsAssumption DEF Fetched, ListInv, ListTypeOK, Answers
    <2>2. Answered(t, "save", v, Halves, a)
      BY <1>2 DEF Fetched
    <2> QED BY <1>0, <2>1, <2>2, AnsweredInv
  <1>3. CASE FetchFails(t)
    <2>1. faults' \in 0..MaxFaults /\ "failed" \in Answers /\ {} \in SUBSET Halves
      BY <1>3, BoundsAssumption DEF FetchFails, Refused, Fault, ListInv, ListTypeOK, Answers
    <2> QED BY <1>0, <1>3, <2>1, AnsweredInv DEF FetchFails, Refused
  <1> QED BY <1>1, <1>2, <1>3

LEMMA SaveInv ==
    ASSUME ListInv, NEW t \in Callers, NEW h \in Halves, Save(t, h)
    PROVE  ListInv'
  <1> DEFINE u == job[t].url
  <1>0. /\ job[t] \in Job /\ u \in Urls /\ job[t].tag \in 1..MaxVersion
        /\ {h} \in SUBSET Halves
    BY BoundsAssumption DEF ListInv, ListTypeOK, JobsAreSound, Sound, Save, Job
  <1>1. /\ listBloom' \in [Urls -> 0..MaxVersion]
        /\ listRules' \in [Urls -> 0..MaxVersion]
        /\ \A x \in Urls : /\ listBloom[x] # 0 => listBloom'[x] # 0
                           /\ listRules[x] # 0 => listRules'[x] # 0
        /\ h = "bloom" => listBloom'[u] # 0
        /\ h = "rules" => listRules'[u] # 0
    BY <1>0, SavedTypes DEF Save
  <1>2. /\ job'[t] = [job[t] EXCEPT !.pend = @ \ {h},
                                   !.step = IF job[t].pend \ {h} = {} THEN "stamp" ELSE @]
        /\ \A s \in Callers : s # t => job'[s] = job[s]
        /\ job' \in [Callers -> Job]
    BY <1>0 DEF ListInv, ListTypeOK, Save, Job, Steps
  <1>3. ListTypeOK'
    BY <1>0, <1>1, <1>2 DEF ListInv, ListTypeOK, Save, Job
  <1>4. StampedIsCompiled'
    BY <1>1, StampedStays DEF Save
  <1>5. JobsAreSound'
    <2>1. Sound(t)'
      <3>1. /\ job'[t].step = IF job[t].pend \ {h} = {} THEN "stamp" ELSE "save"
            /\ job'[t].url = u
            /\ job'[t].tag = job[t].tag /\ job'[t].pend = job[t].pend \ {h}
        BY <1>0, <1>2 DEF Save, Job
      <3>2. Sound(t)
        BY DEF ListInv, JobsAreSound
      <3> QED BY <1>0, <1>1, <3>1, <3>2 DEF Sound, Save, Halves, Compiled
    <2>2. \A s \in Callers : s # t => Sound(s)'
      BY <1>1, <1>2, OthersStaySound
    <2> QED BY <2>1, <2>2 DEF JobsAreSound
  <1> QED BY <1>3, <1>4, <1>5 DEF ListInv

LEMMA ThrowTypes ==
    ASSUME ListInv, NEW t \in Callers, Throw(t)
    PROVE  /\ job' \in [Callers -> Job]
           /\ \A s \in Callers : job'[s].step # "idle" => job'[s].url \in Urls
           /\ job' = [job EXCEPT ![t] = NoJob]
           /\ \A s \in Callers : s # t => job'[s] = job[s]
  BY NoJobIsJob DEF ListInv, ListTypeOK, Throw, NoJob, Call

LEMMA FailInv ==
    ASSUME ListInv, NEW t \in Callers,
           \/ \E h \in Halves, landed \in SUBSET Halves : SaveFails(t, h, landed)
           \/ StampFails(t)
    PROVE  ListInv'
  <1>0. /\ Throw(t) /\ Fault
        /\ UNCHANGED <<source, etag, syncError, due, older, overlap>>
    BY DEF SaveFails, StampFails, stored
  <1>1. /\ listBloom' \in [Urls -> 0..MaxVersion]
        /\ listRules' \in [Urls -> 0..MaxVersion]
        /\ \A x \in Urls : /\ listBloom[x] # 0 => listBloom'[x] # 0
                           /\ listRules[x] # 0 => listRules'[x] # 0
    <2>1. ASSUME NEW h \in Halves, NEW landed \in SUBSET Halves,
                 SaveFails(t, h, landed)
          PROVE  /\ listBloom' \in [Urls -> 0..MaxVersion]
                 /\ listRules' \in [Urls -> 0..MaxVersion]
                 /\ \A x \in Urls : /\ listBloom[x] # 0 => listBloom'[x] # 0
                                    /\ listRules[x] # 0 => listRules'[x] # 0
      <3>1. job[t] \in Job /\ job[t].url \in Urls /\ job[t].tag \in 1..MaxVersion
        BY <2>1, BoundsAssumption
        DEF ListInv, ListTypeOK, JobsAreSound, Sound, SaveFails, Job
      <3> QED BY <2>1, <3>1, SavedTypes DEF SaveFails
    <2>2. CASE StampFails(t)
      BY <2>2 DEF StampFails, stored, ListInv, ListTypeOK
    <2> QED BY <2>1, <2>2
  <1>2. ListTypeOK'
    BY <1>0, <1>1, ThrowTypes, BoundsAssumption DEF ListInv, ListTypeOK, Fault
  <1>3. StampedIsCompiled'
    BY <1>0, <1>1, StampedStays
  <1>4. JobsAreSound'
    BY <1>0, <1>1, ThrowTypes, NoJobIsSound, OthersStaySound DEF JobsAreSound
  <1> QED BY <1>2, <1>3, <1>4 DEF ListInv

LEMMA StampInv ==
    ASSUME ListInv, NEW t \in Callers, Stamp(t)
    PROVE  ListInv'
  <1> DEFINE u == job[t].url
  <1>0. /\ job[t] \in Job /\ u \in Urls /\ job[t].tag \in 0..MaxVersion
        /\ job[t].answer \in Answers
        /\ job[t].tag # 0 \/ job[t].answer # "failed" => Compiled(u)
        /\ UNCHANGED <<source, listBloom, listRules, faults>>
    BY DEF ListInv, ListTypeOK, JobsAreSound, Sound, Stamp, Job
  <1>1. job' = [job EXCEPT ![t] = NoJob]
    BY DEF Stamp
  <1>2. ListTypeOK'
    <2>1. etag' \in [Urls -> 0..MaxVersion]
      BY <1>0 DEF ListInv, ListTypeOK, Stamp
    <2>2. syncError' \in [Urls -> {"never", "none", "fetch", "cut"}]
      BY <1>0 DEF ListInv, ListTypeOK, Stamp, ErrorOf
    <2>3. due' \subseteq Urls /\ older' \subseteq Urls \X Urls
      BY <1>0 DEF ListInv, ListTypeOK, Stamp
    <2>4. job' \in [Callers -> Job]
          /\ \A s \in Callers : job'[s].step # "idle" => job'[s].url \in Urls
      BY <1>1, NoJobIsJob DEF ListInv, ListTypeOK, NoJob, Call
    <2>5. overlap' \in [Urls -> {"none", "now", "past"}]
      BY <1>0 DEF ListInv, ListTypeOK, Stamp
    <2> QED BY <1>0, <2>1, <2>2, <2>3, <2>4, <2>5 DEF ListInv, ListTypeOK
  <1>3. StampedIsCompiled'
    <2> SUFFICES ASSUME NEW x \in Urls,
                        etag'[x] # 0 \/ syncError'[x] \in {"none", "cut"}
                 PROVE  Compiled(x)
      BY <1>0 DEF StampedIsCompiled, Compiled
    <2>1. CASE x # u
      BY <2>1 DEF Stamp, ListInv, ListTypeOK, StampedIsCompiled
    <2>2. CASE x = u
      <3>1. /\ etag'[u] = IF job[t].tag # 0 THEN job[t].tag ELSE etag[u]
            /\ syncError'[u] = ErrorOf(job[t].answer)
        BY DEF Stamp, ListInv, ListTypeOK
      <3>2. CASE job[t].tag # 0 \/ job[t].answer # "failed"
        BY <3>2, <1>0, <2>2
      <3>3. CASE job[t].tag = 0 /\ job[t].answer = "failed"
        <4>1. etag'[u] = etag[u] /\ syncError'[u] = "fetch"
          BY <3>1, <3>3 DEF ErrorOf
        <4> QED BY <4>1, <2>2 DEF ListInv, StampedIsCompiled
      <3> QED BY <3>2, <3>3
    <2> QED BY <2>1, <2>2
  <1>4. JobsAreSound'
    <2>1. \A s \in Callers : s # t => Sound(s)'
      BY <1>0, <1>1, OthersStaySound DEF ListInv, ListTypeOK
    <2> QED BY <1>1, <2>1, NoJobIsSound DEF JobsAreSound
  <1> QED BY <1>2, <1>3, <1>4 DEF ListInv

LEMMA ListRestartInv == ListInv /\ ListRestart => ListInv'
  <1> SUFFICES ASSUME ListInv, ListRestart PROVE ListInv'
    OBVIOUS
  <1>1. ListTypeOK'
    BY NoJobIsJob, BoundsAssumption
    DEF ListInv, ListTypeOK, ListRestart, Fault, stored, NoJob, Call, Answers
  <1>2. StampedIsCompiled'
    BY StampedStays DEF ListRestart, stored
  <1>3. JobsAreSound'
    BY DEF ListRestart, JobsAreSound, Sound, NoJob, Call
  <1> QED BY <1>1, <1>2, <1>3 DEF ListInv

(* Every step keeps the invariant.                                         *)
LEMMA ListNextInv == ListInv /\ [ListNext]_listVars => ListInv'
  <1> SUFFICES ASSUME ListInv, [ListNext]_listVars PROVE ListInv'
    OBVIOUS
  <1>1. ASSUME NEW t \in Callers, NEW u \in Urls, CronBegin(t, u) \/ DemandBegin(t, u)
        PROVE  ListInv'
    BY <1>1, BeginCallInv DEF CronBegin, DemandBegin
  <1>2. ASSUME NEW t \in Callers, Sync(t) PROVE ListInv'
    BY <1>2, FetchInv, SaveInv, FailInv, StampInv DEF Sync
  <1>3. CASE UNCHANGED listVars
    BY <1>3 DEF listVars, stored, ListInv, ListTypeOK, StampedIsCompiled, Compiled,
                JobsAreSound, Sound
  <1> QED BY <1>1, <1>2, <1>3, WorldInv, ListRestartInv DEF ListNext

LEMMA ListInvariance == ListSpec => []ListInv
  BY ListInitInv, ListNextInv, PTL DEF ListSpec

(* The variables keep their types.                                         *)
THEOREM ListTypeCorrect == ListSpec => []ListTypeOK
  BY ListInvariance, PTL DEF ListInv

(* No metadata row claims a synchronisation, or an ETag, without a filter. *)
THEOREM StampedAreCompiled == ListSpec => []StampedIsCompiled
  BY ListInvariance, PTL DEF ListInv

-----------------------------------------------------------------------------
(***************************************************************************)
(* TagNotAhead, for any number of calls. Nothing that is stored or carried *)
(* is newer than what the server serves (Behind). Of two calls for a URL   *)
(* at once the history knows ("now"), so a call whose URL is not marked    *)
(* so is alone with it, and nobody but itself writes its rows: step by     *)
(* step it knows how the version it holds compares with those stored       *)
(* (Alone), whatever earlier calls left there if it compiles the list, and *)
(* if none had overlapped before it even when it does not (OrderedUrl).    *)
(***************************************************************************)
Behind(u) == etag[u] <= source[u]

AtMost(t) == job[t].step # "idle" => job[t].tag <= source[job[t].url]

(* A call that shares its URL with another has been noticed.               *)
Noticed == \A s, t \in Callers :
              s # t /\ job[s].step # "idle" /\ job[s].url = job[t].url
                 => overlap[job[s].url] = "now"

IdleHasNoUrl == \A t \in Callers : job[t].step = "idle" => job[t].url = NoUrl

Alone(t) ==
    LET u == job[t].url IN
    job[t].step # "idle" /\ overlap[u] # "now" =>
       /\ job[t].step = "fetch" => job[t].tag = etag[u]
       /\ job[t].step = "save" =>
            /\ etag[u] <= job[t].tag
            /\ job[t].answer \in {"ok", "cut"}
            /\ "bloom" \notin job[t].pend => listBloom[u] = job[t].tag
            /\ "rules" \notin job[t].pend => listRules[u] = job[t].tag
       /\ job[t].step = "stamp" =>
            \/ job[t].answer \in {"304", "failed"} /\ job[t].tag = etag[u]
            \/ listBloom[u] = job[t].tag /\ listRules[u] = job[t].tag

OrderedUrl(u) == overlap[u] = "none" =>
                    listBloom[u] >= etag[u] /\ listRules[u] >= etag[u]

(* The two at the next state, for a URL of this one.                       *)
BehindNext(u) == etag'[u] <= source'[u]
OrderedNext(u) == overlap'[u] = "none" =>
                     listBloom'[u] >= etag'[u] /\ listRules'[u] >= etag'[u]

TagInv == /\ \A u \in Urls : Behind(u) /\ OrderedUrl(u)
          /\ \A t \in Callers : AtMost(t) /\ Alone(t)
          /\ Noticed
          /\ IdleHasNoUrl

(* The numbers that are compared are numbers.                              *)
LEMMA Numbers ==
    ASSUME ListInv
    PROVE  /\ \A u \in Urls : /\ etag[u] \in Nat /\ source[u] \in Nat
                             /\ listBloom[u] \in Nat /\ listRules[u] \in Nat
           /\ \A t \in Callers : /\ job[t].tag \in Nat /\ job[t] \in Job
                                 /\ job[t].step # "idle" => job[t].url \in Urls
  <1>1. 0..MaxVersion \subseteq Nat /\ 1..MaxVersion \subseteq Nat
    BY BoundsAssumption
  <1> QED BY <1>1 DEF ListInv, ListTypeOK, Versions, Job

LEMMA InitTag == ListInit => TagInv
  BY DEF ListInit, TagInv, Behind, OrderedUrl, AtMost, Alone, Noticed, IdleHasNoUrl, NoJob, Call

(* A step of a call concerns its own URL only, and the other calls for     *)
(* that URL, if any, have been noticed.                                    *)
LEMMA CallStep ==
    ASSUME ListInv, TagInv, NEW t \in Callers, job[t].step # "idle",
           source' = source,
           \A s \in Callers : s # t => job'[s] = job[s],
           \/ job'[t] = NoJob
           \/ job'[t].step # "idle" /\ job'[t].url = job[t].url,
           \A x \in Urls : x # job[t].url =>
              /\ etag'[x] = etag[x] /\ overlap'[x] = overlap[x]
              /\ listBloom'[x] = listBloom[x] /\ listRules'[x] = listRules[x],
           overlap[job[t].url] = "now" => overlap'[job[t].url] = "now",
           BehindNext(job[t].url), OrderedNext(job[t].url), AtMost(t)', Alone(t)'
    PROVE  TagInv'
  <1> DEFINE u == job[t].url
  <1>0. /\ u \in Urls
        /\ \A s \in Callers : job[s].step # "idle" => job[s].url \in Urls
    BY Numbers
  <1>1. \A x \in Urls : Behind(x)' /\ OrderedUrl(x)'
    <2> SUFFICES ASSUME NEW x \in Urls PROVE Behind(x)' /\ OrderedUrl(x)'
      OBVIOUS
    <2>1. CASE x # u  BY <2>1 DEF TagInv, Behind, OrderedUrl
    <2>2. CASE x = u
      BY <2>2 DEF Behind, OrderedUrl, BehindNext, OrderedNext
    <2> QED BY <2>1, <2>2
  <1>2. ASSUME NEW s \in Callers, s # t PROVE AtMost(s)' /\ Alone(s)'
    <2>0. AtMost(s) /\ Alone(s) /\ job'[s] = job[s]  BY <1>2 DEF TagInv
    <2>1. AtMost(s)'  BY <2>0 DEF AtMost
    <2>2. Alone(s)'
      <3>1. CASE job[s].step = "idle"  BY <2>0, <3>1 DEF Alone
      <3>2. CASE job[s].step # "idle" /\ job[s].url = u
        <4>1. overlap'[u] = "now"  BY <1>2, <3>2 DEF TagInv, Noticed
        <4> QED BY <2>0, <3>2, <4>1 DEF Alone
      <3>3. CASE job[s].step # "idle" /\ job[s].url # u
        BY <1>0, <2>0, <3>3 DEF Alone
      <3> QED BY <3>1, <3>2, <3>3
    <2> QED BY <2>1, <2>2
  <1>3. Noticed'
    <2> SUFFICES ASSUME NEW r \in Callers, NEW s \in Callers, r # s,
                        job'[r].step # "idle", job'[r].url = job'[s].url
                 PROVE  overlap'[job'[r].url] = "now"
      BY DEF Noticed
    <2>1. job[r].step # "idle" /\ job'[r].url = job[r].url /\ job[r].url \in Urls
      BY <1>0 DEF NoJob, Call
    <2>2. job'[s].url = job[s].url
      <3>1. CASE s = t /\ job'[t] = NoJob
        <4>1. job'[s].url = NoUrl  BY <3>1 DEF NoJob, Call
        <4> QED BY <2>1, <4>1, NoUrlAssumption
      <3> QED BY <3>1
    <2>3. overlap[job[r].url] = "now"  BY <2>1, <2>2 DEF TagInv, Noticed
    <2> QED BY <2>1, <2>3
  <1>4. IdleHasNoUrl'
    BY DEF TagInv, IdleHasNoUrl, NoJob, Call
  <1> QED BY <1>1, <1>2, <1>3, <1>4 DEF TagInv

(* The world's steps: what the server serves only gets newer.              *)
LEMMA WorldTag ==
    ASSUME ListInv, TagInv, NEW u \in Urls, SourceChanges(u) \/ IntervalEnds(u)
    PROVE  TagInv'
  <1>1. \A x \in Urls : source[x] <= source'[x] /\ source'[x] \in Nat
    <2>1. CASE SourceChanges(u)
      <3>1. source' = [source EXCEPT ![u] = source[u] + 1]  BY <2>1 DEF SourceChanges
      <3>2. source \in [Urls -> Versions]  BY DEF ListInv, ListTypeOK
      <3>3. \A x \in Urls : source[x] \in Nat  BY Numbers
      <3> QED BY <3>1, <3>2, <3>3
    <2>2. CASE IntervalEnds(u)  BY <2>2, Numbers DEF IntervalEnds
    <2> QED BY <2>1, <2>2
  <1>2. UNCHANGED <<etag, listBloom, listRules, job, overlap>>
    BY DEF SourceChanges, IntervalEnds, stored
  <1>3. \A x \in Urls : Behind(x)' /\ OrderedUrl(x)'
    BY <1>1, <1>2, Numbers DEF TagInv, Behind, OrderedUrl
  <1>4. ASSUME NEW t \in Callers PROVE AtMost(t)' /\ Alone(t)'
    <2>1. AtMost(t) /\ Alone(t)  BY DEF TagInv
    <2>2. AtMost(t)'  BY <1>1, <1>2, <2>1, Numbers DEF AtMost
    <2> QED BY <1>2, <2>1, <2>2 DEF Alone
  <1> QED BY <1>2, <1>3, <1>4 DEF TagInv, Noticed, IdleHasNoUrl

LEMMA BeginTag ==
    ASSUME ListInv, TagInv, NEW t \in Callers, NEW u \in Urls, BeginCall(t, u)
    PROVE  TagInv'
  <1>0. /\ job[t].step = "idle" /\ job[t].url = NoUrl
        /\ UNCHANGED <<source, etag, listBloom, listRules>>
        /\ \A x \in Urls : overlap'[x] = IF x = u THEN Met(u) ELSE overlap[x]
        /\ \A s \in Callers : s # t => job'[s] = job[s]
    BY DEF BeginCall, stored, ListInv, ListTypeOK, TagInv, IdleHasNoUrl
  <1>1. job'[t].step = "fetch" /\ job'[t].url = u /\ job'[t].tag = etag[u]
    <2> DEFINE c == Call("fetch", u, etag[u], {}, "none")
    <2>1. c.step = "fetch" /\ c.url = u /\ c.tag = etag[u]  BY DEF Call
    <2>2. job'[t] = c  BY DEF BeginCall, ListInv, ListTypeOK
    <2> HIDE DEF c
    <2> QED BY <2>1, <2>2
  <1>2. \A s \in Callers : job[s].url = u => overlap'[u] = "now"
    BY <1>0 DEF Met, Quiet
  <1>3. \A x \in Urls : /\ overlap'[x] = "none" => overlap[x] = "none"
                        /\ x # u => overlap'[x] = overlap[x]
    BY <1>0 DEF Met
  <1>4. \A x \in Urls : Behind(x)' /\ OrderedUrl(x)'
    BY <1>0, <1>3 DEF TagInv, Behind, OrderedUrl
  <1>5. AtMost(t)' /\ Alone(t)'
    BY <1>0, <1>1 DEF TagInv, Behind, AtMost, Alone
  <1>6. ASSUME NEW s \in Callers, s # t PROVE AtMost(s)' /\ Alone(s)'
    <2>0. AtMost(s) /\ Alone(s) /\ job'[s] = job[s]  BY <1>0, <1>6 DEF TagInv
    <2>1. AtMost(s)'  BY <1>0, <2>0 DEF AtMost
    <2>2. CASE job[s].url = u
      <3>1. overlap'[job'[s].url] = "now"  BY <1>2, <2>0, <2>2
      <3> QED BY <2>1, <3>1 DEF Alone
    <2>3. CASE job[s].url # u
      <3>1. job[s].step # "idle" => job[s].url \in Urls  BY Numbers
      <3>2. job[s].step # "idle" => overlap'[job[s].url] = overlap[job[s].url]
        BY <1>3, <2>3, <3>1
      <3> QED BY <1>0, <2>0, <2>1, <3>2 DEF Alone
    <2> QED BY <2>1, <2>2, <2>3
  <1>7. Noticed'
    <2> SUFFICES ASSUME NEW r \in Callers, NEW s \in Callers, r # s,
                        job'[r].step # "idle", job'[r].url = job'[s].url
                 PROVE  overlap'[job'[r].url] = "now"
      BY DEF Noticed
    <2>1. CASE r = t \/ s = t  BY <2>1, <1>0, <1>1, <1>2
    <2>2. CASE r # t /\ s # t
      <3>1. job[r].step # "idle" /\ job[r].url \in Urls /\ job[r].url = job[s].url
            /\ job'[r] = job[r]
        BY <1>0, <2>2, Numbers
      <3>2. overlap[job[r].url] = "now"  BY <3>1 DEF TagInv, Noticed
      <3>3. CASE job[r].url = u  BY <1>2, <3>1, <3>3
      <3>4. CASE job[r].url # u  BY <1>3, <3>1, <3>2, <3>4
      <3> QED BY <3>3, <3>4
    <2> QED BY <2>1, <2>2
  <1>8. IdleHasNoUrl'  BY <1>0, <1>1 DEF TagInv, IdleHasNoUrl
  <1> QED BY <1>4, <1>5, <1>6, <1>7, <1>8 DEF TagInv

(* The answer to a call that is alone: kept, compared, or met as served.   *)
LEMMA FetchTag ==
    ASSUME ListInv, TagInv, NEW t \in Callers,
           NotModified(t) \/ Fetched(t) \/ FetchFails(t)
    PROVE  TagInv'
  <1> DEFINE u == job[t].url
  <1>0. /\ job[t].step = "fetch" /\ u \in Urls
        /\ UNCHANGED <<source, stored, overlap>>
    BY Numbers DEF NotModified, Fetched, FetchFails
  <1>1. \E a \in Answers :
           \/ a \in {"304", "failed"} /\ Answered(t, "stamp", job[t].tag, {}, a)
           \/ a \in {"ok", "cut"} /\ Answered(t, "save", source[u], Halves, a)
    BY DEF NotModified, Fetched, FetchFails, Answers
  <1>2. PICK a \in Answers :
           \/ a \in {"304", "failed"} /\ Answered(t, "stamp", job[t].tag, {}, a)
           \/ a \in {"ok", "cut"} /\ Answered(t, "save", source[u], Halves, a)
    BY <1>1
  <1>3. /\ \A s \in Callers : s # t => job'[s] = job[s]
        /\ job'[t].step # "idle" /\ job'[t].url = u
        /\ job'[t].answer = a /\ job'[t].tag \in {job[t].tag, source[u]}
        /\ \/ /\ job'[t].step = "stamp" /\ job'[t].tag = job[t].tag
              /\ a \in {"304", "failed"}
           \/ /\ job'[t].step = "save" /\ job'[t].tag = source[u]
              /\ job'[t].pend = Halves /\ a \in {"ok", "cut"}
    BY <1>2 DEF Answered, Call, ListInv, ListTypeOK
  <1>4. AtMost(t)'
    BY <1>0, <1>3, Numbers DEF TagInv, AtMost
  <1>5. Alone(t)'
    BY <1>0, <1>3 DEF TagInv, Alone, Behind, Halves, stored
  <1>6. BehindNext(u) /\ OrderedNext(u)
    BY <1>0, <1>3 DEF TagInv, Behind, OrderedUrl, BehindNext, OrderedNext, stored
  <1> QED BY <1>0, <1>3, <1>4, <1>5, <1>6, CallStep DEF stored

LEMMA SaveTag ==
    ASSUME ListInv, TagInv, NEW t \in Callers, NEW h \in Halves, Save(t, h)
    PROVE  TagInv'
  <1> DEFINE u == job[t].url
  <1>0. /\ job[t].step = "save" /\ u \in Urls /\ h \in job[t].pend
        /\ job[t] \in Job /\ Alone(t) /\ AtMost(t) /\ Behind(u) /\ OrderedUrl(u)
        /\ UNCHANGED <<source, etag, overlap>>
    BY Numbers DEF Save, TagInv
  <1>1. /\ listBloom'[u] = IF h = "bloom" THEN job[t].tag ELSE listBloom[u]
        /\ listRules'[u] = IF h = "rules" THEN job[t].tag ELSE listRules[u]
        /\ \A x \in Urls : x # u => /\ listBloom'[x] = listBloom[x]
                                    /\ listRules'[x] = listRules[x]
    BY <1>0 DEF Save, Saved, ListInv, ListTypeOK, Halves
  <1>2. /\ job'[t].url = u /\ job'[t].tag = job[t].tag /\ job'[t].answer = job[t].answer
        /\ job'[t].pend = job[t].pend \ {h}
        /\ job'[t].step = IF job[t].pend \ {h} = {} THEN "stamp" ELSE "save"
        /\ \A s \in Callers : s # t => job'[s] = job[s]
    <2>1. job' = [job EXCEPT ![t].pend = job[t].pend \ {h},
                             ![t].step = IF job[t].pend \ {h} = {} THEN "stamp" ELSE @]
      BY DEF Save
    <2>2. job'[t] = [job[t] EXCEPT !.pend = job[t].pend \ {h},
                      !.step = IF job[t].pend \ {h} = {} THEN "stamp" ELSE job[t].step]
      BY <2>1 DEF ListInv, ListTypeOK
    <2> QED BY <1>0, <2>1, <2>2 DEF Job, ListInv, ListTypeOK
  <1>3. BehindNext(u) /\ AtMost(t)'
    BY <1>0, <1>2 DEF Behind, BehindNext, AtMost
  <1>4. OrderedNext(u)
    BY <1>0, <1>1, Numbers DEF Alone, OrderedUrl, OrderedNext
  <1>5. Alone(t)'
    BY <1>0, <1>1, <1>2 DEF Alone, Halves
  <1> QED BY <1>0, <1>1, <1>2, <1>3, <1>4, <1>5, CallStep

LEMMA FailTag ==
    ASSUME ListInv, TagInv, NEW t \in Callers,
           \/ \E h \in Halves, landed \in SUBSET Halves : SaveFails(t, h, landed)
           \/ StampFails(t)
    PROVE  TagInv'
  <1> DEFINE u == job[t].url
  <1>0. /\ job[t].step \in {"save", "stamp"} /\ u \in Urls /\ Throw(t)
        /\ Alone(t) /\ Behind(u) /\ OrderedUrl(u)
        /\ UNCHANGED <<source, etag, overlap>>
    BY Numbers DEF SaveFails, StampFails, TagInv, stored
  <1>1. /\ job'[t] = NoJob /\ NoJob.step = "idle"
        /\ \A s \in Callers : s # t => job'[s] = job[s]
    BY <1>0 DEF Throw, ListInv, ListTypeOK, NoJob, Call
  <1>2. /\ listBloom'[u] # listBloom[u] =>
             job[t].step = "save" /\ listBloom'[u] = job[t].tag
        /\ listRules'[u] # listRules[u] =>
             job[t].step = "save" /\ listRules'[u] = job[t].tag
        /\ \A x \in Urls : x # u => /\ listBloom'[x] = listBloom[x]
                                    /\ listRules'[x] = listRules[x]
    BY <1>0 DEF SaveFails, StampFails, stored, Saved, ListInv, ListTypeOK
  <1>3. BehindNext(u) /\ AtMost(t)' /\ Alone(t)'
    BY <1>0, <1>1 DEF Behind, BehindNext, AtMost, Alone
  <1>4. OrderedNext(u)
    BY <1>0, <1>2, Numbers DEF Alone, OrderedUrl, OrderedNext
  <1> QED BY <1>0, <1>1, <1>2, <1>3, <1>4, CallStep

(* The stamp of a call that was alone stores an ETag that is in the tables *)
(* as well, or the one that was there.                                     *)
LEMMA StampTag ==
    ASSUME ListInv, TagInv, NEW t \in Callers, Stamp(t)
    PROVE  TagInv'
  <1> DEFINE u == job[t].url
  <1>0. /\ job[t].step = "stamp" /\ u \in Urls
        /\ Alone(t) /\ AtMost(t) /\ Behind(u) /\ OrderedUrl(u) /\ Sound(t)
        /\ UNCHANGED <<source, listBloom, listRules>>
    BY Numbers DEF Stamp, TagInv, ListInv, JobsAreSound
  <1>1. /\ job'[t] = NoJob /\ NoJob.step = "idle"
        /\ \A s \in Callers : s # t => job'[s] = job[s]
    BY DEF Stamp, ListInv, ListTypeOK, NoJob, Call
  <1>2. /\ etag'[u] = IF job[t].tag # 0 THEN job[t].tag ELSE etag[u]
        /\ overlap'[u] = IF overlap[u] # "now" /\ job[t].answer \in {"ok", "cut"}
                         THEN "none" ELSE overlap[u]
        /\ \A x \in Urls : x # u => etag'[x] = etag[x] /\ overlap'[x] = overlap[x]
    BY <1>0 DEF Stamp, ListInv, ListTypeOK
  <1>3. BehindNext(u) /\ AtMost(t)' /\ Alone(t)'
    BY <1>0, <1>1, <1>2 DEF Behind, BehindNext, AtMost, Alone
  <1>4. OrderedNext(u)
    <2> SUFFICES ASSUME overlap'[u] = "none"
                 PROVE  listBloom[u] >= etag'[u] /\ listRules[u] >= etag'[u]
      BY <1>0 DEF OrderedNext
    <2>0. overlap[u] # "now"  BY <1>2
    <2>1. CASE listBloom[u] = job[t].tag /\ listRules[u] = job[t].tag
      <3>1. CASE job[t].tag # 0  BY <1>2, <2>1, <3>1, Numbers
      <3>2. CASE job[t].tag = 0
        <4>1. job[t].answer \notin {"ok", "cut"}
          BY <1>0, <2>1, <3>2 DEF Sound, Compiled
        <4>2. overlap[u] = "none"  BY <1>2, <4>1
        <4> QED BY <1>0, <1>2, <3>2, <4>2 DEF OrderedUrl
      <3> QED BY <3>1, <3>2
    <2>2. CASE job[t].answer \in {"304", "failed"} /\ job[t].tag = etag[u]
      <3>1. overlap[u] = "none"  BY <1>2, <2>2
      <3> QED BY <1>0, <1>2, <2>2, <3>1 DEF OrderedUrl
    <2> QED BY <1>0, <2>0, <2>1, <2>2 DEF Alone
  <1> QED BY <1>0, <1>1, <1>2, <1>3, <1>4, CallStep

LEMMA RestartTag == ListInv /\ TagInv /\ ListRestart => TagInv'
  <1> SUFFICES ASSUME ListInv, TagInv, ListRestart PROVE TagInv'
    OBVIOUS
  <1>1. /\ UNCHANGED <<source, stored, overlap>>
        /\ \A t \in Callers : job'[t] = NoJob
        /\ NoJob.step = "idle" /\ NoJob.url = NoUrl
    BY DEF ListRestart, NoJob, Call
  <1> QED BY <1>1 DEF TagInv, Behind, OrderedUrl, AtMost, Alone, Noticed, IdleHasNoUrl, stored

LEMMA NextTag == ListInv /\ TagInv /\ [ListNext]_listVars => TagInv'
  <1> SUFFICES ASSUME ListInv, TagInv, [ListNext]_listVars PROVE TagInv'
    OBVIOUS
  <1>1. ASSUME NEW t \in Callers, NEW u \in Urls, CronBegin(t, u) \/ DemandBegin(t, u)
        PROVE  TagInv'
    BY <1>1, BeginTag DEF CronBegin, DemandBegin
  <1>2. ASSUME NEW t \in Callers, Sync(t) PROVE TagInv'
    BY <1>2, FetchTag, SaveTag, FailTag, StampTag DEF Sync
  <1>3. CASE UNCHANGED listVars
    BY <1>3 DEF listVars, stored, TagInv, Behind, OrderedUrl, AtMost, Alone, Noticed,
                IdleHasNoUrl
  <1> QED BY <1>1, <1>2, <1>3, WorldTag, RestartTag DEF ListNext

(* With any number of calls, through failures and restarts, no URL stores  *)
(* an ETag newer than its filter or its rules unless calls for it have     *)
(* overlapped since one alone compiled it: a 304 is then the truth.        *)
THEOREM TagsAreNotAhead == ListSpec => []TagNotAhead
  <1>1. TagInv => TagNotAhead
    BY DEF TagInv, OrderedUrl, TagNotAhead
  <1> QED BY <1>1, ListInvariance, InitTag, NextTag, PTL DEF ListSpec
=============================================================================
