---------------------------- MODULE SyncMutex ----------------------------
(***************************************************************************)
(* The per-profile synchronisation "mutex" of utils/sync/orchestrator.ts:  *)
(* the in-memory map inFlightSyncs and the way its four entry points       *)
(* consult it, wait on it, join it, overwrite it and delete from it.       *)
(*                                                                         *)
(* A task is one call of an entry point; it is recycled when the call has  *)
(* returned. What the body of a sync does to the database is the business  *)
(* of FilterSync; here a body is one running period that ends in Finish.   *)
(***************************************************************************)
EXTENDS Naturals

CONSTANTS Tasks,        \* concurrent calls of the entry points
          Profiles,     \* profile ids, the keys of inFlightSyncs
          Lists,        \* list ids, the argument of a "single" sync
          Kinds,        \* the entry points in use
          None,         \* no task, no request
          MaxRestarts   \* bound: restarts of the process

AllKinds == {"next", "all", "single", "rebuild"}

ASSUME KindsAssumption == Kinds \subseteq AllKinds
ASSUME NoneAssumption  == None \notin Tasks /\ None \notin Lists
ASSUME RestartsAssumption == MaxRestarts \in Nat

VARIABLES pc,         \* where each call is
          req,        \* what each call asked for: an InFlightSync without its promise
          waitOn,     \* the call whose promise a waiting or joined call awaits
          inFlight,   \* inFlightSyncs: the call whose entry the profile holds, or None
          epoch       \* how many times the process has restarted

vars == <<pc, req, waitOn, inFlight, epoch>>

(* The requests: only a "single" sync names a list.                        *)
Request == [kind : Kinds, profile : Profiles, list : Lists \cup {None}]
Asks == {r \in Request : (r.kind = "single") <=> (r.list # None)}
NoRequest == [kind |-> "none", profile |-> None, list |-> None]

Init == /\ pc = [t \in Tasks |-> "idle"]
        /\ req = [t \in Tasks |-> NoRequest]
        /\ waitOn = [t \in Tasks |-> None]
        /\ inFlight = [p \in Profiles |-> None]
        /\ epoch = 0

-----------------------------------------------------------------------------
(* Mutant: a rebuild is content with a full sync that is already running.  *)
JoinsRebuildToo(r, o) == /\ o # None
                         /\ r.kind # "next"
                         /\ \/ req[o].kind = "all"
                            \/ r.kind = "single" /\ req[o] = r

(* A request r returns the promise of o instead of running when o is a     *)
(* full sync, or is the sync of the very same list.                        *)
Joins(r, o) == /\ o # None
               /\ r.kind \in {"all", "single"}
               /\ \/ req[o].kind = "all"
                  \/ r.kind = "single" /\ req[o] = r

(* Run the body and put the entry in the map, over whatever is there.      *)
Begin(t, r) == /\ pc' = [pc EXCEPT ![t] = "running"]
               /\ req' = [req EXCEPT ![t] = r]
               /\ waitOn' = [waitOn EXCEPT ![t] = None]
               /\ inFlight' = [inFlight EXCEPT ![r.profile] = t]
               /\ UNCHANGED epoch

Join(t, r, o) == /\ pc' = [pc EXCEPT ![t] = "joined"]
                 /\ req' = [req EXCEPT ![t] = r]
                 /\ waitOn' = [waitOn EXCEPT ![t] = o]
                 /\ UNCHANGED <<inFlight, epoch>>

Wait(t, r, o) == /\ pc' = [pc EXCEPT ![t] = "waiting"]
                 /\ req' = [req EXCEPT ![t] = r]
                 /\ waitOn' = [waitOn EXCEPT ![t] = o]
                 /\ UNCHANGED <<inFlight, epoch>>

(* The four ways a call of an entry point can go at its first look at the  *)
(* map. The cron entry point ("next") gives way to any sync in flight.     *)
StartAtOnce(t, r) == /\ pc[t] = "idle"
                     /\ inFlight[r.profile] = None
                     /\ Begin(t, r)

GiveWay(t, r) == /\ pc[t] = "idle"
                 /\ r.kind = "next"
                 /\ inFlight[r.profile] # None
                 /\ UNCHANGED vars

JoinAtOnce(t, r) == /\ pc[t] = "idle"
                    /\ Joins(r, inFlight[r.profile])
                    /\ Join(t, r, inFlight[r.profile])

WaitForOther(t, r) == /\ pc[t] = "idle"
                      /\ r.kind # "next"
                      /\ inFlight[r.profile] # None
                      /\ ~Joins(r, inFlight[r.profile])
                      /\ Wait(t, r, inFlight[r.profile])

(* A call whose awaited promise has settled looks at the map once more. It *)
(* may join what it finds there; it never waits a second time, and starts  *)
(* over any entry it does not join. A rebuild does not look at all.        *)
WakeAndJoin(t) == /\ pc[t] = "woken"
                  /\ Joins(req[t], inFlight[req[t].profile])
                  /\ Join(t, req[t], inFlight[req[t].profile])

(* Mutant: a woken call that may not join waits again.                     *)
WakeAndStartWaitAgain(t) ==
    /\ pc[t] = "woken"
    /\ ~Joins(req[t], inFlight[req[t].profile])
    /\ IF inFlight[req[t].profile] = None
         THEN Begin(t, req[t])
         ELSE Wait(t, req[t], inFlight[req[t].profile])

WakeAndStart(t) == /\ pc[t] = "woken"
                   /\ ~Joins(req[t], inFlight[req[t].profile])
                   /\ Begin(t, req[t])

(* Mutant: no finally block; the entry outlives the call.                  *)
DeleteNothing(p) == UNCHANGED inFlight

(* inFlightSyncs.delete(profileId): whoever put the entry there.           *)
Delete(p) == inFlight' = [inFlight EXCEPT ![p] = None]

(* The body settles, either way: the finally block runs, and the promise   *)
(* settles for those who await it.                                         *)
Settled(t, u) == waitOn[u] = t /\ pc[u] \in {"waiting", "joined"}

Finish(t) ==
    /\ pc[t] = "running"
    /\ Delete(req[t].profile)
    /\ pc' = [u \in Tasks |-> IF u = t THEN "idle"
                              ELSE IF ~Settled(t, u) THEN pc[u]
                              ELSE IF pc[u] = "joined" THEN "idle" ELSE "woken"]
    /\ req' = [u \in Tasks |-> IF pc'[u] = "idle" THEN NoRequest ELSE req[u]]
    /\ waitOn' = [u \in Tasks |-> IF Settled(t, u) THEN None ELSE waitOn[u]]
    /\ UNCHANGED epoch

(* The process restarts: the map and every call in it are gone.            *)
Restart == /\ epoch < MaxRestarts
           /\ epoch' = epoch + 1
           /\ pc' = [t \in Tasks |-> "idle"]
           /\ req' = [t \in Tasks |-> NoRequest]
           /\ waitOn' = [t \in Tasks |-> None]
           /\ inFlight' = [p \in Profiles |-> None]

Next == \/ \E t \in Tasks, r \in Asks :
             \/ StartAtOnce(t, r)
             \/ GiveWay(t, r)
             \/ JoinAtOnce(t, r)
             \/ WaitForOther(t, r)
        \/ \E t \in Tasks : WakeAndJoin(t) \/ WakeAndStart(t) \/ Finish(t)
        \/ Restart

(* A settled promise runs its continuations, and a body ends: every fetch  *)
(* has a timeout and every database call returns.                          *)
Fairness == \A t \in Tasks : /\ WF_vars(WakeAndJoin(t) \/ WakeAndStart(t))
                             /\ WF_vars(Finish(t))

Spec == Init /\ [][Next]_vars
FairSpec == Spec /\ Fairness

-----------------------------------------------------------------------------
States == {"idle", "waiting", "woken", "joined", "running"}

(* The types of the variables.                                             *)
TypeOK == /\ pc \in [Tasks -> States]
          /\ req \in [Tasks -> Asks \cup {NoRequest}]
          /\ waitOn \in [Tasks -> Tasks \cup {None}]
          /\ inFlight \in [Profiles -> Tasks \cup {None}]
          /\ epoch \in 0..MaxRestarts
          /\ \A t \in Tasks : pc[t] # "idle" => req[t] \in Asks

(* An entry of inFlightSyncs belongs to a call that is still running for   *)
(* that profile: the finally blocks leave no dead entry, which would make  *)
(* the cron pass skip the profile for as long as the process lives.        *)
EntryIsAlive ==
    \A p \in Profiles :
        inFlight[p] # None => /\ pc[inFlight[p]] = "running"
                              /\ req[inFlight[p]].profile = p

(* Whoever waits on or has joined a promise does so on a sync of its own   *)
(* profile that is still running, though another call may have overwritten *)
(* or deleted that sync's entry meanwhile: no promise is awaited that has  *)
(* no one left to settle it.                                               *)
AwaitedIsRunning ==
    \A t \in Tasks :
        pc[t] \in {"waiting", "joined"} =>
            /\ waitOn[t] \in Tasks
            /\ pc[waitOn[t]] = "running"
            /\ req[waitOn[t]].profile = req[t].profile

(* A call returns because its own body ran, or because the body it joined, *)
(* a full sync or the sync of the same list, has ended: a rebuild, which   *)
(* reads the lists anew, is never answered by another call's work.         *)
AnsweredByWork ==
    \A t \in Tasks :
        pc[t] # "idle" /\ pc'[t] = "idle" /\ epoch' = epoch =>
            \/ pc[t] = "running"
            \/ /\ pc[t] = "joined"
               /\ req[t].kind \in {"all", "single"}
               /\ pc[waitOn[t]] = "running" /\ pc'[waitOn[t]] = "idle"
               /\ req[waitOn[t]].kind = "all" \/ req[waitOn[t]] = req[t]

AnswersAreWork == [][AnsweredByWork]_vars

(* No call is lost: every call of an entry point returns, because a call   *)
(* waits at most once and the sync it waits on ends.                       *)
Settles == \A t \in Tasks : pc[t] # "idle" ~> pc[t] = "idle"
=============================================================================
