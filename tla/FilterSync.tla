---------------------------- MODULE FilterSync ----------------------------
(***************************************************************************)
(* How the filter of a profile follows its list subscriptions: the list    *)
(* API (api/profiles/lists.ts), the bodies of the syncs behind the mutex   *)
(* (utils/sync/orchestrator.ts), the combiner (utils/sync/combine.ts) and  *)
(* the cron pass, which does not take the mutex.                           *)
(*                                                                         *)
(* The mutex is SyncMutex, by INSTANCE. A call of syncGlobalList is two    *)
(* steps here, the request and its outcome; GlobalList takes it apart. A   *)
(* list in a profile's filter is a pair <<URL, version compiled>>.         *)
(***************************************************************************)
EXTENDS Naturals, FiniteSets

CONSTANTS Tasks,        \* concurrent API requests with their background syncs
          Crons,        \* concurrent cron passes
          Profiles, Urls,
          Subs,         \* rows of the table lists: their ids, never reused
          Owner, UrlOf, \* the profile and the URL of each row
          Start,        \* rows present, enabled and synchronised at the start
          Edits,        \* API operations in use: see AllEdits
          Oversized,    \* versions longer than MAX_LIST_BYTES
          None,
          MaxVersion, MaxFaults, \* bounds
          Plans         \* bounds: the edits, upstream events and faults of a
                        \* behaviour, the tasks and cron passes it uses, and
                        \* whether an operation may start during another one
                        \* (faults are for the behaviours in which it may)

AllEdits == {"add", "bulk", "toggle", "delete", "sync"}
Tables == {"bloom", "rules"}
Kinds == {"all", "single", "rebuild"}

ASSUME RowsAssumption == /\ Subs \subseteq Nat
                         /\ Owner \in [Subs -> Profiles]
                         /\ UrlOf \in [Subs -> Urls]
                         /\ Start \subseteq Subs
ASSUME EditsAssumption == Edits \subseteq AllEdits
ASSUME NoneAssumption == None \notin Tasks \cup Crons \cup Subs \cup Urls
ASSUME TasksAssumption == Tasks \cap Crons = {}
Budgets == [edits : Nat, news : Nat, faults : 0..MaxFaults, overlap : BOOLEAN,
            crew : SUBSET (Tasks \cup Crons)]
ASSUME BoundsAssumption == /\ MaxVersion \in Nat \ {0}
                           /\ MaxFaults \in Nat
                           /\ Plans \subseteq Budgets
                           /\ \A plan \in Plans : plan.overlap \/ plan.faults = 0

VARIABLES pc, req, waitOn, inFlight, epoch,  \* the mutex, see SyncMutex
          source, tag, filter, due,          \* upstream and global tables, see GlobalList
          sub,        \* each row: not yet there, enabled, disabled, deleted
          active,     \* profile_blooms and profile_adguard_rules: what is merged in
          stamped,    \* whether profiles.list_updated_at is set
          ask,        \* the sync a request handler is about to ask for
          run,        \* the bodies under way
          budget,     \* what is left of the plan of this behaviour
          synced      \* history: some sync or cron pass has stamped the profile

M == INSTANCE SyncMutex WITH Lists <- Subs, MaxRestarts <- MaxFaults

mutex == <<pc, req, waitOn, inFlight, epoch>>
upstream == <<source, tag, filter, due>>
compiled == <<active, stamped, synced>>
vars == <<mutex, upstream, sub, compiled, ask, run, budget>>

Rows(p) == {l \in Subs : Owner[l] = p}
Active(p) == {l \in Rows(p) : sub[l] = "on"}
First(ls) == CHOOSE l \in ls : \A k \in ls : l <= k

(* What the tables hold now for some rows: the lists that have a filter.   *)
Merged(ls) == {<<UrlOf[l], filter[UrlOf[l]]>> :
                 l \in {k \in ls : filter[UrlOf[k]] # 0}}

(* A body: where it is, for whom, the rows it read and still has to deal   *)
(* with, what it has merged for each table, which tables it still has to   *)
(* read for the first of these rows or, after the last, to write, the      *)
(* timestamp it read, the profiles a cron pass has yet to visit.           *)
Nothing == [h \in Tables |-> {}]
Idle == [at |-> "idle", kind |-> "none", profile |-> None, todo |-> {},
         url |-> None, tag |-> 0, got |-> Nothing, put |-> {}, many |-> FALSE,
         prior |-> FALSE, rest |-> {}]

Init == /\ M!Init
        /\ source = [u \in Urls |-> 1]
        /\ filter = [u \in Urls |-> IF \E l \in Start : UrlOf[l] = u THEN 1 ELSE 0]
        /\ tag = filter
        /\ due = {u \in Urls : filter[u] = 0}
        /\ sub = [l \in Subs |-> IF l \in Start THEN "on" ELSE "none"]
        /\ active = [h \in Tables |-> [p \in Profiles |-> Merged(Active(p))]]
        /\ stamped = [p \in Profiles |-> Rows(p) \cap Start # {}]
        /\ synced = stamped
        /\ ask = [t \in Tasks |-> M!NoRequest]
        /\ run = [t \in Tasks \cup Crons |-> Idle]
        /\ budget \in Plans

Fault == budget.faults > 0 /\ budget' = [budget EXCEPT !.faults = @ - 1]

News == budget.news > 0 /\ budget' = [budget EXCEPT !.news = @ - 1]

SourceChanges(u) == /\ source[u] < MaxVersion
                    /\ source' = [source EXCEPT ![u] = @ + 1]
                    /\ News
                    /\ UNCHANGED <<mutex, tag, filter, due, sub, compiled,
                                   ask, run>>

IntervalEnds(u) == /\ u \notin due
                   /\ due' = due \cup {u}
                   /\ News
                   /\ UNCHANGED <<mutex, source, tag, filter, sub, compiled,
                                  ask, run>>

-----------------------------------------------------------------------------
(* The list API. A handler writes its row and then, its response sent,     *)
(* asks for the sync that suits the change.                                *)
Free(t) == pc[t] = "idle" /\ ask[t] = M!NoRequest

Asking(t, kind, p, l) ==
    ask' = [ask EXCEPT ![t] = [kind |-> kind, profile |-> p, list |-> l]]

(* Without overlap the next operation starts when all is at rest.          *)
AtRest == \A t \in Tasks \cup Crons : run[t] = Idle /\ (t \in Tasks => Free(t))
MayStart(t) == t \in budget.crew /\ (budget.overlap \/ AtRest)

Edited(t) == /\ MayStart(t) /\ budget.edits > 0
             /\ budget' = [budget EXCEPT !.edits = @ - 1]
             /\ UNCHANGED <<mutex, upstream, compiled, run>>

AddList(t, l) == /\ "add" \in Edits /\ Free(t) /\ sub[l] = "none"
                 /\ sub' = [sub EXCEPT ![l] = "on"]
                 /\ Asking(t, "single", Owner[l], l)
                 /\ Edited(t)

(* Several rows at once, enabled (on) or not: the bulk form of the API.    *)
AddBulk(t, p, ls, on) == /\ "bulk" \in Edits /\ Free(t)
                         /\ ls # {} /\ \A l \in ls : sub[l] = "none"
                         /\ sub' = [l \in Subs |-> IF l \in on THEN "on"
                                                   ELSE IF l \in ls THEN "off" ELSE sub[l]]
                         /\ Asking(t, "rebuild", p, None)
                         /\ Edited(t)

Present(l) == sub[l] \in {"on", "off"}

SetEnabled(t, l, s) == /\ "toggle" \in Edits /\ Free(t) /\ Present(l)
                       /\ sub' = [sub EXCEPT ![l] = s]
                       /\ Asking(t, "rebuild", Owner[l], None)
                       /\ Edited(t)

(* Mutant: deleting a row leaves the profile's filter for cron to rebuild. *)
DeleteListOnly(t, l) == /\ "delete" \in Edits /\ Free(t)
                        /\ sub' = [sub EXCEPT ![l] = IF Present(l) THEN "gone" ELSE @]
                        /\ Edited(t) /\ UNCHANGED ask

(* The rebuild is asked for whether or not there was such a row.           *)
DeleteList(t, l) == /\ "delete" \in Edits /\ Free(t)
                    /\ sub' = [sub EXCEPT ![l] = IF Present(l) THEN "gone" ELSE @]
                    /\ Asking(t, "rebuild", Owner[l], None)
                    /\ Edited(t)

SyncAll(t, p) == /\ "sync" \in Edits /\ Free(t)
                 /\ Asking(t, "all", p, None)
                 /\ Edited(t) /\ UNCHANGED sub

SyncSingle(t, l) == /\ "sync" \in Edits /\ Free(t) /\ Present(l)
                    /\ Asking(t, "single", Owner[l], l)
                    /\ Edited(t) /\ UNCHANGED sub

Api(t) == \/ \E l \in Subs : \/ AddList(t, l) \/ DeleteList(t, l) \/ SyncSingle(t, l)
                             \/ (\E s \in {"on", "off"} : SetEnabled(t, l, s))
          \/ \E p \in Profiles : SyncAll(t, p)
          \/ \E p \in Profiles : \E ls \in SUBSET Rows(p) : \E on \in SUBSET ls :
                AddBulk(t, p, ls, on)

-----------------------------------------------------------------------------
(* The entry points: the mutex decides whether a body starts.              *)
(* Mutant: the rebuild entry point runs the full sync's body.              *)
BodyFull(r) == [Idle EXCEPT !.at = "begin", !.profile = r.profile,
                  !.kind = IF r.kind = "rebuild" THEN "all" ELSE r.kind]
Body(r) == [Idle EXCEPT !.at = "begin", !.kind = r.kind, !.profile = r.profile]

Call(t) ==
    LET r == ask[t] IN
    /\ r # M!NoRequest
    /\ ask' = [ask EXCEPT ![t] = M!NoRequest]
    /\ \/ M!StartAtOnce(t, r) /\ run' = [run EXCEPT ![t] = Body(r)]
       \/ (M!JoinAtOnce(t, r) \/ M!WaitForOther(t, r)) /\ UNCHANGED run
    /\ UNCHANGED <<upstream, sub, compiled, budget>>

Wake(t) ==
    /\ \/ M!WakeAndStart(t) /\ run' = [run EXCEPT ![t] = Body(req[t])]
       \/ M!WakeAndJoin(t) /\ UNCHANGED run
    /\ UNCHANGED <<upstream, sub, compiled, ask, budget>>

(* Mutant: the body ends without its finally block.                        *)
EndSilently(t) == /\ t \in Tasks /\ run[t].at = "done"
                  /\ pc' = [pc EXCEPT ![t] = "idle"]
                  /\ run' = [run EXCEPT ![t] = Idle]
                  /\ UNCHANGED <<req, waitOn, inFlight, epoch, upstream, sub,
                                 compiled, ask, budget>>

End(t) == /\ t \in Tasks /\ run[t].at = "done"
          /\ M!Finish(t)
          /\ run' = [run EXCEPT ![t] = Idle]
          /\ UNCHANGED <<upstream, sub, compiled, ask, budget>>

-----------------------------------------------------------------------------
(* The bodies, up to the combiner. Only what a step changes is listed.     *)
At(t, place) == run[t].at = place
Goto(t, place) == run' = [run EXCEPT ![t].at = place]
Reads == UNCHANGED <<mutex, upstream, sub, compiled, ask, budget>>

(* Full sync: the enabled lists; without any, wipe the Bloom filter.       *)
BeginAll(t) ==
    LET ls == Active(run[t].profile) IN
    /\ At(t, "begin") /\ run[t].kind = "all"
    /\ run' = [run EXCEPT ![t].at = IF ls = {} THEN "wipe" ELSE "probe",
                          ![t].todo = ls]
    /\ Reads

(* Single sync: its row, if it is still there; "many" remembers whether it *)
(* was enabled.                                                            *)
BeginSingle(t) ==
    LET l == req[t].list IN
    /\ At(t, "begin") /\ run[t].kind = "single"
    /\ IF Present(l)
         THEN run' = [run EXCEPT ![t].at = "probe", ![t].todo = {l},
                                 ![t].many = sub[l] = "on"]
         ELSE Goto(t, "done")
    /\ Reads

(* Rebuild: the timestamp first, then the enabled lists.                   *)
BeginRebuild(t) == /\ At(t, "begin") /\ run[t].kind = "rebuild"
                   /\ run' = [run EXCEPT ![t].at = "lists",
                                         ![t].prior = stamped[run[t].profile]]
                   /\ Reads

ReadLists(t) == /\ At(t, "lists")
                /\ run' = [run EXCEPT ![t].at = "probe",
                                      ![t].todo = Active(run[t].profile)]
                /\ Reads

(* The full and the single sync fetch every list that has no filter yet,   *)
(* one after the other; the rebuild fetches the first such list only.      *)
Missing(t) == {l \in run[t].todo : filter[UrlOf[l]] = 0}

Probe(t) ==
    /\ At(t, "probe") /\ Missing(t) # {}
    /\ LET l == First(Missing(t)) IN
       run' = [run EXCEPT ![t].at = "fetch", ![t].url = UrlOf[l],
                          ![t].tag = tag[UrlOf[l]],
                          ![t].todo = IF run[t].kind = "rebuild" THEN {}
                                      ELSE @ \ {k \in Subs : k <= l}]
    /\ Reads

(* A probe that fails in a rebuild counts as a filter found.               *)
ProbeFails(t, l) == /\ At(t, "probe") /\ run[t].kind = "rebuild" /\ l \in Missing(t)
                    /\ Fault
                    /\ run' = [run EXCEPT ![t].todo = @ \ {l}]
                    /\ UNCHANGED <<mutex, upstream, sub, compiled, ask>>

ProbeDone(t) ==
    /\ At(t, "probe") /\ Missing(t) = {}
    /\ Goto(t, CASE run[t].kind = "all"     -> "touch"
                 [] run[t].kind = "single"  -> IF run[t].many THEN "touch" ELSE "done"
                 [] run[t].kind = "rebuild" -> "combine")
    /\ Reads

(* The cron pass: a URL that is due and enabled somewhere.                 *)
CronPass(c, u) == /\ c \in Crons /\ At(c, "idle") /\ MayStart(c)
                  /\ u \in due /\ \E l \in Subs : UrlOf[l] = u /\ sub[l] = "on"
                  /\ run' = [run EXCEPT ![c] = [Idle EXCEPT !.at = "fetch",
                                  !.kind = "cron", !.url = u, !.tag = tag[u]]]
                  /\ Reads

(* The outcome of syncGlobalList. A cron pass goes on to the subscribers   *)
(* only after a new version that was read to its end.                      *)
Then(t, fresh) == IF run[t].kind # "cron" THEN "probe"
                  ELSE IF fresh THEN "subscribers" ELSE "idle"
AfterFetch(t, fresh) ==
    run' = [run EXCEPT ![t] = IF Then(t, fresh) = "idle" THEN Idle
              ELSE [@ EXCEPT !.at = Then(t, fresh), !.tag = 0]]

NotModified(t) == /\ At(t, "fetch") /\ run[t].tag = source[run[t].url]
                  /\ due' = due \ {run[t].url}
                  /\ tag' = [tag EXCEPT ![run[t].url] = run[t].tag]
                  /\ AfterFetch(t, FALSE)
                  /\ UNCHANGED <<mutex, source, filter, sub, compiled, ask, budget>>

Fetched(t) == LET u == run[t].url IN
              /\ At(t, "fetch") /\ run[t].tag # source[u]
              /\ filter' = [filter EXCEPT ![u] = source[u]]
              /\ tag' = [tag EXCEPT ![u] = source[u]]
              /\ due' = due \ {u}
              /\ AfterFetch(t, source[u] \notin Oversized)
              /\ UNCHANGED <<mutex, source, sub, compiled, ask, budget>>

(* Any failure, or a version announced as longer than the limit.           *)
Refused(t) == \/ Fault
              \/ /\ source[run[t].url] \in Oversized \ {run[t].tag}
                 /\ UNCHANGED budget

(* The stamp of a failure writes back the ETag that was read.              *)
FetchFails(t) == /\ At(t, "fetch") /\ Refused(t)
                 /\ due' = due \ {run[t].url}
                 /\ tag' = [tag EXCEPT ![run[t].url] =
                              IF run[t].tag # 0 THEN run[t].tag ELSE @]
                 /\ AfterFetch(t, FALSE)
                 /\ UNCHANGED <<mutex, source, filter, sub, compiled, ask>>

Subscribers(u) == {Owner[l] : l \in {k \in Subs : UrlOf[k] = u /\ sub[k] = "on"}}

ReadSubscribers(c) == /\ At(c, "subscribers")
                      /\ run' = [run EXCEPT ![c].at = "next", ![c].url = None,
                                            ![c].rest = Subscribers(run[c].url)]
                      /\ Reads

NextSubscriber(c, p) == /\ At(c, "next") /\ p \in run[c].rest
                        /\ run' = [run EXCEPT ![c].at = "combine", ![c].profile = p,
                                              ![c].rest = @ \ {p}]
                        /\ Reads

CronDone(c) == /\ At(c, "next") /\ run[c].rest = {}
               /\ run' = [run EXCEPT ![c] = Idle]
               /\ Reads

-----------------------------------------------------------------------------
(* updateListUpdatedAt, by a sync (history: it counts as one) or by the    *)
(* rebuild, which puts back what it read.                                  *)
Touched(t) == LET p == run[t].profile IN
              /\ stamped' = [stamped EXCEPT ![p] = TRUE]
              /\ synced' = [synced EXCEPT ![p] = @ \/ run[t].kind # "rebuild"]
              /\ UNCHANGED <<mutex, upstream, sub, active, ask, budget>>

Wipe(t) == /\ At(t, "wipe") /\ Goto(t, "stamp")
           /\ active' = [active EXCEPT !["bloom"][run[t].profile] = {}]
           /\ UNCHANGED <<mutex, upstream, sub, stamped, synced, ask, budget>>

Touch(t) == At(t, "touch") /\ Goto(t, "combine") /\ Touched(t)
TouchLast(t) == run[t].at \in {"stamp", "last"} /\ Goto(t, "done") /\ Touched(t)

(* combineAndPromote: the enabled lists are read again.                    *)
Takes(t, ls) == [run[t] EXCEPT !.at = IF ls = {} THEN "put" ELSE "load",
                               !.todo = ls, !.many = Cardinality(ls) > 1,
                               !.put = Tables]

(* Mutant: the merged filter outlives the call and is added to.            *)
CombineStale(t) == /\ At(t, "combine")
                   /\ run' = [run EXCEPT ![t] = Takes(t, Active(run[t].profile))]
                   /\ Reads

Combine(t) == /\ At(t, "combine")
              /\ run' = [run EXCEPT ![t] = [Takes(t, Active(run[t].profile))
                                             EXCEPT !.got = Nothing]]
              /\ Reads

(* Two reads or writes, of the filter and of the rules: side by side for   *)
(* one list, the filter's first for several.                               *)
InTurn(t, h) == /\ h \in run[t].put
                /\ (run[t].many /\ h = "rules") => "bloom" \notin run[t].put

(* What the tables have for the first of the lists is merged in; after it  *)
(* the next list is read, and after all of them the tables are written.    *)
NextList(x) == LET left == x.todo \ {First(x.todo)} IN
               [x EXCEPT !.todo = left, !.put = Tables,
                         !.at = IF left = {} THEN "put" ELSE "load"]

Load(t, h) ==
    LET x == [run[t] EXCEPT !.put = @ \ {h},
                            !.got[h] = @ \cup Merged({First(run[t].todo)})]
    IN
    /\ At(t, "load") /\ InTurn(t, h)
    /\ run' = [run EXCEPT ![t] = IF x.put = {} THEN NextList(x) ELSE x]
    /\ Reads

(* With several lists, one that cannot be read is left out of the merge,   *)
(* of the rules alone if its filter was read already.                      *)
LoadFails(t) == /\ At(t, "load") /\ run[t].many /\ Fault
                /\ run' = [run EXCEPT ![t] = NextList(@)]
                /\ UNCHANGED <<mutex, upstream, sub, compiled, ask>>

Put(t, h) ==
    /\ At(t, "put") /\ InTurn(t, h)
    /\ active' = [active EXCEPT ![h][run[t].profile] = run[t].got[h]]
    /\ run' = [run EXCEPT ![t].put = @ \ {h}]
    /\ UNCHANGED <<mutex, upstream, sub, stamped, synced, ask, budget>>

(* Mutant: the rebuild forgets to put the timestamp back.                  *)
AfterCombineStamped(t) == IF run[t].kind = "cron" THEN "next" ELSE "done"
AfterCombine(t) == CASE run[t].kind = "cron"    -> "next"
                     [] run[t].kind = "rebuild" -> "restore"
                     [] OTHER                   -> "done"

PutDone(t) == /\ At(t, "put") /\ run[t].put = {}
              /\ Goto(t, AfterCombine(t))
              /\ Touched(t)

Restore(t) == /\ At(t, "restore") /\ Goto(t, "done")
              /\ stamped' = [stamped EXCEPT ![run[t].profile] = run[t].prior]
              /\ UNCHANGED <<mutex, upstream, sub, active, synced, ask, budget>>

(* A database call throws, and the nearest catch goes on: the full sync    *)
(* stamps all the same, the rebuild survives a failed fetch, the cron pass *)
(* a failed profile; otherwise the body is over. Where a rebuild probes    *)
(* for filters and where many lists are loaded, errors stay local.         *)
MayThrow(t) == \/ run[t].at \in {"begin", "lists", "fetch", "subscribers", "wipe",
                                 "stamp", "touch", "last", "combine", "put", "restore"}
               \/ At(t, "probe") /\ run[t].kind # "rebuild"
               \/ At(t, "load") /\ ~run[t].many

Caught(t) ==
    CASE run[t].kind = "cron" ->
           IF run[t].at \in {"fetch", "subscribers"} THEN "idle" ELSE "next"
      [] run[t].kind = "rebuild" /\ At(t, "fetch") -> "probe"
      [] run[t].kind = "all" /\ ~At(t, "last")     -> "last"
      [] OTHER                                     -> "done"

Throws(t) ==
    /\ MayThrow(t) /\ Fault
    /\ run' = [run EXCEPT ![t] = IF Caught(t) = "idle" THEN Idle
                 ELSE [@ EXCEPT !.at = Caught(t), !.todo = {}, !.put = {}]]
    /\ UNCHANGED <<mutex, upstream, sub, compiled, ask>>

(* The process or isolate ends.                                            *)
Restart == /\ Fault /\ M!Restart
           /\ ask' = [t \in Tasks |-> M!NoRequest]
           /\ run' = [t \in Tasks \cup Crons |-> Idle]
           /\ UNCHANGED <<upstream, sub, compiled>>

-----------------------------------------------------------------------------
Step(t) == \/ BeginAll(t) \/ BeginSingle(t) \/ BeginRebuild(t) \/ ReadLists(t)
           \/ Probe(t) \/ (\E l \in Subs : ProbeFails(t, l)) \/ ProbeDone(t)
           \/ NotModified(t) \/ Fetched(t) \/ FetchFails(t)
           \/ ReadSubscribers(t) \/ (\E p \in Profiles : NextSubscriber(t, p))
           \/ CronDone(t)
           \/ Wipe(t) \/ Touch(t) \/ TouchLast(t)
           \/ Combine(t) \/ LoadFails(t)
           \/ (\E h \in Tables : Load(t, h) \/ Put(t, h)) \/ PutDone(t)
           \/ Restore(t) \/ Throws(t) \/ End(t)

Next == \/ \E u \in Urls : SourceChanges(u) \/ IntervalEnds(u)
        \/ \E t \in Tasks : Api(t) \/ Call(t) \/ Wake(t)
        \/ \E c \in Crons, u \in Urls : CronPass(c, u)
        \/ \E t \in Tasks \cup Crons : Step(t)
        \/ Restart

Fairness == /\ \A t \in Tasks : WF_vars(Call(t) \/ Wake(t))
            /\ \A t \in Tasks \cup Crons : WF_vars(Step(t))

Spec == Init /\ [][Next]_vars
FairSpec == Spec /\ Fairness

-----------------------------------------------------------------------------
Places == {"begin", "lists", "probe", "fetch", "subscribers", "next", "wipe",
           "stamp", "touch", "combine", "load", "put", "restore", "last", "done"}
Merges == SUBSET (Urls \X (1..MaxVersion))
Bodies == [at : Places \cup {"idle"}, kind : Kinds \cup {"cron", "none"},
           profile : Profiles \cup {None}, todo : SUBSET Subs,
           url : Urls \cup {None}, tag : 0..MaxVersion, got : [Tables -> Merges],
           put : SUBSET Tables, many : BOOLEAN, prior : BOOLEAN,
           rest : SUBSET Profiles]

(* The types; a body runs exactly where the mutex says that one runs, for  *)
(* the profile and of the kind of the request the mutex recorded.          *)
TypeOK == /\ M!TypeOK
          /\ source \in [Urls -> 1..MaxVersion]
          /\ tag \in [Urls -> 0..MaxVersion] /\ filter \in [Urls -> 0..MaxVersion]
          /\ due \subseteq Urls
          /\ sub \in [Subs -> {"none", "on", "off", "gone"}]
          /\ active \in [Tables -> [Profiles -> Merges]]
          /\ stamped \in [Profiles -> BOOLEAN] /\ synced \in [Profiles -> BOOLEAN]
          /\ ask \in [Tasks -> M!Asks \cup {M!NoRequest}]
          /\ run \in [Tasks \cup Crons -> Bodies]
          /\ budget \in Budgets
          /\ \A t \in Tasks :
                IF pc[t] = "running"
                  THEN /\ run[t].at # "idle" /\ run[t].kind = req[t].kind
                       /\ run[t].profile = req[t].profile
                  ELSE run[t] = Idle

(* With its bodies as they are, the system still uses the mutex the way    *)
(* SyncMutex says: every step of it is a step of the mutex or leaves the   *)
(* mutex alone, and no body ends without its finally block.                *)
MutexSpec == M!Spec

(* No profile gets what it never subscribed to: a profile's filter and its *)
(* rules hold only lists of which the profile had a row at some time, in a *)
(* version that was compiled, whatever syncs and cron passes overlap and   *)
(* whichever of their steps fail.                                          *)
OwnListsOnly ==
    \A h \in Tables, p \in Profiles : \A m \in active[h][p] :
        /\ \E l \in Rows(p) : UrlOf[l] = m[1] /\ sub[l] # "none"
        /\ m[2] <= filter[m[1]]

Quiet == AtRest /\ ~budget.overlap

(* A version that was cut at the limit is saved but not merged into its    *)
(* subscribers; and the first version of a list reaches those rows only    *)
(* whose sync fetched it: cron finds nothing new for any other row.        *)
Cut(u) == filter[u] \in Oversized
LateShared(u) == /\ \A l \in Start : UrlOf[l] # u
                 /\ \E k, l \in {r \in Subs : UrlOf[r] = u /\ sub[r] # "none"} : k # l

Fits(h, p) ==
    /\ \A m \in active[h][p] : /\ \E l \in Active(p) : UrlOf[l] = m[1]
                               /\ m[2] = filter[m[1]] \/ Cut(m[1])
    /\ \A m \in Merged(Active(p)) : m \in active[h][p] \/ Cut(m[1]) \/ LateShared(m[1])

(* One operation at a time and no failure: once nothing is under way, each *)
(* profile's filter and rules are what its enabled lists compile to now,   *)
(* but for versions that were cut and lists it has yet to get.             *)
Converged == Quiet => \A h \in Tables, p \in Profiles : Fits(h, p)

(* A rebuild is not a sync: a profile counts as synchronised exactly when  *)
(* a sync or a cron pass has stamped it, though a rebuild stamps it too on *)
(* its way and puts the old timestamp back.                                *)
RebuildIsNotASync == Quiet => stamped = synced

(* Every sync a handler asks for comes to an end: its own body ends or the *)
(* body it joined does.                                                    *)
Served == \A t \in Tasks : ask[t] # M!NoRequest ~> Free(t)
=============================================================================
