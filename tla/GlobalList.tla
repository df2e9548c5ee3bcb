---------------------------- MODULE GlobalList ----------------------------
(***************************************************************************)
(* syncGlobalList of utils/sync/singleListSync.ts: a list URL is fetched   *)
(* with a conditional request, compiled, saved in two tables (the Bloom    *)
(* filter and the AdGuard rules) and its metadata row is stamped. Every    *)
(* await is a step, and any number of calls may be under way for a URL.    *)
(*                                                                         *)
(* A version of an upstream list is a number; its ETag is that number, and *)
(* so are the filter and the rules compiled from it. 0 means none.         *)
(* Last-Modified goes where the ETag goes and is not told apart from it.   *)
(* Names that SyncMutex has too carry "List" here, as ListSyncProofs       *)
(* speaks of both.                                                         *)
(***************************************************************************)
EXTENDS Naturals

CONSTANTS Callers,     \* concurrent calls of syncGlobalList
          Urls,        \* canonical list URLs, all of them subscribed
          Oversized,   \* <<URL, version>> of a list longer than MAX_LIST_BYTES
          NoUrl,       \* no URL
          Changing,    \* bound: the URLs whose lists change upstream
          MaxVersion,  \* bound: versions an upstream list goes through
          MaxFaults    \* bound: failed calls and restarts

ASSUME BoundsAssumption == MaxVersion \in Nat \ {0} /\ MaxFaults \in Nat
ASSUME NoUrlAssumption == NoUrl \notin Urls

VARIABLES source,     \* the version each upstream server serves
          etag,       \* global_list_metadata.etag
          syncError,  \* global_list_metadata.sync_error; "never" without last_synced_at
          due,        \* URLs whose last_synced_at is missing or before the cutoff
          older,      \* the order of last_synced_at: x was stamped before y
          listBloom,  \* global_list_blooms
          listRules,  \* global_list_adguard_rules
          job,        \* the calls under way
          overlap,    \* history: whether calls for a URL have overlapped
          faults      \* how many faults have happened

stored == <<etag, syncError, due, older, listBloom, listRules>>
listVars == <<source, stored, job, overlap, faults>>

Versions == 1..MaxVersion
Halves == {"bloom", "rules"}

(* A call: the version whose ETag it sent and, once the server has         *)
(* answered with a list, the version it got; the tables it still has to    *)
(* write, how the server answered.                                         *)
Call(step, url, tag, pend, answer) ==
    [step |-> step, url |-> url, tag |-> tag, pend |-> pend, answer |-> answer]
NoJob == Call("idle", NoUrl, 0, {}, "none")

ListInit == /\ source = [u \in Urls |-> 1]
            /\ etag = [u \in Urls |-> 0]
            /\ syncError = [u \in Urls |-> "never"]
            /\ due = Urls
            /\ older = {}
            /\ listBloom = [u \in Urls |-> 0]
            /\ listRules = [u \in Urls |-> 0]
            /\ job = [t \in Callers |-> NoJob]
            /\ overlap = [u \in Urls |-> "none"]
            /\ faults = 0

Fault == faults < MaxFaults /\ faults' = faults + 1

-----------------------------------------------------------------------------
(* The world: a list changes upstream; the sync interval of a stamped URL  *)
(* runs out, of the one stamped longest ago first.                         *)
SourceChanges(u) == /\ u \in Changing /\ source[u] < MaxVersion
                    /\ source' = [source EXCEPT ![u] = @ + 1]
                    /\ UNCHANGED <<stored, job, overlap, faults>>

IntervalEnds(u) == /\ u \notin due
                   /\ \A x \in Urls : <<x, u>> \in older => x \in due
                   /\ due' = due \cup {u}
                   /\ UNCHANGED <<source, etag, syncError, older, listBloom,
                                  listRules, job, overlap, faults>>

-----------------------------------------------------------------------------
(* Nothing in the code keeps two calls for a URL apart. What is known of   *)
(* them is kept for the properties: no call has met another, "none"; the   *)
(* calls of this moment have, "now"; earlier ones have, and no call alone   *)
(* with the URL has compiled it since, "past".                             *)
Quiet(u) == \A t \in Callers : job[t].url # u
Met(u) == IF ~Quiet(u) THEN "now"
          ELSE IF overlap[u] = "now" THEN "past" ELSE overlap[u]

(* The metadata row is read and the request goes out with its ETag.        *)
BeginCall(t, u) == /\ job[t].step = "idle"
                   /\ job' = [job EXCEPT ![t] =
                                Call("fetch", u, etag[u], {}, "none")]
                   /\ overlap' = [overlap EXCEPT ![u] = Met(u)]
                   /\ UNCHANGED <<source, stored, faults>>

(* getDistinctActiveUrls(cutoff, 1): the stalest of the URLs that are due. *)
Stalest(u) == u \in due /\ \A x \in due : <<x, u>> \notin older

(* The cron pass takes the stalest URL; a profile's sync takes one that    *)
(* has no filter yet.                                                      *)
CronBegin(t, u) == Stalest(u) /\ BeginCall(t, u)
DemandBegin(t, u) == listBloom[u] = 0 /\ BeginCall(t, u)

Answered(t, step, tag, pend, answer) ==
    job' = [job EXCEPT ![t] = Call(step, job[t].url, tag, pend, answer)]

NotModified(t) == /\ job[t].step = "fetch"
                  /\ job[t].tag = source[job[t].url]
                  /\ Answered(t, "stamp", job[t].tag, {}, "304")
                  /\ UNCHANGED <<source, stored, overlap, faults>>

(* A body longer than the limit is compiled as far as it was read.         *)
Fetched(t) == LET v == source[job[t].url] IN
              /\ job[t].step = "fetch"
              /\ job[t].tag # v
              /\ Answered(t, "save", v, Halves,
                          IF <<job[t].url, v>> \in Oversized THEN "cut" ELSE "ok")
              /\ UNCHANGED <<source, stored, overlap, faults>>

(* No list to be had: the connection or the server fails, or the server    *)
(* announces a length over the limit.                                      *)
Refused(t) == \/ Fault
              \/ /\ job[t].tag # source[job[t].url]
                 /\ <<job[t].url, source[job[t].url]>> \in Oversized
                 /\ UNCHANGED faults

(* Mutant: the error result carries the ETag of the response it met.       *)
FetchFailsTagged(t) == /\ job[t].step = "fetch"
                       /\ Refused(t)
                       /\ Answered(t, "stamp", source[job[t].url], {}, "failed")
                       /\ UNCHANGED <<source, stored, overlap>>

(* The result of a failed fetch has no ETag: the call's own is kept.       *)
FetchFails(t) == /\ job[t].step = "fetch"
                 /\ Refused(t)
                 /\ Answered(t, "stamp", job[t].tag, {}, "failed")
                 /\ UNCHANGED <<source, stored, overlap>>

(* The two saves run side by side under one Promise.all, which goes on     *)
(* when both are done.                                                     *)
Saved(u, v, halves) ==
    /\ listBloom' = IF "bloom" \in halves THEN [listBloom EXCEPT ![u] = v]
                                          ELSE listBloom
    /\ listRules' = IF "rules" \in halves THEN [listRules EXCEPT ![u] = v]
                                          ELSE listRules

Save(t, h) == LET rest == job[t].pend \ {h} IN
              /\ job[t].step = "save" /\ h \in job[t].pend
              /\ Saved(job[t].url, job[t].tag, {h})
              /\ job' = [job EXCEPT ![t].pend = rest,
                                    ![t].step = IF rest = {} THEN "stamp" ELSE @]
              /\ UNCHANGED <<source, etag, syncError, due, older, overlap, faults>>

Throw(t) == job' = [job EXCEPT ![t] = NoJob]

(* Mutant: a failed save is logged and the metadata stamped all the same.  *)
SaveFailsSwallowed(t, h, landed) ==
    /\ job[t].step = "save" /\ h \in job[t].pend
    /\ landed \subseteq job[t].pend \ {h}
    /\ Fault
    /\ Saved(job[t].url, job[t].tag, landed)
    /\ job' = [job EXCEPT ![t].step = "stamp", ![t].pend = {}]
    /\ UNCHANGED <<source, etag, syncError, due, older, overlap>>

(* One save fails and the call throws; the other one, sent already, may    *)
(* have landed or not.                                                     *)
SaveFails(t, h, landed) ==
    /\ job[t].step = "save" /\ h \in job[t].pend
    /\ landed \subseteq job[t].pend \ {h}
    /\ Fault
    /\ Saved(job[t].url, job[t].tag, landed)
    /\ Throw(t)
    /\ UNCHANGED <<source, etag, syncError, due, older, overlap>>

ErrorOf(answer) == CASE answer = "failed" -> "fetch"
                     [] answer = "cut"    -> "cut"
                     [] OTHER             -> "none"

(* updateGlobalListMetadata gets the ETag of the answer or else the one    *)
(* the call read when it began; COALESCE keeps the stored one over null.   *)
Stamp(t) ==
    LET u == job[t].url IN
    /\ job[t].step = "stamp"
    /\ etag' = [etag EXCEPT ![u] = IF job[t].tag # 0 THEN job[t].tag ELSE @]
    /\ syncError' = [syncError EXCEPT ![u] = ErrorOf(job[t].answer)]
    /\ due' = due \ {u}
    /\ older' = {p \in older : p[1] # u /\ p[2] # u}
                  \cup {<<x, u>> : x \in Urls \ {u}}
    /\ job' = [job EXCEPT ![t] = NoJob]
    /\ overlap' = [overlap EXCEPT ![u] =
                      IF @ # "now" /\ job[t].answer \in {"ok", "cut"} THEN "none" ELSE @]
    /\ UNCHANGED <<source, listBloom, listRules, faults>>

StampFails(t) == /\ job[t].step = "stamp"
                 /\ Fault
                 /\ Throw(t)
                 /\ UNCHANGED <<source, stored, overlap>>

(* The process or isolate ends: calls are gone, the tables stay.           *)
ListRestart == /\ Fault
               /\ job' = [t \in Callers |-> NoJob]
               /\ UNCHANGED <<source, stored, overlap>>

Sync(t) == \/ NotModified(t) \/ Fetched(t) \/ FetchFails(t)
           \/ \E h \in Halves : Save(t, h)
           \/ \E h \in Halves : \E landed \in SUBSET Halves : SaveFails(t, h, landed)
           \/ Stamp(t) \/ StampFails(t)

ListNext == \/ \E u \in Urls : SourceChanges(u) \/ IntervalEnds(u)
            \/ \E t \in Callers, u \in Urls : CronBegin(t, u) \/ DemandBegin(t, u)
            \/ \E t \in Callers : Sync(t)
            \/ ListRestart

(* A call that has begun ends (fetches time out, database calls return),   *)
(* time passes, and cron runs every minute: strong fairness, because the   *)
(* calls on demand may not keep it from a task, of which the code has no   *)
(* limited number.                                                         *)
ListFairness == /\ \A t \in Callers : WF_listVars(Sync(t))
                /\ SF_listVars(\E t \in Callers, u \in Urls : CronBegin(t, u))
                /\ \A u \in Urls : WF_listVars(IntervalEnds(u))

ListSpec == ListInit /\ [][ListNext]_listVars
ListFairSpec == ListSpec /\ ListFairness

-----------------------------------------------------------------------------
Steps == {"idle", "fetch", "save", "stamp"}
Answers == {"none", "304", "ok", "cut", "failed"}
Job == [step : Steps, url : Urls \cup {NoUrl}, tag : 0..MaxVersion,
        pend : SUBSET Halves, answer : Answers]

(* The types of the variables.                                             *)
ListTypeOK == /\ source \in [Urls -> Versions]
              /\ etag \in [Urls -> 0..MaxVersion]
              /\ syncError \in [Urls -> {"never", "none", "fetch", "cut"}]
              /\ due \subseteq Urls
              /\ older \subseteq Urls \X Urls
              /\ listBloom \in [Urls -> 0..MaxVersion]
              /\ listRules \in [Urls -> 0..MaxVersion]
              /\ job \in [Callers -> Job]
              /\ \A t \in Callers : job[t].step # "idle" => job[t].url \in Urls
              /\ overlap \in [Urls -> {"none", "now", "past"}]
              /\ faults \in 0..MaxFaults

Compiled(u) == listBloom[u] # 0 /\ listRules[u] # 0

(* A URL whose metadata says it was synchronised, or that would be asked   *)
(* for with If-None-Match, has a compiled filter: otherwise the server's   *)
(* 304 would leave its subscribers without one for good. Whatever fails,   *)
(* and however many calls interleave, the stamp never outruns the saves.   *)
StampedIsCompiled ==
    \A u \in Urls : \/ etag[u] # 0
                    \/ syncError[u] \in {"none", "cut"}
                    => Compiled(u)

(* The filter and the rules stored are at least as new as the version      *)
(* whose ETag is stored, so that a 304 really means the filter is up to    *)
(* date: whatever fails, and with any number of calls, of every URL whose  *)
(* calls have not overlapped since one that was alone compiled it. (Calls  *)
(* that overlap save and stamp in any order, and may leave an old filter   *)
(* under a new ETag, which then lasts until the list changes.)             *)
TagNotAhead ==
    \A u \in Urls : overlap[u] = "none" =>
                       listBloom[u] >= etag[u] /\ listRules[u] >= etag[u]

(* Every list short enough ends up compiled from the version its server    *)
(* serves, through failed fetches, failed saves and restarts, and none     *)
(* waits behind the others for ever. Excused are the lists on which calls  *)
(* have overlapped and none alone has compiled since.                      *)
EventuallyFresh ==
    \A u \in Urls : <>[](\/ <<u, source[u]>> \in Oversized
                        \/ overlap[u] # "none"
                        \/ /\ listBloom[u] = source[u]
                           /\ listRules[u] = source[u])

=============================================================================
