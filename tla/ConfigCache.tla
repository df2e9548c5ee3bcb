---------------------------- MODULE ConfigCache ----------------------------
(***************************************************************************)
(* What DNS queries see of one profile: pipeline/config.ts loads its       *)
(* settings, Bloom filter and AdGuard rules through two levels of cache,   *)
(* pipeline/cache.ts clears them when a handler has changed a row, and     *)
(* pipeline/index.ts answers from a third cache. L1 is the memory of an    *)
(* isolate; L2 is the cache its data centre's isolates share. A query and  *)
(* a handler may be suspended at every await. Rows are their versions.     *)
(***************************************************************************)
EXTENDS Naturals, FiniteSets

CONSTANTS Isolate,     \* isolates of one data centre
          Query,       \* queries that may be under way
          Writer,      \* handlers that may be changing the profile
          Nowhere,     \* the isolate of a query or handler that is not running
          First,       \* versions the lists' rows may have at first
          MaxChanges,  \* bound: handlers that change rows
          MaxLoads,    \* bound: loads that find nothing fresh in L1
          MaxFaults    \* bound: failures, expiries and ends of isolates

ASSUME NowhereAssumption == Nowhere \notin Isolate
ASSUME FirstAssumption == First \subseteq {0, 1}
ASSUME BoundsAssumption == \A max \in {MaxChanges, MaxLoads, MaxFaults} : max \in Nat

VARIABLES row,         \* versions in the database; 0: there is no row
          config,      \* configCache: an entry per isolate
          bloom,       \* bloomMemoryMap
          expired,     \* L1 copies older than CONFIG_MEM_TTL, BLOOM_MEM_TTL
          engine,      \* adguardMemoryMap
          answer,      \* dnsCache: what its answer was decided by
          shared,      \* the entry in L2
          sharedBloom, \* the filter in L2
          puts,        \* writes of L2 that are under way
          query,       \* the queries
          writer,      \* the handlers
          settled,     \* pairs <<isolate, kind>> cleared undisturbed since the
                       \* last change of that kind
          changes,     \* handlers that have begun
          loads,       \* loads that have begun
          faults       \* failures, expiries and ends of isolates so far

l1 == <<config, bloom, expired, engine, answer>>
l2 == <<shared, sharedBloom, puts>>
record == <<settled, changes>>
bounds == <<loads, faults>>
vars == <<row, l1, l2, query, writer, record, bounds>>

(* What may go wrong at any time; a try goes wrong or not.                 *)
Fault == faults < MaxFaults /\ faults' = faults + 1 /\ UNCHANGED loads
Try(ok) == IF ok THEN UNCHANGED bounds ELSE Fault

Tables == {"config", "bloom", "rules"}
Kinds == {"config", "bloom"}   \* what clear() deletes, what clearBloom adds

(* An entry of configCache or of L2: version of the settings (0: no entry),*)
(* AdGuard payload, hasBloom. `gap' is ours: a read it was made of failed. *)
Entry(c, r, has, gap) == [config |-> c, rules |-> r, hasBloom |-> has, gap |-> gap]
NoEntry == Entry(0, 0, FALSE, FALSE)

(* A query: where it is, the L1 copies load() took a reference to at its   *)
(* start, what it has read since, what it decides by. `fills': the filter  *)
(* it has read goes to L2.                                                 *)
Idle == [at |-> "idle", isolate |-> Nowhere,
         memory |-> NoEntry, memoryBloom |-> 0, stale |-> FALSE, memoryEngine |-> 0,
         entry |-> NoEntry, bloom |-> 0, engine |-> 0, gap |-> FALSE,
         read |-> {}, fills |-> FALSE]
NoAnswer == [config |-> 0, bloom |-> 0, rules |-> 0, gap |-> FALSE]

(* A handler: the rows or L2 keys it has yet to write or delete, the kinds *)
(* it clears; `calm' is ours: nothing has disturbed the clearing.          *)
Resting == [at |-> "idle", isolate |-> Nowhere, version |-> 0, todo |-> {},
            kinds |-> {}, calm |-> FALSE]

Init == /\ row \in [config : {1}, bloom : First, rules : First]
        /\ config = [i \in Isolate |-> NoEntry]
        /\ bloom = [i \in Isolate |-> 0]
        /\ expired = {}
        /\ engine = [i \in Isolate |-> 0]
        /\ answer = [i \in Isolate |-> NoAnswer]
        /\ shared = NoEntry
        /\ sharedBloom = 0
        /\ puts = {}
        /\ query = [q \in Query |-> Idle]
        /\ writer = [w \in Writer |-> Resting]
        /\ settled = Isolate \X Kinds
        /\ changes = 0
        /\ loads = 0
        /\ faults = 0

PutEntry(e) == [key |-> "config", entry |-> e, bloom |-> 0]
PutBloom(b) == [key |-> "bloom", entry |-> NoEntry, bloom |-> b]

-----------------------------------------------------------------------------
(* Handlers: rows are written, then the caches are cleared.                *)

(* A handler writes its own version of a row, which unsettles its copies;  *)
(* w goes on as `next'.                                                    *)
Starts == changes < MaxChanges /\ changes' = changes + 1
Writes(w, t, v, next) ==
    /\ row' = [row EXCEPT ![t] = v]
    /\ writer' = [x \in Writer |-> IF x = w THEN next
                                   ELSE [writer[x] EXCEPT !.calm = FALSE]]
    /\ settled' = IF t = "config" THEN settled \ (Isolate \X {"config"}) ELSE {}

(* Settings and custom rules: the bloom filter is not cleared.             *)
ChangeSettings(w, i) ==
    /\ writer[w] = Resting
    /\ Starts
    /\ Writes(w, "config", changes + 2,
              [Resting EXCEPT !.at = "clear", !.isolate = i, !.kinds = {"config"}])
    /\ UNCHANGED <<l1, l2, query, bounds>>

(* The combiner: both rows, each written or deleted; the order depends on  *)
(* the number of lists.                                                    *)
ChangeLists(w, i) ==
    /\ writer[w] = Resting
    /\ Starts
    /\ writer' = [writer EXCEPT ![w] =
         [at |-> "rows", isolate |-> i, version |-> changes + 2,
          todo |-> {"bloom", "rules"}, kinds |-> Kinds, calm |-> FALSE]]
    /\ UNCHANGED <<row, l1, l2, query, settled, bounds>>

WriteRow(w, t, v) ==
    LET left == writer[w].todo \ {t} IN
    /\ writer[w].at = "rows"
    /\ t \in writer[w].todo
    /\ v \in {0, writer[w].version}
    /\ Writes(w, t, v, IF left # {} THEN [writer[w] EXCEPT !.todo = left]
                       ELSE IF writer[w].kinds = {} THEN Resting
                       ELSE [writer[w] EXCEPT !.at = "clear", !.todo = {}, !.version = 0])
    /\ UNCHANGED <<l1, l2, query, changes, bounds>>

(* A row cannot be written: nothing will be cleared. The write of the      *)
(* other one may be under way already.                                     *)
RowFails(w) ==
    /\ writer[w].at = "rows"
    /\ \E left \in (SUBSET writer[w].todo) \ {writer[w].todo} :
         writer' = [writer EXCEPT ![w] =
           IF left = {} THEN Resting ELSE [writer[w] EXCEPT !.todo = left, !.kinds = {}]]
    /\ Fault
    /\ UNCHANGED <<row, l1, l2, query, record>>

(* Nothing of i, and nothing that goes to L2, is under way.                *)
Undisturbed(i) ==
    /\ puts = {}
    /\ \A q \in Query : /\ query[q].isolate # i
                        /\ query[q].at \notin {"d1", "apply"}

Forget(w, answers) ==
    LET i == writer[w].isolate
        kinds == writer[w].kinds
    IN /\ writer[w].at = "clear"
       /\ config' = [config EXCEPT ![i] = NoEntry]
       /\ engine' = [engine EXCEPT ![i] = 0]
       /\ bloom' = IF "bloom" \in kinds THEN [bloom EXCEPT ![i] = 0] ELSE bloom
       /\ expired' = expired \ ({i} \X kinds)
       /\ answer' = answers
       /\ writer' = [writer EXCEPT ![w].at = "purge", ![w].todo = kinds,
                                   ![w].calm = Undisturbed(i)]
       /\ UNCHANGED <<row, l2, query, record, bounds>>

(* Mutant: the answers decided by the old settings are kept.               *)
ClearKeepsAnswers(w) == Forget(w, answer)

(* clear(): L1 at once, then both keys of L2.                              *)
Clear(w) == Forget(w, [answer EXCEPT ![writer[w].isolate] = NoAnswer])

DeleteShared(w, k) ==
    LET left == writer[w].todo \ {k}
        done == left = {}
    IN /\ writer[w].at = "purge"
       /\ k \in writer[w].todo
       /\ IF k = "config" THEN shared' = NoEntry /\ UNCHANGED sharedBloom
                          ELSE sharedBloom' = 0 /\ UNCHANGED shared
       /\ writer' = [writer EXCEPT ![w] =
            IF done THEN Resting ELSE [writer[w] EXCEPT !.todo = left]]
       /\ settled' = IF done /\ writer[w].calm
                       THEN settled \cup ({writer[w].isolate} \X writer[w].kinds)
                       ELSE settled
       /\ UNCHANGED <<row, l1, puts, query, changes, bounds>>

(* The cache API fails: the error is logged.                               *)
DeleteFails(w) ==
    /\ writer[w].at = "purge"
    /\ writer' = [writer EXCEPT ![w] = Resting]
    /\ Fault
    /\ UNCHANGED <<row, l1, l2, query, record>>

-----------------------------------------------------------------------------
(* A query: load() from L1, else L2, else the database.                    *)
To(q, next) == query' = [query EXCEPT ![q] = next]

BloomInForce(i) == bloom[i] # 0 /\ <<i, "bloom">> \notin expired

Hits(q, i, usable) ==
    /\ query[q] = Idle
    /\ config[i] # NoEntry
    /\ <<i, "config">> \notin expired
    /\ usable
    /\ To(q, [Idle EXCEPT !.at = "resolve", !.isolate = i, !.entry = config[i],
                          !.bloom = IF BloomInForce(i) THEN bloom[i] ELSE 0,
                          !.engine = IF engine[i] # 0 THEN engine[i]
                                                      ELSE config[i].rules,
                          !.gap = config[i].gap])
    /\ UNCHANGED <<row, l1, l2, writer, record, bounds>>

(* Mutant: a configuration is enough, whether its filter is there or not.  *)
HitsWithoutBloom(q, i) == Hits(q, i, TRUE)

HitL1(q, i) == Hits(q, i, config[i].hasBloom => BloomInForce(i))

MissL1(q, i) ==
    /\ query[q] = Idle
    /\ loads < MaxLoads
    /\ loads' = loads + 1
    /\ \/ config[i] = NoEntry
       \/ <<i, "config">> \in expired
       \/ config[i].hasBloom /\ ~BloomInForce(i)
    /\ To(q, [Idle EXCEPT !.at = "l2", !.isolate = i, !.memory = config[i],
                          !.memoryBloom = bloom[i],
                          !.stale = <<i, "bloom">> \in expired,
                          !.memoryEngine = engine[i]])
    /\ writer' = [w \in Writer |-> IF writer[w].isolate # i THEN writer[w]
                                   ELSE [writer[w] EXCEPT !.calm = FALSE]]
    /\ UNCHANGED <<row, l1, l2, record, faults>>

Reads(q, next, ok) == /\ To(q, next)
                      /\ Try(ok)
                      /\ UNCHANGED <<row, l1, l2, writer, record>>

(* The entry of L2. The filter that L1 had at the start will do unless it  *)
(* has expired, then or, not in time, during the await.                    *)
ReadShared(q, timely) ==
    LET mine == query[q] IN
    /\ mine.at = "l2"
    /\ IF shared = NoEntry
         THEN Reads(q, [mine EXCEPT !.at = "d1"], timely)
       ELSE IF mine.memoryBloom # 0 /\ ~mine.stale /\ timely
         THEN Reads(q, [mine EXCEPT !.at = "apply", !.entry = shared,
                                    !.gap = shared.gap, !.bloom = mine.memoryBloom], TRUE)
         ELSE Reads(q, [mine EXCEPT !.at = "bloom2", !.entry = shared,
                                    !.gap = shared.gap], timely)

(* The cache API throws: load() does not catch it and the query fails.     *)
ReadSharedThrows(q) == query[q].at = "l2" /\ Reads(q, Idle, FALSE)

(* The filter from L2; an error reads as its absence.                      *)
ReadSharedBloom(q, ok) ==
    LET mine == query[q] IN
    /\ mine.at = "bloom2"
    /\ Reads(q, IF ok /\ sharedBloom # 0
                  THEN [mine EXCEPT !.at = "apply", !.bloom = sharedBloom,
                                    !.read = {"bloom"}]
                  ELSE [mine EXCEPT !.at = IF mine.entry.hasBloom THEN "bloom3"
                                                                  ELSE "apply"], ok)

(* The fall-back for a filter that neither cache has.                      *)
ReadBloomRow(q, ok) ==
    LET mine == [query[q] EXCEPT !.at = "apply"] IN
    /\ query[q].at = "bloom3"
    /\ Reads(q, IF ok /\ row.bloom # 0
                  THEN [mine EXCEPT !.bloom = row.bloom, !.read = {"bloom"},
                                    !.fills = TRUE]
                  ELSE [mine EXCEPT !.gap = TRUE], ok)

(* What load() leaves in L1: the entry, a filter and rules if it has any.  *)
Fills(i, e, b, r) ==
    /\ config' = [config EXCEPT ![i] = e]
    /\ bloom' = IF b = 0 THEN bloom ELSE [bloom EXCEPT ![i] = b]
    /\ expired' = expired \ ({<<i, "config">>}
                               \cup (IF b = 0 THEN {} ELSE {<<i, "bloom">>}))
    /\ engine' = IF r = 0 THEN engine ELSE [engine EXCEPT ![i] = r]
    /\ UNCHANGED answer

ApplyShared(q) ==
    LET mine == query[q]
        rules == IF mine.memoryEngine # 0 THEN mine.memoryEngine ELSE mine.entry.rules
    IN /\ mine.at = "apply"
       /\ Fills(mine.isolate, mine.entry,
                IF "bloom" \in mine.read THEN mine.bloom ELSE 0,
                IF mine.memoryEngine # 0 THEN 0 ELSE mine.entry.rules)
       /\ puts' = puts \cup (IF mine.fills THEN {PutBloom(mine.bloom)} ELSE {})
       /\ To(q, [mine EXCEPT !.at = "resolve", !.engine = rules])
       /\ UNCHANGED <<row, shared, sharedBloom, writer, record, bounds>>

(* The concurrent reads of the rows; an error of the filter's or the       *)
(* rules' reads as the absence of a row.                                   *)
ReadRow(q, t, ok) ==
    LET mine == [query[q] EXCEPT !.read = @ \cup {t}, !.gap = @ \/ ~ok] IN
    /\ query[q].at = "d1"
    /\ t \notin query[q].read
    /\ t = "config" => ok
    /\ Reads(q, CASE t = "config" -> [mine EXCEPT !.entry.config = row.config]
                  [] t = "bloom"  -> [mine EXCEPT !.bloom = IF ok THEN row.bloom ELSE 0]
                  [] t = "rules"  -> [mine EXCEPT !.entry.rules = IF ok THEN row.rules
                                                                        ELSE 0], ok)

ApplyRows(q) ==
    LET mine == query[q]
        e == Entry(mine.entry.config, mine.entry.rules, mine.bloom # 0, mine.gap)
    IN /\ mine.at = "d1"
       /\ mine.read = Tables
       /\ Fills(mine.isolate, e, mine.bloom, e.rules)
       /\ puts' = puts \cup {PutEntry(e)}
                       \cup (IF mine.bloom = 0 THEN {} ELSE {PutBloom(mine.bloom)})
       /\ To(q, [mine EXCEPT !.at = "resolve", !.entry = e, !.engine = e.rules])
       /\ UNCHANGED <<row, shared, sharedBloom, writer, record, bounds>>

(* The settings cannot be read, or once all is read there are none or they *)
(* or the filter do not parse: what L1 had at the start, however old, else *)
(* the emergency settings, without any filter.                             *)
FallsBack(q) ==
    LET mine == query[q] IN
    /\ mine.at = "d1"
    /\ "config" \notin mine.read \/ mine.read = Tables
    /\ To(q, [mine EXCEPT !.at = "resolve", !.gap = TRUE, !.entry = mine.memory,
                          !.bloom = IF mine.memory = NoEntry THEN 0
                                                             ELSE mine.memoryBloom,
                          !.engine = IF mine.memory = NoEntry THEN 0
                                                              ELSE mine.memoryEngine])

(* Mutant: the emergency settings are cached.                              *)
FallBackCached(q) ==
    /\ FallsBack(q)
    /\ config' = [config EXCEPT ![query[q].isolate] = [NoEntry EXCEPT !.gap = TRUE]]
    /\ Fault
    /\ UNCHANGED <<row, bloom, expired, engine, answer, l2, writer, record>>

FallBack(q) == /\ FallsBack(q)
               /\ Fault
               /\ UNCHANGED <<row, l1, l2, writer, record>>

(* The query is passed on and its answer kept, or there is none to keep.   *)
Answer(q) ==
    LET mine == query[q] IN
    /\ mine.at = "resolve"
    /\ answer' = [answer EXCEPT ![mine.isolate] =
                    [config |-> mine.entry.config, bloom |-> mine.bloom,
                     rules |-> mine.engine, gap |-> mine.gap]]
    /\ To(q, Idle)
    /\ UNCHANGED <<row, config, bloom, expired, engine, l2, writer, record,
                   bounds>>
Refuse(q) == query[q].at = "resolve" /\ Reads(q, Idle, TRUE)

-----------------------------------------------------------------------------
(* Time, eviction, the cache API, the end of an isolate.                   *)
PutLands(put) ==
    /\ put \in puts
    /\ puts' = puts \ {put}
    /\ IF put.key = "config" THEN shared' = put.entry /\ UNCHANGED sharedBloom
                             ELSE sharedBloom' = put.bloom /\ UNCHANGED shared
    /\ UNCHANGED <<row, l1, query, writer, record, bounds>>

PutFails(put) ==
    /\ put \in puts
    /\ puts' = puts \ {put}
    /\ Fault
    /\ UNCHANGED <<row, l1, shared, sharedBloom, query, writer, record>>

Expires(i, k) ==
    /\ <<i, k>> \notin expired
    /\ IF k = "config" THEN config[i] # NoEntry ELSE bloom[i] # 0
    /\ expired' = expired \cup {<<i, k>>}
    /\ Fault
    /\ UNCHANGED <<row, config, bloom, engine, answer, l2, query, writer, record>>

(* SizeCappedMap makes room for another profile; an answer's TTL ends.     *)
Evict(i) ==
    /\ \/ /\ config[i] # NoEntry
          /\ config' = [config EXCEPT ![i] = NoEntry]
          /\ expired' = expired \ {<<i, "config">>}
          /\ UNCHANGED <<bloom, engine, answer>>
       \/ /\ bloom[i] # 0
          /\ bloom' = [bloom EXCEPT ![i] = 0]
          /\ expired' = expired \ {<<i, "bloom">>}
          /\ UNCHANGED <<config, engine, answer>>
       \/ /\ engine[i] # 0
          /\ engine' = [engine EXCEPT ![i] = 0]
          /\ UNCHANGED <<config, bloom, expired, answer>>
       \/ /\ answer[i] # NoAnswer
          /\ answer' = [answer EXCEPT ![i] = NoAnswer]
          /\ UNCHANGED <<config, bloom, expired, engine>>
    /\ Fault
    /\ UNCHANGED <<row, l2, query, writer, record>>

SharedExpires(k) ==
    /\ IF k = "config"
         THEN shared # NoEntry /\ shared' = NoEntry /\ UNCHANGED sharedBloom
         ELSE sharedBloom # 0 /\ sharedBloom' = 0 /\ UNCHANGED shared
    /\ Fault
    /\ UNCHANGED <<row, l1, puts, query, writer, record>>

(* The memory of the isolate is gone, and what runs in it.                 *)
IsolateEnds(i) ==
    /\ config' = [config EXCEPT ![i] = NoEntry]
    /\ bloom' = [bloom EXCEPT ![i] = 0]
    /\ expired' = expired \ ({i} \X Kinds)
    /\ engine' = [engine EXCEPT ![i] = 0]
    /\ answer' = [answer EXCEPT ![i] = NoAnswer]
    /\ query' = [q \in Query |-> IF query[q].isolate = i THEN Idle ELSE query[q]]
    /\ writer' = [w \in Writer |-> IF writer[w].isolate = i THEN Resting ELSE writer[w]]
    /\ Fault
    /\ UNCHANGED <<row, l2, record>>

-----------------------------------------------------------------------------
WriterStep(w) == \/ \E t \in Tables, v \in {0, writer[w].version} : WriteRow(w, t, v)
                 \/ RowFails(w) \/ Clear(w)
                 \/ \E k \in Kinds : DeleteShared(w, k)
                 \/ DeleteFails(w)

QueryStep(q) == \/ \E timely \in BOOLEAN : ReadShared(q, timely)
                \/ ReadSharedThrows(q)
                \/ \E ok \in BOOLEAN : ReadSharedBloom(q, ok) \/ ReadBloomRow(q, ok)
                \/ ApplyShared(q)
                \/ \E t \in Tables, ok \in BOOLEAN : ReadRow(q, t, ok)
                \/ ApplyRows(q) \/ FallBack(q)
                \/ Answer(q) \/ Refuse(q)

PutStep == \E put \in puts : PutLands(put) \/ PutFails(put)

Time == \/ \E i \in Isolate : Evict(i) \/ IsolateEnds(i) \/ \E k \in Kinds : Expires(i, k)
        \/ \E k \in Kinds : SharedExpires(k)

Next == \/ \E w \in Writer, i \in Isolate : ChangeSettings(w, i) \/ ChangeLists(w, i)
        \/ \E w \in Writer : WriterStep(w)
        \/ \E q \in Query, i \in Isolate : HitL1(q, i) \/ MissL1(q, i)
        \/ \E q \in Query : QueryStep(q)
        \/ PutStep
        \/ Time

Spec == Init /\ [][Next]_vars

-----------------------------------------------------------------------------
Entries == [config : Nat, rules : Nat, hasBloom : BOOLEAN, gap : BOOLEAN]
Cached == {e \in Entries : e.config = 0 => e = NoEntry}
Puts == {put \in [key : Kinds, entry : Cached, bloom : Nat] :
           IF put.key = "config" THEN put.entry # NoEntry ELSE put.bloom # 0}
Stages == {"idle", "l2", "bloom2", "bloom3", "apply", "d1", "resolve"}

(* An entry that is there has settings: the emergency settings of a query  *)
(* that could not be configured stay that query's own.                     *)
TypeOK ==
    /\ row \in [config : Nat \ {0}, bloom : Nat, rules : Nat]
    /\ config \in [Isolate -> Cached]
    /\ bloom \in [Isolate -> Nat]
    /\ expired \subseteq Isolate \X Kinds
    /\ engine \in [Isolate -> Nat]
    /\ answer \in [Isolate -> [config : Nat, bloom : Nat, rules : Nat, gap : BOOLEAN]]
    /\ shared \in Cached
    /\ sharedBloom \in Nat
    /\ puts \subseteq Puts
    /\ query \in [Query -> [at : Stages, isolate : Isolate \cup {Nowhere},
          memory : Cached, memoryBloom : Nat, stale : BOOLEAN, memoryEngine : Nat,
          entry : Entries, bloom : Nat, engine : Nat, gap : BOOLEAN,
          read : SUBSET Tables, fills : BOOLEAN]]
    /\ writer \in [Writer -> [at : {"idle", "rows", "clear", "purge"},
          isolate : Isolate \cup {Nowhere}, version : Nat, todo : SUBSET Tables,
          kinds : SUBSET Kinds, calm : BOOLEAN]]
    /\ settled \subseteq Isolate \X Kinds
    /\ changes \in Nat
    /\ loads \in Nat
    /\ faults \in Nat

(* After a clearing that no query of its isolate and nothing on its way to *)
(* L2 overlapped, neither this isolate nor L2 holds a copy that is not     *)
(* what the rows say, nor this isolate an answer decided by one, until the *)
(* rows change again; what other isolates hold never gets back there.      *)
CurrentEntry(e) == \/ e = NoEntry \/ e.gap
                   \/ e = Entry(row.config, row.rules, row.bloom # 0, FALSE)
SettledIsCurrent ==
    \A i \in Isolate :
        /\ <<i, "config">> \in settled =>
              /\ CurrentEntry(config[i]) /\ CurrentEntry(shared)
              /\ engine[i] \in {0, row.rules}
              /\ answer[i] = NoAnswer \/ answer[i].gap \/
                   (answer[i].config = row.config /\ answer[i].rules = row.rules)
        /\ <<i, "bloom">> \in settled =>
              /\ bloom[i] \in {0, row.bloom}
              /\ sharedBloom \in {0, row.bloom}
              /\ answer[i] = NoAnswer \/ answer[i].gap \/ answer[i].bloom = row.bloom

(* A configuration that comes with a filter never decides without it,      *)
(* unless the filter could not be had (the comment on the L1 short cut).   *)
FilterKept == \A q \in Query :
    query[q].at = "resolve" /\ query[q].entry.hasBloom /\ query[q].bloom = 0
        => query[q].gap

=============================================================================
