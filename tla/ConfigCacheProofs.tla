------------------------- MODULE ConfigCacheProofs -------------------------
(***************************************************************************)
(* TypeOK, FilterKept and SettledIsCurrent of ConfigCache, for any         *)
(* isolates, queries, handlers and bounds. What the first two need beyond  *)
(* themselves is what a load knows at its awaits (Knows): past L2 it has   *)
(* settings, past the await of a filter the filter if the settings say     *)
(* that there is one. The third needs, from the moment a clearing has      *)
(* emptied L1, that everything on its way to L1 or to L2 is current too    *)
(* (Currency).                                                             *)
(***************************************************************************)
EXTENDS ConfigCache, TLAPS

Question == [at : Stages, isolate : Isolate \cup {Nowhere},
             memory : Cached, memoryBloom : Nat, stale : BOOLEAN, memoryEngine : Nat,
             entry : Entries, bloom : Nat, engine : Nat, gap : BOOLEAN,
             read : SUBSET Tables, fills : BOOLEAN]
Work == [at : {"idle", "rows", "clear", "purge"}, isolate : Isolate \cup {Nowhere},
         version : Nat, todo : SUBSET Tables, kinds : SUBSET Kinds, calm : BOOLEAN]
Verdicts == [config : Nat, bloom : Nat, rules : Nat, gap : BOOLEAN]

Knows(x) ==
    /\ x.at # "idle" => x.isolate \in Isolate
    /\ x.at \in {"bloom2", "bloom3", "apply"} => x.entry.config # 0
    /\ x.at = "d1" /\ "config" \in x.read => x.entry.config # 0
    /\ x.at = "apply" /\ (x.fills \/ "bloom" \in x.read) => x.bloom # 0
    /\ x.at \in {"apply", "resolve"} /\ x.entry.hasBloom /\ x.bloom = 0 => x.gap
    /\ x.at \in {"l2", "d1", "bloom2", "bloom3"} => ~x.fills
    /\ x.at \in {"l2", "bloom2", "bloom3"} => x.read = {}

(* TypeOK in parts: what a step of one kind leaves alone.                  *)
RowsOK == row \in [config : Nat \ {0}, bloom : Nat, rules : Nat]
L1OK == /\ config \in [Isolate -> Cached]
        /\ bloom \in [Isolate -> Nat]
        /\ expired \subseteq Isolate \X Kinds
        /\ engine \in [Isolate -> Nat]
        /\ answer \in [Isolate -> Verdicts]
L2OK == shared \in Cached /\ sharedBloom \in Nat /\ puts \subseteq Puts
QueriesOK == query \in [Query -> Question] /\ \A q \in Query : Knows(query[q])
Placed(x) == /\ x.at # "idle" => x.isolate \in Isolate
             /\ x.at = "rows" => "config" \notin x.todo
             /\ x.kinds # {} => "config" \in x.kinds
WritersOK == /\ writer \in [Writer -> Work]
             /\ \A w \in Writer : Placed(writer[w])
             /\ settled \subseteq Isolate \X Kinds
             /\ changes \in Nat
BoundsOK == loads \in Nat /\ faults \in Nat

IInv == RowsOK /\ L1OK /\ L2OK /\ QueriesOK /\ WritersOK /\ BoundsOK

LEMMA Parts == IInv => TypeOK /\ FilterKept
<1> SUFFICES ASSUME IInv PROVE TypeOK /\ FilterKept
  OBVIOUS
<1>1. TypeOK
  BY DEF IInv, TypeOK, RowsOK, L1OK, L2OK, QueriesOK, WritersOK, BoundsOK, Question,
         Work, Verdicts
<1>2. FilterKept
  BY DEF IInv, QueriesOK, FilterKept, Knows
<1> QED BY <1>1, <1>2

LEMMA NoEntryFacts == /\ NoEntry \in Cached /\ NoEntry.config = 0 /\ ~NoEntry.hasBloom
                      /\ NoEntry.rules = 0 /\ ~NoEntry.gap
BY DEF NoEntry, Entry, Cached, Entries

LEMMA EntryFacts ==
  ASSUME NEW c \in Nat, NEW r \in Nat, NEW h \in BOOLEAN, NEW g \in BOOLEAN
  PROVE  /\ Entry(c, r, h, g) \in Entries
         /\ Entry(c, r, h, g).config = c /\ Entry(c, r, h, g).rules = r
         /\ Entry(c, r, h, g).hasBloom = h /\ Entry(c, r, h, g).gap = g
BY DEF Entry, Entries

LEMMA CachedFacts ==
  ASSUME NEW e \in Cached
  PROVE  /\ e \in Entries
         /\ e.config \in Nat /\ e.rules \in Nat /\ e.hasBloom \in BOOLEAN /\ e.gap \in BOOLEAN
         /\ e # NoEntry <=> e.config # 0
BY NoEntryFacts DEF Cached, Entries

LEMMA IdleFacts == Idle \in Question /\ Knows(Idle) /\ Idle.at = "idle"
BY NoEntryFacts, CachedFacts DEF Idle, Question, Knows, Stages

LEMMA RestingFacts == Resting \in Work /\ Placed(Resting)
BY DEF Resting, Work, Placed

LEMMA WorkFacts ==
  ASSUME WritersOK, NEW w \in Writer
  PROVE  writer[w] \in Work /\ Placed(writer[w])
BY DEF WritersOK

(* A handler goes on with a well-formed record; Writes disturbs the others.*)
LEMMA WriterTo ==
  ASSUME WritersOK, NEW w \in Writer, NEW x \in Work, Placed(x),
         writer' = [writer EXCEPT ![w] = x]
  PROVE  /\ writer' \in [Writer -> Work]
         /\ \A y \in Writer : Placed(writer'[y])
BY DEF WritersOK

LEMMA Disturbed ==
  ASSUME NEW x \in Work, Placed(x)
  PROVE  [x EXCEPT !.calm = FALSE] \in Work /\ Placed([x EXCEPT !.calm = FALSE])
BY DEF Work, Placed

LEMMA WritesFacts ==
  ASSUME WritersOK, NEW w \in Writer, NEW t, NEW v, NEW x \in Work, Placed(x),
         Writes(w, t, v, x)
  PROVE  /\ writer' \in [Writer -> Work]
         /\ \A y \in Writer : Placed(writer'[y])
         /\ settled' \subseteq Isolate \X Kinds
<1>1. \A y \in Writer : writer'[y] \in Work /\ Placed(writer'[y])
  BY WorkFacts, Disturbed DEF Writes
<1>2. writer' = [y \in Writer |-> writer'[y]]
  BY DEF Writes
<1>3. settled' \subseteq Isolate \X Kinds
  BY DEF WritersOK, Writes
<1> QED BY <1>1, <1>2, <1>3

LEMMA NoAnswerFact == NoAnswer \in Verdicts
BY DEF NoAnswer, Verdicts

LEMMA TryFacts ==
  ASSUME BoundsOK, NEW ok, Try(ok) \/ Fault
  PROVE  BoundsOK'
BY DEF BoundsOK, Try, Fault, bounds

(* One query goes on with a record of the type that knows what it must.    *)
LEMMA ToFacts ==
  ASSUME QueriesOK, NEW q \in Query, NEW x \in Question, Knows(x), To(q, x)
  PROVE  QueriesOK'
BY DEF QueriesOK, To

LEMMA MineFacts ==
  ASSUME QueriesOK, NEW q \in Query
  PROVE  query[q] \in Question /\ Knows(query[q])
BY DEF QueriesOK

-----------------------------------------------------------------------------
(* Handlers.                                                               *)
LEMMA WriterSteps ==
  ASSUME IInv,
         \/ \E w \in Writer, i \in Isolate : ChangeSettings(w, i) \/ ChangeLists(w, i)
         \/ \E w \in Writer : WriterStep(w)
  PROVE  IInv'
<1>1. ASSUME NEW w \in Writer, NEW i \in Isolate, ChangeSettings(w, i)
      PROVE  IInv'
  <2> DEFINE x == [Resting EXCEPT !.at = "clear", !.isolate = i, !.kinds = {"config"}]
  <2>1. x \in Work /\ Placed(x)
    BY DEF Resting, Work, Kinds, Placed
  <2>2. Writes(w, "config", changes + 2, x) /\ changes' = changes + 1
    BY <1>1 DEF ChangeSettings, Starts
  <2>3. WritersOK'
    <3> HIDE DEF x
    <3> QED BY <2>1, <2>2, WritesFacts DEF IInv, WritersOK
  <2>4. RowsOK'
    BY <2>2 DEF IInv, RowsOK, WritersOK, Writes
  <2> QED BY <1>1, <2>3, <2>4 DEF IInv, L1OK, L2OK, QueriesOK, BoundsOK,
             ChangeSettings, l1, l2, bounds
<1>2. ASSUME NEW w \in Writer, NEW i \in Isolate, ChangeLists(w, i)
      PROVE  IInv'
  <2> DEFINE x == [at |-> "rows", isolate |-> i, version |-> changes + 2,
                   todo |-> {"bloom", "rules"}, kinds |-> Kinds, calm |-> FALSE]
  <2>1. x \in Work /\ Placed(x)
    BY DEF IInv, WritersOK, Work, Tables, Kinds, Placed
  <2>2. writer' = [writer EXCEPT ![w] = x] /\ changes' = changes + 1 /\ settled' = settled
    BY <1>2 DEF ChangeLists, Starts
  <2>3. WritersOK'
    <3> HIDE DEF x
    <3> QED BY <2>1, <2>2, WriterTo DEF IInv, WritersOK
  <2> QED BY <1>2, <2>3 DEF IInv, RowsOK, L1OK, L2OK, QueriesOK, BoundsOK,
             ChangeLists, l1, l2, bounds
<1>3. ASSUME NEW w \in Writer, NEW t \in Tables, NEW v \in {0, writer[w].version},
             WriteRow(w, t, v)
      PROVE  IInv'
  <2> DEFINE left == writer[w].todo \ {t}
             x == IF left # {} THEN [writer[w] EXCEPT !.todo = left]
                  ELSE IF writer[w].kinds = {} THEN Resting
                  ELSE [writer[w] EXCEPT !.at = "clear", !.todo = {}, !.version = 0]
  <2>1. /\ writer[w] \in Work /\ Placed(writer[w])
        /\ writer[w].at = "rows" /\ t \in writer[w].todo
    BY <1>3, WorkFacts DEF IInv, WriteRow
  <2>2. v \in Nat /\ t # "config"
    BY <2>1 DEF Work, Placed
  <2>3. x \in Work /\ Placed(x)
    BY <2>1, RestingFacts DEF Work, Placed
  <2>4. Writes(w, t, v, x) /\ changes' = changes
    BY <1>3 DEF WriteRow
  <2>5. WritersOK'
    <3> HIDE DEF x
    <3> QED BY <2>3, <2>4, WritesFacts DEF IInv, WritersOK
  <2>6. RowsOK'
    BY <2>2, <2>4 DEF IInv, RowsOK, Writes, Tables
  <2> QED BY <1>3, <2>5, <2>6 DEF IInv, L1OK, L2OK, QueriesOK, BoundsOK,
             WriteRow, l1, l2, bounds
<1>4. ASSUME NEW w \in Writer, RowFails(w)
      PROVE  IInv'
  <2>1. PICK left \in (SUBSET writer[w].todo) \ {writer[w].todo} :
          writer' = [writer EXCEPT ![w] =
            IF left = {} THEN Resting ELSE [writer[w] EXCEPT !.todo = left, !.kinds = {}]]
    BY <1>4 DEF RowFails
  <2> DEFINE x == IF left = {} THEN Resting
                  ELSE [writer[w] EXCEPT !.todo = left, !.kinds = {}]
  <2>2. x \in Work /\ Placed(x)
    BY WorkFacts, RestingFacts DEF IInv, Work, Placed
  <2>3. WritersOK'
    <3>1. writer' = [writer EXCEPT ![w] = x] /\ settled' = settled /\ changes' = changes
      BY <1>4, <2>1 DEF RowFails, record
    <3> HIDE DEF x
    <3> QED BY <2>2, <3>1, WriterTo DEF IInv, WritersOK
  <2> QED BY <1>4, <2>3 DEF IInv, RowsOK, L1OK, L2OK, QueriesOK, BoundsOK,
             RowFails, Fault, l1, l2
<1>5. ASSUME NEW w \in Writer, Clear(w)
      PROVE  IInv'
  <2>1. /\ writer[w] \in Work /\ writer[w].isolate \in Isolate
        /\ writer[w].kinds # {} => "config" \in writer[w].kinds
    BY <1>5, WorkFacts DEF IInv, Clear, Forget, Placed
  <2>2. L1OK'
    BY <1>5, <2>1, NoEntryFacts, NoAnswerFact DEF IInv, L1OK, Clear, Forget, Work
  <2>3. WritersOK'
    <3> DEFINE c == Undisturbed(writer[w].isolate)
               x == [writer[w] EXCEPT !.at = "purge", !.todo = writer[w].kinds, !.calm = c]
    <3>1. c \in BOOLEAN
      BY DEF Undisturbed
    <3>2. x \in Work /\ Placed(x)
      <4> HIDE DEF c
      <4> QED BY <2>1, <3>1 DEF Work, Placed, Kinds, Tables
    <3>3. writer' = [writer EXCEPT ![w] = x] /\ settled' = settled /\ changes' = changes
      <4> HIDE DEF c
      <4>1. writer' = [writer EXCEPT ![w].at = "purge", ![w].todo = writer[w].kinds,
                                     ![w].calm = c]
        BY <1>5 DEF Clear, Forget, c
      <4>2. writer[w] \in Work /\ DOMAIN writer = Writer
        BY WorkFacts DEF IInv, WritersOK
      <4> QED BY <1>5, <4>1, <4>2 DEF Clear, Forget, record, Work
    <3> HIDE DEF x
    <3> QED BY <3>2, <3>3, WriterTo DEF IInv, WritersOK
  <2> QED BY <1>5, <2>2, <2>3 DEF IInv, RowsOK, L2OK, QueriesOK, BoundsOK,
             Clear, Forget, l2, bounds
<1>6. ASSUME NEW w \in Writer, NEW k \in Kinds, DeleteShared(w, k)
      PROVE  IInv'
  <2> DEFINE left == writer[w].todo \ {k}
             x == IF left = {} THEN Resting ELSE [writer[w] EXCEPT !.todo = left]
  <2>1. writer[w] \in Work /\ Placed(writer[w]) /\ writer[w].at = "purge"
    BY <1>6, WorkFacts DEF IInv, DeleteShared
  <2>2. L2OK'
    BY <1>6, NoEntryFacts DEF IInv, L2OK, DeleteShared
  <2>3. x \in Work /\ Placed(x)
    BY <2>1, RestingFacts DEF Work, Placed
  <2>4. writer' = [writer EXCEPT ![w] = x] /\ changes' = changes
    BY <1>6 DEF DeleteShared
  <2>5. settled' \subseteq Isolate \X Kinds
    BY <1>6, <2>1 DEF IInv, WritersOK, DeleteShared, Work, Placed
  <2>6. WritersOK'
    <3> HIDE DEF x
    <3> QED BY <2>3, <2>4, <2>5, WriterTo DEF IInv, WritersOK
  <2> QED BY <1>6, <2>2, <2>6 DEF IInv, RowsOK, L1OK, QueriesOK, BoundsOK,
             DeleteShared, l1, bounds
<1>7. ASSUME NEW w \in Writer, DeleteFails(w)
      PROVE  IInv'
  <2>1. writer' = [writer EXCEPT ![w] = Resting] /\ settled' = settled /\ changes' = changes
    BY <1>7 DEF DeleteFails, record
  <2>2. WritersOK'
    BY <2>1, RestingFacts, WriterTo DEF IInv, WritersOK
  <2> QED BY <1>7, <2>2 DEF IInv, RowsOK, L1OK, L2OK, QueriesOK, BoundsOK,
             DeleteFails, Fault, l1, l2
<1> QED BY <1>1, <1>2, <1>3, <1>4, <1>5, <1>6, <1>7 DEF WriterStep

-----------------------------------------------------------------------------
(* Queries.                                                                *)
LEMMA Begins ==
  ASSUME IInv, NEW q \in Query, NEW i \in Isolate, HitL1(q, i) \/ MissL1(q, i)
  PROVE  IInv'
<1>0. config[i] \in Cached /\ bloom[i] \in Nat /\ engine[i] \in Nat
  BY DEF IInv, L1OK
<1>1. CASE HitL1(q, i)
  <2> DEFINE b == IF BloomInForce(i) THEN bloom[i] ELSE 0
             e == IF engine[i] # 0 THEN engine[i] ELSE config[i].rules
             x == [Idle EXCEPT !.at = "resolve", !.isolate = i, !.entry = config[i],
                               !.bloom = b, !.engine = e, !.gap = config[i].gap]
  <2>1. b \in Nat /\ e \in Nat /\ (config[i].hasBloom => b # 0)
    BY <1>0, <1>1, CachedFacts DEF HitL1, Hits, BloomInForce
  <2>2. x \in Question /\ Knows(x)
    <3> HIDE DEF b, e
    <3> QED BY <1>0, <2>1, NoEntryFacts, CachedFacts DEF Idle, Question, Knows, Stages
  <2>3. QueriesOK'
    <3>1. To(q, x)
      BY <1>1 DEF HitL1, Hits
    <3> HIDE DEF x
    <3> QED BY <2>2, <3>1, ToFacts DEF IInv
  <2> QED BY <1>1, <2>3 DEF HitL1, Hits, IInv, RowsOK, L1OK, L2OK, WritersOK, BoundsOK,
             l1, l2, record, bounds
<1>2. CASE MissL1(q, i)
  <2> DEFINE s == <<i, "bloom">> \in expired
             x == [Idle EXCEPT !.at = "l2", !.isolate = i, !.memory = config[i],
                               !.memoryBloom = bloom[i], !.stale = s,
                               !.memoryEngine = engine[i]]
  <2>1. x \in Question /\ Knows(x)
    <3>1. s \in BOOLEAN
      OBVIOUS
    <3> HIDE DEF s
    <3> QED BY <1>0, <3>1, NoEntryFacts, CachedFacts DEF Idle, Question, Knows, Stages
  <2>2. QueriesOK'
    <3>1. To(q, x)
      BY <1>2 DEF MissL1
    <3> HIDE DEF x
    <3> QED BY <2>1, <3>1, ToFacts DEF IInv
  <2>3. WritersOK'
    <3>1. writer' = [w \in Writer |-> writer'[w]] /\ UNCHANGED record
      BY <1>2 DEF MissL1
    <3>2. \A w \in Writer : writer'[w] \in Work /\ Placed(writer'[w])
      BY <1>2, WorkFacts, Disturbed DEF IInv, MissL1
    <3> QED BY <3>1, <3>2 DEF IInv, WritersOK, record
  <2>4. BoundsOK'
    BY <1>2 DEF MissL1, IInv, BoundsOK
  <2> QED BY <1>2, <2>2, <2>3, <2>4 DEF MissL1, IInv, RowsOK, L1OK, L2OK, l1, l2
<1> QED BY <1>1, <1>2

(* A read: the query goes on, nothing else changes but the count of faults.*)
LEMMA ReadsFacts ==
  ASSUME IInv, NEW q \in Query, NEW x \in Question, Knows(x), NEW ok, Reads(q, x, ok)
  PROVE  IInv'
<1>1. QueriesOK'
  BY ToFacts DEF Reads, IInv
<1>2. BoundsOK'
  BY TryFacts DEF Reads, IInv
<1> QED BY <1>1, <1>2 DEF Reads, IInv, RowsOK, L1OK, L2OK, WritersOK, l1, l2, record

LEMMA SharedReads ==
  ASSUME IInv, NEW q \in Query, NEW ok \in BOOLEAN, ReadShared(q, ok)
  PROVE  IInv'
<1> DEFINE mine == query[q]
<1>1. mine \in Question /\ Knows(mine) /\ mine.at = "l2"
  BY MineFacts DEF IInv, ReadShared
<1>2. shared \in Cached /\ shared \in Entries /\ shared.gap \in BOOLEAN
      /\ (shared # NoEntry <=> shared.config # 0)
  BY CachedFacts DEF IInv, L2OK
<1> DEFINE x1 == [mine EXCEPT !.at = "d1"]
           x2 == [mine EXCEPT !.at = "apply", !.entry = shared,
                              !.gap = shared.gap, !.bloom = mine.memoryBloom]
           x3 == [mine EXCEPT !.at = "bloom2", !.entry = shared, !.gap = shared.gap]
<1>3. \/ Reads(q, x1, ok)
      \/ shared # NoEntry /\ mine.memoryBloom # 0 /\ Reads(q, x2, TRUE)
      \/ shared # NoEntry /\ Reads(q, x3, ok)
  BY DEF ReadShared
<1> HIDE DEF mine
<1>4. x1 \in Question /\ Knows(x1)
  BY <1>1 DEF Question, Stages, Knows
<1>5. mine.memoryBloom # 0 /\ shared # NoEntry => x2 \in Question /\ Knows(x2)
  BY <1>1, <1>2 DEF Question, Stages, Knows
<1>6. shared # NoEntry => x3 \in Question /\ Knows(x3)
  BY <1>1, <1>2 DEF Question, Stages, Knows
<1> HIDE DEF x1, x2, x3
<1> QED BY <1>3, <1>4, <1>5, <1>6, ReadsFacts

LEMMA FilterReads ==
  ASSUME IInv, NEW q \in Query, NEW ok \in BOOLEAN,
         ReadSharedBloom(q, ok) \/ ReadBloomRow(q, ok)
  PROVE  IInv'
<1> DEFINE mine == query[q]
<1>1. mine \in Question /\ Knows(mine)
  BY MineFacts DEF IInv
<1>2. sharedBloom \in Nat /\ row.bloom \in Nat
  BY DEF IInv, L2OK, RowsOK
<1>3. CASE ReadSharedBloom(q, ok)
  <2> DEFINE x1 == [mine EXCEPT !.at = "apply", !.bloom = sharedBloom, !.read = {"bloom"}]
             x2 == [mine EXCEPT !.at = IF mine.entry.hasBloom THEN "bloom3" ELSE "apply"]
  <2>1. /\ mine.at = "bloom2"
        /\ \/ sharedBloom # 0 /\ Reads(q, x1, ok)
           \/ Reads(q, x2, ok)
    BY <1>3 DEF ReadSharedBloom
  <2> HIDE DEF mine
  <2>2. sharedBloom # 0 => x1 \in Question /\ Knows(x1)
    BY <1>1, <1>2, <2>1 DEF Question, Stages, Knows, Tables
  <2>3. x2 \in Question /\ Knows(x2)
    BY <1>1, <2>1 DEF Question, Stages, Knows
  <2> HIDE DEF x1, x2
  <2> QED BY <2>1, <2>2, <2>3, ReadsFacts
<1>4. CASE ReadBloomRow(q, ok)
  <2> DEFINE z == [mine EXCEPT !.at = "apply"]
             x1 == [z EXCEPT !.bloom = row.bloom, !.read = {"bloom"}, !.fills = TRUE]
             x2 == [z EXCEPT !.gap = TRUE]
  <2>1. /\ mine.at = "bloom3"
        /\ \/ row.bloom # 0 /\ Reads(q, x1, ok)
           \/ Reads(q, x2, ok)
    BY <1>4 DEF ReadBloomRow
  <2> HIDE DEF mine
  <2>2. row.bloom # 0 => x1 \in Question /\ Knows(x1)
    BY <1>1, <1>2, <2>1 DEF Question, Stages, Knows, Tables
  <2>3. x2 \in Question /\ Knows(x2)
    BY <1>1, <2>1 DEF Question, Stages, Knows
  <2> HIDE DEF x1, x2
  <2> QED BY <2>1, <2>2, <2>3, ReadsFacts
<1> QED BY <1>3, <1>4

LEMMA RowReads ==
  ASSUME IInv, NEW q \in Query, NEW t \in Tables, NEW ok \in BOOLEAN, ReadRow(q, t, ok)
  PROVE  IInv'
<1> DEFINE mine == [query[q] EXCEPT !.read = @ \cup {t}, !.gap = @ \/ ~ok]
           b == IF ok THEN row.bloom ELSE 0
           r == IF ok THEN row.rules ELSE 0
           x1 == [mine EXCEPT !.entry.config = row.config]
           x2 == [mine EXCEPT !.bloom = b]
           x3 == [mine EXCEPT !.entry.rules = r]
<1>1. query[q] \in Question /\ Knows(query[q]) /\ query[q].at = "d1"
  BY MineFacts DEF IInv, ReadRow
<1>2. /\ mine \in Question
      /\ mine.at = "d1" /\ mine.isolate \in Isolate /\ ~mine.fills
      /\ "config" \in mine.read /\ t # "config" => mine.entry.config # 0
  BY <1>1 DEF Question, Knows, Stages
<1>3. row.config \in Nat \ {0} /\ b \in Nat /\ r \in Nat
  BY DEF IInv, RowsOK
<1>4. \/ t = "config" /\ Reads(q, x1, ok)
      \/ t = "bloom" /\ Reads(q, x2, ok)
      \/ t = "rules" /\ Reads(q, x3, ok)
  BY DEF ReadRow, Tables
<1> HIDE DEF mine, b, r
<1>5. x1 \in Question /\ Knows(x1)
  BY <1>2, <1>3 DEF Question, Entries, Knows
<1>6. t # "config" => x2 \in Question /\ Knows(x2)
  BY <1>2, <1>3 DEF Question, Knows
<1>7. t # "config" => x3 \in Question /\ Knows(x3)
  BY <1>2, <1>3 DEF Question, Entries, Knows
<1> HIDE DEF x1, x2, x3
<1> QED BY <1>4, <1>5, <1>6, <1>7, ReadsFacts

(* What a load leaves in L1 has settings.                                  *)
LEMMA FillsFacts ==
  ASSUME L1OK, NEW i \in Isolate, NEW e \in Cached, NEW b \in Nat, NEW r \in Nat,
         Fills(i, e, b, r)
  PROVE  L1OK'
BY DEF L1OK, Fills

LEMMA PutFacts ==
  /\ \A e \in Cached : e # NoEntry => PutEntry(e) \in Puts
  /\ \A b \in Nat : b # 0 => PutBloom(b) \in Puts
BY NoEntryFacts DEF PutEntry, PutBloom, Puts, Kinds

LEMMA Applies ==
  ASSUME IInv, NEW q \in Query, ApplyShared(q) \/ ApplyRows(q)
  PROVE  IInv'
<1> DEFINE mine == query[q]
<1>1. mine \in Question /\ Knows(mine)
  BY MineFacts DEF IInv
<1>2. CASE ApplyShared(q)
  <2> DEFINE rules == IF mine.memoryEngine # 0 THEN mine.memoryEngine ELSE mine.entry.rules
             b == IF "bloom" \in mine.read THEN mine.bloom ELSE 0
             r == IF mine.memoryEngine # 0 THEN 0 ELSE mine.entry.rules
             x == [mine EXCEPT !.at = "resolve", !.engine = rules]
  <2>1. /\ mine.at = "apply" /\ Fills(mine.isolate, mine.entry, b, r)
        /\ puts' = puts \cup (IF mine.fills THEN {PutBloom(mine.bloom)} ELSE {})
        /\ To(q, x)
        /\ UNCHANGED <<row, shared, sharedBloom, writer, record, bounds>>
    BY <1>2 DEF ApplyShared
  <2> HIDE DEF mine
  <2>2. /\ mine.isolate \in Isolate /\ mine.entry \in Cached
        /\ rules \in Nat /\ b \in Nat /\ r \in Nat
        /\ mine.bloom \in Nat /\ (mine.fills => mine.bloom # 0)
    BY <1>1, <2>1 DEF Question, Entries, Cached, Knows
  <2> HIDE DEF rules, b, r
  <2>3. x \in Question /\ Knows(x)
    BY <1>1, <2>1, <2>2 DEF Question, Stages, Knows
  <2> HIDE DEF x
  <2>4. L1OK'
    BY <2>1, <2>2, FillsFacts DEF IInv
  <2>5. L2OK'
    BY <2>1, <2>2, PutFacts DEF IInv, L2OK
  <2>6. QueriesOK'
    BY <2>1, <2>3, ToFacts DEF IInv
  <2> QED BY <2>1, <2>4, <2>5, <2>6 DEF IInv, RowsOK, WritersOK, BoundsOK, record, bounds
<1>3. CASE ApplyRows(q)
  <2> DEFINE e == Entry(mine.entry.config, mine.entry.rules, mine.bloom # 0, mine.gap)
             x == [mine EXCEPT !.at = "resolve", !.entry = e, !.engine = e.rules]
  <2>1. /\ mine.at = "d1" /\ mine.read = Tables
        /\ Fills(mine.isolate, e, mine.bloom, e.rules)
        /\ puts' = puts \cup {PutEntry(e)}
                        \cup (IF mine.bloom = 0 THEN {} ELSE {PutBloom(mine.bloom)})
        /\ To(q, x)
        /\ UNCHANGED <<row, shared, sharedBloom, writer, record, bounds>>
    BY <1>3 DEF ApplyRows
  <2> HIDE DEF mine
  <2>2. /\ mine.isolate \in Isolate /\ mine.entry.config \in Nat \ {0}
        /\ mine.entry.rules \in Nat /\ mine.gap \in BOOLEAN /\ mine.bloom \in Nat
    BY <1>1, <2>1 DEF Question, Entries, Knows, Tables
  <2>3. /\ e \in Entries /\ e.config # 0 /\ e.rules \in Nat
        /\ e.hasBloom = (mine.bloom # 0)
    BY <2>2 DEF Entry, Entries
  <2> HIDE DEF e
  <2>4. e \in Cached /\ e # NoEntry
    BY <2>3, NoEntryFacts DEF Cached
  <2>5. x \in Question /\ Knows(x)
    BY <1>1, <2>1, <2>2, <2>3 DEF Question, Stages, Knows
  <2> HIDE DEF x
  <2>6. L1OK'
    BY <2>1, <2>2, <2>3, <2>4, FillsFacts DEF IInv
  <2>7. L2OK'
    BY <2>1, <2>2, <2>4, PutFacts DEF IInv, L2OK
  <2>8. QueriesOK'
    BY <2>1, <2>5, ToFacts DEF IInv
  <2> QED BY <2>1, <2>6, <2>7, <2>8 DEF IInv, RowsOK, WritersOK, BoundsOK, record, bounds
<1> QED BY <1>2, <1>3

LEMMA Ends ==
  ASSUME IInv, NEW q \in Query,
         FallBack(q) \/ Answer(q) \/ Refuse(q) \/ ReadSharedThrows(q)
  PROVE  IInv'
<1> DEFINE mine == query[q]
<1>1. mine \in Question /\ Knows(mine)
  BY MineFacts DEF IInv
<1>2. CASE FallBack(q)
  <2> DEFINE b == IF mine.memory = NoEntry THEN 0 ELSE mine.memoryBloom
             e == IF mine.memory = NoEntry THEN 0 ELSE mine.memoryEngine
             x == [mine EXCEPT !.at = "resolve", !.gap = TRUE, !.entry = mine.memory,
                               !.bloom = b, !.engine = e]
  <2>1. mine.at = "d1" /\ To(q, x)
    BY <1>2 DEF FallBack, FallsBack
  <2> HIDE DEF mine
  <2>2. b \in Nat /\ e \in Nat /\ mine.memory \in Entries
    BY <1>1 DEF Question, Cached
  <2> HIDE DEF b, e
  <2>3. x \in Question /\ Knows(x)
    BY <1>1, <2>1, <2>2 DEF Question, Stages, Knows
  <2> HIDE DEF x
  <2>4. QueriesOK'
    BY <2>1, <2>3, ToFacts DEF IInv
  <2> QED BY <1>2, <2>4, TryFacts
          DEF FallBack, IInv, RowsOK, L1OK, L2OK, WritersOK, l1, l2, record
<1>3. CASE Answer(q)
  <2>1. mine.at = "resolve" /\ To(q, Idle)
    BY <1>3 DEF Answer
  <2>2. answer' \in [Isolate -> Verdicts]
    BY <1>1, <1>3, <2>1 DEF IInv, L1OK, Answer, Question, Entries, Verdicts
  <2>3. QueriesOK'
    BY <2>1, IdleFacts, ToFacts DEF IInv
  <2> QED BY <1>3, <2>2, <2>3
          DEF Answer, IInv, RowsOK, L1OK, L2OK, WritersOK, BoundsOK, l2, record, bounds
<1>4. CASE Refuse(q) \/ ReadSharedThrows(q)
  BY <1>4, IdleFacts, ReadsFacts DEF Refuse, ReadSharedThrows
<1> QED BY <1>2, <1>3, <1>4

-----------------------------------------------------------------------------
(* Time, the cache API, the end of an isolate.                             *)
LEMMA PutSteps ==
  ASSUME IInv, PutStep
  PROVE  IInv'
<1>1. PICK put \in puts : PutLands(put) \/ PutFails(put)
  BY DEF PutStep
<1>2. put \in Puts
  BY DEF IInv, L2OK
<1>3. L2OK'
  BY <1>1, <1>2 DEF IInv, L2OK, PutLands, PutFails, Puts
<1>4. BoundsOK'
  BY <1>1 DEF IInv, BoundsOK, PutLands, PutFails, Fault, bounds
<1> QED BY <1>1, <1>3, <1>4
        DEF PutLands, PutFails, IInv, RowsOK, L1OK, QueriesOK, WritersOK, l1, record

LEMMA TimeSteps ==
  ASSUME IInv, Time
  PROVE  IInv'
<1>1. ASSUME NEW i \in Isolate, NEW k \in Kinds, Expires(i, k)
      PROVE  IInv'
  BY <1>1, TryFacts
  DEF Expires, IInv, RowsOK, L1OK, L2OK, QueriesOK, WritersOK, l2, record
<1>2. ASSUME NEW i \in Isolate, Evict(i)
      PROVE  IInv'
  <2>1. L1OK'
    BY <1>2, NoEntryFacts, NoAnswerFact DEF Evict, IInv, L1OK
  <2> QED BY <1>2, <2>1, TryFacts
          DEF Evict, IInv, RowsOK, L2OK, QueriesOK, WritersOK, l2, record
<1>3. ASSUME NEW k \in Kinds, SharedExpires(k)
      PROVE  IInv'
  BY <1>3, NoEntryFacts, TryFacts
  DEF SharedExpires, IInv, RowsOK, L1OK, L2OK, QueriesOK, WritersOK, l1, record
<1>4. ASSUME NEW i \in Isolate, IsolateEnds(i)
      PROVE  IInv'
  <2>1. L1OK'
    BY <1>4, NoEntryFacts, NoAnswerFact DEF IsolateEnds, IInv, L1OK
  <2>2. QueriesOK'
    BY <1>4, IdleFacts DEF IsolateEnds, IInv, QueriesOK
  <2>3. WritersOK'
    BY <1>4, RestingFacts DEF IsolateEnds, IInv, WritersOK, record
  <2> QED BY <1>4, <2>1, <2>2, <2>3, TryFacts DEF IsolateEnds, IInv, RowsOK, L2OK, l2
<1> QED BY <1>1, <1>2, <1>3, <1>4 DEF Time

-----------------------------------------------------------------------------
LEMMA InitHolds == Init => IInv
<1> SUFFICES ASSUME Init PROVE IInv
  OBVIOUS
<1>1. RowsOK
  <2>1. PICK b \in First, r \in First : row = [config |-> 1, bloom |-> b, rules |-> r]
    BY DEF Init
  <2>2. First \subseteq Nat
    BY FirstAssumption
  <2> QED BY <2>1, <2>2 DEF RowsOK
<1>2. L1OK
  BY NoEntryFacts, NoAnswerFact DEF Init, L1OK
<1>3. L2OK
  BY NoEntryFacts DEF Init, L2OK
<1>4. QueriesOK
  BY IdleFacts DEF Init, QueriesOK
<1>5. WritersOK
  BY RestingFacts DEF Init, WritersOK
<1> QED BY <1>1, <1>2, <1>3, <1>4, <1>5 DEF Init, IInv, BoundsOK

LEMMA StepHolds == IInv /\ [Next]_vars => IInv'
<1> SUFFICES ASSUME IInv, [Next]_vars PROVE IInv'
  OBVIOUS
<1>1. ASSUME NEW q \in Query, QueryStep(q) PROVE IInv'
  BY <1>1, SharedReads, FilterReads, RowReads, Applies, Ends DEF QueryStep
<1>2. CASE UNCHANGED vars
  BY <1>2 DEF vars, l1, l2, record, bounds, IInv, RowsOK, L1OK, L2OK, QueriesOK, WritersOK,
              BoundsOK
<1> QED BY <1>1, <1>2, WriterSteps, Begins, PutSteps, TimeSteps DEF Next

LEMMA Invariance == Spec => []IInv
BY InitHolds, StepHolds, PTL DEF Spec

(* The variables keep their types, and no level of cache ever holds an     *)
(* entry without settings (the emergency settings of load()), for any      *)
(* isolates, queries and handlers, whatever fails.                         *)
THEOREM TypeCorrect == Spec => []TypeOK
BY Invariance, Parts, PTL

(* A query whose settings come with a filter is never decided without it   *)
(* unless the filter could not be had: the short cut of L1 and the three   *)
(* places load() takes a filter from, whatever expires between them.       *)
THEOREM FiltersKept == Spec => []FilterKept
BY Invariance, Parts, PTL
-----------------------------------------------------------------------------
(* SettledIsCurrent. A pair is kept from the moment a clearing that nothing *)
(* disturbed has emptied L1 (calm), and as long as it is settled after it. *)
Clearing(w, i, k) == writer[w].calm /\ writer[w].isolate = i /\ k \in writer[w].kinds
Kept(i, k) == <<i, k>> \in settled \/ \E w \in Writer : Clearing(w, i, k)

(* What an entry may be: made of the rows, but for reads that failed.      *)
FreshEntry(e) == \/ e = NoEntry
                 \/ /\ e.config = row.config /\ e.rules \in {0, row.rules}
                    /\ e.gap \/ (e.rules = row.rules /\ e.hasBloom = (row.bloom # 0))
HasRight(e) == e = NoEntry \/ e.gap \/ e.hasBloom = (row.bloom # 0)
FreshAnswer(a) == a = NoAnswer \/ a.gap \/ (a.config = row.config /\ a.rules = row.rules)
RightAnswer(a) == a = NoAnswer \/ a.gap \/ a.bloom = row.bloom

(* A query, on any isolate, that reads rows has read them as they are.     *)
Loading == {"l2", "bloom2", "bloom3", "apply", "d1"}
WithEntry == {"bloom2", "bloom3", "apply"}
ReadBloom(x) == x.at = "d1" /\ "bloom" \in x.read => 
                   x.bloom \in {0, row.bloom} /\ (x.gap \/ x.bloom = row.bloom)
ReadConfig(x) ==
    /\ x.at = "d1" /\ "config" \in x.read => x.entry.config = row.config
    /\ x.at = "d1" /\ "rules" \in x.read =>
          x.entry.rules \in {0, row.rules} /\ (x.gap \/ x.entry.rules = row.rules)
    /\ ReadBloom(x)
(* One of the isolate itself has taken only such copies.                   *)
TookConfig(x) ==
    /\ x.at \in Loading => x.memoryEngine \in {0, row.rules}
    /\ x.at \in WithEntry => FreshEntry(x.entry) /\ (x.entry.gap => x.gap)
    /\ x.at = "resolve" => x.gap \/ (x.entry.config = row.config /\ x.engine = row.rules)
TookBloom(x) ==
    /\ x.at \in Loading => x.memoryBloom \in {0, row.bloom}
    /\ x.at \in WithEntry => HasRight(x.entry) /\ (x.entry.gap => x.gap)
    /\ x.at \in {"l2", "bloom2", "bloom3"} => x.bloom = 0
    /\ x.at = "apply" => x.bloom \in {0, row.bloom}
    /\ x.at \in {"apply", "resolve"} => x.gap \/ x.bloom = row.bloom
QueryConfig(i, x) == ReadConfig(x) /\ (x.isolate = i => TookConfig(x))
QueryBloom(i, x) == /\ ReadBloom(x)
                    /\ x.at = "apply" /\ x.fills => x.bloom = row.bloom
                    /\ x.isolate = i => TookBloom(x)

PutConfig(p) == p.key = "config" => FreshEntry(p.entry)
PutRight(p) == IF p.key = "config" THEN HasRight(p.entry) ELSE p.bloom = row.bloom

ConfigCurrent(i) ==
    /\ FreshEntry(config[i]) /\ engine[i] \in {0, row.rules} /\ FreshAnswer(answer[i])
    /\ \A p \in puts : PutConfig(p)
    /\ \A q \in Query : QueryConfig(i, query[q])
BloomCurrent(i) ==
    /\ HasRight(config[i]) /\ bloom[i] \in {0, row.bloom} /\ RightAnswer(answer[i])
    /\ \A p \in puts : PutRight(p)
    /\ \A q \in Query : QueryBloom(i, query[q])

(* What is left of L2 to delete may be old.                                *)
Purged(i, k, key) == \/ <<i, k>> \in settled
                     \/ \E w \in Writer : Clearing(w, i, k) /\ key \notin writer[w].todo
SharedCurrent ==
    \A i \in Isolate :
        /\ Purged(i, "config", "config") => FreshEntry(shared)
        /\ Purged(i, "bloom", "config") => HasRight(shared)
        /\ Purged(i, "bloom", "bloom") => sharedBloom \in {0, row.bloom}

(* Between the two, nothing of the isolate has come back.                  *)
Cleared(x) ==
    x.calm => /\ x.at = "purge" /\ x.todo \subseteq x.kinds
              /\ config[x.isolate] = NoEntry /\ engine[x.isolate] = 0
              /\ answer[x.isolate] = NoAnswer
              /\ "bloom" \in x.kinds => bloom[x.isolate] = 0
              /\ \A q \in Query : query[q].isolate # x.isolate

Currency == /\ \A w \in Writer : Cleared(writer[w])
            /\ \A i \in Isolate : Kept(i, "config") => ConfigCurrent(i)
            /\ \A i \in Isolate : Kept(i, "bloom") => BloomCurrent(i)
            /\ SharedCurrent

L1Config(i) == FreshEntry(config[i]) /\ engine[i] \in {0, row.rules} /\ FreshAnswer(answer[i])
L1Bloom(i) == HasRight(config[i]) /\ bloom[i] \in {0, row.bloom} /\ RightAnswer(answer[i])
PutsConfig == \A p \in puts : PutConfig(p)
PutsRight == \A p \in puts : PutRight(p)

LEMMA CurrentParts ==
  /\ \A i \in Isolate : ConfigCurrent(i) <=>
        L1Config(i) /\ PutsConfig /\ \A q \in Query : QueryConfig(i, query[q])
  /\ \A i \in Isolate : BloomCurrent(i) <=>
        L1Bloom(i) /\ PutsRight /\ \A q \in Query : QueryBloom(i, query[q])
BY DEF ConfigCurrent, BloomCurrent, L1Config, L1Bloom, PutsConfig, PutsRight

(* A clearing that is under way is on an isolate that no query is on.      *)
LEMMA Quiet ==
  ASSUME IInv, Currency, NEW w \in Writer, writer[w].calm
  PROVE  /\ writer[w].isolate \in Isolate
         /\ \A q \in Query : query[q].isolate # writer[w].isolate
BY WorkFacts DEF IInv, Currency, Cleared, Placed

(* What a query takes is settled, not only cleared.                        *)
LEMMA Settles ==
  ASSUME IInv, Currency, NEW q \in Query, NEW k \in Kinds, Kept(query[q].isolate, k)
  PROVE  <<query[q].isolate, k>> \in settled
BY Quiet DEF Kept, Clearing

(* One query goes on; L1 changes on its isolate only.                      *)
LEMMA QueryMoves ==
  ASSUME IInv, Currency, NEW q \in Query, NEW x, To(q, x),
         UNCHANGED <<row, writer, settled, shared, sharedBloom>>,
         \A w \in Writer : writer[w].calm => x.isolate # writer[w].isolate,
         \A j \in Isolate : \/ j = query[q].isolate
                            \/ /\ config'[j] = config[j] /\ engine'[j] = engine[j]
                               /\ answer'[j] = answer[j] /\ bloom'[j] = bloom[j],
         \A i \in Isolate : Kept(i, "config") =>
            QueryConfig(i, x) /\ L1Config(i)' /\ PutsConfig',
         \A i \in Isolate : Kept(i, "bloom") =>
            QueryBloom(i, x) /\ L1Bloom(i)' /\ PutsRight'
  PROVE  Currency'
<1>1. \A y \in Query : query'[y] = IF y = q THEN x ELSE query[y]
  BY DEF To, IInv, QueriesOK
<1>2. \A i \in Isolate : Kept(i, "config")' => ConfigCurrent(i)'
  <2> SUFFICES ASSUME NEW i \in Isolate, Kept(i, "config")'
               PROVE  L1Config(i)' /\ PutsConfig' /\ \A y \in Query : QueryConfig(i, query[y])'
    BY CurrentParts DEF ConfigCurrent, L1Config, PutsConfig
  <2>1. Kept(i, "config") /\ ConfigCurrent(i)
    BY DEF Kept, Clearing, Currency
  <2>2. ASSUME NEW y \in Query PROVE QueryConfig(i, query[y])'
    <3>1. QueryConfig(i, query'[y])
      BY <1>1, <2>1 DEF ConfigCurrent
    <3> QED BY <3>1 DEF QueryConfig, ReadConfig, ReadBloom, TookConfig, FreshEntry
  <2> QED BY <2>1, <2>2
<1>3. \A i \in Isolate : Kept(i, "bloom")' => BloomCurrent(i)'
  <2> SUFFICES ASSUME NEW i \in Isolate, Kept(i, "bloom")'
               PROVE  L1Bloom(i)' /\ PutsRight' /\ \A y \in Query : QueryBloom(i, query[y])'
    BY CurrentParts DEF BloomCurrent, L1Bloom, PutsRight
  <2>1. Kept(i, "bloom") /\ BloomCurrent(i)
    BY DEF Kept, Clearing, Currency
  <2>2. ASSUME NEW y \in Query PROVE QueryBloom(i, query[y])'
    <3>1. QueryBloom(i, query'[y])
      BY <1>1, <2>1 DEF BloomCurrent
    <3> QED BY <3>1 DEF QueryBloom, ReadBloom, TookBloom, HasRight
  <2> QED BY <2>1, <2>2
<1>4. SharedCurrent'
  BY DEF SharedCurrent, Currency, Purged, Clearing, FreshEntry, HasRight
<1>5. \A w \in Writer : Cleared(writer[w])'
  <2> SUFFICES ASSUME NEW w \in Writer, writer[w].calm PROVE Cleared(writer[w])'
    BY DEF Cleared
  <2>1. Cleared(writer[w]) /\ writer[w].isolate \in Isolate
        /\ query[q].isolate # writer[w].isolate
    BY Quiet DEF Currency
  <2> QED BY <1>1, <2>1 DEF Cleared
<1> QED BY <1>2, <1>3, <1>4, <1>5 DEF Currency

(* A query reads, and L1 and what goes to L2 stay as they are.             *)
LEMMA QueryReads ==
  ASSUME IInv, Currency, NEW q \in Query, NEW x, To(q, x),
         UNCHANGED <<row, l1, writer, settled, l2>>,
         \A w \in Writer : writer[w].calm => x.isolate # writer[w].isolate,
         \A i \in Isolate : Kept(i, "config") => QueryConfig(i, x),
         \A i \in Isolate : Kept(i, "bloom") => QueryBloom(i, x)
  PROVE  Currency'
<1>1. ASSUME NEW i \in Isolate, Kept(i, "config") PROVE L1Config(i)' /\ PutsConfig'
  BY <1>1 DEF Currency, ConfigCurrent, L1Config, PutsConfig, l1, l2, FreshEntry, FreshAnswer,
     PutConfig
<1>2. ASSUME NEW i \in Isolate, Kept(i, "bloom") PROVE L1Bloom(i)' /\ PutsRight'
  BY <1>2 DEF Currency, BloomCurrent, L1Bloom, PutsRight, l1, l2, HasRight, RightAnswer, PutRight
<1> QED BY <1>1, <1>2, QueryMoves DEF l1, l2

LEMMA Hit ==
  ASSUME IInv, Currency, NEW q \in Query, NEW i \in Isolate, HitL1(q, i)
  PROVE  Currency'
<1> DEFINE b == IF BloomInForce(i) THEN bloom[i] ELSE 0
           e == IF engine[i] # 0 THEN engine[i] ELSE config[i].rules
           x == [Idle EXCEPT !.at = "resolve", !.isolate = i, !.entry = config[i],
                             !.bloom = b, !.engine = e, !.gap = config[i].gap]
<1>1. /\ config[i] # NoEntry /\ (config[i].hasBloom => b # 0) /\ To(q, x)
      /\ UNCHANGED <<row, l1, l2, writer, record, bounds>>
  BY DEF HitL1, Hits, BloomInForce, IInv, L1OK
<1>2. /\ x.at = "resolve" /\ x.isolate = i /\ x.entry = config[i] /\ x.bloom = b
      /\ x.engine = e /\ x.gap = config[i].gap
  BY DEF Idle
<1> HIDE DEF x
<1>3. \A w \in Writer : writer[w].calm => x.isolate # writer[w].isolate
  BY <1>1, <1>2 DEF Currency, Cleared
<1>4. ASSUME NEW j \in Isolate, Kept(j, "config") PROVE QueryConfig(j, x)
  <2>1. ConfigCurrent(j)
    BY <1>4 DEF Currency
  <2> QED BY <1>1, <1>2, <2>1 DEF ConfigCurrent, QueryConfig, ReadConfig, ReadBloom,
             TookConfig, FreshEntry, Loading, WithEntry
<1>5. ASSUME NEW j \in Isolate, Kept(j, "bloom") PROVE QueryBloom(j, x)
  <2>1. BloomCurrent(j)
    BY <1>5 DEF Currency
  <2>2. b \in {0, bloom[i]}
    OBVIOUS
  <2> HIDE DEF b
  <2> QED BY <1>1, <1>2, <2>1, <2>2 DEF BloomCurrent, QueryBloom, ReadBloom,
             TookBloom, HasRight, Loading, WithEntry
<1> QED BY <1>1, <1>3, <1>4, <1>5, QueryReads DEF record

(* A load begins: it takes what L1 has, and no clearing of its isolate is  *)
(* undisturbed any more.                                                   *)
LEMMA Miss ==
  ASSUME IInv, Currency, NEW q \in Query, NEW i \in Isolate, MissL1(q, i)
  PROVE  Currency'
<1> DEFINE x == [Idle EXCEPT !.at = "l2", !.isolate = i, !.memory = config[i],
                             !.memoryBloom = bloom[i],
                             !.stale = <<i, "bloom">> \in expired,
                             !.memoryEngine = engine[i]]
<1>1. /\ To(q, x) /\ UNCHANGED <<row, l1, l2, settled>>
      /\ writer' = [w \in Writer |-> IF writer[w].isolate # i THEN writer[w]
                                     ELSE [writer[w] EXCEPT !.calm = FALSE]]
  BY DEF MissL1, record
<1>2. /\ x.at = "l2" /\ x.isolate = i /\ x.memoryBloom = bloom[i]
      /\ x.memoryEngine = engine[i] /\ ~x.fills /\ x.bloom = 0
  BY DEF Idle
<1> HIDE DEF x
<1>3. \A y \in Query : query'[y] = IF y = q THEN x ELSE query[y]
  BY <1>1 DEF To, IInv, QueriesOK
<1>4. \A w \in Writer : /\ writer'[w].calm => writer[w].calm /\ writer[w].isolate # i
                                              /\ writer'[w] = writer[w]
                        /\ writer'[w].todo = writer[w].todo
  BY <1>1, WorkFacts DEF IInv, Work
<1>5. \A j \in Isolate, k \in Kinds : Kept(j, k)' => Kept(j, k)
  BY <1>1, <1>4 DEF Kept, Clearing
<1>6. ASSUME NEW j \in Isolate, Kept(j, "config")' PROVE ConfigCurrent(j)'
  <2>1. ConfigCurrent(j)
    BY <1>5, <1>6 DEF Currency, Kinds
  <2>2. ASSUME NEW y \in Query PROVE QueryConfig(j, query[y])'
    <3>1. QueryConfig(j, query'[y])
      BY <1>2, <1>3, <2>1 DEF ConfigCurrent, QueryConfig, ReadConfig, ReadBloom, TookConfig,
         Loading, WithEntry
    <3> QED BY <1>1, <3>1 DEF QueryConfig, ReadConfig, ReadBloom, TookConfig, FreshEntry
  <2> QED BY <1>1, <2>1, <2>2 DEF ConfigCurrent, l1, l2, FreshEntry, FreshAnswer, PutConfig
<1>7. ASSUME NEW j \in Isolate, Kept(j, "bloom")' PROVE BloomCurrent(j)'
  <2>1. BloomCurrent(j)
    BY <1>5, <1>7 DEF Currency, Kinds
  <2>2. ASSUME NEW y \in Query PROVE QueryBloom(j, query[y])'
    <3>1. QueryBloom(j, query'[y])
      BY <1>2, <1>3, <2>1 DEF BloomCurrent, QueryBloom, ReadBloom, TookBloom,
         Loading, WithEntry
    <3> QED BY <1>1, <3>1 DEF QueryBloom, ReadBloom, TookBloom, HasRight
  <2> QED BY <1>1, <2>1, <2>2 DEF BloomCurrent, l1, l2, HasRight, RightAnswer, PutRight
<1>8. SharedCurrent'
  <2>1. \A j \in Isolate, k, key \in Kinds : Purged(j, k, key)' => Purged(j, k, key)
    BY <1>1, <1>4 DEF Purged, Clearing
  <2> QED BY <1>1, <2>1 DEF SharedCurrent, Currency, Kinds, l2, FreshEntry, HasRight
<1>9. ASSUME NEW w \in Writer PROVE Cleared(writer[w])'
  BY <1>1, <1>2, <1>3, <1>4 DEF Currency, Cleared, l1
<1> QED BY <1>6, <1>7, <1>8, <1>9 DEF Currency

(* The query stays where it is, and off the isolates being cleared.        *)
LEMMA Stays ==
  ASSUME IInv, Currency, NEW q \in Query, NEW x, x.isolate = query[q].isolate
  PROVE  \A w \in Writer : writer[w].calm => x.isolate # writer[w].isolate
BY Quiet

LEMMA SharedTaken ==
  ASSUME IInv, Currency, NEW q \in Query, NEW ok \in BOOLEAN, ReadShared(q, ok)
  PROVE  Currency'
<1> DEFINE mine == query[q]
           x1 == [mine EXCEPT !.at = "d1"]
           x2 == [mine EXCEPT !.at = "apply", !.entry = shared,
                              !.gap = shared.gap, !.bloom = mine.memoryBloom]
           x3 == [mine EXCEPT !.at = "bloom2", !.entry = shared, !.gap = shared.gap]
<1>1. mine \in Question /\ Knows(mine) /\ mine.at = "l2" /\ mine.read = {} /\ ~mine.fills
  BY MineFacts DEF IInv, ReadShared, Knows
<1>2. PICK x \in {x1, x2, x3} :
        /\ x # x1 => shared # NoEntry
        /\ x = x2 => mine.memoryBloom # 0
        /\ To(q, x) /\ UNCHANGED <<row, l1, l2, writer, settled>>
  <2>1. \/ Reads(q, x1, ok)
        \/ shared # NoEntry /\ mine.memoryBloom # 0 /\ Reads(q, x2, TRUE)
        \/ shared # NoEntry /\ Reads(q, x3, ok)
    BY DEF ReadShared
  <2>2. x2.at = "apply" /\ x3.at = "bloom2" /\ x1.at = "d1"
    BY <1>1 DEF Question
  <2> HIDE DEF x1, x2, x3
  <2> QED BY <2>1, <2>2 DEF Reads, record
<1> HIDE DEF mine
<1>3. /\ x.isolate = mine.isolate /\ x.read = {} /\ ~x.fills
      /\ x.memoryEngine = mine.memoryEngine /\ x.memoryBloom = mine.memoryBloom
      /\ \/ x.at = "d1"
         \/ /\ x.at \in {"apply", "bloom2"} /\ x.entry = shared /\ x.gap = shared.gap
            /\ shared # NoEntry
            /\ x.bloom = IF x.at = "apply" THEN mine.memoryBloom ELSE mine.bloom
            /\ x.at = "apply" => x.bloom # 0
  BY <1>1, <1>2 DEF Question
<1> HIDE DEF x1, x2, x3
<1>4. ASSUME NEW i \in Isolate, Kept(i, "config") PROVE QueryConfig(i, x)
  <2>1. QueryConfig(i, mine)
    BY <1>4 DEF Currency, ConfigCurrent, mine
  <2>2. i = mine.isolate => FreshEntry(shared)
    BY <1>4, Settles DEF mine, Kinds, Currency, SharedCurrent, Purged
  <2> QED BY <1>1, <1>3, <2>1, <2>2 DEF QueryConfig, ReadConfig, ReadBloom, TookConfig,
             Loading, WithEntry
<1>5. ASSUME NEW i \in Isolate, Kept(i, "bloom") PROVE QueryBloom(i, x)
  <2>1. QueryBloom(i, mine)
    BY <1>5 DEF Currency, BloomCurrent, mine
  <2>2. i = mine.isolate => HasRight(shared)
    BY <1>5, Settles DEF mine, Kinds, Currency, SharedCurrent, Purged
  <2> QED BY <1>1, <1>3, <2>1, <2>2 DEF QueryBloom, ReadBloom, TookBloom, Loading, WithEntry
<1> QED BY <1>2, <1>3, <1>4, <1>5, Stays, QueryReads DEF mine

LEMMA FilterTaken ==
  ASSUME IInv, Currency, NEW q \in Query, NEW ok \in BOOLEAN,
         ReadSharedBloom(q, ok) \/ ReadBloomRow(q, ok)
  PROVE  Currency'
<1> DEFINE mine == query[q]
<1>1. mine \in Question /\ Knows(mine)
  BY MineFacts DEF IInv
<1>2. CASE ReadSharedBloom(q, ok)
  <2> DEFINE x1 == [mine EXCEPT !.at = "apply", !.bloom = sharedBloom, !.read = {"bloom"}]
             x2 == [mine EXCEPT !.at = IF mine.entry.hasBloom THEN "bloom3" ELSE "apply"]
  <2>1. mine.at = "bloom2" /\ ~mine.fills
    BY <1>1, <1>2 DEF ReadSharedBloom, Knows
  <2>2. PICK x \in {x1, x2} : /\ x = x1 => sharedBloom # 0
                              /\ To(q, x) /\ UNCHANGED <<row, l1, l2, writer, settled>>
    <3>1. (sharedBloom # 0 /\ Reads(q, x1, ok)) \/ (Reads(q, x2, ok) /\ mine.read = {})
      BY <1>1, <1>2, <2>1 DEF ReadSharedBloom, Knows
    <3>2. mine.read = {} => x1.read # x2.read
      BY <1>1 DEF Question
    <3> HIDE DEF x1, x2, mine
    <3> QED BY <3>1, <3>2 DEF Reads, record
  <2> HIDE DEF mine
  <2>3. /\ x.isolate = mine.isolate /\ ~x.fills /\ x.entry = mine.entry /\ x.gap = mine.gap
        /\ x.memoryEngine = mine.memoryEngine /\ x.memoryBloom = mine.memoryBloom
        /\ \/ x.at = "apply" /\ x.bloom = sharedBloom /\ sharedBloom # 0
           \/ x.at = "bloom3" /\ x.bloom = mine.bloom
           \/ x.at = "apply" /\ x.bloom = mine.bloom /\ ~mine.entry.hasBloom
    BY <1>1, <2>1, <2>2 DEF Question
  <2> HIDE DEF x1, x2
  <2>4. ASSUME NEW i \in Isolate, Kept(i, "config") PROVE QueryConfig(i, x)
    <3>1. QueryConfig(i, mine)
      BY <2>4 DEF Currency, ConfigCurrent, mine
    <3> QED BY <2>1, <2>3, <3>1 DEF QueryConfig, ReadConfig, ReadBloom, TookConfig,
               Loading, WithEntry
  <2>5. ASSUME NEW i \in Isolate, Kept(i, "bloom") PROVE QueryBloom(i, x)
    <3>1. QueryBloom(i, mine)
      BY <2>5 DEF Currency, BloomCurrent, mine
    <3>2. i = mine.isolate => sharedBloom \in {0, row.bloom}
      BY <2>5, Settles DEF mine, Kinds, Currency, SharedCurrent, Purged
    <3>3. mine.entry # NoEntry /\ mine.entry.hasBloom \in BOOLEAN
      BY <1>1, <2>1, NoEntryFacts DEF Knows, Question, Entries
    <3>4. i = mine.isolate /\ ~mine.entry.hasBloom => mine.gap \/ row.bloom = 0
      BY <2>1, <3>1, <3>3 DEF QueryBloom, TookBloom, HasRight, WithEntry
    <3> QED BY <2>1, <2>3, <3>1, <3>2, <3>4 DEF QueryBloom, ReadBloom, TookBloom,
               Loading, WithEntry
  <2> QED BY <2>2, <2>3, <2>4, <2>5, Stays, QueryReads DEF mine
<1>3. CASE ReadBloomRow(q, ok)
  <2> DEFINE z == [mine EXCEPT !.at = "apply"]
             x1 == [z EXCEPT !.bloom = row.bloom, !.read = {"bloom"}, !.fills = TRUE]
             x2 == [z EXCEPT !.gap = TRUE]
  <2>1. mine.at = "bloom3" /\ ~mine.fills
    BY <1>1, <1>3 DEF ReadBloomRow, Knows
  <2>2. PICK x \in {x1, x2} : To(q, x) /\ UNCHANGED <<row, l1, l2, writer, settled>>
    BY <1>3 DEF ReadBloomRow, Reads, record
  <2> HIDE DEF mine
  <2>3. /\ x.isolate = mine.isolate /\ x.entry = mine.entry /\ x.at = "apply"
        /\ x.memoryEngine = mine.memoryEngine /\ x.memoryBloom = mine.memoryBloom
        /\ \/ x.bloom = row.bloom /\ x.gap = mine.gap
           \/ x.bloom = mine.bloom /\ x.gap /\ ~x.fills
    BY <1>1, <2>1, <2>2 DEF Question
  <2> HIDE DEF x1, x2
  <2>4. ASSUME NEW i \in Isolate, Kept(i, "config") PROVE QueryConfig(i, x)
    <3>1. QueryConfig(i, mine)
      BY <2>4 DEF Currency, ConfigCurrent, mine
    <3> QED BY <2>1, <2>3, <3>1 DEF QueryConfig, ReadConfig, ReadBloom, TookConfig,
               Loading, WithEntry
  <2>5. ASSUME NEW i \in Isolate, Kept(i, "bloom") PROVE QueryBloom(i, x)
    <3>1. QueryBloom(i, mine)
      BY <2>5 DEF Currency, BloomCurrent, mine
    <3> QED BY <1>1, <2>1, <2>3, <3>1 DEF QueryBloom, ReadBloom, TookBloom, HasRight,
               Loading, WithEntry, Knows
  <2> QED BY <2>2, <2>3, <2>4, <2>5, Stays, QueryReads DEF mine
<1> QED BY <1>2, <1>3

LEMMA RowTaken ==
  ASSUME IInv, Currency, NEW q \in Query, NEW t \in Tables, NEW ok \in BOOLEAN,
         ReadRow(q, t, ok)
  PROVE  Currency'
<1> DEFINE mine == query[q]
           m == [mine EXCEPT !.read = @ \cup {t}, !.gap = @ \/ ~ok]
           b == IF ok THEN row.bloom ELSE 0
           r == IF ok THEN row.rules ELSE 0
           x1 == [m EXCEPT !.entry.config = row.config]
           x2 == [m EXCEPT !.bloom = b]
           x3 == [m EXCEPT !.entry.rules = r]
<1>1. mine \in Question /\ mine.at = "d1" /\ t \notin mine.read /\ ~mine.fills
  BY MineFacts DEF IInv, ReadRow, Knows
<1>2. PICK x : /\ \/ t = "config" /\ x = x1
                  \/ t = "bloom" /\ x = x2
                  \/ t = "rules" /\ x = x3
               /\ To(q, x) /\ UNCHANGED <<row, l1, l2, writer, settled>>
  <2>1. \/ t = "config" /\ Reads(q, x1, ok)
        \/ t = "bloom" /\ Reads(q, x2, ok)
        \/ t = "rules" /\ Reads(q, x3, ok)
    BY DEF ReadRow, Tables
  <2> HIDE DEF x1, x2, x3
  <2> QED BY <2>1 DEF Reads, record
<1> HIDE DEF mine
<1>3. /\ x.at = "d1" /\ x.isolate = mine.isolate /\ ~x.fills
      /\ x.read = mine.read \cup {t} /\ x.gap = (mine.gap \/ ~ok)
      /\ x.memoryEngine = mine.memoryEngine /\ x.memoryBloom = mine.memoryBloom
      /\ x.entry.config = IF t = "config" THEN row.config ELSE mine.entry.config
      /\ x.bloom = IF t = "bloom" THEN b ELSE mine.bloom
      /\ x.entry.rules = IF t = "rules" THEN r ELSE mine.entry.rules
  <2>1. m \in Question /\ m.at = "d1" /\ m.isolate = mine.isolate /\ ~m.fills
        /\ m.read = mine.read \cup {t} /\ m.gap = (mine.gap \/ ~ok)
        /\ m.memoryEngine = mine.memoryEngine /\ m.memoryBloom = mine.memoryBloom
        /\ m.entry = mine.entry /\ m.bloom = mine.bloom
    BY <1>1 DEF Question
  <2> HIDE DEF m, b, r
  <2> QED BY <1>2, <2>1 DEF Question, Entries
<1> HIDE DEF x1, x2, x3
<1>4. ASSUME NEW i \in Isolate, Kept(i, "config") PROVE QueryConfig(i, x)
  <2>1. QueryConfig(i, mine)
    BY <1>4 DEF Currency, ConfigCurrent, mine
  <2> QED BY <1>1, <1>3, <2>1 DEF QueryConfig, ReadConfig, ReadBloom, TookConfig,
             Loading, WithEntry
<1>5. ASSUME NEW i \in Isolate, Kept(i, "bloom") PROVE QueryBloom(i, x)
  <2>1. QueryBloom(i, mine)
    BY <1>5 DEF Currency, BloomCurrent, mine
  <2> QED BY <1>1, <1>3, <2>1 DEF QueryBloom, ReadBloom, TookBloom, Loading, WithEntry
<1> QED BY <1>2, <1>3, <1>4, <1>5, Stays, QueryReads DEF mine

(* A load puts into L1 what it took, if what it took is current.           *)
LEMMA FillsCurrent ==
  ASSUME IInv, Currency, UNCHANGED row, NEW i \in Isolate, NEW e, NEW b, NEW r,
         Fills(i, e, b, r), NEW j \in Isolate
  PROVE  /\ j # i => /\ config'[j] = config[j] /\ engine'[j] = engine[j]
                     /\ answer'[j] = answer[j] /\ bloom'[j] = bloom[j]
         /\ Kept(j, "config") /\ (j = i => FreshEntry(e) /\ r \in {0, row.rules})
              => L1Config(j)'
         /\ Kept(j, "bloom") /\ (j = i => HasRight(e) /\ b \in {0, row.bloom})
              => L1Bloom(j)'
<1>1. /\ j # i => config'[j] = config[j] /\ engine'[j] = engine[j] /\ bloom'[j] = bloom[j]
      /\ answer'[j] = answer[j]
      /\ j = i => /\ config'[j] = e
                  /\ bloom'[j] = IF b = 0 THEN bloom[j] ELSE b
                  /\ engine'[j] = IF r = 0 THEN engine[j] ELSE r
  BY DEF Fills, IInv, L1OK
<1>2. ASSUME Kept(j, "config"), j = i => FreshEntry(e) /\ r \in {0, row.rules}
      PROVE  L1Config(j)'
  <2>1. L1Config(j)
    BY <1>2, CurrentParts DEF Currency
  <2> QED BY <1>1, <1>2, <2>1 DEF L1Config, FreshEntry, FreshAnswer
<1>3. ASSUME Kept(j, "bloom"), j = i => HasRight(e) /\ b \in {0, row.bloom}
      PROVE  L1Bloom(j)'
  <2>1. L1Bloom(j)
    BY <1>3, CurrentParts DEF Currency
  <2> QED BY <1>1, <1>3, <2>1 DEF L1Bloom, HasRight, RightAnswer
<1> QED BY <1>1, <1>2, <1>3

LEMMA SharedApplied ==
  ASSUME IInv, Currency, NEW q \in Query, ApplyShared(q)
  PROVE  Currency'
<1> DEFINE mine == query[q]
           rules == IF mine.memoryEngine # 0 THEN mine.memoryEngine ELSE mine.entry.rules
           b == IF "bloom" \in mine.read THEN mine.bloom ELSE 0
           r == IF mine.memoryEngine # 0 THEN 0 ELSE mine.entry.rules
           x == [mine EXCEPT !.at = "resolve", !.engine = rules]
<1>1. mine \in Question /\ Knows(mine) /\ mine.at = "apply" /\ mine.isolate \in Isolate
  BY MineFacts DEF IInv, ApplyShared, Knows
<1>2. /\ Fills(mine.isolate, mine.entry, b, r) /\ To(q, x)
      /\ puts' = puts \cup (IF mine.fills THEN {PutBloom(mine.bloom)} ELSE {})
      /\ UNCHANGED <<row, shared, sharedBloom, writer, settled>>
  BY DEF ApplyShared, record
<1> HIDE DEF mine
<1>3. /\ x.at = "resolve" /\ x.isolate = mine.isolate /\ x.entry = mine.entry
      /\ x.engine = rules /\ x.gap = mine.gap /\ x.bloom = mine.bloom
  BY <1>1 DEF Question
<1>4. mine.entry # NoEntry
  BY <1>1, NoEntryFacts DEF Knows
<1> HIDE DEF x
<1>5. ASSUME NEW i \in Isolate, Kept(i, "config")
      PROVE  QueryConfig(i, x) /\ L1Config(i)' /\ PutsConfig'
  <2>1. QueryConfig(i, mine) /\ PutsConfig
    BY <1>5, CurrentParts DEF Currency, mine
  <2>2. QueryConfig(i, x)
    BY <1>1, <1>3, <1>4, <2>1 DEF QueryConfig, ReadConfig, ReadBloom, TookConfig, FreshEntry,
       Loading, WithEntry
  <2>3. i = mine.isolate => FreshEntry(mine.entry) /\ r \in {0, row.rules}
    BY <1>1, <1>4, <2>1 DEF QueryConfig, TookConfig, FreshEntry, Loading, WithEntry
  <2>4. L1Config(i)'
    BY <1>1, <1>2, <1>5, <2>3, FillsCurrent
  <2>5. PutsConfig'
    BY <1>2, <2>1 DEF PutsConfig, PutConfig, PutBloom, FreshEntry
  <2> QED BY <2>2, <2>4, <2>5
<1>6. ASSUME NEW i \in Isolate, Kept(i, "bloom")
      PROVE  QueryBloom(i, x) /\ L1Bloom(i)' /\ PutsRight'
  <2>1. QueryBloom(i, mine) /\ PutsRight
    BY <1>6, CurrentParts DEF Currency, mine
  <2>2. QueryBloom(i, x)
    BY <1>1, <1>3, <2>1 DEF QueryBloom, ReadBloom, TookBloom, Loading, WithEntry
  <2>3. i = mine.isolate => HasRight(mine.entry) /\ b \in {0, row.bloom}
    BY <1>1, <2>1 DEF QueryBloom, TookBloom, Loading, WithEntry
  <2>4. L1Bloom(i)'
    BY <1>1, <1>2, <1>6, <2>3, FillsCurrent
  <2>5. PutsRight'
    BY <1>1, <1>2, <2>1 DEF PutsRight, PutRight, PutBloom, HasRight, QueryBloom
  <2> QED BY <2>2, <2>4, <2>5
<1>7. \A j \in Isolate : \/ j = mine.isolate
                         \/ /\ config'[j] = config[j] /\ engine'[j] = engine[j]
                            /\ answer'[j] = answer[j] /\ bloom'[j] = bloom[j]
  BY <1>1, <1>2, FillsCurrent
<1> QED BY <1>2, <1>3, <1>5, <1>6, <1>7, Stays, QueryMoves DEF mine

LEMMA RowsApplied ==
  ASSUME IInv, Currency, NEW q \in Query, ApplyRows(q)
  PROVE  Currency'
<1> DEFINE mine == query[q]
           e == Entry(mine.entry.config, mine.entry.rules, mine.bloom # 0, mine.gap)
           x == [mine EXCEPT !.at = "resolve", !.entry = e, !.engine = e.rules]
<1>1. mine \in Question /\ mine.at = "d1" /\ mine.isolate \in Isolate /\ mine.read = Tables
  BY MineFacts DEF IInv, ApplyRows, Knows
<1>2. /\ Fills(mine.isolate, e, mine.bloom, e.rules) /\ To(q, x)
      /\ puts' = puts \cup {PutEntry(e)}
                      \cup (IF mine.bloom = 0 THEN {} ELSE {PutBloom(mine.bloom)})
      /\ UNCHANGED <<row, shared, sharedBloom, writer, settled>>
  BY DEF ApplyRows, record
<1> HIDE DEF mine
<1>3. /\ x.at = "resolve" /\ x.isolate = mine.isolate /\ x.entry = e
      /\ x.engine = e.rules /\ x.gap = mine.gap /\ x.bloom = mine.bloom
  BY <1>1 DEF Question
<1>4. /\ e.config = mine.entry.config /\ e.rules = mine.entry.rules
      /\ e.hasBloom = (mine.bloom # 0) /\ e.gap = mine.gap
  BY DEF Entry
<1> HIDE DEF x, e
<1>5. ASSUME NEW i \in Isolate, Kept(i, "config")
      PROVE  QueryConfig(i, x) /\ L1Config(i)' /\ PutsConfig'
  <2>1. QueryConfig(i, mine) /\ PutsConfig
    BY <1>5, CurrentParts DEF Currency, mine
  <2>2. /\ mine.entry.config = row.config /\ mine.entry.rules \in {0, row.rules}
        /\ mine.bloom \in {0, row.bloom}
        /\ mine.gap \/ (mine.entry.rules = row.rules /\ mine.bloom = row.bloom)
    BY <1>1, <2>1 DEF QueryConfig, ReadConfig, ReadBloom, Tables
  <2>3. FreshEntry(e) /\ e.rules \in {0, row.rules}
    BY <1>4, <2>2 DEF FreshEntry
  <2>4. QueryConfig(i, x)
    BY <1>3, <1>4, <2>2 DEF QueryConfig, ReadConfig, ReadBloom, TookConfig, Loading, WithEntry
  <2>5. L1Config(i)'
    BY <1>1, <1>2, <1>5, <2>3, FillsCurrent
  <2>6. PutsConfig'
    BY <1>2, <2>1, <2>3 DEF PutsConfig, PutConfig, PutBloom, PutEntry, FreshEntry
  <2> QED BY <2>4, <2>5, <2>6
<1>6. ASSUME NEW i \in Isolate, Kept(i, "bloom")
      PROVE  QueryBloom(i, x) /\ L1Bloom(i)' /\ PutsRight'
  <2>1. QueryBloom(i, mine) /\ PutsRight
    BY <1>6, CurrentParts DEF Currency, mine
  <2>2. /\ mine.bloom \in {0, row.bloom} /\ (mine.gap \/ mine.bloom = row.bloom)
    BY <1>1, <2>1 DEF QueryBloom, ReadBloom, Tables
  <2>3. HasRight(e)
    BY <1>4, <2>2 DEF HasRight
  <2>4. QueryBloom(i, x)
    BY <1>3, <2>2 DEF QueryBloom, ReadBloom, TookBloom, Loading, WithEntry
  <2>5. L1Bloom(i)'
    BY <1>1, <1>2, <1>6, <2>2, <2>3, FillsCurrent
  <2>6. PutsRight'
    BY <1>2, <2>1, <2>2, <2>3 DEF PutsRight, PutRight, PutBloom, PutEntry, HasRight
  <2> QED BY <2>4, <2>5, <2>6
<1>7. \A j \in Isolate : \/ j = mine.isolate
                         \/ /\ config'[j] = config[j] /\ engine'[j] = engine[j]
                            /\ answer'[j] = answer[j] /\ bloom'[j] = bloom[j]
  BY <1>1, <1>2, FillsCurrent
<1> QED BY <1>2, <1>3, <1>5, <1>6, <1>7, Stays, QueryMoves DEF mine

LEMMA IdleIsAnywhere ==
  ASSUME NEW i \in Isolate
  PROVE  QueryConfig(i, Idle) /\ QueryBloom(i, Idle) /\ Idle.isolate \notin Isolate
BY NowhereAssumption DEF Idle, QueryConfig, QueryBloom, ReadConfig, ReadBloom

LEMMA Leaves ==
  ASSUME IInv, Currency, NEW q \in Query,
         FallBack(q) \/ Answer(q) \/ Refuse(q) \/ ReadSharedThrows(q)
  PROVE  Currency'
<1> DEFINE mine == query[q]
<1>1. mine \in Question /\ Knows(mine)
  BY MineFacts DEF IInv
<1>0. \A w \in Writer : writer[w].calm => writer[w].isolate \in Isolate
  BY Quiet
<1>2. CASE FallBack(q)
  <2> DEFINE b == IF mine.memory = NoEntry THEN 0 ELSE mine.memoryBloom
             e == IF mine.memory = NoEntry THEN 0 ELSE mine.memoryEngine
             x == [mine EXCEPT !.at = "resolve", !.gap = TRUE, !.entry = mine.memory,
                               !.bloom = b, !.engine = e]
  <2>1. To(q, x) /\ UNCHANGED <<row, l1, l2, writer, settled>>
    BY <1>2 DEF FallBack, FallsBack, record
  <2> HIDE DEF mine, b, e
  <2>2. x.at = "resolve" /\ x.isolate = mine.isolate /\ x.gap
    BY <1>1 DEF Question
  <2> HIDE DEF x
  <2>3. \A i \in Isolate : QueryConfig(i, x) /\ QueryBloom(i, x)
    BY <2>2 DEF QueryConfig, ReadConfig, ReadBloom, TookConfig, QueryBloom, TookBloom,
       Loading, WithEntry
  <2> QED BY <2>1, <2>2, <2>3, Stays, QueryReads DEF mine
<1>3. CASE Refuse(q) \/ ReadSharedThrows(q)
  <2>1. To(q, Idle) /\ UNCHANGED <<row, l1, l2, writer, settled>>
    BY <1>3 DEF Refuse, ReadSharedThrows, Reads, record
  <2>2. \A w \in Writer : writer[w].calm => Idle.isolate # writer[w].isolate
    BY <1>0, IdleIsAnywhere
  <2> QED BY <2>1, <2>2, IdleIsAnywhere, QueryReads
<1>4. CASE Answer(q)
  <2> DEFINE i == mine.isolate
             a == [config |-> mine.entry.config, bloom |-> mine.bloom,
                   rules |-> mine.engine, gap |-> mine.gap]
  <2>1. /\ i \in Isolate /\ mine.at = "resolve" /\ To(q, Idle)
        /\ answer' = [answer EXCEPT ![i] = a]
        /\ UNCHANGED <<row, config, bloom, engine, l2, writer, settled>>
    BY <1>1, <1>4 DEF Answer, Knows, record
  <2>2. /\ a.config = mine.entry.config /\ a.bloom = mine.bloom /\ a.rules = mine.engine
        /\ a.gap = mine.gap
    OBVIOUS
  <2>3. \A j \in Isolate : answer'[j] = IF j = i THEN a ELSE answer[j]
    BY <2>1 DEF IInv, L1OK
  <2> HIDE DEF mine, a
  <2>4. ASSUME NEW j \in Isolate, Kept(j, "config") PROVE L1Config(j)' /\ PutsConfig'
    <3>1. QueryConfig(j, mine) /\ L1Config(j) /\ PutsConfig
      BY <2>4, CurrentParts DEF Currency, mine
    <3>2. j = i => FreshAnswer(a)
      BY <2>1, <2>2, <3>1 DEF QueryConfig, TookConfig, FreshAnswer
    <3> QED BY <2>1, <2>3, <3>1, <3>2 DEF L1Config, PutsConfig, PutConfig, FreshEntry,
               FreshAnswer, l2
  <2>5. ASSUME NEW j \in Isolate, Kept(j, "bloom") PROVE L1Bloom(j)' /\ PutsRight'
    <3>1. QueryBloom(j, mine) /\ L1Bloom(j) /\ PutsRight
      BY <2>5, CurrentParts DEF Currency, mine
    <3>2. j = i => RightAnswer(a)
      BY <2>1, <2>2, <3>1 DEF QueryBloom, TookBloom, RightAnswer
    <3> QED BY <2>1, <2>3, <3>1, <3>2 DEF L1Bloom, PutsRight, PutRight, HasRight,
               RightAnswer, l2
  <2>6. \A w \in Writer : writer[w].calm => Idle.isolate # writer[w].isolate
    BY <1>0, IdleIsAnywhere
  <2>7. \A j \in Isolate : \/ j = query[q].isolate
                           \/ /\ config'[j] = config[j] /\ engine'[j] = engine[j]
                              /\ answer'[j] = answer[j] /\ bloom'[j] = bloom[j]
    BY <2>1, <2>3 DEF mine
  <2> QED BY <2>1, <2>4, <2>5, <2>6, <2>7, IdleIsAnywhere, QueryMoves DEF l2
<1> QED BY <1>2, <1>3, <1>4

-----------------------------------------------------------------------------
(* What only goes away leaves current what was.                            *)
LEMMA Subsides ==
  ASSUME IInv, Currency, UNCHANGED row, puts' \subseteq puts,
         \A i \in Isolate : /\ config'[i] \in {config[i], NoEntry}
                            /\ engine'[i] \in {engine[i], 0}
                            /\ answer'[i] \in {answer[i], NoAnswer}
                            /\ bloom'[i] \in {bloom[i], 0},
         \A q \in Query : query'[q] \in {query[q], Idle}
  PROVE  /\ \A i \in Isolate : Kept(i, "config") => ConfigCurrent(i)'
         /\ \A i \in Isolate : Kept(i, "bloom") => BloomCurrent(i)'
         /\ \A w \in Writer : writer'[w] = writer[w] => Cleared(writer[w])'
<1>1. ASSUME NEW i \in Isolate, Kept(i, "config") PROVE ConfigCurrent(i)'
  <2>1. ConfigCurrent(i)
    BY <1>1 DEF Currency
  <2>2. L1Config(i)'
    BY <2>1 DEF ConfigCurrent, L1Config, FreshEntry, FreshAnswer
  <2>3. PutsConfig'
    BY <2>1 DEF ConfigCurrent, PutsConfig, PutConfig, FreshEntry
  <2>4. ASSUME NEW q \in Query PROVE QueryConfig(i, query[q])'
    <3>1. QueryConfig(i, query'[q])
      BY <2>1, IdleIsAnywhere DEF ConfigCurrent
    <3> QED BY <3>1 DEF QueryConfig, ReadConfig, ReadBloom, TookConfig, FreshEntry
  <2> QED BY <2>2, <2>3, <2>4 DEF ConfigCurrent, L1Config, PutsConfig
<1>2. ASSUME NEW i \in Isolate, Kept(i, "bloom") PROVE BloomCurrent(i)'
  <2>1. BloomCurrent(i)
    BY <1>2 DEF Currency
  <2>2. L1Bloom(i)'
    BY <2>1 DEF BloomCurrent, L1Bloom, HasRight, RightAnswer
  <2>3. PutsRight'
    BY <2>1 DEF BloomCurrent, PutsRight, PutRight, HasRight
  <2>4. ASSUME NEW q \in Query PROVE QueryBloom(i, query[q])'
    <3>1. QueryBloom(i, query'[q])
      BY <2>1, IdleIsAnywhere DEF BloomCurrent
    <3> QED BY <3>1 DEF QueryBloom, ReadBloom, TookBloom, HasRight
  <2> QED BY <2>2, <2>3, <2>4 DEF BloomCurrent, L1Bloom, PutsRight
<1>3. ASSUME NEW w \in Writer, writer'[w] = writer[w], writer[w].calm
      PROVE  Cleared(writer[w])'
  <2>1. Cleared(writer[w]) /\ writer[w].isolate \in Isolate
    BY <1>3, Quiet DEF Currency
  <2> QED BY <1>3, <2>1, IdleIsAnywhere DEF Cleared
<1> QED BY <1>1, <1>2, <1>3 DEF Cleared

(* The same with L2, which may also receive what was on its way there.     *)
LEMMA Subsided ==
  ASSUME IInv, Currency, UNCHANGED <<row, settled>>, puts' \subseteq puts,
         \A i \in Isolate : /\ config'[i] \in {config[i], NoEntry}
                            /\ engine'[i] \in {engine[i], 0}
                            /\ answer'[i] \in {answer[i], NoAnswer}
                            /\ bloom'[i] \in {bloom[i], 0},
         \A q \in Query : query'[q] \in {query[q], Idle},
         \A w \in Writer : writer'[w] = writer[w] \/ ~writer'[w].calm,
         \/ shared' \in {shared, NoEntry}
         \/ \E p \in puts : p.key = "config" /\ shared' = p.entry,
         \/ sharedBloom' \in {sharedBloom, 0}
         \/ \E p \in puts : p.key # "config" /\ sharedBloom' = p.bloom
  PROVE  Currency'
<1>1. \A i, k, key : /\ Kept(i, k)' => Kept(i, k)
                     /\ Purged(i, k, key)' => Purged(i, k, key)
                     /\ Purged(i, k, key) => Kept(i, k)
  BY DEF Kept, Purged, Clearing
<1>2. \A w \in Writer : Cleared(writer[w])'
  BY Subsides DEF Cleared
<1>3. SharedCurrent'
  <2>1. ASSUME NEW i \in Isolate, Purged(i, "config", "config")' PROVE FreshEntry(shared)'
    <3>1. FreshEntry(shared) /\ \A p \in puts : PutConfig(p)
      BY <1>1, <2>1 DEF Currency, SharedCurrent, ConfigCurrent
    <3> QED BY <3>1 DEF FreshEntry, PutConfig
  <2>2. ASSUME NEW i \in Isolate, Purged(i, "bloom", "config")' PROVE HasRight(shared)'
    <3>1. HasRight(shared) /\ \A p \in puts : PutRight(p)
      BY <1>1, <2>2 DEF Currency, SharedCurrent, BloomCurrent
    <3> QED BY <3>1 DEF HasRight, PutRight
  <2>3. ASSUME NEW i \in Isolate, Purged(i, "bloom", "bloom")'
        PROVE  sharedBloom' \in {0, row'.bloom}
    <3>1. sharedBloom \in {0, row.bloom} /\ \A p \in puts : PutRight(p)
      BY <1>1, <2>3 DEF Currency, SharedCurrent, BloomCurrent
    <3> QED BY <3>1 DEF PutRight
  <2> QED BY <2>1, <2>2, <2>3 DEF SharedCurrent
<1> QED BY <1>1, <1>2, <1>3, Subsides DEF Currency

LEMMA Passes ==
  ASSUME IInv, Currency, PutStep \/ Time
  PROVE  Currency'
<1>1. ASSUME NEW put \in puts, PutLands(put) \/ PutFails(put) PROVE Currency'
  <2>1. /\ UNCHANGED <<row, settled, l1, query, writer>> /\ puts' \subseteq puts
        /\ \/ shared' = shared
           \/ put.key = "config" /\ shared' = put.entry
        /\ \/ sharedBloom' = sharedBloom
           \/ put.key # "config" /\ sharedBloom' = put.bloom
    BY <1>1 DEF PutLands, PutFails, record
  <2> QED BY <2>1, Subsided DEF l1
<1>2. ASSUME NEW i \in Isolate, NEW k \in Kinds, Expires(i, k) PROVE Currency'
  BY <1>2, Subsided DEF Expires, l2, record
<1>3. ASSUME NEW i \in Isolate, Evict(i) PROVE Currency'
  <2>1. \A j \in Isolate : /\ config'[j] \in {config[j], NoEntry}
                           /\ engine'[j] \in {engine[j], 0}
                           /\ answer'[j] \in {answer[j], NoAnswer}
                           /\ bloom'[j] \in {bloom[j], 0}
    BY <1>3 DEF Evict, IInv, L1OK
  <2> QED BY <1>3, <2>1, Subsided DEF Evict, l2, record
<1>4. ASSUME NEW k \in Kinds, SharedExpires(k) PROVE Currency'
  BY <1>4, Subsided DEF SharedExpires, l1, record
<1>5. ASSUME NEW i \in Isolate, IsolateEnds(i) PROVE Currency'
  <2>1. \A j \in Isolate : /\ config'[j] \in {config[j], NoEntry}
                           /\ engine'[j] \in {engine[j], 0}
                           /\ answer'[j] \in {answer[j], NoAnswer}
                           /\ bloom'[j] \in {bloom[j], 0}
    BY <1>5 DEF IsolateEnds, IInv, L1OK
  <2>2. \A w \in Writer : writer'[w] = writer[w] \/ ~writer'[w].calm
    BY <1>5 DEF IsolateEnds, Resting
  <2>3. \A q \in Query : query'[q] \in {query[q], Idle}
    BY <1>5 DEF IsolateEnds
  <2> QED BY <1>5, <2>1, <2>2, <2>3, Subsided DEF IsolateEnds, l2, record
<1> QED BY <1>1, <1>2, <1>3, <1>4, <1>5 DEF PutStep, Time

-----------------------------------------------------------------------------
(* A row is written: its copies are no longer kept, no clearing is calm.   *)
LEMMA RowWritten ==
  ASSUME IInv, Currency, NEW w \in Writer, NEW t \in Tables, NEW v, NEW next,
         ~next.calm, Writes(w, t, v, next), UNCHANGED <<l1, l2, query>>
  PROVE  Currency'
<1>1. \A x \in Writer : ~writer'[x].calm
  BY WorkFacts DEF Writes, IInv, Work
<1>2. \A i, k, key : Kept(i, k)' \/ Purged(i, k, key)' => <<i, k>> \in settled'
  BY <1>1 DEF Kept, Purged, Clearing
<1>3. \A i \in Isolate : <<i, "config">> \notin settled'
  BY DEF Writes
<1>4. ASSUME NEW i \in Isolate, <<i, "bloom">> \in settled'
      PROVE  <<i, "bloom">> \in settled /\ row'.bloom = row.bloom
  BY <1>4 DEF Writes, IInv, RowsOK
<1>5. ASSUME NEW i \in Isolate, Kept(i, "bloom")' PROVE BloomCurrent(i)'
  <2>1. BloomCurrent(i) /\ row'.bloom = row.bloom
    BY <1>2, <1>4, <1>5 DEF Currency, Kept
  <2> QED BY <2>1 DEF BloomCurrent, QueryBloom, ReadBloom, TookBloom, HasRight, RightAnswer,
             PutRight, l1, l2
<1>6. SharedCurrent'
  <2>1. ASSUME NEW i \in Isolate, <<i, "bloom">> \in settled'
        PROVE  HasRight(shared)' /\ sharedBloom' \in {0, row'.bloom}
    BY <1>4, <2>1 DEF Currency, SharedCurrent, Purged, HasRight, l2
  <2> QED BY <1>2, <1>3, <2>1 DEF SharedCurrent
<1> QED BY <1>1, <1>2, <1>3, <1>5, <1>6 DEF Currency, Cleared

LEMMA RowsChange ==
  ASSUME IInv, Currency, NEW w \in Writer,
         \/ \E i \in Isolate : ChangeSettings(w, i) \/ ChangeLists(w, i)
         \/ \E t \in Tables, v \in {0, writer[w].version} : WriteRow(w, t, v)
         \/ RowFails(w)
  PROVE  Currency'
<1>0. writer[w] \in Work /\ (writer[w].at # "purge" => ~writer[w].calm)
  BY WorkFacts DEF IInv, Currency, Cleared
<1>1. ASSUME NEW i \in Isolate, ChangeSettings(w, i) PROVE Currency'
  <2> DEFINE x == [Resting EXCEPT !.at = "clear", !.isolate = i, !.kinds = {"config"}]
  <2>1. Writes(w, "config", changes + 2, x) /\ UNCHANGED <<l1, l2, query>>
    BY <1>1 DEF ChangeSettings
  <2>2. ~x.calm
    BY DEF Resting
  <2> HIDE DEF x
  <2> QED BY <2>1, <2>2, RowWritten DEF Tables
<1>2. ASSUME NEW i \in Isolate, ChangeLists(w, i) PROVE Currency'
  <2>1. \A x \in Writer : writer'[x] = writer[x] \/ ~writer'[x].calm
    BY <1>2 DEF ChangeLists, IInv, WritersOK
  <2> QED BY <1>2, <2>1, Subsided DEF ChangeLists, l1, l2
<1>3. ASSUME NEW t \in Tables, NEW v \in {0, writer[w].version}, WriteRow(w, t, v)
      PROVE  Currency'
  <2> DEFINE left == writer[w].todo \ {t}
             x == IF left # {} THEN [writer[w] EXCEPT !.todo = left]
                  ELSE IF writer[w].kinds = {} THEN Resting
                  ELSE [writer[w] EXCEPT !.at = "clear", !.todo = {}, !.version = 0]
  <2>1. Writes(w, t, v, x) /\ UNCHANGED <<l1, l2, query>> /\ writer[w].at = "rows"
    BY <1>3 DEF WriteRow
  <2>2. ~x.calm
    BY <1>0, <2>1 DEF Resting, Work
  <2> HIDE DEF x
  <2> QED BY <2>1, <2>2, RowWritten
<1>4. ASSUME RowFails(w) PROVE Currency'
  <2>1. PICK left : writer' = [writer EXCEPT ![w] =
          IF left = {} THEN Resting ELSE [writer[w] EXCEPT !.todo = left, !.kinds = {}]]
    BY <1>4 DEF RowFails
  <2>2. ~writer[w].calm
    BY <1>0, <1>4 DEF RowFails
  <2>3. ~writer'[w].calm
    BY <1>0, <2>1, <2>2 DEF IInv, WritersOK, Work, Resting
  <2>4. \A x \in Writer : writer'[x] = writer[x] \/ ~writer'[x].calm
    BY <2>1, <2>3 DEF IInv, WritersOK
  <2> QED BY <1>4, <2>4, Subsided DEF RowFails, l1, l2, record
<1> QED BY <1>1, <1>2, <1>3, <1>4

(* A clearing empties L1. Undisturbed, nothing of the isolate and nothing  *)
(* that goes to L2 is under way.                                           *)
LEMMA Clears ==
  ASSUME IInv, Currency, NEW w \in Writer, Clear(w)
  PROVE  Currency'
<1> DEFINE i == writer[w].isolate
           kinds == writer[w].kinds
           c == Undisturbed(i)
<1>1. /\ i \in Isolate /\ kinds \subseteq Kinds /\ (kinds # {} => "config" \in kinds)
      /\ writer[w].at = "clear" /\ writer[w] \in Work
  BY WorkFacts DEF IInv, Clear, Forget, Placed, Work
<1>2. /\ UNCHANGED <<row, l2, query, settled>>
      /\ config' = [config EXCEPT ![i] = NoEntry]
      /\ engine' = [engine EXCEPT ![i] = 0]
      /\ bloom' = IF "bloom" \in kinds THEN [bloom EXCEPT ![i] = 0] ELSE bloom
      /\ answer' = [answer EXCEPT ![i] = NoAnswer]
  BY DEF Clear, Forget, record
<1>3. /\ writer'[w].isolate = i /\ writer'[w].kinds = kinds
      /\ writer'[w].at = "purge" /\ writer'[w].todo = kinds /\ writer'[w].calm = c
      /\ \A x \in Writer : x # w => writer'[x] = writer[x]
  <2> HIDE DEF c
  <2>1. writer' = [writer EXCEPT ![w].at = "purge", ![w].todo = kinds, ![w].calm = c]
    BY DEF Clear, Forget, c
  <2>2. writer[w] \in Work /\ DOMAIN writer = Writer
    BY <1>1 DEF IInv, WritersOK
  <2> QED BY <2>1, <2>2 DEF Work
<1> HIDE DEF kinds
<1>4. /\ config'[i] = NoEntry /\ engine'[i] = 0 /\ answer'[i] = NoAnswer
      /\ "bloom" \in kinds => bloom'[i] = 0
  BY <1>1, <1>2 DEF IInv, L1OK
<1>5. \A j \in Isolate : /\ config'[j] \in {config[j], NoEntry}
                         /\ engine'[j] \in {engine[j], 0}
                         /\ answer'[j] \in {answer[j], NoAnswer}
                         /\ bloom'[j] \in {bloom[j], 0}
  BY <1>1, <1>2 DEF IInv, L1OK
<1>6. /\ \A j \in Isolate : Kept(j, "config") => ConfigCurrent(j)'
      /\ \A j \in Isolate : Kept(j, "bloom") => BloomCurrent(j)'
      /\ \A x \in Writer : x # w => Cleared(writer[x])'
  BY <1>2, <1>3, <1>5, Subsides DEF l2
<1>7. c => /\ puts' = {}
           /\ \A q \in Query : query'[q].isolate # i /\ query'[q].at \notin {"d1", "apply"}
  BY <1>2 DEF Undisturbed, l2
<1>8. \A j \in Isolate : \A k : Kept(j, k)' => Kept(j, k) \/ (c /\ j = i /\ k \in kinds)
  <2> HIDE DEF c
  <2> QED BY <1>2, <1>3 DEF Kept, Clearing
<1> HIDE DEF c, i
<1>9. ASSUME NEW j \in Isolate, c, j = i
      PROVE  ConfigCurrent(j)' /\ ("bloom" \in kinds => BloomCurrent(j)')
  <2>1. L1Config(j)' /\ PutsConfig'
    BY <1>4, <1>7, <1>9 DEF L1Config, PutsConfig, FreshEntry, FreshAnswer
  <2>2. ("bloom" \in kinds => L1Bloom(j)') /\ PutsRight'
    BY <1>4, <1>7, <1>9 DEF L1Bloom, PutsRight, HasRight, RightAnswer
  <2>3. ASSUME NEW q \in Query PROVE QueryConfig(j, query[q])' /\ QueryBloom(j, query[q])'
    BY <1>7, <1>9 DEF QueryConfig, QueryBloom, ReadConfig, ReadBloom
  <2> QED BY <2>1, <2>2, <2>3 DEF ConfigCurrent, BloomCurrent, L1Config, L1Bloom, PutsConfig,
             PutsRight
<1>10. SharedCurrent'
  <2>1. \A j \in Isolate, k, key \in Kinds : Purged(j, k, key)' =>
           Purged(j, k, key) \/ (k \in kinds /\ key \notin kinds)
    BY <1>2, <1>3 DEF Purged, Clearing
  <2>2. \A j \in Isolate : /\ Purged(j, "config", "config")' => Purged(j, "config", "config")
                           /\ Purged(j, "bloom", "config")' => Purged(j, "bloom", "config")
                           /\ Purged(j, "bloom", "bloom")' => Purged(j, "bloom", "bloom")
    BY <1>1, <2>1 DEF Kinds, kinds
  <2> QED BY <1>2, <2>2 DEF Currency, SharedCurrent, FreshEntry, HasRight, l2
<1>11. Cleared(writer[w])'
  BY <1>1, <1>3, <1>4, <1>7 DEF Cleared
<1>12. \A j \in Isolate : Kept(j, "config")' => ConfigCurrent(j)'
  BY <1>6, <1>8, <1>9
<1>13. \A j \in Isolate : Kept(j, "bloom")' => BloomCurrent(j)'
  BY <1>6, <1>8, <1>9
<1> QED BY <1>6, <1>10, <1>11, <1>12, <1>13 DEF Currency

(* A key of L2 is deleted. The last one settles what a calm clearing keeps.*)
LEMMA Deletes ==
  ASSUME IInv, Currency, NEW w \in Writer, NEW k \in Kinds, DeleteShared(w, k)
  PROVE  Currency'
<1> DEFINE mine == writer[w]
           left == mine.todo \ {k}
<1>1. mine \in Work /\ Placed(mine) /\ mine.at = "purge" /\ k \in mine.todo /\ Cleared(mine)
  BY WorkFacts DEF IInv, DeleteShared, Currency
<1>2. /\ UNCHANGED <<row, l1, puts, query>>
      /\ k = "config" => shared' = NoEntry /\ sharedBloom' = sharedBloom
      /\ k # "config" => sharedBloom' = 0 /\ shared' = shared
      /\ settled' = IF left = {} /\ mine.calm
                      THEN settled \cup ({mine.isolate} \X mine.kinds) ELSE settled
  BY DEF DeleteShared
<1>3. /\ \A x \in Writer : x # w => writer'[x] = writer[x]
      /\ left = {} => writer'[w] = Resting
      /\ left # {} => /\ writer'[w].todo = left /\ writer'[w].at = mine.at
                      /\ writer'[w].calm = mine.calm /\ writer'[w].kinds = mine.kinds
                      /\ writer'[w].isolate = mine.isolate
  BY <1>1 DEF DeleteShared, IInv, WritersOK, Work
<1> HIDE DEF mine
<1>4. \A j \in Isolate : \A kk : Kept(j, kk)' => Kept(j, kk)
  BY <1>2, <1>3 DEF Kept, Clearing, Resting, mine
<1>5. \A j \in Isolate : \A kk, key : key # k /\ Purged(j, kk, key)' => Purged(j, kk, key)
  BY <1>2, <1>3 DEF Purged, Clearing, Resting, mine
<1>6. SharedCurrent'
  BY <1>2, <1>5 DEF Currency, SharedCurrent, FreshEntry, HasRight, Kinds
<1>7. /\ \A j \in Isolate : Kept(j, "config") => ConfigCurrent(j)'
      /\ \A j \in Isolate : Kept(j, "bloom") => BloomCurrent(j)'
      /\ \A x \in Writer : x # w => Cleared(writer[x])'
  BY <1>2, <1>3, Subsides DEF l1
<1>8. Cleared(writer[w])'
  <2>1. /\ writer'[w].calm => left # {} /\ writer'[w].todo = left /\ writer'[w].at = mine.at
                              /\ mine.calm /\ writer'[w].kinds = mine.kinds
                              /\ writer'[w].isolate = mine.isolate
    BY <1>3 DEF Resting
  <2> QED BY <1>1, <1>2, <2>1 DEF Cleared, l1
<1> QED BY <1>4, <1>6, <1>7, <1>8 DEF Currency

LEMMA CurrentStep == IInv /\ Currency /\ [Next]_vars => Currency'
<1> SUFFICES ASSUME IInv, Currency, [Next]_vars PROVE Currency'
  OBVIOUS
<1>1. ASSUME NEW w \in Writer, WriterStep(w) PROVE Currency'
  <2>1. CASE DeleteFails(w)
    <3>1. \A x \in Writer : writer'[x] = writer[x] \/ ~writer'[x].calm
      BY <2>1 DEF DeleteFails, IInv, WritersOK, Resting
    <3> QED BY <2>1, <3>1, Subsided DEF DeleteFails, l1, l2, record
  <2> QED BY <1>1, <2>1, RowsChange, Clears, Deletes DEF WriterStep
<1>2. ASSUME NEW q \in Query, QueryStep(q) PROVE Currency'
  BY <1>2, SharedTaken, FilterTaken, SharedApplied, RowTaken, RowsApplied, Leaves DEF QueryStep
<1>3. CASE UNCHANGED vars
  BY <1>3, Subsided DEF vars, l1, l2, record
<1> QED BY <1>1, <1>2, <1>3, RowsChange, Hit, Miss, Passes DEF Next

LEMMA CurrentInit == Init => Currency
<1> SUFFICES ASSUME Init PROVE Currency
  OBVIOUS
<1>1. \A w \in Writer : ~writer[w].calm
  BY DEF Init, Resting
<1>2. \A i \in Isolate : L1Config(i) /\ L1Bloom(i)
  BY DEF Init, L1Config, L1Bloom, FreshEntry, FreshAnswer, HasRight, RightAnswer
<1>3. PutsConfig /\ PutsRight
  BY DEF Init, PutsConfig, PutsRight
<1>4. \A i \in Isolate : \A q \in Query : QueryConfig(i, query[q]) /\ QueryBloom(i, query[q])
  BY IdleIsAnywhere DEF Init
<1>5. SharedCurrent
  BY DEF Init, SharedCurrent, FreshEntry, HasRight
<1> QED BY <1>1, <1>2, <1>3, <1>4, <1>5, CurrentParts DEF Currency, Cleared

LEMMA Settled ==
  ASSUME IInv, Currency
  PROVE  SettledIsCurrent
<1>1. ASSUME NEW e \in Cached, FreshEntry(e) PROVE CurrentEntry(e)
  <2>1. /\ row.config \in Nat /\ row.rules \in Nat
        /\ e \in Entries
    BY CachedFacts DEF IInv, RowsOK
  <2>2. ~e.gap /\ e # NoEntry => /\ e.config = row.config /\ e.rules = row.rules
                                 /\ e.hasBloom = (row.bloom # 0)
    BY <1>1 DEF FreshEntry
  <2> QED BY <2>1, <2>2 DEF CurrentEntry, Entry, Entries
<1>2. ASSUME NEW i \in Isolate, <<i, "config">> \in settled
      PROVE  CurrentEntry(config[i]) /\ CurrentEntry(shared) /\ L1Config(i)
  <2>1. L1Config(i) /\ FreshEntry(shared)
    BY <1>2, CurrentParts DEF Currency, SharedCurrent, Kept, Purged
  <2> QED BY <1>1, <2>1 DEF L1Config, IInv, L1OK, L2OK
<1>3. ASSUME NEW i \in Isolate, <<i, "bloom">> \in settled
      PROVE  L1Bloom(i) /\ sharedBloom \in {0, row.bloom}
  BY <1>3, CurrentParts DEF Currency, SharedCurrent, Kept, Purged
<1> QED BY <1>2, <1>3 DEF SettledIsCurrent, L1Config, L1Bloom, FreshAnswer, RightAnswer

LEMMA CurrencyHolds == Spec => []Currency
<1>1. Init => IInv /\ Currency
  BY InitHolds, CurrentInit
<1>2. IInv /\ Currency /\ [Next]_vars => (IInv /\ Currency)'
  BY StepHolds, CurrentStep
<1> QED BY <1>1, <1>2, PTL DEF Spec

(* After a clearing that nothing disturbed, neither the isolate nor L2     *)
(* holds a copy other than of the rows as they are, whatever queries of    *)
(* other isolates still have in hand, until a handler writes again: the    *)
(* order of clear() and of the two levels of load(), for any number of     *)
(* isolates, queries and handlers.                                         *)
THEOREM SettledCurrent == Spec => []SettledIsCurrent
<1>1. IInv /\ Currency => SettledIsCurrent
  BY Settled
<1> QED BY <1>1, Invariance, CurrencyHolds, PTL
=============================================================================
