--------------------------- MODULE LogSyncProofs ---------------------------
(***************************************************************************)
(* Theorems about LogSync: the types, that whatever the watermark hides is *)
(* accounted for, and that a checkpoint covers what a resumed download     *)
(* skips.                                                                  *)
(*                                                                         *)
(* The two are proved together.  What makes them inductive is what each    *)
(* call knows of the interval under way: above its cursor nothing is       *)
(* missing (ReadOK), and while a page waits to be taken in, what lies below*)
(* the cursor is on that page, or older than the page, which is full       *)
(* (PageOK).                                                               *)
(***************************************************************************)
EXTENDS LogSync, FiniteSetTheorems, SequenceTheorems, WellFoundedInduction,
        TLAPS

-----------------------------------------------------------------------------
(* Oldest and newest.                                                      *)

Less == {x \in Nat \X Nat : x[1] < x[2]}

(* A set of numbers has a least member. *)
LEMMA LeastMember ==
    ASSUME NEW N \in SUBSET Nat, N # {}
    PROVE  \E n \in N : \A m \in N : n <= m
<1>1. IsWellFoundedOn(Less, Nat) BY NatLessThanWellFounded, Zenon DEF OpToRel, Less
<1>2. PICK n \in N : \A m \in N : ~(<<m, n>> \in Less)
  BY <1>1, WFMin
<1>3. ASSUME NEW m \in N, m < n PROVE FALSE
  BY <1>2, <1>3 DEF Less
<1> QED BY <1>3

(* A log has one of the seconds of the clock. *)
LEMMA LogTimes == ASSUME NEW l \in Log PROVE T(l) \in Nat /\ 1 <= T(l) /\ T(l) <= MaxTime
BY NumbersAssumption DEF Log, T, Times

(* Oldest finds the time of a log that no other is older than. *)
LEMMA OldestFacts ==
    ASSUME NEW S \in SUBSET Log, S # {}
    PROVE  /\ Oldest(S) \in Nat
           /\ \E l \in S : T(l) = Oldest(S)
           /\ \A l \in S : Oldest(S) <= T(l)
<1> DEFINE N == {T(l) : l \in S}
<1>1. N \in SUBSET Nat /\ N # {} BY LogTimes
<1>2. \E t \in N : \A m \in N : t <= m BY <1>1, LeastMember
<1>3. \E t \in N : \A l \in S : t <= T(l) BY <1>2
<1>4. Oldest(S) \in N /\ \A l \in S : Oldest(S) <= T(l) BY <1>3 DEF Oldest
<1> QED BY <1>1, <1>4

(* Newest finds the time of a log that no other is newer than. *)
LEMMA NewestFacts ==
    ASSUME NEW S \in SUBSET Log, S # {}
    PROVE  /\ Newest(S) \in Nat
           /\ \E l \in S : T(l) = Newest(S)
           /\ \A l \in S : T(l) <= Newest(S)
<1> DEFINE N == {MaxTime - T(l) : l \in S}
<1>1. N \in SUBSET Nat /\ N # {} BY LogTimes, NumbersAssumption
<1>2. PICK n \in N : \A m \in N : n <= m BY <1>1, LeastMember
<1>3. PICK k \in S : n = MaxTime - T(k) BY <1>2
<1>4. \A l \in S : T(l) <= T(k)
  <2> SUFFICES ASSUME NEW l \in S PROVE T(l) <= T(k) OBVIOUS
  <2>1. MaxTime - T(k) <= MaxTime - T(l) BY <1>2, <1>3
  <2> QED BY <2>1, LogTimes, NumbersAssumption
<1>5. \E t \in {T(l) : l \in S} : \A l \in S : t >= T(l) BY <1>4, LogTimes
<1>6. Newest(S) \in {T(l) : l \in S} /\ \A l \in S : Newest(S) >= T(l) BY <1>5 DEF Newest
<1> QED BY <1>6, LogTimes

(* There are finitely many logs. *)
LEMMA LogFinite == ASSUME NEW S \in SUBSET Log PROVE IsFiniteSet(S) /\ Cardinality(S) \in Nat
<1>1. IsFiniteSet(Times) /\ IsFiniteSet(1..Twins) BY FS_Interval, NumbersAssumption DEF Times
<1>2. IsFiniteSet(Log) BY <1>1, FS_Product DEF Log
<1>3. IsFiniteSet(S) BY <1>2, FS_Subset
<1> QED BY <1>3, FS_CardinalityType

-----------------------------------------------------------------------------
(* The types.                                                              *)

Types ==
    /\ now \in Nat \ {0}
    /\ server \in SUBSET Log /\ local \in SUBSET Log
    /\ mark \in Claims \cup {None}
    /\ checkpoint \in Checkpoints \cup {None}
    /\ op \in [Slot -> Calls \cup {None}]
    /\ budget \in [Kinds \cup Extras -> Nat]
    /\ holes \in SUBSET Int

(* What is stored, and how far the claim may reach.                        *)
Stored ==
    /\ local \subseteq server
    /\ \A l \in server : T(l) <= now
    /\ mark = None => local = {}
    /\ mark # None => mark.late <= now /\ \A l \in local : T(l) <= mark.late

(* The logs of the server that the local copy lacks.                       *)
Unread == server \ local

(* From where on a call has received everything.                           *)
From(o) == IF o.dry THEN o.lo ELSE o.before

(* A call is about to read the second t, or counts on having read it; one  *)
(* that has widened the watermark carries it.                              *)
Within(o, t) == o.lo <= t /\ t < o.before /\ t < o.hi - Overlap
Carries(o, t) == o # None /\ o.at # "plan" /\ o.pages > 0 /\ Within(o, t)

(* A plan starts with an interval that is not empty and not ahead of n;    *)
(* what is left of a plan is at most one such interval.                    *)
StartsOK(todo, n) == Head(todo)[1] <= Head(todo)[2] + 1 /\ Head(todo)[2] <= n
Planned(todo, n) == todo # <<>> => StartsOK(todo, n) /\ Tail(todo) = <<>>

(* How the fields of a call fit together.                                  *)
CallOK(o, n, S) ==
    /\ o.lo <= o.before /\ o.since <= o.until /\ o.hi <= n /\ o.until <= n
    /\ Planned(o.todo, n)
    /\ o.kind = "target" => o.lo = o.since /\ o.hi = o.until
    /\ o.at = "plan" => o.kind # "target"
    /\ o.at = "count" => o.kind = "target" /\ o.pages = 0
    /\ o.at # "ingest" => o.page = {}
    /\ \A l \in o.page : l \in S /\ o.lo <= T(l) /\ T(l) <= o.hi /\ T(l) < o.before

(* Above its cursor a call has received everything that is not lost to a   *)
(* known cause or may still come late.                                     *)
ReadOK(o, U, H) ==
    o.at # "plan" =>
        \A l \in U : From(o) <= T(l) /\ T(l) < o.hi - Overlap => T(l) \in H

(* A page that waits lacks logs below the cursor only when it is full, and *)
(* only such that are not newer than its own.                              *)
PageOK(o, S) ==
    o.at = "ingest" =>
        \A l \in S \ o.page : Within(o, T(l)) =>
            /\ Cardinality(o.page) = PageSize[o.kind]
            /\ \A k \in o.page : T(l) <= T(k)

OpOK(o, n, S, U, H) == o # None => CallOK(o, n, S) /\ ReadOK(o, U, H) /\ PageOK(o, S)
OpsOK == \A s \in Slot : OpOK(op[s], now, server, Unread, holes)

(* What a checkpoint promises: with its second, nothing above is missing.  *)
SavedOK(c, n, U, H) ==
    c # None =>
        /\ c.until <= n
        /\ \A l \in U : c.before <= T(l) /\ T(l) < c.until - Overlap => T(l) \in H

(* The claim, as it is stored.                                             *)
Claimed(m, t) == m # None /\ m.early <= t /\ t < m.late - Overlap
Accounted ==
    \A l \in Unread : Claimed(mark, T(l)) =>
        T(l) \in holes \/ \E s \in Slot : Carries(op[s], T(l))

IInv == Types /\ Stored /\ OpsOK /\ SavedOK(checkpoint, now, Unread, holes) /\ Accounted

-----------------------------------------------------------------------------
(* What steps have in common.                                              *)

(* Replacing a call leaves the others alone. *)
LEMMA Replaced ==
    ASSUME Types, NEW s \in Slot, NEW n \in Calls \cup {None}, Set(s, n)
    PROVE  /\ op' \in [Slot -> Calls \cup {None}]
           /\ op'[s] = n
           /\ \A r \in Slot : r # s => op'[r] = op[r]
BY DEF Types, Set

(* A plan stays one as time passes. *)
LEMMA PlannedStays ==
    ASSUME NEW todo \in Seq(Nat \X Nat), NEW n \in Nat, NEW m \in Nat, n <= m
    PROVE  /\ todo # <<>> /\ StartsOK(todo, n) => StartsOK(todo, m)
           /\ Planned(todo, n) => Planned(todo, m)
<1>1. todo # <<>> => Head(todo)[2] \in Nat
  <2>1. todo # <<>> => Head(todo) \in Nat \X Nat OBVIOUS
  <2> QED BY <2>1
<1> QED BY <1>1 DEF Planned, StartsOK

(* A call stays well-formed while time passes, logs are taken in and       *)
(* seconds are given up.                                                   *)
LEMMA StaysOK ==
    ASSUME NEW o \in Calls \cup {None}, NEW n \in Nat, NEW m \in Nat, n <= m, NEW S,
           NEW U, NEW V \in SUBSET U, NEW H, NEW K, H \subseteq K, OpOK(o, n, S, U, H)
    PROVE  OpOK(o, m, S, V, K)
<1> SUFFICES ASSUME o # None PROVE CallOK(o, m, S) /\ ReadOK(o, V, K) /\ PageOK(o, S)
  BY DEF OpOK
<1>1. o \in Calls OBVIOUS
<1>2. o.hi \in Nat /\ o.until \in Nat BY <1>1 DEF Calls
<1>3. CallOK(o, n, S) /\ ReadOK(o, U, H) /\ PageOK(o, S) BY DEF OpOK
<1>5. CallOK(o, m, S)
  <2>1. o.hi <= m /\ o.until <= m BY <1>2, <1>3 DEF CallOK
  <2>2. Planned(o.todo, m)
    <3>1. Planned(o.todo, n) /\ o.todo \in Seq(Nat \X Nat) BY <1>1, <1>3 DEF CallOK, Calls
    <3> QED BY <3>1, PlannedStays
  <2> QED BY <1>3, <2>1, <2>2 DEF CallOK
<1>6. ReadOK(o, V, K) BY <1>3 DEF ReadOK
<1> QED BY <1>3, <1>5, <1>6

(* The same for what a checkpoint promises. *)
LEMMA StaysSaved ==
    ASSUME NEW c \in Checkpoints \cup {None}, NEW n \in Nat, NEW m \in Nat, n <= m,
           NEW U, NEW V \in SUBSET U, NEW H, NEW K, H \subseteq K, SavedOK(c, n, U, H)
    PROVE  SavedOK(c, m, V, K)
<1>1. c # None => c.until \in Nat BY DEF Checkpoints
<1> QED BY <1>1 DEF SavedOK

(* A step of one call: the others are as they were, and what is claimed    *)
(* now was accounted for by another, or is so by this one.                 *)
LEMMA CallStep ==
    ASSUME IInv, NEW s \in Slot, NEW n \in Calls \cup {None}, Set(s, n),
           UNCHANGED <<now, server>>, holes' \in SUBSET Int, holes \subseteq holes',
           budget' \in [Kinds \cup Extras -> Nat],
           checkpoint' \in Checkpoints \cup {None}, mark' \in Claims \cup {None},
           local' \in SUBSET Log, local \subseteq local', Stored',
           SavedOK(checkpoint', now, Unread', holes'),
           OpOK(n, now, server, Unread', holes'),
           \A l \in Unread' :
               /\ Claimed(mark', T(l)) /\ T(l) \notin holes'
               /\ Claimed(mark, T(l)) => Carries(op[s], T(l))
               => Carries(n, T(l))
    PROVE  IInv'
<1>1. Types /\ OpsOK /\ Accounted BY DEF IInv
<1>2. op' \in [Slot -> Calls \cup {None}] /\ op'[s] = n
      /\ \A r \in Slot : r # s => op'[r] = op[r]
  BY <1>1, Replaced
<1>3. Types' BY <1>1, <1>2 DEF Types
<1>4. Unread' \in SUBSET Unread BY DEF Unread
<1>5. OpsOK'
  <2>1. ASSUME NEW r \in Slot PROVE OpOK(op'[r], now, server, Unread', holes')
    <3>1. CASE r = s BY <1>2, <3>1
    <3>2. CASE r # s
      <4>1. OpOK(op[r], now, server, Unread, holes) BY <1>1 DEF OpsOK
      <4>2. op[r] \in Calls \cup {None} /\ now \in Nat /\ now <= now BY <1>1 DEF Types
      <4>3. ASSUME NEW V, NEW K, V \in SUBSET Unread, holes \subseteq K
            PROVE  OpOK(op[r], now, server, V, K)
        BY <4>1, <4>2, <4>3, StaysOK
      <4>4. OpOK(op[r], now, server, Unread', holes') BY <1>4, <4>3
      <4> QED BY <1>2, <3>2, <4>4
    <3> QED BY <3>1, <3>2
  <2> QED BY <2>1 DEF OpsOK
<1>6. Accounted'
  <2>1. ASSUME NEW l \in Unread', Claimed(mark', T(l)), T(l) \notin holes'
        PROVE  \E r \in Slot : Carries(op'[r], T(l))
    <3>1. CASE \E r \in Slot : r # s /\ Carries(op[r], T(l)) BY <1>2, <3>1
    <3>2. CASE ~ \E r \in Slot : r # s /\ Carries(op[r], T(l))
      <4>1. Claimed(mark, T(l)) => Carries(op[s], T(l))
        BY <1>1, <1>4, <2>1, <3>2 DEF Accounted
      <4>2. Carries(n, T(l)) BY <2>1, <4>1
      <4> QED BY <1>2, <4>2
    <3> QED BY <3>1, <3>2
  <2> QED BY <2>1 DEF Accounted, Claimed
<1> QED BY <1>3, <1>5, <1>6 DEF IInv

(* A step of one call that takes nothing in and claims nothing.            *)
LEMMA QuietStep ==
    ASSUME IInv, NEW s \in Slot, NEW n \in Calls \cup {None}, Set(s, n),
           UNCHANGED <<now, server, local, mark>>,
           holes' \in SUBSET Int, holes \subseteq holes',
           budget' \in [Kinds \cup Extras -> Nat],
           checkpoint' \in Checkpoints \cup {None},
           SavedOK(checkpoint', now, Unread, holes'),
           OpOK(n, now, server, Unread, holes'),
           \A l \in Unread :
               Claimed(mark, T(l)) /\ T(l) \notin holes' /\ Carries(op[s], T(l))
                   => Carries(n, T(l))
    PROVE  IInv'
<1>1. Types /\ Stored BY DEF IInv
<1>2. Unread' = Unread BY DEF Unread
<1>3. Stored' BY <1>1 DEF Stored
<1>4. mark' \in Claims \cup {None} /\ local' \in SUBSET Log /\ local \subseteq local'
  BY <1>1 DEF Types
<1> QED BY <1>2, <1>3, <1>4, CallStep

-----------------------------------------------------------------------------
(* The watermark.                                                          *)

(* handleGetWatermark reports a claim exactly when there is one, with the  *)
(* same end and no earlier a beginning: the clean-up may have moved it.    *)
LEMMA ReportedFacts ==
    ASSUME Types, Stored
    PROVE  /\ Reported(mark, local) \in Claims \cup {None}
           /\ Reported(mark, local) = None <=> mark = None
           /\ mark # None => /\ Reported(mark, local).late = mark.late
                             /\ Reported(mark, local).early >= mark.early
<1>1. CASE local = {} BY <1>1 DEF Reported, Types, Claims
<1>2. CASE local # {}
  <2>1. mark \in Claims /\ mark # None BY <1>2, NoneAssumption DEF Types, Stored
  <2>2. local \in SUBSET Log BY DEF Types
  <2>3. Oldest(local) \in Nat /\ Newest(local) \in Nat BY <1>2, <2>2, OldestFacts, NewestFacts
  <2>4. PICK l \in local : T(l) = Newest(local) BY <1>2, <2>2, NewestFacts
  <2>5. Newest(local) <= mark.late BY <2>1, <2>4 DEF Stored
  <2>6. mark.early \in Nat /\ mark.late \in Nat BY <2>1 DEF Claims
  <2>7. Larger(mark.late, Newest(local)) = mark.late BY <2>3, <2>5, <2>6 DEF Larger
  <2>8. Larger(mark.early, Oldest(local)) \in Nat /\ Larger(mark.early, Oldest(local)) >= mark.early
    BY <2>3, <2>6 DEF Larger
  <2>9. Reported(mark, local) = [early |-> Larger(mark.early, Oldest(local)), late |-> mark.late]
    BY <1>2, <2>1, <2>7 DEF Reported
  <2>10. Reported(mark, local) \in Claims BY <2>6, <2>8, <2>9 DEF Claims
  <2> QED BY <2>1, <2>8, <2>9, <2>10, NoneAssumption
<1> QED BY <1>1, <1>2

(* A widened claim. *)
LEMMA WidenedFacts ==
    ASSUME NEW m \in Claims \cup {None}, NEW a \in Nat, NEW b \in Nat
    PROVE  /\ Widened(m, a, b) \in Claims
           /\ m = None => Widened(m, a, b) = [early |-> a, late |-> b]
           /\ m # None => Widened(m, a, b).early = Smaller(m.early, a)
                          /\ Widened(m, a, b).late = Larger(m.late, b)
BY DEF Widened, Claims, Smaller, Larger

(* Joining short plans. *)
LEMMA Joined ==
    ASSUME NEW x \in Nat \X Nat, NEW y \in Nat \X Nat
    PROVE  <<x>> \o <<y>> = <<x, y>> /\ <<>> \o <<y>> = <<y>> /\ <<x>> \o <<>> = <<x>>
<1>1. <<x>> \in Seq(Nat \X Nat) /\ <<y>> \in Seq(Nat \X Nat) OBVIOUS
<1>2. <<>> \o <<y>> = <<y>> /\ <<x>> \o <<>> = <<x>> BY <1>1, ConcatEmptySeq
<1>3. <<x>> \o <<y>> = <<x, y>>
  <2> DEFINE c == <<x>> \o <<y>>
  <2>1. c \in Seq(Nat \X Nat) /\ Len(c) = 2 BY <1>1
  <2>2. c[1] = x /\ c[2] = y BY <1>1
  <2> HIDE DEF c
  <2>3. c = <<x, y>> BY <2>1, <2>2
  <2> QED BY <2>3 DEF c
<1> QED BY <1>2, <1>3

(* planMissingIntervals plans one interval or two, none past its range and *)
(* none empty.                                                             *)
LEMMA PlanFacts ==
    ASSUME NEW w \in Claims \cup {None}, NEW since \in Nat, NEW until \in Nat, since <= until,
           NEW todo, todo = Plan(w, since, until)
    PROVE  /\ todo \in Seq(Nat \X Nat)
           /\ todo # <<>> => StartsOK(todo, until) /\ Planned(Tail(todo), until)
<1> DEFINE late == Larger(since, w.late - Overlap)
           early == Smaller(until, w.early + Overlap)
<1>0. Overlap \in Nat BY NumbersAssumption
<1>1. ASSUME NEW x, NEW a \in Nat, NEW b \in Nat, a <= b + 1, b <= until, x = <<<<a, b>>>>
      PROVE  x \in Seq(Nat \X Nat) /\ StartsOK(x, until) /\ Tail(x) = <<>>
  <2>1. <<a, b>> \in Nat \X Nat OBVIOUS
  <2>2. Head(x) = <<a, b>> BY <1>1
  <2>3. Head(x)[1] = a /\ Head(x)[2] = b BY <2>2
  <2> QED BY <1>1, <2>1, <2>3 DEF StartsOK
<1>2. ASSUME NEW a \in Nat, NEW b \in Nat, a <= b + 1, b <= until,
             NEW c \in Nat, NEW d \in Nat, c <= d + 1, d <= until,
             todo = <<<<a, b>>, <<c, d>>>>
      PROVE  todo \in Seq(Nat \X Nat) /\ StartsOK(todo, until) /\ Planned(Tail(todo), until)
  <2>1. <<a, b>> \in Nat \X Nat /\ <<c, d>> \in Nat \X Nat OBVIOUS
  <2>2. Head(todo) = <<a, b>> BY <1>2
  <2>3. Head(todo)[1] = a /\ Head(todo)[2] = b BY <2>2
  <2>4. PICK x : x = Tail(todo) OBVIOUS
  <2>5. x = <<<<c, d>>>> BY <1>2, <2>4
  <2>6. StartsOK(x, until) /\ Tail(x) = <<>> BY <1>1, <1>2, <2>5
  <2> QED BY <1>2, <2>1, <2>3, <2>4, <2>6 DEF StartsOK, Planned
<1>3. CASE w = None \/ until <= w.early \/ since >= w.late
  <2>1. todo = <<<<since, until>>>> BY <1>3 DEF Plan
  <2> QED BY <1>1, <2>1 DEF Planned
<1>4. CASE ~(w = None \/ until <= w.early \/ since >= w.late)
  <2>1. w.early \in Nat /\ w.late \in Nat BY <1>4 DEF Claims
  <2>2. until > w.late => late \in Nat /\ late <= until + 1
    BY <1>0, <2>1 DEF Larger
  <2>3. since < w.early => early \in Nat /\ early <= until /\ since <= early + 1
    BY <1>0, <2>1 DEF Smaller
  <2>4. todo = (IF until > w.late THEN <<<<late, until>>>> ELSE <<>>)
               \o (IF since < w.early THEN <<<<since, early>>>> ELSE <<>>)
    BY <1>4 DEF Plan
  <2> HIDE DEF late, early
  <2>5. CASE until > w.late /\ since < w.early
    <3>1. todo = <<<<late, until>>, <<since, early>>>>
      <4>1. <<late, until>> \in Nat \X Nat /\ <<since, early>> \in Nat \X Nat
        BY <2>2, <2>3, <2>5
      <4> QED BY <2>4, <2>5, <4>1, Joined
    <3> QED BY <1>2, <2>2, <2>3, <2>5, <3>1
  <2>6. CASE until > w.late /\ ~(since < w.early)
    <3>1. todo = <<<<late, until>>>> BY <2>4, <2>6
    <3> QED BY <1>1, <2>2, <2>6, <3>1 DEF Planned
  <2>7. CASE ~(until > w.late) /\ since < w.early
    <3>1. todo = <<<<since, early>>>>
      <4>1. <<since, early>> \in Nat \X Nat BY <2>3, <2>7
      <4> QED BY <2>4, <2>7, <4>1, Joined
    <3> QED BY <1>1, <2>3, <2>7, <3>1 DEF Planned
  <2>8. CASE ~(until > w.late) /\ ~(since < w.early)
    <3>1. todo = <<>> BY <2>4, <2>8
    <3> QED BY <3>1
  <2> QED BY <2>5, <2>6, <2>7, <2>8
<1> QED BY <1>3, <1>4

-----------------------------------------------------------------------------
(* Calls that start, or count.                                             *)

LEMMA CallFacts ==
    ASSUME NEW kind \in Kinds, NEW since \in Nat, NEW until \in Nat
    PROVE  Call(kind, since, until) \in Calls
BY DEF Call, Calls, Stages

(* A call that has read nothing has nothing to answer for. *)
LEMMA FreshOK ==
    ASSUME NEW o \in Calls, NEW n \in Nat, NEW S, NEW U \in SUBSET Log, NEW H,
           o.page = {}, o.todo = <<>>, o.lo = o.since, o.hi = o.until, o.since <= o.until,
           o.until <= n, o.until <= o.before, o.pages = 0, o.at # "ingest", ~o.dry,
           o.at = "plan" => o.kind = "missing", o.at = "count" => o.kind = "target"
    PROVE  OpOK(o, n, S, U, H)
<1>1. o.lo \in Nat /\ o.hi \in Nat /\ o.before \in Nat /\ o.until \in Nat /\ Overlap \in Nat
  BY NumbersAssumption DEF Calls
<1>2. CallOK(o, n, S)
  <2>1. o.lo <= o.before /\ o.hi <= n /\ Planned(o.todo, n) BY <1>1 DEF Planned
  <2> QED BY <2>1 DEF CallOK
<1>3. ReadOK(o, U, H)
  <2>1. \A l \in U : T(l) \in Nat BY LogTimes
  <2>2. \A l \in U : ~(o.before <= T(l) /\ T(l) < o.hi - Overlap) BY <1>1, <2>1
  <2> QED BY <2>2 DEF ReadOK, From
<1>4. PageOK(o, S) BY DEF PageOK
<1> QED BY <1>2, <1>3, <1>4 DEF OpOK

(* What a behaviour may still do. *)
LEMMA SpendTyped ==
    ASSUME Types, NEW k \in Kinds \cup Extras, Spend(k)
    PROVE  budget' \in [Kinds \cup Extras -> Nat]
BY DEF Types, Spend

(* A call that starts. *)
LEMMA StartStep ==
    ASSUME IInv, NEW s \in Slot, op[s] = None, NEW n \in Calls, Set(s, n),
           UNCHANGED <<now, server, local, mark, holes>>,
           budget' \in [Kinds \cup Extras -> Nat], checkpoint' = checkpoint,
           n.page = {}, n.todo = <<>>, n.lo = n.since, n.hi = n.until, n.since <= n.until,
           n.until <= now, n.until <= n.before, n.pages = 0, n.at # "ingest", ~n.dry,
           n.at = "plan" => n.kind = "missing", n.at = "count" => n.kind = "target"
    PROVE  IInv'
<1>1. Types /\ SavedOK(checkpoint, now, Unread, holes) BY DEF IInv
<1>2. now \in Nat /\ Unread \in SUBSET Log /\ holes' = holes /\ holes \in SUBSET Int
      /\ checkpoint' \in Checkpoints \cup {None}
  BY <1>1 DEF Types, Unread
<1>3. OpOK(n, now, server, Unread, holes) BY <1>2, FreshOK
<1>4. \A l \in Unread : ~Carries(op[s], T(l)) BY DEF Carries
<1> QED BY <1>1, <1>2, <1>3, <1>4, QuietStep

LEMMA ProfileStarts ==
    ASSUME IInv, NEW s \in Slot, NEW since \in 1..now, StartProfile(s, since) PROVE IInv'
<1>1. Types /\ Stored BY DEF IInv
<1>2. now \in Nat /\ since \in Nat /\ since <= now BY <1>1 DEF Types
<1>3. Overlap \in Nat BY NumbersAssumption
<1> DEFINE w == Reported(mark, local)
           lo == IF w = None THEN since ELSE Larger(0, w.late - Overlap)
<1>4. lo \in Nat /\ lo <= now
  <2>1. CASE mark = None BY <1>1, <1>2, <2>1, ReportedFacts
  <2>2. CASE mark # None
    <3>1. mark.late \in Nat /\ mark.late <= now BY <1>1, <2>2 DEF Types, Stored, Claims
    <3>2. w # None /\ w.late = mark.late BY <1>1, <2>2, ReportedFacts
    <3> QED BY <1>2, <1>3, <3>1, <3>2 DEF Larger
  <2> QED BY <2>1, <2>2
<1>5. op[s] = None /\ Spend("profile") /\ Set(s, Call("profile", lo, now))
      /\ UNCHANGED <<now, server, local, mark, checkpoint, holes>>
  BY DEF StartProfile, Starts
<1> HIDE DEF lo
<1> DEFINE n == Call("profile", lo, now)
<1>6. n \in Calls BY <1>2, <1>4, CallFacts DEF Kinds
<1>7. n.page = {} /\ n.todo = <<>> /\ n.lo = n.since /\ n.hi = n.until /\ n.since <= n.until
      /\ n.until <= now /\ n.until <= n.before /\ n.pages = 0 /\ n.at = "fetch" /\ ~n.dry
  BY <1>2, <1>4 DEF Call
<1>8. budget' \in [Kinds \cup Extras -> Nat] BY <1>1, <1>5, SpendTyped DEF Kinds
<1> HIDE DEF n
<1> QED BY <1>5, <1>6, <1>7, <1>8, StartStep DEF n

LEMMA MissingStarts ==
    ASSUME IInv, NEW s \in Slot, NEW since \in 1..now, NEW until \in 1..now, since < until,
           StartMissing(s, since, until)
    PROVE  IInv'
<1>1. Types BY DEF IInv
<1>2. now \in Nat /\ since \in Nat /\ until \in Nat /\ until <= now BY <1>1 DEF Types
<1> DEFINE n == [Call("missing", since, until) EXCEPT !.at = "plan"]
<1>3. Set(s, n) /\ op[s] = None /\ Spend("missing")
      /\ UNCHANGED <<now, server, local, mark, checkpoint, holes>>
  BY DEF StartMissing, Starts
<1>4. n \in Calls
  <2>1. Call("missing", since, until) \in Calls BY <1>2, CallFacts DEF Kinds
  <2> QED BY <1>2, <2>1 DEF Calls, Stages
<1>5. n.page = {} /\ n.todo = <<>> /\ n.lo = n.since /\ n.hi = n.until /\ n.since <= n.until
      /\ n.until <= now /\ n.until <= n.before /\ n.pages = 0 /\ n.at = "plan" /\ ~n.dry
      /\ n.kind = "missing"
  BY <1>2 DEF Call
<1>6. budget' \in [Kinds \cup Extras -> Nat] BY <1>1, <1>3, SpendTyped DEF Kinds
<1> HIDE DEF n
<1> QED BY <1>3, <1>4, <1>5, <1>6, StartStep

LEMMA TargetStarts ==
    ASSUME IInv, NEW s \in Slot, NEW since \in 1..now, NEW until \in 1..now, since < until,
           StartTarget(s, since, until)
    PROVE  IInv'
<1>1. Types /\ Stored /\ OpsOK BY DEF IInv
<1>2. now \in Nat /\ since \in Nat /\ until \in Nat /\ until <= now BY <1>1 DEF Types
<1> DEFINE o == Call("target", since, until)
           want == Cardinality(InRange(server, o))
<1>3. want \in Nat
  <2>1. InRange(server, o) \in SUBSET Log BY <1>1 DEF InRange, Types
  <2> QED BY <2>1, LogFinite
<1>4. UNCHANGED <<now, server, local, mark, holes>> /\ op[s] = None
  BY DEF StartTarget
<1>5. CASE want > 0 /\ Spend("target") /\ Set(s, [o EXCEPT !.want = want, !.at = "count"])
           /\ UNCHANGED checkpoint
  <2> DEFINE n == [o EXCEPT !.want = want, !.at = "count"]
  <2>1. n \in Calls
    <3>1. Call("target", since, until) \in Calls BY <1>2, CallFacts DEF Kinds
    <3> QED BY <1>2, <1>3, <3>1 DEF Calls, Stages
  <2>2. n.page = {} /\ n.todo = <<>> /\ n.lo = n.since /\ n.hi = n.until /\ n.since <= n.until
        /\ n.until <= now /\ n.until <= n.before /\ n.pages = 0 /\ n.at = "count" /\ ~n.dry
        /\ n.kind = "target"
    BY <1>2 DEF Call
  <2>3. budget' \in [Kinds \cup Extras -> Nat] BY <1>1, <1>5, SpendTyped DEF Kinds
  <2>4. Set(s, n) BY <1>5
  <2> HIDE DEF n
  <2> QED BY <1>4, <1>5, <2>1, <2>2, <2>3, <2>4, StartStep
<1>6. CASE /\ want = 0 \/ budget["fault"] > 0
           /\ budget' = [budget EXCEPT !["target"] = @ - 1,
                                       !["fault"] = IF want = 0 THEN @ ELSE @ - 1]
           /\ checkpoint' = None /\ UNCHANGED op
  <2>1. budget["target"] > 0 BY DEF StartTarget
  <2>2. budget' \in [Kinds \cup Extras -> Nat]
    BY <1>1, <1>6, <2>1 DEF Types, Kinds, Extras
  <2>3. op[s] \in Calls \cup {None} /\ Set(s, op[s]) BY <1>1, <1>6 DEF Types, Set
  <2>4. OpOK(op[s], now, server, Unread, holes) BY <1>1 DEF OpsOK
  <2>5. SavedOK(checkpoint', now, Unread, holes') BY <1>6 DEF SavedOK
  <2>6. holes' = holes /\ holes \in SUBSET Int /\ checkpoint' \in Checkpoints \cup {None}
    BY <1>1, <1>4, <1>6 DEF Types
  <2> QED BY <1>4, <2>2, <2>3, <2>4, <2>5, <2>6, QuietStep
<1> QED BY <1>5, <1>6 DEF StartTarget

LEMMA BackfillStarts ==
    ASSUME IInv, NEW s \in Slot, NEW since \in 1..now, NEW until \in 1..now, since < until,
           StartBackfill(s, since, until)
    PROVE  IInv'
<1>1. Types BY DEF IInv
<1>2. now \in Nat /\ since \in Nat /\ until \in Nat /\ until <= now BY <1>1 DEF Types
<1> DEFINE n == [Call("backfill", since, until) EXCEPT !.before = until]
<1>3. Set(s, n) /\ op[s] = None /\ Spend("backfill")
      /\ UNCHANGED <<now, server, local, mark, checkpoint, holes>>
  BY DEF StartBackfill, Starts
<1>4. n \in Calls
  <2>1. Call("backfill", since, until) \in Calls BY <1>2, CallFacts DEF Kinds
  <2> QED BY <1>2, <2>1 DEF Calls
<1>5. n.page = {} /\ n.todo = <<>> /\ n.lo = n.since /\ n.hi = n.until /\ n.since <= n.until
      /\ n.until <= now /\ n.until <= n.before /\ n.pages = 0 /\ n.at = "fetch" /\ ~n.dry
  BY <1>2 DEF Call
<1>6. budget' \in [Kinds \cup Extras -> Nat] BY <1>1, <1>3, SpendTyped DEF Kinds
<1> HIDE DEF n
<1> QED BY <1>3, <1>4, <1>5, <1>6, StartStep

(* The local count: a checkpoint that is resumed has kept its promise.     *)
LEMMA CountStep == ASSUME IInv, NEW s \in Slot, CountLocal(s) PROVE IInv'
<1>1. Types /\ OpsOK /\ SavedOK(checkpoint, now, Unread, holes) BY DEF IInv
<1>2. now \in Nat /\ Unread \in SUBSET Log /\ budget' \in [Kinds \cup Extras -> Nat]
      /\ holes' = holes /\ holes \in SUBSET Int /\ UNCHANGED <<now, server, local, mark>>
  BY <1>1 DEF Types, Unread, CountLocal
<1>3. PICK o \in Calls : o = op[s] /\ o # None /\ o.at = "count"
  BY <1>1 DEF Types, CountLocal
<1>4. CallOK(o, now, server) /\ ReadOK(o, Unread, holes)
  BY <1>1, <1>3 DEF OpsOK, OpOK
<1>5. o.pages = 0 /\ o.lo = o.since /\ o.hi = o.until BY <1>3, <1>4 DEF CallOK
<1>6. \A l \in Unread : ~Carries(op[s], T(l)) BY <1>3, <1>5 DEF Carries, Calls
<1>7. CASE Set(s, None) /\ checkpoint' = None
  BY <1>2, <1>6, <1>7, QuietStep DEF OpOK, SavedOK
<1>8. CASE Set(s, [o EXCEPT !.at = "fetch",
                      !.before = IF Resumes(o) THEN checkpoint.before ELSE @])
           /\ UNCHANGED checkpoint
  <2> DEFINE b == IF Resumes(o) THEN checkpoint.before ELSE o.before
             n == [o EXCEPT !.at = "fetch", !.before = b]
  <2>1. Resumes(o) => checkpoint \in Checkpoints /\ checkpoint # None BY <1>1 DEF Types, Resumes
  <2>2. b \in Nat BY <2>1 DEF Calls, Checkpoints
  <2>3. n \in Calls BY <2>2 DEF Calls, Stages
  <2>4. n.lo = o.lo /\ n.hi = o.hi /\ n.since = o.since /\ n.until = o.until /\ n.todo = o.todo
        /\ n.kind = o.kind /\ n.page = o.page /\ n.dry = o.dry /\ n.at = "fetch" /\ n.before = b
    BY DEF Calls
  <2>5. o.lo <= b
    BY <1>4, <1>5, <2>1 DEF CallOK, Resumes, Calls, Checkpoints
  <2>6. Set(s, n) BY <1>8
  <2> HIDE DEF n
  <2>7. CallOK(n, now, server)
    BY <1>3, <1>4, <2>4, <2>5 DEF CallOK
  <2>8. ReadOK(n, Unread, holes)
    <3>1. CASE o.dry \/ ~Resumes(o)
      BY <1>3, <1>4, <2>4, <3>1 DEF ReadOK, From
    <3>2. CASE ~o.dry /\ Resumes(o)
      <4>1. From(n) = checkpoint.before BY <2>4, <3>2 DEF From
      <4>2. checkpoint # None /\ n.hi = checkpoint.until BY <1>5, <2>4, <3>2 DEF Resumes
      <4> QED BY <1>1, <4>1, <4>2 DEF ReadOK, SavedOK
    <3> QED BY <3>1, <3>2
  <2>9. OpOK(n, now, server, Unread, holes) BY <2>4, <2>7, <2>8 DEF OpOK, PageOK
  <2>10. checkpoint' = checkpoint /\ checkpoint \in Checkpoints \cup {None} BY <1>1, <1>8 DEF Types
  <2> QED BY <1>1, <1>2, <1>6, <2>3, <2>6, <2>9, <2>10, QuietStep
<1> QED BY <1>3, <1>7, <1>8 DEF CountLocal

(* The next interval of a plan. *)
LEMMA IntervalFacts ==
    ASSUME NEW o \in Calls, NEW n \in Nat, NEW todo \in Seq(Nat \X Nat), todo # <<>>,
           StartsOK(todo, n), Planned(Tail(todo), n),
           o.page = {}, o.kind # "target", o.since <= o.until, o.until <= n,
           NEW S, NEW U \in SUBSET Log, NEW H
    PROVE  Interval(o, todo) \in Calls /\ OpOK(Interval(o, todo), n, S, U, H)
<1> DEFINE i == Interval(o, todo)
<1>1. Tail(todo) \in Seq(Nat \X Nat) OBVIOUS
<1>2. PICK a \in Nat, b \in Nat : Head(todo)[1] = a /\ Head(todo)[2] = b
  <2>1. Head(todo) \in Nat \X Nat OBVIOUS
  <2> QED BY <2>1
<1>3. a <= b + 1 /\ b <= n BY <1>2 DEF StartsOK
<1>4. i = [o EXCEPT !.lo = a, !.hi = b, !.before = b + 1, !.todo = Tail(todo), !.pages = 0,
                    !.more = TRUE, !.dry = FALSE, !.at = "fetch"]
  BY <1>2 DEF Interval
<1> HIDE DEF i
<1>5. i \in Calls
  <2>1. b + 1 \in Nat OBVIOUS
  <2> QED BY <1>1, <1>4, <2>1 DEF Calls, Stages
<1>6. i.lo = a /\ i.hi = b /\ i.before = b + 1 /\ i.todo = Tail(todo) /\ i.pages = 0
      /\ ~i.dry /\ i.at = "fetch" /\ i.page = {} /\ i.kind = o.kind /\ i.since = o.since
      /\ i.until = o.until
  BY <1>4 DEF Calls
<1>7. CallOK(i, n, S) BY <1>3, <1>6 DEF CallOK
<1>8. ReadOK(i, U, H)
  <2>1. \A l \in U : T(l) \in Nat BY LogTimes
  <2>2. Overlap \in Nat BY NumbersAssumption
  <2>3. \A l \in U : ~(i.before <= T(l) /\ T(l) < i.hi - Overlap) BY <1>6, <2>1, <2>2
  <2> QED BY <1>6, <2>3 DEF ReadOK, From
<1>9. OpOK(i, n, S, U, H) BY <1>6, <1>7, <1>8 DEF OpOK, PageOK
<1> QED BY <1>5, <1>9 DEF i

LEMMA PlanStep == ASSUME IInv, NEW s \in Slot, PlanPass(s) PROVE IInv'
<1>1. Types /\ Stored /\ OpsOK /\ SavedOK(checkpoint, now, Unread, holes) BY DEF IInv
<1>2. now \in Nat /\ Unread \in SUBSET Log /\ budget' \in [Kinds \cup Extras -> Nat]
      /\ holes' = holes /\ holes \in SUBSET Int /\ UNCHANGED <<now, server, local, mark>>
      /\ checkpoint' = checkpoint /\ checkpoint \in Checkpoints \cup {None}
  BY <1>1 DEF Types, Unread, PlanPass
<1>3. PICK o \in Calls : o = op[s] /\ o # None /\ o.at = "plan"
  BY <1>1 DEF Types, PlanPass
<1>4. CallOK(o, now, server) BY <1>1, <1>3 DEF OpsOK, OpOK
<1>5. \A l \in Unread : ~Carries(op[s], T(l)) BY <1>3 DEF Carries
<1>6. PICK w : w = Reported(mark, local) /\ w \in Claims \cup {None} BY <1>1, ReportedFacts
<1>7. PICK todo : todo = Plan(w, o.since, o.until) OBVIOUS
<1>8. Set(s, IF todo = <<>> THEN None ELSE Interval([o EXCEPT !.got = FALSE], todo))
  BY <1>3, <1>6, <1>7 DEF PlanPass
<1>9. CASE todo = <<>> BY <1>1, <1>2, <1>5, <1>8, <1>9, QuietStep DEF OpOK
<1>10. CASE todo # <<>>
  <2>1. o.since \in Nat /\ o.until \in Nat /\ o.since <= o.until /\ o.until <= now
    BY <1>4 DEF Calls, CallOK
  <2>2. todo \in Seq(Nat \X Nat) /\ StartsOK(todo, o.until) /\ Planned(Tail(todo), o.until)
    BY <1>6, <1>7, <1>10, <2>1, PlanFacts
  <2>3. StartsOK(todo, now) /\ Planned(Tail(todo), now)
    <3>1. Tail(todo) \in Seq(Nat \X Nat) BY <1>10, <2>2
    <3> QED BY <1>2, <1>10, <2>1, <2>2, <3>1, PlannedStays
  <2> DEFINE p == [o EXCEPT !.got = FALSE]
  <2>4. p \in Calls /\ p.page = {} /\ p.kind # "target" /\ p.since = o.since /\ p.until = o.until
    BY <1>3, <1>4 DEF Calls, CallOK
  <2> HIDE DEF p
  <2>5. Interval(p, todo) \in Calls
        /\ OpOK(Interval(p, todo), now, server, Unread, holes)
    BY <1>2, <1>10, <2>1, <2>2, <2>3, <2>4, IntervalFacts
  <2>6. Set(s, Interval(p, todo)) BY <1>8, <1>10 DEF p
  <2> QED BY <1>1, <1>2, <1>5, <2>5, <2>6, QuietStep
<1> QED BY <1>9, <1>10

(* A page that lacks matching logs is full, and they are not newer.        *)
LEMMA PageFacts ==
    ASSUME NEW M \in SUBSET Log, NEW P \in SUBSET M, NEW n \in Nat, IsPage(P, M, n),
           NEW l \in M \ P
    PROVE  Cardinality(P) = n /\ \A k \in P : T(l) <= T(k)
<1>1. IsFiniteSet(M) /\ Cardinality(M) \in Nat /\ Cardinality(P) \in Nat BY LogFinite
<1>2. Cardinality(P) # Cardinality(M) BY <1>1, FS_Subset
<1>3. Cardinality(P) = n BY <1>1, <1>2 DEF IsPage, Smaller
<1>4. \A k \in P : T(k) >= T(l) BY DEF IsPage
<1>5. \A k \in P : T(k) \in Nat /\ T(l) \in Nat BY LogTimes
<1> QED BY <1>3, <1>4, <1>5

LEMMA FetchStep == ASSUME IInv, NEW s \in Slot, Fetch(s) PROVE IInv'
<1>1. Types /\ OpsOK /\ SavedOK(checkpoint, now, Unread, holes) BY DEF IInv
<1>2. now \in Nat /\ server \in SUBSET Log /\ budget' \in [Kinds \cup Extras -> Nat]
      /\ holes' = holes /\ holes \in SUBSET Int /\ UNCHANGED <<now, server, local, mark>>
      /\ checkpoint' = checkpoint /\ checkpoint \in Checkpoints \cup {None}
  BY <1>1 DEF Types, Fetch
<1>3. PICK o \in Calls : o = op[s] /\ o # None /\ o.at = "fetch"
  BY <1>1 DEF Types, Fetch
<1>4. CallOK(o, now, server) /\ ReadOK(o, Unread, holes) BY <1>1, <1>3 DEF OpsOK, OpOK
<1>5. PICK P \in SUBSET Matching(o) : /\ IsPage(P, Matching(o), PageSize[o.kind])
                                      /\ Set(s, [o EXCEPT !.page = P, !.at = "ingest"])
  BY <1>3 DEF Fetch
<1> DEFINE n == [o EXCEPT !.page = P, !.at = "ingest"]
<1>6. P \in SUBSET Log BY <1>2 DEF Matching
<1>7. n \in Calls BY <1>6 DEF Calls, Stages
<1>8. n.lo = o.lo /\ n.hi = o.hi /\ n.since = o.since /\ n.until = o.until /\ n.todo = o.todo
      /\ n.kind = o.kind /\ n.dry = o.dry /\ n.before = o.before /\ n.pages = o.pages
      /\ n.page = P /\ n.at = "ingest"
  BY DEF Calls
<1>9. Set(s, n) BY <1>5
<1> HIDE DEF n
<1>10. CallOK(n, now, server)
  <2>1. \A l \in P : l \in server /\ o.lo <= T(l) /\ T(l) <= o.hi /\ T(l) < o.before
    BY DEF Matching
  <2> QED BY <1>3, <1>4, <1>8, <2>1 DEF CallOK
<1>11. ReadOK(n, Unread, holes) BY <1>3, <1>4, <1>8 DEF ReadOK, From
<1>12. PageOK(n, server)
  <2>1. ASSUME NEW l \in server \ P, Within(o, T(l)) PROVE l \in Matching(o) \ P
    <3>1. T(l) \in Nat /\ Overlap \in Nat /\ o.hi \in Nat
      BY <1>2, LogTimes, NumbersAssumption DEF Calls
    <3> QED BY <2>1, <3>1 DEF Within, Matching
  <2>2. Matching(o) \in SUBSET Log BY <1>2 DEF Matching
  <2>3. PageSize[o.kind] \in Nat BY NumbersAssumption DEF Calls
  <2>4. \A l \in Matching(o) \ P : /\ Cardinality(P) = PageSize[o.kind]
                                   /\ \A k \in P : T(l) <= T(k)
    BY <1>5, <2>2, <2>3, PageFacts
  <2> QED BY <1>8, <2>1, <2>4 DEF PageOK, Within
<1>13. OpOK(n, now, server, Unread, holes) BY <1>10, <1>11, <1>12 DEF OpOK
<1>14. \A l \in Unread : Carries(op[s], T(l)) => Carries(n, T(l))
  BY <1>3, <1>7, <1>8, NoneAssumption DEF Carries, Within
<1> QED BY <1>1, <1>2, <1>7, <1>9, <1>13, <1>14, QuietStep

(* The end of a loop, for any reason: what the call carried is still read  *)
(* by it, or was read, or is given up.                                     *)
LEMMA CloseStep ==
    ASSUME IInv, NEW s \in Slot, NEW o \in Calls, o = op[s], o.at \in {"fetch", "ingest"},
           NEW c \in Calls, c.lo = o.lo, c.hi = o.hi, c.before = o.before, c.pages = o.pages,
           c.since = o.since, c.until = o.until, c.todo = o.todo, c.kind = o.kind,
           c.at = o.at, ReadOK(c, Unread, holes), Close(s, c),
           UNCHANGED <<now, server, local, mark>>,
           budget' \in [Kinds \cup Extras -> Nat], checkpoint' \in {checkpoint, None}
    PROVE  IInv'
<1>1. Types /\ OpsOK /\ SavedOK(checkpoint, now, Unread, holes) BY DEF IInv
<1>2. o # None /\ now \in Nat /\ holes \in SUBSET Int /\ Unread \in SUBSET Log
      /\ checkpoint \in Checkpoints \cup {None}
  BY <1>1, NoneAssumption DEF Types, Unread
<1>3. CallOK(o, now, server) BY <1>1, <1>2 DEF OpsOK, OpOK
<1>4. ASSUME NEW H, holes \subseteq H PROVE SavedOK(checkpoint', now, Unread, H)
  BY <1>1, <1>4 DEF SavedOK
<1>5. CASE Bounds(c)
  <2> DEFINE n == [c EXCEPT !.page = {}, !.at = "bound"]
  <2>1. n \in Calls BY DEF Calls, Stages
  <2>2. n.lo = o.lo /\ n.hi = o.hi /\ n.since = o.since /\ n.until = o.until /\ n.todo = o.todo
        /\ n.kind = o.kind /\ n.dry = c.dry /\ n.before = o.before /\ n.pages = o.pages
        /\ n.page = {} /\ n.at = "bound"
    BY DEF Calls
  <2>3. Set(s, n) /\ holes' = holes BY <1>5 DEF Close
  <2> HIDE DEF n
  <2>4. CallOK(n, now, server) BY <1>3, <2>2 DEF CallOK
  <2>5. ReadOK(n, Unread, holes) BY <2>2 DEF ReadOK, From
  <2>6. OpOK(n, now, server, Unread, holes) BY <2>2, <2>4, <2>5 DEF OpOK, PageOK
  <2>7. \A l \in Unread : Carries(op[s], T(l)) => Carries(n, T(l))
    BY <2>1, <2>2, NoneAssumption DEF Carries, Within
  <2> QED BY <1>1, <1>2, <1>4, <2>1, <2>3, <2>6, <2>7, QuietStep
<1>6. CASE ~Bounds(c)
  <2>1. Set(s, None) /\ holes' = holes \cup (IF c.pages = 0 THEN {} ELSE Cut(c, mark))
    BY <1>6 DEF Close
  <2>2. Cut(c, mark) \in SUBSET Int BY DEF Cut, Calls
  <2>3. holes' \in SUBSET Int /\ holes \subseteq holes' BY <1>2, <2>1, <2>2
  <2>4. ASSUME NEW l \in Unread, Claimed(mark, T(l)), Carries(o, T(l)) PROVE T(l) \in holes'
    <3>1. c.pages # 0 /\ Within(o, T(l)) BY <2>4 DEF Carries
    <3>2. CASE c.dry
      <4>1. From(c) <= T(l) /\ T(l) < c.hi - Overlap BY <3>1, <3>2 DEF From, Within
      <4> QED BY <2>3, <4>1 DEF ReadOK
    <3>3. CASE ~c.dry
      <4>1. mark \in Claims /\ mark # None BY <1>1, <2>4 DEF Types, Claimed
      <4>2. T(l) \in Nat /\ mark.early \in Nat /\ mark.late \in Nat /\ Overlap \in Nat
            /\ c.lo \in Nat /\ c.before \in Nat
        BY <1>2, <4>1, LogTimes, NumbersAssumption DEF Claims, Calls
      <4>3. T(l) \in Covered(mark) BY <2>4, <4>1, <4>2 DEF Covered, Claimed
      <4>4. T(l) \in c.lo..(c.before - 1) BY <3>1, <4>2 DEF Within
      <4> QED BY <2>1, <3>1, <3>3, <4>3, <4>4 DEF Cut
    <3> QED BY <3>2, <3>3
  <2>5. OpOK(None, now, server, Unread, holes') BY DEF OpOK
  <2> QED BY <1>1, <1>2, <1>4, <2>1, <2>3, <2>4, <2>5, QuietStep
<1> QED BY <1>5, <1>6

(* An empty page: there is nothing below the cursor either.                *)
LEMMA IngestNoneStep == ASSUME IInv, NEW s \in Slot, IngestNone(s) PROVE IInv'
<1>1. Types /\ OpsOK BY DEF IInv
<1>2. PICK o \in Calls : o = op[s] /\ o # None /\ o.at = "ingest" /\ o.page = {}
  BY <1>1 DEF Types, IngestNone
<1>3. CallOK(o, now, server) /\ ReadOK(o, Unread, holes) /\ PageOK(o, server)
  BY <1>1, <1>2 DEF OpsOK, OpOK
<1> DEFINE c == [o EXCEPT !.dry = TRUE, !.more = o.kind # "target"]
<1>4. c \in Calls BY DEF Calls
<1>5. c.lo = o.lo /\ c.hi = o.hi /\ c.before = o.before /\ c.pages = o.pages
      /\ c.since = o.since /\ c.until = o.until /\ c.todo = o.todo /\ c.kind = o.kind
      /\ c.at = o.at /\ c.dry
  BY DEF Calls
<1>6. Close(s, c) /\ UNCHANGED <<now, server, local, mark, budget>>
      /\ checkpoint' \in {checkpoint, None}
  BY <1>2 DEF IngestNone
<1> HIDE DEF c
<1>7. ReadOK(c, Unread, holes)
  <2> SUFFICES ASSUME NEW l \in Unread, c.lo <= T(l), T(l) < c.hi - Overlap PROVE T(l) \in holes
    BY <1>5 DEF ReadOK, From
  <2>1. T(l) \in Nat /\ o.lo \in Nat /\ o.before \in Nat /\ o.lo <= o.before
    BY <1>1, <1>3, LogTimes DEF Types, Unread, Calls, CallOK
  <2>2. CASE T(l) < o.before
    <3>1. Within(o, T(l)) /\ l \in server \ o.page BY <1>2, <1>5, <2>2 DEF Within, Unread
    <3>2. Cardinality({}) = PageSize[o.kind] BY <1>2, <1>3, <3>1 DEF PageOK
    <3>3. PageSize[o.kind] \in Nat \ {0} BY NumbersAssumption DEF Calls
    <3> QED BY <3>2, <3>3, FS_EmptySet
  <2>3. CASE o.before <= T(l)
    <3>1. From(o) <= T(l) BY <1>5, <2>1, <2>3 DEF From
    <3> QED BY <1>2, <1>3, <1>5, <3>1 DEF ReadOK
  <2> QED BY <2>1, <2>2, <2>3
<1>8. budget' \in [Kinds \cup Extras -> Nat] BY <1>1, <1>6 DEF Types
<1> QED BY <1>2, <1>4, <1>5, <1>6, <1>7, <1>8, CloseStep

LEMMA StopStep == ASSUME IInv, NEW s \in Slot, Stop(s) PROVE IInv'
<1>1. Types /\ OpsOK /\ SavedOK(checkpoint, now, Unread, holes) BY DEF IInv
<1>2. budget' \in [Kinds \cup Extras -> Nat] /\ UNCHANGED <<now, server, local, mark>>
  BY <1>1, SpendTyped DEF Stop, Extras
<1>3. PICK o \in Calls : o = op[s] /\ o # None
  BY <1>1 DEF Types, Stop
<1>4. ReadOK(o, Unread, holes) BY <1>1, <1>3 DEF OpsOK, OpOK
<1>5. CASE o.at = "plan" /\ Set(s, None) /\ UNCHANGED <<checkpoint, holes>>
  <2>1. \A l \in Unread : ~Carries(op[s], T(l)) BY <1>3, <1>5 DEF Carries
  <2>2. holes' = holes /\ holes \in SUBSET Int /\ checkpoint' = checkpoint
        /\ checkpoint \in Checkpoints \cup {None}
    BY <1>1, <1>5 DEF Types
  <2> QED BY <1>1, <1>2, <1>5, <2>1, <2>2, QuietStep DEF OpOK
<1>6. ASSUME NEW c \in Calls, NEW a \in BOOLEAN, NEW m \in BOOLEAN,
             c = [o EXCEPT !.aborted = a, !.page = {}, !.more = m]
             \/ c = [o EXCEPT !.aborted = a, !.more = m],
             o.at \in {"fetch", "ingest"}, Close(s, c), checkpoint' \in {checkpoint, None}
      PROVE  IInv'
  <2>1. c.lo = o.lo /\ c.hi = o.hi /\ c.before = o.before /\ c.pages = o.pages
        /\ c.since = o.since /\ c.until = o.until /\ c.todo = o.todo /\ c.kind = o.kind
        /\ c.at = o.at /\ c.dry = o.dry
    BY <1>6 DEF Calls
  <2>2. ReadOK(c, Unread, holes) BY <1>4, <2>1 DEF ReadOK, From
  <2> QED BY <1>2, <1>3, <1>6, <2>1, <2>2, CloseStep
<1>7. ASSUME o.at \in {"fetch", "ingest"}, NEW a \in {o.at = "ingest", TRUE},
             Close(s, [o EXCEPT !.aborted = a, !.page = {}]), UNCHANGED checkpoint
      PROVE  IInv'
  <2>1. a \in BOOLEAN BY <1>7
  <2>2. o.more \in BOOLEAN /\ [o EXCEPT !.aborted = a, !.page = {}] \in Calls BY <2>1 DEF Calls
  <2>3. [o EXCEPT !.aborted = a, !.page = {}] = [o EXCEPT !.aborted = a, !.page = {}, !.more = o.more]
    BY DEF Calls
  <2> QED BY <1>6, <1>7, <2>1, <2>2, <2>3
<1>8. CASE /\ o.at = "ingest" /\ Close(s, [o EXCEPT !.aborted = TRUE, !.more = FALSE])
           /\ checkpoint' = None
  <2>1. [o EXCEPT !.aborted = TRUE, !.more = FALSE] \in Calls BY DEF Calls
  <2> QED BY <1>6, <1>8, <2>1
<1> QED BY <1>3, <1>5, <1>7, <1>8 DEF Stop

-----------------------------------------------------------------------------
(* Steps that claim.                                                       *)

(* A page is taken in.                                                     *)
LEMMA IngestStep == ASSUME IInv, NEW s \in Slot, Ingest(s) PROVE IInv'
<1>1. Types /\ Stored /\ OpsOK /\ SavedOK(checkpoint, now, Unread, holes) /\ Accounted
  BY DEF IInv
<1>2. now \in Nat /\ server \in SUBSET Log /\ local \in SUBSET Log /\ Overlap \in Nat
      /\ UNCHANGED <<now, server, budget>> /\ holes \in SUBSET Int
  BY <1>1, NumbersAssumption DEF Types, Ingest
<1>3. PICK o \in Calls : o = op[s] /\ o # None /\ o.at = "ingest" /\ o.page # {}
  BY <1>1 DEF Types, Ingest
<1>4. CallOK(o, now, server) /\ ReadOK(o, Unread, holes) /\ PageOK(o, server)
  BY <1>1, <1>3 DEF OpsOK, OpOK
<1>5. o.lo \in Nat /\ o.hi \in Nat /\ o.before \in Nat /\ o.lo <= o.before /\ o.hi <= now
      /\ o.page \in SUBSET Log /\ o.pages \in Nat
  BY <1>4 DEF Calls, CallOK
<1>6. PICK oldest \in Nat : /\ oldest = Oldest(o.page)
                            /\ \E l \in o.page : T(l) = oldest
                            /\ \A l \in o.page : oldest <= T(l)
  BY <1>3, <1>5, OldestFacts
<1>7. PICK newest \in Nat : /\ newest = Newest(o.page)
                            /\ \E l \in o.page : T(l) = newest
                            /\ \A l \in o.page : T(l) <= newest
  BY <1>3, <1>5, NewestFacts
<1>8. o.lo <= oldest /\ oldest < o.before /\ newest <= o.hi /\ newest < o.before
  BY <1>4, <1>6, <1>7 DEF CallOK
<1>9. PICK full \in BOOLEAN : full <=> Cardinality(o.page) = PageSize[o.kind] OBVIOUS
<1>10. PICK more \in BOOLEAN : more <=> full /\ oldest > o.lo
  OBVIOUS
<1> DEFINE next == [o EXCEPT !.pages = @ + 1, !.got = TRUE, !.page = {},
                             !.before = IF more THEN oldest ELSE @,
                             !.more = more, !.dry = ~more, !.at = "fetch"]
           known == holes \cup Split(o) \cup Jumped(o.lo, o.hi, oldest, newest)
<1>11. /\ local' = local \cup o.page
       /\ mark' = Widened(mark, oldest, newest)
       /\ \/ more /\ Set(s, next) /\ holes' = known
          \/ Set(s, [next EXCEPT !.at = "bound"]) /\ holes' = known
          \/ Set(s, None) /\ holes' = known \cup Cut(next, mark')
       /\ checkpoint' = checkpoint \/ checkpoint' = None
          \/ /\ o.kind = "target" /\ more
             /\ checkpoint' = [since |-> o.since, until |-> o.until, before |-> oldest]
  BY <1>3, <1>6, <1>7, <1>8, <1>9, <1>10, Zenon DEF Ingest, Ingested
<1>12. holes \subseteq known /\ known \subseteq holes' BY <1>11
<1> HIDE DEF known
<1>13. /\ mark' \in Claims /\ mark' # None
       /\ mark = None => mark'.early = oldest /\ mark'.late = newest
       /\ mark # None => mark'.early = Smaller(mark.early, oldest)
                         /\ mark'.late = Larger(mark.late, newest)
  BY <1>1, <1>11, WidenedFacts, NoneAssumption DEF Types
<1>14. mark'.early \in Nat /\ mark'.late \in Nat
       /\ (mark # None => mark.early \in Nat /\ mark.late \in Nat)
  BY <1>1, <1>13 DEF Types, Claims
<1>15. \A l \in Unread' : l \in Unread /\ l \in server \ o.page /\ T(l) \in Nat
  BY <1>2, <1>11, LogTimes DEF Unread
(* Above the oldest log of the page nothing is missing. *)
<1>16. ASSUME NEW l \in Unread', oldest <= T(l), T(l) < o.hi - Overlap
       PROVE  T(l) \in holes'
  <2>1. T(l) \in Nat /\ l \in Unread /\ l \in server \ o.page BY <1>15
  <2>2. CASE o.before <= T(l)
    <3>1. From(o) <= T(l) BY <1>5, <2>1, <2>2 DEF From
    <3> QED BY <1>3, <1>4, <1>12, <1>16, <2>1, <3>1 DEF ReadOK
  <2>3. CASE T(l) < o.before
    <3>1. Within(o, T(l)) BY <1>5, <1>8, <1>16, <2>1, <2>3 DEF Within
    <3>2. Cardinality(o.page) = PageSize[o.kind] /\ \A k \in o.page : T(l) <= T(k)
      BY <1>3, <1>4, <2>1, <3>1 DEF PageOK
    <3>3. T(l) = oldest BY <1>6, <1>16, <2>1, <3>2
    <3>4. T(l) \in known BY <1>6, <3>2, <3>3 DEF Split, known
    <3> QED BY <1>12, <3>4
  <2> QED BY <1>5, <2>1, <2>2, <2>3
(* Below it something is missing only when there is another page. *)
<1>17. ASSUME NEW l \in Unread', o.lo <= T(l), T(l) < oldest, T(l) < o.hi - Overlap
       PROVE  more
  <2>1. T(l) \in Nat /\ l \in server \ o.page BY <1>15
  <2>2. Within(o, T(l)) BY <1>5, <1>8, <1>17, <2>1 DEF Within
  <2>3. full BY <1>3, <1>4, <1>9, <2>1, <2>2 DEF PageOK
  <2> QED BY <1>5, <1>10, <1>17, <2>1, <2>3
<1>18. /\ next \in Calls /\ [next EXCEPT !.at = "bound"] \in Calls
       /\ next.lo = o.lo /\ next.hi = o.hi /\ next.since = o.since /\ next.until = o.until
       /\ next.todo = o.todo /\ next.kind = o.kind /\ next.page = {} /\ next.pages > 0
       /\ next.before = (IF more THEN oldest ELSE o.before) /\ next.dry = ~more
       /\ next.at = "fetch"
  <2>1. PICK b \in Nat : b = IF more THEN oldest ELSE o.before BY <1>5
  <2>2. PICK p \in Nat : p = o.pages + 1 /\ p > 0 BY <1>5
  <2>3. next = [o EXCEPT !.pages = p, !.got = TRUE, !.page = {}, !.before = b,
                         !.more = more, !.dry = ~more, !.at = "fetch"]
    BY <2>1, <2>2 DEF Calls
  <2> HIDE DEF next
  <2>4. next \in Calls BY <2>3 DEF Calls, Stages
  <2>5. [next EXCEPT !.at = "bound"] \in Calls BY <2>4 DEF Calls, Stages
  <2>6. next.lo = o.lo /\ next.hi = o.hi /\ next.since = o.since /\ next.until = o.until
        /\ next.todo = o.todo /\ next.kind = o.kind /\ next.page = {} /\ next.pages > 0
        /\ next.before = b /\ next.dry = ~more /\ next.at = "fetch"
    BY <2>2, <2>3 DEF Calls
  <2> QED BY <2>1, <2>4, <2>5, <2>6
<1> HIDE DEF next
<1>19. ASSUME NEW n \in Calls, n = next \/ n = [next EXCEPT !.at = "bound"]
       PROVE  /\ n.lo = o.lo /\ n.hi = o.hi /\ n.since = o.since /\ n.until = o.until
              /\ n.todo = o.todo /\ n.kind = o.kind /\ n.page = {} /\ n.pages > 0
              /\ n.before = (IF more THEN oldest ELSE o.before) /\ n.dry = ~more
              /\ n.at \in {"fetch", "bound"}
  BY <1>18, <1>19 DEF Calls
<1>20. ASSUME NEW n \in Calls, n = next \/ n = [next EXCEPT !.at = "bound"]
       PROVE  OpOK(n, now, server, Unread', holes')
  <2>1. CallOK(n, now, server)
    <3>1. n.lo <= n.before BY <1>5, <1>8, <1>19, <1>20
    <3> QED BY <1>4, <1>19, <1>20, <3>1 DEF CallOK
  <2>2. ReadOK(n, Unread', holes')
    <3> SUFFICES ASSUME NEW l \in Unread', From(n) <= T(l), T(l) < n.hi - Overlap
                 PROVE  T(l) \in holes'
      BY DEF ReadOK
    <3>1. T(l) \in Nat BY <1>15
    <3>2. T(l) < o.hi - Overlap BY <1>19, <1>20
    <3>3. CASE more
      <4>1. From(n) = oldest BY <1>19, <1>20, <3>3 DEF From
      <4> QED BY <1>16, <3>2, <4>1
    <3>4. CASE ~more
      <4>1. From(n) = o.lo BY <1>19, <1>20, <3>4 DEF From
      <4>2. ~(T(l) < oldest) BY <1>17, <3>2, <3>4, <4>1
      <4> QED BY <1>16, <3>1, <3>2, <4>2
    <3> QED BY <3>3, <3>4
  <2> QED BY <1>19, <1>20, <2>1, <2>2 DEF OpOK, PageOK
(* What the wider claim hides lies below the page. *)
<1>21. ASSUME NEW l \in Unread', Claimed(mark', T(l)), T(l) \notin holes',
              Claimed(mark, T(l)) => Carries(o, T(l))
       PROVE  more /\ o.lo <= T(l) /\ T(l) < oldest /\ T(l) < o.hi - Overlap
  <2>1. T(l) \in Nat BY <1>15
  <2>2. ~(oldest <= T(l) /\ T(l) < o.hi - Overlap) BY <1>16, <1>21
  <2>3. o.lo <= T(l) /\ T(l) < oldest /\ T(l) < o.hi - Overlap => more BY <1>17
  <2>4. mark'.early <= T(l) /\ T(l) < mark'.late - Overlap BY <1>21 DEF Claimed
  <2>5. T(l) \notin Jumped(o.lo, o.hi, oldest, newest) BY <1>12, <1>21 DEF known
  <2>6. CASE Claimed(mark, T(l))
    <3>1. o.lo <= T(l) /\ T(l) < o.hi - Overlap BY <1>21, <2>6 DEF Carries, Within
    <3> QED BY <2>1, <2>2, <2>3, <3>1
  <2>7. CASE mark = None
    <3>1. oldest <= T(l) /\ T(l) < newest - Overlap BY <1>13, <2>4, <2>7
    <3>2. T(l) < o.hi - Overlap BY <1>2, <1>5, <1>8, <2>1, <3>1
    <3> QED BY <2>2, <3>1, <3>2
  <2>8. CASE mark # None /\ T(l) < mark.early
    <3>1. oldest <= T(l) /\ oldest < mark.early
      BY <1>13, <1>14, <2>1, <2>4, <2>8 DEF Smaller
    <3>2. ~(T(l) < o.hi - Overlap) BY <2>2, <3>1
    <3>3. T(l) \in (o.hi - Overlap)..(mark.early - 1)
      BY <1>2, <1>5, <1>14, <2>1, <2>8, <3>2
    <3> QED BY <2>5, <2>8, <3>1, <3>3 DEF Jumped
  <2>9. CASE mark # None /\ ~(T(l) < mark.late - Overlap)
    <3>1. newest > mark.late /\ T(l) < newest - Overlap
      BY <1>2, <1>13, <1>14, <2>1, <2>4, <2>9 DEF Larger
    <3>2. T(l) < o.hi - Overlap BY <1>2, <1>5, <1>8, <2>1, <3>1
    <3>3. ~(T(l) \in (mark.late - Overlap)..(o.lo - 1)) BY <2>5, <2>9, <3>1 DEF Jumped
    <3>4. o.lo <= T(l) BY <1>2, <1>5, <1>14, <2>1, <2>9, <3>3
    <3> QED BY <2>1, <2>2, <2>3, <3>2, <3>4
  <2> QED BY <1>2, <1>14, <2>1, <2>6, <2>7, <2>8, <2>9 DEF Claimed
<1>22. Stored'
  <2>1. local' \subseteq server BY <1>1, <1>4, <1>11 DEF Stored, CallOK
  <2>2. mark'.late <= now
    <3>1. mark # None => mark.late <= now BY <1>1 DEF Stored
    <3> QED BY <1>2, <1>5, <1>8, <1>13, <1>14, <3>1 DEF Larger
  <2>3. ASSUME NEW l \in local' PROVE T(l) <= mark'.late
    <3>1. T(l) \in Nat BY <1>2, <1>5, <1>11, LogTimes
    <3>2. newest <= mark'.late /\ (mark # None => mark.late <= mark'.late)
      BY <1>13, <1>14 DEF Larger
    <3>3. CASE l \in o.page BY <1>7, <1>14, <3>1, <3>2, <3>3
    <3>4. CASE l \in local
      <4>1. mark # None /\ T(l) <= mark.late BY <1>1, <3>4 DEF Stored
      <4> QED BY <1>14, <3>1, <3>2, <4>1
    <3> QED BY <1>11, <3>3, <3>4
  <2>4. \A l \in server' : T(l) <= now' BY <1>1, <1>2 DEF Stored
  <2> QED BY <1>2, <1>13, <2>1, <2>2, <2>3, <2>4 DEF Stored
<1>23. checkpoint' \in Checkpoints \cup {None} /\ SavedOK(checkpoint', now, Unread', holes')
  <2>1. CASE checkpoint' = None BY <2>1 DEF SavedOK
  <2>2. CASE checkpoint' = checkpoint
    <3>1. checkpoint \in Checkpoints \cup {None} BY <1>1 DEF Types
    <3>2. \A l \in Unread' : l \in Unread BY <1>15
    <3> QED BY <1>1, <1>12, <2>2, <3>1, <3>2 DEF SavedOK
  <2>3. CASE o.kind = "target" /\ more
             /\ checkpoint' = [since |-> o.since, until |-> o.until, before |-> oldest]
    <3>1. o.until = o.hi /\ o.until <= now BY <1>4, <2>3 DEF CallOK
    <3>2. o.since \in Nat /\ o.until \in Nat BY DEF Calls
    <3>3. checkpoint' \in Checkpoints BY <2>3, <3>2 DEF Checkpoints
    <3>4. checkpoint'.until = o.hi /\ checkpoint'.before = oldest BY <2>3, <3>1
    <3> QED BY <1>16, <3>1, <3>3, <3>4 DEF SavedOK
  <2> QED BY <1>11, <2>1, <2>2, <2>3
<1>24. budget' \in [Kinds \cup Extras -> Nat] /\ local' \in SUBSET Log /\ local \subseteq local'
       /\ mark' \in Claims \cup {None}
  BY <1>1, <1>2, <1>5, <1>11, <1>13 DEF Types
<1>25. known \in SUBSET Int /\ Cut(next, mark') \in SUBSET Int
  <2>1. Split(o) \in SUBSET Int BY <1>6 DEF Split
  <2>2. Jumped(o.lo, o.hi, oldest, newest) \in SUBSET Int BY DEF Jumped
  <2>3. Cut(next, mark') \in SUBSET Int BY DEF Cut
  <2> QED BY <1>2, <2>1, <2>2, <2>3 DEF known
<1>26. holes' \in SUBSET Int /\ holes \subseteq holes' BY <1>11, <1>12, <1>25
<1>27. ASSUME NEW n \in Calls, n = next \/ n = [next EXCEPT !.at = "bound"], Set(s, n)
       PROVE  IInv'
  <2>1. ASSUME NEW l \in Unread', Claimed(mark', T(l)), T(l) \notin holes',
               Claimed(mark, T(l)) => Carries(op[s], T(l))
        PROVE  Carries(n, T(l))
    <3>1. more /\ o.lo <= T(l) /\ T(l) < oldest /\ T(l) < o.hi - Overlap
      BY <1>3, <1>21, <2>1
    <3> QED BY <1>19, <1>27, <3>1, NoneAssumption DEF Carries, Within
  <2>2. OpOK(n, now, server, Unread', holes') BY <1>20, <1>27
  <2> QED BY <1>2, <1>22, <1>23, <1>24, <1>26, <1>27, <2>1, <2>2, CallStep
<1>28. CASE Set(s, None) /\ holes' = known \cup Cut(next, mark')
  <2>1. ASSUME NEW l \in Unread', Claimed(mark', T(l)), T(l) \notin holes',
               Claimed(mark, T(l)) => Carries(op[s], T(l))
        PROVE  FALSE
    <3>1. more /\ o.lo <= T(l) /\ T(l) < oldest BY <1>3, <1>21, <2>1
    <3>2. T(l) \in Nat BY <1>15
    <3>3. T(l) \in o.lo..(oldest - 1) BY <1>5, <3>1, <3>2
    <3>4. T(l) \in Covered(mark')
      BY <1>2, <1>14, <2>1, <3>2 DEF Covered, Claimed
    <3>5. next.lo = o.lo /\ next.before = oldest /\ ~next.dry BY <1>18, <1>19, <3>1
    <3>6. T(l) \in Cut(next, mark') BY <3>3, <3>4, <3>5 DEF Cut
    <3> QED BY <1>28, <2>1, <3>6
  <2>2. OpOK(None, now, server, Unread', holes') BY DEF OpOK
  <2> QED BY <1>2, <1>22, <1>23, <1>24, <1>26, <1>28, <2>1, <2>2, CallStep
<1> QED BY <1>11, <1>18, <1>27, <1>28

(* The watermark is widened to the interval.                               *)
LEMMA BoundStep == ASSUME IInv, NEW s \in Slot, Bound(s) PROVE IInv'
<1>1. Types /\ Stored /\ OpsOK /\ SavedOK(checkpoint, now, Unread, holes) /\ Accounted
  BY DEF IInv
<1>2. now \in Nat /\ server \in SUBSET Log /\ local \in SUBSET Log /\ Overlap \in Nat
      /\ UNCHANGED <<now, server, local, checkpoint, budget>> /\ holes \in SUBSET Int
      /\ checkpoint \in Checkpoints \cup {None} /\ Unread' = Unread
      /\ budget' \in [Kinds \cup Extras -> Nat]
  BY <1>1, NumbersAssumption DEF Types, Bound, Unread
<1>3. PICK o \in Calls : o = op[s] /\ o # None /\ o.at = "bound"
  BY <1>1 DEF Types, Bound
<1>4. CallOK(o, now, server) /\ ReadOK(o, Unread, holes)
  BY <1>1, <1>3 DEF OpsOK, OpOK
<1>5. o.lo \in Nat /\ o.hi \in Nat /\ o.before \in Nat /\ o.lo <= o.before /\ o.hi <= now
      /\ o.passes \in Nat /\ o.todo \in Seq(Nat \X Nat)
  BY <1>4 DEF Calls, CallOK
<1>6. PICK start \in Nat : /\ o.lo <= start
                           /\ start = IF ~Undefined(o) /\ (o.more \/ o.kind = "target")
                                        THEN o.before ELSE o.lo
  BY <1>5
<1> DEFINE passed == [o EXCEPT !.passes = @ + 1, !.at = "plan"]
           next == IF o.kind = "target" \/ o.aborted THEN None
                   ELSE IF o.todo # <<>> THEN Interval(o, o.todo)
                   ELSE IF o.got /\ passed.passes < MaxPasses THEN passed
                   ELSE None
<1>7. /\ mark' = Widened(mark, start, o.hi)
      /\ holes' = holes \cup Jumped(o.lo, o.hi, start, o.hi) \cup Cut(o, mark')
      /\ Set(s, next)
  BY <1>3, <1>6, Zenon DEF Bound
<1>8. next \in Calls \cup {None} /\ OpOK(next, now, server, Unread', holes')
  <2>1. CASE o.kind = "target" \/ o.aborted BY <2>1 DEF OpOK
  <2>2. CASE ~(o.kind = "target" \/ o.aborted) /\ o.todo # <<>>
    <3>1. o.since <= o.until /\ o.until <= now /\ o.page = {} /\ Planned(o.todo, now)
      BY <1>3, <1>4 DEF CallOK
    <3>2. StartsOK(o.todo, now) /\ Tail(o.todo) = <<>> BY <2>2, <3>1 DEF Planned
    <3>3. Planned(Tail(o.todo), now) BY <3>2 DEF Planned
    <3>4. Unread' \in SUBSET Log BY <1>2 DEF Unread
    <3>5. ASSUME NEW U \in SUBSET Log, NEW H
          PROVE  Interval(o, o.todo) \in Calls /\ OpOK(Interval(o, o.todo), now, server, U, H)
      BY <1>2, <1>5, <2>2, <3>1, <3>2, <3>3, IntervalFacts
    <3> QED BY <2>2, <3>4, <3>5
  <2>3. CASE ~(o.kind = "target" \/ o.aborted) /\ o.todo = <<>>
    <3>1. passed \in Calls
      <4>1. PICK p \in Nat : p = o.passes + 1 BY <1>5
      <4>2. passed = [o EXCEPT !.passes = p, !.at = "plan"] BY <4>1
      <4> HIDE DEF passed
      <4> QED BY <4>2 DEF Calls, Stages
    <3>2. passed.lo = o.lo /\ passed.hi = o.hi /\ passed.before = o.before
          /\ passed.since = o.since /\ passed.until = o.until /\ passed.todo = o.todo
          /\ passed.kind = o.kind /\ passed.page = o.page /\ passed.at = "plan"
      BY DEF Calls
    <3> HIDE DEF passed
    <3>3. CallOK(passed, now, server) BY <1>3, <1>4, <2>3, <3>2 DEF CallOK
    <3>4. OpOK(passed, now, server, Unread', holes')
      BY <3>2, <3>3 DEF OpOK, ReadOK, PageOK
    <3>5. OpOK(None, now, server, Unread', holes') BY DEF OpOK
    <3> QED BY <2>3, <3>1, <3>4, <3>5
  <2> QED BY <2>1, <2>2, <2>3
<1> HIDE DEF next
<1>9. /\ mark' \in Claims /\ mark' # None
      /\ mark = None => mark'.early = start /\ mark'.late = o.hi
      /\ mark # None => mark'.early = Smaller(mark.early, start)
                        /\ mark'.late = Larger(mark.late, o.hi)
  <2>1. PICK m \in Claims \cup {None}, hi \in Nat : m = mark /\ hi = o.hi
    BY <1>1, <1>5 DEF Types
  <2>2. /\ Widened(m, start, hi) \in Claims
        /\ m = None => Widened(m, start, hi) = [early |-> start, late |-> hi]
        /\ m # None => Widened(m, start, hi).early = Smaller(m.early, start)
                       /\ Widened(m, start, hi).late = Larger(m.late, hi)
    BY WidenedFacts
  <2>3. mark' = Widened(m, start, hi) BY <1>7, <2>1
  <2> QED BY <2>1, <2>2, <2>3, NoneAssumption
<1>10. mark'.early \in Nat /\ mark'.late \in Nat
       /\ (mark # None => mark.early \in Nat /\ mark.late \in Nat)
  BY <1>1, <1>9 DEF Types, Claims
(* Inside the interval all was read, or is cut off. *)
<1>11. ASSUME NEW l \in Unread, Claimed(mark', T(l)), o.lo <= T(l), T(l) < o.hi - Overlap
       PROVE  T(l) \in holes'
  <2>1. T(l) \in Nat BY <1>2, LogTimes DEF Unread
  <2>2. CASE From(o) <= T(l) BY <1>3, <1>4, <1>7, <1>11, <2>2 DEF ReadOK
  <2>3. CASE ~(From(o) <= T(l))
    <3>1. ~o.dry /\ T(l) < o.before BY <1>5, <1>11, <2>1, <2>3 DEF From
    <3>2. T(l) \in o.lo..(o.before - 1) BY <1>5, <1>11, <2>1, <3>1
    <3>3. T(l) \in Covered(mark')
      BY <1>2, <1>10, <1>11, <2>1 DEF Covered, Claimed
    <3> QED BY <1>7, <3>1, <3>2, <3>3 DEF Cut
  <2> QED BY <2>2, <2>3
<1>12. ASSUME NEW l \in Unread, Claimed(mark', T(l)), T(l) \notin holes',
              Claimed(mark, T(l)) => Carries(o, T(l))
       PROVE  FALSE
  <2>1. T(l) \in Nat BY <1>2, LogTimes DEF Unread
  <2>2. ~(o.lo <= T(l) /\ T(l) < o.hi - Overlap) BY <1>11, <1>12
  <2>3. mark'.early <= T(l) /\ T(l) < mark'.late - Overlap BY <1>12 DEF Claimed
  <2>4. T(l) \notin Jumped(o.lo, o.hi, start, o.hi) BY <1>7, <1>12
  <2>5. CASE Claimed(mark, T(l)) BY <1>12, <2>2, <2>5 DEF Carries, Within
  <2>6. CASE mark = None BY <1>2, <1>5, <1>6, <1>9, <2>1, <2>2, <2>3, <2>6
  <2>7. CASE mark # None /\ T(l) < mark.early
    <3>1. start <= T(l) /\ start < mark.early
      BY <1>9, <1>10, <2>1, <2>3, <2>7 DEF Smaller
    <3>2. ~(T(l) < o.hi - Overlap) BY <1>5, <1>6, <2>1, <2>2, <3>1
    <3>3. T(l) \in (o.hi - Overlap)..(mark.early - 1)
      BY <1>2, <1>5, <1>10, <2>1, <2>7, <3>2
    <3> QED BY <2>4, <2>7, <3>1, <3>3 DEF Jumped
  <2>8. CASE mark # None /\ ~(T(l) < mark.late - Overlap)
    <3>1. o.hi > mark.late /\ T(l) < o.hi - Overlap
      BY <1>2, <1>5, <1>9, <1>10, <2>1, <2>3, <2>8 DEF Larger
    <3>2. ~(T(l) \in (mark.late - Overlap)..(o.lo - 1)) BY <2>4, <2>8, <3>1 DEF Jumped
    <3>3. o.lo <= T(l) BY <1>2, <1>5, <1>10, <2>1, <2>8, <3>2
    <3> QED BY <2>2, <3>1, <3>3
  <2> QED BY <1>2, <1>10, <2>1, <2>5, <2>6, <2>7, <2>8 DEF Claimed
<1>13. Stored'
  <2>1. mark'.late <= now
    <3>1. mark # None => mark.late <= now BY <1>1 DEF Stored
    <3> QED BY <1>2, <1>5, <1>9, <1>10, <3>1 DEF Larger
  <2>2. ASSUME NEW l \in local PROVE T(l) <= mark'.late
    <3>1. mark # None /\ T(l) <= mark.late /\ T(l) \in Nat BY <1>1, <1>2, LogTimes DEF Stored
    <3>2. mark.late <= mark'.late BY <1>5, <1>9, <1>10, <3>1 DEF Larger
    <3> QED BY <1>10, <3>1, <3>2
  <2> QED BY <1>1, <1>2, <1>9, <2>1, <2>2 DEF Stored
<1>14. holes' \in SUBSET Int /\ holes \subseteq holes'
  <2>1. Jumped(o.lo, o.hi, start, o.hi) \in SUBSET Int BY DEF Jumped
  <2>2. Cut(o, mark') \in SUBSET Int BY DEF Cut
  <2> QED BY <1>2, <1>7, <2>1, <2>2
<1>15. SavedOK(checkpoint', now, Unread', holes')
  BY <1>1, <1>2, <1>14 DEF SavedOK
<1> QED BY <1>2, <1>3, <1>7, <1>8, <1>9, <1>12, <1>13, <1>14, <1>15, CallStep

-----------------------------------------------------------------------------
(* What happens around the calls.                                          *)

(* Steps of the surroundings: the calls and the checkpoint stay.           *)
LEMMA OutsideStep ==
    ASSUME IInv, UNCHANGED <<op, checkpoint>>, now' \in Nat, now <= now',
           Types', Stored', Accounted',
           NEW U, U = Unread', NEW H, H = holes',
           \A l \in U : l \in Unread \/ T(l) \in H \/ ~(T(l) < now - Overlap),
           holes \subseteq H, server \subseteq server',
           \A l \in server' \ server : ~(T(l) < now - Overlap)
    PROVE  IInv'
<1>1. Types /\ Stored /\ OpsOK /\ SavedOK(checkpoint, now, Unread, holes) BY DEF IInv
<1>2. now \in Nat /\ Overlap \in Nat /\ server' \in SUBSET Log /\ U \in SUBSET Log
  BY <1>1, NumbersAssumption DEF Types, Unread
<1>3. PICK n \in Nat : n = now' OBVIOUS
<1>4. PICK S \in SUBSET Log : S = server' BY <1>2
<1>5. ASSUME NEW s \in Slot PROVE OpOK(op[s], n, S, U, H)
  <2> SUFFICES ASSUME op[s] # None PROVE OpOK(op[s], n, S, U, H) BY DEF OpOK
  <2>1. PICK o \in Calls : o = op[s] BY <1>1 DEF Types
  <2>2. o # None /\ CallOK(o, now, server) /\ ReadOK(o, Unread, holes) /\ PageOK(o, server)
    BY <1>1, <2>1 DEF OpsOK, OpOK
  <2>3. o.hi \in Nat /\ o.until \in Nat /\ o.hi <= now /\ o.todo \in Seq(Nat \X Nat)
        /\ o.until <= now
    BY <2>2 DEF Calls, CallOK
  <2>4. CallOK(o, n, S)
    <3>1. o.hi <= n /\ o.until <= n BY <1>2, <1>3, <2>3
    <3>2. Planned(o.todo, n)
      <4>1. Planned(o.todo, now) BY <2>2 DEF CallOK
      <4> QED BY <1>2, <1>3, <2>3, <4>1, PlannedStays
    <3>3. \A l \in o.page : l \in S /\ o.lo <= T(l) /\ T(l) <= o.hi /\ T(l) < o.before
      BY <1>4, <2>2 DEF CallOK
    <3> QED BY <2>2, <3>1, <3>2, <3>3 DEF CallOK
  <2>5. ReadOK(o, U, H)
    <3> SUFFICES ASSUME o.at # "plan", NEW l \in U, From(o) <= T(l), T(l) < o.hi - Overlap
                 PROVE  T(l) \in H
      BY DEF ReadOK
    <3>1. T(l) \in Nat BY <1>2, LogTimes
    <3>2. T(l) < now - Overlap BY <1>2, <2>3, <3>1
    <3> QED BY <2>2, <3>2 DEF ReadOK
  <2>6. PageOK(o, S)
    <3> SUFFICES ASSUME o.at = "ingest", NEW l \in S \ o.page, Within(o, T(l))
                 PROVE  /\ Cardinality(o.page) = PageSize[o.kind]
                        /\ \A k \in o.page : T(l) <= T(k)
      BY DEF PageOK
    <3>1. T(l) \in Nat BY LogTimes
    <3>2. T(l) < now - Overlap BY <1>2, <2>3, <3>1 DEF Within
    <3> QED BY <1>4, <2>2, <3>2 DEF PageOK
  <2> QED BY <2>1, <2>4, <2>5, <2>6 DEF OpOK
<1>6. OpsOK' BY <1>3, <1>4, <1>5 DEF OpsOK
<1>7. SavedOK(checkpoint, n, U, H)
  <2> SUFFICES ASSUME checkpoint # None
               PROVE  /\ checkpoint.until <= n
                      /\ \A l \in U : /\ checkpoint.before <= T(l)
                                      /\ T(l) < checkpoint.until - Overlap
                                      => T(l) \in H
    BY DEF SavedOK
  <2>1. checkpoint.until \in Nat /\ checkpoint.until <= now
    BY <1>1 DEF Types, Checkpoints, SavedOK
  <2>2. ASSUME NEW l \in U, checkpoint.before <= T(l), T(l) < checkpoint.until - Overlap
        PROVE  T(l) \in H
    <3>1. T(l) \in Nat BY <1>2, LogTimes
    <3>2. T(l) < now - Overlap BY <1>2, <2>1, <2>2, <3>1
    <3> QED BY <1>1, <2>2, <3>2 DEF SavedOK
  <2> QED BY <1>2, <1>3, <2>1, <2>2
<1>8. SavedOK(checkpoint', now', Unread', holes') BY <1>3, <1>7
<1> QED BY <1>6, <1>8 DEF IInv

LEMMA TickStep == ASSUME IInv, Tick PROVE IInv'
<1>1. Types /\ Stored /\ Accounted BY DEF IInv
<1>2. now \in Nat /\ now' = now + 1 /\ now' \in Nat \ {0} /\ server \in SUBSET Log
      /\ UNCHANGED <<server, local, mark, checkpoint, op, budget, holes>>
  BY <1>1 DEF Types, Tick
<1>3. Types' BY <1>1, <1>2 DEF Types
<1>4. Stored'
  <2>1. \A l \in server : T(l) <= now + 1
    <3>1. \A l \in server : T(l) \in Nat /\ T(l) <= now BY <1>1, <1>2, LogTimes DEF Stored
    <3> QED BY <1>2, <3>1
  <2>2. mark # None => mark.late <= now + 1
    <3>1. mark # None => mark.late \in Nat /\ mark.late <= now BY <1>1 DEF Types, Claims, Stored
    <3> QED BY <1>2, <3>1
  <2> QED BY <1>1, <1>2, <2>1, <2>2 DEF Stored
<1>5. Unread' = Unread BY <1>2 DEF Unread
<1>6. Accounted' BY <1>1, <1>2, <1>5 DEF Accounted
<1>7. now <= now' BY <1>2
<1> QED BY <1>2, <1>3, <1>4, <1>5, <1>6, <1>7, OutsideStep

(* A log arrives: so late that no download has passed it yet.              *)
LEMMA ArriveStep == ASSUME IInv, NEW l \in Log, Arrive(l) PROVE IInv'
<1>1. Types /\ Stored /\ Accounted BY DEF IInv
<1>2. now \in Nat /\ server \in SUBSET Log /\ server' = server \cup {l} /\ T(l) <= now
      /\ UNCHANGED <<now, local, mark, checkpoint, op, budget, holes>>
  BY <1>1 DEF Types, Arrive
<1>3. ~(T(l) < now - Overlap)
  <2>1. T(l) \in Nat /\ Overlap \in Nat /\ Delay \in Nat /\ Delay <= Overlap
    BY LogTimes, NumbersAssumption, DelayAssumption
  <2>2. now - Delay <= T(l) BY <1>2, <2>1 DEF Arrive
  <2> QED BY <1>2, <2>1, <2>2
<1>4. Types' BY <1>1, <1>2 DEF Types
<1>5. Stored' BY <1>1, <1>2 DEF Stored
<1>6. Unread' \subseteq Unread \cup {l} BY <1>2 DEF Unread
<1>7. Accounted'
  <2> SUFFICES ASSUME NEW k \in Unread', Claimed(mark, T(k)), T(k) \notin holes
               PROVE  \E s \in Slot : Carries(op[s], T(k))
    BY <1>2 DEF Accounted, Claimed
  <2>1. CASE k \in Unread BY <1>1, <2>1 DEF Accounted
  <2>2. CASE k = l
    <3>1. mark.late \in Nat /\ mark.late <= now /\ T(l) < mark.late - Overlap
      BY <1>1, <2>2 DEF Types, Stored, Claims, Claimed
    <3>2. T(l) \in Nat /\ Overlap \in Nat BY LogTimes, NumbersAssumption
    <3> QED BY <1>2, <1>3, <3>1, <3>2
  <2> QED BY <1>6, <2>1, <2>2
<1>8. now <= now' /\ now' \in Nat BY <1>2
<1> QED BY <1>2, <1>3, <1>4, <1>5, <1>6, <1>7, <1>8, OutsideStep

(* A log of the live stream or of an export is taken in.                   *)
LEMMA InsertStep == ASSUME IInv, NEW l \in Log, BatchInsert(l) PROVE IInv'
<1>1. Types /\ Stored /\ Accounted BY DEF IInv
<1>2. PICK t \in Nat : t = T(l) /\ t = Oldest({l}) /\ t = Newest({l})
  <2>1. {l} \in SUBSET Log /\ {l} # {} OBVIOUS
  <2> QED BY <2>1, OldestFacts, NewestFacts, LogTimes
<1>3. now \in Nat /\ Overlap \in Nat /\ server \in SUBSET Log /\ local \in SUBSET Log
      /\ holes \in SUBSET Int
  BY <1>1, NumbersAssumption DEF Types
<1>4. /\ l \in server /\ local' = local \cup {l} /\ mark' = Widened(mark, t, t)
      /\ holes' = holes \cup Jumped(t, t, t, t)
      /\ UNCHANGED <<now, server, checkpoint, op>>
  BY <1>2 DEF BatchInsert, Ingested
<1>5. t <= now BY <1>1, <1>2, <1>4 DEF Stored
<1>6. /\ mark' \in Claims /\ mark' # None
      /\ mark = None => mark'.early = t /\ mark'.late = t
      /\ mark # None => mark'.early = Smaller(mark.early, t)
                        /\ mark'.late = Larger(mark.late, t)
  BY <1>1, <1>4, WidenedFacts, NoneAssumption DEF Types
<1>7. mark'.early \in Nat /\ mark'.late \in Nat
      /\ (mark # None => mark.early \in Nat /\ mark.late \in Nat)
  BY <1>1, <1>6 DEF Types, Claims
<1>8. Types'
  <2>1. budget' \in [Kinds \cup Extras -> Nat]
    BY <1>1, SpendTyped DEF BatchInsert, Extras
  <2>2. holes' \in SUBSET Int
    <3>1. Jumped(t, t, t, t) \in SUBSET Int BY DEF Jumped
    <3> QED BY <1>3, <1>4, <3>1
  <2>3. local' \in SUBSET Log BY <1>3, <1>4
  <2> QED BY <1>1, <1>4, <1>6, <2>1, <2>2, <2>3 DEF Types
<1>9. Stored'
  <2>1. mark'.late <= now
    <3>1. mark # None => mark.late <= now BY <1>1 DEF Stored
    <3> QED BY <1>3, <1>5, <1>6, <1>7, <3>1 DEF Larger
  <2>2. ASSUME NEW k \in local' PROVE T(k) <= mark'.late
    <3>1. t <= mark'.late /\ (mark # None => mark.late <= mark'.late)
      BY <1>6, <1>7 DEF Larger
    <3>2. CASE k = l BY <1>2, <3>1, <3>2
    <3>3. CASE k \in local
      <4>1. mark # None /\ T(k) <= mark.late /\ T(k) \in Nat
        BY <1>1, <1>3, <3>3, LogTimes DEF Stored
      <4> QED BY <1>7, <3>1, <4>1
    <3> QED BY <1>4, <3>2, <3>3
  <2>3. local' \subseteq server BY <1>1, <1>4 DEF Stored
  <2> QED BY <1>1, <1>4, <1>6, <2>1, <2>2, <2>3 DEF Stored
<1>10. Unread' \subseteq Unread BY <1>4 DEF Unread
<1>11. Accounted'
  <2>1. ASSUME NEW k \in Unread', Claimed(mark', T(k)), T(k) \notin holes'
        PROVE  \E s \in Slot : Carries(op[s], T(k))
    <3>1. T(k) \in Nat BY <1>3, <1>10, LogTimes DEF Unread
    <3>2. mark'.early <= T(k) /\ T(k) < mark'.late - Overlap BY <2>1 DEF Claimed
    <3>3. T(k) \notin Jumped(t, t, t, t) BY <1>4, <2>1
    <3>4. CASE Claimed(mark, T(k)) BY <1>1, <1>4, <1>10, <2>1, <3>4 DEF Accounted
    <3>5. CASE mark = None BY <1>3, <1>6, <3>1, <3>2, <3>5
    <3>6. CASE mark # None /\ T(k) < mark.early
      <4>1. t <= T(k) /\ t < mark.early BY <1>6, <1>7, <3>1, <3>2, <3>6 DEF Smaller
      <4>2. T(k) \in (t - Overlap)..(mark.early - 1) BY <1>3, <1>7, <3>1, <3>6, <4>1
      <4> QED BY <3>3, <3>6, <4>1, <4>2 DEF Jumped
    <3>7. CASE mark # None /\ ~(T(k) < mark.late - Overlap)
      <4>1. t > mark.late /\ T(k) < t - Overlap
        BY <1>3, <1>6, <1>7, <3>1, <3>2, <3>7 DEF Larger
      <4>2. T(k) \in (mark.late - Overlap)..(t - 1) BY <1>3, <1>7, <3>1, <3>7, <4>1
      <4> QED BY <3>3, <3>7, <4>1, <4>2 DEF Jumped
    <3> QED BY <1>3, <1>7, <3>1, <3>4, <3>5, <3>6, <3>7 DEF Claimed
  <2> QED BY <1>4, <2>1 DEF Accounted, Claimed
<1>12. now <= now' /\ now' \in Nat BY <1>3, <1>4
<1> QED BY <1>4, <1>8, <1>9, <1>10, <1>11, <1>12, OutsideStep

LEMMA CleanupStep == ASSUME IInv, NEW cutoff \in 2..now, Cleanup(cutoff) PROVE IInv'
<1>1. Types /\ Stored /\ Accounted BY DEF IInv
<1>2. now \in Nat /\ server \in SUBSET Log /\ local \in SUBSET Log /\ holes \in SUBSET Int
      /\ local' = {l \in local : T(l) >= cutoff} /\ holes' = holes \cup 1..(cutoff - 1)
      /\ UNCHANGED <<now, server, mark, checkpoint, op>>
      /\ budget' \in [Kinds \cup Extras -> Nat]
  BY <1>1, SpendTyped DEF Types, Cleanup, Extras
<1>3. Types' BY <1>1, <1>2 DEF Types
<1>4. Stored' BY <1>1, <1>2 DEF Stored
<1>5. ASSUME NEW l \in Unread' PROVE l \in Unread \/ T(l) \in holes'
  <2>1. CASE l \in local
    <3>1. T(l) \in Nat /\ 1 <= T(l) BY <1>2, <2>1, LogTimes
    <3>2. T(l) < cutoff BY <1>2, <1>5, <2>1, <3>1 DEF Unread
    <3> QED BY <1>2, <3>1, <3>2
  <2> QED BY <1>2, <2>1 DEF Unread
<1>6. Accounted'
  <2>1. ASSUME NEW l \in Unread', Claimed(mark, T(l)), T(l) \notin holes'
        PROVE  \E s \in Slot : Carries(op[s], T(l))
    BY <1>1, <1>2, <1>5, <2>1 DEF Accounted
  <2> QED BY <1>2, <2>1 DEF Accounted, Claimed
<1>7. now <= now' /\ now' \in Nat /\ holes \subseteq holes' BY <1>2
<1> QED BY <1>2, <1>3, <1>4, <1>5, <1>6, <1>7, OutsideStep

(* Clearing a profile: all that anybody counted on is given up.            *)
LEMMA ClearStep == ASSUME IInv, ClearProfile PROVE IInv'
<1>1. Types /\ Stored /\ OpsOK /\ SavedOK(checkpoint, now, Unread, holes) BY DEF IInv
<1>2. now \in Nat /\ server \in SUBSET Log /\ Overlap \in Nat
      /\ local' = {} /\ mark' = None /\ holes' = Lost
      /\ UNCHANGED <<now, server, checkpoint, op>>
      /\ budget' \in [Kinds \cup Extras -> Nat]
  BY <1>1, SpendTyped, NumbersAssumption DEF Types, ClearProfile, Extras
<1> DEFINE had == UNION {Received(op[s]) : s \in Slot}
           kept == checkpoint.before..(checkpoint.until - Overlap - 1)
<1>10. Lost = had \cup (IF checkpoint = None THEN {} ELSE kept)
  BY DEF Lost
<1>11. \A s \in Slot : Received(op[s]) \subseteq had OBVIOUS
<1>3. Lost \in SUBSET Int
  <2>1. \A s \in Slot : Received(op[s]) \in SUBSET Int BY DEF Received
  <2>2. had \in SUBSET Int BY <2>1
  <2>3. kept \in SUBSET Int OBVIOUS
  <2> HIDE DEF had, kept
  <2> QED BY <1>10, <2>2, <2>3
<1> HIDE DEF had
<1>4. Types' BY <1>1, <1>2, <1>3 DEF Types
<1>5. Stored' BY <1>1, <1>2 DEF Stored
<1>6. ASSUME NEW s \in Slot PROVE OpOK(op[s], now, server, Unread', Lost)
  <2> SUFFICES ASSUME op[s] # None PROVE OpOK(op[s], now, server, Unread', Lost) BY DEF OpOK
  <2>1. PICK o \in Calls : o = op[s] BY <1>1 DEF Types
  <2>2. o # None /\ CallOK(o, now, server) /\ PageOK(o, server) BY <1>1, <2>1 DEF OpsOK, OpOK
  <2>3. ReadOK(o, Unread', Lost)
    <3> SUFFICES ASSUME o.at # "plan", NEW l \in Unread', From(o) <= T(l), T(l) < o.hi - Overlap
                 PROVE  T(l) \in Lost
      BY DEF ReadOK
    <3>1. T(l) \in Nat /\ From(o) \in Nat /\ o.hi \in Nat
      BY <1>2, LogTimes DEF Unread, From, Calls
    <3>2. T(l) \in From(o)..(o.hi - Overlap - 1) BY <1>2, <3>1
    <3>3. T(l) \in Received(o) BY <2>2, <3>2 DEF Received, From
    <3> QED BY <1>10, <1>11, <2>1, <3>3
  <2> QED BY <2>1, <2>2, <2>3 DEF OpOK
<1>7. OpsOK' BY <1>2, <1>6 DEF OpsOK
<1>8. SavedOK(checkpoint, now, Unread', Lost)
  <2>1. ASSUME checkpoint # None, NEW l \in Unread', checkpoint.before <= T(l),
               T(l) < checkpoint.until - Overlap
        PROVE  T(l) \in Lost
    <3>1. checkpoint \in Checkpoints BY <1>1, <2>1 DEF Types
    <3>2. T(l) \in Nat /\ checkpoint.before \in Nat /\ checkpoint.until \in Nat
      BY <1>2, <3>1, LogTimes DEF Unread, Checkpoints
    <3>3. T(l) \in checkpoint.before..(checkpoint.until - Overlap - 1)
      BY <1>2, <2>1, <3>2
    <3> QED BY <1>10, <2>1, <3>3
  <2> QED BY <1>1, <2>1 DEF SavedOK
<1>9. Accounted' BY <1>2 DEF Accounted, Claimed
<1> QED BY <1>2, <1>4, <1>5, <1>7, <1>8, <1>9 DEF IInv

-----------------------------------------------------------------------------
(* The theorems.                                                           *)

(* The invariant holds to begin with. *)
LEMMA InitInvariant == Init => IInv
<1> SUFFICES ASSUME Init PROVE IInv OBVIOUS
<1>1. Types
  <2>1. budget \in [Kinds \cup Extras -> Nat] BY NumbersAssumption DEF Init
  <2>2. op \in [Slot -> Calls \cup {None}] BY DEF Init
  <2>3. now \in Nat \ {0} /\ server \in SUBSET Log /\ local \in SUBSET Log
        /\ holes \in SUBSET Int /\ mark \in Claims \cup {None}
        /\ checkpoint \in Checkpoints \cup {None}
    BY DEF Init
  <2> QED BY <2>1, <2>2, <2>3 DEF Types
<1>2. Stored BY DEF Init, Stored
<1>3. OpsOK BY DEF Init, OpsOK, OpOK
<1>4. SavedOK(checkpoint, now, Unread, holes) BY DEF Init, SavedOK
<1>5. Accounted BY DEF Init, Accounted, Unread
<1> QED BY <1>1, <1>2, <1>3, <1>4, <1>5 DEF IInv

(* It is kept by every step. *)
LEMMA NextInvariant == IInv /\ [Next]_vars => IInv'
<1> SUFFICES ASSUME IInv, [Next]_vars PROVE IInv' OBVIOUS
<1>1. CASE Tick BY <1>1, TickStep
<1>2. ASSUME NEW l \in Log, Arrive(l) \/ BatchInsert(l) PROVE IInv'
  BY <1>2, ArriveStep, InsertStep
<1>3. ASSUME NEW s \in Slot,
             \/ \E t \in 1..now : StartProfile(s, t)
             \/ \E a, b \in 1..now : a < b /\ (StartMissing(s, a, b) \/ StartTarget(s, a, b)
                                               \/ StartBackfill(s, a, b))
             \/ CountLocal(s) \/ PlanPass(s) \/ Fetch(s) \/ IngestNone(s) \/ Ingest(s)
             \/ Stop(s) \/ Bound(s)
      PROVE  IInv'
  <2>1. CASE \E t \in 1..now : StartProfile(s, t) BY <2>1, ProfileStarts
  <2>2. CASE \E a, b \in 1..now : a < b /\ (StartMissing(s, a, b) \/ StartTarget(s, a, b)
                                               \/ StartBackfill(s, a, b))
    BY <2>2, MissingStarts, TargetStarts, BackfillStarts
  <2>3. CASE CountLocal(s) \/ PlanPass(s) \/ Fetch(s) BY <2>3, CountStep, PlanStep, FetchStep
  <2>4. CASE IngestNone(s) \/ Ingest(s) BY <2>4, IngestNoneStep, IngestStep
  <2>5. CASE Stop(s) \/ Bound(s) BY <2>5, StopStep, BoundStep
  <2> QED BY <1>3, <2>1, <2>2, <2>3, <2>4, <2>5
<1>4. CASE ClearProfile BY <1>4, ClearStep
<1>5. CASE \E t \in 2..now : Cleanup(t) BY <1>5, CleanupStep
<1>6. CASE UNCHANGED vars
  <2>1. UNCHANGED <<now, server, local, mark, checkpoint, op, budget, holes>> BY <1>6 DEF vars
  <2>2. Unread' = Unread BY <2>1 DEF Unread
  <2> QED BY <2>1, <2>2 DEF IInv, Types, Stored, OpsOK, Accounted
<1> QED BY <1>1, <1>2, <1>3, <1>4, <1>5, <1>6 DEF Next

(* In every behaviour it holds at all times. *)
LEMMA Invariance == Spec => []IInv
BY InitInvariant, NextInvariant, PTL DEF Spec

(* The tables, the watermark, the checkpoint and the calls keep their types*)
(* whatever calls overlap, fail or are cleared under.                      *)
THEOREM TypeCorrect == Spec => []Types
<1>1. IInv => Types BY DEF IInv
<1> QED BY <1>1, Invariance, PTL

(* What handleGetWatermark hides from later downloads is still to be       *)
(* fetched by one under way, or was left out for a known cause.            *)
THEOREM WatermarkAccounts == Spec => []HiddenIsAccounted
<1>1. IInv => HiddenIsAccounted
  <2> SUFFICES ASSUME IInv PROVE HiddenIsAccounted OBVIOUS
  <2>1. Types /\ Stored /\ OpsOK /\ Accounted BY DEF IInv
  <2>2. PICK w : w = Reported(mark, local) OBVIOUS
  <2> SUFFICES ASSUME NEW l \in server \ local, w # None, w.early <= T(l), T(l) < w.late - Overlap
               PROVE  T(l) \in holes \/ \E s \in Slot : Pending(s, l)
    BY <2>2 DEF HiddenIsAccounted
  <2>3. mark # None /\ w.late = mark.late /\ w.early >= mark.early /\ w \in Claims
        /\ mark \in Claims
    BY <2>1, <2>2, ReportedFacts DEF Types
  <2>4. T(l) \in Nat /\ l \in Unread BY <2>1, LogTimes DEF Types, Unread
  <2>5. Claimed(mark, T(l)) BY <2>3, <2>4 DEF Claimed, Claims
  <2>6. CASE T(l) \in holes BY <2>6
  <2>7. ASSUME NEW s \in Slot, Carries(op[s], T(l)) PROVE Pending(s, l)
    <3>1. op[s] \in Calls BY <2>1, <2>7 DEF Types, Carries
    <3>2. T(l) \in op[s].lo..(op[s].before - 1)
      BY <2>4, <2>7, <3>1 DEF Carries, Within, Calls
    <3> QED BY <2>7, <3>2 DEF Carries, Pending
  <2> QED BY <2>1, <2>4, <2>5, <2>6, <2>7 DEF Accounted
<1> QED BY <1>1, Invariance, PTL

(* A download that resumes at the checkpoint of syncTargetInterval misses  *)
(* nothing above it but what was left out for a known cause or came late.  *)
THEOREM CheckpointHolds == Spec => []CheckpointCovers
<1>1. IInv => CheckpointCovers
  <2> SUFFICES ASSUME IInv, checkpoint # None, NEW l \in server \ local,
                      checkpoint.before < T(l), T(l) < checkpoint.until - Overlap
               PROVE  T(l) \in holes
    BY DEF CheckpointCovers
  <2>1. Types /\ SavedOK(checkpoint, now, Unread, holes) BY DEF IInv
  <2>2. T(l) \in Nat /\ l \in Unread BY <2>1, LogTimes DEF Types, Unread
  <2>3. checkpoint.before \in Nat BY <2>1 DEF Types, Checkpoints
  <2> QED BY <2>1, <2>2, <2>3 DEF SavedOK
<1> QED BY <1>1, Invariance, PTL

=============================================================================
