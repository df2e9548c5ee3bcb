--------------------------- MODULE UpkeepProofs ---------------------------
(***************************************************************************)
(* TypeOK, BudgetHolds, ThrottleHolds and ActiveKept for any numbers of    *)
(* passes, isolates, profiles, logs, failures and restarts. The inductive  *)
(* invariant IInv has four parts.                                          *)
(*                                                                         *)
(* TypeInv gives the types, and where a pass or a task may be with what it *)
(* holds. ThrottleInv says what memory, cache and row know of the latest   *)
(* clean-up: a pass that has judged it due is wrong only for a reason that *)
(* ThrottleHolds names. ActiveInv says that each throttled copy of a       *)
(* user's time fits the record of that user: the record is no older than   *)
(* the throttle allows, or somebody is about to make it, or it failed.     *)
(*                                                                         *)
(* BudgetInv adds up a day. What passes have deleted but not yet counted   *)
(* is owed to the saved count (Owed, OwedBefore), and a sum of debts over  *)
(* all passes changes with the one pass that steps. The sums and their     *)
(* lemmas come first: Total is a recursive function chosen over subsets,   *)
(* so that it exists and splits is shown from the well-founded orders of   *)
(* subsets and of numbers.                                                 *)
(***************************************************************************)
EXTENDS Upkeep, FiniteSetTheorems, TLAPS

-----------------------------------------------------------------------------
(* Sums over finite sets.                                                  *)

Element(T) == CHOOSE x \in T : TRUE

(* Among subsets of a finite set one is smallest. *)
LEMMA SmallestSet ==
    ASSUME NEW S, IsFiniteSet(S), NEW B \in SUBSET SUBSET S, B # {}
    PROVE  \E T \in B : \A U \in B : U \subseteq T => U = T
<1>1. IsWellFoundedOn(StrictSubsetOrdering(S), SUBSET S)
  BY FS_StrictSubsetOrderingWellFounded, FS_FiniteSubsetsOfFinite
<1>2. PICK T \in B : \A U \in B : ~(<<U, T>> \in StrictSubsetOrdering(S))
  BY <1>1, WFMin
<1>3. ASSUME NEW U \in B, U \subseteq T, U # T PROVE FALSE
  BY <1>2, <1>3 DEF StrictSubsetOrdering
<1> QED BY <1>3

(* Among numbers one is least. *)
Less == {x \in Nat \X Nat : x[1] < x[2]}
LEMMA LeastNumber ==
    ASSUME NEW N \in SUBSET Nat, N # {}
    PROVE  \E n \in N : \A m \in N : n <= m
<1>1. IsWellFoundedOn(Less, Nat) BY NatLessThanWellFounded, Zenon DEF OpToRel, Less
<1>2. PICK n \in N : \A m \in N : ~(<<m, n>> \in Less)
  BY <1>1, WFMin
<1>3. ASSUME NEW m \in N, m < n PROVE FALSE
  BY <1>2, <1>3 DEF Less
<1> QED BY <1>3

(* g gives every set of family F the sum of f over it. *)
Sums(f, F, g) ==
    g = [T \in F |-> IF T = {} THEN 0 ELSE f[Element(T)] + g[T \ {Element(T)}]]

UpTo(S, n) == {T \in SUBSET S : Cardinality(T) <= n}

(* Sums exist: those over the sets of at most n elements give those over   *)
(* the sets of one more.                                                   *)
LEMMA SumsExist ==
    ASSUME NEW f, NEW S, IsFiniteSet(S)
    PROVE  \E g : Sums(f, SUBSET S, g)
<1> DEFINE N == {n \in Nat : ~ \E g : Sums(f, UpTo(S, n), g)}
<1>0. ASSUME NEW T \in SUBSET S
      PROVE  /\ IsFiniteSet(T) /\ Cardinality(T) \in Nat
             /\ Cardinality(T) <= Cardinality(S)
             /\ (T # {} => /\ T \ {Element(T)} \in SUBSET S
                           /\ Cardinality(T \ {Element(T)}) = Cardinality(T) - 1)
             /\ (Cardinality(T) = 0 <=> T = {})
  BY FS_Subset, FS_CardinalityType, FS_RemoveElement, FS_EmptySet DEF Element
<1>a. \A T \in SUBSET S : /\ Cardinality(T) \in Nat
                          /\ (Cardinality(T) = 0 <=> T = {})
                          /\ Cardinality(T) <= Cardinality(S)
  BY <1>0
<1>b. \A T \in SUBSET S : T # {} =>
         /\ T \ {Element(T)} \in SUBSET S
         /\ Cardinality(T \ {Element(T)}) = Cardinality(T) - 1
  BY <1>0
<1>1. N = {}
  <2> SUFFICES ASSUME N # {} PROVE FALSE
    OBVIOUS
  <2>1. PICK n \in N : \A m \in N : n <= m
    BY LeastNumber
  <2>2. CASE n = 0
    <3> DEFINE g == [T \in UpTo(S, 0) |-> 0]
    <3>1. \A T \in UpTo(S, 0) : T = {}
      BY <1>a DEF UpTo
    <3>2. Sums(f, UpTo(S, 0), g)
      BY <3>1 DEF Sums
    <3> QED BY <2>2, <3>2
  <2>3. CASE n # 0
    <3>1. n - 1 \in Nat /\ n - 1 \notin N
      BY <2>1, <2>3
    <3>2. PICK g : Sums(f, UpTo(S, n - 1), g)
      BY <3>1
    <3> DEFINE h == [T \in UpTo(S, n) |->
                       IF T = {} THEN 0 ELSE f[Element(T)] + g[T \ {Element(T)}]]
    <3>3. \A T \in UpTo(S, n) : T # {} => T \ {Element(T)} \in UpTo(S, n - 1)
      BY <1>a, <1>b, <2>1 DEF UpTo
    <3>4. UpTo(S, n - 1) \subseteq UpTo(S, n)
      BY <1>a, <2>1 DEF UpTo
    <3>5. \A T \in UpTo(S, n - 1) :
             g[T] = IF T = {} THEN 0 ELSE f[Element(T)] + g[T \ {Element(T)}]
      BY <3>2 DEF Sums
    <3>6. \A T \in UpTo(S, n - 1) : h[T] = g[T]
      BY <3>4, <3>5
    <3>7. h = [T \in UpTo(S, n) |->
                 IF T = {} THEN 0 ELSE f[Element(T)] + h[T \ {Element(T)}]]
      BY <3>3, <3>6
    <3>8. Sums(f, UpTo(S, n), h)
      BY <3>7 DEF Sums
    <3> QED BY <3>8
  <2> QED BY <2>2, <2>3
<1>2. Cardinality(S) \in Nat /\ UpTo(S, Cardinality(S)) = SUBSET S
  BY <1>a, FS_CardinalityType DEF UpTo
<1>3. \E g : Sums(f, UpTo(S, Cardinality(S)), g)
  BY <1>1, <1>2
<1> QED BY <1>2, <1>3

(* Total, unfolded. *)
LEMMA TotalIsASum ==
    ASSUME NEW f, NEW S, IsFiniteSet(S)
    PROVE  \E g : Sums(f, SUBSET S, g) /\ Total(f, S) = g[S]
<1> DEFINE g == CHOOSE x : Sums(f, SUBSET S, x)
<1>1. Sums(f, SUBSET S, g)
  BY SumsExist
<1>2. Total(f, S) = g[S]
  BY DEF Total, Sums, Element
<1> QED BY <1>1, <1>2

LEMMA SumsAgree ==
    ASSUME NEW f, NEW S, IsFiniteSet(S), NEW T, T \subseteq S,
           NEW F, NEW G, F = SUBSET S, G = SUBSET T,
           NEW g, NEW h, Sums(f, F, g), Sums(f, G, h)
    PROVE  g[T] = h[T]
<1> DEFINE B == {U \in SUBSET T : g[U] # h[U]}
<1>0. \A U \in SUBSET T :
         /\ g[U] = IF U = {} THEN 0 ELSE f[Element(U)] + g[U \ {Element(U)}]
         /\ h[U] = IF U = {} THEN 0 ELSE f[Element(U)] + h[U \ {Element(U)}]
         /\ U # {} => Element(U) \in U
  BY DEF Sums, Element
<1>1. B = {}
  <2> SUFFICES ASSUME B # {} PROVE FALSE
    OBVIOUS
  <2>0. B \in SUBSET SUBSET T /\ IsFiniteSet(T)
    BY FS_Subset
  <2> HIDE DEF B
  <2>1. PICK U \in B : \A V \in B : V \subseteq U => V = U
    BY <2>0, SmallestSet
  <2> USE DEF B
  <2>2. U # {} /\ Element(U) \in U
    BY <1>0
  <2>3. g[U \ {Element(U)}] = h[U \ {Element(U)}]
    BY <2>1, <2>2
  <2> QED BY <1>0, <2>2, <2>3
<1> QED BY <1>1

LEMMA TotalUnfold ==
    ASSUME NEW f, NEW S, IsFiniteSet(S)
    PROVE  Total(f, S) = IF S = {} THEN 0
                         ELSE f[Element(S)] + Total(f, S \ {Element(S)})
<1>1. PICK g : Sums(f, SUBSET S, g) /\ Total(f, S) = g[S]
  BY TotalIsASum
<1> DEFINE T == S \ {Element(S)}
<1>2. IsFiniteSet(T) /\ T \in SUBSET S
  BY FS_Subset
<1>3. PICK h : Sums(f, SUBSET T, h) /\ Total(f, T) = h[T]
  BY <1>2, TotalIsASum
<1>4. g[T] = h[T]
  <2> DEFINE F == SUBSET S
             G == SUBSET T
  <2>1. F = SUBSET S /\ G = SUBSET T /\ Sums(f, F, g) /\ Sums(f, G, h) /\ T \subseteq S
    BY <1>1, <1>3
  <2> HIDE DEF T, F, G
  <2> QED BY <2>1, SumsAgree
<1>5. g[S] = IF S = {} THEN 0 ELSE f[Element(S)] + g[T]
  BY <1>1 DEF Sums
<1> QED BY <1>1, <1>3, <1>4, <1>5

(* The sum of natural numbers is one, in whatever order. *)
LEMMA TotalSplit ==
    ASSUME NEW D, IsFiniteSet(D), NEW f \in [D -> Nat]
    PROVE  \A S \in SUBSET D :
             /\ Total(f, S) \in Nat
             /\ S = {} => Total(f, S) = 0
             /\ \A x \in S : Total(f, S) = f[x] + Total(f, S \ {x})
<1>0. \A S \in SUBSET D :
         /\ Total(f, S) = IF S = {} THEN 0
                          ELSE f[Element(S)] + Total(f, S \ {Element(S)})
         /\ S # {} => Element(S) \in S
  <2> TAKE S \in SUBSET D
  <2> QED BY TotalUnfold, FS_Subset DEF Element
<1>1. \A S \in SUBSET D : Total(f, S) \in Nat
  <2> DEFINE B == {S \in SUBSET D : Total(f, S) \notin Nat}
  <2> SUFFICES ASSUME B # {} PROVE FALSE
    OBVIOUS
  <2>0. B \in SUBSET SUBSET D
    OBVIOUS
  <2> HIDE DEF B
  <2>1. PICK U \in B : \A V \in B : V \subseteq U => V = U
    BY <2>0, SmallestSet
  <2> USE DEF B
  <2>2. Element(U) \in U /\ U # {} /\ U \in SUBSET D
    BY <1>0
  <2>3. Total(f, U \ {Element(U)}) \in Nat
    BY <2>1, <2>2
  <2> QED BY <1>0, <2>2, <2>3
<1>2. \A S \in SUBSET D : \A x \in S : Total(f, S) = f[x] + Total(f, S \ {x})
  <2> DEFINE B == {S \in SUBSET D : \E x \in S : Total(f, S) # f[x] + Total(f, S \ {x})}
  <2> SUFFICES ASSUME B # {} PROVE FALSE
    OBVIOUS
  <2>0. B \in SUBSET SUBSET D
    OBVIOUS
  <2> HIDE DEF B
  <2>1. PICK U \in B : \A V \in B : V \subseteq U => V = U
    BY <2>0, SmallestSet
  <2> USE DEF B
  <2>2. PICK x \in U : Total(f, U) # f[x] + Total(f, U \ {x})
    OBVIOUS
  <2> DEFINE e == Element(U)
  <2>3. e \in U /\ U # {} /\ Total(f, U) = f[e] + Total(f, U \ {e}) /\ e # x
    BY <1>0, <2>2
  <2>4. U \ {e} \notin B /\ U \ {x} \notin B
    BY <2>1, <2>3
  <2>5. Total(f, U \ {e}) = f[x] + Total(f, (U \ {e}) \ {x})
    BY <2>3, <2>4
  <2>6. Total(f, U \ {x}) = f[e] + Total(f, (U \ {x}) \ {e})
    BY <2>3, <2>4
  <2>7. (U \ {e}) \ {x} = (U \ {x}) \ {e}
    OBVIOUS
  <2>8. f[e] \in Nat /\ f[x] \in Nat /\ Total(f, (U \ {x}) \ {e}) \in Nat
    BY <1>1, <2>3
  <2>9. Total(f, U) = f[e] + (f[x] + Total(f, (U \ {x}) \ {e}))
    BY <2>3, <2>5, <2>7
  <2>10. Total(f, U) # f[x] + (f[e] + Total(f, (U \ {x}) \ {e}))
    BY <2>2, <2>6
  <2> HIDE DEF e, B
  <2> QED BY <2>8, <2>9, <2>10
<1>3. ASSUME NEW S \in SUBSET D PROVE S = {} => Total(f, S) = 0
  BY <1>0
<1> QED BY <1>1, <1>2, <1>3

(* A sum of smaller numbers is no larger. *)
LEMMA TotalMonotone ==
    ASSUME NEW D, IsFiniteSet(D), NEW f \in [D -> Nat], NEW g \in [D -> Nat]
    PROVE  \A S \in SUBSET D : (\A x \in S : f[x] <= g[x]) => Total(f, S) <= Total(g, S)
<1> DEFINE B == {S \in SUBSET D : (\A x \in S : f[x] <= g[x]) /\ ~(Total(f, S) <= Total(g, S))}
<1> SUFFICES ASSUME B # {} PROVE FALSE
  OBVIOUS
<1>0. B \in SUBSET SUBSET D
  OBVIOUS
<1> HIDE DEF B
<1>1. PICK U \in B : \A V \in B : V \subseteq U => V = U
  BY <1>0, SmallestSet
<1> USE DEF B
<1>2. \A S \in SUBSET D : /\ Total(f, S) \in Nat /\ Total(g, S) \in Nat
                          /\ S = {} => Total(f, S) = 0 /\ Total(g, S) = 0
                          /\ \A x \in S : /\ Total(f, S) = f[x] + Total(f, S \ {x})
                                          /\ Total(g, S) = g[x] + Total(g, S \ {x})
  BY TotalSplit
<1>3. U \in SUBSET D /\ U # {} /\ (\A x \in U : f[x] <= g[x]) /\ ~(Total(f, U) <= Total(g, U))
  BY <1>2
<1>4. PICK x \in U : TRUE
  BY <1>3
<1>5. Total(f, U \ {x}) <= Total(g, U \ {x})
  BY <1>1, <1>3, <1>4
<1>6. /\ Total(f, U) = f[x] + Total(f, U \ {x}) /\ Total(g, U) = g[x] + Total(g, U \ {x})
      /\ Total(f, U \ {x}) \in Nat /\ Total(g, U \ {x}) \in Nat
      /\ f[x] \in Nat /\ g[x] \in Nat /\ f[x] <= g[x]
  BY <1>2, <1>3, <1>4
<1> QED BY <1>3, <1>5, <1>6

(* When one of the numbers changes, so does the sum. *)
LEMMA TotalChange ==
    ASSUME NEW D, IsFiniteSet(D), NEW f \in [D -> Nat], NEW g \in [D -> Nat],
           NEW x \in D, \A y \in D \ {x} : f[y] = g[y]
    PROVE  /\ Total(f, D) \in Nat /\ Total(g, D) \in Nat
           /\ Total(g, D) = Total(f, D) - f[x] + g[x]
<1>1. /\ Total(f, D) \in Nat /\ Total(g, D) \in Nat
      /\ Total(f, D \ {x}) \in Nat /\ Total(g, D \ {x}) \in Nat
      /\ Total(f, D) = f[x] + Total(f, D \ {x}) /\ Total(g, D) = g[x] + Total(g, D \ {x})
  BY TotalSplit
<1>2. D \ {x} \in SUBSET D /\ \A y \in D \ {x} : f[y] \in Nat /\ f[y] <= g[y] /\ g[y] <= f[y]
  OBVIOUS
<1>3. Total(f, D \ {x}) <= Total(g, D \ {x}) /\ Total(g, D \ {x}) <= Total(f, D \ {x})
  BY <1>2, TotalMonotone
<1> QED BY <1>1, <1>3

LEMMA Multiply ==
    ASSUME NEW k \in Nat, NEW m \in Nat
    PROVE  k * (m + 1) = k * m + k /\ k * m \in Nat /\ k * 0 = 0
  OBVIOUS

(* A sum of numbers up to k is no larger than k times their number. *)
LEMMA TotalBound ==
    ASSUME NEW D, IsFiniteSet(D), NEW f \in [D -> Nat], NEW k \in Nat, \A x \in D : f[x] <= k
    PROVE  \A S \in SUBSET D : Total(f, S) <= k * Cardinality(S)
<1> DEFINE B == {S \in SUBSET D : ~(Total(f, S) <= k * Cardinality(S))}
<1> SUFFICES ASSUME B # {} PROVE FALSE
  OBVIOUS
<1>0. B \in SUBSET SUBSET D
  OBVIOUS
<1> HIDE DEF B
<1>1. PICK U \in B : \A V \in B : V \subseteq U => V = U
  BY <1>0, SmallestSet
<1> USE DEF B
<1>2. U \in SUBSET D /\ ~(Total(f, U) <= k * Cardinality(U)) /\ IsFiniteSet(U)
  BY FS_Subset
<1>3. U # {}
  BY <1>2, TotalSplit, FS_EmptySet, Multiply
<1>4. PICK x \in U : TRUE
  BY <1>3
<1> DEFINE m == Cardinality(U \ {x})
<1>5. m \in Nat /\ Cardinality(U) = m + 1
  <2>1. IsFiniteSet(U \ {x}) /\ Cardinality(U \ {x}) = Cardinality(U) - 1
    BY <1>2, <1>4, FS_RemoveElement
  <2>2. Cardinality(U) \in Nat /\ m \in Nat
    BY <1>2, <2>1, FS_CardinalityType
  <2> QED BY <2>1, <2>2
<1>6. Total(f, U \ {x}) <= k * m
  BY <1>1, <1>2, <1>4
<1>7. /\ Total(f, U) = f[x] + Total(f, U \ {x}) /\ Total(f, U \ {x}) \in Nat
      /\ f[x] \in Nat /\ f[x] <= k
  BY <1>2, <1>4, TotalSplit
<1>8. k * Cardinality(U) = k * m + k /\ k * m \in Nat
  BY <1>5, Multiply
<1> HIDE DEF m
<1> QED BY <1>2, <1>6, <1>7, <1>8
-----------------------------------------------------------------------------
(* What is known of the actors beside their types.                         *)

Steps == {"none", "shared", "stamp", "mark", "persist", "inactive", "select", "count",
          "delete", "save", "lists", "sync"}
PassType == [pc : Steps, at : Isolate \cup {None}, age : 0..Delay, met : BOOLEAN,
             memo : BOOLEAN, date : 0..1, todo : SUBSET Profile, per : Nat, base : Nat,
             gone : Nat]
VisitType == [pc : {"none", "ask", "write", "share"}, at : Isolate \cup {None},
              of : Profile \cup {None}, age : 0..Delay]
PlanType == [isolates : SUBSET Isolate, passes : SUBSET Pass, visits : SUBSET Visit,
             rows : SUBSET Profile, plain : SUBSET User, delay : 0..Delay,
             turn : BOOLEAN, due : Nat, logs : Nat, stale : Nat, faults : Nat]

(* A pass under way is in an isolate; one that shares out the budget has   *)
(* profiles to share it among.                                             *)
PassOK(c) == /\ ~At(c, "none") => run[c].at \in Isolate
             /\ run[c].pc \in {"count", "delete"} => run[c].todo # {}
             /\ run[c].todo \subseteq plan.rows
VisitOK(q) == ~AtTask(q, "none") => visit[q].at \in Isolate /\ visit[q].of \in plan.rows

TypeInv == /\ TypeOK
           /\ plan \in PlanType
           /\ \A c \in Pass : PassOK(c)
           /\ \A q \in Visit : VisitOK(q)
           /\ profiles \subseteq plan.rows
           /\ \A d \in 0..1 : lapses[d] <= MaxLapses

-----------------------------------------------------------------------------
(* The throttle of the clean-up.  An answer of the cache, or of the row,   *)
(* that lets a pass by shows that the latest clean-up was an hour ago      *)
(* (Hours), as long as the cache or the row knows of it.                   *)

SharedKnows == shared <= last + Delay
StampKnows == stamp <= last + Delay
Hours(c) == last - run[c].age >= Hour - Delay

ThrottleInv ==
    /\ SharedKnows \/ faults >= 1
    /\ StampKnows \/ faults >= 1
    /\ SharedKnows \/ StampKnows \/ faults >= 2
    /\ \A c \in Pass :
         /\ At(c, "persist") => shared <= run[c].age + Delay \/ faults >= 1
         /\ At(c, "stamp") /\ ~run[c].met =>
              Hours(c) \/ faults >= 2 \/ (faults = 1 /\ StampKnows)
         /\ run[c].pc \in {"mark", "persist"} /\ ~run[c].met =>
              Hours(c) \/ faults >= 2 \/ (faults = 1 /\ run[c].memo)

-----------------------------------------------------------------------------
(* The record of activity.  A throttle that keeps a query from a record    *)
(* shows that the record is not much older than the throttle; so does, of  *)
(* a query that passed, that its task is about to find out.                *)

Recording(u) == \E q \in Visit : AtTask(q, "write") /\ UserOf(q) = u
Fits(u, age) == missed[u] \/ Recording(u) \/ active[u] <= age + Delay
Asking(u) == \E q \in Visit : /\ AtTask(q, "ask") /\ UserOf(q) = u
                              /\ visit[q].age = queried[u]

ActiveInv ==
    /\ \A p \in plan.rows : \A r \in profiles : Owner[p] = Owner[r] => p \in profiles
    /\ \A p \in profiles :
         /\ \A i \in Isolate : beat[i][p] < PastBeat => Fits(Owner[p], beat[i][p])
         /\ sharedBeat[p] < PastBeat => Fits(Owner[p], sharedBeat[p])
         /\ Asking(Owner[p]) \/ Fits(Owner[p], queried[Owner[p]] + Active)
    /\ \A q \in Visit : AtTask(q, "share") /\ visit[q].of \in profiles =>
         Fits(UserOf(q), visit[q].age)

-----------------------------------------------------------------------------
(* The budget.  A pass that counts from base and has deleted gone logs may *)
(* save what a day may cost, Day, and no more; until then it owes the rest *)
(* to the day of its date.  A pass of the new day also owes to the day     *)
(* before as long as that is worked on, for it may overwrite its count.    *)

Day == Budget + Larger(1, Cardinality(plan.rows)) - 1
Deletes(c) == run[c].pc \in {"delete", "save"}
Retains(c) == run[c].pc \in {"count", "delete", "save"}
SomeRetain(d) == \E c \in Pass : Retains(c) /\ run[c].date = d
SomeDelete(d) == \E c \in Pass : Deletes(c) /\ run[c].date = d

Rest(c) == IF Deletes(c) THEN Day - (run[c].base + run[c].gone) ELSE Day
Owed(c) == IF Retains(c) /\ run[c].date = 0 THEN Rest(c) ELSE 0
OwedBefore(c) == IF Retains(c) THEN IF run[c].date = 1 THEN Rest(c) ELSE Day ELSE 0
Today == [c \in Pass |-> Owed(c)]
Yesterday == [c \in Pass |-> OwedBefore(c)]

(* What a pass may bring to be saved. *)
Frugal(c) ==
    /\ At(c, "delete") => run[c].base + run[c].gone
                            + run[c].per * Cardinality(run[c].todo) <= Day
    /\ At(c, "save") => run[c].base + run[c].gone <= Day
    /\ run[c].pc \notin {"delete", "save", "lists", "sync"} => run[c].gone = 0

(* What a day may have cost beside its lapses: what is saved for it, and,  *)
(* as long as passes are about to count it or have, another Day.           *)
Saved(d) == IF saved.date = d THEN saved.n ELSE 0
Slack == IF SomeRetain(1) THEN 0
         ELSE IF SomeDelete(0) THEN Day
         ELSE IF SomeRetain(0) THEN Day + Saved(0)
         ELSE Saved(0)
SlackBefore == IF SomeDelete(1) THEN Day ELSE Day + Saved(1)

Cost(d) == lapses[d] * Day

TodayInv ==
    lapses[0] = MaxLapses \/ spent[0] + Total(Today, Pass) <= Cost(0) + Slack
YesterdayInv ==
    \/ lapses[1] = MaxLapses
    \/ SomeRetain(1) /\ spent[1] + Total(Yesterday, Pass) <= Cost(1) + SlackBefore
    \/ ~SomeRetain(1) /\ spent[1] <= Cost(1) + Day

WithinDay == saved.n <= Day /\ \A c \in Pass : Frugal(c)

BudgetInv == Budget > 0 => WithinDay /\ TodayInv /\ YesterdayInv

-----------------------------------------------------------------------------
(* Types.                                                                  *)

LEMMA Numbers ==
    /\ Hour \in Nat /\ Memo \in Nat /\ Idle \in Nat /\ Active \in Nat /\ Quiet \in Nat
    /\ Batch \in Nat /\ Budget \in Nat /\ Chunk \in Nat /\ Delay \in Nat /\ MaxLapses \in Nat
    /\ Chunk > 0
  BY NumbersAssumption

LEMMA AgesOfPasses ==
    ASSUME NEW a \in 0..Delay
    PROVE  a \in Ages(Past) /\ a \in Ages(PastIdle) /\ a \in Ages(PastBeat) /\ a \in Ages(PastActive)
  BY Numbers DEF Ages, Past, PastIdle, PastBeat, PastActive

LEMMA OlderType ==
    ASSUME NEW n \in Nat, NEW a \in Ages(n)
    PROVE  /\ Older(a, n) \in Ages(n)
           /\ a = n => Older(a, n) = n
           /\ a # n => Older(a, n) = a + 1
  BY DEF Older, Smaller, Ages

LEMMA PastTypes ==
    /\ Past \in Nat /\ PastIdle \in Nat /\ PastBeat \in Nat /\ PastActive \in Nat
    /\ Past \in Ages(Past) /\ PastIdle \in Ages(PastIdle) /\ PastBeat \in Ages(PastBeat)
    /\ PastActive \in Ages(PastActive) /\ 0 \in Ages(PastActive) /\ 0 \in 0..Delay
  BY Numbers DEF Ages, Past, PastIdle, PastBeat, PastActive

LEMMA NoPassType == NoPass \in PassType /\ NoPass.pc = "none" /\ NoPass.todo = {}
  BY Numbers DEF NoPass, PassType, Steps

LEMMA NoVisitType == NoVisit \in VisitType /\ NoVisit.pc = "none"
  BY Numbers DEF NoVisit, VisitType

LEMMA InitTypes == Init => TypeInv
<1> SUFFICES ASSUME Init PROVE TypeInv
  OBVIOUS
<1>1. plan \in PlanType
  BY PlansAssumption DEF Init, PlanType
<1>2. plan.rows \subseteq Profile /\ plan.due \in Nat
  BY <1>1 DEF PlanType
<1>3. TypeOK
  <2>1. run \in [Pass -> PassType] /\ visit \in [Visit -> VisitType]
    BY NoPassType, NoVisitType DEF Init
  <2>2. memo \in [Isolate -> [v : Ages(Past), left : 0..Memo]]
    BY PastTypes, Numbers DEF Init, Forgotten
  <2>3. saved \in [date : 0..2, n : Nat]
    BY DEF Init, NotSaved
  <2>4. active \in [User -> Ages(PastActive)]
    BY PastTypes DEF Init
  <2> QED
    BY <1>2, <2>1, <2>2, <2>3, <2>4, PastTypes
    DEF Init, TypeOK, PassType, Steps, VisitType
<1>4. \A c \in Pass : PassOK(c)
  BY NoPassType DEF Init, PassOK, At
<1>5. \A q \in Visit : VisitOK(q)
  BY NoVisitType DEF Init, VisitOK, AtTask
<1>6. profiles \subseteq plan.rows /\ \A d \in 0..1 : lapses[d] <= MaxLapses
  BY Numbers DEF Init
<1> QED BY <1>1, <1>3, <1>4, <1>5, <1>6 DEF TypeInv

(* TypeInv by its parts, for steps that leave most of them alone.          *)
PlanPart == plan \in PlanType
RunPart == run \in [Pass -> PassType] /\ \A c \in Pass : PassOK(c)
ThrottlePart == /\ memory \in [Isolate -> Ages(Past)]
                /\ memo \in [Isolate -> [v : Ages(Past), left : 0..Memo]]
                /\ shared \in Ages(Past) /\ stamp \in Ages(Past) /\ last \in Ages(Past)
LogsPart == /\ profiles \subseteq Profile /\ profiles \subseteq plan.rows
            /\ due \in [Profile -> Nat]
            /\ saved \in [date : 0..2, n : Nat]
            /\ spent \in [0..1 -> Nat] /\ lapses \in [0..1 -> Nat]
            /\ \A d \in 0..1 : lapses[d] <= MaxLapses
ListsPart == idle \in Ages(PastIdle) /\ stale \in Nat
ActivityPart ==
    /\ visit \in [Visit -> VisitType] /\ \A q \in Visit : VisitOK(q)
    /\ sharedBeat \in [Profile -> Ages(PastBeat)]
    /\ beat \in [Isolate -> [Profile -> Ages(PastBeat)]]
    /\ active \in [User -> Ages(PastActive)] /\ queried \in [User -> Ages(PastActive)]
    /\ missed \in [User -> BOOLEAN]

LEMMA TypeParts ==
    TypeInv <=> /\ PlanPart /\ faults \in Nat /\ RunPart /\ ThrottlePart /\ LogsPart
                /\ ListsPart /\ ActivityPart
  BY DEF TypeInv, TypeOK, PassType, Steps, VisitType, PlanPart, RunPart, ThrottlePart,
         LogsPart, ListsPart, ActivityPart

LEMMA NextParts ==
    ASSUME PlanPart', faults' \in Nat, RunPart', ThrottlePart', LogsPart', ListsPart',
           ActivityPart'
    PROVE  TypeInv'
  BY DEF TypeInv, TypeOK, PassType, Steps, VisitType, PlanPart, RunPart, ThrottlePart,
         LogsPart, ListsPart, ActivityPart

(* A pass that goes on.                                                    *)
LEMMA GotoFacts ==
    ASSUME TypeInv, NEW c \in Pass, NEW pc \in Steps, Goto(c, pc)
    PROVE  /\ run' \in [Pass -> PassType]
           /\ run'[c].pc = pc /\ run'[c].at = run[c].at /\ run'[c].age = run[c].age
           /\ run'[c].met = run[c].met /\ run'[c].memo = run[c].memo
           /\ run'[c].date = run[c].date /\ run'[c].todo = run[c].todo
           /\ run'[c].per = run[c].per /\ run'[c].base = run[c].base
           /\ run'[c].gone = run[c].gone
           /\ \A d \in Pass \ {c} : run'[d] = run[d]
<1>1. run \in [Pass -> PassType]
  BY TypeParts DEF RunPart
<1> QED BY <1>1 DEF Goto, PassType

LEMMA LeaveFacts ==
    ASSUME TypeInv, NEW c \in Pass, Leave(c)
    PROVE  /\ run' \in [Pass -> PassType] /\ run'[c] = NoPass /\ run'[c].pc = "none"
           /\ \A d \in Pass \ {c} : run'[d] = run[d]
<1>1. run \in [Pass -> PassType]
  BY TypeParts DEF RunPart
<1> QED BY <1>1, NoPassType DEF Leave

(* One pass changes.                                                       *)
LEMMA OnePass ==
    ASSUME TypeInv, NEW c \in Pass, run' \in [Pass -> PassType], PassOK(c)',
           \A d \in Pass \ {c} : run'[d] = run[d], plan' = plan
    PROVE  RunPart'
  BY TypeParts DEF RunPart, PassOK, At

LEMMA GotoTypes ==
    ASSUME TypeInv, NEW c \in Pass, NEW pc \in Steps, Goto(c, pc), plan' = plan, ~At(c, "none"),
           pc \notin {"count", "delete"}
    PROVE  RunPart'
<1>1. PassOK(c)
  BY TypeParts DEF RunPart
<1>2. PassOK(c)'
  BY <1>1, GotoFacts DEF PassOK, At
<1> QED BY <1>2, GotoFacts, OnePass

LEMMA LeaveTypes ==
    ASSUME TypeInv, NEW c \in Pass, Leave(c), plan' = plan
    PROVE  RunPart'
<1>1. PassOK(c)'
  BY LeaveFacts, NoPassType DEF PassOK, At
<1> QED BY <1>1, LeaveFacts, OnePass

LEMMA FaultTypes ==
    ASSUME TypeInv, Fault \/ NoFault
    PROVE  faults' \in Nat /\ faults' >= faults
  BY TypeParts DEF Fault, NoFault

LEMMA Unchanged ==
    ASSUME TypeInv
    PROVE  /\ UNCHANGED plan => PlanPart'
           /\ UNCHANGED <<plan, run>> => RunPart'
           /\ UNCHANGED throttle => ThrottlePart'
           /\ UNCHANGED <<plan, logs>> => LogsPart'
           /\ UNCHANGED lists => ListsPart'
           /\ UNCHANGED <<plan, activity>> => ActivityPart'
<1>1. PlanPart /\ RunPart /\ ThrottlePart /\ LogsPart /\ ListsPart /\ ActivityPart
  BY TypeParts
<1>2. UNCHANGED plan => PlanPart'
  BY <1>1 DEF PlanPart
<1>3. UNCHANGED <<plan, run>> => RunPart'
  BY <1>1 DEF RunPart, PassOK, At
<1>4. UNCHANGED throttle => ThrottlePart'
  BY <1>1 DEF ThrottlePart, throttle
<1>5. UNCHANGED <<plan, logs>> => LogsPart'
  BY <1>1 DEF LogsPart, logs
<1>6. UNCHANGED lists => ListsPart'
  BY <1>1 DEF ListsPart, lists
<1>7. UNCHANGED <<plan, activity>> => ActivityPart'
  BY <1>1 DEF ActivityPart, activity, VisitOK, AtTask
<1> QED BY <1>2, <1>3, <1>4, <1>5, <1>6, <1>7

(* The throttles. *)
LEMMA BeginFacts ==
    ASSUME TypeInv, NEW c \in Pass, NEW i \in Isolate, Begin(c, i)
    PROVE  /\ run' \in [Pass -> PassType]
           /\ run'[c].pc \in {"lists", "shared"} /\ run'[c].at = i /\ run'[c].todo = {}
           /\ run'[c].age = 0 /\ ~run'[c].met /\ run'[c].gone = 0
           /\ \A d \in Pass \ {c} : run'[d] = run[d]
<1>0. PICK pc \in {"lists", "shared"} :
         run' = [run EXCEPT ![c] = [NoPass EXCEPT !.pc = pc, !.at = i]]
  BY DEF Begin
<1> DEFINE r == [NoPass EXCEPT !.pc = pc, !.at = i]
<1>1. /\ r \in PassType /\ r.pc \in {"lists", "shared"} /\ r.at = i /\ r.todo = {}
      /\ r.age = 0 /\ ~r.met /\ r.gone = 0
  <2>1. /\ NoPass \in PassType /\ NoPass.todo = {} /\ NoPass.age = 0 /\ NoPass.met = FALSE
        /\ NoPass.gone = 0
    BY NoPassType DEF NoPass
  <2>2. pc \in Steps
    BY DEF Steps
  <2> QED BY <2>1, <2>2 DEF PassType
<1>2. run \in [Pass -> PassType]
  BY TypeParts DEF RunPart
<1>3. run' = [run EXCEPT ![c] = r]
  BY <1>0
<1> HIDE DEF r
<1> QED BY <1>1, <1>2, <1>3

LEMMA BeginTypes ==
    ASSUME TypeInv, NEW c \in Pass, NEW i \in Isolate, Begin(c, i)
    PROVE  TypeInv'
<1>1. PassOK(c)'
  BY BeginFacts DEF PassOK, At
<1>2. RunPart'
  BY <1>1, BeginFacts, OnePass DEF Begin
<1> QED BY <1>2, TypeParts, NextParts, Unchanged DEF Begin

LEMMA AskSharedTypes ==
    ASSUME TypeInv, NEW c \in Pass, AskShared(c)
    PROVE  TypeInv'
<1>1. RunPart'
  <2>1. PICK pc \in {"lists", "stamp"} : Goto(c, pc)
    BY DEF AskShared
  <2> QED BY <2>1, GotoTypes DEF AskShared, At, Steps
<1>2. ThrottlePart'
  <2>1. ThrottlePart
    BY TypeParts
  <2> QED BY <2>1 DEF AskShared, ThrottlePart
<1> QED BY <1>1, <1>2, TypeParts, NextParts, Unchanged DEF AskShared

(* What AskStamp does, and whose answer it goes by. *)
LEMMA AskStampFacts ==
    ASSUME TypeInv, NEW c \in Pass, AskStamp(c)
    PROVE  \E v \in Ages(Past), known \in BOOLEAN :
             /\ known \/ v = stamp => NoFault
             /\ ~known /\ v # stamp => Fault
             /\ memo' \in [Isolate -> [v : Ages(Past), left : 0..Memo]]
             /\ \/ /\ Within(v, Hour, c) /\ Goto(c, "lists")
                   /\ memory' = [memory EXCEPT ![run[c].at] = v]
                \/ /\ ~Within(v, Hour, c)
                   /\ memory' = [memory EXCEPT ![run[c].at] = run[c].age]
                   /\ run' = [run EXCEPT ![c].pc = "mark", ![c].memo = known]
<1> DEFINE i == run[c].at
           known == memo[i].left > 0
<1>1. i \in Isolate
  BY TypeParts DEF RunPart, PassOK, At, AskStamp
<1>2. ThrottlePart
  BY TypeParts
<1>3. memo[i].v \in Ages(Past) /\ memo[i].left \in 0..Memo /\ known \in BOOLEAN
  BY <1>1, <1>2 DEF ThrottlePart
<1>4. PICK v \in IF known THEN {memo[i].v} ELSE {stamp, Past} :
             /\ IF known \/ v = stamp THEN NoFault ELSE Fault
             /\ memo' = IF known THEN memo ELSE [memo EXCEPT ![i] = [v |-> v, left |-> Memo]]
             /\ \/ /\ Within(v, Hour, c)
                   /\ memory' = [memory EXCEPT ![i] = v]
                   /\ Goto(c, "lists")
                \/ /\ ~Within(v, Hour, c)
                   /\ memory' = [memory EXCEPT ![i] = run[c].age]
                   /\ run' = [run EXCEPT ![c].pc = "mark", ![c].memo = known]
  BY DEF AskStamp
<1>5. v \in Ages(Past)
  BY <1>2, <1>3, <1>4, PastTypes DEF ThrottlePart
<1>6. memo' \in [Isolate -> [v : Ages(Past), left : 0..Memo]]
  <2>1. memo \in [Isolate -> [v : Ages(Past), left : 0..Memo]]
    BY <1>2 DEF ThrottlePart
  <2>2. [v |-> v, left |-> Memo] \in [v : Ages(Past), left : 0..Memo]
    BY <1>5, Numbers
  <2>3. memo' = memo \/ memo' = [memo EXCEPT ![i] = [v |-> v, left |-> Memo]]
    BY <1>4
  <2> QED BY <2>1, <2>2, <2>3
<1>7. known \in BOOLEAN
  BY <1>3
<1> HIDE DEF known
<1> QED BY <1>4, <1>5, <1>6, <1>7

LEMMA AskStampTypes ==
    ASSUME TypeInv, NEW c \in Pass, AskStamp(c)
    PROVE  TypeInv'
<1>1. PICK v \in Ages(Past), known \in BOOLEAN :
             /\ known \/ v = stamp => NoFault
             /\ ~known /\ v # stamp => Fault
             /\ memo' \in [Isolate -> [v : Ages(Past), left : 0..Memo]]
             /\ \/ /\ Within(v, Hour, c) /\ Goto(c, "lists")
                   /\ memory' = [memory EXCEPT ![run[c].at] = v]
                \/ /\ ~Within(v, Hour, c)
                   /\ memory' = [memory EXCEPT ![run[c].at] = run[c].age]
                   /\ run' = [run EXCEPT ![c].pc = "mark", ![c].memo = known]
  BY AskStampFacts
<1>2. RunPart /\ ThrottlePart /\ At(c, "stamp") /\ PassOK(c) /\ UNCHANGED <<plan, shared, stamp, last, logs, lists, activity>>
  BY TypeParts DEF RunPart, AskStamp
<1>3. RunPart'
  <2>1. CASE Goto(c, "lists")
    BY <1>2, <2>1, GotoTypes DEF At, Steps
  <2>2. CASE run' = [run EXCEPT ![c].pc = "mark", ![c].memo = known]
    <3>1. /\ run' \in [Pass -> PassType] /\ run'[c].pc = "mark" /\ run'[c].at = run[c].at
          /\ run'[c].todo = run[c].todo /\ \A d \in Pass \ {c} : run'[d] = run[d]
      <4>1. /\ run[c] \in PassType /\ run \in [Pass -> PassType]
            /\ run'[c] = [run[c] EXCEPT !.pc = "mark", !.memo = known]
        BY <1>2, <2>2 DEF RunPart
      <4>2. /\ run'[c] \in PassType /\ run'[c].pc = "mark" /\ run'[c].at = run[c].at
            /\ run'[c].todo = run[c].todo
        BY <4>1 DEF PassType, Steps
      <4> QED BY <2>2, <4>1, <4>2
    <3>2. PassOK(c)'
      BY <1>2, <3>1 DEF PassOK, At
    <3> QED BY <1>2, <3>1, <3>2, OnePass
  <2> QED BY <1>1, <2>1, <2>2
<1>4. run[c].age \in 0..Delay
  BY <1>2 DEF RunPart, PassType
<1>5. ThrottlePart'
  BY <1>1, <1>2, <1>4, AgesOfPasses DEF ThrottlePart
<1>6. faults' \in Nat
  BY <1>1, FaultTypes
<1> QED BY <1>2, <1>3, <1>5, <1>6, TypeParts, NextParts, Unchanged

LEMMA AgeType ==
    ASSUME TypeInv, NEW c \in Pass
    PROVE  run[c] \in PassType /\ run[c].age \in 0..Delay /\ run[c].age \in Nat
<1>1. run[c] \in PassType
  BY TypeParts DEF RunPart
<1> QED BY <1>1, Numbers DEF PassType

LEMMA MarkTypes ==
    ASSUME TypeInv, NEW c \in Pass, Mark(c)
    PROVE  TypeInv'
<1>1. RunPart'
  BY GotoTypes DEF Mark, At, Steps
<1>2. ThrottlePart'
  <2>1. ThrottlePart
    BY TypeParts
  <2> QED BY <2>1, AgeType, AgesOfPasses DEF Mark, ThrottlePart
<1> QED BY <1>1, <1>2, TypeParts, NextParts, Unchanged DEF Mark

LEMMA AbandonTypes ==
    ASSUME TypeInv, NEW c \in Pass, Abandon(c)
    PROVE  TypeInv'
<1>1. RunPart'
  BY LeaveTypes DEF Abandon
<1>2. faults' \in Nat
  BY FaultTypes DEF Abandon
<1> QED BY <1>1, <1>2, TypeParts, NextParts, Unchanged DEF Abandon

LEMMA PersistFacts ==
    ASSUME TypeInv, NEW c \in Pass, Persist(c)
    PROVE  /\ run' \in [Pass -> PassType]
           /\ run'[c].pc = "inactive" /\ run'[c].at = run[c].at /\ run'[c].todo = run[c].todo
           /\ run'[c].gone = run[c].gone
           /\ \A d \in Pass \ {c} :
                /\ run'[d].pc = run[d].pc /\ run'[d].at = run[d].at /\ run'[d].age = run[d].age
                /\ run'[d].memo = run[d].memo /\ run'[d].date = run[d].date
                /\ run'[d].todo = run[d].todo /\ run'[d].per = run[d].per
                /\ run'[d].base = run[d].base /\ run'[d].gone = run[d].gone
                /\ run'[d].met = ~At(d, "none")
<1>1. \A d \in Pass : run[d] \in PassType
  BY AgeType
<1>2. /\ run' = [d \in Pass |-> IF d = c THEN [run[d] EXCEPT !.pc = "inactive"]
                              ELSE [run[d] EXCEPT !.met = ~At(d, "none")]]
  BY DEF Persist
<1>3. \A d \in Pass \ {c} : run'[d] = [run[d] EXCEPT !.met = ~At(d, "none")]
  BY <1>2
<1>4. run'[c] = [run[c] EXCEPT !.pc = "inactive"]
  BY <1>2
<1>5. ASSUME NEW d \in Pass \ {c}
      PROVE  /\ run'[d] \in PassType
             /\ run'[d].pc = run[d].pc /\ run'[d].at = run[d].at /\ run'[d].age = run[d].age
             /\ run'[d].memo = run[d].memo /\ run'[d].date = run[d].date
             /\ run'[d].todo = run[d].todo /\ run'[d].per = run[d].per
             /\ run'[d].base = run[d].base /\ run'[d].gone = run[d].gone
             /\ run'[d].met = ~At(d, "none")
  <2>1. PICK b \in BOOLEAN : b = ~At(d, "none")
    OBVIOUS
  <2>2. run[d] \in PassType /\ run'[d] = [run[d] EXCEPT !.met = b]
    BY <1>1, <1>3, <2>1
  <2>3. /\ run'[d] \in PassType
        /\ run'[d].pc = run[d].pc /\ run'[d].at = run[d].at /\ run'[d].age = run[d].age
        /\ run'[d].memo = run[d].memo /\ run'[d].date = run[d].date
        /\ run'[d].todo = run[d].todo /\ run'[d].per = run[d].per
        /\ run'[d].base = run[d].base /\ run'[d].gone = run[d].gone
        /\ run'[d].met = b
    BY <2>2 DEF PassType
  <2> QED BY <2>1, <2>3
<1>6. /\ run'[c] \in PassType
      /\ run'[c].pc = "inactive" /\ run'[c].at = run[c].at /\ run'[c].todo = run[c].todo
      /\ run'[c].gone = run[c].gone
  BY <1>1, <1>4 DEF PassType, Steps
<1> QED BY <1>2, <1>5, <1>6

LEMMA PersistTypes ==
    ASSUME TypeInv, NEW c \in Pass, Persist(c)
    PROVE  TypeInv'
<1>1. \A d \in Pass : PassOK(d)
  BY TypeParts DEF RunPart
<1>2. RunPart'
  <2>1. ASSUME NEW d \in Pass PROVE PassOK(d)'
    <3>1. CASE d = c
      BY <1>1, <3>1, PersistFacts DEF PassOK, At, Persist
    <3>2. CASE d # c
      <4>1. /\ run'[d].pc = run[d].pc /\ run'[d].at = run[d].at
            /\ run'[d].todo = run[d].todo /\ plan' = plan
        BY <3>2, PersistFacts DEF Persist
      <4> QED BY <1>1, <4>1 DEF PassOK, At
    <3> QED BY <3>1, <3>2
  <2> QED BY <2>1, PersistFacts DEF RunPart
<1>3. ThrottlePart'
  <2>1. ThrottlePart /\ run[c].age \in Ages(Past) /\ Memo \in 0..Memo
    BY TypeParts, AgeType, AgesOfPasses, Numbers
  <2> QED BY <2>1 DEF Persist, ThrottlePart
<1>4. faults' \in Nat
  BY FaultTypes DEF Persist
<1> QED BY <1>2, <1>3, <1>4, TypeParts, NextParts, Unchanged DEF Persist

(* The jobs. *)
LEMMA ClearTypes ==
    ASSUME TypeInv, NEW c \in Pass, Clear(c)
    PROVE  TypeInv'
<1>1. RunPart'
  BY GotoTypes DEF Clear, At, Steps
<1>2. LogsPart'
  <2>1. LogsPart
    BY TypeParts
  <2>2. profiles' \subseteq profiles
    BY DEF Clear
  <2>3. due' \in [Profile -> Nat]
    BY <2>1 DEF Clear, LogsPart
  <2> QED BY <2>1, <2>2, <2>3 DEF Clear, LogsPart
<1>3. faults' \in Nat
  BY FaultTypes DEF Clear
<1> QED BY <1>1, <1>2, <1>3, TypeParts, NextParts, Unchanged DEF Clear

LEMMA LapseFacts ==
    ASSUME LogsPart, NEW d \in 0..1, Lapse(d)
    PROVE  /\ lapses' \in [0..1 -> Nat]
           /\ \A e \in 0..1 : lapses'[e] <= MaxLapses
           /\ \A e \in 0..1 : lapses[e] <= lapses'[e]
           /\ \A e \in 0..1 \ {d} : lapses'[e] = lapses[e]
           /\ lapses'[d] = MaxLapses \/ lapses'[d] = lapses[d] + 1
  BY Numbers DEF LogsPart, Lapse, Smaller

LEMMA SelectFacts ==
    ASSUME TypeInv, NEW c \in Pass, Select(c)
    PROVE  \/ Goto(c, "lists") /\ UNCHANGED lapses
           \/ /\ run' \in [Pass -> PassType]
              /\ run'[c].pc = "count" /\ run'[c].at = run[c].at /\ run'[c].date = 0
              /\ run'[c].todo = profiles /\ profiles # {}
              /\ run'[c].gone = run[c].gone
              /\ \A d \in Pass \ {c} : run'[d] = run[d]
              /\ lapses' = [d \in 0..1 |->
                    IF Retaining # {} /\ (d = 0 \/ \E b \in Retaining : run[b].date = d)
                    THEN Smaller(lapses[d] + 1, MaxLapses) ELSE lapses[d]]
<1>1. run \in [Pass -> PassType] /\ profiles \subseteq Profile
  BY TypeParts DEF RunPart, LogsPart
<1>2. CASE run' = [run EXCEPT ![c].pc = "count", ![c].todo = profiles, ![c].date = 0]
  <2>1. /\ run' \in [Pass -> PassType]
        /\ run'[c].pc = "count" /\ run'[c].at = run[c].at /\ run'[c].date = 0
        /\ run'[c].todo = profiles /\ run'[c].gone = run[c].gone
        /\ \A d \in Pass \ {c} : run'[d] = run[d]
    <3>1. run[c] \in PassType /\ profiles \in SUBSET Profile
      BY <1>1
    <3>2. run'[c] = [run[c] EXCEPT !.pc = "count", !.todo = profiles, !.date = 0]
      BY <1>1, <1>2
    <3>3. /\ run'[c] \in PassType
          /\ run'[c].pc = "count" /\ run'[c].at = run[c].at /\ run'[c].date = 0
          /\ run'[c].todo = profiles /\ run'[c].gone = run[c].gone
      <4>1. run'[c] = [pc |-> "count", at |-> run[c].at, age |-> run[c].age, met |-> run[c].met,
                       memo |-> run[c].memo, date |-> 0, todo |-> profiles,
                       per |-> run[c].per, base |-> run[c].base, gone |-> run[c].gone]
        BY <3>1, <3>2 DEF PassType
      <4>2. "count" \in Steps /\ 0 \in 0..1
        BY DEF Steps
      <4> QED BY <3>1, <4>1, <4>2 DEF PassType
    <3> QED BY <1>1, <1>2, <3>3
  <2>2. Goto(c, "lists") => run'[c].pc = "lists"
    BY GotoFacts DEF Steps
  <2> QED BY <2>1, <2>2 DEF Select
<1>3. CASE Goto(c, "lists") /\ UNCHANGED lapses
  BY <1>3
<1> QED BY <1>2, <1>3 DEF Select

LEMMA SelectTypes ==
    ASSUME TypeInv, NEW c \in Pass, Select(c)
    PROVE  TypeInv'
<1>0. LogsPart /\ PassOK(c) /\ ~At(c, "none") /\ UNCHANGED <<plan, throttle, profiles, due, saved, spent, lists, activity>>
  BY TypeParts DEF RunPart, Select, At
<1>1. RunPart' /\ LogsPart'
  <2>1. CASE Goto(c, "lists") /\ UNCHANGED lapses
    <3>1. RunPart'
      BY <1>0, <2>1, GotoTypes DEF Steps
    <3> QED BY <1>0, <2>1, <3>1 DEF LogsPart
  <2>2. CASE /\ run' \in [Pass -> PassType]
             /\ run'[c].pc = "count" /\ run'[c].at = run[c].at /\ run'[c].date = 0
             /\ run'[c].todo = profiles /\ profiles # {}
             /\ \A d \in Pass \ {c} : run'[d] = run[d]
             /\ lapses' = [d \in 0..1 |->
                    IF Retaining # {} /\ (d = 0 \/ \E b \in Retaining : run[b].date = d)
                    THEN Smaller(lapses[d] + 1, MaxLapses) ELSE lapses[d]]
    <3>1. PassOK(c)'
      BY <1>0, <2>2 DEF PassOK, At, LogsPart
    <3>2. RunPart'
      BY <1>0, <2>2, <3>1, OnePass
    <3>3. lapses' \in [0..1 -> Nat] /\ \A d \in 0..1 : lapses'[d] <= MaxLapses
      BY <1>0, <2>2, Numbers DEF LogsPart, Smaller
    <3> QED BY <1>0, <3>2, <3>3 DEF LogsPart
  <2> QED BY <2>1, <2>2, SelectFacts
<1>2. faults' \in Nat
  BY FaultTypes DEF Select
<1> QED BY <1>0, <1>1, <1>2, TypeParts, NextParts, Unchanged

LEMMA RemainingType ==
    ASSUME NEW base \in Nat
    PROVE  /\ Limit(base) \in Nat
           /\ Budget > 0 /\ Limit(base) # 0 => base < Budget /\ Limit(base) <= Budget - base
  BY Numbers DEF Limit, Remaining, Smaller, Larger

LEMMA Quotient ==
    ASSUME NEW a \in Nat, NEW n \in Nat, n # 0
    PROVE  a \div n \in Nat /\ (a \div n) * n <= a
  OBVIOUS

(* The shares of n profiles fit in the limit, or are one each. *)
LEMMA ShareFacts ==
    ASSUME NEW base \in Nat, NEW n \in Nat, n # 0
    PROVE  /\ PerProfile(base, n) \in Nat
           /\ PerProfile(base, n) * n <= Larger(n, Limit(base))
<1> DEFINE q == Limit(base) \div n
<1>1. q \in Nat /\ q * n <= Limit(base) /\ Limit(base) \in Nat
  BY Quotient, RemainingType
<1>2. PerProfile(base, n) = IF 1 <= q THEN q ELSE 1
  BY DEF PerProfile, Larger
<1>3. 1 * n = n
  OBVIOUS
<1> HIDE DEF q
<1>4. CASE 1 <= q
  BY <1>1, <1>2, <1>4 DEF Larger
<1>5. CASE ~(1 <= q)
  BY <1>1, <1>2, <1>3, <1>5 DEF Larger
<1> QED BY <1>4, <1>5

LEMMA TodoSize ==
    ASSUME TypeInv, NEW c \in Pass
    PROVE  /\ IsFiniteSet(run[c].todo) /\ Cardinality(run[c].todo) \in Nat
           /\ run[c].todo # {} => Cardinality(run[c].todo) # 0
           /\ run[c].todo \subseteq Profile
<1>1. run[c].todo \subseteq Profile
  BY AgeType DEF PassType
<1> QED BY <1>1, FiniteAssumption, FS_Subset, FS_CardinalityType, FS_EmptySet

LEMMA CountFacts ==
    ASSUME TypeInv, NEW c \in Pass, Count(c)
    PROVE  \E base \in Nat :
             /\ \/ /\ base = IF saved.date = run[c].date THEN saved.n ELSE 0
                   /\ NoFault /\ UNCHANGED lapses
                \/ base = 0 /\ Fault /\ Lapse(run[c].date)
             /\ run' \in [Pass -> PassType]
             /\ run'[c].pc = IF Limit(base) = 0 THEN "lists" ELSE "delete"
             /\ run'[c].base = base
             /\ run'[c].per = PerProfile(base, Cardinality(run[c].todo))
             /\ run'[c].at = run[c].at /\ run'[c].todo = run[c].todo
             /\ run'[c].date = run[c].date /\ run'[c].gone = run[c].gone
             /\ \A d \in Pass \ {c} : run'[d] = run[d]
<1> DEFINE read == IF saved.date = run[c].date THEN saved.n ELSE 0
<1>1. PICK base \in {read, 0} :
        /\ \/ base = read /\ NoFault /\ UNCHANGED lapses
           \/ base = 0 /\ Fault /\ Lapse(run[c].date)
        /\ run' = [run EXCEPT
                ![c].pc = IF Limit(base) = 0 THEN "lists" ELSE "delete",
                ![c].base = base, ![c].per = PerProfile(base, Cardinality(run[c].todo))]
  BY DEF Count
<1>2. base \in Nat
  <2>1. saved.n \in Nat
    BY TypeParts DEF LogsPart
  <2> QED BY <1>1, <2>1
<1>3. run \in [Pass -> PassType] /\ run[c] \in PassType /\ run[c].todo # {}
  BY TypeParts DEF RunPart, PassOK, Count, At
<1>4. PICK per \in Nat : per = PerProfile(base, Cardinality(run[c].todo))
  BY <1>2, <1>3, ShareFacts, TodoSize
<1>5. PICK pc \in {"lists", "delete"} : pc = IF Limit(base) = 0 THEN "lists" ELSE "delete"
  OBVIOUS
<1>6. run'[c] = [run[c] EXCEPT !.pc = pc, !.base = base, !.per = per]
  BY <1>1, <1>3, <1>4, <1>5
<1>7. /\ run'[c] \in PassType
      /\ run'[c].pc = pc /\ run'[c].base = base /\ run'[c].per = per
      /\ run'[c].at = run[c].at /\ run'[c].todo = run[c].todo
      /\ run'[c].date = run[c].date /\ run'[c].gone = run[c].gone
  BY <1>2, <1>3, <1>6 DEF PassType, Steps
<1>8. run' \in [Pass -> PassType] /\ \A d \in Pass \ {c} : run'[d] = run[d]
  BY <1>1, <1>3, <1>7
<1> HIDE DEF read
<1>9. \/ base = read /\ NoFault /\ UNCHANGED lapses
      \/ base = 0 /\ Fault /\ Lapse(run[c].date)
  BY <1>1
<1> USE DEF read
<1> QED BY <1>2, <1>4, <1>5, <1>7, <1>8, <1>9

LEMMA DateType ==
    ASSUME TypeInv, NEW c \in Pass
    PROVE  run[c].date \in 0..1
  BY AgeType DEF PassType

LEMMA CountTypes ==
    ASSUME TypeInv, NEW c \in Pass, Count(c)
    PROVE  TypeInv'
<1>0. LogsPart /\ PassOK(c) /\ At(c, "count")
      /\ UNCHANGED <<plan, throttle, profiles, due, saved, spent, lists, activity>>
  BY TypeParts DEF RunPart, Count
<1>1. PassOK(c)'
  BY <1>0, CountFacts DEF PassOK, At
<1>2. RunPart'
  BY <1>0, <1>1, CountFacts, OnePass
<1>3. UNCHANGED lapses \/ Lapse(run[c].date)
  BY CountFacts
<1>4. LogsPart'
  BY <1>0, <1>3, LapseFacts, DateType DEF LogsPart
<1>5. faults' \in Nat
  BY CountFacts, FaultTypes
<1> QED BY <1>0, <1>2, <1>4, <1>5, TypeParts, NextParts, Unchanged

(* What a batch of deletions takes away, and what it leaves. *)
LEMMA DeleteFacts ==
    ASSUME TypeInv, NEW c \in Pass, Delete(c)
    PROVE  \/ /\ Fault /\ Lapse(run[c].date) /\ Goto(c, "lists") /\ UNCHANGED <<due, spent>>
           \/ \E t \in Nat, left \in SUBSET run[c].todo :
                /\ t + run[c].per * Cardinality(left) <= run[c].per * Cardinality(run[c].todo)
                /\ due' \in [Profile -> Nat]
                /\ spent' = [spent EXCEPT ![run[c].date] = @ + t]
                /\ run' \in [Pass -> PassType]
                /\ run'[c].todo = left /\ run'[c].gone = run[c].gone + t
                /\ run'[c].pc = IF left # {} THEN "delete"
                                ELSE IF Budget > 0 THEN "save" ELSE "lists"
                /\ run'[c].at = run[c].at /\ run'[c].date = run[c].date
                /\ run'[c].per = run[c].per /\ run'[c].base = run[c].base
                /\ \A d \in Pass \ {c} : run'[d] = run[d]
                /\ NoFault /\ UNCHANGED lapses
<1>1. CASE Fault /\ Lapse(run[c].date) /\ Goto(c, "lists") /\ UNCHANGED <<due, spent>>
  BY <1>1
<1>2. ASSUME NEW S \in SUBSET run[c].todo,
             LET cut == [p \in S |-> Smaller(run[c].per, due[p])]
                 left == run[c].todo \ S
             IN /\ Cardinality(S) = Smaller(Chunk, Cardinality(run[c].todo))
                /\ due' = [p \in Profile |-> IF p \in S THEN due[p] - cut[p] ELSE due[p]]
                /\ spent' = [spent EXCEPT ![run[c].date] = @ + Total(cut, S)]
                /\ run' = [run EXCEPT ![c].todo = left, ![c].gone = @ + Total(cut, S),
                             ![c].pc = CASE left # {} -> "delete"
                                         [] left = {} /\ Budget > 0 -> "save"
                                         [] left = {} /\ Budget = 0 -> "lists"]
                /\ NoFault /\ UNCHANGED lapses
      PROVE  \E t \in Nat, left \in SUBSET run[c].todo :
                /\ t + run[c].per * Cardinality(left) <= run[c].per * Cardinality(run[c].todo)
                /\ due' \in [Profile -> Nat]
                /\ spent' = [spent EXCEPT ![run[c].date] = @ + t]
                /\ run' \in [Pass -> PassType]
                /\ run'[c].todo = left /\ run'[c].gone = run[c].gone + t
                /\ run'[c].pc = IF left # {} THEN "delete"
                                ELSE IF Budget > 0 THEN "save" ELSE "lists"
                /\ run'[c].at = run[c].at /\ run'[c].date = run[c].date
                /\ run'[c].per = run[c].per /\ run'[c].base = run[c].base
                /\ \A d \in Pass \ {c} : run'[d] = run[d]
                /\ NoFault /\ UNCHANGED lapses
  <2> DEFINE cut == [p \in S |-> Smaller(run[c].per, due[p])]
             left == run[c].todo \ S
             t == Total(cut, S)
             pc == IF left # {} THEN "delete" ELSE IF Budget > 0 THEN "save" ELSE "lists"
  <2>1. /\ run \in [Pass -> PassType] /\ run[c] \in PassType /\ run[c].per \in Nat
        /\ run[c].gone \in Nat /\ due \in [Profile -> Nat] /\ run[c].todo \subseteq Profile
    BY TypeParts, AgeType DEF RunPart, LogsPart, PassType
  <2>2. /\ IsFiniteSet(S) /\ Cardinality(S) \in Nat
        /\ IsFiniteSet(left) /\ Cardinality(left) \in Nat
        /\ Cardinality(run[c].todo) = Cardinality(S) + Cardinality(left)
    <3>1. IsFiniteSet(run[c].todo) /\ Cardinality(run[c].todo) \in Nat /\ S \cap run[c].todo = S
          /\ run[c].todo \cap S = S
      BY TodoSize
    <3>2. IsFiniteSet(S) /\ Cardinality(S) \in Nat
      BY <3>1, FS_Subset, FS_CardinalityType
    <3>3. IsFiniteSet(left) /\ Cardinality(left) = Cardinality(run[c].todo) - Cardinality(S)
      <4> DEFINE A == run[c].todo
                 B == run[c].todo \cap S
      <4>1. B = S
        BY <3>1
      <4>2. IsFiniteSet(A)
        BY <3>1
      <4> HIDE DEF A
      <4>3. IsFiniteSet(A \ S) /\ Cardinality(A \ S) = Cardinality(A) - Cardinality(A \cap S)
        BY <4>2, FS_Difference
      <4> QED BY <4>1, <4>3 DEF A
    <3>4. Cardinality(left) \in Nat
      BY <3>3, FS_CardinalityType
    <3> QED BY <3>1, <3>2, <3>3, <3>4
  <2>3. cut \in [S -> Nat] /\ \A p \in S : cut[p] <= run[c].per /\ cut[p] <= due[p]
    BY <2>1 DEF Smaller
  <2>4. t \in Nat /\ t <= run[c].per * Cardinality(S)
    <3>1. S \in SUBSET S
      OBVIOUS
    <3> HIDE DEF cut
    <3> QED BY <2>1, <2>2, <2>3, <3>1, TotalSplit, TotalBound
  <2>5. run[c].per * Cardinality(run[c].todo)
           = run[c].per * Cardinality(S) + run[c].per * Cardinality(left)
    <3>1. ASSUME NEW k \in Nat, NEW m \in Nat, NEW n \in Nat
          PROVE  k * (m + n) = k * m + k * n
      OBVIOUS
    <3> QED BY <2>1, <2>2, <3>1
  <2>6. run[c].per * Cardinality(S) \in Nat /\ run[c].per * Cardinality(left) \in Nat
    BY <2>1, <2>2, Multiply
  <2>7. t + run[c].per * Cardinality(left) <= run[c].per * Cardinality(run[c].todo)
    <3> HIDE DEF t, left
    <3> QED BY <2>4, <2>5, <2>6
  <2>8. due' \in [Profile -> Nat]
    <3>1. due' = [p \in Profile |-> IF p \in S THEN due[p] - cut[p] ELSE due[p]]
      BY <1>2
    <3>2. \A p \in S : cut[p] \in Nat /\ due[p] \in Nat /\ cut[p] <= due[p]
      BY <2>1, <2>3
    <3> HIDE DEF cut
    <3> QED BY <2>1, <3>1, <3>2
  <2>9. spent' = [spent EXCEPT ![run[c].date] = @ + t]
    BY <1>2
  <2>10. run' = [run EXCEPT ![c].todo = left, ![c].gone = @ + t, ![c].pc = pc]
    <3>1. run' = [run EXCEPT ![c].todo = left, ![c].gone = @ + t,
                             ![c].pc = CASE left # {} -> "delete"
                                         [] left = {} /\ Budget > 0 -> "save"
                                         [] left = {} /\ Budget = 0 -> "lists"]
      BY <1>2
    <3>2. pc = CASE left # {} -> "delete"
                 [] left = {} /\ Budget > 0 -> "save"
                 [] left = {} /\ Budget = 0 -> "lists"
      BY Numbers
    <3> HIDE DEF pc, left, t
    <3> QED BY <3>1, <3>2
  <2>11. pc \in {"delete", "save", "lists"} /\ left \in SUBSET run[c].todo
    OBVIOUS
  <2>12. NoFault /\ UNCHANGED lapses
    BY <1>2
  <2> HIDE DEF pc, left, t, cut
  <2>13. run'[c] = [run[c] EXCEPT !.todo = left, !.gone = run[c].gone + t, !.pc = pc]
    BY <2>1, <2>10
  <2>14. left \in SUBSET Profile /\ run[c].gone + t \in Nat
    BY <2>1, <2>4, <2>11
  <2>15. /\ run'[c] \in PassType
         /\ run'[c].todo = left /\ run'[c].gone = run[c].gone + t /\ run'[c].pc = pc
         /\ run'[c].at = run[c].at /\ run'[c].date = run[c].date
         /\ run'[c].per = run[c].per /\ run'[c].base = run[c].base
    BY <2>1, <2>11, <2>13, <2>14 DEF PassType, Steps
  <2>16. run' \in [Pass -> PassType] /\ \A d \in Pass \ {c} : run'[d] = run[d]
    BY <2>1, <2>10, <2>15
  <2>17. run'[c].pc = IF left # {} THEN "delete" ELSE IF Budget > 0 THEN "save" ELSE "lists"
    BY <2>15 DEF pc
  <2> QED BY <2>4, <2>7, <2>8, <2>9, <2>11, <2>12, <2>15, <2>16, <2>17
<1> QED BY <1>1, <1>2 DEF Delete

LEMMA DeleteTypes ==
    ASSUME TypeInv, NEW c \in Pass, Delete(c)
    PROVE  TypeInv'
<1>0. LogsPart /\ PassOK(c) /\ At(c, "delete")
      /\ UNCHANGED <<plan, throttle, profiles, saved, lists, activity>>
  BY TypeParts DEF RunPart, Delete
<1>1. CASE Fault /\ Lapse(run[c].date) /\ Goto(c, "lists") /\ UNCHANGED <<due, spent>>
  <2>1. RunPart' /\ faults' \in Nat
    BY <1>0, <1>1, GotoTypes, FaultTypes DEF At, Steps
  <2>2. LogsPart'
    BY <1>0, <1>1, LapseFacts, DateType DEF LogsPart
  <2> QED BY <1>0, <2>1, <2>2, TypeParts, NextParts, Unchanged
<1>2. ASSUME NEW t \in Nat, NEW left \in SUBSET run[c].todo,
             due' \in [Profile -> Nat], spent' = [spent EXCEPT ![run[c].date] = @ + t],
             run' \in [Pass -> PassType], run'[c].todo = left, run'[c].at = run[c].at,
             run'[c].pc = IF left # {} THEN "delete"
                                ELSE IF Budget > 0 THEN "save" ELSE "lists",
             \A d \in Pass \ {c} : run'[d] = run[d],
             NoFault, UNCHANGED lapses
      PROVE  TypeInv'
  <2>1. PassOK(c)'
    BY <1>0, <1>2 DEF PassOK, At
  <2>2. RunPart' /\ faults' \in Nat
    BY <1>0, <1>2, <2>1, OnePass, FaultTypes
  <2>3. LogsPart'
    BY <1>0, <1>2, DateType DEF LogsPart
  <2> QED BY <1>0, <2>2, <2>3, TypeParts, NextParts, Unchanged
<1> QED BY <1>1, <1>2, DeleteFacts

LEMMA SaveTypes ==
    ASSUME TypeInv, NEW c \in Pass, Save(c)
    PROVE  TypeInv'
<1>0. /\ LogsPart /\ At(c, "save") /\ Goto(c, "lists") /\ run[c].date \in 0..1
      /\ run[c].base \in Nat /\ run[c].gone \in Nat
      /\ UNCHANGED <<plan, throttle, profiles, due, spent, lists, activity>>
  BY TypeParts, AgeType DEF Save, PassType
<1>1. RunPart' /\ faults' \in Nat
  BY <1>0, GotoTypes, FaultTypes DEF Save, At, Steps
<1>2. LogsPart'
  <2>1. CASE saved' = [date |-> run[c].date, n |-> run[c].base + run[c].gone] /\ UNCHANGED lapses
    BY <1>0, <2>1 DEF LogsPart
  <2>2. CASE Lapse(run[c].date) /\ UNCHANGED saved
    BY <1>0, <2>2, LapseFacts DEF LogsPart
  <2> QED BY <2>1, <2>2 DEF Save
<1> QED BY <1>0, <1>1, <1>2, TypeParts, NextParts, Unchanged

(* The lists. *)
LEMMA ListsTypes ==
    ASSUME TypeInv, NEW c \in Pass, Lists(c)
    PROVE  TypeInv'
<1>1. RunPart' /\ faults' \in Nat
  BY GotoTypes, LeaveTypes, FaultTypes DEF Lists, At, Steps
<1> QED BY <1>1, TypeParts, NextParts, Unchanged DEF Lists

LEMMA SyncTypes ==
    ASSUME TypeInv, NEW c \in Pass, Sync(c)
    PROVE  TypeInv'
<1>1. RunPart' /\ faults' \in Nat
  BY LeaveTypes, FaultTypes DEF Sync
<1>2. ListsPart'
  <2>1. ListsPart /\ run[c].age \in Ages(PastIdle)
    BY TypeParts, AgeType, AgesOfPasses
  <2> QED BY <2>1, PastTypes DEF Sync, ListsPart, lists
<1> QED BY <1>1, <1>2, TypeParts, NextParts, Unchanged DEF Sync

(* The tasks of queries. *)
LEMMA VisitTypes ==
    ASSUME TypeInv, NEW q \in Visit
    PROVE  /\ visit[q] \in VisitType /\ visit[q].age \in 0..Delay /\ visit[q].age \in Nat
           /\ ~AtTask(q, "none") => /\ visit[q].at \in Isolate /\ visit[q].of \in plan.rows
                                    /\ visit[q].of \in Profile /\ UserOf(q) \in User
<1>1. visit[q] \in VisitType /\ VisitOK(q) /\ plan.rows \subseteq Profile
  BY TypeParts DEF ActivityPart, PlanPart, PlanType
<1>2. visit[q].age \in 0..Delay /\ visit[q].age \in Nat
  BY <1>1, Numbers DEF VisitType
<1> QED BY <1>1, <1>2, OwnerAssumption DEF VisitOK, UserOf

LEMMA GotoTaskFacts ==
    ASSUME TypeInv, NEW q \in Visit, NEW pc \in {"none", "ask", "write", "share"},
           GotoTask(q, pc)
    PROVE  /\ visit' \in [Visit -> VisitType]
           /\ visit'[q].pc = pc /\ visit'[q].at = visit[q].at /\ visit'[q].of = visit[q].of
           /\ visit'[q].age = visit[q].age
           /\ \A r \in Visit \ {q} : visit'[r] = visit[r]
<1>1. visit \in [Visit -> VisitType]
  BY TypeParts DEF ActivityPart
<1> QED BY <1>1 DEF GotoTask, VisitType

LEMMA EndTaskFacts ==
    ASSUME TypeInv, NEW q \in Visit, EndTask(q)
    PROVE  /\ visit' \in [Visit -> VisitType]
           /\ visit'[q] = NoVisit /\ visit'[q].pc = "none"
           /\ \A r \in Visit \ {q} : visit'[r] = visit[r]
<1>1. visit \in [Visit -> VisitType]
  BY TypeParts DEF ActivityPart
<1> QED BY <1>1, NoVisitType DEF EndTask

LEMMA OneVisit ==
    ASSUME TypeInv, NEW q \in Visit, visit' \in [Visit -> VisitType], VisitOK(q)',
           \A r \in Visit \ {q} : visit'[r] = visit[r], plan' = plan
    PROVE  \A r \in Visit : VisitOK(r)'
<1>1. \A r \in Visit : VisitOK(r)
  BY TypeParts DEF ActivityPart
<1> QED BY <1>1 DEF VisitOK, AtTask

LEMMA TaskTypes ==
    ASSUME TypeInv, NEW q \in Visit, ~AtTask(q, "none"), plan' = plan,
           \/ EndTask(q)
           \/ \E pc \in {"ask", "write", "share"} : GotoTask(q, pc)
    PROVE  visit' \in [Visit -> VisitType] /\ \A r \in Visit : VisitOK(r)'
<1>1. CASE EndTask(q)
  <2>1. VisitOK(q)'
    BY <1>1, EndTaskFacts DEF VisitOK, AtTask
  <2> QED BY <1>1, <2>1, EndTaskFacts, OneVisit
<1>2. ASSUME NEW pc \in {"ask", "write", "share"}, GotoTask(q, pc)
      PROVE  visit' \in [Visit -> VisitType] /\ \A r \in Visit : VisitOK(r)'
  <2>1. VisitOK(q)
    BY TypeParts DEF ActivityPart
  <2>2. VisitOK(q)'
    BY <1>2, <2>1, GotoTaskFacts DEF VisitOK, AtTask
  <2> QED BY <1>2, <2>2, GotoTaskFacts, OneVisit
<1> QED BY <1>1, <1>2

(* A query either meets a throttle or leaves a task that is to ask. *)
LEMMA QueryFacts ==
    ASSUME TypeInv, NEW q \in Visit, NEW i \in Isolate, NEW p \in Profile, Query(q, i, p)
    PROVE  /\ queried' = [queried EXCEPT ![Owner[p]] = 0]
           /\ p \in profiles /\ p \in plan.rows /\ Owner[p] \in User
           /\ \/ beat[i][p] < Active /\ UNCHANGED visit
              \/ /\ visit' \in [Visit -> VisitType]
                 /\ visit'[q].pc = "ask" /\ visit'[q].at = i /\ visit'[q].of = p
                 /\ visit'[q].age = 0
                 /\ \A r \in Visit \ {q} : visit'[r] = visit[r]
<1>1. visit \in [Visit -> VisitType] /\ profiles \subseteq plan.rows
  BY TypeParts DEF ActivityPart, LogsPart
<1>2. [pc |-> "ask", at |-> i, of |-> p, age |-> 0] \in VisitType
  BY Numbers DEF VisitType
<1>3. CASE beat[i][p] < Active
  BY <1>1, <1>3, OwnerAssumption DEF Query
<1>4. CASE ~(beat[i][p] < Active)
  <2>1. visit' = [visit EXCEPT ![q] = [pc |-> "ask", at |-> i, of |-> p, age |-> 0]]
    BY <1>4 DEF Query
  <2>2. /\ visit' \in [Visit -> VisitType]
        /\ visit'[q] = [pc |-> "ask", at |-> i, of |-> p, age |-> 0]
        /\ \A r \in Visit \ {q} : visit'[r] = visit[r]
    BY <1>1, <1>2, <2>1
  <2> QED BY <1>1, <2>2, OwnerAssumption DEF Query
<1> QED BY <1>3, <1>4

LEMMA QueryTypes ==
    ASSUME TypeInv, NEW q \in Visit, NEW i \in Isolate, NEW p \in Profile, Query(q, i, p)
    PROVE  TypeInv'
<1>1. ActivityPart /\ UNCHANGED <<plan, faults, throttle, run, logs, lists, beat, sharedBeat,
                                  active, missed>>
  BY TypeParts DEF Query
<1>2. visit' \in [Visit -> VisitType] /\ \A r \in Visit : VisitOK(r)'
  <2>1. CASE UNCHANGED visit
    BY <1>1, <2>1 DEF ActivityPart, VisitOK, AtTask
  <2>2. CASE /\ visit' \in [Visit -> VisitType]
             /\ visit'[q].pc = "ask" /\ visit'[q].at = i /\ visit'[q].of = p
             /\ \A r \in Visit \ {q} : visit'[r] = visit[r]
    <3>1. VisitOK(q)'
      BY <1>1, <2>2, QueryFacts DEF VisitOK
    <3> QED BY <1>1, <2>2, <3>1, OneVisit
  <2> QED BY <2>1, <2>2, QueryFacts
<1>3. queried' \in [User -> Ages(PastActive)]
  BY <1>1, QueryFacts, PastTypes DEF ActivityPart
<1>4. ActivityPart'
  BY <1>1, <1>2, <1>3 DEF ActivityPart
<1> QED BY <1>1, <1>4, TypeParts, NextParts, Unchanged

(* What AskBeat is told, and what the isolate then remembers. *)
LEMMA AskBeatFacts ==
    ASSUME TypeInv, NEW q \in Visit, AskBeat(q)
    PROVE  \/ Fault /\ EndTask(q) /\ UNCHANGED beat
              /\ missed' = [missed EXCEPT ![UserOf(q)] = TRUE]
           \/ /\ NoFault /\ UNCHANGED missed
              /\ \E a \in Ages(PastBeat) :
                   /\ beat' \in [Isolate -> [Profile -> Ages(PastBeat)]]
                   /\ beat'[visit[q].at][visit[q].of] = a
                   /\ \A i \in Isolate, p \in Profile :
                        i # visit[q].at \/ p # visit[q].of => beat'[i][p] = beat[i][p]
                   /\ \/ /\ a = sharedBeat[visit[q].of] /\ a - visit[q].age < Active
                         /\ EndTask(q)
                      \/ a = visit[q].age /\ GotoTask(q, "write")
<1>1. /\ visit[q].at \in Isolate /\ visit[q].of \in Profile /\ visit[q].age \in Ages(PastBeat)
  BY VisitTypes, AgesOfPasses DEF AskBeat, AtTask
<1>2. /\ beat \in [Isolate -> [Profile -> Ages(PastBeat)]]
      /\ sharedBeat \in [Profile -> Ages(PastBeat)]
  BY TypeParts DEF ActivityPart
<1>3. ASSUME NEW a \in Ages(PastBeat), beat' = [beat EXCEPT ![visit[q].at][visit[q].of] = a]
      PROVE  /\ beat' \in [Isolate -> [Profile -> Ages(PastBeat)]]
             /\ beat'[visit[q].at][visit[q].of] = a
             /\ \A i \in Isolate, p \in Profile :
                  i # visit[q].at \/ p # visit[q].of => beat'[i][p] = beat[i][p]
  BY <1>1, <1>2, <1>3
<1>4. sharedBeat[visit[q].of] \in Ages(PastBeat)
  BY <1>1, <1>2
<1>5. CASE /\ sharedBeat[visit[q].of] - visit[q].age < Active
           /\ beat' = [beat EXCEPT ![visit[q].at][visit[q].of] = sharedBeat[visit[q].of]]
           /\ EndTask(q) /\ NoFault /\ UNCHANGED missed
  BY <1>3, <1>4, <1>5
<1>6. CASE /\ beat' = [beat EXCEPT ![visit[q].at][visit[q].of] = visit[q].age]
           /\ GotoTask(q, "write") /\ NoFault /\ UNCHANGED missed
  BY <1>1, <1>3, <1>6
<1>7. CASE Fault /\ EndTask(q) /\ UNCHANGED beat
              /\ missed' = [missed EXCEPT ![UserOf(q)] = TRUE]
  BY <1>7
<1> QED BY <1>5, <1>6, <1>7 DEF AskBeat

LEMMA AskBeatTypes ==
    ASSUME TypeInv, NEW q \in Visit, AskBeat(q)
    PROVE  TypeInv'
<1>1. /\ ActivityPart /\ ~AtTask(q, "none")
      /\ UNCHANGED <<plan, throttle, run, logs, lists, sharedBeat, active, queried>>
  BY TypeParts DEF AskBeat, AtTask
<1>2. visit' \in [Visit -> VisitType] /\ \A r \in Visit : VisitOK(r)'
  BY <1>1, TaskTypes, AskBeatFacts
<1>3. beat' \in [Isolate -> [Profile -> Ages(PastBeat)]] /\ missed' \in [User -> BOOLEAN]
  BY <1>1, AskBeatFacts DEF ActivityPart
<1>4. ActivityPart' /\ faults' \in Nat
  BY <1>1, <1>2, <1>3, AskBeatFacts, FaultTypes DEF ActivityPart
<1> QED BY <1>1, <1>4, TypeParts, NextParts, Unchanged

LEMMA RecordTypes ==
    ASSUME TypeInv, NEW q \in Visit, Record(q)
    PROVE  TypeInv'
<1>1. /\ ActivityPart /\ ~AtTask(q, "none") /\ GotoTask(q, "share")
      /\ UNCHANGED <<plan, throttle, run, logs, lists, beat, sharedBeat, queried>>
  BY TypeParts DEF Record, AtTask
<1>2. visit' \in [Visit -> VisitType] /\ \A r \in Visit : VisitOK(r)'
  BY <1>1, TaskTypes
<1>3. visit[q].age \in Ages(PastActive) /\ UserOf(q) \in User
  BY <1>1, VisitTypes, AgesOfPasses
<1>4. active' \in [User -> Ages(PastActive)]
  BY <1>1, <1>3 DEF ActivityPart, Record
<1>5. missed' \in [User -> BOOLEAN]
  BY <1>1 DEF ActivityPart, Record
<1>6. ActivityPart' /\ faults' \in Nat
  BY <1>1, <1>2, <1>4, <1>5, FaultTypes DEF ActivityPart, Record
<1> QED BY <1>1, <1>6, TypeParts, NextParts, Unchanged

LEMMA ShareTypes ==
    ASSUME TypeInv, NEW q \in Visit, Share(q)
    PROVE  TypeInv'
<1>1. /\ ActivityPart /\ ~AtTask(q, "none") /\ EndTask(q)
      /\ UNCHANGED <<plan, throttle, run, logs, lists, beat, active, queried, missed>>
  BY TypeParts DEF Share, AtTask
<1>2. visit' \in [Visit -> VisitType] /\ \A r \in Visit : VisitOK(r)'
  BY <1>1, TaskTypes
<1>3. visit[q].age \in Ages(PastBeat)
  BY <1>1, VisitTypes, AgesOfPasses
<1>4. ActivityPart' /\ faults' \in Nat
  BY <1>1, <1>2, <1>3, FaultTypes DEF ActivityPart, Share
<1> QED BY <1>1, <1>4, TypeParts, NextParts, Unchanged

-----------------------------------------------------------------------------
(* The environment. *)
LEMMA EndTypes ==
    ASSUME TypeInv, NEW i \in Isolate, End(i)
    PROVE  TypeInv'
<1> DEFINE here == {c \in Pass : run[c].at = i}
           tasks == {q \in Visit : visit[q].at = i}
<1>0. /\ RunPart /\ ThrottlePart /\ LogsPart /\ ActivityPart
      /\ UNCHANGED <<plan, shared, stamp, last, profiles, due, saved, spent, lists,
                     sharedBeat, active, queried>>
  BY TypeParts DEF End
<1>1. RunPart'
  <2>1. run' = [c \in Pass |-> IF c \in here THEN NoPass ELSE run[c]]
    BY DEF End
  <2>2. \A c \in Pass : run'[c] = NoPass \/ run'[c] = run[c]
    BY <2>1
  <2>3. run' \in [Pass -> PassType]
    BY <1>0, <2>1, NoPassType DEF RunPart
  <2> QED BY <1>0, <2>2, <2>3, NoPassType DEF RunPart, PassOK, At
<1>2. ThrottlePart'
  <2>1. memory' = [memory EXCEPT ![i] = Past] /\ memo' = [memo EXCEPT ![i] = Forgotten]
    BY DEF End
  <2>2. Forgotten \in [v : Ages(Past), left : 0..Memo]
    BY PastTypes, Numbers DEF Forgotten
  <2> QED BY <1>0, <2>1, <2>2, PastTypes DEF ThrottlePart
<1>3. LogsPart'
  <2>1. lapses' = [d \in 0..1 |-> Smaller(MaxLapses,
              lapses[d] + Cardinality({c \in here \cap Retaining : run[c].date = d}))]
    BY DEF End
  <2>2. \A d \in 0..1 : Cardinality({c \in here \cap Retaining : run[c].date = d}) \in Nat
    <3> TAKE d \in 0..1
    <3>1. {c \in here \cap Retaining : run[c].date = d} \in SUBSET Pass
      OBVIOUS
    <3> QED BY <3>1, FiniteAssumption, FS_Subset, FS_CardinalityType
  <2>3. lapses' \in [0..1 -> Nat] /\ \A d \in 0..1 : lapses'[d] <= MaxLapses
    BY <1>0, <2>1, <2>2, Numbers DEF LogsPart, Smaller
  <2> QED BY <1>0, <2>3 DEF LogsPart
<1>4. ActivityPart'
  <2>1. visit' = [q \in Visit |-> IF q \in tasks THEN NoVisit ELSE visit[q]]
    BY DEF End
  <2>2. \A q \in Visit : visit'[q] = NoVisit \/ visit'[q] = visit[q]
    BY <2>1
  <2>3. visit' \in [Visit -> VisitType]
    BY <1>0, <2>1, NoVisitType DEF ActivityPart
  <2>4. \A q \in Visit : VisitOK(q)'
    BY <1>0, <2>2, NoVisitType DEF ActivityPart, VisitOK, AtTask
  <2>5. beat' \in [Isolate -> [Profile -> Ages(PastBeat)]]
    BY <1>0, PastTypes DEF ActivityPart, End
  <2>6. missed' \in [User -> BOOLEAN]
    <3>1. missed' = [u \in User |-> missed[u] \/ \E q \in tasks : UserOf(q) = u]
      BY DEF End
    <3> HIDE DEF tasks
    <3> QED BY <3>1, Zenon
  <2> QED BY <1>0, <2>3, <2>4, <2>5, <2>6 DEF ActivityPart
<1>5. faults' \in Nat
  BY FaultTypes DEF End
<1> QED BY <1>0, <1>1, <1>2, <1>3, <1>4, <1>5, TypeParts, NextParts, Unchanged

LEMMA EvictTypes ==
    ASSUME TypeInv, Evict
    PROVE  TypeInv'
<1>0. ThrottlePart /\ ListsPart /\ ActivityPart
      /\ UNCHANGED <<plan, memory, memo, stamp, last, run, logs, stale,
                     visit, beat, active, queried, missed>>
  BY TypeParts DEF Evict
<1>1. ThrottlePart'
  BY <1>0, PastTypes DEF Evict, ThrottlePart
<1>2. ListsPart'
  BY <1>0, PastTypes DEF Evict, ListsPart
<1>3. sharedBeat' \in [Profile -> Ages(PastBeat)]
  BY <1>0, PastTypes DEF Evict, ActivityPart
<1>4. ActivityPart'
  BY <1>0, <1>3 DEF ActivityPart, VisitOK, AtTask
<1>5. faults' \in Nat
  BY FaultTypes DEF Evict
<1> QED BY <1>0, <1>1, <1>2, <1>4, <1>5, TypeParts, NextParts, Unchanged

(* The bounds in force keep all but their counters. *)
LEMMA PlanFacts ==
    ASSUME TypeInv, UNCHANGED plan \/ (\E p \in Profile : Expire(p)) \/ Outdate
    PROVE  plan' \in PlanType /\ plan'.rows = plan.rows /\ plan'.plain = plan.plain
<1>1. plan \in PlanType
  BY TypeParts DEF PlanPart
<1>2. CASE \E p \in Profile : Expire(p)
  <2>1. plan' = [plan EXCEPT !.logs = @ - 1] /\ plan.logs > 0
    BY <1>2 DEF Expire
  <2> QED BY <1>1, <2>1 DEF PlanType
<1>3. CASE Outdate
  <2>1. plan' = [plan EXCEPT !.stale = @ - 1] /\ plan.stale > 0
    BY <1>3 DEF Outdate
  <2> QED BY <1>1, <2>1 DEF PlanType
<1> QED BY <1>1, <1>2, <1>3

LEMMA SameRows ==
    ASSUME TypeInv, plan'.rows = plan.rows
    PROVE  /\ UNCHANGED run => RunPart'
           /\ UNCHANGED activity => ActivityPart'
<1>1. RunPart /\ ActivityPart
  BY TypeParts
<1>2. UNCHANGED run => RunPart'
  BY <1>1 DEF RunPart, PassOK, At
<1>3. UNCHANGED activity => ActivityPart'
  BY <1>1 DEF ActivityPart, activity, VisitOK, AtTask
<1> QED BY <1>2, <1>3

LEMMA ExpireTypes ==
    ASSUME TypeInv, NEW p \in Profile, Expire(p)
    PROVE  TypeInv'
<1>1. plan' \in PlanType /\ plan'.rows = plan.rows
  BY PlanFacts
<1>2. LogsPart /\ UNCHANGED <<faults, throttle, run, profiles, saved, spent, lapses, lists, activity>>
  BY TypeParts DEF Expire
<1>3. due' \in [Profile -> Nat]
  BY <1>2 DEF Expire, LogsPart
<1>4. LogsPart' /\ PlanPart'
  BY <1>1, <1>2, <1>3 DEF LogsPart, PlanPart
<1> QED BY <1>1, <1>2, <1>4, TypeParts, NextParts, Unchanged, SameRows

LEMMA OutdateTypes ==
    ASSUME TypeInv, Outdate
    PROVE  TypeInv'
<1>1. plan' \in PlanType /\ plan'.rows = plan.rows
  BY PlanFacts
<1>2. LogsPart /\ ListsPart /\ UNCHANGED <<faults, throttle, run, logs, idle, activity>>
  BY TypeParts DEF Outdate
<1>3. LogsPart' /\ PlanPart' /\ ListsPart'
  BY <1>1, <1>2 DEF LogsPart, logs, PlanPart, ListsPart, Outdate
<1> QED BY <1>1, <1>2, <1>3, TypeParts, NextParts, Unchanged, SameRows

(* A tick makes everything older. *)
LEMMA TickFacts ==
    ASSUME TypeInv, Tick
    PROVE  /\ run' \in [Pass -> PassType] /\ visit' \in [Visit -> VisitType]
           /\ \A c \in Pass :
                /\ run'[c].pc = run[c].pc /\ run'[c].at = run[c].at
                /\ run'[c].met = run[c].met /\ run'[c].memo = run[c].memo
                /\ run'[c].date = run[c].date /\ run'[c].todo = run[c].todo
                /\ run'[c].per = run[c].per /\ run'[c].base = run[c].base
                /\ run'[c].gone = run[c].gone
                /\ ~At(c, "none") => run'[c].age = run[c].age + 1
           /\ \A q \in Visit :
                /\ visit'[q].pc = visit[q].pc /\ visit'[q].at = visit[q].at
                /\ visit'[q].of = visit[q].of
                /\ ~AtTask(q, "none") => visit'[q].age = visit[q].age + 1
<1>1. plan.delay \in 0..Delay /\ run \in [Pass -> PassType] /\ visit \in [Visit -> VisitType]
  BY TypeParts DEF PlanPart, PlanType, RunPart, ActivityPart
<1>2. /\ run' = [c \in Pass |-> IF At(c, "none") THEN run[c] ELSE [run[c] EXCEPT !.age = @ + 1]]
      /\ visit' = [q \in Visit |-> IF AtTask(q, "none") THEN visit[q]
                                   ELSE [visit[q] EXCEPT !.age = @ + 1]]
      /\ \A c \in Pass : At(c, "none") \/ run[c].age < plan.delay
      /\ \A q \in Visit : AtTask(q, "none") \/ visit[q].age < plan.delay
  BY DEF Tick
<1>3. ASSUME NEW c \in Pass
      PROVE  /\ run'[c] \in PassType
             /\ run'[c].pc = run[c].pc /\ run'[c].at = run[c].at
             /\ run'[c].met = run[c].met /\ run'[c].memo = run[c].memo
             /\ run'[c].date = run[c].date /\ run'[c].todo = run[c].todo
             /\ run'[c].per = run[c].per /\ run'[c].base = run[c].base
             /\ run'[c].gone = run[c].gone
             /\ ~At(c, "none") => run'[c].age = run[c].age + 1
  <2>1. run[c] \in PassType
    BY <1>1
  <2>2. CASE At(c, "none")
    BY <1>2, <2>1, <2>2
  <2>3. CASE ~At(c, "none")
    <3>1. run'[c] = [run[c] EXCEPT !.age = run[c].age + 1]
      BY <1>2, <2>3
    <3>2. run[c].age \in 0..Delay /\ run[c].age + 1 \in 0..Delay
      BY <1>1, <1>2, <2>1, <2>3, Numbers DEF PassType
    <3> QED BY <2>1, <3>1, <3>2 DEF PassType
  <2> QED BY <2>2, <2>3
<1>4. ASSUME NEW q \in Visit
      PROVE  /\ visit'[q] \in VisitType
             /\ visit'[q].pc = visit[q].pc /\ visit'[q].at = visit[q].at
             /\ visit'[q].of = visit[q].of
             /\ ~AtTask(q, "none") => visit'[q].age = visit[q].age + 1
  <2>1. visit[q] \in VisitType
    BY <1>1
  <2>2. CASE AtTask(q, "none")
    BY <1>2, <2>1, <2>2
  <2>3. CASE ~AtTask(q, "none")
    <3>1. visit'[q] = [visit[q] EXCEPT !.age = visit[q].age + 1]
      BY <1>2, <2>3
    <3>2. visit[q].age \in 0..Delay /\ visit[q].age + 1 \in 0..Delay
      BY <1>1, <1>2, <2>1, <2>3, Numbers DEF VisitType
    <3> QED BY <2>1, <3>1, <3>2 DEF VisitType
  <2> QED BY <2>2, <2>3
<1> QED BY <1>2, <1>3, <1>4

LEMMA TickTypes ==
    ASSUME TypeInv, Tick
    PROVE  TypeInv'
<1>0. /\ RunPart /\ ThrottlePart /\ ListsPart /\ ActivityPart
      /\ UNCHANGED <<plan, faults, logs, stale, missed>>
  BY TypeParts DEF Tick
<1>1. RunPart'
  BY <1>0, TickFacts DEF RunPart, PassOK, At
<1>2. ThrottlePart'
  <2>1. memory' \in [Isolate -> Ages(Past)]
    BY <1>0, PastTypes, OlderType DEF Tick, ThrottlePart
  <2>2. memo' \in [Isolate -> [v : Ages(Past), left : 0..Memo]]
    <3>1. memo' = [i \in Isolate |-> IF memo[i].left <= 1 THEN Forgotten
                                  ELSE [v |-> Older(memo[i].v, Past), left |-> memo[i].left - 1]]
      BY DEF Tick
    <3>2. Forgotten \in [v : Ages(Past), left : 0..Memo]
      BY PastTypes, Numbers DEF Forgotten
    <3>3. ASSUME NEW i \in Isolate, ~(memo[i].left <= 1)
          PROVE  [v |-> Older(memo[i].v, Past), left |-> memo[i].left - 1]
                    \in [v : Ages(Past), left : 0..Memo]
      <4>1. memo[i] \in [v : Ages(Past), left : 0..Memo]
        BY <1>0 DEF ThrottlePart
      <4>2. Older(memo[i].v, Past) \in Ages(Past)
        BY <4>1, PastTypes, OlderType
      <4>3. memo[i].left - 1 \in 0..Memo
        BY <3>3, <4>1, Numbers
      <4> QED BY <4>2, <4>3
    <3> QED BY <3>1, <3>2, <3>3
  <2>3. shared' \in Ages(Past) /\ stamp' \in Ages(Past) /\ last' \in Ages(Past)
    BY <1>0, PastTypes, OlderType DEF Tick, ThrottlePart
  <2> QED BY <2>1, <2>2, <2>3 DEF ThrottlePart
<1>3. ListsPart'
  BY <1>0, PastTypes, OlderType DEF Tick, ListsPart
<1>4. ActivityPart'
  <2>1. \A q \in Visit : VisitOK(q)'
    BY <1>0, TickFacts DEF ActivityPart, VisitOK, AtTask
  <2>2. /\ sharedBeat' \in [Profile -> Ages(PastBeat)]
        /\ active' \in [User -> Ages(PastActive)] /\ queried' \in [User -> Ages(PastActive)]
    BY <1>0, PastTypes, OlderType DEF Tick, ActivityPart
  <2>3. beat' \in [Isolate -> [Profile -> Ages(PastBeat)]]
    <3>1. beat' = [i \in Isolate |-> [p \in Profile |-> Older(beat[i][p], PastBeat)]]
      BY DEF Tick
    <3>2. \A i \in Isolate, p \in Profile : Older(beat[i][p], PastBeat) \in Ages(PastBeat)
      BY <1>0, PastTypes, OlderType DEF ActivityPart
    <3> QED BY <3>1, <3>2
  <2> QED BY <1>0, <2>1, <2>2, <2>3, TickFacts DEF ActivityPart
<1> QED BY <1>0, <1>1, <1>2, <1>3, <1>4, TypeParts, NextParts, Unchanged

(* At midnight the passes that delete find themselves in yesterday. *)
LEMMA MidnightFacts ==
    ASSUME TypeInv, Midnight
    PROVE  /\ run' \in [Pass -> PassType]
           /\ \A c \in Pass :
                /\ run'[c].pc = run[c].pc /\ run'[c].at = run[c].at
                /\ run'[c].age = run[c].age
                /\ run'[c].met = run[c].met /\ run'[c].memo = run[c].memo
                /\ run'[c].todo = run[c].todo
                /\ run'[c].per = run[c].per /\ run'[c].base = run[c].base
                /\ run'[c].gone = run[c].gone
                /\ c \in Retaining => run[c].date = 0 /\ run'[c].date = 1
                /\ c \notin Retaining => run'[c].date = run[c].date
<1>1. run \in [Pass -> PassType]
  BY TypeParts DEF RunPart
<1>2. /\ \A c \in Retaining : run[c].date = 0
      /\ run' = [c \in Pass |-> IF c \in Retaining THEN [run[c] EXCEPT !.date = 1] ELSE run[c]]
  BY DEF Midnight
<1>3. ASSUME NEW c \in Pass
      PROVE  /\ run'[c] \in PassType
             /\ run'[c].pc = run[c].pc /\ run'[c].at = run[c].at
             /\ run'[c].age = run[c].age
             /\ run'[c].met = run[c].met /\ run'[c].memo = run[c].memo
             /\ run'[c].todo = run[c].todo
             /\ run'[c].per = run[c].per /\ run'[c].base = run[c].base
             /\ run'[c].gone = run[c].gone
             /\ c \in Retaining => run[c].date = 0 /\ run'[c].date = 1
             /\ c \notin Retaining => run'[c].date = run[c].date
  <2>1. run[c] \in PassType
    BY <1>1
  <2>2. CASE c \in Retaining
    <3>1. run'[c] = [run[c] EXCEPT !.date = 1] /\ run[c].date = 0
      BY <1>2, <2>2
    <3> QED BY <2>1, <2>2, <3>1 DEF PassType
  <2>3. CASE c \notin Retaining
    BY <1>2, <2>1, <2>3
  <2> QED BY <2>2, <2>3
<1> QED BY <1>2, <1>3

LEMMA MidnightTypes ==
    ASSUME TypeInv, Midnight
    PROVE  TypeInv'
<1>0. /\ RunPart /\ LogsPart /\ UNCHANGED <<plan, faults, throttle, profiles, due, lists, activity>>
  BY TypeParts DEF Midnight
<1>1. RunPart'
  BY <1>0, MidnightFacts DEF RunPart, PassOK, At
<1>2. LogsPart'
  <2>1. saved' \in [date : 0..2, n : Nat]
    <3>1. saved' = [saved EXCEPT !.date = 1] \/ saved' = NotSaved
      BY DEF Midnight
    <3>2. NotSaved \in [date : 0..2, n : Nat]
      BY DEF NotSaved
    <3> QED BY <1>0, <3>1, <3>2 DEF LogsPart
  <2>2. spent' \in [0..1 -> Nat] /\ lapses' \in [0..1 -> Nat]
        /\ \A d \in 0..1 : lapses'[d] <= MaxLapses
    BY <1>0, Numbers DEF LogsPart, Midnight
  <2> QED BY <1>0, <2>1, <2>2 DEF LogsPart
<1> QED BY <1>0, <1>1, <1>2, TypeParts, NextParts, Unchanged

LEMMA StepTypes == TypeInv /\ [Next]_vars => TypeInv'
<1> SUFFICES ASSUME TypeInv, [Next]_vars PROVE TypeInv'
  OBVIOUS
<1>1. ASSUME NEW c \in Pass, Advance(c) PROVE TypeInv'
  <2>1. CASE CleanUp(c)
    BY <2>1, AskSharedTypes, AskStampTypes, MarkTypes, AbandonTypes, PersistTypes,
       ClearTypes DEF CleanUp
  <2>2. CASE Retain(c)
    BY <2>2, SelectTypes, CountTypes, DeleteTypes, SaveTypes DEF Retain
  <2> QED BY <1>1, <2>1, <2>2, ListsTypes, SyncTypes DEF Advance
<1>2. ASSUME NEW q \in Visit, Work(q) PROVE TypeInv'
  BY <1>2, AskBeatTypes, RecordTypes, ShareTypes DEF Work
<1>3. CASE UNCHANGED vars
  <2>1. UNCHANGED <<plan, faults, throttle, run, logs, lists, activity>>
    BY <1>3 DEF vars
  <2> QED BY <2>1, TypeParts, NextParts, Unchanged
<1> QED
  BY <1>1, <1>2, <1>3, BeginTypes, QueryTypes, EndTypes, EvictTypes, OutdateTypes, TickTypes,
     MidnightTypes, ExpireTypes
  DEF Next

-----------------------------------------------------------------------------
(* The throttle.                                                           *)

(* What ThrottleInv says of a pass. *)
Judged(c) ==
    /\ At(c, "persist") => shared <= run[c].age + Delay \/ faults >= 1
    /\ At(c, "stamp") /\ ~run[c].met => Hours(c) \/ faults >= 2 \/ (faults = 1 /\ StampKnows)
    /\ run[c].pc \in {"mark", "persist"} /\ ~run[c].met =>
         Hours(c) \/ faults >= 2 \/ (faults = 1 /\ run[c].memo)
Known == /\ SharedKnows \/ faults >= 1
         /\ StampKnows \/ faults >= 1
         /\ SharedKnows \/ StampKnows \/ faults >= 2

LEMMA ThrottleParts == ThrottleInv <=> Known /\ \A c \in Pass : Judged(c)
  BY DEF ThrottleInv, Known, Judged

LEMMA NextThrottle ==
    ASSUME Known', \A c \in Pass : Judged(c)'
    PROVE  ThrottleInv'
  BY DEF ThrottleInv, Known, Judged

LEMMA ThrottleNumbers ==
    ASSUME TypeInv
    PROVE  /\ shared \in Nat /\ stamp \in Nat /\ last \in Nat /\ faults \in Nat
           /\ shared <= Past /\ stamp <= Past /\ last <= Past
           /\ Past = Hour + Delay /\ Hour \in Nat /\ Delay \in Nat
           /\ \A c \in Pass : run[c].age \in Nat /\ run[c].age <= Delay
<1>1. shared \in Ages(Past) /\ stamp \in Ages(Past) /\ last \in Ages(Past) /\ faults \in Nat
  BY TypeParts DEF ThrottlePart
<1>2. \A c \in Pass : run[c].age \in 0..Delay
  BY AgeType
<1> QED BY <1>1, <1>2, Numbers DEF Ages, Past

LEMMA FaultCount ==
    ASSUME TypeInv
    PROVE  /\ NoFault => faults' = faults
           /\ Fault => faults' = faults + 1
  BY DEF NoFault, Fault

(* A pass and its surroundings that stay as they are, but for failures.    *)
LEMMA SameJudged ==
    ASSUME TypeInv, ThrottleInv, NEW c \in Pass, run'[c] = run[c],
           last' = last, faults' = faults \/ faults' = faults + 1,
           shared' = shared \/ faults' = faults + 1 \/ shared' <= Delay,
           shared' \in Nat,
           stamp' = stamp
    PROVE  Judged(c)'
<1>1. Judged(c)
  BY ThrottleParts
<1> QED BY <1>1, ThrottleNumbers DEF Judged, At, Hours, StampKnows

LEMMA SameKnown ==
    ASSUME TypeInv, ThrottleInv, last' = last, faults' = faults \/ faults' = faults + 1,
           shared' = shared \/ faults' = faults + 1 \/ shared' <= Delay,
           shared' \in Nat, stamp' = stamp
    PROVE  Known'
<1>1. Known
  BY ThrottleParts
<1> QED BY <1>1, ThrottleNumbers DEF Known, SharedKnows, StampKnows

(* A pass that is not being judged. *)
LEMMA NotJudged ==
    ASSUME NEW c \in Pass, run'[c].pc \notin {"stamp", "mark", "persist"}
    PROVE  Judged(c)'
  BY DEF Judged, At

(* Steps that leave the stamps alone. *)
LEMMA OtherThrottle ==
    ASSUME TypeInv, ThrottleInv, UNCHANGED <<shared, stamp, last>>,
           faults' = faults \/ faults' = faults + 1,
           \A c \in Pass : run'[c] = run[c] \/ run'[c].pc \notin {"stamp", "mark", "persist"}
    PROVE  ThrottleInv'
<1>1. shared' \in Nat
  BY ThrottleNumbers
<1>2. Known'
  BY <1>1, SameKnown
<1>3. \A c \in Pass : Judged(c)'
  BY <1>1, SameJudged, NotJudged
<1> QED BY <1>2, <1>3, NextThrottle

LEMMA InitThrottle == Init => ThrottleInv
<1> SUFFICES ASSUME Init PROVE ThrottleInv
  OBVIOUS
<1>1. \A c \in Pass : run[c].pc = "none"
  BY NoPassType DEF Init
<1>2. shared = Past /\ last = Past /\ Past <= Past + Delay
  BY PastTypes, Numbers DEF Init
<1>3. stamp = Past
  BY DEF Init
<1> QED BY <1>1, <1>2, <1>3 DEF ThrottleInv, At, SharedKnows, StampKnows

LEMMA AskSharedThrottle ==
    ASSUME TypeInv, ThrottleInv, NEW c \in Pass, AskShared(c)
    PROVE  ThrottleInv'
<1>1. UNCHANGED <<faults, shared, stamp, last>> /\ At(c, "shared")
  BY DEF AskShared
<1>2. \A d \in Pass \ {c} : run'[d] = run[d]
  BY GotoFacts DEF AskShared, Steps
<1>3. Judged(c)'
  <2>1. CASE Goto(c, "lists")
    BY <2>1, GotoFacts, NotJudged DEF Steps
  <2>2. CASE ~Within(shared, Hour, c) /\ Goto(c, "stamp")
    <3>1. run'[c].pc = "stamp" /\ run'[c].age = run[c].age
      BY <2>2, GotoFacts DEF Steps
    <3>2. shared - run[c].age >= Hour
      BY <2>2, ThrottleNumbers DEF Within
    <3>3. Known
      BY ThrottleParts
    <3> QED BY <1>1, <3>1, <3>2, <3>3, ThrottleNumbers
            DEF Judged, At, Hours, Known, SharedKnows, StampKnows
  <2> QED BY <2>1, <2>2 DEF AskShared
<1>4. shared' \in Nat
  BY <1>1, ThrottleNumbers
<1>5. Known' /\ \A d \in Pass \ {c} : Judged(d)'
  BY <1>1, <1>2, <1>4, SameKnown, SameJudged
<1> QED BY <1>3, <1>5, NextThrottle

LEMMA AskStampThrottle ==
    ASSUME TypeInv, ThrottleInv, NEW c \in Pass, AskStamp(c)
    PROVE  ThrottleInv'
<1>1. UNCHANGED <<shared, stamp, last>> /\ At(c, "stamp")
  BY DEF AskStamp
<1>2. PICK v \in Ages(Past), known \in BOOLEAN :
             /\ known \/ v = stamp => NoFault
             /\ ~known /\ v # stamp => Fault
             /\ \/ Within(v, Hour, c) /\ Goto(c, "lists")
                \/ /\ ~Within(v, Hour, c)
                   /\ run' = [run EXCEPT ![c].pc = "mark", ![c].memo = known]
  BY AskStampFacts
<1>3. faults' = faults \/ faults' = faults + 1
  BY <1>2, FaultCount
<1>4. CASE Goto(c, "lists")
  BY <1>1, <1>3, <1>4, GotoFacts, OtherThrottle DEF Steps
<1>5. CASE ~Within(v, Hour, c) /\ run' = [run EXCEPT ![c].pc = "mark", ![c].memo = known]
  <2>1. run \in [Pass -> PassType] /\ run[c] \in PassType
    BY TypeParts DEF RunPart
  <2>2. /\ run'[c].pc = "mark" /\ run'[c].age = run[c].age /\ run'[c].met = run[c].met
        /\ run'[c].memo = known
    <3>1. run'[c] = [run[c] EXCEPT !.pc = "mark", !.memo = known]
      BY <1>5, <2>1
    <3> QED BY <2>1, <3>1 DEF PassType
  <2>3. \A d \in Pass \ {c} : run'[d] = run[d]
    BY <1>5, <2>1
  <2>4. v \in Nat /\ v - run[c].age >= Hour
    BY <1>5, ThrottleNumbers DEF Within, Ages
  <2>5. Known /\ Judged(c)
    BY ThrottleParts
  <2>6. Judged(c)'
    <3>1. CASE known \/ v = stamp
      <4>1. faults' = faults
        BY <1>2, <3>1, FaultCount
      <4>2. v = stamp /\ StampKnows => Hours(c)
        BY <2>4, ThrottleNumbers DEF StampKnows, Hours
      <4> QED BY <1>1, <2>2, <2>5, <3>1, <4>1, <4>2, ThrottleNumbers
              DEF Judged, At, Hours, StampKnows
    <3>2. CASE ~known /\ v # stamp
      <4>1. faults' = faults + 1
        BY <1>2, <3>2, FaultCount
      <4> QED BY <1>1, <2>2, <2>5, <4>1, ThrottleNumbers DEF Judged, At, Hours, StampKnows
    <3> QED BY <3>1, <3>2
  <2>7. shared' \in Nat
    BY <1>1, ThrottleNumbers
  <2>8. Known' /\ \A d \in Pass \ {c} : Judged(d)'
    BY <1>1, <1>3, <2>3, <2>7, SameKnown, SameJudged
  <2> QED BY <2>6, <2>8, NextThrottle
<1> QED BY <1>2, <1>4, <1>5

LEMMA MarkThrottle ==
    ASSUME TypeInv, ThrottleInv, NEW c \in Pass, Mark(c)
    PROVE  ThrottleInv'
<1>1. UNCHANGED <<faults, stamp, last>> /\ At(c, "mark") /\ shared' = run[c].age
  BY DEF Mark
<1>2. /\ run'[c].pc = "persist" /\ run'[c].age = run[c].age /\ run'[c].met = run[c].met
      /\ run'[c].memo = run[c].memo
      /\ \A d \in Pass \ {c} : run'[d] = run[d]
  BY GotoFacts DEF Mark, Steps
<1>3. shared' \in Nat /\ shared' <= Delay
  BY <1>1, ThrottleNumbers
<1>4. Known' /\ \A d \in Pass \ {c} : Judged(d)'
  BY <1>1, <1>2, <1>3, SameKnown, SameJudged
<1>5. Judged(c)'
  <2>1. Judged(c)
    BY ThrottleParts
  <2> QED BY <1>1, <1>2, <2>1, ThrottleNumbers DEF Judged, At, Hours
<1> QED BY <1>4, <1>5, NextThrottle

(* A clean-up begins: passes under way have met it, and both the cache and *)
(* the row know of it unless they fail.                                    *)
LEMMA PersistThrottle ==
    ASSUME TypeInv, ThrottleInv, NEW c \in Pass, Persist(c)
    PROVE  ThrottleInv'
<1>1. shared' = shared /\ last' = run[c].age /\ At(c, "persist") /\ Judged(c)
  BY ThrottleParts DEF Persist
<1>2. \/ stamp' = run[c].age /\ faults' = faults
      \/ stamp' = stamp /\ faults' = faults + 1
  BY FaultCount DEF Persist
<1>3. Known'
  BY <1>1, <1>2, ThrottleNumbers DEF Judged, Known, SharedKnows, StampKnows
<1>4. Judged(c)'
  BY PersistFacts, NotJudged
<1>5. ASSUME NEW d \in Pass \ {c} PROVE Judged(d)'
  <2>1. /\ run'[d].pc = run[d].pc /\ run'[d].age = run[d].age
        /\ ~At(d, "none") => run'[d].met
        /\ Judged(d)
    BY ThrottleParts, PersistFacts
  <2> QED BY <1>1, <1>2, <2>1, ThrottleNumbers DEF Judged, At
<1> QED BY <1>3, <1>4, <1>5, NextThrottle

LEMMA EvictThrottle ==
    ASSUME TypeInv, ThrottleInv, Evict
    PROVE  ThrottleInv'
<1>1. UNCHANGED <<stamp, last, run>> /\ faults' = faults + 1 /\ shared' \in Nat
  BY FaultCount, ThrottleNumbers, PastTypes DEF Evict
<1> QED BY <1>1, SameKnown, SameJudged, NextThrottle

LEMMA TickThrottle ==
    ASSUME TypeInv, ThrottleInv, Tick
    PROVE  ThrottleInv'
<1>1. faults' = faults
  BY DEF Tick
<1>2. /\ shared' = Older(shared, Past) /\ stamp' = Older(stamp, Past)
      /\ last' = Older(last, Past)
  BY DEF Tick
<1>3. /\ (shared = Past /\ shared' = Past) \/ shared' = shared + 1
      /\ (stamp = Past /\ stamp' = Past) \/ stamp' = stamp + 1
      /\ (last = Past /\ last' = Past) \/ last' = last + 1
      /\ shared' <= Past /\ stamp' <= Past /\ last' <= Past
  BY <1>2, ThrottleNumbers DEF Older, Smaller
<1>4. Known'
  <2>1. Known
    BY ThrottleParts
  <2> QED BY <1>1, <1>3, <2>1, ThrottleNumbers DEF Known, SharedKnows, StampKnows
<1>5. ASSUME NEW c \in Pass PROVE Judged(c)'
  <2>1. CASE At(c, "none")
    BY <2>1, TickFacts, NotJudged DEF At
  <2>2. CASE ~At(c, "none")
    <3>1. /\ run'[c].pc = run[c].pc /\ run'[c].age = run[c].age + 1
          /\ run'[c].met = run[c].met /\ run'[c].memo = run[c].memo
      BY <2>2, TickFacts
    <3>2. Judged(c)
      BY ThrottleParts
    <3>3. run'[c].age \in Nat /\ run'[c].age <= Delay
      BY <2>2, TickFacts, TickTypes, ThrottleNumbers, AgeType, Numbers DEF PassType
    <3>4. Hours(c) => Hours(c)'
      BY <1>3, <3>1, <3>3, ThrottleNumbers DEF Hours
    <3>5. StampKnows => StampKnows'
      BY <1>3, ThrottleNumbers DEF StampKnows
    <3>6. shared <= run[c].age + Delay => shared' <= run'[c].age + Delay
      BY <1>3, <3>1, ThrottleNumbers
    <3> QED BY <1>1, <3>1, <3>2, <3>4, <3>5, <3>6 DEF Judged, At
  <2> QED BY <2>1, <2>2
<1> QED BY <1>4, <1>5, NextThrottle

LEMMA MidnightThrottle ==
    ASSUME TypeInv, ThrottleInv, Midnight
    PROVE  ThrottleInv'
<1>1. UNCHANGED <<faults, shared, stamp, last>>
  BY DEF Midnight, throttle
<1>2. Known'
  BY <1>1, ThrottleParts DEF Known, SharedKnows, StampKnows
<1>3. ASSUME NEW c \in Pass PROVE Judged(c)'
  <2>1. Judged(c)
    BY ThrottleParts
  <2> QED BY <1>1, <2>1, MidnightFacts DEF Judged, At, Hours, StampKnows
<1> QED BY <1>2, <1>3, NextThrottle

LEMMA StepThrottle == TypeInv /\ ThrottleInv /\ [Next]_vars => ThrottleInv'
<1> SUFFICES ASSUME TypeInv, ThrottleInv, [Next]_vars PROVE ThrottleInv'
  OBVIOUS
<1>1. ASSUME NEW c \in Pass, Advance(c) PROVE ThrottleInv'
  <2>1. CASE AskShared(c) \/ AskStamp(c) \/ Mark(c) \/ Persist(c)
    BY <2>1, AskSharedThrottle, AskStampThrottle, MarkThrottle, PersistThrottle
  <2>2. CASE Abandon(c) \/ Clear(c) \/ Select(c) \/ Count(c) \/ Delete(c) \/ Save(c)
             \/ Lists(c) \/ Sync(c)
    <3>1. UNCHANGED <<shared, stamp, last>>
      BY <2>2 DEF Abandon, Clear, Select, Count, Delete, Save, Lists, Sync, throttle
    <3>2. faults' = faults \/ faults' = faults + 1
      <4>1. Fault \/ NoFault
        BY <2>2, CountFacts DEF Abandon, Clear, Select, Delete, Save, Lists, Sync
      <4> QED BY <4>1, FaultCount
    <3>3. /\ run'[c].pc \notin {"stamp", "mark", "persist"}
          /\ \A d \in Pass \ {c} : run'[d] = run[d]
      <4>1. CASE Goto(c, "select") \/ Goto(c, "lists") \/ Goto(c, "sync")
        BY <4>1, GotoFacts DEF Steps
      <4>2. CASE Leave(c)
        BY <4>2, LeaveFacts
      <4>3. CASE Select(c)
        BY <4>3, <4>1, SelectFacts
      <4>4. CASE Count(c)
        BY <4>4, CountFacts
      <4>5. CASE Delete(c)
        BY <4>5, <4>1, DeleteFacts
      <4> QED BY <2>2, <4>1, <4>2, <4>3, <4>4, <4>5 DEF Abandon, Clear, Save, Lists, Sync
    <3> QED BY <3>1, <3>2, <3>3, OtherThrottle
  <2> QED BY <1>1, <2>1, <2>2 DEF Advance, CleanUp, Retain
<1>2. ASSUME NEW c \in Pass, NEW i \in Isolate, Begin(c, i) PROVE ThrottleInv'
  <2>1. UNCHANGED <<faults, shared, stamp, last>>
    BY <1>2 DEF Begin, throttle
  <2> QED BY <1>2, <2>1, BeginFacts, OtherThrottle
<1>3. ASSUME UNCHANGED <<shared, stamp, last, run>>, Fault \/ NoFault PROVE ThrottleInv'
  BY <1>3, FaultCount, OtherThrottle
<1>4. ASSUME NEW q \in Visit, Work(q) \/ \E i \in Isolate, p \in Profile : Query(q, i, p)
      PROVE  ThrottleInv'
  <2>1. UNCHANGED <<shared, stamp, last, run>>
    BY <1>4 DEF Work, AskBeat, Record, Share, Query, throttle
  <2>2. Fault \/ NoFault
    BY <1>4 DEF Work, AskBeat, Record, Share, Query, NoFault
  <2> QED BY <1>3, <2>1, <2>2
<1>5. ASSUME NEW i \in Isolate, End(i) PROVE ThrottleInv'
  <2>1. UNCHANGED <<shared, stamp, last>> /\ faults' = faults + 1
    BY <1>5, FaultCount DEF End
  <2>2. \A c \in Pass : run'[c] = run[c] \/ run'[c] = NoPass
    BY <1>5 DEF End
  <2> QED BY <2>1, <2>2, NoPassType, OtherThrottle
<1>6. CASE Outdate \/ (\E p \in Profile : Expire(p)) \/ UNCHANGED vars
  <2>1. UNCHANGED <<shared, stamp, last, run>> /\ NoFault
    BY <1>6 DEF Outdate, Expire, vars, throttle, NoFault
  <2> QED BY <1>3, <2>1
<1> QED
  BY <1>1, <1>2, <1>4, <1>5, <1>6, EvictThrottle, TickThrottle, MidnightThrottle
  DEF Next

LEMMA StepFaults ==
    ASSUME TypeInv, [Next]_vars
    PROVE  faults' \in Nat /\ faults' >= faults
<1>1. Fault \/ NoFault
  <2>1. ASSUME NEW c \in Pass, Advance(c) \/ \E i \in Isolate : Begin(c, i)
        PROVE  Fault \/ NoFault
    BY <2>1, CountFacts, AskStampFacts
    DEF Advance, CleanUp, Retain, AskShared, Mark, Persist, Abandon, Clear, Select, Delete,
        Save, Lists, Sync, Begin, NoFault
  <2>2. ASSUME NEW q \in Visit, Work(q) \/ \E i \in Isolate, p \in Profile : Query(q, i, p)
        PROVE  Fault \/ NoFault
    BY <2>2 DEF Work, AskBeat, Record, Share, Query, NoFault
  <2>3. CASE \/ \E i \in Isolate : End(i)
             \/ Evict \/ Outdate \/ Tick \/ Midnight
             \/ \E p \in Profile : Expire(p)
             \/ UNCHANGED vars
    BY <2>3 DEF End, Evict, Outdate, Tick, Midnight, Expire, vars, NoFault
  <2> QED BY <2>1, <2>2, <2>3 DEF Next
<1> QED BY <1>1, FaultTypes

(* A clean-up that begins: hours after the latest, or excused. *)
LEMMA StepThrottles ==
    ASSUME TypeInv, ThrottleInv, [Next]_vars, NEW c \in Pass, At(c, "persist"),
           run'[c].pc = "inactive"
    PROVE  \/ last - run[c].age >= Hour - Delay
           \/ run[c].met \/ faults' > 1 \/ (faults' = 1 /\ run[c].memo)
<1>1. faults' \in Nat /\ faults' >= faults
  BY StepFaults
<1>2. Judged(c)
  BY ThrottleParts
<1> QED BY <1>1, <1>2, ThrottleNumbers DEF Judged, At, Hours

-----------------------------------------------------------------------------
(* The record of activity.                                                 *)

(* The profiles of a user are all there or all gone. *)
Kin == \A p \in plan.rows : \A r \in profiles : Owner[p] = Owner[r] => p \in profiles

(* The parts of ActiveInv that concern a profile and a task. *)
Beaten(p) ==
    /\ \A i \in Isolate : beat[i][p] < PastBeat => Fits(Owner[p], beat[i][p])
    /\ sharedBeat[p] < PastBeat => Fits(Owner[p], sharedBeat[p])
    /\ Asking(Owner[p]) \/ Fits(Owner[p], queried[Owner[p]] + Active)
Sharing(q) == AtTask(q, "share") /\ visit[q].of \in profiles => Fits(UserOf(q), visit[q].age)

LEMMA ActiveParts ==
    ActiveInv <=> Kin /\ (\A p \in profiles : Beaten(p)) /\ \A q \in Visit : Sharing(q)
  BY DEF ActiveInv, Kin, Beaten, Sharing

LEMMA NextActive ==
    ASSUME Kin', \A p \in profiles' : Beaten(p)', \A q \in Visit : Sharing(q)'
    PROVE  ActiveInv'
  BY DEF ActiveInv, Kin, Beaten, Sharing

RecordingNext(u) == \E q \in Visit : visit'[q].pc = "write" /\ Owner[visit'[q].of] = u
AskingNext(u) == \E q \in Visit : /\ visit'[q].pc = "ask" /\ Owner[visit'[q].of] = u
                                  /\ visit'[q].age = queried'[u]
FitsNext(u, age) == missed'[u] \/ RecordingNext(u) \/ active'[u] <= age + Delay

LEMMA NextBeaten ==
    ASSUME NEW p,
           \A i \in Isolate : beat'[i][p] < PastBeat => FitsNext(Owner[p], beat'[i][p]),
           sharedBeat'[p] < PastBeat => FitsNext(Owner[p], sharedBeat'[p]),
           AskingNext(Owner[p]) \/ FitsNext(Owner[p], queried'[Owner[p]] + Active)
    PROVE  Beaten(p)'
  BY DEF Beaten, Fits, FitsNext, Recording, RecordingNext, Asking, AskingNext, AtTask, UserOf

LEMMA NextSharing ==
    ASSUME NEW q,
           visit'[q].pc = "share" /\ visit'[q].of \in profiles'
             => FitsNext(Owner[visit'[q].of], visit'[q].age)
    PROVE  Sharing(q)'
  BY DEF Sharing, Fits, FitsNext, Recording, RecordingNext, AtTask, UserOf

LEMMA ActiveNumbers ==
    ASSUME TypeInv
    PROVE  /\ Active \in Nat /\ Delay \in Nat /\ Quiet \in Nat
           /\ PastBeat = Active + Delay /\ PastActive = Quiet + Delay + 1
           /\ \A u \in User : /\ active[u] \in Nat /\ active[u] <= PastActive
                              /\ queried[u] \in Nat /\ queried[u] <= PastActive
           /\ \A p \in Profile : /\ sharedBeat[p] \in Nat /\ sharedBeat[p] <= PastBeat
                                 /\ \A i \in Isolate : /\ beat[i][p] \in Nat
                                                       /\ beat[i][p] <= PastBeat
           /\ \A q \in Visit : visit[q].age \in Nat /\ visit[q].age <= Delay
           /\ profiles \subseteq plan.rows /\ plan.rows \subseteq Profile
           /\ \A p \in Profile : Owner[p] \in User
<1>1. ActivityPart /\ LogsPart /\ PlanPart
  BY TypeParts
<1>2. \A u \in User : active[u] \in Ages(PastActive) /\ queried[u] \in Ages(PastActive)
  BY <1>1 DEF ActivityPart
<1>3. \A p \in Profile : /\ sharedBeat[p] \in Ages(PastBeat)
                         /\ \A i \in Isolate : beat[i][p] \in Ages(PastBeat)
  BY <1>1 DEF ActivityPart
<1>4. \A q \in Visit : visit[q].age \in 0..Delay
  BY VisitTypes
<1>5. profiles \subseteq plan.rows /\ plan.rows \subseteq Profile
  BY <1>1 DEF LogsPart, PlanPart, PlanType
<1>6. \A p \in Profile : Owner[p] \in User
  BY OwnerAssumption
<1> QED BY <1>2, <1>3, <1>4, <1>5, <1>6, Numbers DEF Ages, PastBeat, PastActive

(* What a user's record is good for, it stays good for. *)
LEMMA FitsStays ==
    ASSUME NEW u, missed[u] => missed'[u], active'[u] = active[u],
           Recording(u) => RecordingNext(u)
    PROVE  \A age : Fits(u, age) => FitsNext(u, age)
  BY DEF Fits, FitsNext

(* A record made just now is good for anything. *)
LEMMA FitsFresh ==
    ASSUME NEW u, active'[u] \in Nat, active'[u] <= Delay
    PROVE  \A age \in Nat : FitsNext(u, age)
  BY Numbers DEF FitsNext

LEMMA FitsExcused ==
    ASSUME NEW u, missed'[u] \/ RecordingNext(u)
    PROVE  \A age : FitsNext(u, age)
  BY DEF FitsNext

(* A profile of a user whom the step leaves alone; throttles may be        *)
(* forgotten.                                                              *)
LEMMA BeatenStays ==
    ASSUME ActiveInv, NEW p \in profiles,
           missed[Owner[p]] => missed'[Owner[p]], active'[Owner[p]] = active[Owner[p]],
           Recording(Owner[p]) => RecordingNext(Owner[p]),
           Asking(Owner[p]) => AskingNext(Owner[p]), queried'[Owner[p]] = queried[Owner[p]],
           \A i \in Isolate : beat'[i][p] = beat[i][p] \/ beat'[i][p] = PastBeat,
           sharedBeat'[p] = sharedBeat[p] \/ sharedBeat'[p] = PastBeat,
           PastBeat \in Nat
    PROVE  Beaten(p)'
<1>1. Beaten(p)
  BY ActiveParts
<1>2. \A age : Fits(Owner[p], age) => FitsNext(Owner[p], age)
  BY FitsStays
<1>3. ~(PastBeat < PastBeat)
  OBVIOUS
<1>4. ASSUME NEW i \in Isolate, beat'[i][p] < PastBeat
      PROVE  FitsNext(Owner[p], beat'[i][p])
  BY <1>1, <1>2, <1>3, <1>4 DEF Beaten
<1>5. sharedBeat'[p] < PastBeat => FitsNext(Owner[p], sharedBeat'[p])
  BY <1>1, <1>2, <1>3 DEF Beaten
<1>6. AskingNext(Owner[p]) \/ FitsNext(Owner[p], queried'[Owner[p]] + Active)
  BY <1>1, <1>2 DEF Beaten
<1> QED BY <1>4, <1>5, <1>6, NextBeaten

(* A profile of a user whose record is good for anything, or excused. *)
LEMMA BeatenAnew ==
    ASSUME TypeInv, TypeInv', NEW p \in Profile, \A age \in Nat : FitsNext(Owner[p], age)
    PROVE  Beaten(p)'
<1>1. /\ \A i \in Isolate : beat'[i][p] \in Nat
      /\ sharedBeat'[p] \in Nat /\ queried'[Owner[p]] + Active \in Nat
  <2>1. ActivityPart'
    BY DEF TypeInv, TypeOK, ActivityPart, VisitType
  <2>2. queried'[Owner[p]] \in Nat
    BY <2>1, OwnerAssumption, PastTypes DEF ActivityPart, Ages
  <2> QED BY <2>1, <2>2, PastTypes, Numbers DEF ActivityPart, Ages
<1> QED BY <1>1, NextBeaten

(* The tasks that a step leaves alone. *)
LEMMA SharingStays ==
    ASSUME ActiveInv, NEW q \in Visit, visit'[q] = visit[q], profiles' \subseteq profiles,
           missed[UserOf(q)] => missed'[UserOf(q)], active'[UserOf(q)] = active[UserOf(q)],
           Recording(UserOf(q)) => RecordingNext(UserOf(q))
    PROVE  Sharing(q)'
<1>1. Sharing(q)
  BY ActiveParts
<1>2. Fits(UserOf(q), visit[q].age) => FitsNext(UserOf(q), visit[q].age)
  BY FitsStays
<1> QED BY <1>1, <1>2, NextSharing DEF Sharing, AtTask, UserOf

LEMMA SharingAnew ==
    ASSUME TypeInv', NEW q \in Visit,
           \A age \in Nat : FitsNext(Owner[visit'[q].of], age)
    PROVE  Sharing(q)'
<1>1. visit'[q].age \in Nat
  BY Numbers DEF TypeInv, TypeOK
<1> QED BY <1>1, NextSharing

(* Steps that leave the activity alone. *)
LEMMA OtherActive ==
    ASSUME TypeInv, ActiveInv, UNCHANGED activity, plan'.rows = plan.rows,
           profiles' \subseteq profiles, Kin'
    PROVE  ActiveInv'
<1>1. \A u : /\ missed[u] => missed'[u]
             /\ active'[u] = active[u] /\ queried'[u] = queried[u]
             /\ Recording(u) => RecordingNext(u)
             /\ Asking(u) => AskingNext(u)
  BY DEF activity, Recording, RecordingNext, Asking, AskingNext, AtTask, UserOf
<1>2. \A p \in profiles' : Beaten(p)'
  BY <1>1, BeatenStays, PastTypes DEF activity
<1>3. \A q \in Visit : Sharing(q)'
  BY <1>1, SharingStays DEF activity
<1> QED BY <1>2, <1>3, NextActive

LEMMA InitActive == Init => ActiveInv
<1> SUFFICES ASSUME Init PROVE ActiveInv
  OBVIOUS
<1>0. TypeInv
  BY InitTypes
<1>1. Kin
  BY DEF Init, Kin
<1>2. \A p \in profiles : Beaten(p)
  <2> TAKE p \in profiles
  <2>1. p \in Profile /\ Owner[p] \in User
    BY <1>0, ActiveNumbers
  <2>2. Fits(Owner[p], queried[Owner[p]] + Active)
    BY <1>0, <2>1, ActiveNumbers DEF Fits, Init
  <2>3. sharedBeat[p] = PastBeat /\ \A i \in Isolate : beat[i][p] = PastBeat
    BY <2>1 DEF Init
  <2> QED BY <2>2, <2>3, PastTypes DEF Beaten
<1>3. \A q \in Visit : Sharing(q)
  BY NoVisitType DEF Init, Sharing, AtTask
<1> QED BY <1>1, <1>2, <1>3, ActiveParts

(* Clearing a user takes all the profiles. *)
LEMMA ClearActive ==
    ASSUME TypeInv, ActiveInv, NEW c \in Pass, Clear(c)
    PROVE  ActiveInv'
<1>1. UNCHANGED <<plan, activity>>
  BY DEF Clear
<1>2. profiles' \subseteq profiles
  BY DEF Clear
<1>3. Kin'
  <2>1. Kin
    BY ActiveParts
  <2>2. CASE UNCHANGED profiles
    BY <1>1, <2>1, <2>2 DEF Kin
  <2>3. CASE profiles' = profiles \ Silent(c)
    BY <1>1, <2>1, <2>3 DEF Kin, Silent
  <2> QED BY <2>2, <2>3 DEF Clear
<1> QED BY <1>1, <1>2, <1>3, OtherActive

(* How one task's step shows in what is known of users. *)
LEMMA OtherTasks ==
    ASSUME NEW q \in Visit, \A r \in Visit \ {q} : visit'[r] = visit[r],
           queried' = queried
    PROVE  /\ ~AtTask(q, "write") => \A u : Recording(u) => RecordingNext(u)
           /\ ~AtTask(q, "ask") => \A u : Asking(u) => AskingNext(u)
           /\ \A u : u # UserOf(q) => /\ Recording(u) => RecordingNext(u)
                                      /\ Asking(u) => AskingNext(u)
<1>1. ASSUME NEW u, Recording(u), u # UserOf(q) \/ ~AtTask(q, "write")
      PROVE  RecordingNext(u)
  <2>1. PICK r \in Visit : AtTask(r, "write") /\ UserOf(r) = u
    BY <1>1 DEF Recording, RecordingNext, AtTask, UserOf
  <2>2. r # q
    BY <1>1, <2>1
  <2> QED BY <2>1, <2>2 DEF Recording, RecordingNext, AtTask, UserOf
<1>2. ASSUME NEW u, Asking(u), u # UserOf(q) \/ ~AtTask(q, "ask")
      PROVE  AskingNext(u)
  <2>1. PICK r \in Visit : AtTask(r, "ask") /\ UserOf(r) = u /\ visit[r].age = queried[u]
    BY <1>2 DEF Asking, AskingNext, AtTask, UserOf
  <2>2. r # q
    BY <1>2, <2>1
  <2> QED BY <2>1, <2>2 DEF Asking, AskingNext, AtTask, UserOf
<1> QED BY <1>1, <1>2

LEMMA QueryActive ==
    ASSUME TypeInv, ActiveInv, NEW q \in Visit, NEW i \in Isolate, NEW p \in Profile,
           Query(q, i, p)
    PROVE  ActiveInv'
<1>1. /\ UNCHANGED <<plan, logs, beat, sharedBeat, active, missed>> /\ AtTask(q, "none")
      /\ UNCHANGED profiles
  BY DEF Query, logs
<1>2. /\ p \in profiles /\ Owner[p] \in User
      /\ queried' = [queried EXCEPT ![Owner[p]] = 0] /\ queried \in [User -> Ages(PastActive)]
      /\ \A r \in Visit \ {q} : visit'[r] = visit[r]
      /\ \/ beat[i][p] < Active /\ UNCHANGED visit
         \/ visit'[q].pc = "ask" /\ visit'[q].of = p /\ visit'[q].age = 0
  BY QueryFacts, TypeParts DEF ActivityPart
<1>3. \A u : Recording(u) => RecordingNext(u)
  <2> TAKE u
  <2> HAVE Recording(u)
  <2>1. PICK r \in Visit : AtTask(r, "write") /\ UserOf(r) = u
    BY DEF Recording, RecordingNext, AtTask, UserOf
  <2>2. r # q
    BY <1>1, <2>1 DEF AtTask
  <2> QED BY <1>2, <2>1, <2>2 DEF Recording, RecordingNext, AtTask, UserOf
<1>4. ASSUME NEW s \in profiles PROVE Beaten(s)'
  <2> DEFINE u == Owner[s]
  <2>1. s \in Profile /\ u \in User
    BY ActiveNumbers
  <2>2. CASE u # Owner[p]
    <3>1. queried'[u] = queried[u]
      BY <1>2, <2>1, <2>2
    <3>2. Asking(u) => AskingNext(u)
      <4>1. ASSUME Asking(u) PROVE AskingNext(u)
        <5>1. PICK r \in Visit : AtTask(r, "ask") /\ UserOf(r) = u /\ visit[r].age = queried[u]
          BY <4>1 DEF Asking, AskingNext, AtTask, UserOf
        <5>2. r # q
          BY <1>1, <5>1 DEF AtTask
        <5> QED BY <1>2, <3>1, <5>1, <5>2 DEF Asking, AskingNext, AtTask, UserOf
      <4> QED BY <4>1
    <3> QED BY <1>1, <1>3, <3>1, <3>2, BeatenStays, PastTypes
  <2>3. CASE u = Owner[p]
    <3>1. Beaten(s) /\ Beaten(p)
      BY <1>2, ActiveParts
    <3>2. \A age : Fits(u, age) => FitsNext(u, age)
      BY <1>1, <1>3, FitsStays
    <3>3. queried'[u] = 0
      BY <1>2, <2>3
    <3>4. AskingNext(u) \/ FitsNext(u, queried'[u] + Active)
      <4>1. CASE beat[i][p] < Active
        <5>1. Fits(u, beat[i][p]) /\ beat[i][p] \in Nat /\ active[u] \in Nat
          BY <2>1, <2>3, <3>1, <4>1, ActiveNumbers DEF Beaten
        <5>2. Fits(u, 0 + Active)
          BY <4>1, <5>1, Numbers DEF Fits
        <5> QED BY <3>2, <3>3, <5>2
      <4>2. CASE visit'[q].pc = "ask" /\ visit'[q].of = p /\ visit'[q].age = 0
        BY <2>3, <3>3, <4>2 DEF Asking, AskingNext, AtTask, UserOf
      <4> QED BY <1>2, <4>1, <4>2
    <3>5. \A j \in Isolate : beat'[j][s] < PastBeat => FitsNext(u, beat'[j][s])
      BY <1>1, <3>1, <3>2 DEF Beaten
    <3>6. sharedBeat'[s] < PastBeat => FitsNext(u, sharedBeat'[s])
      BY <1>1, <3>1, <3>2 DEF Beaten
    <3> QED BY <3>4, <3>5, <3>6, NextBeaten
  <2> QED BY <2>2, <2>3
<1>5. ASSUME NEW r \in Visit PROVE Sharing(r)'
  <2>1. CASE visit'[r] = visit[r]
    BY <1>1, <1>3, <2>1, SharingStays
  <2>2. CASE visit'[r] # visit[r]
    <3>1. visit'[r].pc = "ask"
      BY <1>2, <2>2
    <3> QED BY <3>1, NextSharing
  <2> QED BY <2>1, <2>2
<1>6. Kin'
  BY <1>1, ActiveParts DEF Kin
<1> QED BY <1>1, <1>4, <1>5, <1>6, NextActive

(* A user with a profile left has the profile of each task. *)
LEMMA TaskProfile ==
    ASSUME TypeInv, ActiveInv, NEW q \in Visit, ~AtTask(q, "none")
    PROVE  /\ UserOf(q) \in User /\ visit[q].of \in Profile /\ UserOf(q) = Owner[visit[q].of]
           /\ \A p \in profiles : Owner[p] = UserOf(q) => visit[q].of \in profiles
<1>1. /\ visit[q].of \in plan.rows /\ UserOf(q) \in User /\ visit[q].of \in Profile
      /\ UserOf(q) = Owner[visit[q].of]
  BY VisitTypes DEF UserOf
<1> QED BY <1>1, ActiveParts DEF Kin

LEMMA AskBeatActive ==
    ASSUME TypeInv, TypeInv', ActiveInv, NEW q \in Visit, AskBeat(q)
    PROVE  ActiveInv'
<1> DEFINE u == UserOf(q)
           b == visit[q].of
<1>1. /\ UNCHANGED <<plan, profiles, sharedBeat, active, queried>> /\ AtTask(q, "ask")
      /\ ~AtTask(q, "none") /\ ~AtTask(q, "write")
  BY DEF AskBeat, logs, AtTask
<1>2. Kin'
  BY <1>1, ActiveParts DEF Kin
<1>3. u \in User /\ b \in Profile /\ u = Owner[b]
      /\ \A p \in profiles : Owner[p] = u => b \in profiles
  BY <1>1, TaskProfile
<1>4. /\ \A r \in Visit \ {q} : visit'[r] = visit[r]
      /\ visit'[q].pc \in {"none", "write"}
  BY AskBeatFacts, EndTaskFacts, GotoTaskFacts
<1>5. /\ \A x : Recording(x) => RecordingNext(x)
      /\ \A x : x # u => (Asking(x) => AskingNext(x))
  BY <1>1, <1>4, OtherTasks
<1>6. /\ missed' = missed \/ missed' = [missed EXCEPT ![u] = TRUE]
      /\ \A x \in User : missed[x] => missed'[x]
  <2>1. missed \in [User -> BOOLEAN]
    BY TypeParts DEF ActivityPart
  <2> QED BY <2>1, AskBeatFacts
<1>7. \A r \in Visit : Sharing(r)'
  <2> TAKE r \in Visit
  <2>1. CASE r = q
    BY <1>4, <2>1, NextSharing
  <2>2. CASE r # q /\ ~AtTask(r, "none")
    <3>1. UserOf(r) \in User
      BY <2>2, VisitTypes
    <3> QED BY <1>1, <1>4, <1>5, <1>6, <2>2, <3>1, SharingStays
  <2>3. CASE r # q /\ AtTask(r, "none")
    BY <1>4, <2>3, NextSharing DEF AtTask
  <2> QED BY <2>1, <2>2, <2>3
<1>8. ASSUME NEW p \in profiles PROVE Beaten(p)'
  <2>1. p \in Profile /\ Owner[p] \in User
    BY ActiveNumbers
  <2>2. \A i \in Isolate : p # b => beat'[i][p] = beat[i][p]
    BY <1>3, <2>1, AskBeatFacts
  <2>3. CASE Owner[p] # u
    BY <1>1, <1>3, <1>5, <1>6, <2>1, <2>2, <2>3, BeatenStays, PastTypes
  <2>4. CASE Owner[p] = u
    <3>1. b \in profiles
      BY <1>3, <2>4
    <3>2. CASE missed' = [missed EXCEPT ![u] = TRUE]
      <4>1. missed'[u]
        BY <1>3, <3>2, TypeParts DEF ActivityPart
      <4> QED BY <2>1, <2>4, <4>1, FitsExcused, BeatenAnew
    <3>3. CASE GotoTask(q, "write")
      <4>1. visit'[q].pc = "write" /\ visit'[q].of = b
        BY <3>3, GotoTaskFacts
      <4>2. RecordingNext(u)
        BY <1>3, <4>1 DEF Recording, RecordingNext, AtTask, UserOf
      <4> QED BY <2>1, <2>4, <4>2, FitsExcused, BeatenAnew
    <3>4. ASSUME missed' = missed, NEW a \in Ages(PastBeat),
                 beat'[visit[q].at][b] = a, a = sharedBeat[b], a - visit[q].age < Active,
                 \A i \in Isolate, s \in Profile :
                        i # visit[q].at \/ s # b => beat'[i][s] = beat[i][s]
          PROVE  Beaten(p)'
      <4>1. \A age : Fits(u, age) => FitsNext(u, age)
        BY <1>1, <1>3, <1>5, <1>6, FitsStays
      <4>2. Beaten(p) /\ Beaten(b)
        BY <3>1, ActiveParts
      <4>3. a \in Nat /\ a < PastBeat /\ visit[q].age \in Nat /\ visit[q].age <= Delay
        BY <3>4, ActiveNumbers DEF Ages
      <4>4. Fits(u, a)
        BY <1>3, <3>4, <4>2, <4>3 DEF Beaten
      <4>5. ASSUME NEW i \in Isolate, beat'[i][p] < PastBeat
            PROVE  FitsNext(u, beat'[i][p])
        <5>1. CASE i = visit[q].at /\ p = b
          BY <3>4, <4>1, <4>4, <5>1
        <5>2. CASE i # visit[q].at \/ p # b
          BY <2>1, <2>4, <3>4, <4>1, <4>2, <4>5, <5>2 DEF Beaten
        <5> QED BY <5>1, <5>2
      <4>6. sharedBeat'[p] < PastBeat => FitsNext(u, sharedBeat'[p])
        BY <1>1, <2>4, <4>1, <4>2 DEF Beaten
      <4>7. AskingNext(u) \/ FitsNext(u, queried'[u] + Active)
        <5>1. CASE Fits(u, queried[u] + Active)
          BY <1>1, <4>1, <5>1
        <5>2. CASE Asking(u)
          <6>1. PICK r \in Visit : /\ AtTask(r, "ask") /\ UserOf(r) = u
                                   /\ visit[r].age = queried[u]
            BY <5>2 DEF Asking, AskingNext, AtTask, UserOf
          <6>2. CASE r # q
            BY <1>1, <1>4, <6>1, <6>2 DEF Asking, AskingNext, AtTask, UserOf
          <6>3. CASE r = q
            <7>1. a <= queried[u] + Active /\ active[u] \in Nat /\ queried[u] \in Nat
              BY <1>3, <3>4, <4>3, <6>1, <6>3, ActiveNumbers
            <7>2. Fits(u, queried[u] + Active)
              BY <4>3, <4>4, <7>1, Numbers DEF Fits
            <7> QED BY <1>1, <4>1, <7>2
          <6> QED BY <6>2, <6>3
        <5>3. Asking(u) \/ Fits(u, queried[u] + Active)
          BY <2>4, <4>2 DEF Beaten
        <5> QED BY <5>1, <5>2, <5>3
      <4> QED BY <2>4, <4>5, <4>6, <4>7, NextBeaten
    <3> QED BY <3>2, <3>3, <3>4, AskBeatFacts
  <2> QED BY <2>3, <2>4
<1> QED BY <1>1, <1>2, <1>7, <1>8, NextActive

LEMMA RecordActive ==
    ASSUME TypeInv, TypeInv', ActiveInv, NEW q \in Visit, Record(q)
    PROVE  ActiveInv'
<1> DEFINE u == UserOf(q)
           b == visit[q].of
<1>1. /\ UNCHANGED <<plan, profiles, beat, sharedBeat, queried>> /\ AtTask(q, "write")
      /\ ~AtTask(q, "none") /\ ~AtTask(q, "ask") /\ GotoTask(q, "share")
  BY DEF Record, logs, AtTask
<1>2. Kin'
  BY <1>1, ActiveParts DEF Kin
<1>3. u \in User /\ b \in Profile /\ u = Owner[b]
      /\ \A p \in profiles : Owner[p] = u => b \in profiles
  BY <1>1, TaskProfile
<1>4. /\ \A r \in Visit \ {q} : visit'[r] = visit[r]
      /\ visit'[q].pc = "share" /\ visit'[q].of = b
  BY <1>1, GotoTaskFacts
<1>5. \A x : x # u => /\ Recording(x) => RecordingNext(x)
                      /\ Asking(x) => AskingNext(x)
  BY <1>1, <1>4, OtherTasks
<1>6. /\ \A x \in User : x # u => missed'[x] = missed[x] /\ active'[x] = active[x]
      /\ \/ missed'[u]
         \/ b \notin profiles
         \/ active'[u] = visit[q].age
  <2>1. missed \in [User -> BOOLEAN] /\ active \in [User -> Ages(PastActive)]
    BY TypeParts DEF ActivityPart
  <2> QED BY <1>3, <2>1 DEF Record
<1>7. b \in profiles => \A age \in Nat : FitsNext(u, age)
  <2>1. visit[q].age \in Nat /\ visit[q].age <= Delay
    BY ActiveNumbers
  <2> QED BY <1>6, <2>1, FitsExcused, FitsFresh
<1>8. ASSUME NEW p \in profiles PROVE Beaten(p)'
  <2>1. p \in Profile /\ Owner[p] \in User
    BY ActiveNumbers
  <2>2. CASE Owner[p] # u
    BY <1>1, <1>5, <1>6, <2>1, <2>2, BeatenStays, PastTypes
  <2>3. CASE Owner[p] = u
    BY <1>3, <1>7, <2>1, <2>3, BeatenAnew
  <2> QED BY <2>2, <2>3
<1>9. ASSUME NEW r \in Visit PROVE Sharing(r)'
  <2>1. CASE Owner[visit'[r].of] = u /\ visit'[r].of \in profiles'
    BY <1>1, <1>3, <1>7, <2>1, SharingAnew
  <2>2. CASE visit'[r].of \notin profiles'
    BY <2>2, NextSharing
  <2>3. CASE Owner[visit'[r].of] # u
    <3>1. r # q /\ visit'[r] = visit[r] /\ UserOf(r) # u
      BY <1>3, <1>4, <2>3 DEF UserOf
    <3>2. CASE AtTask(r, "none")
      BY <3>1, <3>2, NextSharing DEF AtTask
    <3>3. CASE ~AtTask(r, "none")
      <4>1. UserOf(r) \in User
        BY <3>3, VisitTypes
      <4> QED BY <1>1, <1>5, <1>6, <3>1, <4>1, SharingStays
    <3> QED BY <3>2, <3>3
  <2> QED BY <2>1, <2>2, <2>3
<1> QED BY <1>1, <1>2, <1>8, <1>9, NextActive

LEMMA ShareActive ==
    ASSUME TypeInv, ActiveInv, NEW q \in Visit, Share(q)
    PROVE  ActiveInv'
<1> DEFINE b == visit[q].of
<1>1. /\ UNCHANGED <<plan, profiles, beat, active, queried, missed>> /\ AtTask(q, "share")
      /\ ~AtTask(q, "none") /\ ~AtTask(q, "ask") /\ ~AtTask(q, "write") /\ EndTask(q)
  BY DEF Share, logs, AtTask
<1>2. Kin'
  BY <1>1, ActiveParts DEF Kin
<1>3. b \in Profile /\ UserOf(q) = Owner[b]
  BY <1>1, TaskProfile
<1>4. (\A r \in Visit \ {q} : visit'[r] = visit[r]) /\ visit'[q].pc = "none"
  BY <1>1, EndTaskFacts
<1>5. \A x : /\ Recording(x) => RecordingNext(x)
             /\ Asking(x) => AskingNext(x)
  BY <1>1, <1>4, OtherTasks
<1>6. sharedBeat \in [Profile -> Ages(PastBeat)]
  BY TypeParts DEF ActivityPart
<1>7. ASSUME NEW p \in profiles PROVE Beaten(p)'
  <2>1. p \in Profile
    BY ActiveNumbers
  <2>2. CASE sharedBeat'[p] = sharedBeat[p]
    BY <1>1, <1>5, <2>2, BeatenStays, PastTypes
  <2>3. CASE sharedBeat'[p] # sharedBeat[p]
    <3>1. p = b /\ sharedBeat'[p] = visit[q].age
      BY <1>3, <1>6, <2>1, <2>3 DEF Share
    <3>2. Fits(Owner[p], visit[q].age) /\ Beaten(p)
      BY <1>1, <1>3, <3>1, ActiveParts DEF Sharing
    <3>3. \A age : Fits(Owner[p], age) => FitsNext(Owner[p], age)
      BY <1>1, <1>5, FitsStays
    <3>4. \A i \in Isolate : beat'[i][p] < PastBeat => FitsNext(Owner[p], beat'[i][p])
      BY <1>1, <3>2, <3>3 DEF Beaten
    <3>5. AskingNext(Owner[p]) \/ FitsNext(Owner[p], queried'[Owner[p]] + Active)
      BY <1>1, <1>5, <3>2, <3>3 DEF Beaten
    <3> QED BY <3>1, <3>2, <3>3, <3>4, <3>5, NextBeaten
  <2> QED BY <2>2, <2>3
<1>8. ASSUME NEW r \in Visit PROVE Sharing(r)'
  <2>1. CASE r = q
    BY <1>4, <2>1, NextSharing
  <2>2. CASE r # q
    BY <1>1, <1>4, <1>5, <2>2, SharingStays
  <2> QED BY <2>1, <2>2
<1> QED BY <1>1, <1>2, <1>7, <1>8, NextActive

(* Who loses a task is excused. *)
LEMMA EndActive ==
    ASSUME TypeInv, TypeInv', ActiveInv, NEW i \in Isolate, End(i)
    PROVE  ActiveInv'
<1> DEFINE tasks == {q \in Visit : visit[q].at = i}
           Hit(u) == \E q \in tasks : UserOf(q) = u
<1>1. /\ UNCHANGED <<plan, profiles, sharedBeat, active, queried>>
      /\ beat' = [beat EXCEPT ![i] = [p \in Profile |-> PastBeat]]
      /\ missed' = [u \in User |-> missed[u] \/ Hit(u)]
      /\ visit' = [q \in Visit |-> IF q \in tasks THEN NoVisit ELSE visit[q]]
  BY DEF End
<1>2. Kin'
  BY <1>1, ActiveParts DEF Kin
<1>3. \A u \in User : /\ missed[u] => missed'[u]
                      /\ Hit(u) => missed'[u]
  <2> HIDE DEF Hit
  <2> QED BY <1>1
<1>4. ASSUME NEW u, ~Hit(u) PROVE /\ Recording(u) => RecordingNext(u)
                                  /\ Asking(u) => AskingNext(u)
  BY <1>1, <1>4 DEF Recording, RecordingNext, Asking, AskingNext, AtTask, UserOf
<1>5. ASSUME NEW p \in profiles PROVE Beaten(p)'
  <2>1. p \in Profile /\ Owner[p] \in User
    BY ActiveNumbers
  <2>2. CASE Hit(Owner[p])
    BY <1>3, <2>1, <2>2, FitsExcused, BeatenAnew
  <2>3. CASE ~Hit(Owner[p])
    <3>1. \A j \in Isolate : beat'[j][p] = beat[j][p] \/ beat'[j][p] = PastBeat
      <4>1. beat \in [Isolate -> [Profile -> Ages(PastBeat)]]
        BY TypeParts DEF ActivityPart
      <4> QED BY <1>1, <2>1, <4>1
    <3> QED BY <1>1, <1>3, <1>4, <2>1, <2>3, <3>1, BeatenStays, PastTypes
  <2> QED BY <2>2, <2>3
<1>6. ASSUME NEW r \in Visit PROVE Sharing(r)'
  <2>1. CASE r \in tasks \/ AtTask(r, "none")
    <3>1. visit'[r].pc = "none"
      BY <1>1, <2>1, NoVisitType DEF AtTask
    <3> QED BY <3>1, NextSharing
  <2>2. CASE r \notin tasks /\ ~AtTask(r, "none")
    <3>1. UserOf(r) \in User /\ visit'[r] = visit[r]
      BY <1>1, <2>2, VisitTypes
    <3>2. CASE Hit(UserOf(r))
      BY <1>3, <3>1, <3>2, FitsExcused, SharingAnew DEF UserOf
    <3>3. CASE ~Hit(UserOf(r))
      BY <1>1, <1>3, <1>4, <3>1, <3>3, SharingStays
    <3> QED BY <3>2, <3>3
  <2> QED BY <2>1, <2>2
<1> QED BY <1>1, <1>2, <1>5, <1>6, NextActive

LEMMA EvictActive ==
    ASSUME TypeInv, ActiveInv, Evict
    PROVE  ActiveInv'
<1>1. /\ UNCHANGED <<plan, visit, beat, active, queried, missed, profiles>>
  BY DEF Evict, logs
<1>2. sharedBeat \in [Profile -> Ages(PastBeat)]
  BY TypeParts DEF ActivityPart
<1>3. \A p \in Profile : sharedBeat'[p] = sharedBeat[p] \/ sharedBeat'[p] = PastBeat
  BY <1>2 DEF Evict
<1>4. \A u : /\ Recording(u) => RecordingNext(u)
             /\ Asking(u) => AskingNext(u)
  BY <1>1 DEF Recording, RecordingNext, Asking, AskingNext, AtTask, UserOf
<1>5. ASSUME NEW p \in profiles PROVE Beaten(p)'
  BY <1>1, <1>3, <1>4, ActiveNumbers, BeatenStays, PastTypes
<1>6. \A q \in Visit : Sharing(q)'
  BY <1>1, <1>4, SharingStays
<1>7. Kin'
  BY <1>1, ActiveParts DEF Kin
<1> QED BY <1>1, <1>5, <1>6, <1>7, NextActive

LEMMA TickActive ==
    ASSUME TypeInv, ActiveInv, Tick
    PROVE  ActiveInv'
<1>1. UNCHANGED <<plan, profiles, missed>>
  BY DEF Tick, logs
<1>2. /\ \A u \in User : active'[u] = Older(active[u], PastActive)
      /\ \A u \in User : queried'[u] = Older(queried[u], PastActive)
      /\ \A p \in Profile : sharedBeat'[p] = Older(sharedBeat[p], PastBeat)
      /\ \A i \in Isolate, p \in Profile : beat'[i][p] = Older(beat[i][p], PastBeat)
  BY DEF Tick
<1>3. \A u : Recording(u) => RecordingNext(u)
  <2> TAKE u
  <2> HAVE Recording(u)
  <2>1. PICK r \in Visit : AtTask(r, "write") /\ UserOf(r) = u
    BY DEF Recording, RecordingNext, AtTask, UserOf
  <2>2. visit'[r].pc = "write" /\ visit'[r].of = visit[r].of
    BY <2>1, TickFacts DEF AtTask
  <2> QED BY <2>1, <2>2 DEF Recording, RecordingNext, AtTask, UserOf
<1>4. ASSUME NEW u \in User, NEW age \in Nat, Fits(u, age) PROVE FitsNext(u, age + 1)
  <2>1. active'[u] <= active[u] + 1 /\ active[u] \in Nat /\ active'[u] \in Nat
    BY <1>2, ActiveNumbers DEF Older, Smaller
  <2> QED BY <1>1, <1>3, <1>4, <2>1, Numbers DEF Fits, FitsNext
<1>5. ASSUME NEW p \in profiles PROVE Beaten(p)'
  <2> DEFINE u == Owner[p]
  <2>1. p \in Profile /\ u \in User /\ Beaten(p)
    BY ActiveNumbers, ActiveParts
  <2>2. ASSUME NEW i \in Isolate, beat'[i][p] < PastBeat PROVE FitsNext(u, beat'[i][p])
    <3>1. beat'[i][p] = beat[i][p] + 1 /\ beat[i][p] < PastBeat /\ beat[i][p] \in Nat
      BY <1>2, <2>1, <2>2, ActiveNumbers DEF Older, Smaller
    <3> QED BY <1>4, <2>1, <3>1 DEF Beaten
  <2>3. ASSUME sharedBeat'[p] < PastBeat PROVE FitsNext(u, sharedBeat'[p])
    <3>1. sharedBeat'[p] = sharedBeat[p] + 1 /\ sharedBeat[p] < PastBeat /\ sharedBeat[p] \in Nat
      BY <1>2, <2>1, <2>3, ActiveNumbers DEF Older, Smaller
    <3> QED BY <1>4, <2>1, <3>1 DEF Beaten
  <2>4. AskingNext(u) \/ FitsNext(u, queried'[u] + Active)
    <3>1. queried[u] \in Nat /\ active[u] \in Nat
      BY <2>1, ActiveNumbers
    <3>2. CASE Asking(u)
      <4>1. PICK r \in Visit : AtTask(r, "ask") /\ UserOf(r) = u /\ visit[r].age = queried[u]
        BY <3>2 DEF Asking, AskingNext, AtTask, UserOf
      <4>2. visit'[r].pc = "ask" /\ visit'[r].of = visit[r].of /\ visit'[r].age = visit[r].age + 1
        BY <4>1, TickFacts DEF AtTask
      <4>3. queried'[u] = queried[u] + 1
        BY <1>2, <2>1, <4>1, ActiveNumbers DEF Older, Smaller
      <4> QED BY <4>1, <4>2, <4>3 DEF Asking, AskingNext, AtTask, UserOf
    <3>3. CASE Fits(u, queried[u] + Active)
      <4>1. CASE queried'[u] = queried[u] + 1
        <5>1. FitsNext(u, queried[u] + Active + 1)
          BY <1>4, <2>1, <3>1, <3>3, Numbers
        <5> QED BY <3>1, <4>1, <5>1, Numbers DEF FitsNext
      <4>2. CASE queried'[u] # queried[u] + 1
        <5>1. queried'[u] = PastActive
          BY <1>2, <4>2, <2>1 DEF Older, Smaller
        <5>2. active'[u] <= PastActive /\ active'[u] \in Nat /\ PastActive \in Nat
          BY <1>2, <2>1, ActiveNumbers DEF Older, Smaller
        <5> QED BY <5>1, <5>2, Numbers DEF FitsNext
      <4> QED BY <4>1, <4>2
    <3> QED BY <2>1, <3>2, <3>3 DEF Beaten
  <2> QED BY <2>2, <2>3, <2>4, NextBeaten
<1>6. ASSUME NEW q \in Visit PROVE Sharing(q)'
  <2>1. CASE AtTask(q, "share") /\ visit[q].of \in profiles
    <3>1. /\ visit'[q].pc = "share" /\ visit'[q].of = visit[q].of
          /\ visit'[q].age = visit[q].age + 1 /\ visit[q].age \in Nat
          /\ UserOf(q) \in User
      BY <2>1, TickFacts, VisitTypes DEF AtTask
    <3>2. FitsNext(UserOf(q), visit'[q].age)
      BY <1>4, <2>1, <3>1, ActiveParts DEF Sharing
    <3> QED BY <3>1, <3>2, NextSharing DEF UserOf
  <2>2. CASE ~(AtTask(q, "share") /\ visit[q].of \in profiles)
    BY <1>1, <2>2, TickFacts, NextSharing DEF AtTask
  <2> QED BY <2>1, <2>2
<1>7. Kin'
  BY <1>1, ActiveParts DEF Kin
<1> QED BY <1>1, <1>5, <1>6, <1>7, NextActive

LEMMA StepActive == TypeInv /\ ActiveInv /\ [Next]_vars => ActiveInv'
<1> SUFFICES ASSUME TypeInv, ActiveInv, [Next]_vars PROVE ActiveInv'
  OBVIOUS
<1>0. TypeInv'
  BY StepTypes
<1>1. ASSUME UNCHANGED <<activity, profiles>>, plan'.rows = plan.rows PROVE ActiveInv'
  <2>1. Kin'
    BY <1>1, ActiveParts DEF Kin
  <2> QED BY <1>1, <2>1, OtherActive
<1>2. ASSUME NEW c \in Pass, Advance(c) \/ \E i \in Isolate : Begin(c, i) PROVE ActiveInv'
  <2>1. CASE Clear(c)
    BY <2>1, ClearActive
  <2>2. CASE ~Clear(c)
    <3>1. UNCHANGED <<activity, profiles, plan>>
      BY <1>2, <2>2
      DEF Advance, CleanUp, Retain, AskShared, AskStamp, Mark, Abandon, Persist, Select, Count,
          Delete, Save, Lists, Sync, Begin, logs
    <3> QED BY <1>1, <3>1
  <2> QED BY <2>1, <2>2
<1>3. ASSUME NEW q \in Visit, Work(q) PROVE ActiveInv'
  BY <1>0, <1>3, AskBeatActive, RecordActive, ShareActive DEF Work
<1>4. CASE Outdate \/ Midnight \/ (\E p \in Profile : Expire(p)) \/ UNCHANGED vars
  <2>1. UNCHANGED <<activity, profiles>>
    BY <1>4 DEF Outdate, Midnight, Expire, vars, logs
  <2>2. plan'.rows = plan.rows
    BY <1>4, PlanFacts DEF Midnight, vars
  <2> QED BY <1>1, <2>1, <2>2
<1> QED
  BY <1>0, <1>2, <1>3, <1>4, QueryActive, EndActive, EvictActive, TickActive DEF Next

(* Whose profile goes is silent. *)
LEMMA StepKept ==
    ASSUME TypeInv, ActiveInv, [Next]_vars, NEW p \in profiles \ profiles'
    PROVE  \/ queried[Owner[p]] > Quiet - Active - Delay
           \/ missed[Owner[p]]
           \/ \E q \in Visit : ~AtTask(q, "none") /\ UserOf(q) = Owner[p]
<1>1. PICK c \in Pass : Clear(c)
  <2>1. ASSUME NEW c \in Pass, Advance(c) \/ \E i \in Isolate : Begin(c, i), ~Clear(c)
        PROVE  FALSE
    BY <2>1
    DEF Advance, CleanUp, Retain, AskShared, AskStamp, Mark, Abandon, Persist, Select, Count,
        Delete, Save, Lists, Sync, Begin, logs
  <2>2. ASSUME NEW q \in Visit, Work(q) \/ \E i \in Isolate, r \in Profile : Query(q, i, r)
        PROVE  FALSE
    BY <2>2 DEF Work, AskBeat, Record, Share, Query, logs
  <2>3. CASE \/ \E i \in Isolate : End(i)
             \/ Evict \/ Outdate \/ Tick \/ Midnight
             \/ \E r \in Profile : Expire(r)
             \/ UNCHANGED vars
    BY <2>3 DEF End, Evict, Outdate, Tick, Midnight, Expire, vars, logs
  <2> QED BY <2>1, <2>2, <2>3 DEF Next
<1>2. active[Owner[p]] - run[c].age > Quiet
  BY <1>1 DEF Clear, Silent
<1>3. /\ Owner[p] \in User /\ active[Owner[p]] \in Nat /\ queried[Owner[p]] \in Nat
      /\ run[c].age \in Nat
  BY ActiveNumbers, AgeType
<1>4. Asking(Owner[p]) \/ Fits(Owner[p], queried[Owner[p]] + Active)
  BY ActiveParts DEF Beaten
<1>5. CASE active[Owner[p]] <= queried[Owner[p]] + Active + Delay
  BY <1>2, <1>3, <1>5, Numbers
<1> QED BY <1>4, <1>5 DEF Fits, Asking, AskingNext, Recording, RecordingNext, AtTask, UserOf

-----------------------------------------------------------------------------
(* The budget.                                                             *)

LEMMA LogNumbers ==
    ASSUME TypeInv
    PROVE  /\ \A d \in 0..1 : /\ spent[d] \in Nat
                              /\ lapses[d] \in Nat /\ lapses[d] <= MaxLapses
           /\ saved.n \in Nat /\ saved.date \in 0..2
           /\ \A c \in Pass : /\ run[c].per \in Nat /\ run[c].base \in Nat /\ run[c].gone \in Nat
                              /\ run[c].date \in {0, 1}
                              /\ Cardinality(run[c].todo) \in Nat
                              /\ Cardinality(run[c].todo) <= Cardinality(plan.rows)
           /\ Cardinality(plan.rows) \in Nat
<1>1. LogsPart /\ RunPart /\ PlanPart
  BY TypeParts
<1>2. IsFiniteSet(plan.rows) /\ Cardinality(plan.rows) \in Nat
  <2>1. plan.rows \subseteq Profile
    BY <1>1 DEF PlanPart, PlanType
  <2> QED BY <2>1, FiniteAssumption, FS_Subset, FS_CardinalityType
<1>3. \A c \in Pass : Cardinality(run[c].todo) <= Cardinality(plan.rows)
  <2> TAKE c \in Pass
  <2>1. run[c].todo \subseteq plan.rows
    BY <1>1 DEF RunPart, PassOK
  <2> QED BY <1>2, <2>1, FS_Subset
<1>4. \A c \in Pass : /\ run[c].per \in Nat /\ run[c].base \in Nat /\ run[c].gone \in Nat
                      /\ run[c].date \in {0, 1}
  BY <1>1 DEF RunPart, PassType
<1> QED BY <1>1, <1>2, <1>3, <1>4, TodoSize DEF LogsPart

LEMMA DayFacts ==
    ASSUME TypeInv, Budget > 0
    PROVE  /\ Day \in Nat /\ Budget <= Day
           /\ \A c \in Pass : Budget + Cardinality(run[c].todo) <= Day + 1
  BY LogNumbers, Numbers DEF Day, Larger

LEMMA SameDay ==
    ASSUME plan'.rows = plan.rows
    PROVE  Day' = Day
  BY DEF Day

LEMMA CostFacts ==
    ASSUME TypeInv, TypeInv', Budget > 0, plan'.rows = plan.rows
    PROVE  \A d \in 0..1 :
             /\ Cost(d) \in Nat /\ Cost(d)' \in Nat
             /\ lapses'[d] >= lapses[d] => Cost(d)' >= Cost(d)
             /\ lapses'[d] > lapses[d] => Cost(d)' >= Cost(d) + Day
<1> TAKE d \in 0..1
<1>1. lapses[d] \in Nat /\ lapses'[d] \in Nat
  BY DEF TypeInv, TypeOK
<1>2. Day \in Nat /\ Day' = Day
  BY DayFacts, SameDay
<1>3. ASSUME NEW x \in Nat, NEW y \in Nat, NEW n \in Nat
      PROVE  /\ x * n \in Nat /\ y * n \in Nat
             /\ y >= x => y * n >= x * n
             /\ y > x => y * n >= x * n + n
  <2>1. ASSUME y >= x PROVE y * n >= x * n
    <3>1. PICK k \in Nat : y = x + k
      BY <2>1
    <3>2. y * n = x * n + k * n /\ k * n \in Nat /\ x * n \in Nat
      BY <3>1
    <3> QED BY <3>2
  <2>2. ASSUME y > x PROVE y * n >= x * n + n
    <3>1. PICK k \in Nat : y = x + 1 + k
      <4>1. y - x - 1 \in Nat /\ y = x + 1 + (y - x - 1)
        BY <2>2
      <4> QED BY <4>1
    <3>2. y * n = x * n + n + k * n /\ k * n \in Nat /\ x * n \in Nat
      BY <3>1
    <3> QED BY <3>2
  <2> QED BY <2>1, <2>2
<1> QED BY <1>1, <1>2, <1>3 DEF Cost

(* What passes owe are numbers. *)
LEMMA DebtTypes ==
    ASSUME TypeInv, Budget > 0, WithinDay
    PROVE  /\ Today \in [Pass -> Nat] /\ Yesterday \in [Pass -> Nat]
           /\ \A c \in Pass : /\ Owed(c) \in Nat /\ Owed(c) <= Day
                              /\ OwedBefore(c) \in Nat /\ OwedBefore(c) <= Day
           /\ Total(Today, Pass) \in Nat /\ Total(Yesterday, Pass) \in Nat
           /\ \A c \in Pass : /\ Owed(c) <= Total(Today, Pass)
                              /\ OwedBefore(c) <= Total(Yesterday, Pass)
<1>1. ASSUME NEW c \in Pass
      PROVE  /\ Owed(c) \in Nat /\ Owed(c) <= Day
             /\ OwedBefore(c) \in Nat /\ OwedBefore(c) <= Day
  <2>1. Frugal(c)
    BY DEF WithinDay
  <2>2. /\ run[c].per * Cardinality(run[c].todo) \in Nat
        /\ run[c].base \in Nat /\ run[c].gone \in Nat
    BY LogNumbers, Multiply
  <2>3. Rest(c) \in Nat /\ Rest(c) <= Day
    BY <2>1, <2>2, DayFacts DEF Frugal, Rest, Deletes, At
  <2> QED BY <2>3, DayFacts DEF Owed, OwedBefore
<1>2. Today \in [Pass -> Nat] /\ Yesterday \in [Pass -> Nat]
  BY <1>1 DEF Today, Yesterday
<1>3. /\ Total(Today, Pass) \in Nat /\ Total(Yesterday, Pass) \in Nat
      /\ \A c \in Pass :
           /\ Total(Today, Pass) = Today[c] + Total(Today, Pass \ {c})
           /\ Total(Today, Pass \ {c}) \in Nat
           /\ Total(Yesterday, Pass) = Yesterday[c] + Total(Yesterday, Pass \ {c})
           /\ Total(Yesterday, Pass \ {c}) \in Nat
  BY <1>2, TotalSplit, FiniteAssumption
<1>4. \A c \in Pass : Today[c] = Owed(c) /\ Yesterday[c] = OwedBefore(c)
  BY DEF Today, Yesterday
<1>5. \A c \in Pass : /\ Owed(c) <= Total(Today, Pass)
                      /\ OwedBefore(c) <= Total(Yesterday, Pass)
  <2> TAKE c \in Pass
  <2>1. /\ Total(Today, Pass) = Owed(c) + Total(Today, Pass \ {c})
        /\ Total(Yesterday, Pass) = OwedBefore(c) + Total(Yesterday, Pass \ {c})
    BY <1>3, <1>4
  <2>2. /\ Total(Today, Pass \ {c}) \in Nat /\ Total(Yesterday, Pass \ {c}) \in Nat
        /\ Owed(c) \in Nat /\ OwedBefore(c) \in Nat
    BY <1>1, <1>3
  <2> QED BY <2>1, <2>2
<1> QED BY <1>1, <1>2, <1>3, <1>5

LEMMA NextDebtTypes ==
    ASSUME TypeInv, TypeInv', Budget > 0, WithinDay', plan'.rows = plan.rows
    PROVE  Today' \in [Pass -> Nat] /\ Yesterday' \in [Pass -> Nat]
<1>1. ASSUME NEW c \in Pass
      PROVE  Owed(c)' \in Nat /\ OwedBefore(c)' \in Nat
  <2>1. Frugal(c)'
    BY DEF WithinDay
  <2>2. run'[c].base \in Nat /\ run'[c].gone \in Nat /\ run'[c].per \in Nat
        /\ run'[c].todo \subseteq Profile
    BY DEF TypeInv, TypeOK
  <2>3. Cardinality(run'[c].todo) \in Nat
    BY <2>2, FiniteAssumption, FS_Subset, FS_CardinalityType
  <2>4. run'[c].per * Cardinality(run'[c].todo) \in Nat
    BY <2>2, <2>3, Multiply
  <2>5. Day' \in Nat
    BY DayFacts, SameDay
  <2>6. Rest(c)' \in Nat
    BY <2>1, <2>2, <2>4, <2>5 DEF Frugal, Rest, Deletes, At
  <2> QED BY <2>5, <2>6 DEF Owed, OwedBefore
<1> QED BY <1>1 DEF Today, Yesterday

(* The passes besides c. *)
OthersRetain(c, d) == \E b \in Pass \ {c} : Retains(b) /\ run[b].date = d
OthersDelete(c, d) == \E b \in Pass \ {c} : Deletes(b) /\ run[b].date = d

(* When one pass goes on, the debts change by what it owes. *)
LEMMA OnePassLedger ==
    ASSUME TypeInv, TypeInv', Budget > 0, WithinDay, WithinDay', plan'.rows = plan.rows,
           NEW c \in Pass, \A b \in Pass \ {c} : run'[b] = run[b]
    PROVE  /\ Total(Today, Pass) \in Nat /\ Total(Today, Pass)' \in Nat
           /\ Total(Today, Pass)' = Total(Today, Pass) - Owed(c) + Owed(c)'
           /\ Total(Yesterday, Pass) \in Nat /\ Total(Yesterday, Pass)' \in Nat
           /\ Total(Yesterday, Pass)' = Total(Yesterday, Pass) - OwedBefore(c) + OwedBefore(c)'
<1>1. /\ Today \in [Pass -> Nat] /\ Today' \in [Pass -> Nat]
      /\ Yesterday \in [Pass -> Nat] /\ Yesterday' \in [Pass -> Nat]
  BY DebtTypes, NextDebtTypes
<1>2. \A b \in Pass \ {c} : Today'[b] = Today[b] /\ Yesterday'[b] = Yesterday[b]
  BY SameDay DEF Today, Yesterday, Owed, OwedBefore, Retains, Rest, Deletes
<1>3. /\ Total(Today, Pass) \in Nat /\ Total(Today', Pass) \in Nat
      /\ Total(Today', Pass) = Total(Today, Pass) - Today[c] + Today'[c]
  BY <1>1, <1>2, TotalChange, FiniteAssumption
<1>4. /\ Total(Yesterday, Pass) \in Nat /\ Total(Yesterday', Pass) \in Nat
      /\ Total(Yesterday', Pass) = Total(Yesterday, Pass) - Yesterday[c] + Yesterday'[c]
  BY <1>1, <1>2, TotalChange, FiniteAssumption
<1>5. /\ Today[c] = Owed(c) /\ Today'[c] = Owed(c)'
      /\ Yesterday[c] = OwedBefore(c) /\ Yesterday'[c] = OwedBefore(c)'
  BY DEF Today, Yesterday
<1> QED BY <1>3, <1>4, <1>5

LEMMA OnePassDates ==
    ASSUME NEW c \in Pass, \A b \in Pass \ {c} : run'[b] = run[b], NEW d
    PROVE  /\ SomeRetain(d) <=> OthersRetain(c, d) \/ (Retains(c) /\ run[c].date = d)
           /\ SomeDelete(d) <=> OthersDelete(c, d) \/ (Deletes(c) /\ run[c].date = d)
           /\ SomeRetain(d)' <=> OthersRetain(c, d) \/ (Retains(c)' /\ run'[c].date = d)
           /\ SomeDelete(d)' <=> OthersDelete(c, d) \/ (Deletes(c)' /\ run'[c].date = d)
           /\ OthersDelete(c, d) => OthersRetain(c, d)
<1>1. Deletes(c) => Retains(c)
  BY DEF Deletes, Retains
<1>2. /\ SomeRetain(d) <=> OthersRetain(c, d) \/ (Retains(c) /\ run[c].date = d)
      /\ SomeDelete(d) <=> OthersDelete(c, d) \/ (Deletes(c) /\ run[c].date = d)
  BY DEF SomeRetain, SomeDelete, OthersRetain, OthersDelete
<1>3. \A b \in Pass \ {c} : /\ (Retains(b) /\ run[b].date = d) <=> (Retains(b)' /\ run'[b].date = d)
                            /\ (Deletes(b) /\ run[b].date = d) <=> (Deletes(b)' /\ run'[b].date = d)
  BY DEF Retains, Deletes
<1>4. /\ SomeRetain(d)' <=> OthersRetain(c, d) \/ (Retains(c)' /\ run'[c].date = d)
      /\ SomeDelete(d)' <=> OthersDelete(c, d) \/ (Deletes(c)' /\ run'[c].date = d)
  BY <1>3 DEF SomeRetain, SomeDelete, OthersRetain, OthersDelete
<1>5. OthersDelete(c, d) => OthersRetain(c, d)
  BY DEF OthersRetain, OthersDelete, Deletes, Retains
<1> QED BY <1>2, <1>4, <1>5

LEMMA OnePassWithin ==
    ASSUME TypeInv, WithinDay, plan'.rows = plan.rows, NEW c \in Pass,
           \A b \in Pass \ {c} : run'[b] = run[b], Frugal(c)', saved'.n <= Day
    PROVE  WithinDay'
<1>1. Day' = Day
  BY SameDay
<1>2. \A b \in Pass \ {c} : Frugal(b)'
  BY <1>1 DEF WithinDay, Frugal, At
<1> QED BY <1>1, <1>2 DEF WithinDay

(* Steps of which the books see nothing. *)
Stays(c) == \/ ~Retains(c) /\ ~Retains(c)' /\ Frugal(c)'
            \/ /\ run'[c].pc = run[c].pc /\ run'[c].date = run[c].date
               /\ run'[c].base = run[c].base /\ run'[c].gone = run[c].gone
               /\ run'[c].per = run[c].per /\ run'[c].todo = run[c].todo

LEMMA OtherBudget ==
    ASSUME TypeInv, TypeInv', Budget > 0, WithinDay, TodayInv, YesterdayInv,
           plan'.rows = plan.rows, UNCHANGED <<saved, spent, lapses>>, \A c \in Pass : Stays(c)
    PROVE  WithinDay' /\ TodayInv' /\ YesterdayInv'
<1>1. Day' = Day
  BY SameDay
<1>2. \A c \in Pass : Frugal(c)'
  BY <1>1 DEF WithinDay, Stays, Frugal, At
<1>3. WithinDay'
  BY <1>1, <1>2 DEF WithinDay
<1>4. \A c \in Pass : /\ Owed(c)' = Owed(c) /\ OwedBefore(c)' = OwedBefore(c)
                      /\ \A d : (Retains(c) /\ run[c].date = d) <=> (Retains(c)' /\ run'[c].date = d)
                      /\ \A d : (Deletes(c) /\ run[c].date = d) <=> (Deletes(c)' /\ run'[c].date = d)
  BY <1>1 DEF Stays, Owed, OwedBefore, Rest, Retains, Deletes
<1>5. Today' = Today /\ Yesterday' = Yesterday
  BY <1>4 DEF Today, Yesterday
<1>6. \A d : (SomeRetain(d)' <=> SomeRetain(d)) /\ (SomeDelete(d)' <=> SomeDelete(d))
  BY <1>4 DEF SomeRetain, SomeDelete
<1>7. Slack' = Slack /\ SlackBefore' = SlackBefore
  <2>1. Saved(0)' = Saved(0) /\ Saved(1)' = Saved(1)
    BY DEF Saved
  <2>2. /\ (SomeRetain(0)' <=> SomeRetain(0)) /\ (SomeRetain(1)' <=> SomeRetain(1))
        /\ (SomeDelete(0)' <=> SomeDelete(0)) /\ (SomeDelete(1)' <=> SomeDelete(1))
    BY <1>6
  <2> QED BY <1>1, <2>1, <2>2 DEF Slack, SlackBefore
<1>8. Cost(0)' = Cost(0) /\ Cost(1)' = Cost(1)
  BY <1>1 DEF Cost
<1>9. TodayInv'
  BY <1>5, <1>7, <1>8 DEF TodayInv
<1>10. YesterdayInv'
  <2>1. (SomeRetain(1)' <=> SomeRetain(1)) /\ lapses' = lapses /\ spent' = spent
    BY <1>6
  <2>2. Total(Yesterday, Pass)' = Total(Yesterday, Pass)
    BY <1>5
  <2>3. CASE SomeRetain(1)
    BY <1>7, <1>8, <2>1, <2>2, <2>3 DEF YesterdayInv
  <2>4. CASE ~SomeRetain(1)
    BY <1>1, <1>8, <2>1, <2>4 DEF YesterdayInv
  <2> QED BY <2>3, <2>4
<1> QED BY <1>3, <1>9, <1>10

(* A count that gets lost. *)
LEMMA OneLapse ==
    ASSUME TypeInv, NEW c \in Pass, Lapse(run[c].date)
    PROVE  /\ run[c].date \in {0, 1}
           /\ lapses'[0] # MaxLapses => lapses[0] # MaxLapses
           /\ lapses'[1] # MaxLapses => lapses[1] # MaxLapses
           /\ run[c].date = 0 => /\ lapses'[1] = lapses[1]
                                 /\ lapses'[0] = MaxLapses \/ lapses'[0] = lapses[0] + 1
           /\ run[c].date = 1 => /\ lapses'[0] = lapses[0]
                                 /\ lapses'[1] = MaxLapses \/ lapses'[1] = lapses[1] + 1
<1>1. LogsPart /\ run[c].date \in 0..1 /\ run[c].date \in {0, 1}
  BY TypeParts, DateType, LogNumbers
<1>2. \A e \in 0..1 : lapses'[e] \in Nat /\ lapses[e] \in Nat
  BY <1>1, LapseFacts DEF LogsPart
<1>3. /\ \A e \in 0..1 : lapses'[e] <= MaxLapses
      /\ \A e \in 0..1 : lapses[e] <= lapses'[e]
      /\ \A e \in 0..1 \ {run[c].date} : lapses'[e] = lapses[e]
      /\ \/ lapses'[run[c].date] = MaxLapses
         \/ lapses'[run[c].date] = lapses[run[c].date] + 1
  BY <1>1, LapseFacts
<1> QED BY <1>1, <1>2, <1>3, Numbers

(* A pass that leaves the clean-up before its count is saved costs the     *)
(* count of its day: so much more may have been spent.                     *)
LEMMA LapseBudget ==
    ASSUME TypeInv, TypeInv', Budget > 0, WithinDay, TodayInv, YesterdayInv,
           plan'.rows = plan.rows, UNCHANGED <<saved, spent>>, NEW c \in Pass,
           \A b \in Pass \ {c} : run'[b] = run[b], Retains(c), ~Retains(c)', Frugal(c)',
           Lapse(run[c].date)
    PROVE  WithinDay' /\ TodayInv' /\ YesterdayInv'
<1>1. Day' = Day /\ Day \in Nat
  BY SameDay, DayFacts
<1>2. WithinDay'
  BY OnePassWithin DEF WithinDay
<1>3. /\ Total(Today, Pass) \in Nat /\ Total(Today, Pass)' \in Nat
      /\ Total(Today, Pass)' = Total(Today, Pass) - Owed(c) + Owed(c)'
      /\ Total(Yesterday, Pass) \in Nat /\ Total(Yesterday, Pass)' \in Nat
      /\ Total(Yesterday, Pass)' = Total(Yesterday, Pass) - OwedBefore(c) + OwedBefore(c)'
  BY <1>2, OnePassLedger
<1>4. Owed(c)' = 0 /\ OwedBefore(c)' = 0 /\ Owed(c) \in Nat /\ OwedBefore(c) \in Nat
  BY DebtTypes DEF Owed, OwedBefore
<1>5. /\ Saved(0)' = Saved(0) /\ Saved(1)' = Saved(1)
      /\ Saved(0) \in Nat /\ Saved(1) \in Nat /\ Saved(0) <= Day /\ Saved(1) <= Day
      /\ spent[0] \in Nat /\ spent[1] \in Nat /\ spent' = spent
  BY LogNumbers, <1>1 DEF Saved, WithinDay
<1>6. /\ Cost(0) \in Nat /\ Cost(0)' \in Nat /\ Cost(1) \in Nat /\ Cost(1)' \in Nat
      /\ lapses'[0] = lapses[0] => Cost(0)' >= Cost(0)
      /\ lapses'[1] = lapses[1] => Cost(1)' >= Cost(1)
      /\ lapses'[0] = lapses[0] + 1 => Cost(0)' >= Cost(0) + Day
      /\ lapses'[1] = lapses[1] + 1 => Cost(1)' >= Cost(1) + Day
  <2>1. lapses[0] \in Nat /\ lapses[1] \in Nat
    BY LogNumbers
  <2> QED BY <2>1, CostFacts
<1>7. /\ run[c].date \in {0, 1}
      /\ lapses'[0] # MaxLapses => lapses[0] # MaxLapses
      /\ lapses'[1] # MaxLapses => lapses[1] # MaxLapses
      /\ run[c].date = 0 => /\ lapses'[1] = lapses[1]
                            /\ lapses'[0] = MaxLapses \/ lapses'[0] = lapses[0] + 1
      /\ run[c].date = 1 => /\ lapses'[0] = lapses[0]
                            /\ lapses'[1] = MaxLapses \/ lapses'[1] = lapses[1] + 1
  BY OneLapse
<1>8. /\ SomeRetain(0)' <=> OthersRetain(c, 0)
      /\ SomeRetain(1)' <=> OthersRetain(c, 1)
      /\ SomeDelete(0)' <=> OthersDelete(c, 0)
      /\ SomeDelete(1)' <=> OthersDelete(c, 1)
      /\ SomeRetain(0) <=> OthersRetain(c, 0) \/ run[c].date = 0
      /\ SomeRetain(1) <=> OthersRetain(c, 1) \/ run[c].date = 1
      /\ SomeDelete(0) <=> OthersDelete(c, 0) \/ (Deletes(c) /\ run[c].date = 0)
      /\ SomeDelete(1) <=> OthersDelete(c, 1) \/ (Deletes(c) /\ run[c].date = 1)
      /\ OthersDelete(c, 0) => OthersRetain(c, 0)
      /\ OthersDelete(c, 1) => OthersRetain(c, 1)
  <2>1. ~Deletes(c)'
    BY DEF Deletes, Retains
  <2> QED BY <2>1, OnePassDates
<1>9. TodayInv'
  BY <1>1, <1>3, <1>4, <1>5, <1>6, <1>7, <1>8 DEF TodayInv, Slack
<1>10. YesterdayInv'
  BY <1>1, <1>3, <1>4, <1>5, <1>6, <1>7, <1>8 DEF YesterdayInv, SlackBefore
<1> QED BY <1>2, <1>9, <1>10

(* A pass begins to count: if others are at it, both days may lose counts. *)
LEMMA SelectBudget ==
    ASSUME TypeInv, TypeInv', Budget > 0, WithinDay, TodayInv, YesterdayInv,
           NEW c \in Pass, Select(c)
    PROVE  WithinDay' /\ TodayInv' /\ YesterdayInv'
<1>0. /\ At(c, "select") /\ plan'.rows = plan.rows /\ UNCHANGED <<saved, spent>>
      /\ ~Retains(c) /\ ~Deletes(c)
  BY DEF Select, Retains, Deletes, At
<1>1. CASE Goto(c, "lists") /\ UNCHANGED lapses
  <2>1. \A b \in Pass : Stays(b)
    BY <1>0, <1>1, GotoFacts DEF Stays, Steps, Retains, Frugal, At
  <2> QED BY <1>0, <1>1, <2>1, OtherBudget
<1>2. CASE /\ run'[c].pc = "count" /\ run'[c].date = 0
           /\ \A d \in Pass \ {c} : run'[d] = run[d]
           /\ run'[c].gone = run[c].gone
           /\ lapses' = [d \in 0..1 |->
                    IF Retaining # {} /\ (d = 0 \/ \E b \in Retaining : run[b].date = d)
                    THEN Smaller(lapses[d] + 1, MaxLapses) ELSE lapses[d]]
  <2>1. Day' = Day /\ Day \in Nat
    BY <1>0, SameDay, DayFacts
  <2>2. WithinDay'
    <3>1. Frugal(c)'
      BY <1>0, <1>2 DEF WithinDay, Frugal, At
    <3> QED BY <1>0, <1>2, <3>1, OnePassWithin DEF WithinDay
  <2>3. /\ Total(Today, Pass) \in Nat /\ Total(Today, Pass)' \in Nat
        /\ Total(Today, Pass)' = Total(Today, Pass) - Owed(c) + Owed(c)'
        /\ Total(Yesterday, Pass) \in Nat /\ Total(Yesterday, Pass)' \in Nat
        /\ Total(Yesterday, Pass)' = Total(Yesterday, Pass) - OwedBefore(c) + OwedBefore(c)'
    BY <1>0, <1>2, <2>2, OnePassLedger
  <2>4. Owed(c)' = Day /\ OwedBefore(c)' = Day /\ Owed(c) = 0 /\ OwedBefore(c) = 0
    BY <1>0, <1>2, <2>1 DEF Owed, OwedBefore, Rest, Retains, Deletes
  <2>5. /\ Saved(0)' = Saved(0) /\ Saved(1)' = Saved(1)
        /\ Saved(0) \in Nat /\ Saved(1) \in Nat /\ Saved(0) <= Day /\ Saved(1) <= Day
        /\ spent[0] \in Nat /\ spent[1] \in Nat /\ spent' = spent
    BY <1>0, LogNumbers, <2>1 DEF Saved, WithinDay
  <2>6. /\ SomeRetain(0)'
        /\ SomeRetain(0) <=> OthersRetain(c, 0)
        /\ SomeRetain(1)' <=> OthersRetain(c, 1)
        /\ SomeRetain(1) <=> OthersRetain(c, 1)
        /\ SomeDelete(0)' <=> OthersDelete(c, 0)
        /\ SomeDelete(1)' <=> OthersDelete(c, 1)
        /\ SomeDelete(0) <=> OthersDelete(c, 0)
        /\ SomeDelete(1) <=> OthersDelete(c, 1)
        /\ OthersDelete(c, 0) => OthersRetain(c, 0)
        /\ OthersDelete(c, 1) => OthersRetain(c, 1)
    <3>1. ~Deletes(c)' /\ Retains(c)'
      BY <1>2 DEF Deletes, Retains
    <3> QED BY <1>0, <1>2, <3>1, OnePassDates
  <2>7. /\ (SomeRetain(0) \/ SomeRetain(1)) <=> Retaining # {}
        /\ SomeRetain(1) <=> \E b \in Retaining : run[b].date = 1
    BY LogNumbers DEF SomeRetain, Retains, Retaining, At
  <2>8. /\ lapses[0] \in Nat /\ lapses[1] \in Nat
        /\ lapses[0] <= MaxLapses /\ lapses[1] <= MaxLapses
    BY LogNumbers
  <2>9. /\ SomeRetain(0) \/ SomeRetain(1) => lapses'[0] = Smaller(lapses[0] + 1, MaxLapses)
        /\ ~(SomeRetain(0) \/ SomeRetain(1)) => lapses'[0] = lapses[0]
        /\ SomeRetain(1) => lapses'[1] = Smaller(lapses[1] + 1, MaxLapses)
        /\ ~SomeRetain(1) => lapses'[1] = lapses[1]
    <3>1. 0 \in 0..1 /\ 1 \in 0..1
      OBVIOUS
    <3> QED BY <1>2, <2>7, <3>1
  <2>10. /\ lapses'[0] # MaxLapses => lapses[0] # MaxLapses
         /\ lapses'[1] # MaxLapses => lapses[1] # MaxLapses
         /\ lapses'[0] # MaxLapses /\ (SomeRetain(0) \/ SomeRetain(1))
              => lapses'[0] = lapses[0] + 1
         /\ lapses'[1] # MaxLapses /\ SomeRetain(1) => lapses'[1] = lapses[1] + 1
    BY <2>8, <2>9, Numbers DEF Smaller
  <2>11. /\ Cost(0) \in Nat /\ Cost(0)' \in Nat /\ Cost(1) \in Nat /\ Cost(1)' \in Nat
         /\ lapses'[0] = lapses[0] => Cost(0)' >= Cost(0)
         /\ lapses'[1] = lapses[1] => Cost(1)' >= Cost(1)
         /\ lapses'[0] = lapses[0] + 1 => Cost(0)' >= Cost(0) + Day
         /\ lapses'[1] = lapses[1] + 1 => Cost(1)' >= Cost(1) + Day
    BY <1>0, <2>8, CostFacts
  <2>12. TodayInv'
    BY <2>1, <2>3, <2>4, <2>5, <2>6, <2>9, <2>10, <2>11 DEF TodayInv, Slack
  <2>13. YesterdayInv'
    BY <2>1, <2>3, <2>4, <2>5, <2>6, <2>9, <2>10, <2>11 DEF YesterdayInv, SlackBefore
  <2> QED BY <2>2, <2>12, <2>13
<1> QED BY <1>1, <1>2, SelectFacts

(* What a pass reads of the count, it takes over from what is saved. *)
LEMMA CountBudget ==
    ASSUME TypeInv, TypeInv', Budget > 0, WithinDay, TodayInv, YesterdayInv,
           NEW c \in Pass, Count(c)
    PROVE  WithinDay' /\ TodayInv' /\ YesterdayInv'
<1>0. /\ At(c, "count") /\ plan'.rows = plan.rows /\ UNCHANGED <<saved, spent>>
      /\ Retains(c) /\ ~Deletes(c) /\ run[c].gone = 0 /\ run[c].todo # {}
  <2>1. PassOK(c) /\ Frugal(c)
    BY TypeParts DEF RunPart, WithinDay
  <2> QED BY <2>1 DEF Count, Retains, Deletes, At, PassOK, Frugal
<1>1. PICK base \in Nat :
             /\ \/ /\ base = IF saved.date = run[c].date THEN saved.n ELSE 0
                   /\ UNCHANGED lapses
                \/ base = 0 /\ Lapse(run[c].date)
             /\ run'[c].pc = IF Limit(base) = 0 THEN "lists" ELSE "delete"
             /\ run'[c].base = base
             /\ run'[c].per = PerProfile(base, Cardinality(run[c].todo))
             /\ run'[c].todo = run[c].todo
             /\ run'[c].date = run[c].date /\ run'[c].gone = run[c].gone
             /\ \A d \in Pass \ {c} : run'[d] = run[d]
  BY CountFacts
<1>2. Day' = Day /\ Day \in Nat
  BY <1>0, SameDay, DayFacts
<1>3. Limit(base) # 0 => base + PerProfile(base, Cardinality(run[c].todo))
                                  * Cardinality(run[c].todo) <= Day
  <2> DEFINE n == Cardinality(run[c].todo)
             all == PerProfile(base, n) * n
  <2>1. n \in Nat /\ n # 0
    BY <1>0, TodoSize
  <2>2. PerProfile(base, n) \in Nat /\ all <= Larger(n, Limit(base)) /\ all \in Nat
    BY <2>1, ShareFacts, Multiply
  <2>3. Budget + n <= Day + 1 /\ Budget <= Day
    BY DayFacts
  <2>4. /\ Limit(base) \in Nat
        /\ Limit(base) # 0 => base < Budget /\ Limit(base) <= Budget - base
    BY RemainingType
  <2> HIDE DEF n, all
  <2>5. Limit(base) # 0 => base + all <= Day
    BY <1>2, <2>1, <2>2, <2>3, <2>4, Numbers DEF Larger
  <2> QED BY <2>5 DEF n, all
<1>4. Frugal(c)'
  <2>1. PerProfile(base, Cardinality(run[c].todo)) * Cardinality(run[c].todo) \in Nat
    BY <1>0, ShareFacts, TodoSize, Multiply
  <2>2. CASE Limit(base) = 0
    <3>1. run'[c].pc = "lists"
      BY <1>1, <2>2
    <3> QED BY <3>1 DEF Frugal, At
  <2>3. CASE Limit(base) # 0
    <3>1. /\ run'[c].pc = "delete" /\ run'[c].gone = 0
          /\ base + 0 + run'[c].per * Cardinality(run'[c].todo) <= Day
      BY <1>0, <1>1, <1>3, <2>1, <2>3
    <3> QED BY <1>1, <1>2, <3>1 DEF Frugal, At
  <2> QED BY <2>2, <2>3
<1>5. WithinDay'
  BY <1>0, <1>1, <1>4, OnePassWithin DEF WithinDay
<1>6. /\ Total(Today, Pass) \in Nat /\ Total(Today, Pass)' \in Nat
      /\ Total(Today, Pass)' = Total(Today, Pass) - Owed(c) + Owed(c)'
      /\ Total(Yesterday, Pass) \in Nat /\ Total(Yesterday, Pass)' \in Nat
      /\ Total(Yesterday, Pass)' = Total(Yesterday, Pass) - OwedBefore(c) + OwedBefore(c)'
  BY <1>0, <1>1, <1>5, OnePassLedger
<1>7. /\ run[c].date \in {0, 1} /\ base <= Day
      /\ Owed(c) = IF run[c].date = 0 THEN Day ELSE 0
      /\ OwedBefore(c) = Day
      /\ Retains(c)' <=> Limit(base) # 0
      /\ Deletes(c)' <=> Limit(base) # 0
      /\ Owed(c)' = IF run[c].date = 0 /\ Limit(base) # 0 THEN Day - base ELSE 0
      /\ OwedBefore(c)' = IF Limit(base) = 0 THEN 0
                          ELSE IF run[c].date = 1 THEN Day - base ELSE Day
  <2>1. run[c].date \in {0, 1} /\ saved.n \in Nat /\ saved.n <= Day
    BY LogNumbers DEF WithinDay
  <2>2. base <= Day
    BY <1>1, <1>2, <2>1
  <2>3. /\ Owed(c) = IF run[c].date = 0 THEN Day ELSE 0
        /\ OwedBefore(c) = Day
    BY <1>0, <2>1 DEF Owed, OwedBefore, Rest
  <2>4. /\ Retains(c)' <=> Limit(base) # 0
        /\ Deletes(c)' <=> Limit(base) # 0
    BY <1>1 DEF Retains, Deletes
  <2>5. Limit(base) # 0 => Rest(c)' = Day - base
    BY <1>0, <1>1, <1>2, <2>4 DEF Rest
  <2>6. /\ Owed(c)' = IF run[c].date = 0 /\ Limit(base) # 0 THEN Day - base ELSE 0
        /\ OwedBefore(c)' = IF Limit(base) = 0 THEN 0
                            ELSE IF run[c].date = 1 THEN Day - base ELSE Day
    BY <1>1, <1>2, <2>1, <2>4, <2>5 DEF Owed, OwedBefore
  <2> QED BY <2>1, <2>2, <2>3, <2>4, <2>6
<1>8. /\ Saved(0)' = Saved(0) /\ Saved(1)' = Saved(1)
      /\ Saved(0) \in Nat /\ Saved(1) \in Nat /\ Saved(0) <= Day /\ Saved(1) <= Day
      /\ spent[0] \in Nat /\ spent[1] \in Nat /\ spent' = spent
  BY <1>0, <1>2, LogNumbers DEF Saved, WithinDay
<1>9. /\ SomeRetain(0)' <=> OthersRetain(c, 0) \/ (Limit(base) # 0 /\ run[c].date = 0)
      /\ SomeRetain(1)' <=> OthersRetain(c, 1) \/ (Limit(base) # 0 /\ run[c].date = 1)
      /\ SomeDelete(0)' <=> OthersDelete(c, 0) \/ (Limit(base) # 0 /\ run[c].date = 0)
      /\ SomeDelete(1)' <=> OthersDelete(c, 1) \/ (Limit(base) # 0 /\ run[c].date = 1)
      /\ SomeRetain(0) <=> OthersRetain(c, 0) \/ run[c].date = 0
      /\ SomeRetain(1) <=> OthersRetain(c, 1) \/ run[c].date = 1
      /\ SomeDelete(0) <=> OthersDelete(c, 0)
      /\ SomeDelete(1) <=> OthersDelete(c, 1)
      /\ OthersDelete(c, 0) => OthersRetain(c, 0)
      /\ OthersDelete(c, 1) => OthersRetain(c, 1)
  BY <1>0, <1>1, <1>7, OnePassDates
<1>10. /\ Cost(0) \in Nat /\ Cost(0)' \in Nat /\ Cost(1) \in Nat /\ Cost(1)' \in Nat
       /\ lapses'[0] = lapses[0] => Cost(0)' >= Cost(0)
       /\ lapses'[1] = lapses[1] => Cost(1)' >= Cost(1)
       /\ lapses'[0] = lapses[0] + 1 => Cost(0)' >= Cost(0) + Day
       /\ lapses'[1] = lapses[1] + 1 => Cost(1)' >= Cost(1) + Day
  <2>1. lapses[0] \in Nat /\ lapses[1] \in Nat
    BY LogNumbers
  <2> QED BY <1>0, <2>1, CostFacts
<1>11. CASE base = (IF saved.date = run[c].date THEN saved.n ELSE 0) /\ UNCHANGED lapses
  <2>1. (run[c].date = 0 => base = Saved(0)) /\ (run[c].date = 1 => base = Saved(1))
    BY <1>11 DEF Saved
  <2>2. lapses'[0] = lapses[0] /\ lapses'[1] = lapses[1]
    BY <1>11
  <2>3. TodayInv'
    BY <1>2, <1>6, <1>7, <1>8, <1>9, <1>10, <2>1, <2>2 DEF TodayInv, Slack
  <2>4. YesterdayInv'
    BY <1>2, <1>6, <1>7, <1>8, <1>9, <1>10, <2>1, <2>2 DEF YesterdayInv, SlackBefore
  <2> QED BY <1>5, <2>3, <2>4
<1>12. CASE base = 0 /\ Lapse(run[c].date)
  <2>1. /\ lapses'[0] # MaxLapses => lapses[0] # MaxLapses
        /\ lapses'[1] # MaxLapses => lapses[1] # MaxLapses
        /\ run[c].date = 0 => /\ lapses'[1] = lapses[1]
                              /\ lapses'[0] = MaxLapses \/ lapses'[0] = lapses[0] + 1
        /\ run[c].date = 1 => /\ lapses'[0] = lapses[0]
                              /\ lapses'[1] = MaxLapses \/ lapses'[1] = lapses[1] + 1
    BY <1>12, OneLapse
  <2>3. TodayInv'
    BY <1>2, <1>6, <1>7, <1>8, <1>9, <1>10, <1>12, <2>1 DEF TodayInv, Slack
  <2>4. YesterdayInv'
    BY <1>2, <1>6, <1>7, <1>8, <1>9, <1>10, <1>12, <2>1 DEF YesterdayInv, SlackBefore
  <2> QED BY <1>5, <2>3, <2>4
<1> QED BY <1>1, <1>11, <1>12

(* What is deleted is no longer owed. *)
LEMMA DeleteBudget ==
    ASSUME TypeInv, TypeInv', Budget > 0, WithinDay, TodayInv, YesterdayInv,
           NEW c \in Pass, Delete(c)
    PROVE  WithinDay' /\ TodayInv' /\ YesterdayInv'
<1>0. /\ At(c, "delete") /\ plan'.rows = plan.rows /\ UNCHANGED saved
      /\ Retains(c) /\ Deletes(c)
  BY DEF Delete, Retains, Deletes, At
<1>1. CASE Lapse(run[c].date) /\ Goto(c, "lists") /\ UNCHANGED spent
  <2>1. ~Retains(c)' /\ Frugal(c)' /\ \A b \in Pass \ {c} : run'[b] = run[b]
    BY <1>1, GotoFacts DEF Steps, Retains, Frugal, At
  <2> QED BY <1>0, <1>1, <2>1, LapseBudget
<1>2. ASSUME NEW t \in Nat, NEW left \in SUBSET run[c].todo,
             t + run[c].per * Cardinality(left) <= run[c].per * Cardinality(run[c].todo),
             spent' = [spent EXCEPT ![run[c].date] = @ + t],
             run'[c].todo = left, run'[c].gone = run[c].gone + t,
             run'[c].pc = IF left # {} THEN "delete" ELSE "save",
             run'[c].date = run[c].date, run'[c].per = run[c].per,
             run'[c].base = run[c].base,
             \A d \in Pass \ {c} : run'[d] = run[d], UNCHANGED lapses
      PROVE  WithinDay' /\ TodayInv' /\ YesterdayInv'
  <2>1. Day' = Day /\ Day \in Nat
    BY <1>0, SameDay, DayFacts
  <2>2. /\ run[c].base \in Nat /\ run[c].gone \in Nat /\ run[c].per \in Nat
        /\ run[c].date \in {0, 1} /\ run[c].per * Cardinality(left) \in Nat
        /\ run[c].per * Cardinality(run[c].todo) \in Nat
        /\ run[c].base + run[c].gone + run[c].per * Cardinality(run[c].todo) <= Day
    <3>1. Cardinality(left) \in Nat
      BY TodoSize, FS_Subset, FS_CardinalityType
    <3>2. Frugal(c)
      BY DEF WithinDay
    <3> QED BY <1>0, <3>1, <3>2, LogNumbers, Multiply DEF Frugal
  <2>3. run[c].base + (run[c].gone + t) + run[c].per * Cardinality(left) <= Day
        /\ run[c].base + (run[c].gone + t) <= Day
    BY <1>2, <2>1, <2>2
  <2>4. Frugal(c)'
    BY <1>2, <2>1, <2>3 DEF Frugal, At
  <2>5. WithinDay'
    BY <1>0, <1>2, <2>4, OnePassWithin DEF WithinDay
  <2>6. /\ Total(Today, Pass) \in Nat /\ Total(Today, Pass)' \in Nat
        /\ Total(Today, Pass)' = Total(Today, Pass) - Owed(c) + Owed(c)'
        /\ Total(Yesterday, Pass) \in Nat /\ Total(Yesterday, Pass)' \in Nat
        /\ Total(Yesterday, Pass)' = Total(Yesterday, Pass) - OwedBefore(c) + OwedBefore(c)'
    BY <1>0, <1>2, <2>5, OnePassLedger
  <2>7. Retains(c)' /\ Deletes(c)' /\ Rest(c)' = Rest(c) - t
        /\ Rest(c) = Day - (run[c].base + run[c].gone)
    BY <1>0, <1>2, <2>1, <2>2 DEF Retains, Deletes, Rest
  <2>8. /\ Owed(c)' = Owed(c) - (IF run[c].date = 0 THEN t ELSE 0)
        /\ OwedBefore(c)' = OwedBefore(c) - (IF run[c].date = 1 THEN t ELSE 0)
        /\ Owed(c) \in Nat /\ OwedBefore(c) \in Nat
    BY <1>0, <1>2, <2>1, <2>2, <2>7, DebtTypes DEF Owed, OwedBefore
  <2>9. /\ Saved(0)' = Saved(0) /\ Saved(1)' = Saved(1) /\ Saved(0) \in Nat /\ Saved(1) \in Nat
        /\ spent[0] \in Nat /\ spent[1] \in Nat
        /\ spent'[0] = spent[0] + (IF run[c].date = 0 THEN t ELSE 0)
        /\ spent'[1] = spent[1] + (IF run[c].date = 1 THEN t ELSE 0)
    <3>1. spent \in [0..1 -> Nat]
      BY TypeParts DEF LogsPart
    <3> QED BY <1>0, <1>2, <2>2, <3>1, LogNumbers DEF Saved
  <2>10. /\ SomeRetain(0)' <=> SomeRetain(0)
         /\ SomeRetain(1)' <=> SomeRetain(1)
         /\ SomeDelete(0)' <=> SomeDelete(0)
         /\ SomeDelete(1)' <=> SomeDelete(1)
         /\ run[c].date = 1 => SomeRetain(1)
    BY <1>0, <1>2, <2>7, OnePassDates
  <2>11. /\ Cost(0) \in Nat /\ Cost(0)' = Cost(0) /\ Cost(1) \in Nat /\ Cost(1)' = Cost(1)
         /\ lapses' = lapses
    BY <1>0, <1>2, <2>1, CostFacts DEF Cost
  <2>12. TodayInv'
    BY <2>1, <2>2, <2>6, <2>8, <2>9, <2>10, <2>11 DEF TodayInv, Slack
  <2>13. YesterdayInv'
    BY <2>1, <2>2, <2>6, <2>8, <2>9, <2>10, <2>11 DEF YesterdayInv, SlackBefore
  <2> QED BY <2>5, <2>12, <2>13
<1> QED BY <1>1, <1>2, DeleteFacts

(* What is saved overwrites what others saved: their Day is owed. *)
LEMMA SaveBudget ==
    ASSUME TypeInv, TypeInv', Budget > 0, WithinDay, TodayInv, YesterdayInv,
           NEW c \in Pass, Save(c)
    PROVE  WithinDay' /\ TodayInv' /\ YesterdayInv'
<1>0. /\ At(c, "save") /\ plan'.rows = plan.rows /\ UNCHANGED spent /\ Goto(c, "lists")
      /\ Retains(c) /\ Deletes(c)
  BY DEF Save, Retains, Deletes, At
<1>1. ~Retains(c)' /\ ~Deletes(c)' /\ Frugal(c)' /\ \A b \in Pass \ {c} : run'[b] = run[b]
  BY <1>0, GotoFacts DEF Steps, Retains, Deletes, Frugal, At
<1>2. CASE Lapse(run[c].date) /\ UNCHANGED saved
  BY <1>0, <1>1, <1>2, LapseBudget
<1>3. CASE saved' = [date |-> run[c].date, n |-> run[c].base + run[c].gone] /\ UNCHANGED lapses
  <2> DEFINE w == run[c].base + run[c].gone
  <2>1. Day' = Day /\ Day \in Nat /\ w \in Nat /\ w <= Day
    <3>1. Frugal(c)
      BY DEF WithinDay
    <3> QED BY <1>0, <3>1, SameDay, DayFacts, LogNumbers DEF Frugal
  <2>2. WithinDay'
    BY <1>0, <1>1, <1>3, <2>1, OnePassWithin
  <2>3. /\ Total(Today, Pass) \in Nat /\ Total(Today, Pass)' \in Nat
        /\ Total(Today, Pass)' = Total(Today, Pass) - Owed(c) + Owed(c)'
        /\ Total(Yesterday, Pass) \in Nat /\ Total(Yesterday, Pass)' \in Nat
        /\ Total(Yesterday, Pass)' = Total(Yesterday, Pass) - OwedBefore(c) + OwedBefore(c)'
    BY <1>0, <1>1, <2>2, OnePassLedger
  <2>4. /\ run[c].date \in {0, 1}
        /\ Owed(c) = IF run[c].date = 0 THEN Day - w ELSE 0
        /\ OwedBefore(c) = IF run[c].date = 1 THEN Day - w ELSE Day
        /\ Owed(c)' = 0 /\ OwedBefore(c)' = 0
    BY <1>0, <1>1, LogNumbers DEF Owed, OwedBefore, Rest
  <2>5. /\ Saved(0)' = IF run[c].date = 0 THEN w ELSE 0
        /\ Saved(1)' = IF run[c].date = 1 THEN w ELSE 0
        /\ Saved(0) \in Nat /\ Saved(1) \in Nat /\ Saved(0) <= Day /\ Saved(1) <= Day
        /\ spent[0] \in Nat /\ spent[1] \in Nat /\ spent' = spent
    <3>1. saved'.date = run[c].date /\ saved'.n = w
      BY <1>3
    <3>2. saved.n \in Nat /\ saved.n <= Day /\ spent[0] \in Nat /\ spent[1] \in Nat
      BY LogNumbers DEF WithinDay
    <3> QED BY <1>0, <2>1, <2>4, <3>1, <3>2 DEF Saved
  <2>6. /\ SomeRetain(0)' <=> OthersRetain(c, 0)
        /\ SomeRetain(1)' <=> OthersRetain(c, 1)
        /\ SomeDelete(0)' <=> OthersDelete(c, 0)
        /\ SomeDelete(1)' <=> OthersDelete(c, 1)
        /\ SomeRetain(0) <=> OthersRetain(c, 0) \/ run[c].date = 0
        /\ SomeRetain(1) <=> OthersRetain(c, 1) \/ run[c].date = 1
        /\ SomeDelete(0) <=> OthersDelete(c, 0) \/ run[c].date = 0
        /\ SomeDelete(1) <=> OthersDelete(c, 1) \/ run[c].date = 1
        /\ OthersDelete(c, 0) => OthersRetain(c, 0)
        /\ OthersDelete(c, 1) => OthersRetain(c, 1)
    BY <1>0, <1>1, OnePassDates
  <2>7. /\ Cost(0) \in Nat /\ Cost(0)' = Cost(0) /\ Cost(1) \in Nat /\ Cost(1)' = Cost(1)
        /\ lapses' = lapses
    BY <1>0, <1>3, <2>1, CostFacts DEF Cost
  <2> HIDE DEF w
  <2>8. TodayInv'
    BY <2>1, <2>3, <2>4, <2>5, <2>6, <2>7 DEF TodayInv, Slack
  <2>9. YesterdayInv'
    BY <2>1, <2>3, <2>4, <2>5, <2>6, <2>7 DEF YesterdayInv, SlackBefore
  <2> QED BY <2>2, <2>8, <2>9
<1> QED BY <1>2, <1>3 DEF Save

(* Who is ended owes nothing; the count of its day lapses. *)
LEMMA EndBudget ==
    ASSUME TypeInv, TypeInv', Budget > 0, WithinDay, TodayInv, YesterdayInv,
           NEW i \in Isolate, End(i)
    PROVE  WithinDay' /\ TodayInv' /\ YesterdayInv'
<1> DEFINE here == {c \in Pass : run[c].at = i}
           ended(d) == {c \in here \cap Retaining : run[c].date = d}
<1>0. /\ plan'.rows = plan.rows /\ UNCHANGED <<saved, spent>>
      /\ run' = [c \in Pass |-> IF c \in here THEN NoPass ELSE run[c]]
      /\ lapses' = [d \in 0..1 |-> Smaller(MaxLapses, lapses[d] + Cardinality(ended(d)))]
  BY DEF End
<1>1. Day' = Day /\ Day \in Nat
  BY <1>0, SameDay, DayFacts
<1>2. \A c \in Pass : /\ c \notin here => run'[c] = run[c]
                      /\ c \in here => run'[c].pc = "none" /\ run'[c].gone = 0
  BY <1>0 DEF NoPass
<1>3. WithinDay'
  <2>1. \A c \in Pass : Frugal(c)'
    BY <1>1, <1>2 DEF WithinDay, Frugal, At
  <2> QED BY <1>0, <1>1, <2>1 DEF WithinDay
<1>4. /\ Total(Today, Pass) \in Nat /\ Total(Today, Pass)' \in Nat
      /\ Total(Today, Pass)' <= Total(Today, Pass)
      /\ Total(Yesterday, Pass) \in Nat /\ Total(Yesterday, Pass)' \in Nat
      /\ Total(Yesterday, Pass)' <= Total(Yesterday, Pass)
  <2>1. /\ Today \in [Pass -> Nat] /\ Today' \in [Pass -> Nat]
        /\ Yesterday \in [Pass -> Nat] /\ Yesterday' \in [Pass -> Nat]
    BY <1>0, <1>3, DebtTypes, NextDebtTypes
  <2>2. \A c \in Pass : /\ Owed(c)' = Owed(c) \/ Owed(c)' = 0
                        /\ OwedBefore(c)' = OwedBefore(c) \/ OwedBefore(c)' = 0
    BY <1>1, <1>2 DEF Owed, OwedBefore, Rest, Retains, Deletes
  <2>3. \A c \in Pass : /\ Today[c] = Owed(c) /\ Today'[c] = Owed(c)'
                        /\ Yesterday[c] = OwedBefore(c) /\ Yesterday'[c] = OwedBefore(c)'
    BY DEF Today, Yesterday
  <2>4. \A c \in Pass : Today'[c] <= Today[c] /\ Yesterday'[c] <= Yesterday[c]
    <3>1. \A c \in Pass : Owed(c) \in Nat /\ OwedBefore(c) \in Nat
      BY DebtTypes
    <3> QED BY <2>2, <2>3, <3>1
  <2>5. Total(Today', Pass) <= Total(Today, Pass)
    BY <2>1, <2>4, TotalMonotone, FiniteAssumption
  <2>6. Total(Yesterday', Pass) <= Total(Yesterday, Pass)
    BY <2>1, <2>4, TotalMonotone, FiniteAssumption
  <2>7. /\ Total(Today, Pass) \in Nat /\ Total(Today', Pass) \in Nat
        /\ Total(Yesterday, Pass) \in Nat /\ Total(Yesterday', Pass) \in Nat
    BY <2>1, TotalSplit, FiniteAssumption
  <2> QED BY <2>5, <2>6, <2>7
<1>5. /\ Saved(0)' = Saved(0) /\ Saved(1)' = Saved(1)
      /\ Saved(0) \in Nat /\ Saved(1) \in Nat /\ Saved(0) <= Day /\ Saved(1) <= Day
      /\ spent[0] \in Nat /\ spent[1] \in Nat /\ spent' = spent
  BY <1>0, <1>1, LogNumbers DEF Saved, WithinDay
<1>6. ASSUME NEW d \in 0..1
      PROVE  /\ SomeRetain(d)' => SomeRetain(d)
             /\ SomeDelete(d)' => SomeDelete(d)
             /\ SomeDelete(d)' => SomeRetain(d)'
             /\ lapses'[d] # MaxLapses => lapses[d] # MaxLapses
             /\ \/ /\ lapses'[d] = lapses[d]
                   /\ SomeRetain(d) => SomeRetain(d)'
                   /\ SomeDelete(d) => SomeDelete(d)'
                \/ lapses'[d] = MaxLapses
                \/ lapses'[d] > lapses[d]
  <2>1. /\ \A c \in Pass : Retains(c)' => Retains(c) /\ run'[c] = run[c]
        /\ \A c \in Pass : Deletes(c)' => Deletes(c) /\ run'[c] = run[c]
        /\ \A c \in Pass : Deletes(c)' => Retains(c)'
    BY <1>2 DEF Retains, Deletes
  <2>2. /\ SomeRetain(d)' => SomeRetain(d)
        /\ SomeDelete(d)' => SomeDelete(d)
        /\ SomeDelete(d)' => SomeRetain(d)'
    BY <2>1 DEF SomeRetain, SomeDelete
  <2> DEFINE n == Cardinality(ended(d))
  <2>3. /\ IsFiniteSet(ended(d)) /\ n \in Nat /\ (n = 0 <=> ended(d) = {})
    <3>1. ended(d) \in SUBSET Pass
      OBVIOUS
    <3> HIDE DEF ended
    <3> QED BY <3>1, FiniteAssumption, FS_Subset, FS_CardinalityType, FS_EmptySet
  <2>4. lapses'[d] = Smaller(MaxLapses, lapses[d] + n)
    BY <1>0
  <2>5. lapses[d] \in Nat /\ lapses[d] <= MaxLapses
    BY LogNumbers
  <2>6. CASE n = 0
    <3>1. lapses'[d] = lapses[d]
      BY <2>4, <2>5, <2>6, Numbers DEF Smaller
    <3>2. \A c \in Pass : Retains(c) /\ run[c].date = d => run'[c] = run[c]
      BY <1>2, <2>3, <2>6 DEF Retains, Retaining, At
    <3>3. (SomeRetain(d) => SomeRetain(d)') /\ (SomeDelete(d) => SomeDelete(d)')
      BY <3>2 DEF SomeRetain, SomeDelete, Retains, Deletes
    <3> QED BY <2>2, <3>1, <3>3
  <2>7. CASE n # 0
    <3> HIDE DEF n
    <3>1. lapses'[d] = MaxLapses \/ lapses'[d] > lapses[d]
      BY <2>3, <2>4, <2>5, <2>7, Numbers DEF Smaller
    <3>2. lapses'[d] # MaxLapses => lapses[d] # MaxLapses
      BY <2>3, <2>4, <2>5, Numbers DEF Smaller
    <3> QED BY <2>2, <3>1, <3>2
  <2> QED BY <2>6, <2>7
<1>7. \A d \in 0..1 : /\ Cost(d) \in Nat /\ Cost(d)' \in Nat
                      /\ lapses'[d] = lapses[d] => Cost(d)' >= Cost(d)
                      /\ lapses'[d] > lapses[d] => Cost(d)' >= Cost(d) + Day
  <2> HIDE DEF here, ended
  <2> TAKE d \in 0..1
  <2>1. lapses[d] \in Nat
    BY LogNumbers
  <2>2. /\ Cost(d) \in Nat /\ Cost(d)' \in Nat
        /\ lapses'[d] >= lapses[d] => Cost(d)' >= Cost(d)
        /\ lapses'[d] > lapses[d] => Cost(d)' >= Cost(d) + Day
    BY <1>0, CostFacts
  <2> QED BY <2>1, <2>2
<1> HIDE DEF here, ended
<1>8. /\ SomeRetain(0)' => SomeRetain(0)
      /\ SomeDelete(0)' => SomeDelete(0)
      /\ SomeDelete(0)' => SomeRetain(0)'
      /\ SomeRetain(1)' => SomeRetain(1)
      /\ SomeDelete(1)' => SomeDelete(1)
      /\ lapses'[0] # MaxLapses => lapses[0] # MaxLapses
      /\ lapses'[1] # MaxLapses => lapses[1] # MaxLapses
      /\ \/ /\ lapses'[0] = lapses[0]
            /\ SomeRetain(0) => SomeRetain(0)'
            /\ SomeDelete(0) => SomeDelete(0)'
         \/ lapses'[0] = MaxLapses
         \/ Cost(0)' >= Cost(0) + Day
      /\ \/ /\ lapses'[1] = lapses[1]
            /\ SomeRetain(1) => SomeRetain(1)'
            /\ SomeDelete(1) => SomeDelete(1)'
         \/ lapses'[1] = MaxLapses
         \/ Cost(1)' >= Cost(1) + Day
      /\ lapses'[0] = lapses[0] => Cost(0)' >= Cost(0)
      /\ lapses'[1] = lapses[1] => Cost(1)' >= Cost(1)
      /\ Cost(0) \in Nat /\ Cost(0)' \in Nat /\ Cost(1) \in Nat /\ Cost(1)' \in Nat
  <2>1. 0 \in 0..1 /\ 1 \in 0..1
    OBVIOUS
  <2> QED BY <1>6, <1>7, <2>1
<1>9. TodayInv'
  BY <1>1, <1>4, <1>5, <1>8 DEF TodayInv, Slack
<1>10. YesterdayInv'
  BY <1>1, <1>4, <1>5, <1>8 DEF YesterdayInv, SlackBefore
<1> QED BY <1>3, <1>9, <1>10

(* At midnight, what is owed to the day is owed to the day before; nothing *)
(* is to the new one.                                                      *)
LEMMA MidnightBudget ==
    ASSUME TypeInv, TypeInv', Budget > 0, WithinDay, TodayInv, YesterdayInv, Midnight
    PROVE  WithinDay' /\ TodayInv' /\ YesterdayInv'
<1>0. /\ plan'.rows = plan.rows
      /\ saved' = IF Retaining # {} /\ saved.date = 0 THEN [saved EXCEPT !.date = 1]
                  ELSE NotSaved
      /\ spent' = [d \in 0..1 |-> IF d = 1 /\ Retaining # {} THEN spent[0] ELSE 0]
      /\ lapses' = [d \in 0..1 |-> IF d = 1 /\ Retaining # {} THEN lapses[0] ELSE 0]
  BY DEF Midnight
<1>1. Day' = Day /\ Day \in Nat
  BY <1>0, SameDay, DayFacts
<1>2. saved \in [date : 0..2, n : Nat] /\ saved.n \in Nat /\ saved.n <= Day
  BY TypeParts DEF LogsPart, WithinDay
<1>3. WithinDay'
  <2>1. \A c \in Pass : Frugal(c)'
    BY <1>1, MidnightFacts DEF WithinDay, Frugal, At
  <2>2. saved'.n <= Day
    BY <1>0, <1>1, <1>2 DEF NotSaved
  <2> QED BY <1>1, <2>1, <2>2 DEF WithinDay
<1>4. \A c \in Pass : /\ Retains(c) <=> c \in Retaining
                      /\ Retains(c)' <=> Retains(c)
                      /\ Deletes(c)' <=> Deletes(c)
                      /\ Retains(c) => run[c].date = 0 /\ run'[c].date = 1
                      /\ Deletes(c) => Retains(c)
                      /\ Rest(c)' = Rest(c)
  <2>1. \A c \in Pass : c \in Retaining <=> Retains(c)
    BY DEF Retaining, Retains, At
  <2> QED BY <1>1, <2>1, MidnightFacts DEF Retains, Deletes, Rest
<1>5. \A c \in Pass : Owed(c)' = 0 /\ OwedBefore(c)' = Owed(c)
  BY <1>4 DEF Owed, OwedBefore
<1>6. Today' = [c \in Pass |-> 0] /\ Yesterday' = Today
  BY <1>5 DEF Today, Yesterday
<1>7. /\ Total(Today, Pass)' = 0 /\ Total(Yesterday, Pass)' = Total(Today, Pass)
      /\ Total(Today, Pass) \in Nat
  <2> DEFINE zero == [c \in Pass |-> 0]
  <2>1. Total(zero, Pass) \in Nat /\ Total(zero, Pass) <= 0 * Cardinality(Pass)
    <3>1. zero \in [Pass -> Nat] /\ \A c \in Pass : zero[c] <= 0
      OBVIOUS
    <3> HIDE DEF zero
    <3> QED BY <3>1, FiniteAssumption, TotalSplit, TotalBound
  <2>2. 0 * Cardinality(Pass) = 0
    BY FiniteAssumption, FS_CardinalityType
  <2>3. Total(zero, Pass) = 0
    BY <2>1, <2>2
  <2> QED BY <1>6, <2>3, DebtTypes
<1>8. /\ ~SomeRetain(1) /\ ~SomeRetain(0)' /\ ~SomeDelete(0)'
      /\ SomeRetain(1)' <=> Retaining # {}
      /\ SomeRetain(0) <=> Retaining # {}
      /\ SomeDelete(1)' <=> SomeDelete(0)
  <2>1. ~SomeRetain(1) /\ ~SomeRetain(0)' /\ ~SomeDelete(0)'
    BY <1>4 DEF SomeRetain, SomeDelete
  <2>2. Retaining \subseteq Pass
    BY DEF Retaining
  <2>3. SomeRetain(1)' <=> Retaining # {}
    BY <1>4, <2>2 DEF SomeRetain
  <2>4. SomeRetain(0) <=> Retaining # {}
    BY <1>4, <2>2 DEF SomeRetain
  <2>5. SomeDelete(1)' <=> SomeDelete(0)
    BY <1>4 DEF SomeDelete
  <2> QED BY <2>1, <2>3, <2>4, <2>5
<1>9. /\ spent'[0] = 0 /\ lapses'[0] = 0
      /\ Retaining # {} => spent'[1] = spent[0] /\ lapses'[1] = lapses[0]
      /\ Retaining = {} => spent'[1] = 0 /\ lapses'[1] = 0
      /\ spent[0] \in Nat /\ lapses[0] \in Nat
  BY <1>0, LogNumbers
<1>10. /\ Saved(0)' = 0
       /\ Retaining # {} => Saved(1)' = Saved(0)
       /\ Saved(0) \in Nat
  BY <1>0, <1>2 DEF Saved, NotSaved
<1>11. /\ Cost(0)' = 0
       /\ Retaining # {} => Cost(1)' = Cost(0)
       /\ Retaining = {} => Cost(1)' = 0
       /\ Cost(0) \in Nat
  <2>1. Cost(0) \in Nat
    BY <1>1, LogNumbers DEF Cost
  <2>2. 0 * Day = 0
    BY <1>1
  <2> QED BY <1>1, <1>9, <2>1, <2>2 DEF Cost
<1>12. TodayInv'
  BY <1>7, <1>8, <1>9, <1>10, <1>11 DEF TodayInv, Slack
<1>13. YesterdayInv'
  BY <1>1, <1>7, <1>8, <1>9, <1>10, <1>11 DEF YesterdayInv, SlackBefore, TodayInv, Slack
<1> QED BY <1>3, <1>12, <1>13

LEMMA InitBudget == Init => BudgetInv
<1> SUFFICES ASSUME Init, Budget > 0 PROVE WithinDay /\ TodayInv /\ YesterdayInv
  BY DEF BudgetInv
<1>0. TypeInv
  BY InitTypes
<1>1. Day \in Nat
  BY <1>0, DayFacts
<1>2. \A c \in Pass : run[c].pc = "none" /\ run[c].gone = 0
  BY DEF Init, NoPass
<1>3. WithinDay
  BY <1>1, <1>2 DEF WithinDay, Frugal, At, Init, NotSaved
<1>4. \A c \in Pass : ~Retains(c) /\ ~Deletes(c)
  BY <1>2 DEF Retains, Deletes
<1>5. Today = [c \in Pass |-> 0]
  BY <1>4 DEF Today, Owed
<1>6. Total(Today, Pass) = 0
  <2>1. Total(Today, Pass) \in Nat /\ Total(Today, Pass) <= 0 * Cardinality(Pass)
    <3>1. Today \in [Pass -> Nat] /\ \A c \in Pass : Today[c] <= 0
      BY <1>5
    <3> QED BY <3>1, FiniteAssumption, TotalSplit, TotalBound
  <2>2. 0 * Cardinality(Pass) = 0
    BY FiniteAssumption, FS_CardinalityType
  <2> QED BY <2>1, <2>2
<1>7. ~SomeRetain(0) /\ ~SomeRetain(1) /\ ~SomeDelete(0)
  BY <1>4 DEF SomeRetain, SomeDelete
<1>8. Cost(0) = 0 /\ Cost(1) = 0 /\ spent[0] = 0 /\ spent[1] = 0
  <2>1. 0 * Day = 0
    BY <1>1
  <2> QED BY <2>1 DEF Init, Cost
<1>9. Saved(0) = 0
  BY DEF Init, Saved, NotSaved
<1> QED BY <1>1, <1>3, <1>6, <1>7, <1>8, <1>9 DEF TodayInv, YesterdayInv, Slack

(* Passes that are not about the logs. *)
LEMMA PassStays ==
    ASSUME TypeInv, Budget > 0, WithinDay, NEW c \in Pass,
           \/ AskShared(c) \/ AskStamp(c) \/ Mark(c) \/ Abandon(c) \/ Persist(c)
           \/ Clear(c) \/ Lists(c) \/ Sync(c) \/ \E i \in Isolate : Begin(c, i)
    PROVE  \A b \in Pass : Stays(b)
<1>1. ASSUME \A b \in Pass \ {c} : run'[b] = run[b] PROVE \A b \in Pass \ {c} : Stays(b)
  BY <1>1 DEF Stays
<1>2. ASSUME run[c].pc \notin {"count", "delete", "save"}, run'[c].gone = run[c].gone,
             run'[c].pc \in {"shared", "stamp", "mark", "persist", "inactive", "select", "lists", "sync"},
             run[c].pc \in {"lists", "sync"} => run'[c].pc \in {"lists", "sync"}
      PROVE  Stays(c)
  BY <1>2 DEF Stays, Retains, Frugal, WithinDay, At
<1>3. ASSUME NEW pc \in {"stamp", "mark", "persist", "inactive", "select", "lists", "sync"},
             Goto(c, pc), run[c].pc \notin {"count", "delete", "save"},
             run[c].pc \in {"lists", "sync"} => pc \in {"lists", "sync"}
      PROVE  \A b \in Pass : Stays(b)
  <2>1. pc \in Steps
    BY DEF Steps
  <2> QED BY <1>1, <1>2, <1>3, <2>1, GotoFacts
<1>4. ASSUME Leave(c), run[c].pc \notin {"count", "delete", "save"}
      PROVE  \A b \in Pass : Stays(b)
  BY <1>1, <1>4, LeaveFacts DEF Stays, Retains, Frugal, At, NoPass
<1>5. CASE AskStamp(c)
  <2>1. At(c, "stamp") /\ run \in [Pass -> PassType]
    BY <1>5, TypeParts DEF AskStamp, RunPart
  <2>2. PICK known \in BOOLEAN :
          Goto(c, "lists") \/ run' = [run EXCEPT ![c].pc = "mark", ![c].memo = known]
    BY <1>5, AskStampFacts
  <2>3. CASE Goto(c, "lists")
    BY <1>3, <2>1, <2>3 DEF At
  <2>4. CASE run' = [run EXCEPT ![c].pc = "mark", ![c].memo = known]
    <3>1. run'[c] = [run[c] EXCEPT !.pc = "mark", !.memo = known] /\ run[c] \in PassType
      BY <2>1, <2>4
    <3>2. run'[c].pc = "mark" /\ run'[c].gone = run[c].gone
      BY <3>1 DEF PassType
    <3>3. \A b \in Pass \ {c} : run'[b] = run[b]
      BY <2>1, <2>4
    <3> QED BY <1>1, <1>2, <2>1, <3>2, <3>3 DEF At
  <2> QED BY <2>2, <2>3, <2>4
<1>6. CASE Persist(c)
  <2>1. \A b \in Pass \ {c} : Stays(b)
    BY <1>6, PersistFacts DEF Stays
  <2>2. At(c, "persist")
    BY <1>6 DEF Persist
  <2> QED BY <1>2, <1>6, <2>1, <2>2, PersistFacts DEF At
<1>7. CASE \E i \in Isolate : Begin(c, i)
  <2>1. PICK i \in Isolate : Begin(c, i)
    BY <1>7
  <2>2. /\ run'[c].pc \in {"lists", "shared"} /\ run'[c].gone = 0
        /\ \A d \in Pass \ {c} : run'[d] = run[d]
    BY <2>1, BeginFacts
  <2>3. At(c, "none")
    BY <2>1 DEF Begin
  <2> QED BY <1>1, <2>2, <2>3 DEF Stays, Retains, Frugal, At
<1>8. CASE AskShared(c) \/ Mark(c) \/ Clear(c)
  BY <1>3, <1>8 DEF AskShared, Mark, Clear, At
<1>9. CASE Abandon(c) \/ Lists(c) \/ Sync(c)
  BY <1>3, <1>4, <1>9 DEF Abandon, Lists, Sync, At
<1> QED BY <1>5, <1>6, <1>7, <1>8, <1>9

LEMMA StepBudget == TypeInv /\ BudgetInv /\ [Next]_vars => BudgetInv'
<1> SUFFICES ASSUME TypeInv, BudgetInv, [Next]_vars, Budget > 0
             PROVE  WithinDay' /\ TodayInv' /\ YesterdayInv'
  BY DEF BudgetInv
<1>0. TypeInv' /\ WithinDay /\ TodayInv /\ YesterdayInv
  BY StepTypes DEF BudgetInv
<1>1. ASSUME NEW c \in Pass, Advance(c) \/ \E i \in Isolate : Begin(c, i)
      PROVE  WithinDay' /\ TodayInv' /\ YesterdayInv'
  <2>1. CASE Select(c) \/ Count(c) \/ Delete(c) \/ Save(c)
    BY <1>0, <2>1, SelectBudget, CountBudget, DeleteBudget, SaveBudget
  <2>2. CASE \/ AskShared(c) \/ AskStamp(c) \/ Mark(c) \/ Abandon(c) \/ Persist(c)
             \/ Clear(c) \/ Lists(c) \/ Sync(c) \/ \E i \in Isolate : Begin(c, i)
    <3>1. plan' = plan /\ UNCHANGED <<saved, spent, lapses>>
      BY <2>2 DEF AskShared, AskStamp, Mark, Abandon, Persist, Clear, Lists, Sync, Begin, logs
    <3>2. \A b \in Pass : Stays(b)
      BY <1>0, <2>2, PassStays
    <3> QED BY <1>0, <3>1, <3>2, OtherBudget
  <2> QED BY <1>1, <2>1, <2>2 DEF Advance, CleanUp, Retain
<1>2. ASSUME UNCHANGED run, UNCHANGED <<saved, spent, lapses>>, plan'.rows = plan.rows
      PROVE  WithinDay' /\ TodayInv' /\ YesterdayInv'
  <2>1. \A c \in Pass : Stays(c)
    BY <1>2 DEF Stays
  <2> QED BY <1>0, <1>2, <2>1, OtherBudget
<1>3. ASSUME NEW q \in Visit, Work(q) \/ \E i \in Isolate, p \in Profile : Query(q, i, p)
      PROVE  WithinDay' /\ TodayInv' /\ YesterdayInv'
  <2>1. UNCHANGED run /\ UNCHANGED <<saved, spent, lapses>> /\ plan'.rows = plan.rows
    BY <1>3 DEF Work, AskBeat, Record, Share, Query, logs
  <2> QED BY <1>2, <2>1
<1>4. CASE Evict \/ Outdate \/ (\E p \in Profile : Expire(p)) \/ UNCHANGED vars
  <2>1. UNCHANGED run /\ UNCHANGED <<saved, spent, lapses>>
    BY <1>4 DEF Evict, Outdate, Expire, vars, logs
  <2>2. plan'.rows = plan.rows
    BY <1>4, PlanFacts DEF Evict, vars
  <2> QED BY <1>2, <2>1, <2>2
<1>5. CASE Tick
  <2>1. UNCHANGED <<saved, spent, lapses>> /\ plan'.rows = plan.rows
    BY <1>5 DEF Tick, logs
  <2>2. \A c \in Pass : Stays(c)
    BY <1>5, TickFacts DEF Stays
  <2> QED BY <1>0, <2>1, <2>2, OtherBudget
<1> QED
  BY <1>0, <1>1, <1>3, <1>4, <1>5, EndBudget, MidnightBudget DEF Next

(* What a day may have cost is no more than a Day beside its lapses: a     *)
(* pass about to count owes one itself.                                    *)
LEMMA BudgetIsBound == TypeInv /\ BudgetInv => BudgetHolds
<1> SUFFICES ASSUME TypeInv, BudgetInv, Budget > 0, NEW d \in 0..1, lapses[d] # MaxLapses
             PROVE  spent[d] <= (1 + lapses[d]) * Day
  BY DEF BudgetHolds, Day
<1>0. WithinDay /\ TodayInv /\ YesterdayInv
  BY DEF BudgetInv
<1>1. Day \in Nat /\ lapses[d] \in Nat /\ spent[0] \in Nat /\ spent[1] \in Nat
  BY DayFacts, LogNumbers
<1>2. (1 + lapses[d]) * Day = Cost(d) + Day /\ Cost(d) \in Nat
  <2>1. ASSUME NEW k \in Nat, NEW n \in Nat PROVE (1 + n) * k = n * k + k /\ n * k \in Nat
    OBVIOUS
  <2> QED BY <1>1, <2>1 DEF Cost
<1>3. /\ Saved(0) \in Nat /\ Saved(1) \in Nat /\ Saved(0) <= Day /\ Saved(1) <= Day
  BY <1>0, <1>1, LogNumbers DEF Saved, WithinDay
<1>4. Total(Today, Pass) \in Nat /\ Total(Yesterday, Pass) \in Nat
  BY <1>0, DebtTypes
<1>5. SomeRetain(0) /\ ~SomeDelete(0) => Total(Today, Pass) >= Day
  <2> SUFFICES ASSUME SomeRetain(0), ~SomeDelete(0) PROVE Total(Today, Pass) >= Day
    OBVIOUS
  <2>1. PICK c \in Pass : Retains(c) /\ run[c].date = 0
    BY DEF SomeRetain
  <2>2. ~Deletes(c)
    BY <2>1 DEF SomeDelete
  <2>3. Owed(c) = Day /\ Owed(c) <= Total(Today, Pass)
    BY <1>0, <2>1, <2>2, DebtTypes DEF Owed, Rest
  <2> QED BY <1>1, <1>4, <2>3
<1>6. SomeRetain(1) /\ ~SomeDelete(1) => Total(Yesterday, Pass) >= Day
  <2> SUFFICES ASSUME SomeRetain(1), ~SomeDelete(1) PROVE Total(Yesterday, Pass) >= Day
    OBVIOUS
  <2>1. PICK c \in Pass : Retains(c) /\ run[c].date = 1
    BY DEF SomeRetain
  <2>2. ~Deletes(c)
    BY <2>1 DEF SomeDelete
  <2>3. OwedBefore(c) = Day /\ OwedBefore(c) <= Total(Yesterday, Pass)
    BY <1>0, <2>1, <2>2, DebtTypes DEF OwedBefore, Rest
  <2> QED BY <1>1, <1>4, <2>3
<1>7. CASE d = 0
  BY <1>0, <1>1, <1>2, <1>3, <1>4, <1>5, <1>7 DEF TodayInv, Slack
<1>8. CASE d = 1
  BY <1>0, <1>1, <1>2, <1>3, <1>4, <1>6, <1>8 DEF YesterdayInv, SlackBefore
<1> QED BY <1>7, <1>8

-----------------------------------------------------------------------------
(* The theorems.                                                           *)

IInv == TypeInv /\ ThrottleInv /\ ActiveInv /\ BudgetInv

LEMMA Invariance == Spec => []IInv
<1>1. Init => IInv
  BY InitTypes, InitThrottle, InitActive, InitBudget DEF IInv
<1>2. IInv /\ [Next]_vars => IInv'
  BY StepTypes, StepThrottle, StepActive, StepBudget DEF IInv
<1> QED BY <1>1, <1>2, PTL DEF Spec

(* Types: in particular the saved count is always a number.                *)
THEOREM TypeCorrect == Spec => []TypeOK
<1>1. IInv => TypeOK
  BY DEF IInv, TypeInv
<1> QED BY <1>1, Invariance, PTL

(* The daily budget holds over all the passes of a day: beyond it go one   *)
(* log of each profile but one, and as much again each time a count is     *)
(* lost.                                                                   *)
THEOREM BudgetIsHeld == Spec => []BudgetHolds
<1>1. IInv => BudgetHolds
  BY BudgetIsBound DEF IInv
<1> QED BY <1>1, Invariance, PTL

(* Clean-ups that begin less than an hour apart overlapped, or needed two  *)
(* failures, or one and the isolate's own copy of the stamp.               *)
THEOREM ThrottleIsHeld == Spec => ThrottleHolds
<1> DEFINE A == \A c \in Pass : At(c, "persist") /\ run'[c].pc = "inactive" =>
                   \/ last - run[c].age >= Hour - Delay
                   \/ run[c].met \/ faults' > 1 \/ (faults' = 1 /\ run[c].memo)
<1>1. IInv /\ [Next]_vars => [A]_vars
  BY StepThrottles DEF IInv
<1> QED BY <1>1, Invariance, PTL DEF Spec, ThrottleHolds

(* Profiles go only with the record of a user who resolved nothing within  *)
(* the 30 days, less the throttle of the records, unless a record is on    *)
(* its way or failed.                                                      *)
THEOREM ActiveAreKept == Spec => ActiveKept
<1> DEFINE A == \A p \in profiles \ profiles' :
                   \/ queried[Owner[p]] > Quiet - Active - Delay
                   \/ missed[Owner[p]]
                   \/ \E q \in Visit : ~AtTask(q, "none") /\ UserOf(q) = Owner[p]
<1>1. IInv /\ [Next]_vars => [A]_vars
  BY StepKept DEF IInv
<1> QED BY <1>1, Invariance, PTL DEF Spec, ActiveKept
=============================================================================
