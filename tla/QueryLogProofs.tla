-------------------------- MODULE QueryLogProofs --------------------------
(***************************************************************************)
(* The two parts of pipeline/logBatcher.ts that query logs pass on their   *)
(* way into the database, each for itself.                                 *)
(*                                                                         *)
(* LogKeys: type correctness, the mutex of ensureActiveDek, that an        *)
(* invalidation holds, that what is written afterwards is sealed for the   *)
(* current key, and that the row of a cited data key is kept.              *)
(*                                                                         *)
(* LogBatcher: type correctness, that isFlushScheduled is honest, that     *)
(* nothing is stranded (by counting the flushes that have yet to take a    *)
(* batch), that a tripped breaker keeps the queue empty, and that a log is *)
(* in one place at most.                                                   *)
(***************************************************************************)
EXTENDS LogKeys, LogBatcher, SequenceTheorems, FiniteSetTheorems, TLAPS

Rowed == {"stored", "lost"}

(* How the maps of the isolate and the rows fit together.                  *)
Wired ==
    /\ \A p \in Profile : inFlight[p] # Nothing =>
          kem[inFlight[p]].at = "minting" /\ kem[inFlight[p]].profile = p
    /\ \A p \in Profile : activeDek[p] # Nothing =>
          kem[activeDek[p]].at \in Rowed /\ activeDek[p] \notin aged
    /\ \A n \in Kem : kem[n].at = "minting" => kem[n].profile \in Profile
    /\ \A n \in Kem : n \in aged => kem[n].at \notin {"unused", "minting"}

(* What a lookup holds: a key that needs a data key while it asks for one, *)
(* a minting of its own profile while it waits, a live data key after it.  *)
LooksWired ==
    \A f \in Flusher, p \in Profile :
        LET look == lookup[f][p] IN
        /\ look.at = "await" =>
              /\ look.dek \in Kem
              /\ kem[look.dek].at = "minting"
              /\ kem[look.dek].profile = p
        /\ look.at # "await" /\ look.dek # Nothing =>
              kem[look.dek].at \in Rowed /\ look.dek \notin aged

(* A settled profile: the lookups and the minting under way are about the  *)
(* key in force.                                                           *)
LooksTruthful ==
    \A p \in settled, f \in Flusher :
        lookup[f][p].at \in {"answer", "ensure", "await"} =>
            lookup[f][p].key = ActiveKey(p)
MintsTruthful ==
    \A p \in settled, n \in Kem :
        kem[n].at = "minting" /\ kem[n].profile = p =>
            kem[n].key = ActiveKey(p) /\ inFlight[p] = n
Truthful == /\ current \subseteq Flusher \X settled
            /\ LooksTruthful
            /\ MintsTruthful

IInv == /\ TypeOK /\ Wired /\ LooksWired /\ KeyKept
        /\ Truthful /\ InvalidationHolds /\ SealedForCurrentKey

-----------------------------------------------------------------------------
(* One lookup moves, the others stay where they are.                       *)
LEMMA MovedLooks ==
    ASSUME TypeOK, NEW f \in Flusher, NEW p \in Profile,
           NEW at \in LookAts, NEW key \in Keys, NEW dek \in Deks,
           Moved(f, p, Look(at, key, dek))
    PROVE  /\ lookup' \in [Flusher -> [Profile ->
                              [at : LookAts, key : Keys, dek : Deks]]]
           /\ lookup'[f][p] = Look(at, key, dek)
           /\ \A g \in Flusher, q \in Profile :
                 g # f \/ q # p => lookup'[g][q] = lookup[g][q]
BY DEF TypeOK, Moved, Look

(* A key rewrite of ps leaves the answers for the other profiles.          *)
LEMMA RewriteOf ==
    ASSUME TypeOK, NEW ps \in SUBSET Profile, Rewrite(ps)
    PROVE  /\ userKey' \in [Profile -> Keys]
           /\ isActive' \in [Profile -> BOOLEAN]
           /\ \A p \in Profile \ ps : ActiveKey(p)' = ActiveKey(p)
<1>1. ASSUME NEW p \in Profile, ps = {p}, NEW k \in PublicKey, InitProfile(p, k)
      PROVE  /\ userKey' \in [Profile -> Keys]
             /\ isActive' \in [Profile -> BOOLEAN]
             /\ \A q \in Profile \ ps : ActiveKey(q)' = ActiveKey(q)
  BY <1>1 DEF TypeOK, InitProfile, ActiveKey, Keys
<1>2. ASSUME DropKeys(ps)
      PROVE  /\ userKey' \in [Profile -> Keys]
             /\ isActive' \in [Profile -> BOOLEAN]
             /\ \A q \in Profile \ ps : ActiveKey(q)' = ActiveKey(q)
  BY <1>2 DEF TypeOK, DropKeys, ActiveKey, Keys
<1>3. ASSUME ps = Profile, NEW k \in PublicKey, InitAccount(k)
      PROVE  /\ userKey' \in [Profile -> Keys]
             /\ isActive' \in [Profile -> BOOLEAN]
  BY <1>3 DEF TypeOK, InitAccount, Keys
<1>4. ASSUME ps = Profile, NEW on \in BOOLEAN, Toggle(on)
      PROVE  /\ userKey' \in [Profile -> Keys]
             /\ isActive' \in [Profile -> BOOLEAN]
  BY <1>4 DEF TypeOK, Toggle, Keys
<1> QED BY <1>1, <1>2, <1>3, <1>4 DEF Rewrite

(* The key of a lookup that goes on with the answer k.                     *)
LEMMA WithKeyLook ==
    ASSUME NEW k \in Keys
    PROVE  /\ WithKey(k) = Look(WithKey(k).at, k, Nothing)
           /\ WithKey(k).at \in {"ensure", "done"}
           /\ WithKey(k).at = "done" => k \notin Hybrid
           /\ WithKey(k) \in [at : LookAts, key : Keys, dek : Deks]
BY DEF WithKey, Look, LookAts, Deks

-----------------------------------------------------------------------------
(* The steps preserve TypeOK.                                              *)
LEMMA TypeStep == TypeOK /\ Wired /\ [Next]_vars => TypeOK'
<1> SUFFICES ASSUME TypeOK, Wired, [Next]_vars PROVE TypeOK'
  OBVIOUS
<1> USE DEF Keys, Deks
<1>1. ASSUME NEW f \in Flusher, NEW ps \in SUBSET Profile, StartLookups(f, ps)
      PROVE  TypeOK'
  <2> DEFINE NewLook(p) == IF p \notin ps THEN NoLook
                           ELSE IF keyCache[p] = Unknown
                                THEN Look("select", Nothing, Nothing)
                                ELSE WithKey(keyCache[p])
  <2>1. \A p \in Profile : NewLook(p) \in [at : LookAts, key : Keys, dek : Deks]
    BY DEF TypeOK, NoLook, Look, WithKey, LookAts
  <2>2. lookup' = [lookup EXCEPT ![f] = [p \in Profile |-> NewLook(p)]]
    BY <1>1 DEF StartLookups
  <2> HIDE DEF NewLook
  <2>3. lookup' \in [Flusher -> [Profile -> [at : LookAts, key : Keys, dek : Deks]]]
    BY <2>1, <2>2 DEF TypeOK
  <2> QED BY <1>1, <2>3 DEF StartLookups, TypeOK, database
<1>2. ASSUME NEW f \in Flusher, NEW p \in Profile, SelectStep(f, p)
      PROVE  TypeOK'
  <2>1. CASE SelectAnswers(f, p)
    <3>1. ActiveKey(p) \in Keys
      BY DEF TypeOK, ActiveKey, Keys
    <3> QED BY <2>1, <3>1, MovedLooks
            DEF SelectAnswers, TypeOK, LookAts, database, history
  <2>2. CASE SelectReturns(f, p)
    <3>1. lookup[f][p].key \in Keys
      BY DEF TypeOK
    <3>2. lookup' \in [Flusher -> [Profile -> [at : LookAts, key : Keys, dek : Deks]]]
      BY <2>2, <3>1, WithKeyLook, MovedLooks DEF SelectReturns, LookAts
    <3> QED BY <2>2, <3>1, <3>2 DEF SelectReturns, TypeOK, database, history
  <2>3. CASE SelectFails(f, p)
    BY <2>3, MovedLooks DEF SelectFails, TypeOK, NoLook, LookAts, database
  <2> QED BY <1>2, <2>1, <2>2, <2>3 DEF SelectStep
<1>3. ASSUME NEW f \in Flusher, NEW p \in Profile, EnsureStep(f, p)
      PROVE  TypeOK'
  <2>0. lookup[f][p].key \in Keys /\ activeDek[p] \in Deks /\ inFlight[p] \in Deks
    BY DEF TypeOK
  <2>1. CASE UseActive(f, p)
    BY <2>0, <2>1, MovedLooks DEF UseActive, TypeOK, LookAts, database, history
  <2>2. CASE JoinMint(f, p)
    BY <2>0, <2>2, MovedLooks DEF JoinMint, TypeOK, LookAts, database, history
  <2>3. ASSUME NEW n \in Kem, StartMint(f, p, n) PROVE TypeOK'
    <3>1. lookup' \in [Flusher -> [Profile -> [at : LookAts, key : Keys, dek : Deks]]]
      BY <2>0, <2>3, MovedLooks DEF StartMint, Mints, LookAts
    <3>2. kem' \in [Kem -> [at : MintAts, profile : Profile \cup {Nothing}, key : Keys]]
      BY <2>0, <2>3 DEF StartMint, Mints, Mint, TypeOK, MintAts
    <3> QED BY <2>3, <3>1, <3>2 DEF StartMint, Mints, TypeOK, database, history
  <2> QED BY <1>3, <2>1, <2>2, <2>3 DEF EnsureStep
<1>4. ASSUME NEW n \in Kem, MintStep(n)
      PROVE  TypeOK'
  <2> PICK at \in {"stored", "lost"} : MintEnds(n, at)
    BY <1>4 DEF MintStep
  <2>1. kem[n].profile \in Profile /\ kem[n].key \in Keys
    BY DEF MintEnds, Wired, TypeOK
  <2>2. kem' \in [Kem -> [at : MintAts, profile : Profile \cup {Nothing}, key : Keys]]
    BY <2>1 DEF MintEnds, Mint, TypeOK, MintAts
  <2>3. lookup' \in [Flusher -> [Profile -> [at : LookAts, key : Keys, dek : Deks]]]
    BY DEF MintEnds, Look, TypeOK, LookAts
  <2> QED BY <2>1, <2>2, <2>3 DEF MintEnds, TypeOK, database, history
<1>5. ASSUME NEW f \in Flusher, NEW ns \in SUBSET Kem, Cite(f, ns)
      PROVE  TypeOK'
  <2>1. lookup' \in [Flusher -> [Profile -> [at : LookAts, key : Keys, dek : Deks]]]
    BY <1>5 DEF Cite, NoLook, Look, TypeOK, LookAts
  <2> QED BY <1>5, <2>1 DEF Cite, TypeOK, database
<1>6. ASSUME NEW h \in Handler, NEW ps \in SUBSET Profile, ConfigureHere(h, ps)
      PROVE  TypeOK'
  BY <1>6, RewriteOf DEF ConfigureHere, Change, Unsettle, TypeOK, memory
<1>7. ASSUME NEW ps \in SUBSET Profile, ConfigureElsewhere(ps)
      PROVE  TypeOK'
  BY <1>7, RewriteOf DEF ConfigureElsewhere, Change, Unsettle, TypeOK, memory
<1>8. ASSUME NEW h \in Handler, Invalidate(h)
      PROVE  TypeOK'
  BY <1>8 DEF Invalidate, Settle, TypeOK, database
<1>9. ASSUME NEW p \in Profile, KeyEntryExpires(p) \/ DekExpires(p)
      PROVE  TypeOK'
  <2>1. CASE KeyEntryExpires(p)
    BY <2>1 DEF KeyEntryExpires, TypeOK, database, history
  <2>2. CASE DekExpires(p)
    BY <2>2 DEF DekExpires, Change, TypeOK, database, history
  <2> QED BY <1>9, <2>1, <2>2
<1>10. ASSUME NEW n \in Kem, DayPasses(n) \/ LogsRetire(n)
       PROVE  TypeOK'
  BY <1>10 DEF DayPasses, LogsRetire, TypeOK, database, memory, history
<1>11. ASSUME NEW n \in Kem, CleanupOrphan(n)
       PROVE  TypeOK'
  <2>1. kem' \in [Kem -> [at : MintAts, profile : Profile \cup {Nothing}, key : Keys]]
    BY <1>11 DEF CleanupOrphan, Deletes, Mint, TypeOK, MintAts
  <2> QED BY <1>11, <2>1 DEF CleanupOrphan, Deletes, TypeOK, database, memory, history
<1>12. CASE Restart
  <2>1. kem' \in [Kem -> [at : MintAts, profile : Profile \cup {Nothing}, key : Keys]]
    BY <1>12 DEF Restart, Mint, TypeOK, MintAts
  <2>2. lookup' \in [Flusher -> [Profile -> [at : LookAts, key : Keys, dek : Deks]]]
    BY <1>12 DEF Restart, NoLook, Look, LookAts
  <2> QED BY <1>12, <2>1, <2>2 DEF Restart, Change, TypeOK, database
<1>13. CASE UNCHANGED vars
  BY <1>13 DEF vars, database, memory, history, TypeOK
<1> QED BY <1>1, <1>2, <1>3, <1>4, <1>5, <1>6, <1>7, <1>8, <1>9, <1>10, <1>11,
           <1>12, <1>13 DEF Next, LookupStep, Surroundings

-----------------------------------------------------------------------------
(* The steps preserve how maps, lookups and rows fit together.             *)
LEMMA WiringStep ==
    TypeOK /\ TypeOK' /\ Wired /\ LooksWired /\ KeyKept /\ [Next]_vars
        => Wired' /\ LooksWired' /\ KeyKept'
<1> SUFFICES ASSUME TypeOK, TypeOK', Wired, LooksWired, KeyKept, [Next]_vars
             PROVE  Wired' /\ LooksWired' /\ KeyKept'
  OBVIOUS
<1>0. Nothing \notin Kem
  BY KeyAssumption
<1>1. ASSUME NEW f \in Flusher, NEW ps \in SUBSET Profile, StartLookups(f, ps)
      PROVE  Wired' /\ LooksWired' /\ KeyKept'
  <2>1. Wired' /\ KeyKept'
    BY <1>1 DEF StartLookups, Wired, KeyKept
  <2>2. \A p \in Profile : /\ lookup'[f][p].at # "await"
                           /\ lookup'[f][p].dek = Nothing
    BY <1>1 DEF StartLookups, TypeOK, NoLook, Look, WithKey
  <2>3. \A g \in Flusher \ {f} : lookup'[g] = lookup[g]
    BY <1>1 DEF StartLookups, TypeOK
  <2>4. LooksWired'
    BY <1>1, <2>2, <2>3 DEF StartLookups, LooksWired
  <2> QED BY <2>1, <2>4
<1>2. ASSUME NEW f \in Flusher, NEW p \in Profile, SelectStep(f, p)
      PROVE  Wired' /\ LooksWired' /\ KeyKept'
  <2>1. Wired' /\ KeyKept'
    BY <1>2 DEF SelectStep, SelectAnswers, SelectReturns, SelectFails, Wired, KeyKept
  <2>2. PICK at \in LookAts, key \in Keys :
           at # "await" /\ Moved(f, p, Look(at, key, Nothing))
    <3>1. CASE SelectAnswers(f, p)
      BY <3>1 DEF SelectAnswers, ActiveKey, TypeOK, LookAts, Keys
    <3>2. CASE SelectReturns(f, p)
      <4>1. lookup[f][p].key \in Keys
        BY DEF TypeOK
      <4> QED BY <3>2, <4>1 DEF SelectReturns, WithKey, LookAts
    <3>3. CASE SelectFails(f, p)
      BY <3>3 DEF SelectFails, NoLook, LookAts, Keys
    <3> QED BY <1>2, <3>1, <3>2, <3>3 DEF SelectStep
  <2>3. /\ lookup'[f][p] = Look(at, key, Nothing)
        /\ \A g \in Flusher, q \in Profile :
              g # f \/ q # p => lookup'[g][q] = lookup[g][q]
    BY <2>2, MovedLooks DEF Deks
  <2>4. kem' = kem /\ aged' = aged
    BY <1>2 DEF SelectStep, SelectAnswers, SelectReturns, SelectFails
  <2>5. LooksWired'
    BY <2>2, <2>3, <2>4 DEF LooksWired, Look
  <2> QED BY <2>1, <2>5
<1>3. ASSUME NEW f \in Flusher, NEW p \in Profile, UseActive(f, p) \/ JoinMint(f, p)
      PROVE  Wired' /\ LooksWired' /\ KeyKept'
  <2>1. Wired' /\ KeyKept'
    BY <1>3 DEF UseActive, JoinMint, Wired, KeyKept
  <2>2. lookup[f][p].key \in Keys /\ activeDek[p] \in Deks /\ inFlight[p] \in Deks
    BY DEF TypeOK
  <2>3. kem' = kem /\ aged' = aged
    BY <1>3 DEF UseActive, JoinMint
  <2>4. CASE UseActive(f, p)
    <3>1. /\ lookup'[f][p] = Look("done", lookup[f][p].key, activeDek[p])
          /\ \A g \in Flusher, q \in Profile :
                g # f \/ q # p => lookup'[g][q] = lookup[g][q]
      BY <2>2, <2>4, MovedLooks DEF UseActive, LookAts
    <3> QED BY <2>1, <2>3, <2>4, <3>1 DEF UseActive, LooksWired, Wired, Look
  <2>5. CASE JoinMint(f, p)
    <3>1. /\ lookup'[f][p] = Look("await", lookup[f][p].key, inFlight[p])
          /\ \A g \in Flusher, q \in Profile :
                g # f \/ q # p => lookup'[g][q] = lookup[g][q]
      BY <2>2, <2>5, MovedLooks DEF JoinMint, LookAts
    <3> QED BY <2>1, <2>2, <2>3, <2>5, <3>1 DEF JoinMint, LooksWired, Wired, Look, Deks
  <2> QED BY <1>3, <2>4, <2>5
<1>4. ASSUME NEW f \in Flusher, NEW p \in Profile, NEW n \in Kem, StartMint(f, p, n)
      PROVE  Wired' /\ LooksWired' /\ KeyKept'
  <2>1. /\ kem[n].at = "unused"
        /\ kem'[n].at = "minting"
        /\ kem'[n].profile = p
        /\ \A m \in Kem \ {n} : kem'[m] = kem[m]
    BY <1>4 DEF StartMint, Mints, Mint, TypeOK
  <2>2. lookup[f][p].key \in Keys
    BY DEF TypeOK
  <2>3. /\ lookup'[f][p] = Look("await", lookup[f][p].key, n)
        /\ \A g \in Flusher, q \in Profile :
              g # f \/ q # p => lookup'[g][q] = lookup[g][q]
    BY <1>4, <2>2, MovedLooks DEF StartMint, Mints, LookAts, Deks
  <2>4. /\ inFlight'[p] = n
        /\ \A q \in Profile \ {p} : inFlight'[q] = inFlight[q]
        /\ activeDek' = activeDek /\ aged' = aged /\ cited' = cited
    BY <1>4 DEF StartMint, Mints, TypeOK
  <2>5. KeyKept'
    BY <2>1, <2>4 DEF KeyKept, TypeOK
  <2>6. Wired'
    <3>1. \A q \in Profile : inFlight[q] \in Deks /\ activeDek[q] \in Deks
      BY DEF TypeOK
    <3> QED BY <2>1, <2>4, <3>1 DEF Wired, Rowed, Deks
  <2>7. LooksWired'
    <3>1. \A g \in Flusher, q \in Profile : lookup[g][q].dek \in Deks
      BY DEF TypeOK
    <3> QED BY <2>1, <2>3, <2>4, <3>1 DEF LooksWired, Look, Rowed, Deks
  <2> QED BY <2>5, <2>6, <2>7
<1>5. ASSUME NEW n \in Kem, MintStep(n)
      PROVE  Wired' /\ LooksWired' /\ KeyKept'
  <2> PICK at \in {"stored", "lost"} : MintEnds(n, at)
    BY <1>5 DEF MintStep
  <2> DEFINE p == kem[n].profile
  <2>1. kem[n].at = "minting" /\ p \in Profile /\ n \notin aged
    BY DEF MintEnds, Wired
  <2>2. /\ kem'[n].at \in Rowed
        /\ \A m \in Kem \ {n} : kem'[m] = kem[m]
    BY DEF MintEnds, Mint, Rowed, TypeOK
  <2>3. /\ activeDek'[p] = n /\ inFlight'[p] = Nothing
        /\ \A q \in Profile \ {p} : /\ activeDek'[q] = activeDek[q]
                                    /\ inFlight'[q] = inFlight[q]
        /\ aged' = aged /\ cited' = cited
    BY <2>1 DEF MintEnds, TypeOK
  <2>4. \A g \in Flusher, q \in Profile :
           lookup'[g][q] = IF lookup[g][q].at = "await" /\ lookup[g][q].dek = n
                             THEN Look("done", lookup[g][q].key, n)
                             ELSE lookup[g][q]
    BY DEF MintEnds
  <2>5. \A q \in Profile : inFlight[q] \in Deks /\ activeDek[q] \in Deks
    BY DEF TypeOK
  <2>6. \A g \in Flusher, q \in Profile : lookup[g][q].dek \in Deks
    BY DEF TypeOK
  <2>7. KeyKept'
    BY <2>2, <2>3 DEF KeyKept, Rowed, TypeOK
  <2>8. Wired'
    <3>1. \A q \in Profile : inFlight'[q] # Nothing =>
             kem'[inFlight'[q]].at = "minting" /\ kem'[inFlight'[q]].profile = q
      <4> SUFFICES ASSUME NEW q \in Profile, inFlight'[q] # Nothing
                   PROVE  /\ kem'[inFlight'[q]].at = "minting"
                          /\ kem'[inFlight'[q]].profile = q
        OBVIOUS
      <4>1. q # p /\ inFlight'[q] = inFlight[q] /\ inFlight[q] \in Kem
        BY <2>1, <2>3, <2>5 DEF Deks
      <4>2. inFlight[q] # n
        BY <4>1 DEF Wired
      <4> QED BY <2>2, <4>1, <4>2 DEF Wired
    <3>2. \A q \in Profile : activeDek'[q] # Nothing =>
             kem'[activeDek'[q]].at \in Rowed /\ activeDek'[q] \notin aged'
      BY <2>1, <2>2, <2>3, <2>5 DEF Wired, Deks, Rowed
    <3>3. \A m \in Kem : /\ kem'[m].at = "minting" => kem'[m].profile \in Profile
                         /\ m \in aged' => kem'[m].at \notin {"unused", "minting"}
      BY <2>2, <2>3 DEF Wired, Rowed
    <3> QED BY <3>1, <3>2, <3>3 DEF Wired
  <2>9. LooksWired'
    <3> SUFFICES ASSUME NEW g \in Flusher, NEW q \in Profile
                 PROVE  LET look == lookup'[g][q] IN
                        /\ look.at = "await" =>
                              /\ look.dek \in Kem
                              /\ kem'[look.dek].at = "minting"
                              /\ kem'[look.dek].profile = q
                        /\ look.at # "await" /\ look.dek # Nothing =>
                              kem'[look.dek].at \in Rowed /\ look.dek \notin aged'
      BY DEF LooksWired
    <3>1. CASE lookup[g][q].at = "await" /\ lookup[g][q].dek = n
      <4>0. lookup'[g][q] = Look("done", lookup[g][q].key, n)
        BY <2>4, <3>1
      <4>1. lookup'[g][q].at = "done" /\ lookup'[g][q].dek = n
        BY <4>0 DEF Look
      <4>2. kem'[n].at \in Rowed /\ n \notin aged'
        BY <2>1, <2>2, <2>3
      <4> QED BY <4>1, <4>2
    <3>2. CASE ~(lookup[g][q].at = "await" /\ lookup[g][q].dek = n)
      <4>1. lookup'[g][q] = lookup[g][q]
        BY <2>4, <3>2
      <4> QED BY <2>1, <2>2, <2>3, <2>6, <3>2, <4>1 DEF LooksWired, Deks, Rowed
    <3> QED BY <3>1, <3>2
  <2> QED BY <2>7, <2>8, <2>9
<1>6. ASSUME NEW f \in Flusher, NEW ns \in SUBSET Kem, Cite(f, ns)
      PROVE  Wired' /\ LooksWired' /\ KeyKept'
  <2>1. Wired'
    BY <1>6 DEF Cite, Wired
  <2>2. KeyKept'
    BY <1>0, <1>6 DEF Cite, KeyKept, LooksWired, Rowed
  <2>3. /\ \A q \in Profile : lookup'[f][q] = NoLook
        /\ \A g \in Flusher \ {f} : lookup'[g] = lookup[g]
    BY <1>6 DEF Cite, TypeOK
  <2>4. LooksWired'
    BY <1>6, <2>3 DEF Cite, LooksWired, NoLook, Look
  <2> QED BY <2>1, <2>2, <2>4
<1>7. ASSUME UNCHANGED <<memory, kem, aged, cited>>
      PROVE  Wired' /\ LooksWired' /\ KeyKept'
  BY <1>7 DEF memory, Wired, LooksWired, KeyKept
<1>8. ASSUME NEW h \in Handler, Invalidate(h)
      PROVE  Wired' /\ LooksWired' /\ KeyKept'
  <2>1. /\ \A q \in Profile : /\ inFlight'[q] \in {inFlight[q], Nothing}
                              /\ activeDek'[q] \in {activeDek[q], Nothing}
        /\ UNCHANGED <<lookup, kem, aged, cited>>
    BY <1>8 DEF Invalidate
  <2> QED BY <2>1 DEF Wired, LooksWired, KeyKept
<1>9. ASSUME NEW p \in Profile, KeyEntryExpires(p) \/ DekExpires(p)
      PROVE  Wired' /\ LooksWired' /\ KeyKept'
  <2>1. /\ \A q \in Profile : activeDek'[q] \in {activeDek[q], Nothing}
        /\ UNCHANGED <<inFlight, lookup, kem, aged, cited>>
    BY <1>9 DEF KeyEntryExpires, DekExpires, TypeOK
  <2> QED BY <2>1 DEF Wired, LooksWired, KeyKept
<1>10. ASSUME NEW n \in Kem, DayPasses(n)
       PROVE  Wired' /\ LooksWired' /\ KeyKept'
  BY <1>10 DEF DayPasses, Held, memory, Wired, LooksWired, KeyKept
<1>11. ASSUME NEW n \in Kem, LogsRetire(n)
       PROVE  Wired' /\ LooksWired' /\ KeyKept'
  BY <1>11 DEF LogsRetire, memory, Wired, LooksWired, KeyKept
<1>12. ASSUME NEW n \in Kem, CleanupOrphan(n)
       PROVE  Wired' /\ LooksWired' /\ KeyKept'
  <2>1. /\ n \in aged /\ n \notin cited
        /\ kem[n].at = "stored" /\ kem'[n].at = "deleted"
        /\ kem'[n].profile = kem[n].profile
        /\ \A m \in Kem \ {n} : kem'[m] = kem[m]
        /\ UNCHANGED <<memory, aged, cited>>
    BY <1>12 DEF CleanupOrphan, Deletes, Mint, TypeOK
  <2>2. KeyKept'
    BY <2>1 DEF KeyKept, TypeOK
  <2>3. Wired'
    <3>1. \A q \in Profile : inFlight[q] \in Deks /\ activeDek[q] \in Deks
      BY DEF TypeOK
    <3> QED BY <2>1, <3>1 DEF Wired, memory, Deks
  <2>4. LooksWired'
    <3>1. \A g \in Flusher, q \in Profile : lookup[g][q].dek \in Deks
      BY DEF TypeOK
    <3> QED BY <2>1, <3>1 DEF LooksWired, memory, Deks
  <2> QED BY <2>2, <2>3, <2>4
<1>13. CASE Restart
  <2>1. /\ \A q \in Profile : inFlight'[q] = Nothing /\ activeDek'[q] = Nothing
        /\ \A g \in Flusher, q \in Profile : lookup'[g][q] = NoLook
        /\ \A m \in Kem : kem[m].at # "minting" => kem'[m] = kem[m]
        /\ \A m \in Kem : kem'[m].at # "minting"
        /\ \A m \in Kem : kem[m].at = "minting" => kem'[m].at \in Rowed
        /\ aged' = aged /\ cited' = cited
    BY <1>13 DEF Restart, Mint, Rowed
  <2>2. KeyKept'
    BY <2>1 DEF KeyKept, Rowed, TypeOK
  <2>3. Wired' /\ LooksWired'
    BY <2>1 DEF Wired, LooksWired, NoLook, Look, Rowed
  <2> QED BY <2>2, <2>3
<1>14. CASE UNCHANGED vars
  BY <1>14, <1>7 DEF vars
<1> QED BY <1>1, <1>2, <1>3, <1>4, <1>5, <1>6, <1>7, <1>8, <1>9, <1>10, <1>11,
           <1>12, <1>13, <1>14
        DEF Next, LookupStep, EnsureStep, Surroundings, ConfigureHere, ConfigureElsewhere

-----------------------------------------------------------------------------
(* The steps preserve what holds of the settled profiles.                  *)
Claims == Truthful /\ InvalidationHolds /\ SealedForCurrentKey

LEMMA ClaimsStep == IInv /\ TypeOK' /\ [Next]_vars => Claims'
<1> SUFFICES ASSUME TypeOK, Wired, LooksWired, Truthful, InvalidationHolds,
                    SealedForCurrentKey, TypeOK', [Next]_vars
             PROVE  Claims'
  BY DEF IInv
<1>a. settled \subseteq Profile
  BY DEF TypeOK
<1>b. settled' \subseteq Profile
  BY DEF TypeOK
<1>0. Nothing \notin Kem /\ Nothing \notin Hybrid /\ Unknown \notin Keys
  BY KeyAssumption DEF Keys
<1>1. ASSUME NEW f \in Flusher, NEW ps \in SUBSET Profile, StartLookups(f, ps)
      PROVE  Claims'
  <2>1. /\ \A g \in Flusher \ {f} : lookup'[g] = lookup[g]
        /\ \A p \in Profile : ActiveKey(p)' = ActiveKey(p)
        /\ UNCHANGED <<keyCache, activeDek, inFlight, kem, settled>>
    BY <1>1 DEF StartLookups, TypeOK, database, ActiveKey
  <2>2. /\ \A g \in Flusher \ {f}, p \in Profile :
              <<g, p>> \in current' => <<g, p>> \in current
        /\ \A p \in Profile : <<f, p>> \in current' => p \in settled /\ p \in ps
        /\ current' \subseteq Flusher \X settled
    BY <1>1 DEF StartLookups, Truthful, LooksTruthful, MintsTruthful
  <2>3. \A p \in settled : p \in ps =>
           \/ lookup'[f][p] = Look("select", Nothing, Nothing)
           \/ lookup'[f][p] = WithKey(ActiveKey(p))
    BY <1>1 DEF StartLookups, InvalidationHolds, TypeOK
  <2>4. \A p \in settled : p \notin ps => lookup'[f][p] = NoLook
    BY <1>1 DEF StartLookups, TypeOK
  <2>5. Truthful'
    <3>1. MintsTruthful'
      BY <1>a, <2>1 DEF Truthful, MintsTruthful
    <3>2. LooksTruthful'
      <4> SUFFICES ASSUME NEW p \in settled, NEW g \in Flusher,
                          lookup'[g][p].at \in {"answer", "ensure", "await"}
                   PROVE  lookup'[g][p].key = ActiveKey(p)'
        BY <2>1 DEF LooksTruthful
      <4>1. ActiveKey(p)' = ActiveKey(p)
        BY <1>a, <2>1
      <4>2. CASE g # f
        BY <2>1, <4>1, <4>2 DEF Truthful, LooksTruthful
      <4>3. CASE g = f
        <5>1. p \in ps
          BY <2>4, <4>3 DEF NoLook, Look
        <5>2. lookup'[f][p] = WithKey(ActiveKey(p))
          BY <2>3, <4>3, <5>1 DEF Look
        <5> QED BY <4>1, <4>3, <5>2 DEF WithKey, Look
      <4> QED BY <4>2, <4>3
    <3> QED BY <2>2, <2>1, <3>1, <3>2 DEF Truthful
  <2>6. InvalidationHolds'
    BY <2>1 DEF InvalidationHolds, TypeOK
  <2>7. SealedForCurrentKey'
    <3> SUFFICES ASSUME NEW g \in Flusher, NEW p \in Profile,
                        <<g, p>> \in current', lookup'[g][p].at = "done"
                 PROVE  /\ lookup'[g][p].key = ActiveKey(p)'
                        /\ lookup'[g][p].key \in Hybrid =>
                              /\ lookup'[g][p].dek \in Kem
                              /\ kem'[lookup'[g][p].dek].key = lookup'[g][p].key
      BY DEF SealedForCurrentKey
    <3>1. CASE g # f
      <4>1. <<g, p>> \in current /\ lookup'[g][p] = lookup[g][p]
        BY <2>1, <2>2, <3>1
      <4> QED BY <2>1, <4>1 DEF SealedForCurrentKey
    <3>2. CASE g = f
      <4>1. lookup'[f][p] = WithKey(ActiveKey(p))
        BY <2>2, <2>3, <3>2 DEF Look
      <4>2. lookup'[f][p].key = ActiveKey(p) /\ ActiveKey(p) \notin Hybrid
        BY <3>2, <4>1 DEF WithKey, Look
      <4> QED BY <2>1, <3>2, <4>2
    <3> QED BY <3>1, <3>2
  <2> QED BY <2>5, <2>6, <2>7 DEF Claims
<1>2. ASSUME NEW f \in Flusher, NEW p \in Profile, SelectStep(f, p)
      PROVE  Claims'
  <2>1. /\ \A q \in Profile : ActiveKey(q)' = ActiveKey(q)
        /\ UNCHANGED <<activeDek, inFlight, kem, settled>>
    BY <1>2 DEF SelectStep, SelectAnswers, SelectReturns, SelectFails, database,
                history, ActiveKey
  <2>2. CASE SelectAnswers(f, p)
    <3>1. ActiveKey(p) \in Keys
      BY DEF TypeOK, ActiveKey, Keys
    <3>2. /\ lookup'[f][p] = Look("answer", ActiveKey(p), Nothing)
          /\ \A g \in Flusher, q \in Profile :
                g # f \/ q # p => lookup'[g][q] = lookup[g][q]
      BY <2>2, <3>1, MovedLooks DEF SelectAnswers, LookAts, Deks
    <3>3. UNCHANGED <<keyCache, current>>
      BY <2>2 DEF SelectAnswers, history
    <3>4. Truthful'
      BY <1>a, <1>b, <2>1, <3>2, <3>3 DEF Truthful, LooksTruthful, MintsTruthful, Look
    <3>5. InvalidationHolds'
      BY <2>1, <3>3 DEF InvalidationHolds, TypeOK
    <3>6. SealedForCurrentKey'
      BY <2>1, <3>2, <3>3 DEF SealedForCurrentKey, Look
    <3> QED BY <3>4, <3>5, <3>6 DEF Claims
  <2>3. CASE SelectReturns(f, p)
    <3> DEFINE k == lookup[f][p].key
    <3>1. k \in Keys /\ (p \in settled => k = ActiveKey(p))
      BY <2>3 DEF SelectReturns, TypeOK, Truthful, LooksTruthful, MintsTruthful
    <3>2. /\ lookup'[f][p] = Look(WithKey(k).at, k, Nothing)
          /\ WithKey(k).at \in {"ensure", "done"}
          /\ WithKey(k).at = "done" => k \notin Hybrid
          /\ \A g \in Flusher, q \in Profile :
                g # f \/ q # p => lookup'[g][q] = lookup[g][q]
      BY <2>3, <3>1, WithKeyLook, MovedLooks DEF SelectReturns, LookAts, Deks
    <3>3. /\ current' = current
          /\ keyCache'[p] = k
          /\ \A q \in Profile \ {p} : keyCache'[q] = keyCache[q]
      BY <2>3 DEF SelectReturns, history, TypeOK
    <3> HIDE DEF k
    <3>4. Truthful'
      BY <1>a, <1>b, <2>1, <3>1, <3>2, <3>3 DEF Truthful, LooksTruthful, MintsTruthful, Look
    <3>5. InvalidationHolds'
      BY <2>1, <3>1, <3>3 DEF InvalidationHolds, TypeOK
    <3>6. SealedForCurrentKey'
      BY <2>1, <3>1, <3>2, <3>3 DEF SealedForCurrentKey, Look, Truthful, LooksTruthful, MintsTruthful
    <3> QED BY <3>4, <3>5, <3>6 DEF Claims
  <2>4. CASE SelectFails(f, p)
    <3>2. /\ lookup'[f][p] = NoLook
          /\ \A g \in Flusher, q \in Profile :
                g # f \/ q # p => lookup'[g][q] = lookup[g][q]
      BY <2>4, MovedLooks DEF SelectFails, NoLook, LookAts, Keys, Deks
    <3>3. keyCache' = keyCache /\ current' = current \ {<<f, p>>}
      BY <2>4 DEF SelectFails
    <3>4. Truthful'
      BY <1>a, <1>b, <2>1, <3>2, <3>3 DEF Truthful, LooksTruthful, MintsTruthful, NoLook, Look
    <3>5. InvalidationHolds'
      BY <2>1, <3>3 DEF InvalidationHolds, TypeOK
    <3>6. SealedForCurrentKey'
      BY <2>1, <3>2, <3>3 DEF SealedForCurrentKey
    <3> QED BY <3>4, <3>5, <3>6 DEF Claims
  <2> QED BY <1>2, <2>2, <2>3, <2>4 DEF SelectStep
<1>3. ASSUME NEW f \in Flusher, NEW p \in Profile, UseActive(f, p) \/ JoinMint(f, p)
      PROVE  Claims'
  <2>1. /\ \A q \in Profile : ActiveKey(q)' = ActiveKey(q)
        /\ UNCHANGED <<keyCache, activeDek, inFlight, kem, settled, current>>
    BY <1>3 DEF UseActive, JoinMint, database, history, ActiveKey
  <2>2. lookup[f][p].key \in Keys /\ activeDek[p] \in Deks /\ inFlight[p] \in Deks
    BY DEF TypeOK
  <2>3. PICK at \in {"done", "await"}, dek \in Deks :
           /\ lookup[f][p].at = "ensure"
           /\ at = "done" => dek = activeDek[p] /\ dek \in Kem
           /\ Moved(f, p, Look(at, lookup[f][p].key, dek))
    BY <1>3, <2>2 DEF UseActive, JoinMint, Deks
  <2>4. /\ lookup'[f][p] = Look(at, lookup[f][p].key, dek)
        /\ \A g \in Flusher, q \in Profile :
              g # f \/ q # p => lookup'[g][q] = lookup[g][q]
    BY <2>2, <2>3, MovedLooks DEF LookAts
  <2>5. Truthful'
    BY <1>a, <1>b, <2>1, <2>3, <2>4 DEF Truthful, LooksTruthful, MintsTruthful, Look
  <2>6. InvalidationHolds'
    BY <2>1 DEF InvalidationHolds, TypeOK
  <2>7. SealedForCurrentKey'
    <3>1. <<f, p>> \in current => p \in settled
      BY DEF Truthful, LooksTruthful, MintsTruthful
    <3>2. p \in settled => lookup[f][p].key = ActiveKey(p)
      BY <2>3 DEF Truthful, LooksTruthful, MintsTruthful
    <3>3. p \in settled /\ at = "done" => dek \in Kem /\ kem[dek].key = ActiveKey(p)
      BY <1>0, <2>3 DEF InvalidationHolds
    <3> QED BY <2>1, <2>3, <2>4, <3>1, <3>2, <3>3 DEF SealedForCurrentKey, Look
  <2> QED BY <2>5, <2>6, <2>7 DEF Claims
<1>4. ASSUME NEW f \in Flusher, NEW p \in Profile, NEW n \in Kem, StartMint(f, p, n)
      PROVE  Claims'
  <2>1. /\ \A q \in Profile : ActiveKey(q)' = ActiveKey(q)
        /\ UNCHANGED <<keyCache, activeDek, settled, current>>
    BY <1>4 DEF StartMint, Mints, database, history, ActiveKey
  <2>2. /\ lookup[f][p].at = "ensure"
        /\ kem[n].at = "unused"
        /\ inFlight[p] = Nothing
        /\ kem'[n] = Mint("minting", p, lookup[f][p].key)
        /\ \A m \in Kem \ {n} : kem'[m] = kem[m]
        /\ inFlight'[p] = n
        /\ \A q \in Profile \ {p} : inFlight'[q] = inFlight[q]
    BY <1>4 DEF StartMint, Mints, TypeOK
  <2>3. lookup[f][p].key \in Keys
    BY DEF TypeOK
  <2>4. /\ lookup'[f][p] = Look("await", lookup[f][p].key, n)
        /\ \A g \in Flusher, q \in Profile :
              g # f \/ q # p => lookup'[g][q] = lookup[g][q]
    BY <1>4, <2>3, MovedLooks DEF StartMint, Mints, LookAts, Deks
  <2>5. p \in settled => lookup[f][p].key = ActiveKey(p)
    BY <2>2 DEF Truthful, LooksTruthful, MintsTruthful
  <2>6. Truthful'
    <3>1. current' \subseteq Flusher \X settled'
      BY <2>1 DEF Truthful, LooksTruthful, MintsTruthful
    <3>2. \A q \in settled', g \in Flusher :
             lookup'[g][q].at \in {"answer", "ensure", "await"} =>
                 lookup'[g][q].key = ActiveKey(q)'
      BY <1>a, <1>b, <2>1, <2>4, <2>5 DEF Truthful, LooksTruthful, MintsTruthful, Look
    <3>3. \A q \in settled', m \in Kem :
             kem'[m].at = "minting" /\ kem'[m].profile = q =>
                 kem'[m].key = ActiveKey(q)' /\ inFlight'[q] = m
      <4> SUFFICES ASSUME NEW q \in settled', NEW m \in Kem,
                          kem'[m].at = "minting", kem'[m].profile = q
                   PROVE  kem'[m].key = ActiveKey(q)' /\ inFlight'[q] = m
        OBVIOUS
      <4>1. q \in Profile /\ q \in settled
        BY <2>1 DEF TypeOK
      <4>2. CASE m = n
        BY <2>1, <2>2, <2>5, <4>1, <4>2 DEF Mint
      <4>3. CASE m # n
        <5>1. kem[m].at = "minting" /\ kem[m].profile = q /\ kem'[m].key = kem[m].key
          BY <2>2, <4>3
        <5>2. kem[m].key = ActiveKey(q) /\ inFlight[q] = m
          BY <4>1, <5>1 DEF Truthful, LooksTruthful, MintsTruthful
        <5>3. q # p
          BY <1>0, <2>2, <5>2
        <5> QED BY <2>1, <2>2, <4>1, <5>1, <5>2, <5>3
      <4> QED BY <4>2, <4>3
    <3> QED BY <3>1, <3>2, <3>3 DEF Truthful, LooksTruthful, MintsTruthful
  <2>7. \A q \in Profile : activeDek[q] # Nothing => activeDek[q] \in Kem /\ activeDek[q] # n
    <3>1. \A q \in Profile : activeDek[q] \in Deks
      BY DEF TypeOK
    <3> QED BY <2>2, <3>1 DEF Wired, Rowed, Deks
  <2>8. InvalidationHolds'
    BY <2>1, <2>2, <2>7 DEF InvalidationHolds, TypeOK
  <2>9. SealedForCurrentKey'
    <3>1. \A g \in Flusher, q \in Profile :
             lookup[g][q].at = "done" /\ lookup[g][q].dek \in Kem =>
                 lookup[g][q].dek # n
      BY <1>0, <2>2 DEF LooksWired, Rowed
    <3> QED BY <2>1, <2>2, <2>4, <3>1 DEF SealedForCurrentKey, Look
  <2> QED BY <2>6, <2>8, <2>9 DEF Claims
<1>5. ASSUME NEW n \in Kem, MintStep(n)
      PROVE  Claims'
  <2> PICK at \in {"stored", "lost"} : MintEnds(n, at)
    BY <1>5 DEF MintStep
  <2> DEFINE p == kem[n].profile
  <2>1. kem[n].at = "minting" /\ p \in Profile
    BY DEF MintEnds, Wired
  <2>2. /\ \A q \in Profile : ActiveKey(q)' = ActiveKey(q)
        /\ UNCHANGED <<keyCache, settled, current>>
    BY DEF MintEnds, database, history, ActiveKey
  <2>3. /\ \A m \in Kem : kem'[m].key = kem[m].key /\ kem'[m].profile = kem[m].profile
        /\ \A m \in Kem : kem'[m].at = "minting" => m # n /\ kem[m].at = "minting"
    BY DEF MintEnds, Mint, TypeOK
  <2>4. /\ activeDek'[p] = n
        /\ \A q \in Profile \ {p} : /\ activeDek'[q] = activeDek[q]
                                    /\ inFlight'[q] = inFlight[q]
    BY <2>1 DEF MintEnds, TypeOK
  <2>5. \A g \in Flusher, q \in Profile :
           lookup'[g][q] = IF lookup[g][q].at = "await" /\ lookup[g][q].dek = n
                             THEN Look("done", lookup[g][q].key, n)
                             ELSE lookup[g][q]
    BY DEF MintEnds
  <2>6. p \in settled => kem[n].key = ActiveKey(p) /\ inFlight[p] = n
    BY <2>1 DEF Truthful, LooksTruthful, MintsTruthful
  <2>7. Truthful'
    <3>1. current' \subseteq Flusher \X settled'
      BY <2>2 DEF Truthful, LooksTruthful, MintsTruthful
    <3>2. \A q \in settled', g \in Flusher :
             lookup'[g][q].at \in {"answer", "ensure", "await"} =>
                 lookup'[g][q].key = ActiveKey(q)'
      <4> SUFFICES ASSUME NEW q \in settled, NEW g \in Flusher,
                          lookup'[g][q].at \in {"answer", "ensure", "await"}
                   PROVE  lookup'[g][q].key = ActiveKey(q)'
        BY <2>2
      <4>1. q \in Profile /\ ActiveKey(q)' = ActiveKey(q)
        BY <1>a, <2>2
      <4>2. lookup'[g][q] = lookup[g][q]
        <5>1. Look("done", lookup[g][q].key, n).at = "done"
          BY DEF Look
        <5> QED BY <2>5, <4>1, <5>1
      <4> QED BY <4>1, <4>2 DEF Truthful, LooksTruthful
    <3>3. \A q \in settled', m \in Kem :
             kem'[m].at = "minting" /\ kem'[m].profile = q =>
                 kem'[m].key = ActiveKey(q)' /\ inFlight'[q] = m
      <4> SUFFICES ASSUME NEW q \in settled', NEW m \in Kem,
                          kem'[m].at = "minting", kem'[m].profile = q
                   PROVE  kem'[m].key = ActiveKey(q)' /\ inFlight'[q] = m
        OBVIOUS
      <4>1. q \in Profile /\ q \in settled
        BY <2>2 DEF TypeOK
      <4>2. m # n /\ kem[m].at = "minting" /\ kem[m].profile = q
        BY <2>3
      <4>3. kem[m].key = ActiveKey(q) /\ inFlight[q] = m
        BY <4>1, <4>2 DEF Truthful, LooksTruthful, MintsTruthful
      <4>4. q # p
        BY <2>6, <4>1, <4>2, <4>3
      <4> QED BY <2>2, <2>3, <2>4, <4>1, <4>3, <4>4
    <3> QED BY <3>1, <3>2, <3>3 DEF Truthful, LooksTruthful, MintsTruthful
  <2>8. InvalidationHolds'
    <3>1. \A q \in Profile : activeDek[q] \in Deks
      BY DEF TypeOK
    <3> SUFFICES ASSUME NEW q \in settled
                 PROVE  /\ keyCache'[q] \in {Unknown, ActiveKey(q)'}
                        /\ activeDek'[q] # Nothing =>
                              kem'[activeDek'[q]].key = ActiveKey(q)'
      BY <2>2 DEF InvalidationHolds
    <3>2. q \in Profile /\ ActiveKey(q)' = ActiveKey(q) /\ keyCache' = keyCache
      BY <1>a, <2>2
    <3>3. CASE q = p
      BY <2>3, <2>4, <2>6, <3>2, <3>3 DEF InvalidationHolds
    <3>4. CASE q # p
      BY <2>3, <2>4, <3>1, <3>2, <3>4 DEF InvalidationHolds, Deks
    <3> QED BY <3>3, <3>4
  <2>9. SealedForCurrentKey'
    <3> SUFFICES ASSUME NEW g \in Flusher, NEW q \in Profile,
                        <<g, q>> \in current', lookup'[g][q].at = "done"
                 PROVE  /\ lookup'[g][q].key = ActiveKey(q)'
                        /\ lookup'[g][q].key \in Hybrid =>
                              /\ lookup'[g][q].dek \in Kem
                              /\ kem'[lookup'[g][q].dek].key = lookup'[g][q].key
      BY DEF SealedForCurrentKey
    <3>1. <<g, q>> \in current /\ q \in settled
      BY <2>2 DEF Truthful, LooksTruthful, MintsTruthful
    <3>2. CASE lookup[g][q].at = "await" /\ lookup[g][q].dek = n
      <4>1. q = p
        BY <3>2 DEF LooksWired
      <4>2. lookup[g][q].key = ActiveKey(q)
        BY <3>1, <3>2 DEF Truthful, LooksTruthful, MintsTruthful
      <4>0. lookup'[g][q] = Look("done", lookup[g][q].key, n)
        BY <2>5, <3>2
      <4>3. lookup'[g][q].key = lookup[g][q].key /\ lookup'[g][q].dek = n
        BY <4>0 DEF Look
      <4> QED BY <2>2, <2>3, <2>6, <3>1, <4>1, <4>2, <4>3
    <3>3. CASE ~(lookup[g][q].at = "await" /\ lookup[g][q].dek = n)
      <4>1. lookup'[g][q] = lookup[g][q]
        BY <2>5, <3>3
      <4> QED BY <2>2, <2>3, <3>1, <4>1 DEF SealedForCurrentKey
    <3> QED BY <3>2, <3>3
  <2> QED BY <2>7, <2>8, <2>9 DEF Claims
<1>6. ASSUME NEW f \in Flusher, NEW ns \in SUBSET Kem, Cite(f, ns)
      PROVE  Claims'
  <2>1. /\ \A q \in Profile : ActiveKey(q)' = ActiveKey(q)
        /\ UNCHANGED <<keyCache, activeDek, inFlight, kem, settled>>
        /\ current' = current \ ({f} \X Profile)
    BY <1>6 DEF Cite, database, ActiveKey
  <2>2. /\ \A q \in Profile : lookup'[f][q] = NoLook
        /\ \A g \in Flusher \ {f} : lookup'[g] = lookup[g]
    BY <1>6 DEF Cite, TypeOK
  <2>3. Truthful'
    BY <1>a, <1>b, <2>1, <2>2 DEF Truthful, LooksTruthful, MintsTruthful, NoLook, Look
  <2>4. InvalidationHolds'
    BY <2>1 DEF InvalidationHolds, TypeOK
  <2>5. SealedForCurrentKey'
    BY <2>1, <2>2 DEF SealedForCurrentKey
  <2> QED BY <2>3, <2>4, <2>5 DEF Claims
<1>7. ASSUME NEW ps \in SUBSET Profile, Rewrite(ps), Unsettle(ps),
             UNCHANGED <<memory, kem>>
      PROVE  Claims'
  <2>1. /\ \A q \in Profile \ ps : ActiveKey(q)' = ActiveKey(q)
        /\ UNCHANGED <<keyCache, activeDek, inFlight, lookup, kem>>
    BY <1>7, RewriteOf DEF memory
  <2>2. /\ settled' = settled \ ps
        /\ current' = current \ (Flusher \X ps)
    BY <1>7 DEF Unsettle
  <2>3. Truthful'
    BY <1>a, <1>b, <2>1, <2>2 DEF Truthful, LooksTruthful, MintsTruthful
  <2>4. InvalidationHolds'
    BY <2>1, <2>2 DEF InvalidationHolds, TypeOK
  <2>5. SealedForCurrentKey'
    BY <2>1, <2>2 DEF SealedForCurrentKey
  <2> QED BY <2>3, <2>4, <2>5 DEF Claims
<1>8. ASSUME NEW h \in Handler, Invalidate(h)
      PROVE  Claims'
  <2> DEFINE ps == handler[h]
  <2>1. /\ \A q \in Profile : ActiveKey(q)' = ActiveKey(q)
        /\ UNCHANGED <<lookup, kem>>
        /\ settled' = (settled \ ps) \cup {q \in ps : Quiet(q)}
        /\ current' = current \ (Flusher \X ps)
    BY <1>8 DEF Invalidate, Settle, database, ActiveKey
  <2>2. ps \subseteq Profile
    BY DEF TypeOK
  <2>3. /\ \A q \in ps : /\ keyCache'[q] = Unknown
                         /\ activeDek'[q] = Nothing
                         /\ inFlight'[q] = Nothing
        /\ \A q \in Profile \ ps : /\ keyCache'[q] = keyCache[q]
                                   /\ activeDek'[q] = activeDek[q]
                                   /\ inFlight'[q] = inFlight[q]
    BY <1>8, <2>2 DEF Invalidate
  <2> HIDE DEF ps
  <2>4. \A q \in settled' : q \in ps \/ q \in settled \ ps
    BY <2>1
  <2>5. \A q \in settled' : q \in ps => Quiet(q)
    BY <2>1
  <2>6. Truthful'
    <3>1. current' \subseteq Flusher \X settled'
      BY <2>1 DEF Truthful, LooksTruthful, MintsTruthful
    <3>2. \A q \in settled', g \in Flusher :
             lookup'[g][q].at \in {"answer", "ensure", "await"} =>
                 lookup'[g][q].key = ActiveKey(q)'
      BY <1>a, <1>b, <2>1, <2>2, <2>4, <2>5 DEF Truthful, LooksTruthful, MintsTruthful, Quiet
    <3>3. \A q \in settled', m \in Kem :
             kem'[m].at = "minting" /\ kem'[m].profile = q =>
                 kem'[m].key = ActiveKey(q)' /\ inFlight'[q] = m
      BY <1>a, <1>b, <2>1, <2>2, <2>3, <2>4, <2>5 DEF Truthful, LooksTruthful, MintsTruthful, Quiet
    <3> QED BY <3>1, <3>2, <3>3 DEF Truthful, LooksTruthful, MintsTruthful
  <2>7. InvalidationHolds'
    BY <2>1, <2>2, <2>3, <2>4 DEF InvalidationHolds, TypeOK
  <2>8. SealedForCurrentKey'
    BY <2>1 DEF SealedForCurrentKey
  <2> QED BY <2>6, <2>7, <2>8 DEF Claims
<1>9. ASSUME NEW p \in Profile, KeyEntryExpires(p) \/ DekExpires(p)
      PROVE  Claims'
  <2>1. /\ \A q \in Profile : activeDek'[q] \in {activeDek[q], Nothing}
        /\ \A q \in Profile : keyCache'[q] \in {keyCache[q], Unknown}
        /\ \A q \in Profile : ActiveKey(q)' = ActiveKey(q)
        /\ UNCHANGED <<inFlight, lookup, kem, settled, current>>
    BY <1>9 DEF KeyEntryExpires, DekExpires, TypeOK, database, history, ActiveKey
  <2>2. Truthful'
    BY <1>a, <1>b, <2>1 DEF Truthful, LooksTruthful, MintsTruthful
  <2>3. InvalidationHolds'
    BY <2>1 DEF InvalidationHolds, TypeOK
  <2>4. SealedForCurrentKey'
    BY <2>1 DEF SealedForCurrentKey
  <2> QED BY <2>2, <2>3, <2>4 DEF Claims
<1>10. ASSUME NEW n \in Kem, DayPasses(n) \/ LogsRetire(n)
       PROVE  Claims'
  <2>1. UNCHANGED <<database, keyCache, activeDek, inFlight, lookup, kem, settled, current>>
    BY <1>10 DEF DayPasses, LogsRetire, memory, history
  <2> QED BY <2>1 DEF database, ActiveKey, Claims, Truthful, LooksTruthful,
                      MintsTruthful, InvalidationHolds, SealedForCurrentKey
<1>11. ASSUME NEW n \in Kem, CleanupOrphan(n)
       PROVE  Claims'
  <2>1. /\ \A m \in Kem : kem'[m].key = kem[m].key /\ kem'[m].profile = kem[m].profile
        /\ \A m \in Kem : kem'[m].at = "minting" => kem[m].at = "minting"
        /\ \A q \in Profile : ActiveKey(q)' = ActiveKey(q)
        /\ UNCHANGED <<keyCache, activeDek, inFlight, lookup, settled, current>>
    BY <1>11 DEF CleanupOrphan, Deletes, Mint, TypeOK, database, memory, history, ActiveKey
  <2>2. Truthful'
    BY <1>a, <1>b, <2>1 DEF Truthful, LooksTruthful, MintsTruthful
  <2>3. InvalidationHolds'
    BY <2>1 DEF InvalidationHolds, TypeOK, Deks
  <2>4. SealedForCurrentKey'
    BY <2>1 DEF SealedForCurrentKey
  <2> QED BY <2>2, <2>3, <2>4 DEF Claims
<1>12. CASE Restart
  <2>1. /\ settled' = Profile /\ current' = {}
        /\ \A q \in Profile : keyCache'[q] = Unknown /\ activeDek'[q] = Nothing
        /\ \A g \in Flusher, q \in Profile : lookup'[g][q] = NoLook
        /\ \A m \in Kem : kem'[m].at # "minting"
    BY <1>12 DEF Restart, Mint
  <2> QED BY <2>1 DEF Claims, Truthful, LooksTruthful, MintsTruthful, InvalidationHolds, SealedForCurrentKey, NoLook, Look
<1>13. CASE UNCHANGED vars
  BY <1>13 DEF vars, database, memory, history, ActiveKey, Claims, Truthful, LooksTruthful, MintsTruthful,
               InvalidationHolds, SealedForCurrentKey
<1> QED BY <1>1, <1>2, <1>3, <1>4, <1>5, <1>6, <1>7, <1>8, <1>9, <1>10, <1>11,
           <1>12, <1>13
        DEF Next, LookupStep, EnsureStep, Surroundings, ConfigureHere, ConfigureElsewhere

-----------------------------------------------------------------------------
LEMMA InitHolds == Init => IInv
<1> SUFFICES ASSUME Init PROVE IInv
  OBVIOUS
<1>1. TypeOK
  BY ChangesAssumption DEF Init, TypeOK, NoLook, Look, Unminted, Mint, Keys, Deks,
     LookAts, MintAts
<1>2. Wired /\ LooksWired /\ KeyKept
  BY DEF Init, Wired, LooksWired, KeyKept, NoLook, Look, Unminted, Mint
<1>3. Claims
  BY DEF Init, Claims, Truthful, LooksTruthful, MintsTruthful, InvalidationHolds,
     SealedForCurrentKey, NoLook, Look, Unminted, Mint
<1> QED BY <1>1, <1>2, <1>3 DEF IInv, Claims

THEOREM Invariance == Spec => []IInv
<1>1. IInv /\ [Next]_vars => IInv'
  BY TypeStep, WiringStep, ClaimsStep DEF IInv, Claims
<1> QED BY <1>1, InitHolds, PTL DEF Spec

(* Every variable of LogKeys keeps its shape.                              *)
THEOREM TypeCorrect == Spec => []TypeOK
<1>1. IInv => TypeOK
  BY DEF IInv
<1> QED BY <1>1, Invariance, PTL

(* invalidateProfileLogKeyCache does what getProfileLogPublicKey's comment *)
(* expects of it, when it met no lookup or minting of the profile.         *)
THEOREM InvalidationsHold == Spec => []InvalidationHolds
<1>1. IInv => InvalidationHolds
  BY DEF IInv
<1> QED BY <1>1, Invariance, PTL

(* What a flush of a settled profile writes is sealed for the current key. *)
THEOREM SealedCurrently == Spec => []SealedForCurrentKey
<1>1. IInv => SealedForCurrentKey
  BY DEF IInv
<1> QED BY <1>1, Invariance, PTL

(* Flushes of a settled profile never mint two data keys at a time.        *)
THEOREM MintsOnce == Spec => []NoDuplicateMint
<1>1. IInv => NoDuplicateMint
  BY DEF IInv, Truthful, MintsTruthful, NoDuplicateMint
<1> QED BY <1>1, Invariance, PTL

(* cleanupOrphans never deletes the row of a data key that a log cites.    *)
THEOREM KeysKept == Spec => []KeyKept
<1>1. IInv => KeyKept
  BY DEF IInv
<1> QED BY <1>1, Invariance, PTL

-----------------------------------------------------------------------------
(* The batcher.                                                            *)

(* Only a flush that looks up keys has a batch.                            *)
BatchInHand == \A f \in Flush : stage[f] # "keys" => batch[f] = <<>>

(* The flushes that have yet to take their batch. A queue without a timer  *)
(* has one of them, and one more for each log beyond a batch: the log that *)
(* filled the queue, and each log after it, began a flush of its own.      *)
Quota == {f \in Flush : stage[f] = "quota"}
Awaited == /\ IsFiniteSet(Quota)
           /\ queue # <<>> => timers > 0 \/ Quota # {}
           /\ Len(queue) >= BatchSize => Cardinality(Quota) > Len(queue) - BatchSize

BatcherInv == /\ BatcherTypeOK /\ FlagIsHonest /\ Awaited /\ SilencedIsEmpty
              /\ OncePlaced /\ BatchInHand

-----------------------------------------------------------------------------
LEMMA EmptyBatch == <<>> \in Seq(Log)
OBVIOUS

LEMMA FrontSplits ==
    ASSUME BatcherTypeOK
    PROVE  /\ SubSeq(queue, 1, Front) \in Seq(Log)
           /\ SubSeq(queue, Front + 1, Len(queue)) \in Seq(Log)
           /\ Len(SubSeq(queue, 1, Front)) = Front
           /\ Len(SubSeq(queue, Front + 1, Len(queue))) = Len(queue) - Front
           /\ \A i \in 1..Front : SubSeq(queue, 1, Front)[i] = queue[i]
           /\ \A i \in 1..(Len(queue) - Front) :
                 SubSeq(queue, Front + 1, Len(queue))[i] = queue[Front + i]
           /\ Front \in 0..Len(queue)
           /\ queue # <<>> => Front > 0
<1>1. queue \in Seq(Log) /\ Len(queue) \in Nat /\ BatchSize \in Nat \ {0}
  BY SizeAssumption DEF BatcherTypeOK
<1>2. Front \in 0..Len(queue) /\ (queue # <<>> => Front > 0)
  BY <1>1 DEF Front
<1>3. /\ \A i \in 1..Front : queue[i] \in Log
      /\ \A i \in (Front + 1)..Len(queue) : queue[i] \in Log
  BY <1>1, <1>2
<1>4. /\ SubSeq(queue, 1, Front) \in Seq(Log)
      /\ Len(SubSeq(queue, 1, Front)) = Front
      /\ \A i \in 1..Front : SubSeq(queue, 1, Front)[i] = queue[i]
  BY <1>1, <1>2, <1>3, SubSeqProperties
<1>5. /\ SubSeq(queue, Front + 1, Len(queue)) \in Seq(Log)
      /\ Len(SubSeq(queue, Front + 1, Len(queue))) = Len(queue) - Front
      /\ \A i \in 1..(Len(queue) - Front) :
            SubSeq(queue, Front + 1, Len(queue))[i] = queue[Front + i]
  <2>1. \A i \in 1..(Len(queue) - (Front + 1) + 1) :
           SubSeq(queue, Front + 1, Len(queue))[i] = queue[(Front + 1) + i - 1]
    BY <1>1, <1>2, <1>3, SubSeqProperties
  <2>2. /\ SubSeq(queue, Front + 1, Len(queue)) \in Seq(Log)
        /\ Len(SubSeq(queue, Front + 1, Len(queue)))
             = IF Front + 1 <= Len(queue) THEN Len(queue) - (Front + 1) + 1 ELSE 0
    BY <1>1, <1>2, <1>3, SubSeqProperties
  <2> QED BY <1>1, <1>2, <2>1, <2>2
<1> QED BY <1>2, <1>4, <1>5

(* What a started flush and a scheduled timer do to the bookkeeping.       *)
LEMMA Started ==
    ASSUME BatcherTypeOK, NEW f \in Flush, NEW q, StartFlush(f, q)
    PROVE  /\ scheduled' = FALSE /\ recent' = TRUE
           /\ stage' \in [Flush -> {"idle", "quota", "keys"}]
           /\ stage[f] = "idle" /\ stage'[f] \in {"idle", "quota"}
           /\ q # <<>> => stage'[f] = "quota"
           /\ \A g \in Flush \ {f} : stage'[g] = stage[g]
BY DEF StartFlush, BatcherTypeOK

LEMMA Scheduled ==
    ASSUME BatcherTypeOK, FlagIsHonest, Schedule
    PROVE  scheduled' = TRUE /\ timers' \in Nat /\ timers' > 0
BY DEF Schedule, BatcherTypeOK, FlagIsHonest

-----------------------------------------------------------------------------
LEMMA BookkeepingStep ==
    BatcherTypeOK /\ FlagIsHonest /\ SilencedIsEmpty /\ BatchInHand
      /\ [BatcherNext]_batcher
        => BatcherTypeOK' /\ FlagIsHonest' /\ SilencedIsEmpty' /\ BatchInHand'
<1> SUFFICES ASSUME BatcherTypeOK, FlagIsHonest, SilencedIsEmpty,
                    BatchInHand, [BatcherNext]_batcher
             PROVE  BatcherTypeOK' /\ FlagIsHonest' /\ SilencedIsEmpty'
                      /\ BatchInHand'
  OBVIOUS
<1> DEFINE Goal == BatcherTypeOK' /\ FlagIsHonest' /\ SilencedIsEmpty'
                     /\ BatchInHand'
<1> USE DEF Fates
<1>1. ASSUME NEW l \in Log, EnqueueLog(l) PROVE Goal
  <2> DEFINE q == Append(queue, l)
  <2>1. q \in Seq(Log) /\ q # <<>>
    BY AppendProperties DEF BatcherTypeOK
  <2>2. /\ queue' = q /\ ~silenced /\ UNCHANGED <<breaker, batch, ends>>
        /\ fate' \in [Log -> Fates]
    BY <1>1 DEF EnqueueLog, Became, BatcherTypeOK
  <2> HIDE DEF q
  <2>3. ASSUME NEW f \in Flush, StartFlush(f, q), UNCHANGED timers PROVE Goal
    <3>1. BatcherTypeOK'
      BY <2>1, <2>2, <2>3, Started DEF BatcherTypeOK, breaker
    <3>2. scheduled' = FALSE /\ stage'[f] = "quota"
      BY <2>1, <2>3, Started
    <3>3. FlagIsHonest'
      BY <3>2 DEF FlagIsHonest
    <3>4. SilencedIsEmpty'
      BY <2>2 DEF SilencedIsEmpty, breaker
    <3>5. BatchInHand'
      BY <2>2, <2>3, Started DEF BatchInHand
    <3> QED BY <3>1, <3>3, <3>4, <3>5
  <2>4. ASSUME Schedule, UNCHANGED <<recent, stage>> PROVE Goal
    BY <2>1, <2>2, <2>4, Scheduled
       DEF BatcherTypeOK, FlagIsHonest, SilencedIsEmpty, BatchInHand, breaker
  <2> QED BY <1>1, <2>3, <2>4 DEF EnqueueLog, q
<1>2. ASSUME NEW l \in Log, SkipLog(l) PROVE Goal
  BY <1>2 DEF SkipLog, Became, BatcherTypeOK, FlagIsHonest, SilencedIsEmpty,
              BatchInHand, breaker
<1>3. ASSUME NEW f \in Flush, TimerFires(f) PROVE Goal
  <2>1. timers > 0 /\ timers' = timers - 1 /\ timers' \in Nat
    BY <1>3 DEF TimerFires, BatcherTypeOK
  <2>2. StartFlush(f, queue) /\ UNCHANGED <<queue, breaker, batch, fate, ends>>
    BY <1>3 DEF TimerFires
  <2>3. BatcherTypeOK'
    BY <2>1, <2>2, Started DEF BatcherTypeOK, breaker
  <2>4. FlagIsHonest' /\ SilencedIsEmpty'
    <3>1. scheduled' = FALSE /\ (queue # <<>> => stage'[f] = "quota")
      BY <2>2, Started
    <3>2. FlagIsHonest'
      BY <2>2, <3>1 DEF FlagIsHonest
    <3>3. SilencedIsEmpty'
      BY <2>2 DEF SilencedIsEmpty, breaker
    <3> QED BY <3>2, <3>3
  <2>5. BatchInHand'
    BY <2>2, Started DEF BatchInHand
  <2> QED BY <2>3, <2>4, <2>5
<1>4. ASSUME NEW f \in Flush, FindTripped(f) PROVE Goal
  BY <1>4 DEF FindTripped, Became, BatcherTypeOK, FlagIsHonest, SilencedIsEmpty,
              BatchInHand
<1>5. ASSUME NEW f \in Flush, TakeBatch(f) PROVE Goal
  <2> DEFINE took == SubSeq(queue, 1, Front)
             left == SubSeq(queue, Front + 1, Len(queue))
  <2>1. /\ took \in Seq(Log) /\ left \in Seq(Log)
        /\ queue # <<>> => took # <<>>
        /\ queue = <<>> => left = <<>>
    BY FrontSplits DEF BatcherTypeOK
  <2>2. /\ queue' = left /\ ~silenced
        /\ batch' = [batch EXCEPT ![f] = took]
        /\ stage' = [stage EXCEPT ![f] = IF took = <<>> THEN "idle" ELSE "keys"]
        /\ UNCHANGED <<scheduled, recent, timers, breaker, fate, ends>>
    BY <1>5 DEF TakeBatch, Takes
  <2> HIDE DEF took, left
  <2>3. BatcherTypeOK'
    BY <2>1, <2>2 DEF BatcherTypeOK, breaker
  <2>4. BatchInHand'
    BY <2>2 DEF BatchInHand, BatcherTypeOK
  <2> QED BY <2>2, <2>3, <2>4 DEF FlagIsHonest, SilencedIsEmpty, breaker
<1>6. ASSUME NEW f \in Flush, NEW what \in {"written", "dropped"}, EndFlush(f, what)
      PROVE  Goal
  <2>1. /\ queue' = queue /\ UNCHANGED <<recent, breaker, ends>>
        /\ fate' \in [Log -> Fates]
        /\ batch' = [batch EXCEPT ![f] = <<>>]
        /\ stage' = [stage EXCEPT ![f] = "idle"]
    BY <1>6 DEF EndFlush, Ends, Became, BatcherTypeOK
  <2>2. /\ scheduled' \in BOOLEAN /\ timers' \in Nat
        /\ scheduled' => timers' > 0
    BY <1>6, Scheduled DEF EndFlush, BatcherTypeOK, FlagIsHonest
  <2>3. BatcherTypeOK'
    BY <2>1, <2>2 DEF BatcherTypeOK, breaker
  <2> QED BY <2>1, <2>2, <2>3
          DEF FlagIsHonest, SilencedIsEmpty, BatchInHand, breaker, BatcherTypeOK
<1>11. ASSUME NEW f \in Flush, KeysThrow(f) PROVE Goal
  <2>1. /\ queue' = queue /\ UNCHANGED <<recent, timers, breaker, ends>>
        /\ fate' \in [Log -> Fates]
        /\ batch' = [batch EXCEPT ![f] = <<>>]
        /\ stage' = [stage EXCEPT ![f] = "idle"]
        /\ UNCHANGED scheduled \/ scheduled' = FALSE
    BY <1>11 DEF KeysThrow, Ends, Became, BatcherTypeOK
  <2>2. scheduled' \in BOOLEAN /\ (scheduled' => scheduled)
    <3>1. scheduled \in BOOLEAN
      BY DEF BatcherTypeOK
    <3>2. CASE UNCHANGED scheduled
      BY <3>1, <3>2, Zenon
    <3>3. CASE scheduled' = FALSE
      BY <3>3, Zenon
    <3> QED BY <2>1, <3>2, <3>3, Zenon
  <2>3. BatcherTypeOK'
    BY <2>1, <2>2 DEF BatcherTypeOK, breaker
  <2> QED BY <2>1, <2>2, <2>3
          DEF FlagIsHonest, SilencedIsEmpty, BatchInHand, breaker, BatcherTypeOK
<1>7. ASSUME NEW f \in Flush, QuotaExceeded(f) PROVE Goal
  <2>1. BatcherTypeOK'
    <3>1. queue' \in Seq(Log) /\ batch' \in [Flush -> Seq(Log)]
      BY <1>7, EmptyBatch DEF QuotaExceeded, Trips, BatcherTypeOK
    <3>2. fate' \in [Log -> Fates]
      BY <1>7 DEF QuotaExceeded, Trips, Became, BatcherTypeOK
    <3>3. silenced' \in BOOLEAN /\ noted' \in BOOLEAN /\ scheduled' \in BOOLEAN
      BY <1>7 DEF QuotaExceeded, Trips, BatcherTypeOK
    <3> QED BY <1>7, <3>1, <3>2, <3>3 DEF QuotaExceeded, Trips, BatcherTypeOK
  <2>2. FlagIsHonest' /\ SilencedIsEmpty'
    BY <1>7 DEF QuotaExceeded, Trips, FlagIsHonest, SilencedIsEmpty
  <2>3. BatchInHand'
    BY <1>7 DEF QuotaExceeded, Trips, BatchInHand, BatcherTypeOK
  <2> QED BY <2>1, <2>2, <2>3
<1>8. CASE IntervalPasses \/ CooldownEnds \/ TripsElsewhere
  <2>1. /\ UNCHANGED <<queue, scheduled, timers, stage, batch, fate, ends>>
        /\ recent' \in BOOLEAN /\ silenced' \in BOOLEAN /\ noted' \in BOOLEAN
        /\ silenced' => silenced
    <3>1. CASE IntervalPasses
      BY <3>1 DEF IntervalPasses, BatcherTypeOK, breaker
    <3>2. CASE CooldownEnds
      BY <3>2 DEF CooldownEnds, BatcherTypeOK
    <3>3. CASE TripsElsewhere
      BY <3>3 DEF TripsElsewhere, BatcherTypeOK
    <3> QED BY <1>8, <3>1, <3>2, <3>3
  <2>2. BatcherTypeOK'
    BY <2>1 DEF BatcherTypeOK
  <2> QED BY <2>1, <2>2 DEF FlagIsHonest, SilencedIsEmpty, BatchInHand
<1>9. CASE IsolateEnds
  <2>1. BatcherTypeOK'
    <3>1. queue' \in Seq(Log) /\ batch' \in [Flush -> Seq(Log)]
      BY <1>9, EmptyBatch DEF IsolateEnds
    <3>2. fate' \in [Log -> Fates]
      BY <1>9 DEF IsolateEnds, Became, BatcherTypeOK
    <3>3. ends' \in 0..MaxEnds
      BY <1>9, EndsAssumption DEF IsolateEnds, BatcherTypeOK
    <3> QED BY <1>9, <3>1, <3>2, <3>3 DEF IsolateEnds, BatcherTypeOK
  <2>2. FlagIsHonest' /\ SilencedIsEmpty'
    BY <1>9 DEF IsolateEnds, FlagIsHonest, SilencedIsEmpty
  <2>3. BatchInHand'
    BY <1>9 DEF IsolateEnds, BatchInHand
  <2> QED BY <2>1, <2>2, <2>3
<1>10. CASE UNCHANGED batcher
  BY <1>10 DEF batcher, breaker, BatcherTypeOK, FlagIsHonest, SilencedIsEmpty,
               BatchInHand
<1> QED BY <1>1, <1>2, <1>3, <1>4, <1>5, <1>6, <1>7, <1>8, <1>9, <1>10, <1>11
        DEF BatcherNext, FlushStep, WriteStep, WriteBatch, WriteFails

-----------------------------------------------------------------------------
(* How the set of those flushes changes.                                   *)
LEMMA QuotaGains ==
    ASSUME IsFiniteSet(Quota), NEW f \in Flush, stage[f] # "quota",
           Quota' = Quota \cup {f}
    PROVE  /\ IsFiniteSet(Quota') /\ f \in Quota'
           /\ Cardinality(Quota) \in Nat
           /\ Cardinality(Quota') = Cardinality(Quota) + 1
<1>1. f \notin Quota
  BY DEF Quota
<1> QED BY <1>1, FS_AddElement, FS_CardinalityType

LEMMA QuotaLoses ==
    ASSUME IsFiniteSet(Quota), NEW f \in Quota, Quota' = Quota \ {f}
    PROVE  /\ IsFiniteSet(Quota')
           /\ Cardinality(Quota) \in Nat
           /\ Cardinality(Quota') = Cardinality(Quota) - 1
BY FS_RemoveElement, FS_CardinalityType

LEMMA AwaitedStep ==
    BatcherTypeOK /\ FlagIsHonest /\ Awaited /\ [BatcherNext]_batcher => Awaited'
<1> SUFFICES ASSUME BatcherTypeOK, FlagIsHonest, Awaited, [BatcherNext]_batcher
             PROVE  Awaited'
  OBVIOUS
<1>0. /\ queue \in Seq(Log) /\ Len(queue) \in Nat /\ BatchSize \in Nat \ {0}
      /\ timers \in Nat /\ DOMAIN stage = Flush
      /\ IsFiniteSet(Quota) /\ Cardinality(Quota) \in Nat
  BY SizeAssumption, FS_CardinalityType DEF BatcherTypeOK, Awaited
(* A flush that keeps off the quota stage, with the queue and timers kept. *)
<1>1. ASSUME Quota' = Quota, queue' = queue, timers' >= timers, timers' \in Nat
      PROVE  Awaited'
  BY <1>0, <1>1 DEF Awaited
<1>2. ASSUME queue' = <<>>, IsFiniteSet(Quota') PROVE Awaited'
  <2>1. Len(queue') = 0
    BY <1>2
  <2> QED BY <1>0, <1>2, <2>1 DEF Awaited
<1>3. ASSUME NEW f \in Flush, NEW q, StartFlush(f, q)
      PROVE  /\ q # <<>> => Quota' = Quota \cup {f}
             /\ q = <<>> => Quota' = Quota
             /\ stage[f] # "quota"
  BY <1>0, <1>3 DEF StartFlush, Quota
<1>4. ASSUME NEW l \in Log, EnqueueLog(l) PROVE Awaited'
  <2> DEFINE q == Append(queue, l)
  <2>1. q # <<>> /\ Len(q) = Len(queue) + 1 /\ queue' = q
    BY <1>0, <1>4, AppendProperties DEF EnqueueLog
  <2>2. \/ \E f \in Flush : StartFlush(f, q)
        \/ Schedule /\ UNCHANGED stage /\ Len(q) < BatchSize
    BY <1>0, <1>4, <2>1 DEF EnqueueLog
  <2> HIDE DEF q
  <2>3. ASSUME NEW f \in Flush, StartFlush(f, q) PROVE Awaited'
    <3>1. Quota' = Quota \cup {f} /\ stage[f] # "quota"
      BY <1>3, <2>1, <2>3
    <3>2. /\ IsFiniteSet(Quota') /\ f \in Quota'
          /\ Cardinality(Quota') = Cardinality(Quota) + 1
      BY <1>0, <3>1, QuotaGains
    <3>3. Len(queue') >= BatchSize => Cardinality(Quota') > Len(queue') - BatchSize
      BY <1>0, <2>1, <3>2 DEF Awaited
    <3> QED BY <3>2, <3>3 DEF Awaited
  <2>4. CASE Schedule /\ UNCHANGED stage /\ Len(q) < BatchSize
    <3>1. timers' > 0
      BY <2>4, Scheduled
    <3>2. Quota' = Quota
      BY <2>4 DEF Quota
    <3>3. ~(Len(queue') >= BatchSize)
      BY <1>0, <2>1, <2>4
    <3> QED BY <1>0, <3>1, <3>2, <3>3 DEF Awaited
  <2> QED BY <2>2, <2>3, <2>4
<1>5. ASSUME NEW f \in Flush, TimerFires(f) PROVE Awaited'
  <2>1. StartFlush(f, queue) /\ queue' = queue /\ timers' \in Nat
    BY <1>0, <1>5 DEF TimerFires
  <2>2. CASE queue = <<>>
    <3>1. Quota' = Quota
      BY <1>3, <2>1, <2>2
    <3> QED BY <1>0, <1>2, <2>1, <2>2, <3>1
  <2>3. CASE queue # <<>>
    <3>1. Quota' = Quota \cup {f} /\ stage[f] # "quota"
      BY <1>3, <2>1, <2>3
    <3>2. /\ IsFiniteSet(Quota') /\ f \in Quota'
          /\ Cardinality(Quota') = Cardinality(Quota) + 1
      BY <1>0, <3>1, QuotaGains
    <3> QED BY <1>0, <2>1, <3>2 DEF Awaited
  <2> QED BY <2>2, <2>3
<1>6. ASSUME NEW f \in Flush, TakeBatch(f) PROVE Awaited'
  <2> DEFINE left == SubSeq(queue, Front + 1, Len(queue))
  <2>1. /\ queue' = left /\ left \in Seq(Log)
        /\ Len(left) = Len(queue) - Front
        /\ Front = IF Len(queue) < BatchSize THEN Len(queue) ELSE BatchSize
    BY <1>6, FrontSplits DEF TakeBatch, Takes, Front
  <2>2. f \in Quota /\ Quota' = Quota \ {f}
    BY <1>0, <1>6 DEF TakeBatch, Takes, Quota
  <2>3. IsFiniteSet(Quota') /\ Cardinality(Quota') = Cardinality(Quota) - 1
    BY <1>0, <2>2, QuotaLoses
  <2> HIDE DEF left
  <2>4. CASE Len(queue) <= BatchSize
    <3>1. Len(left) = 0
      BY <1>0, <2>1, <2>4
    <3> QED BY <1>2, <2>1, <2>3, <3>1
  <2>5. CASE Len(queue) > BatchSize
    <3>1. /\ Len(queue') = Len(queue) - BatchSize
          /\ Cardinality(Quota') > Len(queue) - BatchSize - 1
      BY <1>0, <2>1, <2>3, <2>5 DEF Awaited
    <3>2. Quota' # {}
      <4>1. Quota' = {} => Cardinality(Quota') = 0
        BY FS_EmptySet, Zenon
      <4> QED BY <1>0, <2>5, <3>1, <4>1
    <3>3. Cardinality(Quota') \in Nat
      BY <2>3, FS_CardinalityType
    <3> QED BY <1>0, <2>3, <3>1, <3>2, <3>3 DEF Awaited
  <2> QED BY <1>0, <2>4, <2>5
<1>7. ASSUME NEW f \in Flush, FindTripped(f) PROVE Awaited'
  <2>1. f \in Quota /\ Quota' = Quota \ {f} /\ queue' = <<>>
    BY <1>0, <1>7 DEF FindTripped, Quota
  <2> QED BY <1>0, <1>2, <2>1, QuotaLoses
<1>8. ASSUME NEW f \in Flush, stage[f] = "keys", stage' = [stage EXCEPT ![f] = "idle"]
      PROVE  Quota' = Quota
  BY <1>0, <1>8 DEF Quota
<1>9. ASSUME NEW f \in Flush, WriteStep(f) PROVE Awaited'
  <2>1. Quota' = Quota
    BY <1>8, <1>9
       DEF WriteStep, WriteBatch, WriteFails, EndFlush, KeysThrow, Ends, QuotaExceeded, Trips
  <2>2. CASE QuotaExceeded(f)
    BY <1>0, <1>2, <2>1, <2>2 DEF QuotaExceeded, Trips
  <2>3. CASE ~QuotaExceeded(f)
    <3>1. queue' = queue
      BY <1>9, <2>3 DEF WriteStep, WriteBatch, WriteFails, EndFlush, KeysThrow, Ends
    <3>2. UNCHANGED timers \/ Schedule
      BY <1>9, <2>3 DEF WriteStep, WriteBatch, WriteFails, EndFlush, KeysThrow
    <3>3. timers' \in Nat /\ timers' >= timers
      BY <1>0, <3>2 DEF Schedule
    <3> QED BY <1>1, <2>1, <3>1, <3>3
  <2> QED BY <2>2, <2>3
<1>10. CASE IsolateEnds
  <2>1. Quota' = {} /\ queue' = <<>>
    BY <1>10 DEF IsolateEnds, Quota
  <2> QED BY <1>2, <2>1, FS_EmptySet
<1>11. CASE \/ \E l \in Log : SkipLog(l)
            \/ IntervalPasses \/ CooldownEnds \/ TripsElsewhere
            \/ UNCHANGED batcher
  <2>1. UNCHANGED <<queue, timers, stage>>
    BY <1>11 DEF SkipLog, IntervalPasses, CooldownEnds, TripsElsewhere, batcher
  <2>2. Quota' = Quota
    BY <2>1 DEF Quota
  <2> QED BY <1>0, <1>1, <2>1, <2>2
<1> QED BY <1>4, <1>5, <1>6, <1>7, <1>9, <1>10, <1>11
        DEF BatcherNext, FlushStep

-----------------------------------------------------------------------------
(* Where a log is, in terms of positions.                                  *)
LEMMA PlacedSame ==
    ASSUME OncePlaced, queue' = queue, batch' = batch,
           \A l \in Log : fate[l] = "held" => fate'[l] = "held", BatcherTypeOK
    PROVE  OncePlaced'
BY DEF OncePlaced, NoRepeats, Elements, BatcherTypeOK

LEMMA PlacesStep ==
    BatcherTypeOK /\ BatcherTypeOK' /\ OncePlaced /\ BatchInHand /\ [BatcherNext]_batcher
      => OncePlaced'
<1> SUFFICES ASSUME BatcherTypeOK, BatcherTypeOK', OncePlaced, BatchInHand, [BatcherNext]_batcher
             PROVE  OncePlaced'
  OBVIOUS
<1>0. /\ Elements(queue) \subseteq Log
      /\ \A f \in Flush : Elements(batch[f]) \subseteq Log
  <2>1. queue \in Seq(Log) /\ \A f \in Flush : batch[f] \in Seq(Log)
    BY DEF BatcherTypeOK
  <2> QED BY <2>1 DEF Elements
<1>1. ASSUME NEW l \in Log, EnqueueLog(l) PROVE OncePlaced'
  <2>1. /\ queue' = Append(queue, l) /\ batch' = batch
        /\ fate[l] = "new" /\ fate'[l] = "held"
        /\ \A m \in Log \ {l} : fate'[m] = fate[m]
    BY <1>1 DEF EnqueueLog, Became
  <2>2. queue \in Seq(Log) /\ Len(queue) \in Nat
    BY DEF BatcherTypeOK
  <2>3. /\ DOMAIN queue' = 1..(Len(queue) + 1)
        /\ DOMAIN queue = 1..Len(queue)
        /\ queue'[Len(queue) + 1] = l
        /\ \A i \in 1..Len(queue) : queue'[i] = queue[i]
    BY <2>1, <2>2, AppendProperties
  <2>4. l \notin Elements(queue) /\ \A f \in Flush : l \notin Elements(batch[f])
    BY <2>1 DEF OncePlaced
  <2>5. Elements(queue') = Elements(queue) \cup {l}
    BY <2>2, <2>3 DEF Elements
  <2>6. NoRepeats(queue')
    BY <2>2, <2>3, <2>4 DEF OncePlaced, NoRepeats, Elements
  <2>7. \A m \in Elements(queue') : fate'[m] = "held"
    BY <1>0, <2>1, <2>5 DEF OncePlaced
  <2> QED BY <1>0, <2>1, <2>4, <2>5, <2>6, <2>7 DEF OncePlaced
<1>2. ASSUME NEW l \in Log, SkipLog(l) PROVE OncePlaced'
  BY <1>2, PlacedSame DEF SkipLog, Became
<1>3. ASSUME NEW f \in Flush, TimerFires(f) PROVE OncePlaced'
  BY <1>3, PlacedSame DEF TimerFires
<1>4. ASSUME NEW f \in Flush, FindTripped(f) PROVE OncePlaced'
  <2>1. /\ queue' = <<>> /\ batch' = batch
        /\ \A m \in Log : m \notin Elements(queue) => fate'[m] = fate[m]
    BY <1>4 DEF FindTripped, Became
  <2>2. NoRepeats(queue') /\ Elements(queue') = {}
    BY <2>1 DEF NoRepeats, Elements
  <2> QED BY <1>0, <2>1, <2>2 DEF OncePlaced
<1>5. ASSUME NEW f \in Flush, TakeBatch(f) PROVE OncePlaced'
  <2> DEFINE took == SubSeq(queue, 1, Front)
             left == SubSeq(queue, Front + 1, Len(queue))
  <2>1. /\ queue' = left /\ fate' = fate
        /\ batch'[f] = took
        /\ \A g \in Flush \ {f} : batch'[g] = batch[g]
        /\ stage[f] = "quota"
    BY <1>5 DEF TakeBatch, Takes, BatcherTypeOK
  <2>2. Len(queue) \in Nat /\ Front \in 0..Len(queue) /\ DOMAIN queue = 1..Len(queue)
    BY FrontSplits DEF BatcherTypeOK
  <2>3. /\ DOMAIN took = 1..Front
        /\ \A i \in 1..Front : took[i] = queue[i]
    BY FrontSplits
  <2>4. /\ DOMAIN left = 1..(Len(queue) - Front)
        /\ \A i \in 1..(Len(queue) - Front) : left[i] = queue[Front + i]
    BY FrontSplits
  <2> HIDE DEF took, left
  <2>5. NoRepeats(took) /\ NoRepeats(left)
    <3>1. NoRepeats(queue)
      BY DEF OncePlaced
    <3>2. NoRepeats(took)
      BY <2>2, <2>3, <3>1 DEF NoRepeats
    <3>3. NoRepeats(left)
      <4> SUFFICES ASSUME NEW i \in 1..(Len(queue) - Front),
                          NEW j \in 1..(Len(queue) - Front),
                          left[i] = left[j]
                   PROVE  i = j
        BY <2>4 DEF NoRepeats
      <4>1. Front + i \in 1..Len(queue) /\ Front + j \in 1..Len(queue)
        BY <2>2
      <4>2. queue[Front + i] = queue[Front + j]
        BY <2>4
      <4>3. Front + i = Front + j
        BY <2>2, <3>1, <4>1, <4>2 DEF NoRepeats
      <4> QED BY <2>2, <4>3
    <3> QED BY <3>2, <3>3
  <2>6. Elements(took) \subseteq Elements(queue) /\ Elements(left) \subseteq Elements(queue)
    <3>1. \A i \in 1..(Len(queue) - Front) : Front + i \in 1..Len(queue)
      BY <2>2
    <3>2. \A i \in 1..Front : i \in 1..Len(queue)
      BY <2>2
    <3> QED BY <2>2, <2>3, <2>4, <3>1, <3>2 DEF Elements
  <2>7. Elements(took) \cap Elements(left) = {}
    BY <2>2, <2>3, <2>4 DEF OncePlaced, NoRepeats, Elements
  <2> QED BY <2>1, <2>5, <2>6, <2>7 DEF OncePlaced
<1>6. ASSUME NEW f \in Flush, NEW left, NEW lost \in SUBSET Log,
             left \in {queue, <<>>},
             queue' = left,
             batch' = [batch EXCEPT ![f] = <<>>],
             lost = Elements(batch[f]) \/ left = <<>>,
             lost \subseteq Elements(batch[f]) \cup Elements(queue),
             \A m \in Log \ lost : fate'[m] = fate[m]
      PROVE  OncePlaced'
  <2>1. /\ batch'[f] = <<>>
        /\ \A g \in Flush \ {f} : batch'[g] = batch[g]
    BY <1>6 DEF BatcherTypeOK
  <2>2. /\ NoRepeats(<<>>) /\ Elements(<<>>) = {}
    BY DEF NoRepeats, Elements
  <2>3. /\ NoRepeats(queue')
        /\ \A l \in Elements(queue') : fate'[l] = "held"
    BY <1>0, <1>6, <2>2 DEF OncePlaced
  <2>4. \A g \in Flush \ {f} : \A l \in Elements(batch[g]) : l \notin lost
    BY <1>6 DEF OncePlaced
  <2> QED BY <1>0, <1>6, <2>1, <2>2, <2>3, <2>4 DEF OncePlaced
<1>7. ASSUME NEW f \in Flush, NEW what \in {"written", "dropped"}, EndFlush(f, what)
      PROVE  OncePlaced'
  <2>1. /\ queue' = queue
        /\ batch' = [batch EXCEPT ![f] = <<>>]
        /\ \A m \in Log \ Elements(batch[f]) : fate'[m] = fate[m]
    BY <1>7 DEF EndFlush, Ends, Became
  <2> QED BY <1>0, <1>6, <2>1
<1>12. ASSUME NEW f \in Flush, KeysThrow(f) PROVE OncePlaced'
  <2>1. /\ queue' = queue
        /\ batch' = [batch EXCEPT ![f] = <<>>]
        /\ \A m \in Log \ Elements(batch[f]) : fate'[m] = fate[m]
    BY <1>12 DEF KeysThrow, Ends, Became
  <2> QED BY <1>0, <1>6, <2>1
<1>8. ASSUME NEW f \in Flush, QuotaExceeded(f) PROVE OncePlaced'
  <2> DEFINE lost == Elements(batch[f]) \cup Elements(queue)
  <2>1. /\ queue' = <<>>
        /\ batch' = [batch EXCEPT ![f] = <<>>]
        /\ \A m \in Log \ lost : fate'[m] = fate[m]
    BY <1>8 DEF QuotaExceeded, Trips, Became
  <2> QED BY <1>0, <1>6, <2>1
<1>9. CASE IntervalPasses \/ CooldownEnds \/ TripsElsewhere
  BY <1>9, PlacedSame DEF IntervalPasses, CooldownEnds, TripsElsewhere
<1>10. CASE IsolateEnds
  <2>1. queue' = <<>> /\ \A g \in Flush : batch'[g] = <<>>
    BY <1>10 DEF IsolateEnds
  <2> QED BY <2>1 DEF OncePlaced, NoRepeats, Elements
<1>11. CASE UNCHANGED batcher
  BY <1>11, PlacedSame DEF batcher
<1> QED BY <1>1, <1>2, <1>3, <1>4, <1>5, <1>7, <1>8, <1>9, <1>10, <1>11, <1>12
        DEF BatcherNext, FlushStep, WriteStep, WriteBatch, WriteFails

-----------------------------------------------------------------------------
THEOREM BatcherInvariance == BatcherSpec => []BatcherInv
<1>1. BatcherInit => BatcherInv
  <2> SUFFICES ASSUME BatcherInit PROVE BatcherInv
    OBVIOUS
  <2>1. BatcherTypeOK
    <3>1. queue \in Seq(Log) /\ batch \in [Flush -> Seq(Log)]
      BY EmptyBatch DEF BatcherInit
    <3>2. ends \in 0..MaxEnds
      BY EndsAssumption DEF BatcherInit
    <3> QED BY <3>1, <3>2 DEF BatcherInit, BatcherTypeOK, Fates
  <2>2. OncePlaced
    BY DEF BatcherInit, OncePlaced, NoRepeats, Elements
  <2>3. Awaited
    <3>1. Quota = {} /\ Len(queue) = 0 /\ queue = <<>>
      BY DEF BatcherInit, Quota
    <3> QED BY <3>1, FS_EmptySet, SizeAssumption DEF Awaited
  <2> QED BY <2>1, <2>2, <2>3 DEF BatcherInit, BatcherInv, FlagIsHonest, SilencedIsEmpty,
                                  BatchInHand
<1>2. BatcherInv /\ [BatcherNext]_batcher => BatcherInv'
  BY BookkeepingStep, AwaitedStep, PlacesStep DEF BatcherInv
<1> QED BY <1>1, <1>2, PTL DEF BatcherSpec

(* Every variable of LogBatcher keeps its shape.                           *)
THEOREM BatcherTypes == BatcherSpec => []BatcherTypeOK
<1>1. BatcherInv => BatcherTypeOK
  BY DEF BatcherInv
<1> QED BY <1>1, BatcherInvariance, PTL

(* isFlushScheduled never claims a timer that is not there.                *)
THEOREM FlagsAreHonest == BatcherSpec => []FlagIsHonest
<1>1. BatcherInv => FlagIsHonest
  BY DEF BatcherInv
<1> QED BY <1>1, BatcherInvariance, PTL

(* A queued log always has a timer or a flush that will take it.           *)
THEOREM NoLogStranded == BatcherSpec => []NoneStranded
<1>1. BatcherInv => NoneStranded
  BY DEF BatcherInv, Awaited, Quota, NoneStranded
<1> QED BY <1>1, BatcherInvariance, PTL

(* A tripped breaker goes with an empty queue.                             *)
THEOREM SilencedStaysEmpty == BatcherSpec => []SilencedIsEmpty
<1>1. BatcherInv => SilencedIsEmpty
  BY DEF BatcherInv
<1> QED BY <1>1, BatcherInvariance, PTL

(* A log is in the queue or in one batch, once, and nowhere after its fate *)
(* is known.                                                               *)
THEOREM LogsPlacedOnce == BatcherSpec => []OncePlaced
<1>1. BatcherInv => OncePlaced
  BY DEF BatcherInv
<1> QED BY <1>1, BatcherInvariance, PTL
=============================================================================
