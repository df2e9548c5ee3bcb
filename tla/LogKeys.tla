------------------------------ MODULE LogKeys ------------------------------
(***************************************************************************)
(* The keys query logs are sealed with, in one isolate: the cache of the   *)
(* profiles' public keys (pipeline/logBatcher.ts), the data keys derived   *)
(* from them (lib/crypto/dekManager.ts), the rows that let the owner       *)
(* recover a data key (models/kemKey.ts) and the e2ee handlers of the API  *)
(* that change the public keys. A flush looks up the keys of the profiles  *)
(* in its batch; every await of a lookup is a step.                        *)
(***************************************************************************)
EXTENDS Naturals, FiniteSets

CONSTANTS Flusher,     \* calls of flushLogBatch that may be under way
          Profile,     \* the profiles of one user
          PublicKey,   \* public keys the user's browser creates
          Hybrid,      \* those with a post-quantum part: logs use a data key
          Kem,         \* identities of data keys (kem_keys.id)
          Handler,     \* e2ee API calls this isolate may be serving
          Nothing,     \* no key, no data key: null
          Unknown,     \* no unexpired cache entry
          MaxChanges   \* bound: key changes, data key expiries and restarts

ASSUME KeyAssumption == /\ Hybrid \subseteq PublicKey
                        /\ Nothing \notin PublicKey \cup Kem
                        /\ Unknown \notin PublicKey \cup {Nothing}
ASSUME ChangesAssumption == MaxChanges \in Nat

VARIABLES userKey,    \* user_log_keys.public_key
          isActive,   \* user_log_keys.is_active
          handler,    \* profiles an e2ee call has changed and not invalidated
          keyCache,   \* profileKeyCache
          activeDek,  \* activeDekMap
          inFlight,   \* inFlightDekPromises
          lookup,     \* the key lookups of each flush
          kem,        \* the data keys minted so far and what became of their rows
          aged,       \* data keys minted longer ago than the safety window
          cited,      \* data keys a row of logs refers to
          settled,    \* profiles whose last key change is followed by an
                      \* invalidation that met no lookup or minting under way
          current,    \* lookups begun for a settled profile, none of whose
                      \* reads failed and whose key has not changed since
          changes     \* how many of the bounded events have happened

database == <<userKey, isActive>>
memory == <<keyCache, activeDek, inFlight, lookup>>
history == <<settled, current>>
vars == <<database, handler, memory, kem, aged, cited, history, changes>>

(* What the lookup's SELECT answers.                                       *)
ActiveKey(p) == IF isActive[p] THEN userKey[p] ELSE Nothing

(* A lookup is at an await or done; a data key is minted for a public key. *)
Look(at, key, dek) == [at |-> at, key |-> key, dek |-> dek]
NoLook == Look("done", Nothing, Nothing)
Mint(at, profile, key) == [at |-> at, profile |-> profile, key |-> key]
Unminted == Mint("unused", Nothing, Nothing)

(* A profile without a row has the column's default, active.               *)
Init == /\ userKey \in [Profile -> PublicKey \cup {Nothing}]
        /\ isActive \in [Profile -> BOOLEAN]
        /\ \A p \in Profile : userKey[p] = Nothing => isActive[p]
        /\ handler = [h \in Handler |-> {}]
        /\ keyCache = [p \in Profile |-> Unknown]
        /\ activeDek = [p \in Profile |-> Nothing]
        /\ inFlight = [p \in Profile |-> Nothing]
        /\ lookup = [f \in Flusher |-> [p \in Profile |-> NoLook]]
        /\ kem = [n \in Kem |-> Unminted]
        /\ aged = {}
        /\ cited = {}
        /\ settled = Profile
        /\ current = {}
        /\ changes = 0

Change == changes < MaxChanges /\ changes' = changes + 1

-----------------------------------------------------------------------------
(* The e2ee handlers. The rows change at one await, the caches of this     *)
(* isolate are invalidated when it returns; a call that another isolate    *)
(* serves invalidates nothing here.                                        *)

(* One profile: init keeps is_active of a row that is there, DELETE drops  *)
(* the row (and with it the flag).                                         *)
InitProfile(p, k) == /\ userKey' = [userKey EXCEPT ![p] = k]
                     /\ UNCHANGED isActive
DropKeys(ps) == /\ userKey' = [p \in Profile |-> IF p \in ps THEN Nothing
                                                            ELSE userKey[p]]
                /\ isActive' = [p \in Profile |-> p \in ps \/ isActive[p]]

(* All profiles of the user: init, enable, disable, purge.                 *)
InitAccount(k) == /\ userKey' = [p \in Profile |-> k]
                  /\ isActive' = [p \in Profile |-> TRUE]
Toggle(on) == /\ isActive' = [p \in Profile |-> IF userKey[p] = Nothing
                                                  THEN isActive[p] ELSE on]
              /\ UNCHANGED userKey

Rewrite(ps) == \/ \E p \in Profile :
                     /\ ps = {p}
                     /\ (\E k \in PublicKey : InitProfile(p, k)) \/ DropKeys({p})
               \/ /\ ps = Profile
                  /\ \/ \E k \in PublicKey : InitAccount(k)
                     \/ \E on \in BOOLEAN : Toggle(on)
                     \/ DropKeys(Profile)

Unsettle(ps) == /\ settled' = settled \ ps
                /\ current' = current \ (Flusher \X ps)

ConfigureHere(h, ps) == /\ handler[h] = {}
                        /\ Change
                        /\ Rewrite(ps)
                        /\ handler' = [handler EXCEPT ![h] = ps]
                        /\ Unsettle(ps)
                        /\ UNCHANGED <<memory, kem, aged, cited>>

ConfigureElsewhere(ps) == /\ Change
                          /\ Rewrite(ps)
                          /\ Unsettle(ps)
                          /\ UNCHANGED <<handler, memory, kem, aged, cited>>

(* Nothing of p's is between an await and its use.                         *)
Quiet(p) == /\ \A f \in Flusher : lookup[f][p].at = "done"
            /\ \A n \in Kem : kem[n].profile = p => kem[n].at # "minting"

Settle(ps) == /\ settled' = (settled \ ps) \cup {p \in ps : Quiet(p)}
              /\ current' = current \ (Flusher \X ps)

(* Mutant: only the public key is forgotten, not the data key.             *)
InvalidateKeyOnly(h) ==
    /\ handler[h] # {}
    /\ keyCache' = [p \in Profile |-> IF p \in handler[h] THEN Unknown
                                                           ELSE keyCache[p]]
    /\ Settle(handler[h])
    /\ handler' = [handler EXCEPT ![h] = {}]
    /\ UNCHANGED <<database, activeDek, inFlight, lookup, kem, aged, cited, changes>>

(* invalidateProfileLogKeyCache for every profile the handler changed.     *)
Invalidate(h) ==
    LET Forget(map, none) == [p \in Profile |-> IF p \in handler[h] THEN none
                                                                    ELSE map[p]]
    IN /\ handler[h] # {}
       /\ keyCache' = Forget(keyCache, Unknown)
       /\ activeDek' = Forget(activeDek, Nothing)
       /\ inFlight' = Forget(inFlight, Nothing)
       /\ Settle(handler[h])
       /\ handler' = [handler EXCEPT ![h] = {}]
       /\ UNCHANGED <<database, lookup, kem, aged, cited, changes>>

-----------------------------------------------------------------------------
(* A lookup: getProfileLogPublicKey, then ensureActiveDek.                 *)

(* A hybrid key needs a data key; any other answer ends the lookup.        *)
WithKey(k) == IF k \in Hybrid THEN Look("ensure", k, Nothing)
                              ELSE Look("done", k, Nothing)

(* A batch with logs of the profiles ps: the cache answers at once.        *)
StartLookups(f, ps) ==
    /\ \A p \in Profile : lookup[f][p] = NoLook
    /\ lookup' = [lookup EXCEPT ![f] =
         [p \in Profile |-> IF p \notin ps THEN NoLook
                            ELSE IF keyCache[p] = Unknown
                                 THEN Look("select", Nothing, Nothing)
                                 ELSE WithKey(keyCache[p])]]
    /\ current' = (current \ ({f} \X Profile)) \cup ({f} \X (ps \cap settled))
    /\ UNCHANGED <<database, handler, keyCache, activeDek, inFlight,
                   kem, aged, cited, settled, changes>>

Moved(f, p, look) == lookup' = [lookup EXCEPT ![f][p] = look]

SelectAnswers(f, p) == /\ lookup[f][p].at = "select"
                       /\ Moved(f, p, Look("answer", ActiveKey(p), Nothing))
                       /\ UNCHANGED <<database, handler, keyCache, activeDek,
                                      inFlight, kem, aged, cited, history, changes>>

(* The answer, old or not by now, is cached for five minutes.              *)
SelectReturns(f, p) == /\ lookup[f][p].at = "answer"
                       /\ keyCache' = [keyCache EXCEPT ![p] = lookup[f][p].key]
                       /\ Moved(f, p, WithKey(lookup[f][p].key))
                       /\ UNCHANGED <<database, handler, activeDek, inFlight,
                                      kem, aged, cited, history, changes>>

(* Mutant: the error is cached as "no key".                                *)
SelectFailsCached(f, p) == /\ lookup[f][p].at \in {"select", "answer"}
                           /\ keyCache' = [keyCache EXCEPT ![p] = Nothing]
                           /\ Moved(f, p, NoLook)
                           /\ current' = current \ {<<f, p>>}
                           /\ UNCHANGED <<database, handler, activeDek, inFlight,
                                          kem, aged, cited, settled, changes>>

(* An error reads as "no key" and is not cached.                           *)
SelectFails(f, p) == /\ lookup[f][p].at \in {"select", "answer"}
                     /\ Moved(f, p, NoLook)
                     /\ current' = current \ {<<f, p>>}
                     /\ UNCHANGED <<database, handler, keyCache, activeDek,
                                    inFlight, kem, aged, cited, settled, changes>>

(* The data key in force is taken whatever public key it was minted for.   *)
UseActive(f, p) == /\ lookup[f][p].at = "ensure"
                   /\ activeDek[p] # Nothing
                   /\ Moved(f, p, Look("done", lookup[f][p].key, activeDek[p]))
                   /\ UNCHANGED <<database, handler, keyCache, activeDek,
                                  inFlight, kem, aged, cited, history, changes>>

JoinMint(f, p) == /\ lookup[f][p].at = "ensure"
                  /\ activeDek[p] = Nothing
                  /\ inFlight[p] # Nothing
                  /\ Moved(f, p, Look("await", lookup[f][p].key, inFlight[p]))
                  /\ UNCHANGED <<database, handler, keyCache, activeDek,
                                 inFlight, kem, aged, cited, history, changes>>

Mints(f, p, n) == /\ lookup[f][p].at = "ensure"
                  /\ activeDek[p] = Nothing
                  /\ kem[n].at = "unused"
                  /\ kem' = [kem EXCEPT ![n] = Mint("minting", p, lookup[f][p].key)]
                  /\ inFlight' = [inFlight EXCEPT ![p] = n]
                  /\ Moved(f, p, Look("await", lookup[f][p].key, n))
                  /\ UNCHANGED <<database, handler, keyCache, activeDek, aged,
                                 cited, history, changes>>

(* Mutant: every flush mints for itself.                                   *)
StartMintAlways(f, p, n) == Mints(f, p, n)

StartMint(f, p, n) == inFlight[p] = Nothing /\ Mints(f, p, n)

(* rotateDek ends: its row is stored or the INSERT's error swallowed; the  *)
(* data key is in force either way, and the map's entry, whosever it is    *)
(* by now, is deleted. All who wait for it are answered.                   *)
MintEnds(n, at) ==
    LET p == kem[n].profile IN
    /\ kem[n].at = "minting"
    /\ kem' = [kem EXCEPT ![n] = Mint(at, p, kem[n].key)]
    /\ activeDek' = [activeDek EXCEPT ![p] = n]
    /\ inFlight' = [inFlight EXCEPT ![p] = Nothing]
    /\ lookup' = [f \in Flusher |-> [q \in Profile |->
                    IF lookup[f][q].at = "await" /\ lookup[f][q].dek = n
                      THEN Look("done", lookup[f][q].key, n) ELSE lookup[f][q]]]
    /\ UNCHANGED <<database, handler, keyCache, aged, cited, history, changes>>

(* The flush has its keys and writes rows that cite the data keys ns.      *)
Cite(f, ns) == /\ \A p \in Profile : lookup[f][p].at = "done"
               /\ ns \subseteq {lookup[f][p].dek : p \in Profile} \cap Kem
               /\ cited' = cited \cup ns
               /\ lookup' = [lookup EXCEPT ![f] = [p \in Profile |-> NoLook]]
               /\ current' = current \ ({f} \X Profile)
               /\ UNCHANGED <<database, handler, keyCache, activeDek, inFlight,
                              kem, aged, settled, changes>>

-----------------------------------------------------------------------------
(* Time and retention.                                                     *)
KeyEntryExpires(p) == /\ keyCache[p] # Unknown
                      /\ keyCache' = [keyCache EXCEPT ![p] = Unknown]
                      /\ UNCHANGED <<database, handler, activeDek, inFlight,
                                     lookup, kem, aged, cited, history, changes>>

DekExpires(p) == /\ activeDek[p] # Nothing
                 /\ Change
                 /\ activeDek' = [activeDek EXCEPT ![p] = Nothing]
                 /\ UNCHANGED <<database, handler, keyCache, inFlight, lookup,
                                kem, aged, cited, history>>

(* A data key is in force for an hour and a flush lasts minutes: what is a *)
(* day old is neither in force nor held.                                   *)
Held(n) == \/ \E p \in Profile : activeDek[p] = n
           \/ \E f \in Flusher, p \in Profile : lookup[f][p].dek = n
DayPasses(n) == /\ kem[n].at \in {"stored", "lost"}
                /\ n \notin aged
                /\ ~Held(n)
                /\ aged' = aged \cup {n}
                /\ UNCHANGED <<database, handler, memory, kem, cited, history, changes>>

(* Retention deletes the last rows of logs that cite n.                    *)
LogsRetire(n) == /\ n \in cited
                 /\ cited' = cited \ {n}
                 /\ UNCHANGED <<database, handler, memory, kem, aged, history, changes>>

Deletes(n) == /\ kem[n].at = "stored"
              /\ n \notin cited
              /\ kem' = [kem EXCEPT ![n] = Mint("deleted", kem[n].profile, kem[n].key)]
              /\ UNCHANGED <<database, handler, memory, aged, cited, history, changes>>

(* Mutant: no safety window.                                               *)
CleanupYoungOrphan(n) == Deletes(n)

CleanupOrphan(n) == n \in aged /\ Deletes(n)

(* The isolate ends; an INSERT that was under way has landed or not.       *)
Restart == /\ Change
           /\ handler' = [h \in Handler |-> {}]
           /\ keyCache' = [p \in Profile |-> Unknown]
           /\ activeDek' = [p \in Profile |-> Nothing]
           /\ inFlight' = [p \in Profile |-> Nothing]
           /\ lookup' = [f \in Flusher |-> [p \in Profile |-> NoLook]]
           /\ \E at \in {"stored", "lost"} :
                kem' = [n \in Kem |-> IF kem[n].at = "minting"
                          THEN Mint(at, kem[n].profile, kem[n].key) ELSE kem[n]]
           /\ settled' = Profile
           /\ current' = {}
           /\ UNCHANGED <<database, aged, cited>>

-----------------------------------------------------------------------------
SelectStep(f, p) == SelectAnswers(f, p) \/ SelectReturns(f, p) \/ SelectFails(f, p)
EnsureStep(f, p) == \/ UseActive(f, p) \/ JoinMint(f, p)
                    \/ \E n \in Kem : StartMint(f, p, n)
MintStep(n) == \E at \in {"stored", "lost"} : MintEnds(n, at)

(* What happens apart from the flushes and the end of the isolate.         *)
Surroundings ==
    \/ \E h \in Handler, ps \in SUBSET Profile : ConfigureHere(h, ps)
    \/ \E ps \in SUBSET Profile : ConfigureElsewhere(ps)
    \/ \E h \in Handler : Invalidate(h)
    \/ \E p \in Profile : KeyEntryExpires(p) \/ DekExpires(p)
    \/ \E n \in Kem : DayPasses(n) \/ LogsRetire(n) \/ CleanupOrphan(n)

LookupStep == \/ \E f \in Flusher, p \in Profile : SelectStep(f, p) \/ EnsureStep(f, p)
              \/ \E n \in Kem : MintStep(n)

Next == \/ \E f \in Flusher, ps \in SUBSET Profile : StartLookups(f, ps)
        \/ LookupStep
        \/ \E f \in Flusher, ns \in SUBSET Kem : Cite(f, ns)
        \/ Surroundings
        \/ Restart

Spec == Init /\ [][Next]_vars

-----------------------------------------------------------------------------
LookAts == {"done", "select", "answer", "ensure", "await"}
MintAts == {"unused", "minting", "stored", "lost", "deleted"}
Keys == PublicKey \cup {Nothing}
Deks == Kem \cup {Nothing}

TypeOK == /\ userKey \in [Profile -> Keys]
          /\ isActive \in [Profile -> BOOLEAN]
          /\ handler \in [Handler -> SUBSET Profile]
          /\ keyCache \in [Profile -> Keys \cup {Unknown}]
          /\ activeDek \in [Profile -> Deks]
          /\ inFlight \in [Profile -> Deks]
          /\ lookup \in [Flusher -> [Profile ->
                           [at : LookAts, key : Keys, dek : Deks]]]
          /\ kem \in [Kem -> [at : MintAts, profile : Profile \cup {Nothing},
                              key : Keys]]
          /\ aged \subseteq Kem
          /\ cited \subseteq Kem
          /\ settled \subseteq Profile
          /\ current \subseteq Flusher \X Profile
          /\ changes \in Nat

(* Once a key change is followed by an invalidation that met no lookup or  *)
(* minting of the profile under way, neither the cached public key nor the *)
(* data key in force is one the user has replaced or switched off (the     *)
(* comment of getProfileLogPublicKey relies on it for a rapid change-over).*)
InvalidationHolds ==
    \A p \in settled :
        /\ keyCache[p] \in {Unknown, ActiveKey(p)}
        /\ activeDek[p] # Nothing => kem[activeDek[p]].key = ActiveKey(p)

(* What a flush writes then is sealed for the key the user has now: no     *)
(* plaintext while encryption is on, no key that was replaced.             *)
SealedForCurrentKey ==
    \A f \in Flusher, p \in Profile :
        LET look == lookup[f][p] IN
        <<f, p>> \in current /\ look.at = "done" =>
            /\ look.key = ActiveKey(p)
            /\ look.key \in Hybrid => look.dek \in Kem /\ kem[look.dek].key = look.key

(* The mutex of ensureActiveDek: concurrent flushes do not mint two data   *)
(* keys for a profile at a time.                                           *)
NoDuplicateMint ==
    \A p \in settled, n \in Kem :
        kem[n].at = "minting" /\ kem[n].profile = p => inFlight[p] = n

(* The clean-up rule of models/kemKey.ts: the row a written log needs to   *)
(* be read back is never deleted. (A row whose INSERT failed never was.)   *)
KeyKept == \A n \in cited : kem[n].at \in {"stored", "lost"}
=============================================================================
