------------------------------ MODULE Sessions ------------------------------
(***************************************************************************)
(* One session of the dashboard: its row in the database, the user micro-  *)
(* cache and the activity records every isolate keeps for it, and the      *)
(* refresh token the browser holds.                                        *)
(*                                                                         *)
(*   src/src/lib/session.ts         rotateSession, invalidateSession       *)
(*   src/src/lib/middleware.ts      getCurrentUser, invalidateAuthUserCache*)
(*   src/src/models/session.ts      the statements                         *)
(*   src/src/api/auth/refresh.ts, lock.ts, logout.ts                       *)
(*   src/src/api/account/sessions.ts, src/src/cron.ts                      *)
(*                                                                         *)
(* A call is one request to the Worker.  Every await of a handler ends a   *)
(* step: the statement takes effect in one step, the handler goes on in a  *)
(* later one with what the statement returned.  Session ids are never used *)
(* again, so one session stands for all.                                   *)
(***************************************************************************)
EXTENDS Integers, Sequences, FiniteSets

CONSTANTS
    Isolate,      \* isolates of the Worker, each with its own memory
    Call,         \* requests that may be under way at once
    None,         \* no value
    Tabs,         \* browser tabs: refresh() runs one refresh per tab at a time
    Grace,        \* ROTATION_GRACE_PERIOD_SECONDS
    CacheTtl,     \* AUTH_CACHE_TTL_SEC
    Interval,     \* SESSION_LAST_ACTIVE_UPDATE_INTERVAL
    LockTimeout,  \* session_lock_timeout
    Duration,     \* DEFAULT_SESSION_EXPIRATION_MINUTES
    Delay,        \* bound: ticks a handler, or a write left to waitUntil, takes
    MaxNow,       \* bound: ticks of a behaviour
    Budgets,      \* bound: how many calls of each kind a behaviour makes
    MaxFaults     \* bound: statements that fail

Kinds == {"request", "refresh", "lock", "unlock", "logout", "revoke", "others"}
(* What a row and a clock reading may be. *)
Times == 0..MaxNow
RowType == [exp : Nat, v : Nat, active : Times, paused : BOOLEAN]

ASSUME NoneAssumption == None \notin Int /\ None \notin Kinds /\ None \notin RowType
ASSUME TimesAssumption ==
    /\ {Grace, CacheTtl, Interval, LockTimeout, Duration, Delay} \subseteq Nat
    /\ CacheTtl > 0
    /\ {Tabs, MaxNow, MaxFaults} \subseteq Nat
    /\ Budgets \subseteq [Kinds -> Nat]

VARIABLES
    now,          \* the clock
    pin,          \* the user has a PIN
    row,          \* the session's row, or None
    cache,        \* authUserMemoryCache: when the entry expires, 0 for no entry
    activity,     \* sessionActivityMemory: last observed and last write attempt
    late,         \* last_active writes handed to waitUntil
    fails,        \* unlock_fail: wrong PINs counted
    call,         \* the requests under way
    budget,       \* calls of each kind that may still come
    cookie,       \* version in the refresh token the browser holds, or None
    issued,       \* history: newest version ever put in an answer
    good,         \* history: last time the session was live and not paused
    lastServed,   \* history: last time a request was let through
    settled,      \* history: lastServed when no write was outstanding
    faults        \* history: the kinds of statement that failed

vars == <<now, pin, row, cache, activity, late, fails, call, budget, cookie,
          issued, good, lastServed, settled, faults>>

(* Groups of variables that an action leaves alone. *)
memory  == <<cache, activity>>
browser == <<cookie, issued>>

NoCall == [kind |-> None, pc |-> "idle", at |-> None, tok |-> 0, row |-> None,
           t |-> 0, known |-> 0]

Max2(a, b) == IF a > b THEN a ELSE b

Live(r, t) == r # None /\ ~r.paused /\ t < r.exp

Init ==
    /\ now = 0
    /\ pin \in BOOLEAN
    /\ row = [exp |-> Duration, v |-> 0, active |-> 0, paused |-> FALSE]
    /\ cache = [i \in Isolate |-> 0]
    /\ activity = [i \in Isolate |-> None]
    /\ late = {}
    /\ fails = 0
    /\ call = [c \in Call |-> NoCall]
    /\ budget \in Budgets
    /\ cookie = 0
    /\ issued = 0
    /\ good = 0
    /\ lastServed = 0
    /\ settled = 0
    /\ faults = <<>>

-----------------------------------------------------------------------------
(* Steps of a handler. *)

OnlyCall ==
    UNCHANGED <<now, pin, row, memory, late, fails, browser, lastServed, budget, faults>>

Goto(c, pc) == call' = [call EXCEPT ![c].pc = pc]
Done(c) == call' = [call EXCEPT ![c] = NoCall]
At(c, k, pc) == call[c].kind = k /\ call[c].pc = pc

Fault(kind) == Len(faults) < MaxFaults /\ faults' = Append(faults, kind)
Failed(kind) == \E n \in 1..Len(faults) : faults[n] = kind

Invalidated(i) ==
    /\ cache' = [cache EXCEPT ![i] = 0]
    /\ activity' = [activity EXCEPT ![i] = None]

(* The browser sends a request to some isolate; a refresh carries the      *)
(* cookie, and a tab waits for the refresh it already sent.                *)
Refreshes == {c \in Call : call[c].kind = "refresh"}

Send(c, k, i) ==
    /\ call[c] = NoCall
    /\ k = "request" => cache[i] = 0
    /\ k = "refresh" => cookie # None /\ Cardinality(Refreshes) < Tabs
    /\ budget[k] > 0
    /\ budget' = [budget EXCEPT ![k] = @ - 1]
    /\ call' = [call EXCEPT ![c] = [NoCall EXCEPT
                    !.kind = k, !.pc = "select", !.t = now,
                    !.at = IF k \in {"refresh", "revoke"} THEN None ELSE i,
                    !.tok = IF k = "refresh" THEN cookie ELSE 0]]
    /\ UNCHANGED <<now, pin, row, memory, late, fails, browser, lastServed, faults>>

(* Mutant: a hit keeps the entry for another CacheTtl. *)
ServeFromCacheSliding(i) ==
    /\ cache[i] # 0
    /\ activity' = IF activity[i] = None THEN activity
                   ELSE [activity EXCEPT ![i].seen = now]
    /\ cache' = [cache EXCEPT ![i] = now + CacheTtl]
    /\ lastServed' = now
    /\ UNCHANGED <<now, pin, row, late, fails, call, browser, budget, faults>>

(* A request that finds a valid entry in the micro-cache. *)
ServeFromCache(i) ==
    /\ cache[i] # 0
    /\ activity' = IF activity[i] = None THEN activity
                   ELSE [activity EXCEPT ![i].seen = now]
    /\ lastServed' = now
    /\ UNCHANGED <<now, pin, row, cache, late, fails, call, browser, budget, faults>>

(* getSession, getSessionWithUser, getSessionUserId, getSessionsByUser. *)
Select(c) ==
    /\ call[c].pc = "select"
    /\ call' = [call EXCEPT ![c].row = row, ![c].known = settled, ![c].t = now,
                    ![c].pc = IF row # None /\ row.exp <= now
                              THEN "expired" ELSE "got"]
    /\ OnlyCall

DropExpired(c) ==
    /\ call[c].pc = "expired"
    /\ row' = None
    /\ call' = [call EXCEPT ![c].row = None, ![c].pc = "got"]
    /\ UNCHANGED <<now, pin, memory, late, fails, browser, lastServed, budget, faults>>

-----------------------------------------------------------------------------
(* getCurrentUser after the SELECT. *)

(* The last activity this isolate knows of. *)
Effective(c) ==
    LET a == activity[call[c].at]
    IN  Max2(call[c].row.active, IF a = None THEN 0 ELSE a.seen)

Inactive(r, since) == pin /\ ~r.paused /\ now - since > LockTimeout

RequestGone(c) ==
    /\ At(c, "request", "got") /\ call[c].row = None
    /\ Invalidated(call[c].at)
    /\ Done(c)
    /\ UNCHANGED <<now, pin, row, late, fails, browser, lastServed, budget, faults>>

RequestIdle(c) ==
    /\ At(c, "request", "got") /\ call[c].row # None
    /\ Inactive(call[c].row, Effective(c))
    /\ call' = [call EXCEPT ![c].pc = "pause", ![c].t = now]
    /\ OnlyCall

RequestPaused(c) ==
    /\ At(c, "request", "got") /\ call[c].row # None /\ call[c].row.paused
    /\ Done(c)
    /\ OnlyCall

(* Mutant: the throttle starts anew at every request, written or not. *)
LastWriteSeen(c) ==
    LET a == activity[call[c].at] IN IF a = None THEN call[c].row.active ELSE a.seen

(* The time of the last write this isolate attempted, or what the row says. *)
LastWrite(c) ==
    LET a == activity[call[c].at] IN IF a = None THEN call[c].row.active ELSE a.wrote

Serve(c) ==
    LET i == call[c].at
        write == now - LastWrite(c) > Interval
    IN  /\ At(c, "request", "got") /\ call[c].row # None /\ ~call[c].row.paused
        /\ ~Inactive(call[c].row, Effective(c))
        /\ late' = IF write THEN late \cup {<<i, now>>} ELSE late
        /\ activity' = [activity EXCEPT ![i] =
                            [seen |-> now, wrote |-> IF write THEN now ELSE LastWrite(c)]]
        /\ cache' = [cache EXCEPT ![i] = now + CacheTtl]
        /\ lastServed' = now
        /\ Done(c)
        /\ UNCHANGED <<now, pin, row, fails, browser, budget, faults>>

(* A write left to waitUntil takes effect, or fails and is only logged. *)
LandWrite(w) ==
    /\ late' = late \ {w}
    /\ \/ /\ row' = IF row = None THEN None ELSE [row EXCEPT !.active = w[2]]
          /\ UNCHANGED faults
       \/ Fault("active") /\ UNCHANGED row
    /\ UNCHANGED <<now, pin, memory, fails, call, browser, lastServed, budget>>

-----------------------------------------------------------------------------
(* rotateSession after the SELECT. *)

Direct(c) == call[c].row.v = call[c].tok
InGrace(c) ==
    /\ call[c].tok = call[c].row.v - 1
    /\ now - call[c].row.active <= Grace

(* 401 with a blank cookie. *)
Refused(c) ==
    /\ cookie' = None
    /\ Done(c)

RefreshGone(c) ==
    /\ At(c, "refresh", "got") /\ call[c].row = None
    /\ Refused(c)
    /\ UNCHANGED <<now, pin, row, memory, late, fails, issued, lastServed, budget, faults>>

(* An answer with version v reaches the browser, or is lost on the way. *)
Answer(c, v) ==
    /\ issued' = Max2(issued, v)
    /\ cookie' \in {cookie, v}
    /\ Done(c)

RefreshGrace(c) ==
    /\ At(c, "refresh", "got") /\ call[c].row # None /\ now < call[c].row.exp
    /\ ~Direct(c) /\ InGrace(c)
    /\ Answer(c, call[c].row.v)
    /\ UNCHANGED <<now, pin, row, memory, late, fails, lastServed, budget, faults>>

RefreshExpired(c) ==
    /\ At(c, "refresh", "got") /\ call[c].row # None /\ now >= call[c].row.exp
    /\ Goto(c, "delete")
    /\ OnlyCall

TokenReuse(c) ==
    /\ At(c, "refresh", "got") /\ call[c].row # None /\ now < call[c].row.exp
    /\ ~Direct(c) /\ ~InGrace(c)
    /\ Goto(c, "delete")
    /\ OnlyCall

(* The coordinates are missing or too far away. *)
WrongPlace(c) ==
    /\ At(c, "refresh", "got") /\ call[c].row # None /\ now < call[c].row.exp
    /\ Direct(c)
    /\ Goto(c, "delete")
    /\ OnlyCall

Accept(c) ==
    /\ At(c, "refresh", "got") /\ call[c].row # None /\ now < call[c].row.exp
    /\ Direct(c)
    /\ call' = [call EXCEPT ![c].t = now,
                    ![c].pc = IF Inactive(call[c].row, call[c].row.active)
                              THEN "pause" ELSE "extend"]
    /\ OnlyCall

Extend(c) ==
    /\ At(c, "refresh", "extend")
    /\ row' = IF row # None /\ call[c].row.exp - now < Duration \div 2
              THEN [row EXCEPT !.exp = now + Duration] ELSE row
    /\ Goto(c, "rotate")
    /\ UNCHANGED <<now, pin, memory, late, fails, browser, lastServed, budget, faults>>

(* incrementRotationCounter adds one to whatever the row holds by now. *)
Rotate(c) ==
    /\ At(c, "refresh", "rotate")
    /\ row' = IF row = None THEN None ELSE [row EXCEPT !.v = @ + 1]
    /\ Goto(c, IF call[c].row.paused THEN "answer" ELSE "active")
    /\ UNCHANGED <<now, pin, memory, late, fails, browser, lastServed, budget, faults>>

Touch(c) ==
    /\ At(c, "refresh", "active")
    /\ row' = IF row = None THEN None ELSE [row EXCEPT !.active = call[c].t]
    /\ Goto(c, "answer")
    /\ UNCHANGED <<now, pin, memory, late, fails, browser, lastServed, budget, faults>>

(* Mutant: the answer carries the version from before the increment. *)
RotatedBehind(c) ==
    /\ At(c, "refresh", "answer")
    /\ Answer(c, call[c].row.v)
    /\ UNCHANGED <<now, pin, row, memory, late, fails, lastServed, budget, faults>>

Rotated(c) ==
    /\ At(c, "refresh", "answer")
    /\ Answer(c, call[c].row.v + 1)
    /\ UNCHANGED <<now, pin, row, memory, late, fails, lastServed, budget, faults>>

(* A statement throws: the refresh ends with 500 and the old cookie stays. *)
RefreshFails(c) ==
    /\ call[c].kind = "refresh"
    /\ call[c].pc \in {"pause", "extend", "rotate", "active"}
    /\ Fault("rotate")
    /\ Done(c)
    /\ UNCHANGED <<now, pin, row, memory, late, fails, browser, lastServed, budget>>

(* Another statement throws: getCurrentUser answers that there is no user, *)
(* every other handler ends with an error and blanks no cookie.            *)
StatementFails(c) ==
    /\ \/ call[c].pc \in {"select", "expired", "delete", "resume"}
       \/ At(c, "lock", "pause")
    /\ Fault("statement")
    /\ Done(c)
    /\ UNCHANGED <<now, pin, row, memory, late, fails, browser, lastServed, budget>>

-----------------------------------------------------------------------------
(* Lock, unlock, log-out, revocation. *)

(* pauseSession.  getCurrentUser goes on when it fails. *)
Pause(c) ==
    /\ call[c].pc = "pause"
    /\ \/ /\ row' = IF row = None THEN None ELSE [row EXCEPT !.paused = TRUE]
          /\ UNCHANGED faults
       \/ call[c].kind = "request" /\ Fault("pause") /\ UNCHANGED row
    /\ call' = [call EXCEPT ![c] =
           IF call[c].kind = "request" THEN NoCall
           ELSE IF call[c].kind = "lock" THEN [call[c] EXCEPT !.pc = "invalidate"]
           ELSE [call[c] EXCEPT !.pc = "extend",
                                !.row = [call[c].row EXCEPT !.paused = TRUE]]]
    /\ UNCHANGED <<now, pin, memory, late, fails, browser, lastServed, budget>>

(* deleteSession.  Neither a refused refresh, nor the third wrong PIN, nor *)
(* the revocation of one session drops the cached user; that of the        *)
(* browser's own session blanks its cookie.                                *)
Delete(c) ==
    /\ call[c].pc = "delete"
    /\ row' = None
    /\ IF call[c].kind \in {"logout", "others"}
       THEN Goto(c, "invalidate") /\ UNCHANGED cookie
       ELSE /\ cookie' \in {cookie, None}
            /\ call[c].kind = "refresh" => cookie' = None
            /\ call[c].kind = "unlock" => cookie' = cookie
            /\ Done(c)
    /\ UNCHANGED <<now, pin, memory, late, fails, issued, lastServed, budget, faults>>

Invalidate(c) ==
    /\ call[c].pc = "invalidate"
    /\ Invalidated(call[c].at)
    /\ cookie' = IF call[c].kind = "logout" THEN None ELSE cookie
    /\ Done(c)
    /\ UNCHANGED <<now, pin, row, late, fails, issued, lastServed, budget, faults>>

(* What the other handlers do with the row they selected. *)
Proceed(c) ==
    /\ call[c].kind \in {"lock", "logout", "revoke", "others"}
    /\ call[c].pc = "got"
    /\ IF call[c].row = None /\ call[c].kind # "logout"
       THEN Done(c)
       ELSE Goto(c, IF call[c].kind = "lock" THEN "pause" ELSE "delete")
    /\ OnlyCall

(* The PIN is compared; the count of wrong ones was read before. *)
UnlockGone(c) ==
    /\ At(c, "unlock", "got") /\ (call[c].row = None \/ ~pin)
    /\ Done(c)
    /\ OnlyCall

RightPin(c) ==
    /\ At(c, "unlock", "got") /\ call[c].row # None /\ pin
    /\ call' = [call EXCEPT ![c].pc = "resume", ![c].t = now]
    /\ OnlyCall

(* Mutant: the fourth wrong PIN ends the session, not the third. *)
WrongPinFourth(c) ==
    /\ At(c, "unlock", "got") /\ call[c].row # None /\ pin
    /\ call' = [call EXCEPT ![c].tok = fails + 1,
                            ![c].pc = IF fails + 1 > 3 THEN "delete" ELSE "count"]
    /\ OnlyCall

WrongPin(c) ==
    /\ At(c, "unlock", "got") /\ call[c].row # None /\ pin
    /\ call' = [call EXCEPT ![c].tok = fails + 1,
                            ![c].pc = IF fails + 1 >= 3 THEN "delete" ELSE "count"]
    /\ OnlyCall

CountWrongPin(c) ==
    /\ At(c, "unlock", "count")
    /\ fails' = call[c].tok
    /\ Done(c)
    /\ UNCHANGED <<now, pin, row, memory, late, browser, lastServed, budget, faults>>

Resume(c) ==
    /\ At(c, "unlock", "resume")
    /\ row' = IF row = None THEN None
              ELSE [row EXCEPT !.paused = FALSE, !.active = call[c].t]
    /\ fails' = 0
    /\ Goto(c, "invalidate")
    /\ UNCHANGED <<now, pin, memory, late, browser, lastServed, budget, faults>>

-----------------------------------------------------------------------------
(* The cron trigger, the platform, the clock. *)

DeleteExpiredSessions ==
    /\ row # None /\ row.exp <= now
    /\ row' = None
    /\ UNCHANGED <<now, pin, memory, late, fails, call, browser, lastServed, budget, faults>>

(* The caps of 100 users and 1000 activity records push the session out,   *)
(* or the isolate is recycled and loses both.                              *)
EvictUser(i) ==
    /\ cache[i] # 0
    /\ cache' = [cache EXCEPT ![i] = 0]
    /\ UNCHANGED <<now, pin, row, activity, late, fails, call, browser, lastServed, budget, faults>>

EvictActivity(i) ==
    /\ activity[i] # None
    /\ activity' = [activity EXCEPT ![i] = None]
    /\ UNCHANGED <<now, pin, row, cache, late, fails, call, browser, lastServed, budget, faults>>

ForgetWrongPins ==
    /\ fails # 0
    /\ fails' = 0
    /\ UNCHANGED <<now, pin, row, memory, late, call, browser, lastServed, budget, faults>>

(* An entry of the micro-cache that has expired is as good as none.        *)
Tick ==
    /\ now < MaxNow
    /\ \A c \in Call : call[c] # NoCall => now - call[c].t < Delay
    /\ \A w \in late : now - w[2] < Delay
    /\ now' = now + 1
    /\ cache' = [i \in Isolate |-> IF cache[i] <= now + 1 THEN 0 ELSE cache[i]]
    /\ UNCHANGED <<pin, row, activity, late, fails, call, browser, lastServed, budget, faults>>

Step(c) ==
    \/ Select(c) \/ DropExpired(c)
    \/ RequestGone(c) \/ RequestIdle(c) \/ RequestPaused(c) \/ Serve(c)
    \/ RefreshGone(c) \/ RefreshGrace(c) \/ RefreshExpired(c) \/ TokenReuse(c)
    \/ WrongPlace(c) \/ Accept(c) \/ Extend(c) \/ Rotate(c) \/ Touch(c)
    \/ Rotated(c) \/ RefreshFails(c) \/ StatementFails(c)
    \/ Pause(c) \/ Delete(c) \/ Invalidate(c) \/ Proceed(c)
    \/ UnlockGone(c) \/ RightPin(c) \/ WrongPin(c) \/ CountWrongPin(c) \/ Resume(c)

Move ==
    \/ \E c \in Call, k \in Kinds, i \in Isolate : Send(c, k, i)
    \/ \E c \in Call : Step(c)
    \/ \E i \in Isolate : ServeFromCache(i) \/ EvictUser(i) \/ EvictActivity(i)
    \/ \E w \in late : LandWrite(w)
    \/ DeleteExpiredSessions \/ ForgetWrongPins \/ Tick

(* The history variables follow every step. *)
Next ==
    /\ Move
    /\ good' = IF Live(row', now') THEN now' ELSE good
    /\ settled' = IF late' = {} THEN lastServed' ELSE settled

Spec == Init /\ [][Next]_vars

-----------------------------------------------------------------------------
Pcs == {"idle", "select", "expired", "got", "pause", "extend", "rotate", "active",
        "answer", "delete", "invalidate", "count", "resume"}
Held == {"pause", "extend", "rotate", "active", "answer"}
CallType ==
    {r \in [kind : Kinds \cup {None}, pc : Pcs, at : Isolate \cup {None}, tok : Nat,
            row : RowType \cup {None}, t : Times, known : Times] :
        /\ r.kind = "request" => r.at \in Isolate
        /\ r.pc \in Held => r.row \in RowType
        /\ r.pc = "count" => r.tok \in 0..2}

TypeOK ==
    /\ now \in Times /\ good \in Times /\ lastServed \in Times /\ settled \in Times
    /\ pin \in BOOLEAN
    /\ row \in RowType \cup {None}
    /\ cache \in [Isolate -> Nat]
    /\ activity \in [Isolate -> [seen : Times, wrote : Times] \cup {None}]
    /\ late \subseteq Isolate \X Times
    /\ fails \in 0..2
    /\ call \in [Call -> CallType]
    /\ budget \in [Kinds -> Nat]
    /\ cookie \in Nat \cup {None}
    /\ issued \in Nat
    /\ faults \in Seq({"active", "pause", "rotate", "statement"})

(* No answer ever carries a version the row's counter has not reached: the *)
(* browser's newest token always matches the counter or is one behind it,  *)
(* unless another refresh rotated in between.  rotateSession computes the  *)
(* version from a counter it read before it incremented the row.           *)
IssuedWithinCounter == row # None => issued <= row.v

(* A session that was deleted, locked or has run out lets a request        *)
(* through for no longer than the micro-cache keeps a user, plus the time  *)
(* a handler may take between reading the row and using it - on every      *)
(* isolate, though only the one that handled the change drops its entry.   *)
BoundedAccess == lastServed <= good + (CacheTtl - 1) + Delay

(* The inactivity lock is earned: a request or a refresh that pauses the   *)
(* session does so only when no request was let through for the time-out,  *)
(* less what the throttled and deferred last_active writes may be behind,  *)
(* on any isolate - as long as none of those writes failed.                *)
EarnedLock ==
    \A c \in Call :
        call[c].pc = "pause" /\ call[c].kind \in {"request", "refresh"} /\ ~Failed("active")
        => call[c].t - call[c].known > LockTimeout - (CacheTtl - 1) - Interval - Delay

(* A session is ended for token reuse only when a newer token than the one *)
(* presented was put in an answer, or a rotation died half-way: a browser  *)
(* that refreshes once at a time never loses its session to this check     *)
(* while it holds the newest token.                                        *)
ReuseMeansNewer ==
    [][\A c \in Call : TokenReuse(c) => call[c].tok < issued \/ Failed("rotate")]_vars
=============================================================================
