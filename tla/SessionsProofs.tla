--------------------------- MODULE SessionsProofs ---------------------------
(***************************************************************************)
(* Theorems about Sessions: the types, that a session that ended lets      *)
(* nothing through for long, that no answer is ahead of the rotation       *)
(* counter, that the inactivity lock is earned, and that one tab never     *)
(* loses its session to the check for token reuse.                         *)
(***************************************************************************)
EXTENDS Sessions, FiniteSetTheorems, TLAPS

(* The type of the table of calls, by itself. *)

CallsTyped == call \in [Call -> CallType]

(* Replacing one call by a call keeps the table of calls a table of calls. *)
LEMMA CallReplaced ==
    ASSUME CallsTyped, NEW c \in Call, NEW r \in CallType, call' = [call EXCEPT ![c] = r]
    PROVE  call' \in [Call -> CallType]
BY DEF CallsTyped

(* An idle slot is a call. *)
LEMMA NoCallTyped == NoCall \in CallType
BY TimesAssumption, NoneAssumption DEF NoCall, CallType, Pcs, Held, Times, Kinds

(* Ending a call, or moving it on, keeps the table of calls. *)
LEMMA DoneTyped == ASSUME CallsTyped, NEW c \in Call, Done(c) PROVE call' \in [Call -> CallType]
BY NoCallTyped, CallReplaced DEF Done

(* The same for the step to another point of the handler. *)
LEMMA GotoTyped ==
    ASSUME CallsTyped, NEW c \in Call, NEW p \in Pcs \ {"count"}, Goto(c, p),
           p \in Held => call[c].row \in RowType
    PROVE  call' \in [Call -> CallType]
<1> DEFINE r == [call[c] EXCEPT !.pc = p]
<1>1. r \in CallType BY DEF CallsTyped, CallType
<1>2. call' = [call EXCEPT ![c] = r] BY DEF Goto, CallsTyped
<1> QED BY <1>1, <1>2, CallReplaced

(* The points of the handlers. *)
LEMMA PcTyped ==
    /\ {"idle", "select", "expired", "got", "pause", "extend", "rotate", "active",
        "answer", "delete", "invalidate", "count", "resume"} \subseteq Pcs
BY DEF Pcs

(* invalidateAuthUserCache keeps the types of the memory of an isolate. *)
LEMMA InvalidatedTyped ==
    ASSUME TypeOK, NEW i, Invalidated(i)
    PROVE  cache' \in [Isolate -> Nat]
           /\ activity' \in [Isolate -> [seen : Times, wrote : Times] \cup {None}]
BY DEF TypeOK, Invalidated

(* The initial states are typed. *)
LEMMA InitType == Init => TypeOK
<1> SUFFICES ASSUME Init PROVE TypeOK OBVIOUS
<1>1. 0 \in Times BY TimesAssumption DEF Times
<1>2. budget \in [Kinds -> Nat] BY TimesAssumption DEF Init
<1>3. row \in RowType BY <1>1, TimesAssumption DEF Init, RowType
<1>4. call \in [Call -> CallType] BY NoCallTyped DEF Init
<1>5. faults \in Seq({"active", "pause", "rotate", "statement"}) BY DEF Init
<1> QED BY <1>1, <1>2, <1>3, <1>4, <1>5 DEF Init, TypeOK

-----------------------------------------------------------------------------
(* Every action keeps the types of the variables that are not history.     *)

Typed ==
    /\ now \in Times /\ lastServed \in Times
    /\ pin \in BOOLEAN
    /\ row \in RowType \cup {None}
    /\ cache \in [Isolate -> Nat]
    /\ activity \in [Isolate -> [seen : Times, wrote : Times] \cup {None}]
    /\ late \subseteq Isolate \X Times
    /\ fails \in 0..2
    /\ call \in [Call -> CallType]
    /\ budget \in [Kinds -> Nat]
    /\ cookie \in Nat \cup {None}
    /\ issued \in Nat
    /\ faults \in Seq({"active", "pause", "rotate", "statement"})

(* The parts of the type invariant. *)
LEMMA TypedFacts == TypeOK => CallsTyped /\ Typed
BY DEF TypeOK, CallsTyped, Typed

(* A failing statement is recorded. *)
LEMMA FaultTyped ==
    ASSUME TypeOK, NEW k \in {"active", "pause", "rotate", "statement"}, Fault(k)
    PROVE  faults' \in Seq({"active", "pause", "rotate", "statement"})
BY DEF TypeOK, Fault

(* A step that only moves a call is typed when the call is. *)
LEMMA OnlyCallTyped ==
    ASSUME TypeOK, OnlyCall, call' \in [Call -> CallType]
    PROVE  Typed'
BY DEF TypeOK, OnlyCall, Typed, memory, browser

(* A new request. *)
LEMMA SendType == ASSUME TypeOK, NEW c \in Call, NEW k \in Kinds, NEW i \in Isolate, Send(c, k, i)
                  PROVE  Typed'
<1> DEFINE r == [NoCall EXCEPT !.kind = k, !.pc = "select", !.t = now,
                    !.at = IF k \in {"refresh", "revoke"} THEN None ELSE i,
                    !.tok = IF k = "refresh" THEN cookie ELSE 0]
<1>1. r \in CallType
  <2>1. k = "refresh" => cookie \in Nat BY DEF Send, TypeOK
  <2>2. "select" \notin Held BY DEF Held
  <2> QED BY <2>1, <2>2, NoCallTyped, PcTyped DEF TypeOK, CallType
<1>2. call' = [call EXCEPT ![c] = r] BY DEF Send
<1>3. call' \in [Call -> CallType] BY <1>1, <1>2, CallReplaced, TypedFacts
<1>4. budget' \in [Kinds -> Nat] BY DEF Send, TypeOK
<1> QED BY <1>3, <1>4 DEF Send, TypeOK, Typed, memory, browser

(* Reading the row. *)
LEMMA SelectType == ASSUME TypeOK, NEW c \in Call, Select(c) \/ DropExpired(c) PROVE Typed'
<1>1. CASE Select(c)
  <2> DEFINE p == IF row # None /\ row.exp <= now THEN "expired" ELSE "got"
  <2>1. p \in Pcs BY PcTyped
  <2>2. call' = [call EXCEPT ![c] = [call[c] EXCEPT !.row = row, !.known = settled,
                                                  !.t = now, !.pc = p]]
    BY <1>1 DEF Select, TypeOK, CallType
  <2>3. call' \in [Call -> CallType]
    <3>1. p \notin Held BY DEF Held
    <3>2. [call[c] EXCEPT !.row = row, !.known = settled, !.t = now, !.pc = p] \in CallType
      BY <2>1, <3>1 DEF TypeOK, CallType
    <3> QED BY <2>2, <3>2, CallReplaced, TypedFacts
  <2> QED BY <1>1, <2>3, OnlyCallTyped DEF Select
<1>2. CASE DropExpired(c)
  <2>1. call' = [call EXCEPT ![c] = [call[c] EXCEPT !.row = None, !.pc = "got"]]
    BY <1>2 DEF DropExpired, TypeOK, CallType
  <2>2. "got" \in Pcs /\ "got" \notin Held BY PcTyped DEF Held
  <2>3. [call[c] EXCEPT !.row = None, !.pc = "got"] \in CallType
    BY <2>2 DEF TypeOK, CallType
  <2>4. call' \in [Call -> CallType] BY <2>1, <2>3, CallReplaced, TypedFacts
  <2> QED BY <1>2, <2>4 DEF DropExpired, TypeOK, Typed, memory, browser
<1> QED BY <1>1, <1>2

(* What getCurrentUser does with the row. *)
LEMMA RequestType ==
    ASSUME TypeOK, NEW c \in Call,
           RequestGone(c) \/ RequestIdle(c) \/ RequestPaused(c) \/ Serve(c)
    PROVE  Typed'
<1>1. CASE RequestGone(c)
  <2>1. call' \in [Call -> CallType] BY <1>1, DoneTyped, TypedFacts DEF RequestGone
  <2>2. Invalidated(call[c].at) BY <1>1 DEF RequestGone
  <2>3. cache' \in [Isolate -> Nat]
        /\ activity' \in [Isolate -> [seen : Times, wrote : Times] \cup {None}]
    BY <2>2, InvalidatedTyped
  <2> QED BY <1>1, <2>1, <2>3 DEF RequestGone, TypeOK, Typed, browser
<1>2. CASE RequestIdle(c)
  <2>1. call' = [call EXCEPT ![c] = [call[c] EXCEPT !.pc = "pause", !.t = now]]
    BY <1>2 DEF RequestIdle, TypeOK, CallType
  <2>2. [call[c] EXCEPT !.pc = "pause", !.t = now] \in CallType
    BY <1>2, PcTyped DEF RequestIdle, TypeOK, CallType
  <2>3. call' \in [Call -> CallType] BY <2>1, <2>2, CallReplaced, TypedFacts
  <2> QED BY <1>2, <2>3, OnlyCallTyped DEF RequestIdle
<1>3. CASE RequestPaused(c)
  <2>1. call' \in [Call -> CallType] BY <1>3, DoneTyped, TypedFacts DEF RequestPaused
  <2> QED BY <1>3, <2>1, OnlyCallTyped DEF RequestPaused
<1>4. CASE Serve(c)
  <2> DEFINE i == call[c].at
             write == now - LastWrite(c) > Interval
             a == [seen |-> now, wrote |-> IF write THEN now ELSE LastWrite(c)]
  <2>1. call[c].row \in RowType BY <1>4 DEF Serve, TypeOK, CallType
  <2>2. i \in Isolate => LastWrite(c) \in Times
    BY <2>1 DEF TypeOK, LastWrite, RowType
  <2>3. activity' \in [Isolate -> [seen : Times, wrote : Times] \cup {None}]
    <3>1. CASE i \in Isolate
      <4>1. a \in [seen : Times, wrote : Times] BY <3>1, <2>2 DEF TypeOK
      <4>2. activity' = [activity EXCEPT ![i] = a] BY <1>4 DEF Serve
      <4> QED BY <4>1, <4>2 DEF TypeOK
    <3>2. CASE i \notin Isolate
      <4>1. activity' = activity BY <1>4, <3>2 DEF Serve, TypeOK
      <4> QED BY <4>1 DEF TypeOK
    <3> QED BY <3>1, <3>2
  <2>4. late' \subseteq Isolate \X Times
    <3>1. i \in Isolate => <<i, now>> \in Isolate \X Times BY DEF TypeOK
    <3>2. i \in Isolate BY <1>4 DEF Serve, At, TypeOK, CallType
    <3> QED BY <1>4, <3>1, <3>2 DEF Serve, TypeOK
  <2>5. cache' \in [Isolate -> Nat]
    <3>1. now + CacheTtl \in Nat BY TimesAssumption DEF TypeOK, Times
    <3> QED BY <1>4, <3>1 DEF Serve, TypeOK
  <2>6. call' \in [Call -> CallType] BY <1>4, DoneTyped, TypedFacts DEF Serve
  <2> QED BY <1>4, <2>3, <2>4, <2>5, <2>6 DEF Serve, TypeOK, Typed, browser
<1> QED BY <1>1, <1>2, <1>3, <1>4

(* The updates of the row give rows. *)
LEMMA RowTouched ==
    ASSUME TypeOK, NEW t \in Times, row # None
    PROVE  /\ [row EXCEPT !.active = t] \in RowType
           /\ [row EXCEPT !.paused = TRUE] \in RowType
           /\ [row EXCEPT !.paused = FALSE, !.active = t] \in RowType
           /\ [row EXCEPT !.v = row.v + 1] \in RowType
<1>1. row \in RowType BY DEF TypeOK
<1>2. row.v \in Nat /\ row.exp \in Nat /\ row.active \in Times /\ row.paused \in BOOLEAN
  BY <1>1 DEF RowType
<1>3. [row EXCEPT !.active = t] \in RowType BY <1>1, <1>2 DEF RowType
<1>4. [row EXCEPT !.paused = TRUE] \in RowType BY <1>1, <1>2 DEF RowType
<1>5. [row EXCEPT !.paused = FALSE, !.active = t] \in RowType BY <1>1, <1>2 DEF RowType
<1>6. row.v + 1 \in Nat BY <1>2
<1>7. [row EXCEPT !.v = row.v + 1] \in RowType BY <1>1, <1>2, <1>6 DEF RowType
<1> QED BY <1>3, <1>4, <1>5, <1>7

(* A deferred write. *)
LEMMA LandType == ASSUME TypeOK, NEW w \in late, LandWrite(w) PROVE Typed'
<1>1. w[2] \in Times BY DEF TypeOK
<1>2. row' \in RowType \cup {None} BY <1>1, RowTouched DEF LandWrite, TypeOK
<1>3. faults' \in Seq({"active", "pause", "rotate", "statement"})
  BY FaultTyped DEF LandWrite, TypeOK
<1> QED BY <1>2, <1>3 DEF LandWrite, TypeOK, Typed, memory, browser

(* An answer to a refresh. *)
LEMMA AnswerTyped ==
    ASSUME TypeOK, NEW c \in Call, NEW v \in Nat, Answer(c, v)
    PROVE  issued' \in Nat /\ cookie' \in Nat \cup {None} /\ call' \in [Call -> CallType]
<1>1. call' \in [Call -> CallType] BY DoneTyped, TypedFacts DEF Answer
<1> QED BY <1>1 DEF Answer, Max2, TypeOK

(* The steps of a refresh that touch neither the row nor the browser. *)
LEMMA RefreshDecidesType ==
    ASSUME TypeOK, NEW c \in Call,
           RefreshExpired(c) \/ TokenReuse(c) \/ WrongPlace(c) \/ Accept(c)
    PROVE  Typed'
<1>1. CASE RefreshExpired(c) \/ TokenReuse(c) \/ WrongPlace(c)
  <2>1. Goto(c, "delete") /\ OnlyCall
    BY <1>1 DEF RefreshExpired, TokenReuse, WrongPlace
  <2>a. "delete" \in Pcs \ {"count"} /\ "delete" \notin Held BY PcTyped DEF Held
  <2>2. call' \in [Call -> CallType] BY <2>1, <2>a, GotoTyped, TypedFacts
  <2> QED BY <2>1, <2>2, OnlyCallTyped
<1>2. CASE Accept(c)
  <2> DEFINE p == IF Inactive(call[c].row, call[c].row.active) THEN "pause" ELSE "extend"
  <2>1. p \in Pcs \ {"count"} BY PcTyped
  <2>2. call' = [call EXCEPT ![c] = [call[c] EXCEPT !.t = now, !.pc = p]]
    BY <1>2 DEF Accept, TypeOK, CallType
  <2>a. call[c].row \in RowType BY <1>2 DEF Accept, TypeOK, CallType
  <2> HIDE DEF p
  <2>3. [call[c] EXCEPT !.t = now, !.pc = p] \in CallType BY <2>a, <2>1 DEF TypeOK, CallType
  <2>4. call' \in [Call -> CallType] BY <2>2, <2>3, CallReplaced, TypedFacts
  <2> QED BY <1>2, <2>4, OnlyCallTyped DEF Accept
<1> QED BY <1>1, <1>2

(* The steps that end a refresh. *)
LEMMA RefreshAnswersType ==
    ASSUME TypeOK, NEW c \in Call,
           RefreshGone(c) \/ RefreshGrace(c) \/ Rotated(c) \/ RefreshFails(c) \/ StatementFails(c)
    PROVE  Typed'
<1>1. CASE RefreshGone(c)
  <2>1. call' \in [Call -> CallType]
    BY <1>1, DoneTyped, TypedFacts DEF RefreshGone, Refused
  <2> QED BY <1>1, <2>1 DEF RefreshGone, Refused, TypeOK, Typed, memory
<1>2. CASE RefreshGrace(c)
  <2>1. call[c].row.v \in Nat BY <1>2 DEF RefreshGrace, TypeOK, CallType, RowType
  <2>2. Answer(c, call[c].row.v) BY <1>2 DEF RefreshGrace
  <2>3. issued' \in Nat /\ cookie' \in Nat \cup {None} /\ call' \in [Call -> CallType]
    BY <2>1, <2>2, AnswerTyped
  <2> QED BY <1>2, <2>3 DEF RefreshGrace, TypeOK, Typed, memory
<1>3. CASE Rotated(c)
  <2> DEFINE v == call[c].row.v + 1
  <2>1. call[c].row \in RowType BY <1>3 DEF Rotated, At, TypeOK, CallType, Held
  <2>2. Answer(c, v) BY <1>3 DEF Rotated
  <2>3. v \in Nat BY <2>1 DEF RowType
  <2>4. issued' \in Nat /\ cookie' \in Nat \cup {None} /\ call' \in [Call -> CallType]
    BY <2>2, <2>3, AnswerTyped
  <2> QED BY <1>3, <2>4 DEF Rotated, TypeOK, Typed, memory
<1>4. CASE RefreshFails(c) \/ StatementFails(c)
  <2>1. call' \in [Call -> CallType] BY <1>4, DoneTyped, TypedFacts DEF RefreshFails, StatementFails
  <2>2. faults' \in Seq({"active", "pause", "rotate", "statement"}) BY <1>4, FaultTyped DEF RefreshFails, StatementFails
  <2> QED BY <1>4, <2>1, <2>2 DEF RefreshFails, StatementFails, TypeOK, Typed, memory, browser
<1> QED BY <1>1, <1>2, <1>3, <1>4

(* The extension gives a row. *)
LEMMA RowExtended ==
    ASSUME TypeOK, row # None PROVE [row EXCEPT !.exp = now + Duration] \in RowType
<1>1. row \in RowType BY DEF TypeOK
<1>2. now + Duration \in Nat BY TimesAssumption DEF TypeOK, Times
<1> QED BY <1>1, <1>2 DEF RowType

(* The three writes of a rotation. *)
LEMMA RefreshWritesType ==
    ASSUME TypeOK, NEW c \in Call, Extend(c) \/ Rotate(c) \/ Touch(c)
    PROVE  Typed'
<1>0. call[c].row \in RowType BY DEF Extend, Rotate, Touch, At, TypeOK, CallType, Held
<1>1. CASE Extend(c)
  <2>1. row' \in RowType \cup {None} BY <1>1, RowExtended DEF Extend, TypeOK
  <2>2. call' \in [Call -> CallType]
    BY <1>0, <1>1, GotoTyped, PcTyped, TypedFacts DEF Extend
  <2> QED BY <1>1, <2>1, <2>2 DEF Extend, TypeOK, Typed, memory, browser
<1>2. CASE Rotate(c)
  <2>0. row # None => row' = [row EXCEPT !.v = row.v + 1]
    BY <1>2 DEF Rotate
  <2>1. row' \in RowType \cup {None}
    BY <1>2, <2>0, RowTouched DEF Rotate, TypeOK
  <2> DEFINE p == IF call[c].row.paused THEN "answer" ELSE "active"
  <2>2. p \in Pcs \ {"count"} BY PcTyped
  <2>3. Goto(c, p) BY <1>2 DEF Rotate
  <2>4. call' \in [Call -> CallType] BY <1>0, <2>2, <2>3, GotoTyped, TypedFacts
  <2> QED BY <1>2, <2>1, <2>4 DEF Rotate, TypeOK, Typed, memory, browser
<1>3. CASE Touch(c)
  <2>1. call[c].t \in Times BY DEF TypeOK, CallType
  <2>2. row' \in RowType \cup {None} BY <1>3, <2>1, RowTouched DEF Touch, TypeOK
  <2>3. call' \in [Call -> CallType]
    BY <1>0, <1>3, GotoTyped, PcTyped, TypedFacts DEF Touch
  <2> QED BY <1>3, <2>2, <2>3 DEF Touch, TypeOK, Typed, memory, browser
<1> QED BY <1>1, <1>2, <1>3

(* The pause of a session. *)
LEMMA PauseType == ASSUME TypeOK, NEW c \in Call, Pause(c) PROVE Typed'
<1>0. call[c].row \in RowType BY DEF Pause, TypeOK, CallType, Held
<1>1. row' \in RowType \cup {None}
  <2>1. now \in Times BY DEF TypeOK
  <2> QED BY <2>1, RowTouched DEF Pause, TypeOK
<1>2. faults' \in Seq({"active", "pause", "rotate", "statement"})
  BY FaultTyped DEF Pause, TypeOK
<1> DEFINE r == IF call[c].kind = "request" THEN NoCall
                ELSE IF call[c].kind = "lock" THEN [call[c] EXCEPT !.pc = "invalidate"]
                ELSE [call[c] EXCEPT !.pc = "extend", !.row = [call[c].row EXCEPT !.paused = TRUE]]
<1>3. [call[c] EXCEPT !.pc = "invalidate"] \in CallType
  <2>1. "invalidate" \in Pcs /\ "invalidate" \notin Held BY PcTyped DEF Held
  <2> QED BY <2>1 DEF TypeOK, CallType
<1>4. [call[c] EXCEPT !.pc = "extend", !.row = [call[c].row EXCEPT !.paused = TRUE]] \in CallType
  <2> DEFINE q == [call[c].row EXCEPT !.paused = TRUE]
  <2>1. q \in RowType BY <1>0 DEF RowType
  <2> HIDE DEF q
  <2>2. "extend" \in Pcs BY PcTyped
  <2>3. call[c] \in CallType BY DEF TypeOK
  <2>4. [call[c] EXCEPT !.pc = "extend", !.row = q] \in CallType
    BY <2>1, <2>2, <2>3 DEF CallType
  <2> QED BY <2>4 DEF q
<1>5. r \in CallType BY <1>3, <1>4, NoCallTyped
<1>6. call' = [call EXCEPT ![c] = r] BY DEF Pause
<1>7. call' \in [Call -> CallType] BY <1>5, <1>6, CallReplaced, TypedFacts
<1> QED BY <1>1, <1>2, <1>7 DEF Pause, TypeOK, Typed, memory, browser

(* Deleting, and what leads to it. *)
LEMMA DeleteType == ASSUME TypeOK, NEW c \in Call, Delete(c) \/ Invalidate(c) \/ Proceed(c)
                    PROVE  Typed'
<1>1. CASE Delete(c)
  <2>1. call' \in [Call -> CallType]
    <3>1. "invalidate" \in Pcs /\ "invalidate" \notin Held BY PcTyped DEF Held
    <3> QED BY <1>1, <3>1, GotoTyped, DoneTyped, TypedFacts DEF Delete
  <2> QED BY <1>1, <2>1 DEF Delete, TypeOK, Typed, memory
<1>2. CASE Invalidate(c)
  <2>1. call' \in [Call -> CallType] BY <1>2, DoneTyped, TypedFacts DEF Invalidate
  <2>2. Invalidated(call[c].at) BY <1>2 DEF Invalidate
  <2>3. cache' \in [Isolate -> Nat]
        /\ activity' \in [Isolate -> [seen : Times, wrote : Times] \cup {None}]
    BY <2>2, InvalidatedTyped
  <2> QED BY <1>2, <2>1, <2>3 DEF Invalidate, TypeOK, Typed
<1>3. CASE Proceed(c)
  <2>1. call' \in [Call -> CallType]
    <3>1. {"delete", "pause"} \subseteq Pcs \ {"count"} /\ "delete" \notin Held
      BY PcTyped DEF Held
    <3>a. call[c].row # None => call[c].row \in RowType BY DEF TypeOK, CallType
    <3>2. CASE call[c].row = None /\ call[c].kind # "logout"
      BY <1>3, <3>2, DoneTyped, TypedFacts DEF Proceed
    <3>3. CASE call[c].kind = "lock" /\ call[c].row # None
      BY <1>3, <3>1, <3>a, <3>3, GotoTyped, TypedFacts DEF Proceed
    <3>4. CASE call[c].kind # "lock" /\ ~(call[c].row = None /\ call[c].kind # "logout")
      BY <1>3, <3>1, <3>4, GotoTyped, TypedFacts DEF Proceed
    <3> QED BY <3>2, <3>3, <3>4
  <2> QED BY <1>3, <2>1, OnlyCallTyped DEF Proceed
<1> QED BY <1>1, <1>2, <1>3

(* The unlocking. *)
LEMMA UnlockType ==
    ASSUME TypeOK, NEW c \in Call,
           UnlockGone(c) \/ RightPin(c) \/ WrongPin(c) \/ CountWrongPin(c) \/ Resume(c)
    PROVE  Typed'
<1>1. CASE UnlockGone(c)
  <2>1. call' \in [Call -> CallType] BY <1>1, DoneTyped, TypedFacts DEF UnlockGone
  <2> QED BY <1>1, <2>1, OnlyCallTyped DEF UnlockGone
<1>2. CASE RightPin(c)
  <2>1. call' = [call EXCEPT ![c] = [call[c] EXCEPT !.pc = "resume", !.t = now]]
    BY <1>2 DEF RightPin, TypeOK, CallType
  <2>2. "resume" \in Pcs /\ "resume" \notin Held BY PcTyped DEF Held
  <2>3. [call[c] EXCEPT !.pc = "resume", !.t = now] \in CallType BY <2>2 DEF TypeOK, CallType
  <2>4. call' \in [Call -> CallType] BY <2>1, <2>3, CallReplaced, TypedFacts
  <2> QED BY <1>2, <2>4, OnlyCallTyped DEF RightPin
<1>3. CASE WrongPin(c)
  <2> DEFINE p == IF fails + 1 >= 3 THEN "delete" ELSE "count"
  <2>1. call' = [call EXCEPT ![c] = [call[c] EXCEPT !.tok = fails + 1, !.pc = p]]
    BY <1>3 DEF WrongPin, TypeOK, CallType
  <2>2. p \in Pcs /\ p \notin Held BY PcTyped DEF Held
  <2>3. fails + 1 \in Nat /\ (p = "count" => fails + 1 \in 0..2) BY DEF TypeOK
  <2> HIDE DEF p
  <2>4. [call[c] EXCEPT !.tok = fails + 1, !.pc = p] \in CallType
    BY <2>2, <2>3 DEF TypeOK, CallType
  <2>5. call' \in [Call -> CallType] BY <2>1, <2>4, CallReplaced, TypedFacts
  <2> QED BY <1>3, <2>5, OnlyCallTyped DEF WrongPin
<1>4. CASE CountWrongPin(c)
  <2>1. call' \in [Call -> CallType] BY <1>4, DoneTyped, TypedFacts DEF CountWrongPin
  <2>2. fails' \in 0..2 BY <1>4 DEF CountWrongPin, At, TypeOK, CallType
  <2> QED BY <1>4, <2>1, <2>2 DEF CountWrongPin, TypeOK, Typed, memory, browser
<1>5. CASE Resume(c)
  <2>1. call[c].t \in Times BY DEF TypeOK, CallType
  <2>2. row' \in RowType \cup {None} BY <1>5, <2>1, RowTouched DEF Resume, TypeOK
  <2>3. "invalidate" \in Pcs /\ "invalidate" \notin Held BY PcTyped DEF Held
  <2>4. call' \in [Call -> CallType] BY <1>5, <2>3, GotoTyped, TypedFacts DEF Resume
  <2> QED BY <1>5, <2>2, <2>4 DEF Resume, TypeOK, Typed, memory, browser
<1> QED BY <1>1, <1>2, <1>3, <1>4, <1>5

(* Memory, cron trigger and clock. *)
LEMMA EnvironmentType ==
    ASSUME TypeOK,
           \/ \E i \in Isolate : ServeFromCache(i) \/ EvictUser(i) \/ EvictActivity(i)
           \/ DeleteExpiredSessions \/ ForgetWrongPins \/ Tick
    PROVE  Typed'
<1>1. CASE \E i \in Isolate : ServeFromCache(i)
  <2>1. PICK i \in Isolate : ServeFromCache(i) BY <1>1
  <2>2. activity' \in [Isolate -> [seen : Times, wrote : Times] \cup {None}]
    <3>1. CASE activity[i] = None BY <2>1, <3>1 DEF ServeFromCache, TypeOK
    <3>2. CASE activity[i] # None
      <4>1. [activity[i] EXCEPT !.seen = now] \in [seen : Times, wrote : Times]
        BY <3>2 DEF TypeOK
      <4>2. activity' = [activity EXCEPT ![i] = [activity[i] EXCEPT !.seen = now]]
        BY <2>1, <3>2 DEF ServeFromCache
      <4> QED BY <4>1, <4>2 DEF TypeOK
    <3> QED BY <3>1, <3>2
  <2> QED BY <2>1, <2>2 DEF ServeFromCache, TypeOK, Typed, browser
<1>2. CASE \E i \in Isolate : EvictUser(i) \/ EvictActivity(i)
  <2>1. PICK i \in Isolate : EvictUser(i) \/ EvictActivity(i) BY <1>2
  <2>2. cache' \in [Isolate -> Nat] BY <2>1 DEF EvictUser, EvictActivity, TypeOK
  <2>3. activity' \in [Isolate -> [seen : Times, wrote : Times] \cup {None}]
    BY <2>1 DEF EvictUser, EvictActivity, TypeOK
  <2> QED BY <2>1, <2>2, <2>3 DEF EvictUser, EvictActivity, TypeOK, Typed, browser
<1>3. CASE DeleteExpiredSessions
  BY <1>3 DEF DeleteExpiredSessions, TypeOK, Typed, memory, browser
<1>4. CASE ForgetWrongPins
  BY <1>4 DEF ForgetWrongPins, TypeOK, Typed, memory, browser
<1>5. CASE Tick
  <2>1. now' \in Times BY <1>5, TimesAssumption DEF Tick, TypeOK, Times
  <2>2. cache' \in [Isolate -> Nat] BY <1>5 DEF Tick, TypeOK
  <2> QED BY <1>5, <2>1, <2>2 DEF Tick, TypeOK, Typed, browser
<1> QED BY <1>1, <1>2, <1>3, <1>4, <1>5

(* Every step is typed. *)
LEMMA MoveType == TypeOK /\ Move => Typed'
<1> SUFFICES ASSUME TypeOK, Move PROVE Typed' OBVIOUS
<1>1. CASE \E c \in Call, k \in Kinds, i \in Isolate : Send(c, k, i) BY <1>1, SendType
<1>2. CASE \E c \in Call : Step(c)
  <2>1. PICK c \in Call : Step(c) BY <1>2
  <2> QED
    BY <2>1, SelectType, RequestType, RefreshDecidesType, RefreshAnswersType,
       RefreshWritesType, PauseType, DeleteType, UnlockType DEF Step
<1>3. CASE \E w \in late : LandWrite(w) BY <1>3, LandType
<1>4. CASE \/ \E i \in Isolate : ServeFromCache(i) \/ EvictUser(i) \/ EvictActivity(i)
           \/ DeleteExpiredSessions \/ ForgetWrongPins \/ Tick
  BY <1>4, EnvironmentType
<1> QED BY <1>1, <1>2, <1>3, <1>4 DEF Move

(* The type invariant is inductive. *)
LEMMA StepType == TypeOK /\ [Next]_vars => TypeOK'
<1> SUFFICES ASSUME TypeOK, [Next]_vars PROVE TypeOK' OBVIOUS
<1>1. CASE Next
  <2>1. Typed' BY <1>1, MoveType DEF Next
  <2>2. good' \in Times /\ settled' \in Times BY <1>1, <2>1 DEF Next, TypeOK, Typed
  <2> QED BY <2>1, <2>2 DEF TypeOK, Typed
<1>2. CASE UNCHANGED vars BY <1>2 DEF vars, memory, browser, TypeOK
<1> QED BY <1>1, <1>2

(* Types: every variable keeps to its set, whatever the constants are.     *)
THEOREM SessionsTypes == Spec => []TypeOK
BY InitType, StepType, PTL DEF Spec

-----------------------------------------------------------------------------
(* Bounded access.  Inductive: a live session makes now the last good time;*)
(* an entry of the micro-cache, and the row a request holds, are no older  *)
(* than a handler may be.                                                  *)

Usable(r) == r.kind = "request" /\ r.pc = "got" /\ r.row # None /\ ~r.row.paused

Fresh(r, t, g) ==
    /\ r.kind # None => t - r.t <= Delay
    /\ Usable(r) => r.t <= g

CallsFresh == \A c \in Call : Fresh(call[c], now, good)
CacheFresh == \A i \in Isolate :
    cache[i] <= good + Delay + CacheTtl /\ (cache[i] = 0 \/ now < cache[i])
GoodIsLast == good <= now /\ (Live(row, now) => good = now)

AccessInv == CallsFresh /\ CacheFresh /\ GoodIsLast /\ BoundedAccess

(* The access invariant holds at the start. *)
LEMMA InitAccess == Init => AccessInv
<1> SUFFICES ASSUME Init PROVE AccessInv OBVIOUS
<1>1. NoCall.kind = None BY DEF NoCall
<1>2. CallsFresh
  <2>1. ~Usable(NoCall) BY NoneAssumption DEF Usable, NoCall
  <2> QED BY <1>1, <2>1 DEF Init, CallsFresh, Fresh
<1>3. CacheFresh BY TimesAssumption DEF Init, CacheFresh
<1>4. GoodIsLast BY DEF Init, GoodIsLast
<1>5. BoundedAccess BY TimesAssumption DEF Init, BoundedAccess
<1> QED BY <1>2, <1>3, <1>4, <1>5 DEF AccessInv

(* The last good time only grows and is not ahead of the clock. *)
LEMMA GoodStep ==
    ASSUME TypeOK, AccessInv, Next, now <= now', now' \in Nat
    PROVE  GoodIsLast' /\ good <= good'
BY DEF Next, AccessInv, GoodIsLast, Live, TypeOK, Times

(* A step that touches no call and not the clock. *)
LEMMA OthersFresh ==
    ASSUME TypeOK, AccessInv, now' = now, good' \in Nat, good <= good', call' = call
    PROVE  CallsFresh'
<1> SUFFICES ASSUME NEW d \in Call PROVE Fresh(call[d], now, good') BY DEF CallsFresh
<1>1. Fresh(call[d], now, good) BY DEF AccessInv, CallsFresh
<1>2. call[d].t \in Nat /\ good \in Nat BY DEF TypeOK, CallType, Times
<1> QED BY <1>1, <1>2 DEF Fresh

(* A step of call c that leaves the clock alone. *)
LEMMA CallStep ==
    ASSUME TypeOK, CallsFresh, now' = now, good' \in Nat, good <= good',
           NEW c \in Call, NEW r, call' = [call EXCEPT ![c] = r],
           r.kind # None => now - r.t <= Delay,
           Usable(r) => r.t <= good'
    PROVE  CallsFresh'
<1> SUFFICES ASSUME NEW d \in Call PROVE Fresh(call'[d], now', good') BY DEF CallsFresh
<1>1. CASE d = c BY <1>1 DEF Fresh, TypeOK
<1>2. CASE d # c
  <2>1. call'[d] = call[d] BY <1>2 DEF TypeOK
  <2>2. Fresh(call[d], now, good) BY DEF CallsFresh
  <2>3. call[d].t \in Nat BY DEF TypeOK, CallType, Times
  <2>4. good \in Nat BY DEF TypeOK, Times
  <2> QED BY <2>1, <2>2, <2>3, <2>4 DEF Fresh
<1> QED BY <1>1, <1>2

(* A call that ends is of no concern. *)
LEMMA DoneStep ==
    ASSUME TypeOK, CallsFresh, now' = now, good' \in Nat, good <= good',
           NEW c \in Call, Done(c)
    PROVE  CallsFresh'
<1>1. NoCall.kind = None /\ ~Usable(NoCall) BY NoneAssumption DEF NoCall, Usable
<1> QED BY <1>1, CallStep DEF Done

(* A call that moves on keeps its time. *)
LEMMA GotoStep ==
    ASSUME TypeOK, CallsFresh, now' = now, good' \in Nat, good <= good',
           NEW c \in Call, NEW p, p # "got", Goto(c, p)
    PROVE  CallsFresh'
<1> DEFINE r == [call[c] EXCEPT !.pc = p]
<1>1. r.kind = call[c].kind /\ r.t = call[c].t /\ r.pc = p BY DEF TypeOK, CallType
<1>2. call' = [call EXCEPT ![c] = r] BY DEF Goto
<1>3. ~Usable(r) BY <1>1 DEF Usable
<1>4. r.kind # None => now - r.t <= Delay BY <1>1 DEF CallsFresh, Fresh
<1> HIDE DEF r
<1> QED BY <1>2, <1>3, <1>4, CallStep

(* A call that takes the time anew. *)
LEMMA StampStep ==
    ASSUME TypeOK, CallsFresh, now' = now, good' \in Nat, good <= good',
           NEW c \in Call, NEW r, call' = [call EXCEPT ![c] = r],
           r.t = now, ~Usable(r)
    PROVE  CallsFresh'
<1>1. now - r.t <= Delay BY TimesAssumption DEF TypeOK, Times
<1> QED BY <1>1, CallStep

(* Every step of a handler keeps its reading recent enough. *)
LEMMA StepFresh ==
    ASSUME TypeOK, CallsFresh, GoodIsLast, now' = now, good' \in Nat, good <= good',
           NEW c \in Call, Step(c)
    PROVE  CallsFresh'
<1>1. CASE Select(c)
  <2> DEFINE r == [call[c] EXCEPT !.row = row, !.known = settled, !.t = now,
                       !.pc = IF row # None /\ row.exp <= now THEN "expired" ELSE "got"]
  <2>1. call' = [call EXCEPT ![c] = r] BY <1>1 DEF Select, TypeOK, CallType
  <2>2. r.t = now /\ r.row = row
        /\ (r.pc = "got" => row = None \/ now < row.exp)
    BY DEF TypeOK, CallType, RowType, Times
  <2>3. Usable(r) => r.t <= good'
    <3>1. Usable(r) => Live(row, now) BY <2>2 DEF Usable, Live
    <3> QED BY <3>1, <2>2 DEF GoodIsLast
  <2>4. now - r.t <= Delay BY <2>2, TimesAssumption DEF TypeOK, Times
  <2> HIDE DEF r
  <2> QED BY <2>1, <2>3, <2>4, CallStep
<1>2. CASE DropExpired(c)
  <2> DEFINE r == [call[c] EXCEPT !.row = None, !.pc = "got"]
  <2>1. call' = [call EXCEPT ![c] = r] BY <1>2 DEF DropExpired, TypeOK, CallType
  <2>2. r.kind = call[c].kind /\ r.t = call[c].t /\ ~Usable(r) BY DEF TypeOK, CallType, Usable
  <2>3. r.kind # None => now - r.t <= Delay BY <2>2 DEF CallsFresh, Fresh
  <2> HIDE DEF r
  <2> QED BY <2>1, <2>2, <2>3, CallStep
<1>3. CASE RequestIdle(c)
  <2> DEFINE r == [call[c] EXCEPT !.pc = "pause", !.t = now]
  <2>1. call' = [call EXCEPT ![c] = r] BY <1>3 DEF RequestIdle
  <2>2. r.t = now /\ ~Usable(r) BY DEF TypeOK, CallType, Usable
  <2> QED BY <2>1, <2>2, StampStep
<1>4. CASE Accept(c)
  <2> DEFINE p == IF Inactive(call[c].row, call[c].row.active) THEN "pause" ELSE "extend"
             r == [call[c] EXCEPT !.t = now, !.pc = p]
  <2>1. call' = [call EXCEPT ![c] = r] BY <1>4 DEF Accept
  <2>a. p # "got" OBVIOUS
  <2> HIDE DEF p
  <2>2. r.t = now /\ ~Usable(r) BY <2>a DEF TypeOK, CallType, Usable
  <2> QED BY <2>1, <2>2, StampStep
<1>5. CASE RightPin(c)
  <2> DEFINE r == [call[c] EXCEPT !.pc = "resume", !.t = now]
  <2>1. call' = [call EXCEPT ![c] = r] BY <1>5 DEF RightPin
  <2>2. r.t = now /\ ~Usable(r) BY DEF TypeOK, CallType, Usable
  <2> QED BY <2>1, <2>2, StampStep
<1>6. CASE WrongPin(c)
  <2> DEFINE r == [call[c] EXCEPT !.tok = fails + 1,
                       !.pc = IF fails + 1 >= 3 THEN "delete" ELSE "count"]
  <2>1. call' = [call EXCEPT ![c] = r] BY <1>6 DEF WrongPin
  <2>2. r.kind = call[c].kind /\ r.t = call[c].t /\ ~Usable(r) BY DEF TypeOK, CallType, Usable
  <2>3. r.kind # None => now - r.t <= Delay BY <2>2 DEF CallsFresh, Fresh
  <2> HIDE DEF r
  <2> QED BY <2>1, <2>2, <2>3, CallStep
<1>7. CASE Pause(c)
  <2>1. CASE call[c].kind = "request"
    <3>1. Done(c) BY <1>7, <2>1 DEF Pause, Done
    <3> QED BY <3>1, DoneStep
  <2>2. CASE call[c].kind = "lock"
    <3>1. Goto(c, "invalidate") BY <1>7, <2>2 DEF Pause, Goto
    <3> QED BY <3>1, GotoStep
  <2>3. CASE call[c].kind \notin {"request", "lock"}
    <3> DEFINE r == [call[c] EXCEPT !.pc = "extend",
                                    !.row = [call[c].row EXCEPT !.paused = TRUE]]
    <3>1. call' = [call EXCEPT ![c] = r] BY <1>7, <2>3 DEF Pause
    <3>2. r.kind = call[c].kind /\ r.t = call[c].t /\ ~Usable(r)
      BY DEF TypeOK, CallType, Usable
    <3>3. r.kind # None => now - r.t <= Delay BY <3>2 DEF CallsFresh, Fresh
    <3> HIDE DEF r
    <3> QED BY <3>1, <3>2, <3>3, CallStep
  <2> QED BY <2>1, <2>2, <2>3
<1>8. CASE Done(c) BY <1>8, DoneStep
<1>9. CASE \E p \in {"delete", "rotate", "answer", "active", "invalidate", "pause"} : Goto(c, p)
  BY <1>9, GotoStep
<1>10. CASE RequestGone(c) \/ RequestPaused(c) \/ Serve(c) \/ RefreshGone(c) \/ RefreshGrace(c)
            \/ Rotated(c) \/ RefreshFails(c) \/ StatementFails(c) \/ UnlockGone(c) \/ CountWrongPin(c) \/ Invalidate(c)
  BY <1>8, <1>10 DEF RequestGone, RequestPaused, Serve, RefreshGone, Refused, RefreshGrace, Answer,
     Rotated, RefreshFails, StatementFails, UnlockGone, CountWrongPin, Invalidate
<1>11. CASE RefreshExpired(c) \/ TokenReuse(c) \/ WrongPlace(c) \/ Extend(c) \/ Rotate(c)
            \/ Touch(c) \/ Resume(c)
  BY <1>9, <1>11 DEF RefreshExpired, TokenReuse, WrongPlace, Extend, Rotate, Touch, Resume
<1>12. CASE Delete(c) \/ Proceed(c)
  BY <1>8, <1>9, <1>12 DEF Delete, Proceed
<1> QED BY <1>1, <1>2, <1>3, <1>4, <1>5, <1>6, <1>7, <1>10, <1>11, <1>12 DEF Step

(* Only Tick moves the clock. *)
LEMMA ClockStep ==
    ASSUME Move PROVE now' = now \/ Tick
<1>1. ASSUME NEW c \in Call, Step(c) PROVE now' = now
  BY <1>1 DEF Step, OnlyCall, Select, DropExpired, RequestGone, RequestIdle, RequestPaused,
     Serve, RefreshGone, RefreshGrace, RefreshExpired, TokenReuse, WrongPlace, Accept, Extend,
     Rotate, Touch, Rotated, RefreshFails, StatementFails, Pause, Delete, Invalidate, Proceed,
     UnlockGone,
     RightPin, WrongPin, CountWrongPin, Resume
<1> QED BY <1>1 DEF Move, Send, ServeFromCache, EvictUser, EvictActivity, LandWrite,
        DeleteExpiredSessions, ForgetWrongPins

(* The three ways in which a step of a call treats the micro-cache. *)
LEMMA CacheEffect ==
    ASSUME NEW c \in Call, Step(c)
    PROVE  \/ cache' = cache /\ lastServed' = lastServed
           \/ lastServed' = lastServed /\ \E i : cache' = [cache EXCEPT ![i] = 0]
           \/ Serve(c)
<1>1. CASE RequestGone(c) \/ Invalidate(c)
  BY <1>1 DEF RequestGone, Invalidate, Invalidated
<1>2. CASE ~RequestGone(c) /\ ~Invalidate(c) /\ ~Serve(c)
  BY <1>2 DEF Step, OnlyCall, memory, Select, DropExpired, RequestIdle, RequestPaused,
     RefreshGone, RefreshGrace, RefreshExpired, TokenReuse, WrongPlace, Accept, Extend,
     Rotate, Touch, Rotated, RefreshFails, StatementFails, Pause, Delete, Proceed, UnlockGone,
     RightPin, WrongPin, CountWrongPin, Resume
<1> QED BY <1>1, <1>2

(* Numbers are numbers. *)
LEMMA AccessFacts ==
    ASSUME TypeOK
    PROVE  /\ now \in Nat /\ good \in Nat /\ lastServed \in Nat
           /\ \A i \in Isolate : cache[i] \in Nat
           /\ CacheTtl \in Nat /\ CacheTtl > 0 /\ Delay \in Nat
BY TimesAssumption DEF TypeOK, Times

(* A step that adds no entry and serves nobody. *)
LEMMA CacheKept ==
    ASSUME TypeOK, AccessInv, now' = now, good' \in Nat, good <= good',
           lastServed' = lastServed,
           cache' = cache \/ \E i : cache' = [cache EXCEPT ![i] = 0]
    PROVE  CacheFresh' /\ BoundedAccess'
<1>1. BoundedAccess' BY AccessFacts DEF AccessInv, BoundedAccess
<1>2. ASSUME NEW j \in Isolate
      PROVE  cache'[j] <= good' + Delay + CacheTtl /\ (cache'[j] = 0 \/ now' < cache'[j])
  <2>1. cache'[j] = cache[j] \/ cache'[j] = 0 BY DEF TypeOK
  <2>2. cache[j] <= good + Delay + CacheTtl /\ (cache[j] = 0 \/ now < cache[j])
    BY DEF AccessInv, CacheFresh
  <2> QED BY <2>1, <2>2, AccessFacts
<1> QED BY <1>1, <1>2 DEF CacheFresh

(* A request is let through on a row that is as old as a handler may be.   *)
LEMMA ServeStep ==
    ASSUME TypeOK, AccessInv, now' = now, good' \in Nat, good <= good',
           NEW c \in Call, Serve(c)
    PROVE  CacheFresh' /\ BoundedAccess'
<1>1. call[c].kind # None BY NoneAssumption DEF Serve, At, Kinds
<1>2. Usable(call[c]) BY DEF Serve, At, Usable
<1>3. now <= good + Delay
  <2>1. now - call[c].t <= Delay /\ call[c].t <= good
    BY <1>1, <1>2 DEF AccessInv, CallsFresh, Fresh
  <2>2. call[c].t \in Nat BY DEF TypeOK, CallType, Times
  <2> QED BY <2>1, <2>2, AccessFacts
<1>4. lastServed' = now BY DEF Serve
<1>5. BoundedAccess' BY <1>3, <1>4, AccessFacts DEF BoundedAccess
<1>6. ASSUME NEW j \in Isolate
      PROVE  cache'[j] <= good' + Delay + CacheTtl /\ (cache'[j] = 0 \/ now' < cache'[j])
  <2>1. cache'[j] = cache[j] \/ cache'[j] = now + CacheTtl BY DEF Serve, TypeOK
  <2>2. cache[j] <= good + Delay + CacheTtl /\ (cache[j] = 0 \/ now < cache[j])
    BY DEF AccessInv, CacheFresh
  <2> QED BY <1>3, <2>1, <2>2, AccessFacts
<1> QED BY <1>5, <1>6 DEF CacheFresh

(* A request served from the micro-cache. *)
LEMMA FromCacheStep ==
    ASSUME TypeOK, AccessInv, now' = now, good' \in Nat, good <= good',
           NEW i \in Isolate, ServeFromCache(i)
    PROVE  CacheFresh' /\ BoundedAccess'
<1>1. now < cache[i] /\ cache[i] <= good + Delay + CacheTtl
  BY DEF AccessInv, CacheFresh, ServeFromCache
<1>2. lastServed' = now /\ cache' = cache BY DEF ServeFromCache
<1>3. BoundedAccess' BY <1>1, <1>2, AccessFacts DEF BoundedAccess
<1>4. ASSUME NEW j \in Isolate
      PROVE  cache'[j] <= good' + Delay + CacheTtl /\ (cache'[j] = 0 \/ now' < cache'[j])
  <2>1. cache[j] <= good + Delay + CacheTtl /\ (cache[j] = 0 \/ now < cache[j])
    BY DEF AccessInv, CacheFresh
  <2> QED BY <1>2, <2>1, AccessFacts
<1> QED BY <1>3, <1>4 DEF CacheFresh

(* The clock moves: the calls under way are not too old. *)
LEMMA TickStep ==
    ASSUME TypeOK, AccessInv, Tick, good' \in Nat, good <= good'
    PROVE  CacheFresh' /\ BoundedAccess' /\ CallsFresh'
<1>1. now' = now + 1 /\ lastServed' = lastServed /\ call' = call BY DEF Tick
<1>2. BoundedAccess' BY <1>1, AccessFacts DEF AccessInv, BoundedAccess
<1>3. ASSUME NEW j \in Isolate
      PROVE  cache'[j] <= good' + Delay + CacheTtl /\ (cache'[j] = 0 \/ now' < cache'[j])
  <2>1. cache'[j] = 0 \/ (cache'[j] = cache[j] /\ now + 1 < cache[j])
    BY AccessFacts DEF Tick
  <2>2. cache[j] <= good + Delay + CacheTtl BY DEF AccessInv, CacheFresh
  <2> QED BY <1>1, <2>1, <2>2, AccessFacts
<1>4. ASSUME NEW c \in Call PROVE Fresh(call'[c], now', good')
  <2>1. Fresh(call[c], now, good) BY DEF AccessInv, CallsFresh
  <2>2. call[c].t \in Nat BY DEF TypeOK, CallType, Times
  <2>3. call[c].kind # None => now - call[c].t < Delay BY DEF Tick, NoCall
  <2> QED BY <1>1, <2>1, <2>2, <2>3, AccessFacts DEF Fresh
<1> QED BY <1>2, <1>3, <1>4 DEF CacheFresh, CallsFresh

(* A new request carries the time. *)
LEMMA SendStep ==
    ASSUME TypeOK, AccessInv, good' \in Nat, good <= good',
           NEW c \in Call, NEW k \in Kinds, NEW i \in Isolate, Send(c, k, i)
    PROVE  CacheFresh' /\ BoundedAccess' /\ CallsFresh'
<1>1. now' = now /\ cache' = cache /\ lastServed' = lastServed BY DEF Send, memory
<1>2. CacheFresh' /\ BoundedAccess' BY <1>1, CacheKept
<1> DEFINE r == [NoCall EXCEPT !.kind = k, !.pc = "select", !.t = now,
                    !.at = IF k \in {"refresh", "revoke"} THEN None ELSE i,
                    !.tok = IF k = "refresh" THEN cookie ELSE 0]
<1>3. call' = [call EXCEPT ![c] = r] BY DEF Send
<1>4. r.t = now /\ ~Usable(r) BY DEF NoCall, Usable
<1> HIDE DEF r
<1>5. CallsFresh' BY <1>1, <1>3, <1>4, StampStep DEF AccessInv
<1> QED BY <1>2, <1>5

(* The access invariant is inductive. *)
LEMMA AccessStep == TypeOK /\ TypeOK' /\ AccessInv /\ [Next]_vars => AccessInv'
<1> SUFFICES ASSUME TypeOK, TypeOK', AccessInv, [Next]_vars PROVE AccessInv' OBVIOUS
<1>1. CASE Next
  <2>0. Move BY <1>1 DEF Next
  <2>1. now' \in Nat /\ good' \in Nat BY AccessFacts DEF TypeOK, Times
  <2>2. now' = now \/ Tick BY <2>0, ClockStep
  <2>3. now <= now' BY <2>2, AccessFacts DEF Tick
  <2>4. GoodIsLast' /\ good <= good' BY <1>1, <2>1, <2>3, GoodStep
  <2>5. CallsFresh' /\ CacheFresh' /\ BoundedAccess'
    <3>1. CASE \E c \in Call, k \in Kinds, i \in Isolate : Send(c, k, i)
      BY <2>1, <2>4, <3>1, SendStep
    <3>2. CASE \E c \in Call : Step(c)
      <4>1. PICK c \in Call : Step(c) BY <3>2
      <4>2. now' = now
        BY <4>1 DEF Step, OnlyCall, Select, DropExpired, RequestGone, RequestIdle, RequestPaused,
           Serve, RefreshGone, RefreshGrace, RefreshExpired, TokenReuse, WrongPlace, Accept, Extend,
           Rotate, Touch, Rotated, RefreshFails, StatementFails, Pause, Delete, Invalidate,
           Proceed, UnlockGone,
           RightPin, WrongPin, CountWrongPin, Resume
      <4>3. CallsFresh' BY <2>1, <2>4, <4>1, <4>2, StepFresh DEF AccessInv
      <4>4. CacheFresh' /\ BoundedAccess'
        BY <2>1, <2>4, <4>1, <4>2, CacheEffect, CacheKept, ServeStep
      <4> QED BY <4>3, <4>4
    <3>3. CASE \E i \in Isolate : ServeFromCache(i)
      <4>1. now' = now /\ call' = call BY <3>3 DEF ServeFromCache
      <4>2. CallsFresh' BY <4>1, <2>1, <2>4, OthersFresh
      <4> QED BY <2>1, <2>4, <3>3, <4>1, <4>2, FromCacheStep
    <3>4. CASE \/ \E i \in Isolate : EvictUser(i) \/ EvictActivity(i)
               \/ \E w \in late : LandWrite(w)
               \/ DeleteExpiredSessions \/ ForgetWrongPins
      <4>1. /\ now' = now /\ call' = call /\ lastServed' = lastServed
            /\ cache' = cache \/ \E i : cache' = [cache EXCEPT ![i] = 0]
        BY <3>4 DEF EvictUser, EvictActivity, LandWrite, DeleteExpiredSessions,
                    ForgetWrongPins, memory
      <4>2. CallsFresh' BY <4>1, <2>1, <2>4, OthersFresh
      <4> QED BY <2>1, <2>4, <4>1, <4>2, CacheKept
    <3>5. CASE Tick BY <2>1, <2>4, <3>5, TickStep
    <3> QED BY <2>0, <3>1, <3>2, <3>3, <3>4, <3>5 DEF Move
  <2> QED BY <2>4, <2>5 DEF AccessInv
<1>2. CASE UNCHANGED vars
  BY <1>2 DEF vars, memory, browser, AccessInv, CallsFresh, CacheFresh, GoodIsLast, BoundedAccess
<1> QED BY <1>1, <1>2

(* Bounded access: whatever the number of isolates and of calls, a session *)
(* that was deleted, locked or has run out lets no request through later   *)
(* than the micro-cache entry and one handler allow.                       *)
THEOREM SessionAccess == Spec => []BoundedAccess
<1>1. Init => AccessInv BY InitAccess
<1>2. AccessInv => BoundedAccess BY DEF AccessInv
<1> QED BY <1>1, <1>2, AccessStep, SessionsTypes, PTL DEF Spec

-----------------------------------------------------------------------------
(* The rotation counter.  Inductive: the counter of the row only grows, a  *)
(* call holds a copy that was read earlier, and a refresh that has done    *)
(* its increment is one of those the counter has counted.                  *)

Incremented(r) == r.kind = "refresh" /\ r.pc \in {"active", "answer"}

Counted(r, v) ==
    /\ r.kind = "refresh" /\ r.row \in RowType => r.row.v <= v
    /\ Incremented(r) => r.row.v + 1 <= v

CounterInv ==
    row # None => issued <= row.v /\ \A c \in Call : Counted(call[c], row.v)

RowGrows == row' # None => row # None /\ row.v <= row'.v

(* Versions are numbers. *)
LEMMA VersionFacts ==
    ASSUME TypeOK
    PROVE  /\ issued \in Nat
           /\ row # None => row.v \in Nat
           /\ \A c \in Call : call[c].row \in RowType => call[c].row.v \in Nat
           /\ \A c \in Call : Incremented(call[c]) => call[c].row \in RowType
<1>1. issued \in Nat /\ (row # None => row.v \in Nat) BY DEF TypeOK, RowType
<1>2. ASSUME NEW c \in Call, Incremented(call[c]) PROVE call[c].row \in RowType
  <2>1. call[c] \in CallType BY DEF TypeOK
  <2> QED BY <1>2, <2>1 DEF CallType, Incremented, Held
<1>3. \A c \in Call : call[c].row \in RowType => call[c].row.v \in Nat BY DEF RowType
<1> QED BY <1>1, <1>2, <1>3

(* One call changes, the row grows, what is answered was counted. *)
LEMMA CounterKept ==
    ASSUME TypeOK, TypeOK', CounterInv, RowGrows, NEW c \in Call, NEW r,
           call' = [call EXCEPT ![c] = r],
           row' # None => Counted(r, row'.v) /\ issued' <= row'.v
    PROVE  CounterInv'
<1> SUFFICES ASSUME row' # None, NEW d \in Call PROVE Counted(call'[d], row'.v)
  BY DEF CounterInv
<1>1. CASE d = c BY <1>1 DEF TypeOK
<1>2. CASE d # c
  <2>1. call'[d] = call[d] BY <1>2 DEF TypeOK
  <2>2. Counted(call[d], row.v) /\ row.v <= row'.v BY DEF CounterInv, RowGrows
  <2>3. row # None /\ row.v \in Nat /\ row'.v \in Nat
    BY VersionFacts DEF RowGrows, TypeOK, RowType
  <2> QED BY <2>1, <2>2, <2>3, VersionFacts DEF Counted
<1> QED BY <1>1, <1>2

(* A call that keeps its copy of the row, and did not increment.           *)
LEMMA CopyKept ==
    ASSUME TypeOK, TypeOK', CounterInv, RowGrows, issued' = issued,
           NEW c \in Call, NEW r, call' = [call EXCEPT ![c] = r],
           \/ r.kind # "refresh"
           \/ r.kind = call[c].kind /\ r.row = call[c].row
           \/ r.kind = call[c].kind /\ call[c].row \in RowType /\ r.row.v = call[c].row.v,
           ~Incremented(r)
    PROVE  CounterInv'
<1>1. ASSUME row' # None PROVE Counted(r, row'.v) /\ issued' <= row'.v
  <2>1. row # None /\ row.v <= row'.v /\ issued <= row.v BY <1>1 DEF RowGrows, CounterInv
  <2>2. row.v \in Nat /\ row'.v \in Nat BY <1>1, <2>1 DEF TypeOK, RowType
  <2>3. call[c].kind = "refresh" /\ call[c].row \in RowType
        => call[c].row.v <= row.v /\ call[c].row.v \in Nat
    BY <2>1 DEF CounterInv, Counted, RowType
  <2>4. r.kind = "refresh" /\ r.row \in RowType => r.row.v <= row'.v BY <2>1, <2>2, <2>3
  <2>5. issued' <= row'.v BY <2>1, <2>2, VersionFacts
  <2> QED BY <2>4, <2>5 DEF Counted
<1> QED BY <1>1, CounterKept

(* A call that ends without an answer. *)
LEMMA CallLeft ==
    ASSUME TypeOK, TypeOK', CounterInv, RowGrows, issued' = issued,
           NEW c \in Call, Done(c)
    PROVE  CounterInv'
<1>1. NoCall.kind # "refresh" /\ ~Incremented(NoCall)
  BY NoneAssumption DEF NoCall, Incremented, Kinds
<1>2. call' = [call EXCEPT ![c] = NoCall] BY DEF Done
<1> QED BY <1>1, <1>2, CopyKept

(* A call that moves on, not past the increment. *)
LEMMA CallMoved ==
    ASSUME TypeOK, TypeOK', CounterInv, RowGrows, issued' = issued,
           NEW c \in Call, NEW p, p \notin {"active", "answer"}, Goto(c, p)
    PROVE  CounterInv'
<1> DEFINE r == [call[c] EXCEPT !.pc = p]
<1>1. r.row = call[c].row /\ r.pc = p /\ r.kind = call[c].kind BY DEF TypeOK, CallType
<1>2. call' = [call EXCEPT ![c] = r] BY DEF Goto
<1>3. ~Incremented(r) BY <1>1 DEF Incremented
<1> HIDE DEF r
<1> QED BY <1>1, <1>2, <1>3, CopyKept

(* A step of no call. *)
LEMMA NothingCounted ==
    ASSUME TypeOK, TypeOK', CounterInv, RowGrows, issued' = issued, call' = call
    PROVE  CounterInv'
<1> SUFFICES ASSUME row' # None
             PROVE  issued <= row'.v /\ \A c \in Call : Counted(call[c], row'.v)
  BY DEF CounterInv
<1>1. row # None /\ row.v <= row'.v BY DEF RowGrows
<1>2. row.v \in Nat /\ row'.v \in Nat BY <1>1 DEF TypeOK, RowType
<1>3. issued <= row'.v BY <1>1, <1>2, VersionFacts DEF CounterInv
<1>4. ASSUME NEW c \in Call PROVE Counted(call[c], row'.v)
  <2>1. Counted(call[c], row.v) BY <1>1 DEF CounterInv
  <2>2. call[c].row \in RowType => call[c].row.v \in Nat BY VersionFacts
  <2>3. Incremented(call[c]) => call[c].row \in RowType BY VersionFacts
  <2> QED BY <1>1, <1>2, <2>1, <2>2, <2>3 DEF Counted
<1> QED BY <1>3, <1>4

(* What a step does to the row: Rotate adds one, the others keep the       *)
(* version, and nobody writes a deleted row back.                          *)
LEMMA StepGrows ==
    ASSUME TypeOK, Move PROVE RowGrows
<1>0. row # None => row.v \in Nat /\ row \in RowType BY DEF TypeOK, RowType
<1>1. CASE row' = row BY <1>0, <1>1 DEF RowGrows
<1>2. CASE row' = None BY <1>2 DEF RowGrows
<1>3. ASSUME NEW c \in Call, Rotate(c) PROVE RowGrows
  BY <1>0, <1>3 DEF Rotate, RowGrows, RowType
<1>4. ASSUME NEW c \in Call, Extend(c) PROVE RowGrows
  BY <1>0, <1>4 DEF Extend, RowGrows, RowType
<1>5. ASSUME NEW c \in Call, Touch(c) PROVE RowGrows
  BY <1>0, <1>5 DEF Touch, RowGrows, RowType
<1>6. ASSUME NEW c \in Call, Pause(c) PROVE RowGrows
  BY <1>0, <1>6 DEF Pause, RowGrows, RowType
<1>7. ASSUME NEW c \in Call, Resume(c) PROVE RowGrows
  BY <1>0, <1>7 DEF Resume, RowGrows, RowType
<1>8. ASSUME NEW w \in late, LandWrite(w) PROVE RowGrows
  BY <1>0, <1>8 DEF LandWrite, RowGrows, RowType
<1>9. ASSUME NEW c \in Call, Step(c), ~Rotate(c), ~Extend(c), ~Touch(c), ~Pause(c), ~Resume(c)
      PROVE  row' = row \/ row' = None
  BY <1>9 DEF Step, OnlyCall, Select, DropExpired, RequestGone, RequestIdle, RequestPaused,
     Serve, RefreshGone, RefreshGrace, RefreshExpired, TokenReuse, WrongPlace, Accept,
     Rotated, RefreshFails, StatementFails, Delete, Invalidate, Proceed, UnlockGone,
     RightPin, WrongPin, CountWrongPin
<1>10. ASSUME \/ \E c \in Call, k \in Kinds, i \in Isolate : Send(c, k, i)
              \/ \E i \in Isolate : ServeFromCache(i) \/ EvictUser(i) \/ EvictActivity(i)
              \/ DeleteExpiredSessions \/ ForgetWrongPins \/ Tick
       PROVE  row' = row \/ row' = None
  BY <1>10 DEF Send, ServeFromCache, EvictUser, EvictActivity, DeleteExpiredSessions,
     ForgetWrongPins, Tick
<1> QED BY <1>1, <1>2, <1>3, <1>4, <1>5, <1>6, <1>7, <1>8, <1>9, <1>10 DEF Move

(* A refresh answers with a version the counter has reached.               *)
LEMMA AnswerCounted ==
    ASSUME TypeOK, TypeOK', CounterInv, RowGrows, row' = row,
           NEW c \in Call, RefreshGrace(c) \/ Rotated(c)
    PROVE  CounterInv'
<1> DEFINE v == IF Rotated(c) THEN call[c].row.v + 1 ELSE call[c].row.v
<1>0. call[c].kind = "refresh" /\ call[c].row \in RowType
  BY DEF RefreshGrace, Rotated, At, TypeOK, CallType, Held
<1>1. \E w \in {call[c].row.v, call[c].row.v + 1} :
         Answer(c, w) /\ (row # None => w <= row.v)
  <2>1. call[c].row.v \in Nat BY <1>0 DEF RowType
  <2>2. CASE RefreshGrace(c)
    BY <1>0, <2>2 DEF RefreshGrace, CounterInv, Counted
  <2>3. CASE Rotated(c)
    BY <1>0, <2>3 DEF Rotated, At, CounterInv, Counted, Incremented
  <2> QED BY <2>2, <2>3
<1>2. PICK w \in {call[c].row.v, call[c].row.v + 1} :
         Answer(c, w) /\ (row # None => w <= row.v)
  BY <1>1
<1>3. w \in Nat BY <1>0 DEF RowType
<1>4. row # None => issued' <= row.v
  BY <1>2, <1>3, VersionFacts DEF Answer, Max2, CounterInv
<1>5. NoCall.kind # "refresh" BY NoneAssumption DEF NoCall, Kinds
<1>6. ASSUME row' # None PROVE Counted(NoCall, row'.v) /\ issued' <= row'.v
  BY <1>4, <1>5, <1>6 DEF Counted, Incremented
<1>7. call' = [call EXCEPT ![c] = NoCall] BY <1>2 DEF Answer, Done
<1> QED BY <1>6, <1>7, CounterKept

(* Every step of a handler keeps the counter ahead. *)
LEMMA StepCounts ==
    ASSUME TypeOK, TypeOK', CounterInv, RowGrows, NEW c \in Call, Step(c)
    PROVE  CounterInv'
<1>1. CASE Select(c)
  <2> DEFINE r == [call[c] EXCEPT !.row = row, !.known = settled, !.t = now,
                       !.pc = IF row # None /\ row.exp <= now THEN "expired" ELSE "got"]
  <2>1. call' = [call EXCEPT ![c] = r] BY <1>1 DEF Select, TypeOK, CallType
  <2>2. r.row = row /\ ~Incremented(r) BY DEF TypeOK, CallType, Incremented
  <2>3. row' = row /\ issued' = issued BY <1>1 DEF Select, OnlyCall, browser
  <2>4. ASSUME row' # None PROVE Counted(r, row'.v) /\ issued' <= row'.v
    BY <2>2, <2>3, <2>4 DEF Counted, CounterInv, RowType
  <2> HIDE DEF r
  <2> QED BY <2>1, <2>4, CounterKept
<1>2. CASE DropExpired(c)
  BY <1>2 DEF DropExpired, CounterInv
<1>3. CASE RequestIdle(c) \/ Accept(c) \/ RightPin(c)
  <2>1. PICK p \in {"pause", "extend", "resume"} :
           call' = [call EXCEPT ![c] = [call[c] EXCEPT !.t = now, !.pc = p]]
    BY <1>3 DEF RequestIdle, Accept, RightPin, TypeOK, CallType
  <2> DEFINE r == [call[c] EXCEPT !.t = now, !.pc = p]
  <2>2. r.kind = call[c].kind /\ r.row = call[c].row /\ ~Incremented(r)
    BY DEF TypeOK, CallType, Incremented
  <2>3. issued' = issued BY <1>3 DEF RequestIdle, Accept, RightPin, OnlyCall, browser
  <2> HIDE DEF r
  <2> QED BY <2>1, <2>2, <2>3, CopyKept DEF r
<1>4. CASE WrongPin(c)
  <2> DEFINE r == [call[c] EXCEPT !.tok = fails + 1,
                       !.pc = IF fails + 1 >= 3 THEN "delete" ELSE "count"]
  <2>1. call' = [call EXCEPT ![c] = r] BY <1>4 DEF WrongPin
  <2>2. r.kind = call[c].kind /\ r.row = call[c].row /\ ~Incremented(r)
    BY DEF TypeOK, CallType, Incremented
  <2>3. issued' = issued BY <1>4 DEF WrongPin, OnlyCall, browser
  <2> HIDE DEF r
  <2> QED BY <2>1, <2>2, <2>3, CopyKept
<1>5. CASE Pause(c)
  <2>0. issued' = issued BY <1>5 DEF Pause, browser
  <2>1. CASE call[c].kind = "request"
    BY <1>5, <2>0, <2>1, CallLeft DEF Pause, Done
  <2>2. CASE call[c].kind = "lock"
    <3>1. Goto(c, "invalidate") BY <1>5, <2>2 DEF Pause, Goto
    <3> QED BY <2>0, <3>1, CallMoved
  <2>3. CASE call[c].kind \notin {"request", "lock"}
    <3> DEFINE q == [call[c].row EXCEPT !.paused = TRUE]
               r == [call[c] EXCEPT !.pc = "extend", !.row = q]
    <3>1. call' = [call EXCEPT ![c] = r] BY <1>5, <2>3 DEF Pause
    <3>2. call[c].row \in RowType BY <1>5 DEF Pause, TypeOK, CallType, Held
    <3>3. q.v = call[c].row.v BY <3>2 DEF RowType
    <3> HIDE DEF q
    <3>4. r.kind = call[c].kind /\ r.row = q /\ ~Incremented(r)
      BY DEF TypeOK, CallType, Incremented
    <3> HIDE DEF r
    <3> QED BY <2>0, <3>1, <3>2, <3>3, <3>4, CopyKept
  <2> QED BY <2>1, <2>2, <2>3
<1>6. CASE Rotate(c)
  <2> DEFINE p == IF call[c].row.paused THEN "answer" ELSE "active"
             r == [call[c] EXCEPT !.pc = p]
  <2>1. call' = [call EXCEPT ![c] = r] BY <1>6 DEF Rotate, Goto
  <2>2. call[c].kind = "refresh" /\ call[c].row \in RowType
    BY <1>6 DEF Rotate, At, TypeOK, CallType, Held
  <2>3. r.row = call[c].row BY DEF TypeOK, CallType
  <2>4. issued' = issued BY <1>6 DEF Rotate, browser
  <2>5. ASSUME row' # None PROVE Counted(r, row'.v) /\ issued' <= row'.v
    <3>1. row # None /\ row \in RowType BY <2>5 DEF RowGrows, TypeOK
    <3>2. row'.v = row.v + 1 BY <1>6, <3>1 DEF Rotate, RowType
    <3>3. call[c].row.v <= row.v /\ issued <= row.v
      BY <2>2, <3>1 DEF CounterInv, Counted
    <3>4. call[c].row.v \in Nat /\ row.v \in Nat /\ issued \in Nat
      BY <2>2, <3>1, VersionFacts DEF RowType
    <3> HIDE DEF r
    <3> QED BY <2>3, <2>4, <3>2, <3>3, <3>4 DEF Counted
  <2> HIDE DEF r
  <2> QED BY <2>1, <2>5, CounterKept
<1>7. CASE Touch(c)
  <2> DEFINE r == [call[c] EXCEPT !.pc = "answer"]
  <2>1. call' = [call EXCEPT ![c] = r] BY <1>7 DEF Touch, Goto
  <2>2. call[c].kind = "refresh" /\ Incremented(call[c]) BY <1>7 DEF Touch, At, Incremented
  <2>3. r.row = call[c].row /\ r.kind = call[c].kind BY DEF TypeOK, CallType
  <2>4. issued' = issued BY <1>7 DEF Touch, browser
  <2>5. ASSUME row' # None PROVE Counted(r, row'.v) /\ issued' <= row'.v
    <3>1. row # None /\ row \in RowType BY <2>5 DEF RowGrows, TypeOK
    <3>2. row'.v = row.v BY <1>7, <3>1 DEF Touch, RowType
    <3>3. Counted(call[c], row.v) /\ issued <= row.v BY <3>1 DEF CounterInv
    <3> HIDE DEF r
    <3> QED BY <2>2, <2>3, <2>4, <3>2, <3>3 DEF Counted, Incremented
  <2> HIDE DEF r
  <2> QED BY <2>1, <2>5, CounterKept
<1>8. CASE RefreshGrace(c) \/ Rotated(c)
  <2>1. row' = row BY <1>8 DEF RefreshGrace, Rotated
  <2> QED BY <1>8, <2>1, AnswerCounted
<1>9. CASE issued' = issued /\ Done(c) BY <1>9, CallLeft
<1>10. CASE issued' = issued /\ \E p \in {"delete", "rotate", "invalidate", "pause"} : Goto(c, p)
  BY <1>10, CallMoved
<1>11. CASE RequestGone(c) \/ RequestPaused(c) \/ Serve(c) \/ RefreshGone(c)
            \/ RefreshFails(c) \/ StatementFails(c) \/ UnlockGone(c) \/ CountWrongPin(c) \/ Invalidate(c)
  BY <1>9, <1>11 DEF RequestGone, RequestPaused, Serve, RefreshGone, Refused,
     RefreshFails, StatementFails, UnlockGone, CountWrongPin, Invalidate, OnlyCall, browser
<1>12. CASE RefreshExpired(c) \/ TokenReuse(c) \/ WrongPlace(c) \/ Extend(c) \/ Resume(c)
  BY <1>10, <1>12 DEF RefreshExpired, TokenReuse, WrongPlace, Extend, Resume, OnlyCall, browser
<1>13. CASE Delete(c) \/ Proceed(c)
  BY <1>9, <1>10, <1>13 DEF Delete, Proceed, OnlyCall, browser
<1> QED BY <1>1, <1>2, <1>3, <1>4, <1>5, <1>6, <1>7, <1>8, <1>11, <1>12, <1>13 DEF Step

(* The counter invariant is inductive. *)
LEMMA CounterStep == TypeOK /\ TypeOK' /\ CounterInv /\ [Next]_vars => CounterInv'
<1> SUFFICES ASSUME TypeOK, TypeOK', CounterInv, [Next]_vars PROVE CounterInv' OBVIOUS
<1>1. CASE Next
  <2>1. Move /\ RowGrows BY <1>1, StepGrows DEF Next
  <2>2. CASE \E c \in Call : Step(c) BY <2>1, <2>2, StepCounts
  <2>3. CASE \E c \in Call, k \in Kinds, i \in Isolate : Send(c, k, i)
    <3>1. PICK c \in Call, k \in Kinds, i \in Isolate : Send(c, k, i) BY <2>3
    <3> DEFINE r == [NoCall EXCEPT !.kind = k, !.pc = "select", !.t = now,
                       !.at = IF k \in {"refresh", "revoke"} THEN None ELSE i,
                       !.tok = IF k = "refresh" THEN cookie ELSE 0]
    <3>2. call' = [call EXCEPT ![c] = r] /\ call[c] = NoCall BY <3>1 DEF Send
    <3>3. row' = row /\ issued' = issued BY <3>1 DEF Send, browser
    <3>4. r.row = None /\ r.pc = "select" BY DEF NoCall
    <3> HIDE DEF r
    <3>5. None \notin RowType BY NoneAssumption
    <3>6. ASSUME row' # None PROVE Counted(r, row'.v) /\ issued' <= row'.v
      BY <3>3, <3>4, <3>5, <3>6 DEF Counted, Incremented, CounterInv
    <3> QED BY <2>1, <3>2, <3>6, CounterKept
  <2>4. CASE /\ ~(\E c \in Call : Step(c))
             /\ ~(\E c \in Call, k \in Kinds, i \in Isolate : Send(c, k, i))
    <3>1. issued' = issued /\ call' = call
      BY <2>1, <2>4 DEF Move, ServeFromCache, EvictUser, EvictActivity, LandWrite,
         DeleteExpiredSessions, ForgetWrongPins, Tick, browser
    <3> QED BY <2>1, <3>1, NothingCounted
  <2> QED BY <2>2, <2>3, <2>4
<1>2. CASE UNCHANGED vars
  BY <1>2 DEF vars, memory, browser, CounterInv, Counted, Incremented
<1> QED BY <1>1, <1>2

(* No answer carries a version the rotation counter has not reached, for   *)
(* any number of calls, tabs and isolates and whatever statements fail.    *)
THEOREM SessionVersions == Spec => []IssuedWithinCounter
<1>1. Init => CounterInv
  BY NoneAssumption DEF Init, CounterInv, Counted, Incremented, NoCall, Kinds
<1>2. CounterInv => IssuedWithinCounter BY DEF CounterInv, IssuedWithinCounter
<1> QED BY <1>1, <1>2, CounterStep, SessionsTypes, PTL DEF Spec

-----------------------------------------------------------------------------
(* What a step of a handler makes of its call: it ends, or it is the same  *)
(* request later on, which holds the row it held - by now perhaps dropped  *)
(* or paused - or the row as it is, with the history of this moment.       *)

Holds(r, q) ==
    /\ q.row # None /\ r.known = q.known
    /\ r.row.active = q.row.active /\ r.row.v = q.row.v
Reads(r) == r.row = row /\ r.known = settled /\ row' = row

(* A request or a refresh about to lock the session. *)
Pausing(r) == r.pc = "pause" /\ r.kind \in {"request", "refresh"}
LongIdle(r) == r.row # None /\ r.t - r.row.active > LockTimeout

Later(c, r) ==
    /\ \/ r = NoCall
       \/ r.kind = call[c].kind /\ (r.kind = "refresh" => r.tok = call[c].tok)
    /\ r.row # None => Holds(r, call[c]) \/ Reads(r)
    /\ r.t \in {call[c].t, now, 0}
    /\ Pausing(r) => LongIdle(r)

(* The end of a call. *)
LEMMA DoneLater == ASSUME NEW c \in Call, Done(c)
                   PROVE  call' = [call EXCEPT ![c] = NoCall] /\ Later(c, NoCall)
<1>1. NoCall.row = None /\ NoCall.t = 0 /\ ~Pausing(NoCall) BY DEF NoCall, Pausing
<1> QED BY <1>1 DEF Done, Later

(* The way to another point, which is no pause of its own. *)
LEMMA GotoLater ==
    ASSUME TypeOK, NEW c \in Call, NEW p, Goto(c, p), p # "pause" \/ call[c].kind = "lock"
    PROVE  \E r : call' = [call EXCEPT ![c] = r] /\ Later(c, r)
<1> DEFINE r == [call[c] EXCEPT !.pc = p]
<1>1. /\ r.pc = p /\ r.kind = call[c].kind /\ r.tok = call[c].tok /\ r.row = call[c].row
      /\ r.t = call[c].t /\ r.known = call[c].known
  BY DEF TypeOK, CallType
<1>2. call' = [call EXCEPT ![c] = r] BY DEF Goto
<1> HIDE DEF r
<1>3. Later(c, r) BY <1>1 DEF Later, Holds, Pausing
<1> QED BY <1>2, <1>3

(* Where now is written down: a decision on the row that was read. *)
LEMMA DecidedLater ==
    ASSUME TypeOK, NEW c \in Call, RequestIdle(c) \/ Accept(c) \/ RightPin(c)
    PROVE  \E r : call' = [call EXCEPT ![c] = r] /\ Later(c, r)
<1>0. call[c].row # None /\ call[c].row \in RowType
  BY DEF RequestIdle, Accept, RightPin, TypeOK, CallType
<1>1. \E p \in {"pause", "extend", "resume"} :
          /\ call' = [call EXCEPT ![c] = [call[c] EXCEPT !.pc = p, !.t = now]]
          /\ p = "pause" => now - call[c].row.active > LockTimeout
  <2>1. CASE RequestIdle(c)
    <3>1. now - Effective(c) > LockTimeout BY <2>1 DEF RequestIdle, Inactive
    <3>2. call[c].at \in Isolate BY <2>1 DEF RequestIdle, At, TypeOK, CallType
    <3>3. call[c].row.active \in Nat BY <1>0 DEF RowType, Times
    <3>4. activity[call[c].at] # None => activity[call[c].at].seen \in Nat
      BY <3>2 DEF TypeOK, Times
    <3>5. Effective(c) \in Nat /\ call[c].row.active <= Effective(c)
      BY <3>3, <3>4 DEF Effective, Max2
    <3>6. now \in Nat /\ LockTimeout \in Nat BY TimesAssumption DEF TypeOK, Times
    <3>7. now - call[c].row.active > LockTimeout BY <3>1, <3>3, <3>5, <3>6
    <3>8. call' = [call EXCEPT ![c] = [call[c] EXCEPT !.pc = "pause", !.t = now]]
      BY <2>1 DEF RequestIdle, TypeOK, CallType
    <3> QED BY <3>7, <3>8
  <2>2. CASE Accept(c)
    <3> DEFINE idle == Inactive(call[c].row, call[c].row.active)
    <3>1. CASE idle
      <4>1. now - call[c].row.active > LockTimeout BY <3>1 DEF Inactive
      <4>2. call' = [call EXCEPT ![c] = [call[c] EXCEPT !.pc = "pause", !.t = now]]
        BY <2>2, <3>1 DEF Accept, TypeOK, CallType
      <4> QED BY <4>1, <4>2
    <3>2. CASE ~idle
      <4>1. call' = [call EXCEPT ![c] = [call[c] EXCEPT !.pc = "extend", !.t = now]]
        BY <2>2, <3>2 DEF Accept, TypeOK, CallType
      <4> QED BY <4>1
    <3> QED BY <3>1, <3>2
  <2>3. CASE RightPin(c) BY <2>3 DEF RightPin
  <2> QED BY <2>1, <2>2, <2>3
<1>2. PICK p \in {"pause", "extend", "resume"} :
          /\ call' = [call EXCEPT ![c] = [call[c] EXCEPT !.pc = p, !.t = now]]
          /\ p = "pause" => now - call[c].row.active > LockTimeout
  BY <1>1
<1> DEFINE r == [call[c] EXCEPT !.pc = p, !.t = now]
<1>3. /\ r.pc = p /\ r.kind = call[c].kind /\ r.tok = call[c].tok /\ r.row = call[c].row
      /\ r.t = now /\ r.known = call[c].known
  BY DEF TypeOK, CallType
<1>4. call' = [call EXCEPT ![c] = r] BY <1>2
<1> HIDE DEF r
<1>5. Later(c, r) BY <1>0, <1>2, <1>3 DEF Later, Holds, Pausing, LongIdle
<1> QED BY <1>4, <1>5

(* The pause itself. *)
LEMMA PausedLater ==
    ASSUME TypeOK, NEW c \in Call, Pause(c)
    PROVE  \E r : call' = [call EXCEPT ![c] = r] /\ Later(c, r)
<1>1. CASE call[c].kind = "request"
  <2>1. Done(c) BY <1>1 DEF Pause, Done
  <2> QED BY <2>1, DoneLater
<1>2. CASE call[c].kind = "lock"
  <2>1. Goto(c, "invalidate") BY <1>2 DEF Pause, Goto
  <2> QED BY <2>1, GotoLater
<1>3. CASE call[c].kind \notin {"request", "lock"}
  <2> DEFINE q == [call[c].row EXCEPT !.paused = TRUE]
             r == [call[c] EXCEPT !.pc = "extend", !.row = q]
  <2>1. call' = [call EXCEPT ![c] = r] BY <1>3 DEF Pause
  <2>2. call[c].row \in RowType BY DEF Pause, TypeOK, CallType, Held
  <2>3. q.v = call[c].row.v /\ q.active = call[c].row.active BY <2>2 DEF RowType
  <2>4. call[c].row # None BY <2>2, NoneAssumption
  <2> HIDE DEF q
  <2>5. /\ r.pc = "extend" /\ r.kind = call[c].kind /\ r.tok = call[c].tok /\ r.row = q
        /\ r.t = call[c].t /\ r.known = call[c].known
    BY DEF TypeOK, CallType
  <2> HIDE DEF r
  <2>6. Later(c, r) BY <2>3, <2>4, <2>5 DEF Later, Holds, Pausing
  <2> QED BY <2>1, <2>6
<1> QED BY <1>1, <1>2, <1>3

(* Every step of a handler. *)
LEMMA StepLater ==
    ASSUME TypeOK, NEW c \in Call, Step(c)
    PROVE  \E r : call' = [call EXCEPT ![c] = r] /\ Later(c, r)
<1>1. CASE Select(c)
  <2> DEFINE p == IF row # None /\ row.exp <= now THEN "expired" ELSE "got"
             r == [call[c] EXCEPT !.row = row, !.known = settled, !.t = now, !.pc = p]
  <2>1. call' = [call EXCEPT ![c] = r] BY <1>1 DEF Select, TypeOK, CallType
  <2>2. p # "pause" OBVIOUS
  <2> HIDE DEF p
  <2>3. /\ r.pc = p /\ r.kind = call[c].kind /\ r.tok = call[c].tok /\ r.row = row
        /\ r.t = now /\ r.known = settled
    BY DEF TypeOK, CallType
  <2>4. row' = row BY <1>1 DEF Select, OnlyCall
  <2> HIDE DEF r
  <2>5. Later(c, r) BY <2>2, <2>3, <2>4 DEF Later, Reads, Pausing
  <2> QED BY <2>1, <2>5
<1>2. CASE DropExpired(c)
  <2> DEFINE r == [call[c] EXCEPT !.row = None, !.pc = "got"]
  <2>1. call' = [call EXCEPT ![c] = r] BY <1>2 DEF DropExpired
  <2>2. /\ r.pc = "got" /\ r.kind = call[c].kind /\ r.tok = call[c].tok /\ r.row = None
        /\ r.t = call[c].t
    BY DEF TypeOK, CallType
  <2> HIDE DEF r
  <2>3. Later(c, r) BY <2>2 DEF Later, Pausing
  <2> QED BY <2>1, <2>3
<1>3. CASE RequestIdle(c) \/ Accept(c) \/ RightPin(c) BY <1>3, DecidedLater
<1>4. CASE WrongPin(c)
  <2> DEFINE p == IF fails + 1 >= 3 THEN "delete" ELSE "count"
             r == [call[c] EXCEPT !.tok = fails + 1, !.pc = p]
  <2>1. call' = [call EXCEPT ![c] = r] BY <1>4 DEF WrongPin
  <2>2. p # "pause" /\ call[c].kind = "unlock" BY <1>4 DEF WrongPin, At
  <2> HIDE DEF p
  <2>3. /\ r.pc = p /\ r.kind = call[c].kind /\ r.row = call[c].row
        /\ r.t = call[c].t /\ r.known = call[c].known
    BY DEF TypeOK, CallType
  <2> HIDE DEF r
  <2>4. Later(c, r) BY <2>2, <2>3 DEF Later, Holds, Pausing
  <2> QED BY <2>1, <2>4
<1>5. CASE Pause(c) BY <1>5, PausedLater
<1>6. CASE Done(c) BY <1>6, DoneLater
<1>7. CASE \E p \in {"delete", "rotate", "answer", "active", "invalidate"} : Goto(c, p)
  BY <1>7, GotoLater
<1>8. CASE RequestGone(c) \/ RequestPaused(c) \/ Serve(c) \/ RefreshGone(c) \/ RefreshGrace(c)
           \/ Rotated(c) \/ RefreshFails(c) \/ StatementFails(c) \/ UnlockGone(c) \/ CountWrongPin(c) \/ Invalidate(c)
  BY <1>6, <1>8 DEF RequestGone, RequestPaused, Serve, RefreshGone, Refused, RefreshGrace, Answer,
     Rotated, RefreshFails, StatementFails, UnlockGone, CountWrongPin, Invalidate
<1>9. CASE RefreshExpired(c) \/ TokenReuse(c) \/ WrongPlace(c) \/ Extend(c) \/ Rotate(c)
            \/ Touch(c) \/ Resume(c)
  BY <1>7, <1>9 DEF RefreshExpired, TokenReuse, WrongPlace, Extend, Rotate, Touch, Resume
<1>10. CASE Delete(c)
  BY <1>6, <1>7, <1>10 DEF Delete
<1>11. CASE Proceed(c)
  <2>1. CASE call[c].kind = "lock" /\ Goto(c, "pause") BY <2>1, GotoLater
  <2> QED BY <1>6, <1>7, <1>11, <2>1 DEF Proceed
<1> QED BY <1>1, <1>2, <1>3, <1>4, <1>5, <1>8, <1>9, <1>10, <1>11 DEF Step

(* What a step makes of the table of calls. *)
CallsLater == \A d \in Call : call'[d] = call[d] \/ Later(d, call'[d])

(* A new request holds no row. *)
LEMMA SendLater ==
    ASSUME TypeOK, NEW c \in Call, NEW k \in Kinds, NEW i \in Isolate, Send(c, k, i)
    PROVE  /\ call'[c].row = None /\ call'[c].t = now /\ call'[c].pc = "select"
           /\ call'[c].kind = k /\ (k = "refresh" => call'[c].tok = cookie)
           /\ \A d \in Call \ {c} : call'[d] = call[d]
<1> DEFINE r == [NoCall EXCEPT !.kind = k, !.pc = "select", !.t = now,
                    !.at = IF k \in {"refresh", "revoke"} THEN None ELSE i,
                    !.tok = IF k = "refresh" THEN cookie ELSE 0]
<1>1. call' = [call EXCEPT ![c] = r] BY DEF Send
<1>2. /\ r.row = None /\ r.t = now /\ r.pc = "select" /\ r.kind = k
      /\ (k = "refresh" => r.tok = cookie)
  BY DEF NoCall
<1> HIDE DEF r
<1> QED BY <1>1, <1>2 DEF TypeOK

(* The calls after any step but the sending of a request. *)
LEMMA MoveLater ==
    ASSUME TypeOK, Move, ~(\E c \in Call, k \in Kinds, i \in Isolate : Send(c, k, i))
    PROVE  CallsLater
<1>1. CASE \E c \in Call : Step(c)
  <2>1. PICK c \in Call : Step(c) BY <1>1
  <2>2. PICK r : call' = [call EXCEPT ![c] = r] /\ Later(c, r) BY <2>1, StepLater
  <2> QED BY <2>2 DEF CallsLater, TypeOK
<1>2. CASE ~(\E c \in Call : Step(c))
  <2>1. call' = call
    BY <1>2 DEF Move, ServeFromCache, EvictUser, EvictActivity, LandWrite,
       DeleteExpiredSessions, ForgetWrongPins, Tick
  <2> QED BY <2>1 DEF CallsLater
<1> QED BY <1>1, <1>2
-----------------------------------------------------------------------------
(* The lock is earned.  Inductive: as long as no last_active write failed, *)
(* the row is behind what was served by no more than the entry of a micro- *)
(* cache lives, the throttle of the writes and the delay of a handler -    *)
(* counting the writes still left to waitUntil - and what a call has read  *)
(* of the row and of the history goes together.  A write may put back an   *)
(* older time, but none older than the delay of a handler.                 *)

Behind == (CacheTtl - 1) + Interval

(* The row says so, give or take a handler; or a deferred write will.      *)
Recorded(r, v) == r # None => v <= r.active + Delay
Noted(r, l, v) == Recorded(r, v) \/ \E w \in l : v <= w[2]

(* Nothing is dated ahead of the clock, and no deferred write is overdue.  *)
Past ==
    /\ lastServed <= now /\ settled <= now
    /\ row # None => row.active <= now
    /\ \A w \in late : w[2] <= now /\ now - w[2] <= Delay
    /\ \A c \in Call : call[c].t <= now /\ (call[c].row # None => call[c].row.active <= now)
    /\ \A i \in Isolate :
        /\ activity[i] # None => activity[i].wrote <= now
        /\ cache[i] <= now + CacheTtl

MemoryWritten == \A i \in Isolate :
    /\ activity[i] # None => Noted(row, late, activity[i].wrote)
    /\ cache[i] # 0 => Noted(row, late, cache[i] - CacheTtl - Interval)
CallsWritten == \A c \in Call : call[c].row # None =>
    /\ Recorded(row, call[c].row.active)
    /\ call[c].known - Behind <= call[c].row.active + Delay
ServedWritten == Noted(row, late, lastServed - Behind)
SettledWritten == Recorded(row, settled - Behind)
Written == MemoryWritten /\ CallsWritten /\ ServedWritten /\ SettledWritten

Overdue == \A c \in Call : Pausing(call[c]) => LongIdle(call[c])

LockInv == Past /\ Overdue /\ (~Failed("active") => Written)

(* What a step does to the row: it is not created, and a new time of       *)
(* activity is one that a handler saw no longer ago than it may take.      *)
RowFollows == row' # None =>
    /\ row # None
    /\ row'.active = row.active \/ row'.active \in (now - Delay)..now
(* A deferred write does not get lost. *)
LateLands == \A w \in late : w \in late' \/ (row' # None => row'.active = w[2])

(* Numbers are numbers. *)
LEMMA LockFacts ==
    ASSUME TypeOK
    PROVE  /\ now \in Nat /\ lastServed \in Nat /\ settled \in Nat
           /\ row # None => row.active \in Nat
           /\ \A w \in late : w[1] \in Isolate /\ w[2] \in Nat
           /\ \A c \in Call : /\ call[c].t \in Nat /\ call[c].known \in Nat
                              /\ call[c].row # None => call[c].row.active \in Nat
           /\ \A i \in Isolate : /\ cache[i] \in Nat
                                 /\ activity[i] # None => activity[i].wrote \in Nat
           /\ CacheTtl \in Nat /\ CacheTtl > 0 /\ Interval \in Nat /\ Delay \in Nat
           /\ LockTimeout \in Nat /\ Behind \in Nat
<1>1. /\ now \in Nat /\ lastServed \in Nat /\ settled \in Nat
      /\ row # None => row.active \in Nat
  BY DEF TypeOK, Times, RowType
<1>2. \A w \in late : w[1] \in Isolate /\ w[2] \in Nat BY DEF TypeOK, Times
<1>3. ASSUME NEW c \in Call
      PROVE  /\ call[c].t \in Nat /\ call[c].known \in Nat
             /\ call[c].row # None => call[c].row.active \in Nat
  BY DEF TypeOK, CallType, RowType, Times
<1>4. ASSUME NEW i \in Isolate
      PROVE  cache[i] \in Nat /\ (activity[i] # None => activity[i].wrote \in Nat)
  BY DEF TypeOK, Times
<1>5. /\ CacheTtl \in Nat /\ CacheTtl > 0 /\ Interval \in Nat /\ Delay \in Nat
      /\ LockTimeout \in Nat /\ Behind \in Nat
  BY TimesAssumption DEF Behind
<1> QED BY <1>1, <1>2, <1>3, <1>4, <1>5

(* What is recorded stays recorded. *)
LEMMA RecordKept ==
    ASSUME TypeOK, TypeOK', RowFollows, NEW v \in Int, v <= now, Recorded(row, v)
    PROVE  Recorded(row', v)
<1> SUFFICES ASSUME row' # None PROVE v <= row'.active + Delay BY DEF Recorded
<1>2. row # None /\ v <= row.active + Delay BY DEF RowFollows, Recorded
<1>3. row'.active \in Nat BY DEF TypeOK, RowType, Times
<1> QED BY <1>2, <1>3, LockFacts DEF RowFollows

(* What will be recorded is, or still will be. *)
LEMMA NoteKept ==
    ASSUME TypeOK, TypeOK', RowFollows, LateLands,
           NEW v \in Int, v <= now, Noted(row, late, v)
    PROVE  Noted(row', late', v)
<1>1. CASE Recorded(row, v) BY <1>1, RecordKept DEF Noted
<1>2. CASE \E w \in late : v <= w[2]
  <2>1. PICK w \in late : v <= w[2] BY <1>2
  <2>2. CASE w \in late' BY <2>1, <2>2 DEF Noted
  <2>3. CASE row' # None => row'.active = w[2]
    BY <2>1, <2>3, LockFacts DEF Noted, Recorded
  <2> QED BY <2>2, <2>3 DEF LateLands
<1> QED BY <1>1, <1>2 DEF Noted

(* Faults are never forgotten. *)
LEMMA FaultsKept ==
    ASSUME TypeOK, NEW k \in {"active", "pause", "rotate", "statement"}, Move
    PROVE  Failed(k) => Failed(k)'
<1>1. faults' = faults \/ \E j \in {"active", "pause", "rotate", "statement"} : Fault(j)
  <2>1. ASSUME NEW c \in Call, Step(c)
        PROVE  faults' = faults \/ \E j \in {"active", "pause", "rotate", "statement"} : Fault(j)
    BY <2>1 DEF Step, OnlyCall, Select, DropExpired, RequestGone, RequestIdle, RequestPaused,
       Serve, RefreshGone, RefreshGrace, RefreshExpired, TokenReuse, WrongPlace, Accept, Extend,
       Rotate, Touch, Rotated, RefreshFails, StatementFails, Pause, Delete, Invalidate,
       Proceed, UnlockGone,
       RightPin, WrongPin, CountWrongPin, Resume
  <2> QED BY <2>1 DEF Move, Send, ServeFromCache, EvictUser, EvictActivity, LandWrite,
          DeleteExpiredSessions, ForgetWrongPins, Tick
<1>2. ASSUME NEW j \in {"active", "pause", "rotate", "statement"}, Fault(j), NEW n \in 1..Len(faults)
      PROVE  n \in 1..Len(faults') /\ faults'[n] = faults[n]
  BY <1>2 DEF Fault, TypeOK
<1> QED BY <1>1, <1>2 DEF Failed

(* The failure of a statement is on record. *)
LEMMA FaultMarked == ASSUME TypeOK, NEW k \in {"active", "pause", "rotate", "statement"}, Fault(k)
                     PROVE  Failed(k)'
<1>1. Len(faults') = Len(faults) + 1 /\ faults'[Len(faults) + 1] = k BY DEF Fault, TypeOK
<1>2. Len(faults) + 1 \in 1..Len(faults') BY <1>1 DEF TypeOK
<1> QED BY <1>1, <1>2 DEF Failed

(* The writes of last_active. *)
LEMMA RowWritten ==
    ASSUME TypeOK, Past, CallsFresh, Move
    PROVE  RowFollows
<1>0. row # None => row \in RowType BY DEF TypeOK
<1>1. ASSUME NEW t, t \in (now - Delay)..now, row # None,
             \/ row' = [row EXCEPT !.active = t]
             \/ row' = [row EXCEPT !.paused = FALSE, !.active = t]
      PROVE  row'.active = t
  BY <1>0, <1>1 DEF RowType
<1>2. ASSUME NEW c \in Call, call[c].kind # None PROVE call[c].t \in (now - Delay)..now
  BY <1>2, LockFacts DEF CallsFresh, Fresh, Past
<1>3. CASE row' = row BY <1>3 DEF RowFollows
<1>4. CASE row' = None BY <1>4 DEF RowFollows
<1>5. ASSUME NEW c \in Call, Touch(c) \/ Resume(c) PROVE RowFollows
  <2>1. call[c].kind # None BY <1>5, NoneAssumption DEF Touch, Resume, At, Kinds
  <2>2. call[c].t \in (now - Delay)..now BY <2>1, <1>2
  <2>3. row # None => \/ row' = [row EXCEPT !.active = call[c].t]
                      \/ row' = [row EXCEPT !.paused = FALSE, !.active = call[c].t]
    BY <1>5 DEF Touch, Resume
  <2>4. row = None => row' = None BY <1>5 DEF Touch, Resume
  <2> QED BY <1>1, <2>2, <2>3, <2>4 DEF RowFollows
<1>6. ASSUME NEW w \in late, LandWrite(w) PROVE RowFollows
  <2>1. w[2] \in (now - Delay)..now BY LockFacts DEF Past
  <2>2. row' = row \/ (row = None /\ row' = None)
        \/ (row # None /\ row' = [row EXCEPT !.active = w[2]])
    BY <1>6 DEF LandWrite
  <2> QED BY <1>1, <1>3, <1>4, <2>1, <2>2 DEF RowFollows
<1>7. ASSUME NEW c \in Call, Extend(c) \/ Rotate(c) \/ Pause(c) PROVE RowFollows
  <2>1. row = None => row' = None BY <1>7 DEF Extend, Rotate, Pause
  <2>2. row # None => row'.active = row.active
    BY <1>0, <1>7 DEF Extend, Rotate, Pause, RowType
  <2> QED BY <2>1, <2>2 DEF RowFollows
<1>8. ASSUME NEW c \in Call, Step(c), ~Rotate(c), ~Extend(c), ~Touch(c), ~Pause(c), ~Resume(c)
      PROVE  row' = row \/ row' = None
  BY <1>8 DEF Step, OnlyCall, Select, DropExpired, RequestGone, RequestIdle, RequestPaused,
     Serve, RefreshGone, RefreshGrace, RefreshExpired, TokenReuse, WrongPlace, Accept,
     Rotated, RefreshFails, StatementFails, Delete, Invalidate, Proceed, UnlockGone,
     RightPin, WrongPin, CountWrongPin
<1>9. ASSUME \/ \E c \in Call, k \in Kinds, i \in Isolate : Send(c, k, i)
             \/ \E i \in Isolate : ServeFromCache(i) \/ EvictUser(i) \/ EvictActivity(i)
             \/ DeleteExpiredSessions \/ ForgetWrongPins \/ Tick
      PROVE  row' = row \/ row' = None
  BY <1>9 DEF Send, ServeFromCache, EvictUser, EvictActivity, DeleteExpiredSessions,
     ForgetWrongPins, Tick
<1> QED BY <1>3, <1>4, <1>5, <1>6, <1>7, <1>8, <1>9 DEF Move

(* A deferred write that does not fail takes effect. *)
LEMMA WritesLand ==
    ASSUME TypeOK, Move, ~Failed("active")'
    PROVE  LateLands
<1>1. ASSUME NEW u \in late, LandWrite(u) PROVE LateLands
  <2>1. ~Fault("active") BY FaultMarked
  <2>2. row' = IF row = None THEN None ELSE [row EXCEPT !.active = u[2]]
    BY <1>1, <2>1 DEF LandWrite
  <2>3. row # None => row \in RowType BY DEF TypeOK
  <2>4. row' # None => row'.active = u[2] BY <2>2, <2>3 DEF RowType
  <2>5. late' = late \ {u} BY <1>1 DEF LandWrite
  <2> QED BY <2>4, <2>5 DEF LateLands
<1>2. ASSUME ~(\E w \in late : LandWrite(w)) PROVE late \subseteq late'
  <2>1. ASSUME NEW c \in Call, Step(c) PROVE late \subseteq late'
    BY <2>1 DEF Step, OnlyCall, Select, DropExpired, RequestGone, RequestIdle, RequestPaused,
       Serve, RefreshGone, RefreshGrace, RefreshExpired, TokenReuse, WrongPlace, Accept, Extend,
       Rotate, Touch, Rotated, RefreshFails, StatementFails, Pause, Delete, Invalidate,
       Proceed, UnlockGone,
       RightPin, WrongPin, CountWrongPin, Resume
  <2> QED BY <1>2, <2>1 DEF Move, Send, ServeFromCache, EvictUser, EvictActivity,
          DeleteExpiredSessions, ForgetWrongPins, Tick
<1> QED BY <1>1, <1>2 DEF LateLands

(* What a step that serves no request from the row does to the memory.     *)
MemoryFades == \A i \in Isolate :
    /\ cache'[i] # 0 => cache'[i] = cache[i]
    /\ activity'[i] # None =>
         activity[i] # None /\ activity'[i].wrote = activity[i].wrote
LEMMA MemoryStep ==
    ASSUME TypeOK, Move, ~(\E c \in Call : Serve(c))
    PROVE  /\ MemoryFades /\ late' \subseteq late
           /\ lastServed' = lastServed \/ \E i \in Isolate : ServeFromCache(i)
<1>1. CASE UNCHANGED <<memory, late, lastServed>> BY <1>1 DEF memory, MemoryFades
<1>2. ASSUME NEW j, Invalidated(j), late' = late, lastServed' = lastServed
      PROVE  MemoryFades
  BY <1>2 DEF Invalidated, MemoryFades, TypeOK
<1>3. ASSUME NEW c \in Call, RequestGone(c) \/ Invalidate(c)
      PROVE  MemoryFades /\ late' \subseteq late /\ lastServed' = lastServed
  BY <1>2, <1>3 DEF RequestGone, Invalidate
<1>4. ASSUME NEW c \in Call, Step(c), ~RequestGone(c), ~Invalidate(c)
      PROVE  UNCHANGED <<memory, late, lastServed>>
  BY <1>4 DEF Step, OnlyCall, Select, DropExpired, RequestIdle, RequestPaused,
     RefreshGone, RefreshGrace, RefreshExpired, TokenReuse, WrongPlace, Accept, Extend,
     Rotate, Touch, Rotated, RefreshFails, StatementFails, Pause, Delete, Proceed, UnlockGone,
     RightPin, WrongPin, CountWrongPin, Resume
<1>5. ASSUME NEW i \in Isolate, ServeFromCache(i)
      PROVE  MemoryFades /\ late' \subseteq late
  <2>1. cache' = cache /\ late' = late BY <1>5 DEF ServeFromCache
  <2>2. ASSUME NEW j \in Isolate, activity'[j] # None
        PROVE  activity[j] # None /\ activity'[j].wrote = activity[j].wrote
    <3>1. CASE activity' = activity BY <2>2, <3>1
    <3>2. CASE activity[i] # None /\ activity' = [activity EXCEPT ![i].seen = now]
      <4>1. CASE j = i
        <5>1. activity[i] \in [seen : Times, wrote : Times] BY <3>2 DEF TypeOK
        <5>2. activity'[i] = [activity[i] EXCEPT !.seen = now] BY <3>2 DEF TypeOK
        <5> QED BY <3>2, <4>1, <5>1, <5>2
      <4>2. CASE j # i BY <2>2, <3>2, <4>2 DEF TypeOK
      <4> QED BY <4>1, <4>2
    <3> QED BY <1>5, <3>1, <3>2 DEF ServeFromCache
  <2> QED BY <2>1, <2>2 DEF MemoryFades
<1>6. ASSUME NEW i \in Isolate, EvictUser(i) \/ EvictActivity(i)
      PROVE  MemoryFades /\ late' \subseteq late /\ lastServed' = lastServed
  BY <1>6 DEF EvictUser, EvictActivity, MemoryFades, TypeOK
<1>7. ASSUME Tick PROVE MemoryFades /\ late' \subseteq late /\ lastServed' = lastServed
  BY <1>7 DEF Tick, MemoryFades, TypeOK
<1>8. ASSUME NEW w \in late, LandWrite(w)
      PROVE  MemoryFades /\ late' \subseteq late /\ lastServed' = lastServed
  BY <1>8 DEF LandWrite, memory, MemoryFades
<1>9. ASSUME \/ \E c \in Call, k \in Kinds, i \in Isolate : Send(c, k, i)
             \/ DeleteExpiredSessions \/ ForgetWrongPins
      PROVE  UNCHANGED <<memory, late, lastServed>>
  BY <1>9 DEF Send, DeleteExpiredSessions, ForgetWrongPins, memory
<1> QED BY <1>1, <1>3, <1>4, <1>5, <1>6, <1>7, <1>8, <1>9 DEF Move

(* A request that is let through on a row it has read. *)
LEMMA ServeEffect ==
    ASSUME TypeOK, NEW c \in Call, Serve(c)
    PROVE  LET i == call[c].at IN
           /\ i \in Isolate /\ call[c].row # None /\ row' = row /\ now' = now
           /\ lastServed' = now /\ late \subseteq late' /\ late' \subseteq late \cup {<<i, now>>}
           /\ \A j \in Isolate \ {i} : cache'[j] = cache[j] /\ activity'[j] = activity[j]
           /\ cache'[i] = now + CacheTtl
           /\ \/ activity'[i].wrote = now /\ <<i, now>> \in late'
              \/ /\ now - activity'[i].wrote <= Interval
                 /\ \/ activity[i] # None /\ activity'[i].wrote = activity[i].wrote
                    \/ activity'[i].wrote = call[c].row.active
<1> DEFINE i == call[c].at
<1>1. i \in Isolate BY DEF Serve, At, TypeOK, CallType
<1>2. call[c].row # None /\ row' = row /\ now' = now /\ lastServed' = now BY DEF Serve
<1>3. /\ \A j \in Isolate \ {i} : cache'[j] = cache[j] /\ activity'[j] = activity[j]
      /\ cache'[i] = now + CacheTtl
  BY <1>1 DEF Serve, TypeOK
<1>4. CASE now - LastWrite(c) > Interval
  <2>1. late' = late \cup {<<i, now>>} BY <1>4 DEF Serve
  <2>2. activity'[i].wrote = now BY <1>1, <1>4 DEF Serve, TypeOK
  <2> QED BY <1>1, <1>2, <1>3, <2>1, <2>2
<1>5. CASE ~(now - LastWrite(c) > Interval)
  <2>1. late' = late BY <1>5 DEF Serve
  <2>2. activity'[i].wrote = LastWrite(c) BY <1>1, <1>5 DEF Serve, TypeOK
  <2>3. LastWrite(c) \in Nat BY <1>1, <1>2, LockFacts DEF LastWrite
  <2>4. now - LastWrite(c) <= Interval BY <1>5, <2>3, LockFacts
  <2>5. \/ activity[i] # None /\ LastWrite(c) = activity[i].wrote
        \/ LastWrite(c) = call[c].row.active
    BY DEF LastWrite
  <2> QED BY <1>1, <1>2, <1>3, <2>1, <2>2, <2>4, <2>5
<1> QED BY <1>4, <1>5

(* Nothing gets ahead of the clock. *)
LEMMA PastStep ==
    ASSUME TypeOK, TypeOK', CallsFresh, Past, Next
    PROVE  Past'
<1>0. Move BY DEF Next
<1>1. now' \in Nat /\ now <= now' BY <1>0, ClockStep, LockFacts DEF Tick, TypeOK, Times
<1>2. RowFollows BY <1>0, RowWritten
<1>3. row' # None => row'.active <= now'
  BY <1>1, <1>2, LockFacts DEF RowFollows, Past
<1>4. lastServed' <= now'
  <2>1. lastServed' = lastServed \/ lastServed' = now
    BY <1>0, MemoryStep, ServeEffect DEF ServeFromCache
  <2> QED BY <1>1, <2>1, LockFacts DEF Past
<1>5. settled' <= now' BY <1>1, <1>4, LockFacts DEF Next, Past
<1>6. ASSUME NEW w \in late' PROVE w[2] <= now' /\ now' - w[2] <= Delay
  <2>1. w \in late \/ w[2] = now
    <3>1. CASE \E c \in Call : Serve(c)
      <4>1. PICK c \in Call : Serve(c) BY <3>1
      <4>2. late' \subseteq late \cup {<<call[c].at, now>>} BY <4>1, ServeEffect
      <4> QED BY <4>2
    <3>2. CASE ~(\E c \in Call : Serve(c)) BY <1>0, <3>2, MemoryStep
    <3> QED BY <3>1, <3>2
  <2>2. CASE w \in late
    <3>1. w[2] <= now /\ now - w[2] <= Delay /\ w[2] \in Nat BY <2>2, LockFacts DEF Past
    <3>2. now' = now \/ (now' = now + 1 /\ now - w[2] < Delay)
      BY <1>0, <2>2, ClockStep DEF Tick
    <3> QED BY <3>1, <3>2, LockFacts
  <2>3. CASE w \notin late
    <3>1. \E c \in Call : Serve(c) BY <1>0, <2>3, MemoryStep
    <3>2. now' = now BY <3>1, ServeEffect
    <3> QED BY <2>1, <2>3, <3>2, LockFacts
  <2> QED BY <2>2, <2>3
<1>7. ASSUME NEW c \in Call
      PROVE  call'[c].t <= now' /\ (call'[c].row # None => call'[c].row.active <= now')
  <2>1. call[c].t <= now /\ (call[c].row # None => call[c].row.active <= now) BY DEF Past
  <2>2. CASE call'[c] = call[c] BY <1>1, <2>1, <2>2, LockFacts
  <2>3. CASE Later(c, call'[c])
    <3>1. call'[c].t <= now' BY <1>1, <2>1, <2>3, LockFacts DEF Later
    <3>2. call'[c].row # None => call'[c].row.active <= now'
      BY <1>1, <1>3, <2>1, <2>3, LockFacts DEF Later, Holds, Reads
    <3> QED BY <3>1, <3>2
  <2>4. CASE call'[c].row = None /\ call'[c].t = now BY <1>1, <2>4, LockFacts
  <2>5. CASE \E d \in Call, k \in Kinds, i \in Isolate : Send(d, k, i)
    <3>1. PICK d \in Call, k \in Kinds, i \in Isolate : Send(d, k, i) BY <2>5
    <3> QED BY <2>2, <2>4, <3>1, SendLater
  <2> QED BY <1>0, <2>2, <2>3, <2>5, MoveLater DEF CallsLater
<1>8. ASSUME NEW i \in Isolate, activity'[i] # None PROVE activity'[i].wrote <= now'
  <2>1. CASE \E c \in Call : Serve(c)
    <3>1. PICK c \in Call : Serve(c) BY <2>1
    <3>2. CASE i = call[c].at
      <4>1. \/ activity'[i].wrote = now
            \/ activity[i] # None /\ activity'[i].wrote = activity[i].wrote
            \/ activity'[i].wrote = call[c].row.active
        BY <3>1, <3>2, ServeEffect
      <4>2. call[c].row.active <= now /\ (activity[i] # None => activity[i].wrote <= now)
        BY <3>1, ServeEffect DEF Past
      <4> QED BY <1>1, <3>1, <4>1, <4>2, LockFacts, ServeEffect
    <3>3. CASE i # call[c].at
      <4>1. activity'[i] = activity[i] BY <3>1, <3>3, ServeEffect
      <4> QED BY <1>1, <1>8, <4>1, LockFacts DEF Past
    <3> QED BY <3>2, <3>3
  <2>2. CASE ~(\E c \in Call : Serve(c))
    <3>1. MemoryFades BY <1>0, <2>2, MemoryStep
    <3>2. activity[i] # None /\ activity'[i].wrote = activity[i].wrote
      BY <1>8, <3>1 DEF MemoryFades
    <3> QED BY <1>1, <3>2, LockFacts DEF Past
  <2> QED BY <2>1, <2>2
<1>9. ASSUME NEW i \in Isolate PROVE cache'[i] <= now' + CacheTtl
  <2>1. cache[i] <= now + CacheTtl BY DEF Past
  <2>2. CASE \E c \in Call : Serve(c)
    <3>1. PICK c \in Call : Serve(c) BY <2>2
    <3>2. cache'[i] = cache[i] \/ cache'[i] = now + CacheTtl BY <3>1, ServeEffect
    <3> QED BY <1>1, <2>1, <3>2, LockFacts
  <2>3. CASE ~(\E c \in Call : Serve(c))
    <3>1. cache'[i] = 0 \/ cache'[i] = cache[i] BY <1>0, <2>3, MemoryStep DEF MemoryFades
    <3> QED BY <1>1, <2>1, <3>1, LockFacts
  <2> QED BY <2>2, <2>3
<1> QED BY <1>3, <1>4, <1>5, <1>6, <1>7, <1>8, <1>9 DEF Past

(* A session is locked only after the time-out. *)
LEMMA OverdueStep == ASSUME TypeOK, TypeOK', Overdue, Next PROVE Overdue'
<1>0. Move BY DEF Next
<1> SUFFICES ASSUME NEW c \in Call, Pausing(call'[c]) PROVE LongIdle(call'[c]) BY DEF Overdue
<1>1. CASE call'[c] = call[c] BY <1>1 DEF Overdue
<1>2. CASE Later(c, call'[c]) BY <1>2 DEF Later
<1>3. CASE \E d \in Call, k \in Kinds, i \in Isolate : Send(d, k, i)
  <2>1. PICK d \in Call, k \in Kinds, i \in Isolate : Send(d, k, i) BY <1>3
  <2>2. CASE c = d BY <2>1, <2>2, SendLater DEF Pausing
  <2> QED BY <1>1, <2>1, <2>2, SendLater
<1> QED BY <1>0, <1>1, <1>2, <1>3, MoveLater DEF CallsLater

(* What the calls hold stays recorded. *)
LEMMA CallsStep ==
    ASSUME TypeOK, TypeOK', Past, Written, Move, RowFollows
    PROVE  CallsWritten'
<1> SUFFICES ASSUME NEW c \in Call, call'[c].row # None
             PROVE  /\ Recorded(row', call'[c].row.active)
                    /\ call'[c].known - Behind <= call'[c].row.active + Delay
  BY DEF CallsWritten, Behind
<1>1. ASSUME call[c].row # None, call'[c].row.active = call[c].row.active,
             call'[c].known = call[c].known
      PROVE  /\ Recorded(row', call'[c].row.active)
             /\ call'[c].known - Behind <= call'[c].row.active + Delay
  <2>1. /\ Recorded(row, call[c].row.active)
        /\ call[c].known - Behind <= call[c].row.active + Delay
    BY <1>1 DEF Written, CallsWritten
  <2>2. call[c].row.active \in Int /\ call[c].row.active <= now BY <1>1, LockFacts DEF Past
  <2>3. Recorded(row', call[c].row.active) BY <2>1, <2>2, RecordKept
  <2> QED BY <1>1, <2>1, <2>3
<1>2. CASE call'[c] = call[c] BY <1>1, <1>2
<1>3. CASE Reads(call'[c])
  <2>1. row # None /\ call'[c].row = row /\ call'[c].known = settled /\ row' = row
    BY <1>3 DEF Reads
  <2>2. Recorded(row, settled - Behind) BY DEF Written, SettledWritten
  <2> QED BY <2>1, <2>2, LockFacts DEF Recorded
<1>4. CASE Later(c, call'[c]) BY <1>1, <1>3, <1>4 DEF Later, Holds
<1>5. CASE \E d \in Call, k \in Kinds, i \in Isolate : Send(d, k, i)
  <2>1. PICK d \in Call, k \in Kinds, i \in Isolate : Send(d, k, i) BY <1>5
  <2> QED BY <1>2, <2>1, SendLater
<1> QED BY <1>2, <1>4, <1>5, MoveLater DEF CallsLater

(* A request let through on the row it has read: what it knows of the last *)
(* write is no older than the throttle, and recorded, or it leaves a write.*)
LEMMA ServeWritten ==
    ASSUME TypeOK, TypeOK', Past, Written, RowFollows, LateLands, NEW c \in Call, Serve(c)
    PROVE  MemoryWritten' /\ ServedWritten'
<1> DEFINE i == call[c].at
<1>0. /\ i \in Isolate /\ call[c].row # None /\ row' = row /\ now' = now
      /\ lastServed' = now /\ late \subseteq late'
      /\ \A j \in Isolate \ {i} : cache'[j] = cache[j] /\ activity'[j] = activity[j]
      /\ cache'[i] = now + CacheTtl
      /\ \/ activity'[i].wrote = now /\ <<i, now>> \in late'
         \/ /\ now - activity'[i].wrote <= Interval
            /\ \/ activity[i] # None /\ activity'[i].wrote = activity[i].wrote
               \/ activity'[i].wrote = call[c].row.active
  BY ServeEffect
<1> HIDE DEF i
<1> DEFINE u == activity'[i].wrote
<1>1. ASSUME NEW v \in Int, Noted(row, late, v) PROVE Noted(row', late', v)
  BY <1>0, <1>1 DEF Noted, Recorded
<1>2. u \in Nat
  <2>1. CASE activity[i] # None /\ u = activity[i].wrote BY <1>0, <2>1, LockFacts
  <2> QED BY <1>0, <2>1, LockFacts
<1>3. Noted(row', late', u)
  <2>1. CASE u = now /\ <<i, now>> \in late' BY <2>1, LockFacts DEF Noted
  <2>2. CASE activity[i] # None /\ u = activity[i].wrote
    BY <1>0, <1>1, <1>2, <2>2 DEF Written, MemoryWritten
  <2>3. CASE u = call[c].row.active
    BY <1>0, <1>1, <1>2, <2>3 DEF Written, CallsWritten, Noted
  <2> QED BY <1>0, <2>1, <2>2, <2>3
<1>4. now - Interval <= u BY <1>0, <1>2, LockFacts
<1> HIDE DEF u
<1>5. ASSUME NEW v \in Int, v <= now - Interval PROVE Noted(row', late', v)
  <2>1. v <= u BY <1>2, <1>4, <1>5, LockFacts
  <2>2. CASE Recorded(row', u)
    <3>1. row' # None => row'.active \in Nat BY DEF TypeOK, RowType, Times
    <3> QED BY <1>2, <2>1, <2>2, <3>1, LockFacts DEF Noted, Recorded
  <2>3. CASE \E w \in late' : u <= w[2]
    <3>1. PICK w \in late' : u <= w[2] BY <2>3
    <3>2. w[2] \in Nat BY DEF TypeOK, Times
    <3> QED BY <1>2, <2>1, <3>1, <3>2 DEF Noted
  <2> QED BY <1>3, <2>2, <2>3 DEF Noted
<1>6. now - Behind \in Int /\ now - Behind <= now - Interval BY LockFacts DEF Behind
<1>7. ServedWritten' BY <1>0, <1>5, <1>6 DEF ServedWritten, Behind
<1>8. ASSUME NEW j \in Isolate
      PROVE  /\ activity'[j] # None => Noted(row', late', activity'[j].wrote)
             /\ cache'[j] # 0 => Noted(row', late', cache'[j] - CacheTtl - Interval)
  <2>1. CASE j = i
    <3>1. cache'[i] - CacheTtl - Interval = now - Interval BY <1>0, LockFacts
    <3>2. Noted(row', late', now - Interval) BY <1>5, LockFacts
    <3> QED BY <1>3, <2>1, <3>1, <3>2 DEF u
  <2>2. CASE j # i
    <3>1. cache'[j] = cache[j] /\ activity'[j] = activity[j] BY <1>0, <2>2
    <3>2. /\ activity[j] # None => Noted(row, late, activity[j].wrote)
          /\ cache[j] # 0 => Noted(row, late, cache[j] - CacheTtl - Interval)
      BY DEF Written, MemoryWritten
    <3>3. /\ cache[j] - CacheTtl - Interval \in Int
          /\ activity[j] # None => activity[j].wrote \in Int
      BY LockFacts
    <3> QED BY <1>1, <3>1, <3>2, <3>3
  <2> QED BY <2>1, <2>2
<1>9. MemoryWritten' BY <1>8 DEF MemoryWritten
<1> QED BY <1>7, <1>9

(* Any other step: the memory only fades, and a request is let through at  *)
(* most on an entry that is not past its time.                             *)
LEMMA FadeWritten ==
    ASSUME TypeOK, TypeOK', CacheFresh, Past, Written, RowFollows, LateLands, MemoryFades,
           \/ lastServed' = lastServed
           \/ \E i \in Isolate : ServeFromCache(i)
    PROVE  MemoryWritten' /\ ServedWritten'
<1>1. ASSUME NEW i \in Isolate
      PROVE  /\ activity'[i] # None => Noted(row', late', activity'[i].wrote)
             /\ cache'[i] # 0 => Noted(row', late', cache'[i] - CacheTtl - Interval)
  <2>1. ASSUME activity'[i] # None PROVE Noted(row', late', activity'[i].wrote)
    <3>1. activity[i] # None /\ activity'[i].wrote = activity[i].wrote
      BY <2>1 DEF MemoryFades
    <3>2. activity[i].wrote \in Int /\ activity[i].wrote <= now BY <3>1, LockFacts DEF Past
    <3>3. Noted(row, late, activity[i].wrote) BY <3>1 DEF Written, MemoryWritten
    <3> QED BY <3>1, <3>2, <3>3, NoteKept
  <2>2. ASSUME cache'[i] # 0 PROVE Noted(row', late', cache'[i] - CacheTtl - Interval)
    <3>1. cache'[i] = cache[i] /\ cache[i] # 0 BY <2>2 DEF MemoryFades
    <3> DEFINE v == cache[i] - CacheTtl - Interval
    <3>2. v \in Int /\ v <= now BY LockFacts DEF Past
    <3>3. Noted(row, late, v) BY <3>1 DEF Written, MemoryWritten
    <3>4. PICK n \in Int : n = v BY <3>2
    <3> HIDE DEF v
    <3>5. Noted(row', late', n) BY <3>2, <3>3, <3>4, NoteKept
    <3>6. cache'[i] - CacheTtl - Interval = n BY <3>1, <3>4 DEF v
    <3> QED BY <3>5, <3>6
  <2> QED BY <2>1, <2>2
<1>2. ServedWritten'
  <2>1. CASE lastServed' = lastServed
    <3>1. PICK n \in Int : n = lastServed - Behind BY LockFacts
    <3>2. n <= now BY <3>1, LockFacts DEF Past
    <3>3. Noted(row', late', n) BY <3>1, <3>2, NoteKept DEF Written, ServedWritten
    <3> QED BY <2>1, <3>1, <3>3 DEF ServedWritten, Behind
  <2>2. CASE \E i \in Isolate : ServeFromCache(i)
    <3>1. PICK i \in Isolate : ServeFromCache(i) BY <2>2
    <3>2. row' = row /\ late' = late /\ lastServed' = now /\ cache[i] # 0
      BY <3>1 DEF ServeFromCache
    <3>3. now < cache[i] BY <3>2 DEF CacheFresh
    <3>4. Noted(row, late, cache[i] - CacheTtl - Interval)
      BY <3>2 DEF Written, MemoryWritten
    <3>5. now - Behind <= cache[i] - CacheTtl - Interval BY <3>3, LockFacts DEF Behind
    <3>6. Noted(row, late, now - Behind)
      <4>1. CASE Recorded(row, cache[i] - CacheTtl - Interval)
        BY <3>5, <4>1, LockFacts DEF Noted, Recorded
      <4>2. CASE \E w \in late : cache[i] - CacheTtl - Interval <= w[2]
        BY <3>5, <4>2, LockFacts DEF Noted
      <4> QED BY <3>4, <4>1, <4>2 DEF Noted
    <3> QED BY <3>2, <3>6 DEF ServedWritten, Behind
  <2> QED BY <2>1, <2>2
<1> QED BY <1>1, <1>2 DEF MemoryWritten

(* What was settled when no write was outstanding is in the row. *)
LEMMA SettledStep ==
    ASSUME TypeOK, TypeOK', Past, Written, RowFollows, ServedWritten', Next
    PROVE  SettledWritten'
<1>1. CASE late' = {}
  <2>1. settled' = lastServed' BY <1>1 DEF Next
  <2>2. Recorded(row', lastServed' - Behind)
    BY <1>1 DEF ServedWritten, Noted, Behind
  <2> QED BY <2>1, <2>2 DEF SettledWritten, Behind
<1>2. CASE late' # {}
  <2>1. settled' = settled BY <1>2 DEF Next
  <2>2. PICK n \in Int : n = settled - Behind BY LockFacts
  <2>3. n <= now BY <2>2, LockFacts DEF Past
  <2>4. Recorded(row', n) BY <2>2, <2>3, RecordKept DEF Written, SettledWritten
  <2> QED BY <2>1, <2>2, <2>4 DEF SettledWritten, Behind
<1> QED BY <1>1, <1>2

(* The lock invariant is inductive. *)
LEMMA LockStep == TypeOK /\ TypeOK' /\ AccessInv /\ LockInv /\ [Next]_vars => LockInv'
<1> SUFFICES ASSUME TypeOK, TypeOK', AccessInv, LockInv, [Next]_vars PROVE LockInv' OBVIOUS
<1>1. CASE Next
  <2>1. Move /\ Past /\ Overdue /\ CallsFresh /\ CacheFresh
    BY <1>1 DEF Next, LockInv, AccessInv
  <2>2. Past' /\ Overdue' BY <1>1, <2>1, PastStep, OverdueStep
  <2>3. ASSUME ~Failed("active")' PROVE Written'
    <3>1. Written BY <2>1, <2>3, FaultsKept DEF LockInv
    <3>2. RowFollows /\ LateLands BY <2>1, <2>3, RowWritten, WritesLand
    <3>3. CallsWritten' BY <2>1, <3>1, <3>2, CallsStep
    <3>4. MemoryWritten' /\ ServedWritten'
      <4>1. CASE \E c \in Call : Serve(c) BY <2>1, <3>1, <3>2, <4>1, ServeWritten
      <4>2. CASE ~(\E c \in Call : Serve(c))
        BY <2>1, <3>1, <3>2, <4>2, MemoryStep, FadeWritten
      <4> QED BY <4>1, <4>2
    <3>5. SettledWritten' BY <1>1, <2>1, <3>1, <3>2, <3>4, SettledStep
    <3> QED BY <3>3, <3>4, <3>5 DEF Written
  <2> QED BY <2>2, <2>3 DEF LockInv
<1>2. CASE UNCHANGED vars
  BY <1>2 DEF vars, memory, browser, LockInv, Past, Overdue, Failed, Written, MemoryWritten,
     CallsWritten, ServedWritten, SettledWritten, Behind
<1> QED BY <1>1, <1>2

(* The lock invariant holds at the start. *)
LEMMA InitLock == Init => LockInv
<1> SUFFICES ASSUME Init PROVE LockInv OBVIOUS
<1>1. TypeOK BY InitType
<1>2. \A c \in Call : call[c].row = None /\ call[c].t = 0 /\ ~Pausing(call[c])
  BY DEF Init, NoCall, Pausing
<1>3. row.active = 0 /\ now = 0 /\ settled = 0 /\ lastServed = 0 /\ late = {} BY DEF Init
<1>4. \A i \in Isolate : activity[i] = None /\ cache[i] = 0 BY DEF Init
<1>5. Past BY <1>1, <1>2, <1>3, <1>4, LockFacts DEF Past
<1>6. Overdue BY <1>2 DEF Overdue
<1>7. Written
  BY <1>1, <1>2, <1>3, <1>4, LockFacts
     DEF Written, MemoryWritten, CallsWritten, ServedWritten, SettledWritten, Noted, Recorded
<1> QED BY <1>5, <1>6, <1>7 DEF LockInv

(* The inactivity lock is earned: with any number of isolates and calls,   *)
(* a session is locked only when nobody was let through for the time-out,  *)
(* less what the micro-cache, the throttled and deferred writes and one    *)
(* handler may be behind, as long as no write of last_active failed.       *)
THEOREM SessionLock == Spec => []EarnedLock
<1>1. TypeOK /\ LockInv => EarnedLock
  <2> SUFFICES ASSUME TypeOK, LockInv, NEW c \in Call, call[c].pc = "pause",
                      call[c].kind \in {"request", "refresh"}, ~Failed("active")
               PROVE  call[c].t - call[c].known > LockTimeout - (CacheTtl - 1) - Interval - Delay
    BY DEF EarnedLock
  <2>1. call[c].row # None /\ call[c].t - call[c].row.active > LockTimeout
    BY DEF LockInv, Overdue, Pausing, LongIdle
  <2>2. call[c].known - Behind <= call[c].row.active + Delay
    BY <2>1 DEF LockInv, Written, CallsWritten
  <2> QED BY <2>1, <2>2, LockFacts DEF Behind
<1>2. Init => AccessInv /\ LockInv BY InitAccess, InitLock
<1>3. TypeOK /\ TypeOK' /\ AccessInv /\ LockInv /\ [Next]_vars => AccessInv' /\ LockInv'
  BY AccessStep, LockStep
<1> QED BY <1>1, <1>2, <1>3, SessionsTypes, PTL DEF Spec
-----------------------------------------------------------------------------
(* Token reuse, for a browser with one tab.  Inductive: at most one refresh*)
(* is under way; what the browser or a refresh presents was put in an      *)
(* answer; and as long as no rotation died half-way the newest answer      *)
(* carries the version of the row, or of the row before the increment of   *)
(* the one refresh that has made it and not answered yet.                  *)

OneRefresh == \A c, d \in Call :
    call[c].kind = "refresh" /\ call[d].kind = "refresh" => c = d

Presented ==
    /\ cookie # None => cookie <= issued
    /\ \A c \in Call : call[c].kind = "refresh" => call[c].tok <= issued

Abreast ==
    /\ row # None /\ (\A c \in Call : ~Incremented(call[c])) => row.v = issued
    /\ \A c \in Call : row # None /\ Incremented(call[c]) => row.v = issued + 1
    /\ \A c \in Call :
         call[c].kind = "refresh" /\ call[c].row # None => call[c].row.v = issued

ReuseInv == OneRefresh /\ Presented /\ (~Failed("rotate") => Abreast)

(* A tab that waits for its refresh sends no second one. *)
LEMMA OneRefreshStep ==
    ASSUME Tabs = 1, TypeOK, OneRefresh, Move
    PROVE  OneRefresh'
<1>1. CASE CallsLater
  <2>1. \A d \in Call : call'[d].kind = "refresh" => call[d].kind = "refresh"
    BY <1>1, NoneAssumption DEF CallsLater, Later, NoCall, Kinds
  <2> QED BY <2>1 DEF OneRefresh
<1>2. CASE \E c \in Call, k \in Kinds, i \in Isolate : Send(c, k, i)
  <2>1. PICK c \in Call, k \in Kinds, i \in Isolate : Send(c, k, i) BY <1>2
  <2>2. \A d \in Call \ {c} : call'[d] = call[d] BY <2>1, SendLater
  <2>3. CASE k # "refresh"
    <3>1. call'[c].kind # "refresh" BY <2>1, <2>3, SendLater
    <3> QED BY <2>2, <3>1 DEF OneRefresh
  <2>4. CASE k = "refresh"
    <3>1. Cardinality(Refreshes) < 1 BY <2>1, <2>4 DEF Send
    <3>2. Refreshes = {}
      <4>1. ASSUME NEW d \in Refreshes PROVE FALSE
        <5>1. Refreshes = {d} BY DEF Refreshes, OneRefresh
        <5>2. Cardinality(Refreshes) = 1 BY <5>1, FS_Singleton
        <5> QED BY <3>1, <5>2
      <4> QED BY <4>1
    <3>3. \A d \in Call : call[d].kind # "refresh" BY <3>2 DEF Refreshes
    <3> QED BY <2>2, <3>3 DEF OneRefresh
  <2> QED BY <2>3, <2>4
<1> QED BY <1>1, <1>2, MoveLater

(* The answers of a refresh: the version it read, or the next. *)
LEMMA AnswerOf ==
    ASSUME TypeOK, NEW c \in Call, RefreshGrace(c) \/ Rotated(c)
    PROVE  /\ call[c].kind = "refresh" /\ call[c].row # None /\ call[c].row.v \in Nat
           /\ row' = row
           /\ LET v == IF Incremented(call[c]) THEN call[c].row.v + 1 ELSE call[c].row.v
              IN  Answer(c, v)
<1>1. call[c].kind = "refresh" /\ call[c].row \in RowType /\ call[c].row # None
  BY NoneAssumption DEF RefreshGrace, Rotated, At, TypeOK, CallType, Held
<1>2. call[c].row.v \in Nat /\ row' = row BY <1>1 DEF RowType, RefreshGrace, Rotated
<1>3. CASE RefreshGrace(c)
  BY <1>1, <1>2, <1>3 DEF RefreshGrace, At, Incremented
<1>4. CASE Rotated(c)
  BY <1>1, <1>2, <1>4 DEF Rotated, At, Incremented
<1> QED BY <1>3, <1>4

(* What any other step does to the browser and to the version of the row.  *)
LEMMA NoAnswer ==
    ASSUME TypeOK, Move, ~(\E c \in Call : RefreshGrace(c) \/ Rotated(c))
    PROVE  issued' = issued /\ cookie' \in {cookie, None}
<1>1. ASSUME NEW c \in Call, Step(c) PROVE issued' = issued /\ cookie' \in {cookie, None}
  BY <1>1 DEF Step, OnlyCall, browser, Select, DropExpired, RequestGone, RequestIdle,
     RequestPaused, Serve, RefreshGone, Refused, RefreshExpired, TokenReuse, WrongPlace, Accept,
     Extend, Rotate, Touch, RefreshFails, StatementFails, Pause, Delete, Invalidate, Proceed,
     UnlockGone,
     RightPin, WrongPin, CountWrongPin, Resume
<1> QED BY <1>1 DEF Move, Send, browser, ServeFromCache, EvictUser, EvictActivity, LandWrite,
        DeleteExpiredSessions, ForgetWrongPins, Tick

(* Nothing is presented that was not answered. *)
LEMMA PresentedStep ==
    ASSUME TypeOK, TypeOK', Presented, Move
    PROVE  Presented'
<1>1. issued <= issued' /\ (cookie' # None => cookie' <= issued')
  <2>1. CASE \E c \in Call : RefreshGrace(c) \/ Rotated(c)
    <3>1. PICK c \in Call : RefreshGrace(c) \/ Rotated(c) BY <2>1
    <3>2. PICK v \in Nat : Answer(c, v) BY <3>1, AnswerOf
    <3> QED BY <3>2, VersionFacts DEF Answer, Max2, Presented, TypeOK
  <2>2. CASE ~(\E c \in Call : RefreshGrace(c) \/ Rotated(c))
    BY <2>2, NoAnswer, VersionFacts DEF Presented
  <2> QED BY <2>1, <2>2
<1>2. issued' \in Nat /\ issued \in Nat BY DEF TypeOK
<1>3. ASSUME NEW d \in Call, call'[d].kind = "refresh" PROVE call'[d].tok <= issued'
  <2>0. call[d].tok \in Nat BY DEF TypeOK, CallType
  <2>1. CASE call'[d] = call[d] BY <1>1, <1>2, <1>3, <2>0, <2>1 DEF Presented
  <2>2. CASE Later(d, call'[d])
    <3>1. call[d].kind = "refresh" /\ call'[d].tok = call[d].tok
      BY <1>3, <2>2, NoneAssumption DEF Later, NoCall, Kinds
    <3> QED BY <1>1, <1>2, <2>0, <3>1 DEF Presented
  <2>3. CASE \E c \in Call, k \in Kinds, i \in Isolate : Send(c, k, i)
    <3>1. PICK c \in Call, k \in Kinds, i \in Isolate : Send(c, k, i) BY <2>3
    <3>2. CASE c = d
      <4>1. k = "refresh" /\ call'[d].tok = cookie BY <1>3, <3>1, <3>2, SendLater
      <4>2. cookie # None /\ cookie \in Nat BY <3>1, <4>1 DEF Send, TypeOK
      <4> QED BY <1>1, <1>2, <4>1, <4>2 DEF Presented
    <3>3. CASE c # d BY <2>1, <3>1, <3>3, SendLater
    <3> QED BY <3>2, <3>3
  <2> QED BY <2>1, <2>2, <2>3, MoveLater DEF CallsLater
<1> QED BY <1>1, <1>3 DEF Presented

(* Only Rotate changes the version of the row. *)
SameVersion == row' # None => row # None /\ row'.v = row.v
LEMMA VersionKept ==
    ASSUME TypeOK, Move, ~(\E c \in Call : Rotate(c)) PROVE SameVersion
<1>0. row # None => row \in RowType BY DEF TypeOK
<1>1. CASE row' = row \/ row' = None BY <1>1 DEF SameVersion
<1>2. ASSUME NEW c \in Call, Extend(c) \/ Touch(c) \/ Pause(c) \/ Resume(c) PROVE SameVersion
  <2>1. row = None => row' = None BY <1>2 DEF Extend, Touch, Pause, Resume
  <2>2. CASE Extend(c) BY <1>0, <2>1, <2>2 DEF Extend, SameVersion, RowType
  <2>3. CASE Touch(c) BY <1>0, <2>1, <2>3 DEF Touch, SameVersion, RowType
  <2>4. CASE Pause(c) BY <1>0, <2>1, <2>4 DEF Pause, SameVersion, RowType
  <2>5. CASE Resume(c) BY <1>0, <2>1, <2>5 DEF Resume, SameVersion, RowType
  <2> QED BY <1>2, <2>2, <2>3, <2>4, <2>5
<1>3. ASSUME NEW w \in late, LandWrite(w) PROVE SameVersion
  BY <1>0, <1>3 DEF LandWrite, SameVersion, RowType
<1>4. ASSUME NEW c \in Call, Step(c), ~Rotate(c), ~Extend(c), ~Touch(c), ~Pause(c), ~Resume(c)
      PROVE  row' = row \/ row' = None
  BY <1>4 DEF Step, OnlyCall, Select, DropExpired, RequestGone, RequestIdle, RequestPaused,
     Serve, RefreshGone, RefreshGrace, RefreshExpired, TokenReuse, WrongPlace, Accept,
     Rotated, RefreshFails, StatementFails, Delete, Invalidate, Proceed, UnlockGone,
     RightPin, WrongPin, CountWrongPin
<1>5. ASSUME \/ \E c \in Call, k \in Kinds, i \in Isolate : Send(c, k, i)
             \/ \E i \in Isolate : ServeFromCache(i) \/ EvictUser(i) \/ EvictActivity(i)
             \/ DeleteExpiredSessions \/ ForgetWrongPins \/ Tick
      PROVE  row' = row \/ row' = None
  BY <1>5 DEF Send, ServeFromCache, EvictUser, EvictActivity, DeleteExpiredSessions,
     ForgetWrongPins, Tick
<1> QED BY <1>1, <1>2, <1>3, <1>4, <1>5 DEF Move

(* Between the increment and the answer is only Touch. *)
LEMMA IncrementedKept ==
    ASSUME TypeOK, NEW c \in Call, Step(c),
           ~Rotate(c), ~Rotated(c), ~RefreshGrace(c), ~RefreshFails(c)
    PROVE  Incremented(call'[c]) <=> Incremented(call[c])
<1>1. CASE Touch(c)
  <2>1. call'[c].pc = "answer" /\ call'[c].kind = call[c].kind
    BY <1>1 DEF Touch, Goto, TypeOK, CallType
  <2> QED BY <1>1, <2>1 DEF Touch, At, Incremented
<1>2. CASE ~Touch(c)
  <2>1. ~Incremented(call[c])
    BY <1>2 DEF Step, At, Incremented, Select, DropExpired, RequestGone, RequestIdle,
       RequestPaused, Serve, RefreshGone, RefreshExpired, TokenReuse, WrongPlace, Accept, Extend,
       StatementFails, Pause, Delete, Invalidate, Proceed, UnlockGone, RightPin, WrongPin,
       CountWrongPin, Resume
  <2> SUFFICES ~Incremented(call'[c]) BY <2>1
  <2>2. ASSUME NEW p, p \notin {"active", "answer"}, call'[c].pc = p
        PROVE  ~Incremented(call'[c])
    BY <2>2 DEF Incremented
  <2>3. CASE Done(c)
    <3>1. call'[c] = NoCall BY <2>3 DEF Done, TypeOK
    <3> QED BY <3>1, NoneAssumption DEF NoCall, Incremented, Kinds
  <2>4. CASE \E p \in {"delete", "rotate", "invalidate", "pause"} : Goto(c, p)
    <3>1. PICK p \in {"delete", "rotate", "invalidate", "pause"} : Goto(c, p) BY <2>4
    <3>2. call'[c].pc = p BY <3>1 DEF Goto, TypeOK, CallType
    <3> QED BY <2>2, <3>2
  <2>5. CASE Select(c)
    <3>1. call'[c].pc = IF row # None /\ row.exp <= now THEN "expired" ELSE "got"
      BY <2>5 DEF Select, TypeOK, CallType
    <3> QED BY <3>1 DEF Incremented
  <2>6. CASE DropExpired(c)
    <3>1. call'[c].pc = "got" BY <2>6 DEF DropExpired, TypeOK, CallType
    <3> QED BY <2>2, <3>1
  <2>7. CASE RequestIdle(c) \/ Accept(c) \/ RightPin(c)
    <3>1. \E p \in {"pause", "extend", "resume"} :
             call' = [call EXCEPT ![c] = [call[c] EXCEPT !.t = now, !.pc = p]]
      BY <2>7 DEF RequestIdle, Accept, RightPin, TypeOK, CallType
    <3>2. call'[c].pc \in {"pause", "extend", "resume"} BY <3>1 DEF TypeOK, CallType
    <3> QED BY <3>2 DEF Incremented
  <2>8. CASE WrongPin(c)
    <3>1. call'[c].pc = IF fails + 1 >= 3 THEN "delete" ELSE "count"
      BY <2>8 DEF WrongPin, TypeOK, CallType
    <3> QED BY <3>1 DEF Incremented
  <2>9. CASE Pause(c)
    <3>1. CASE call[c].kind = "request" BY <2>3, <2>9, <3>1 DEF Pause, Done
    <3>2. CASE call[c].kind # "request"
      <4>1. call'[c].pc \in {"invalidate", "extend"} BY <2>9, <3>2 DEF Pause, TypeOK, CallType
      <4> QED BY <4>1 DEF Incremented
    <3> QED BY <3>1, <3>2
  <2>10. CASE RequestGone(c) \/ RequestPaused(c) \/ Serve(c) \/ RefreshGone(c)
              \/ UnlockGone(c) \/ CountWrongPin(c) \/ Invalidate(c)
    BY <2>3, <2>10 DEF RequestGone, RequestPaused, Serve, RefreshGone, Refused,
       UnlockGone, CountWrongPin, Invalidate
  <2>11. CASE RefreshExpired(c) \/ TokenReuse(c) \/ WrongPlace(c) \/ Extend(c) \/ Resume(c)
    BY <2>4, <2>11 DEF RefreshExpired, TokenReuse, WrongPlace, Extend, Resume
  <2>12. CASE Delete(c) \/ Proceed(c) BY <2>3, <2>4, <2>12 DEF Delete, Proceed
  <2>13. CASE StatementFails(c) BY <2>3, <2>13 DEF StatementFails
  <2> QED BY <1>2, <2>5, <2>6, <2>7, <2>8, <2>9, <2>10, <2>11, <2>12, <2>13 DEF Step
<1> QED BY <1>1, <1>2

(* The copies of the row and the row itself move together. *)
LEMMA AbreastStep ==
    ASSUME TypeOK, TypeOK', OneRefresh, Abreast, Move, ~Failed("rotate")'
    PROVE  Abreast'
<1> DEFINE Answers == \E c \in Call : RefreshGrace(c) \/ Rotated(c)
           Sends == \E c \in Call, k \in Kinds, i \in Isolate : Send(c, k, i)
           Rotates == \E c \in Call : Rotate(c)
<1>1. CASE Answers
  <2>1. PICK c \in Call : RefreshGrace(c) \/ Rotated(c) BY <1>1
  <2>2. /\ call[c].kind = "refresh" /\ call[c].row # None /\ call[c].row.v \in Nat /\ row' = row
        /\ Answer(c, IF Incremented(call[c]) THEN call[c].row.v + 1 ELSE call[c].row.v)
    BY <2>1, AnswerOf
  <2>3. call[c].row.v = issued BY <2>2 DEF Abreast
  <2>4. issued' = IF Incremented(call[c]) THEN issued + 1 ELSE issued
    BY <2>2, <2>3, VersionFacts DEF Answer, Max2
  <2>5. call' = [call EXCEPT ![c] = NoCall] BY <2>2 DEF Answer, Done
  <2>6. \A d \in Call : call'[d].kind # "refresh"
    BY <2>2, <2>5, NoneAssumption DEF OneRefresh, NoCall, Kinds, TypeOK
  <2>7. \A d \in Call : Incremented(call[d]) => d = c
    BY <2>2 DEF OneRefresh, Incremented
  <2>8. row # None => row.v = issued'
    <3>1. CASE Incremented(call[c]) BY <2>4, <3>1 DEF Abreast
    <3>2. CASE ~Incremented(call[c])
      <4>1. \A d \in Call : ~Incremented(call[d]) BY <2>7, <3>2
      <4> QED BY <2>4, <3>2, <4>1 DEF Abreast
    <3> QED BY <3>1, <3>2
  <2> QED BY <2>2, <2>6, <2>8 DEF Abreast, Incremented
<1>2. CASE ~Answers
  <2>0. issued' = issued BY <1>2, NoAnswer
  <2>1. ASSUME NEW d \in Call, call'[d].kind = "refresh", call'[d].row # None
        PROVE  call'[d].row.v = issued
    <3>1. CASE call'[d] = call[d] BY <2>1, <3>1 DEF Abreast
    <3>2. CASE Later(d, call'[d])
      <4>1. call[d].kind = "refresh" BY <2>1, <3>2, NoneAssumption DEF Later, NoCall, Kinds
      <4>2. CASE Holds(call'[d], call[d]) BY <4>1, <4>2 DEF Holds, Abreast
      <4>3. CASE Reads(call'[d]) /\ ~(\E c \in Call : Incremented(call[c]))
        BY <2>1, <4>3 DEF Reads, Abreast
      <4>4. CASE \E c \in Call : Incremented(call[c])
        <5>1. PICK c \in Call : Incremented(call[c]) BY <4>4
        <5>2. c = d BY <4>1, <5>1 DEF OneRefresh, Incremented
        <5>3. call'[d] = call[d] \/ Step(d)
          <6>1. CASE \E e \in Call : Step(e)
            <7>1. PICK e \in Call : Step(e) BY <6>1
            <7>2. PICK r : call' = [call EXCEPT ![e] = r] BY <7>1, StepLater
            <7> QED BY <7>1, <7>2 DEF TypeOK
          <6>2. CASE Sends
            <7>1. PICK c2 \in Call, k \in Kinds, i \in Isolate : Send(c2, k, i) BY <6>2
            <7>2. c2 # d BY <4>1, <7>1, NoneAssumption DEF Send, NoCall, Kinds
            <7> QED BY <7>1, <7>2, SendLater
          <6>3. CASE ~(\E e \in Call : Step(e)) /\ ~Sends
            BY <6>3 DEF Move, ServeFromCache, EvictUser, EvictActivity, LandWrite,
               DeleteExpiredSessions, ForgetWrongPins, Tick
          <6> QED BY <6>1, <6>2, <6>3
        <5>4. CASE Step(d)
          <6>1. Touch(d) \/ RefreshFails(d)
            BY <1>2, <5>1, <5>2, <5>4 DEF Step, At, Incremented, Select, DropExpired, RequestGone,
               RequestIdle, RequestPaused, Serve, RefreshGone, RefreshExpired, TokenReuse,
               WrongPlace, Accept, Extend, Rotate, StatementFails, Pause, Delete, Invalidate,
               Proceed, UnlockGone,
               RightPin, WrongPin, CountWrongPin, Resume
          <6>2. ~RefreshFails(d) BY FaultMarked DEF RefreshFails
          <6>3. call'[d].row = call[d].row BY <6>1, <6>2 DEF Touch, Goto, TypeOK, CallType
          <6> QED BY <2>1, <4>1, <6>3 DEF Abreast
        <5> QED BY <3>1, <5>3, <5>4
      <4> QED BY <2>1, <3>2, <4>2, <4>3, <4>4 DEF Later
    <3>3. CASE Sends
      <4>1. PICK c \in Call, k \in Kinds, i \in Isolate : Send(c, k, i) BY <3>3
      <4>2. c # d BY <2>1, <4>1, SendLater
      <4> QED BY <3>1, <4>1, <4>2, SendLater
    <3> QED BY <3>1, <3>2, <3>3, MoveLater DEF CallsLater
  <2>2. CASE Rotates
    <3>1. PICK c \in Call : Rotate(c) BY <2>2
    <3>2. call[c].kind = "refresh" /\ ~Incremented(call[c])
      BY <3>1 DEF Rotate, At, Incremented
    <3>3. \A d \in Call : ~Incremented(call[d]) BY <3>2 DEF OneRefresh, Incremented
    <3>4. row # None => row.v = issued /\ row \in RowType BY <3>3 DEF Abreast, TypeOK
    <3>5. row' # None => row'.v = issued + 1
      BY <3>1, <3>4 DEF Rotate, RowType
    <3>6. call'[c].kind = "refresh" /\ call'[c].pc \in {"active", "answer"}
      BY <3>1, <3>2 DEF Rotate, Goto, TypeOK, CallType
    <3> QED BY <2>0, <2>1, <3>5, <3>6 DEF Abreast, Incremented
  <2>3. CASE ~Rotates
    <3>1. SameVersion BY <2>3, VersionKept
    <3>2. ASSUME NEW d \in Call PROVE Incremented(call'[d]) <=> Incremented(call[d])
      <4>1. CASE \E c \in Call : Step(c)
        <5>1. PICK c \in Call : Step(c) BY <4>1
        <5>2. ~RefreshFails(c) BY FaultMarked DEF RefreshFails
        <5>3. Incremented(call'[c]) <=> Incremented(call[c])
          BY <1>2, <2>3, <5>1, <5>2, IncrementedKept
        <5>4. PICK r : call' = [call EXCEPT ![c] = r] BY <5>1, StepLater
        <5>5. d # c => call'[d] = call[d] BY <5>4 DEF TypeOK
        <5> QED BY <5>3, <5>5
      <4>2. CASE Sends
        <5>1. PICK c \in Call, k \in Kinds, i \in Isolate : Send(c, k, i) BY <4>2
        <5>2. CASE d = c
          <6>1. call[c].kind = None BY <5>1 DEF Send, NoCall
          <6>2. call'[c].pc = "select" BY <5>1, SendLater
          <6> QED BY <5>2, <6>1, <6>2, NoneAssumption DEF Incremented, Kinds
        <5> QED BY <5>1, <5>2, SendLater
      <4>3. CASE ~(\E c \in Call : Step(c)) /\ ~Sends
        <5>1. call' = call
          BY <4>3 DEF Move, ServeFromCache, EvictUser, EvictActivity, LandWrite,
             DeleteExpiredSessions, ForgetWrongPins, Tick
        <5> QED BY <5>1
      <4> QED BY <4>1, <4>2, <4>3
    <3>3. row' # None => row # None /\ row'.v = row.v BY <3>1 DEF SameVersion
    <3>4. row' # None /\ (\A c \in Call : ~Incremented(call'[c])) => row'.v = issued'
      BY <2>0, <3>2, <3>3 DEF Abreast
    <3>5. ASSUME NEW c \in Call, row' # None, Incremented(call'[c]) PROVE row'.v = issued' + 1
      BY <2>0, <3>2, <3>3, <3>5 DEF Abreast
    <3> QED BY <2>0, <2>1, <3>4, <3>5 DEF Abreast
  <2> QED BY <2>2, <2>3
<1> QED BY <1>1, <1>2

(* The reuse invariant is inductive, for a browser with one tab. *)
LEMMA ReuseStep ==
    ASSUME Tabs = 1
    PROVE  TypeOK /\ TypeOK' /\ ReuseInv /\ [Next]_vars => ReuseInv'
<1> SUFFICES ASSUME TypeOK, TypeOK', ReuseInv, [Next]_vars PROVE ReuseInv' OBVIOUS
<1>1. CASE Next
  <2>1. Move BY <1>1 DEF Next
  <2>2. OneRefresh' /\ Presented' BY <2>1, OneRefreshStep, PresentedStep DEF ReuseInv
  <2>3. ~Failed("rotate")' => Abreast' BY <2>1, FaultsKept, AbreastStep DEF ReuseInv
  <2> QED BY <2>2, <2>3 DEF ReuseInv
<1>2. CASE UNCHANGED vars
  BY <1>2 DEF vars, memory, browser, ReuseInv, OneRefresh, Presented, Abreast, Failed, Incremented
<1> QED BY <1>1, <1>2

(* The check for token reuse never ends the session of a browser that      *)
(* refreshes once at a time and presents the newest token it was answered, *)
(* unless a rotation of its own died half-way - whatever else is under way *)
(* on any number of isolates.  (Two tabs at once can: the run with two     *)
(* shows it.)                                                              *)
THEOREM SessionReuse == ASSUME Tabs = 1 PROVE Spec => ReuseMeansNewer
<1>1. Init => ReuseInv
  BY NoneAssumption DEF Init, ReuseInv, OneRefresh, Presented, Abreast, Incremented, NoCall, Kinds
<1>2. ASSUME TypeOK, ReuseInv, NEW c \in Call, TokenReuse(c), ~Failed("rotate")
      PROVE  call[c].tok < issued
  <2>1. call[c].kind = "refresh" /\ call[c].row # None /\ call[c].row.v # call[c].tok
    BY <1>2 DEF TokenReuse, At, Direct
  <2>2. call[c].tok <= issued /\ call[c].row.v = issued
    BY <1>2, <2>1 DEF ReuseInv, Presented, Abreast
  <2>3. call[c].tok \in Nat /\ issued \in Nat BY <1>2 DEF TypeOK, CallType
  <2> QED BY <2>1, <2>2, <2>3
<1>3. TypeOK /\ ReuseInv /\ [Next]_vars
      => [\A c \in Call : TokenReuse(c) => call[c].tok < issued \/ Failed("rotate")]_vars
  BY <1>2
<1> QED BY <1>1, <1>3, ReuseStep, SessionsTypes, PTL DEF Spec, ReuseMeansNewer
=============================================================================
