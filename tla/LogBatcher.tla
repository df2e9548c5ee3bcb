---------------------------- MODULE LogBatcher ----------------------------
(***************************************************************************)
(* pipeline/logBatcher.ts in one isolate: query logs are queued in memory  *)
(* and written in batches, by a timer or at once; a circuit breaker        *)
(* silences the writes once the daily quota of the database is used up.    *)
(* Between taking a batch and writing it a flush looks up the keys it      *)
(* seals the logs with: that await is modelled in LogKeys, here it is the  *)
(* stage "keys".                                                           *)
(***************************************************************************)
EXTENDS Naturals, Sequences

CONSTANTS Log,        \* query logs, each produced once
          Flush,      \* calls of flushLogBatch that may be under way
          BatchSize,  \* MAX_BATCH_SIZE
          MaxEnds     \* bound: times the isolate ends

ASSUME SizeAssumption == BatchSize \in Nat \ {0}
ASSUME EndsAssumption == MaxEnds \in Nat

VARIABLES queue,      \* logBatchQueue
          scheduled,  \* isFlushScheduled
          recent,     \* lastFlushTime is less than FLUSH_INTERVAL_MS ago
          timers,     \* deferred flushes whose timer has not fired
          silenced,   \* memoryCircuitBreakerUntil is in the future
          noted,      \* the shared cache holds an unexpired d1:write_quota_tripped
          stage,      \* where each flush is
          batch,      \* the logs it has taken
          fate,       \* what became of each log
          ends        \* how often the isolate has ended

breaker == <<silenced, noted>>
batcher == <<queue, scheduled, recent, timers, breaker, stage, batch, fate, ends>>

BatcherInit ==
    /\ queue = <<>>
    /\ scheduled = FALSE
    /\ recent = TRUE
    /\ timers = 0
    /\ silenced = FALSE
    /\ noted \in BOOLEAN
    /\ stage = [f \in Flush |-> "idle"]
    /\ batch = [f \in Flush |-> <<>>]
    /\ fate = [l \in Log |-> "new"]
    /\ ends = 0

Elements(s) == {s[i] : i \in DOMAIN s}
Became(ls, what) == fate' = [l \in Log |-> IF l \in ls THEN what ELSE fate[l]]

-----------------------------------------------------------------------------
(* The synchronous start of flushLogBatch, which finds the queue q.        *)
StartFlush(f, q) == /\ stage[f] = "idle"
                    /\ scheduled' = FALSE
                    /\ recent' = TRUE
                    /\ stage' = [stage EXCEPT ![f] = IF q = <<>> THEN "idle"
                                                                 ELSE "quota"]

(* scheduleDeferredFlush: a timer, unless one is known to be pending.      *)
Schedule == /\ scheduled' = TRUE
            /\ timers' = IF scheduled THEN timers ELSE timers + 1

(* enqueueLog: a full queue or a long pause flushes at once.               *)
EnqueueLog(l) ==
    LET q == Append(queue, l) IN
    /\ fate[l] = "new"
    /\ ~silenced
    /\ queue' = q
    /\ Became({l}, "held")
    /\ IF Len(q) >= BatchSize \/ ~recent
         THEN (\E f \in Flush : StartFlush(f, q)) /\ UNCHANGED timers
         ELSE Schedule /\ UNCHANGED <<recent, stage>>
    /\ UNCHANGED <<breaker, batch, ends>>

(* Logs nobody keeps: retention is 0, a PASS not to be logged, or writes   *)
(* are silenced.                                                           *)
SkipLog(l) == /\ fate[l] = "new"
              /\ Became({l}, "skipped")
              /\ UNCHANGED <<queue, scheduled, recent, timers, breaker, stage,
                             batch, ends>>

(* Mutant: the deferred flush leaves isFlushScheduled as it is.            *)
TimerKeepsFlag(f) == /\ timers > 0
                     /\ timers' = timers - 1
                     /\ stage[f] = "idle"
                     /\ recent' = TRUE
                     /\ stage' = [stage EXCEPT ![f] = IF queue = <<>> THEN "idle"
                                                                      ELSE "quota"]
                     /\ UNCHANGED <<queue, scheduled, breaker, batch, fate, ends>>

TimerFires(f) == /\ timers > 0
                 /\ timers' = timers - 1
                 /\ StartFlush(f, queue)
                 /\ UNCHANGED <<queue, breaker, batch, fate, ends>>

(* isWriteQuotaTripped, in memory or in the shared cache: the queue goes.  *)
FindTripped(f) == /\ stage[f] = "quota"
                  /\ silenced \/ noted
                  /\ silenced' = TRUE
                  /\ queue' = <<>>
                  /\ Became(Elements(queue), "dropped")
                  /\ stage' = [stage EXCEPT ![f] = "idle"]
                  /\ UNCHANGED <<scheduled, recent, timers, noted, batch, ends>>

(* The batch, unless another flush has emptied the queue meanwhile. A note *)
(* in the shared cache goes unseen when the cache cannot be read.          *)
Takes(f, took, left) ==
    /\ stage[f] = "quota"
    /\ ~silenced
    /\ queue' = left
    /\ batch' = [batch EXCEPT ![f] = took]
    /\ stage' = [stage EXCEPT ![f] = IF took = <<>> THEN "idle" ELSE "keys"]
    /\ UNCHANGED <<scheduled, recent, timers, breaker, fate, ends>>

Front == IF Len(queue) < BatchSize THEN Len(queue) ELSE BatchSize

(* Mutant: the batch is copied and stays queued.                           *)
TakeCopy(f) == Takes(f, SubSeq(queue, 1, Front), queue)

TakeBatch(f) == Takes(f, SubSeq(queue, 1, Front),
                      SubSeq(queue, Front + 1, Len(queue)))

Ends(f, what) == /\ stage[f] = "keys"
                 /\ Became(Elements(batch[f]), what)
                 /\ batch' = [batch EXCEPT ![f] = <<>>]
                 /\ stage' = [stage EXCEPT ![f] = "idle"]
                 /\ UNCHANGED <<queue, recent, breaker, ends>>

(* The end of a flush: what is left in the queue asks for another one.     *)
EndFlush(f, what) == /\ Ends(f, what)
                     /\ IF queue = <<>> THEN UNCHANGED <<scheduled, timers>>
                                        ELSE Schedule

(* Mutant: a batch that fails goes back to the queue, to be retried with   *)
(* whatever flush comes next.                                              *)
WriteFailsRequeues(f) ==
    /\ stage[f] = "keys"
    /\ queue' = batch[f] \o queue
    /\ batch' = [batch EXCEPT ![f] = <<>>]
    /\ stage' = [stage EXCEPT ![f] = "idle"]
    /\ UNCHANGED <<scheduled, recent, timers, breaker, fate, ends>>

(* The batch is written, or lost to an error: it is not retried.           *)
WriteBatch(f) == EndFlush(f, "written")
WriteFails(f) == EndFlush(f, "dropped")

(* A key that cannot be made throws out of the flush: its batch is lost and *)
(* it does not look at the queue again. isFlushScheduled is cleared when it *)
(* was a timer's flush (304); of a log's flush nobody catches the error.    *)
KeysThrow(f) == /\ Ends(f, "dropped")
                /\ scheduled' \in {scheduled, FALSE}
                /\ UNCHANGED timers

Trips(f, left) ==
    /\ stage[f] = "keys"
    /\ silenced' = TRUE
    /\ noted' \in {noted, TRUE}
    /\ scheduled' = FALSE
    /\ queue' = left
    /\ Became(Elements(batch[f]) \cup (Elements(queue) \ Elements(left)), "dropped")
    /\ batch' = [batch EXCEPT ![f] = <<>>]
    /\ stage' = [stage EXCEPT ![f] = "idle"]
    /\ UNCHANGED <<recent, timers, ends>>

(* Mutant: the queue is kept for later.                                    *)
QuotaKeepsQueue(f) == Trips(f, queue)

(* The write meets the quota: tripWriteCircuitBreaker.                     *)
QuotaExceeded(f) == Trips(f, <<>>)

-----------------------------------------------------------------------------
(* Time, the other isolates, the end of this one.                          *)
IntervalPasses == /\ recent
                  /\ recent' = FALSE
                  /\ UNCHANGED <<queue, scheduled, timers, breaker, stage,
                                 batch, fate, ends>>

(* The breaker's hour is over, in memory and in the cache.                 *)
CooldownEnds == /\ silenced \/ noted
                /\ silenced' = FALSE
                /\ noted' = FALSE
                /\ UNCHANGED <<queue, scheduled, recent, timers, stage,
                               batch, fate, ends>>

TripsElsewhere == /\ ~noted
                  /\ noted' = TRUE
                  /\ UNCHANGED <<queue, scheduled, recent, timers, silenced,
                                 stage, batch, fate, ends>>

IsolateEnds == /\ ends < MaxEnds
               /\ ends' = ends + 1
               /\ queue' = <<>>
               /\ scheduled' = FALSE
               /\ recent' = TRUE
               /\ timers' = 0
               /\ silenced' = FALSE
               /\ stage' = [f \in Flush |-> "idle"]
               /\ batch' = [f \in Flush |-> <<>>]
               /\ Became({l \in Log : fate[l] = "held"}, "dropped")
               /\ UNCHANGED noted

WriteStep(f) == WriteBatch(f) \/ WriteFails(f) \/ KeysThrow(f) \/ QuotaExceeded(f)
FlushStep(f) == FindTripped(f) \/ TakeBatch(f) \/ WriteStep(f)

BatcherNext ==
    \/ \E l \in Log : EnqueueLog(l) \/ SkipLog(l)
    \/ \E f \in Flush : TimerFires(f) \/ FlushStep(f)
    \/ IntervalPasses \/ CooldownEnds \/ TripsElsewhere
    \/ IsolateEnds

BatcherSpec == BatcherInit /\ [][BatcherNext]_batcher

(* Timers fire; requests to the cache and the database are answered.       *)
BatcherFairSpec ==
    /\ BatcherSpec
    /\ WF_batcher(\E f \in Flush : TimerFires(f))
    /\ \A f \in Flush : WF_batcher(FlushStep(f))

-----------------------------------------------------------------------------
Fates == {"new", "held", "skipped", "dropped", "written"}

BatcherTypeOK ==
    /\ queue \in Seq(Log)
    /\ scheduled \in BOOLEAN /\ recent \in BOOLEAN
    /\ silenced \in BOOLEAN /\ noted \in BOOLEAN
    /\ timers \in Nat
    /\ stage \in [Flush -> {"idle", "quota", "keys"}]
    /\ batch \in [Flush -> Seq(Log)]
    /\ fate \in [Log -> Fates]
    /\ ends \in 0..MaxEnds

(* isFlushScheduled never claims a timer that is not there: the next log   *)
(* would wait for a flush that nobody has asked for.                       *)
FlagIsHonest == scheduled => timers > 0

(* Queued logs are waited for: by a timer, or by a flush that has yet to   *)
(* take its batch. A flush past that point may die without another look.   *)
NoneStranded == queue = <<>> \/ timers > 0 \/ \E f \in Flush : stage[f] = "quota"

(* No log is twice in the queue or in a batch, in both, in two batches, or *)
(* in any of them once its fate is known: it is written at most once.      *)
NoRepeats(s) == \A i, j \in DOMAIN s : s[i] = s[j] => i = j
OncePlaced ==
    /\ NoRepeats(queue)
    /\ \A l \in Elements(queue) : fate[l] = "held"
    /\ \A f \in Flush : NoRepeats(batch[f])
    /\ \A f \in Flush : \A l \in Elements(batch[f]) :
          /\ fate[l] = "held"
          /\ l \notin Elements(queue)
          /\ \A g \in Flush \ {f} : l \notin Elements(batch[g])

(* While writes are silenced nothing piles up in memory (the purpose       *)
(* tripWriteCircuitBreaker's comment gives for clearing the queue).        *)
SilencedIsEmpty == silenced => queue = <<>>

(* Every log that is accepted is written or given up in the end.           *)
Drained == \A l \in Log : fate[l] = "held" ~> fate[l] # "held"
=============================================================================
