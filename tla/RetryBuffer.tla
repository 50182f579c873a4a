---------------------------- MODULE RetryBuffer ----------------------------
(***************************************************************************)
(* The Collector's local buffer in front of the Analyzer                   *)
(* (tlapix-collector/src/buffer.rs): RetryBuffer::push called by event     *)
(* tasks, run_flush_loop flushing it, ChannelAnalyzerSink on the other     *)
(* side.  The buffer sits behind one tokio mutex which the flush loop      *)
(* keeps while it awaits the sink, so a push waits for a flush to end.     *)
(*                                                                         *)
(* Records are numbered in the order they are pushed.  An Instant is kept  *)
(* as its age in abstract ticks, saturating where no comparison can tell   *)
(* larger ages apart.                                                      *)
(***************************************************************************)
EXTENDS Integers, Sequences

CONSTANTS
  Capacity,        \* RetryBufferConfig::capacity
  InitialRetry,    \* INITIAL_RETRY_INTERVAL, in ticks
  MaxRetry,        \* MAX_RETRY_INTERVAL, in ticks
  MaxBuffering,    \* RetryBufferConfig::max_buffer_duration, in ticks
  ChannelCapacity, \* slots of the mpsc channel the sink sends into
  SinkReopens,     \* FALSE: a closed mpsc channel stays closed; TRUE: a sink
                   \* that becomes available again
  MaxPushes        \* bound: records the collector produces in one behaviour

ASSUME BufferAssumption ==
  /\ Capacity \in Nat \ {0}
  /\ InitialRetry \in Nat \ {0}
  /\ MaxRetry \in Nat /\ MaxRetry >= InitialRetry
  /\ MaxBuffering \in Nat \ {0}
  /\ ChannelCapacity \in Nat \ {0}
  /\ SinkReopens \in BOOLEAN
  /\ MaxPushes \in Nat

VARIABLES
  records,     \* RetryBuffer::records
  bufferAge,   \* elapsed() of RetryState::buffering_started, or Never
  attemptAge,  \* elapsed() of RetryState::last_attempt, or Never
  backoff,     \* RetryState::current_backoff
  evicted,     \* BufferStats::evicted_count
  expired,     \* BufferStats::expired_count
  loop,        \* where run_flush_loop stands
  wakeIn,      \* what is left of the loop's tokio sleep
  batch,       \* records drained by try_flush, not yet offered to the sink
  failed,      \* records of the batch the sink could not take
  open,        \* the sink is available
  channel,     \* records inside the sink's channel
  delivered,   \* records the Analyzer has received, oldest first
  lost,        \* records that were in the channel when its receiver went away
  pushed,      \* how many records the collector has produced
  cancelled    \* the CancellationToken

retryState == <<bufferAge, attemptAge, backoff>>
stats == <<evicted, expired>>
flushVars == <<loop, wakeIn, batch, failed>>
sinkVars == <<open, channel, delivered, lost>>
vars == <<records, retryState, stats, flushVars, sinkVars, pushed, cancelled>>

Never == -1
Lesser(m, n) == IF m <= n THEN m ELSE n
Older(age, cap) == IF age = Never THEN Never ELSE Lesser(age + 1, cap)

-----------------------------------------------------------------------------
(* RetryState *)

IsExpired == bufferAge >= MaxBuffering

ShouldRetry == attemptAge = Never \/ attemptAge >= backoff

ResetRetry ==
  /\ bufferAge' = Never
  /\ attemptAge' = Never
  /\ backoff' = InitialRetry

\* The backoff doubles before it is ever waited for.
RecordAttempt ==
  /\ bufferAge' = IF bufferAge = Never THEN 0 ELSE bufferAge
  /\ attemptAge' = 0
  /\ backoff' = Lesser(2 * backoff, MaxRetry)

\* Mutant: time_until_retry counts from the interval of the attempt before.
SleepDuration_HalfBackoff ==
  IF records = <<>> \/ IsExpired THEN InitialRetry
  ELSE IF ShouldRetry THEN 0
  ELSE Lesser(backoff - attemptAge, backoff \div 2)

\* The sleep that run_flush_loop computes, time_until_retry included.
SleepDuration ==
  IF records = <<>> \/ IsExpired THEN InitialRetry
  ELSE IF ShouldRetry THEN 0
  ELSE backoff - attemptAge

-----------------------------------------------------------------------------
\* The mutex is held from the drain until the sink has answered.
LockFree == loop # "sending"

\* push() within the buffering period: evict the oldest if full, append.
Push ==
  /\ LockFree
  /\ pushed < MaxPushes
  /\ ~IsExpired
  /\ pushed' = pushed + 1
  /\ bufferAge' = IF bufferAge = Never THEN 0 ELSE bufferAge
  /\ IF Len(records) >= Capacity
       THEN /\ records' = Append(Tail(records), pushed + 1)
            /\ evicted' = evicted + 1
       ELSE /\ records' = Append(records, pushed + 1)
            /\ UNCHANGED evicted
  /\ UNCHANGED <<attemptAge, backoff, expired, flushVars, sinkVars, cancelled>>

\* push() once the whole buffer has expired: the new record is discarded.
PushExpired ==
  /\ LockFree
  /\ pushed < MaxPushes
  /\ IsExpired
  /\ pushed' = pushed + 1
  /\ expired' = expired + 1
  /\ UNCHANGED <<records, retryState, evicted, flushVars, sinkVars, cancelled>>

\* The head of the loop: take the lock, decide how long to sleep.
Decide ==
  /\ loop = "deciding"
  /\ loop' = "sleeping"
  /\ wakeIn' = SleepDuration
  /\ UNCHANGED <<records, retryState, stats, batch, failed, sinkVars, pushed,
                 cancelled>>

Idle == records = <<>> \/ IsExpired \/ ~ShouldRetry

\* The sleep is over; nothing to flush, or not allowed to.
WakeIdle ==
  /\ loop = "sleeping" /\ wakeIn = 0
  /\ Idle
  /\ loop' = "deciding"
  /\ UNCHANGED <<records, retryState, stats, wakeIn, batch, failed, sinkVars,
                 pushed, cancelled>>

\* try_flush finds the sink unavailable.
WakeUnavailable ==
  /\ loop = "sleeping" /\ wakeIn = 0
  /\ ~Idle /\ ~open
  /\ RecordAttempt
  /\ loop' = "deciding"
  /\ UNCHANGED <<records, stats, wakeIn, batch, failed, sinkVars, pushed,
                 cancelled>>

\* try_flush drains the buffer and calls send_batch.
WakeDrain ==
  /\ loop = "sleeping" /\ wakeIn = 0
  /\ ~Idle /\ open
  /\ batch' = records
  /\ records' = <<>>
  /\ loop' = "sending"
  /\ UNCHANGED <<retryState, stats, wakeIn, failed, sinkVars, pushed, cancelled>>

\* Mutant: a pending send does not notice that the receiver is gone.
SendFails_Unnoticed == FALSE

\* send_batch, one record: sender.send waits for a free slot, and fails on a
\* closed channel.
SendRecord ==
  /\ loop = "sending" /\ batch # <<>>
  /\ open /\ Len(channel) < ChannelCapacity
  /\ channel' = Append(channel, Head(batch))
  /\ batch' = Tail(batch)
  /\ UNCHANGED <<records, retryState, stats, loop, wakeIn, failed, open,
                 delivered, lost, pushed, cancelled>>

SendFails ==
  /\ loop = "sending" /\ batch # <<>>
  /\ ~open
  /\ failed' = Append(failed, Head(batch))
  /\ batch' = Tail(batch)
  /\ UNCHANGED <<records, retryState, stats, loop, wakeIn, sinkVars, pushed,
                 cancelled>>

\* send_batch returned Ok.
FlushSucceeds ==
  /\ loop = "sending" /\ batch = <<>> /\ failed = <<>>
  /\ ResetRetry
  /\ loop' = "deciding"
  /\ UNCHANGED <<records, stats, wakeIn, batch, failed, sinkVars, pushed,
                 cancelled>>

\* Mutant: remaining is only logged.
PutBack_Dropped == records

PutBack == failed \o records

\* send_batch returned Err(remaining): back to the front, in order.
FlushFails ==
  /\ loop = "sending" /\ batch = <<>> /\ failed # <<>>
  /\ records' = PutBack
  /\ failed' = <<>>
  /\ RecordAttempt
  /\ loop' = "deciding"
  /\ UNCHANGED <<stats, wakeIn, batch, sinkVars, pushed, cancelled>>

\* Mutant: the loop insists on an empty buffer before it stops.
Stop_WhenEmpty ==
  /\ loop = "sleeping" /\ cancelled /\ records = <<>>
  /\ loop' = "stopped"
  /\ UNCHANGED <<records, retryState, stats, wakeIn, batch, failed, sinkVars,
                 pushed, cancelled>>

\* The select! takes the cancelled branch; it is only polled while sleeping.
Stop ==
  /\ loop = "sleeping" /\ cancelled
  /\ loop' = "stopped"
  /\ UNCHANGED <<records, retryState, stats, wakeIn, batch, failed, sinkVars,
                 pushed, cancelled>>

-----------------------------------------------------------------------------
(* The Analyzer at the other end, the clock and the shutdown signal. *)

Receive ==
  /\ channel # <<>>
  /\ delivered' = Append(delivered, Head(channel))
  /\ channel' = Tail(channel)
  /\ UNCHANGED <<records, retryState, stats, flushVars, open, lost, pushed,
                 cancelled>>

\* The receiver is dropped, with whatever is still in the channel.
SinkCloses ==
  /\ open
  /\ open' = FALSE
  /\ channel' = <<>>
  /\ lost' = lost + Len(channel)
  /\ UNCHANGED <<records, retryState, stats, flushVars, delivered, pushed,
                 cancelled>>

SinkOpens ==
  /\ SinkReopens /\ ~open
  /\ open' = TRUE
  /\ UNCHANGED <<records, retryState, stats, flushVars, channel, delivered,
                 lost, pushed, cancelled>>

Tick ==
  /\ bufferAge' = Older(bufferAge, MaxBuffering)
  /\ attemptAge' = Older(attemptAge, MaxRetry)
  /\ wakeIn' = IF wakeIn = 0 THEN 0 ELSE wakeIn - 1
  /\ UNCHANGED <<records, backoff, stats, loop, batch, failed, sinkVars, pushed,
                 cancelled>>

Cancel ==
  /\ ~cancelled
  /\ cancelled' = TRUE
  /\ UNCHANGED <<records, retryState, stats, flushVars, sinkVars, pushed>>

-----------------------------------------------------------------------------
Init ==
  /\ records = <<>>
  /\ bufferAge = Never /\ attemptAge = Never /\ backoff = InitialRetry
  /\ evicted = 0 /\ expired = 0
  /\ loop = "deciding" /\ wakeIn = 0
  /\ batch = <<>> /\ failed = <<>>
  /\ open = TRUE /\ channel = <<>> /\ delivered = <<>> /\ lost = 0
  /\ pushed = 0
  /\ cancelled = FALSE

FlushLoop ==
  \/ Decide \/ WakeIdle \/ WakeUnavailable \/ WakeDrain
  \/ SendRecord \/ SendFails \/ FlushSucceeds \/ FlushFails \/ Stop

Next ==
  \/ Push \/ PushExpired
  \/ FlushLoop
  \/ Receive \/ SinkCloses \/ SinkOpens
  \/ Tick \/ Cancel

Spec == Init /\ [][Next]_vars

\* The tokio runtime polls a runnable loop, time passes, and an Analyzer that
\* holds its receiver reads from it.  select! picks among the branches that are
\* ready at random, so the cancelled branch is not passed over for ever.
Fairness ==
  /\ WF_vars(FlushLoop) /\ SF_vars(Stop)
  /\ WF_vars(Tick)
  /\ WF_vars(Receive)

FairSpec == Spec /\ Fairness

-----------------------------------------------------------------------------
(* Correctness *)

\* The records the buffer answers for; a flush in progress holds them apart.
Held == failed \o batch \o records

\* Every record that can still reach the Analyzer, or has.
Pipeline == delivered \o channel \o Held

Ages(cap) == Never .. cap

\* Every variable stays in its domain; in particular the ages never leave the
\* range in which they were compared (RetryBuffer, RetryState, BufferStats).
TypeOK ==
  /\ records \in Seq(Nat) /\ batch \in Seq(Nat) /\ failed \in Seq(Nat)
  /\ channel \in Seq(Nat) /\ delivered \in Seq(Nat)
  /\ bufferAge \in Ages(MaxBuffering) /\ attemptAge \in Ages(MaxRetry)
  /\ backoff \in InitialRetry .. MaxRetry
  /\ evicted \in Nat /\ expired \in Nat /\ lost \in Nat
  /\ loop \in {"deciding", "sleeping", "sending", "stopped"}
  /\ wakeIn \in 0 .. MaxRetry
  /\ open \in BOOLEAN /\ cancelled \in BOOLEAN
  /\ pushed \in 0 .. MaxPushes

\* No record disappears unaccounted: all that were pushed are delivered, on
\* their way, held, or in one of the counters (push, try_flush, send_batch).
Conservation ==
  pushed = Len(delivered) + Len(channel) + Len(Held) + lost + evicted + expired

\* A drained batch counts against the capacity until the sink has taken it:
\* putting it back never overfills the buffer (push, try_flush).
WithinCapacity == Len(Held) <= Capacity

\* The one-hour clock runs exactly while the buffer holds something or a flush
\* is under way: records never sit there without a deadline, and an idle
\* buffer never ages (buffering_started in push, reset and record_attempt).
ClockRunsIffHolding == bufferAge # Never <=> (Held # <<>> \/ loop = "sending")

\* A sleep is never cut so short that the flush it was meant for is refused:
\* what run_flush_loop computes under one lock still fits the retry state it
\* finds under the next, pushes in between included.
WakesInTime ==
  (loop = "sleeping" /\ wakeIn = 0 /\ records # <<>> /\ ~IsExpired) => ShouldRetry

\* try_flush gives the lock back, whether the receiver reads or goes away, so
\* that a waiting push gets its turn.
FlushEnds == loop = "sending" ~> LockFree

\* A cancelled flush loop stops (the cancelled branch of its select!).
Shutdown == cancelled ~> loop = "stopped"

\* The buffer is a bounded lossy queue, FIFO when the sink is a channel.
Queue == INSTANCE LossyQueue
           WITH produced <- pushed, queue <- Held, out <- delivered \o channel,
                dropped <- lost + evicted + expired, InOrder <- ~SinkReopens

\* Every behaviour of the buffer is one of the abstract queue.
RefinesLossyQueue == Queue!Spec

(* What a doc comment says and the code does not do. *)

\* buffer.rs:147: "records expire after that": an expired buffer lets go of
\* its records.
ExpiredRecordsLeave == IsExpired ~> Held = <<>>

=============================================================================
