------------------------- MODULE RetryBufferProofs -------------------------
(***************************************************************************)
(* Theorems about RetryBuffer, for every capacity, interval and channel    *)
(* size that BufferAssumption allows.                                      *)
(***************************************************************************)
EXTENDS RetryBuffer, SequenceTheorems, TLAPS

\* The batch and the rejected records exist only during a flush, and the queue
\* is empty for as long as it lasts.
Phases ==
  /\ loop # "sending" => batch = <<>> /\ failed = <<>>
  /\ loop = "sending" => records = <<>>

\* An idle buffer has no retry state left over from an earlier outage.
NoStaleAttempt ==
  (loop # "sending" /\ records = <<>>) => attemptAge = Never

\* While the loop sleeps, what it still has to sleep covers the backoff.
SleepCoversBackoff ==
  loop = "sleeping" =>
    attemptAge = Never \/ attemptAge + wakeIn >= backoff \/ IsExpired

\* The inductive invariant.  The lengths of the parts of Held are added up, so
\* that no step of the proof reasons about their concatenation.
IInv ==
  /\ TypeOK /\ Phases /\ NoStaleAttempt /\ SleepCoversBackoff
  /\ Len(failed) + Len(batch) + Len(records) <= Capacity
  /\ bufferAge # Never <=> (records # <<>> \/ loop = "sending")
  /\ pushed = Len(delivered) + Len(channel)
              + (Len(failed) + Len(batch) + Len(records))
              + lost + evicted + expired

-----------------------------------------------------------------------------
(* Sequences *)

\* The records the buffer holds are those of its three parts.
LEMMA LenHeld ==
  ASSUME TypeOK
  PROVE  /\ Len(Held) = Len(failed) + Len(batch) + Len(records)
         /\ Held = <<>> <=> failed = <<>> /\ batch = <<>> /\ records = <<>>
BY DEF TypeOK, Held

\* Taking the head off a non-empty queue shortens it by one.
LEMMA TailShorter ==
  ASSUME NEW s \in Seq(Nat), s # <<>>
  PROVE  /\ Tail(s) \in Seq(Nat) /\ Head(s) \in Nat
         /\ Len(s) \in Nat \ {0}
         /\ Len(Tail(s)) = Len(s) - 1
OBVIOUS

\* The empty sequence.
LEMMA NothingHeld ==
  ASSUME NEW s, s = <<>>
  PROVE  s \in Seq(Nat) /\ Len(s) = 0
OBVIOUS

\* Appending lengthens a queue by one.
LEMMA AppendLonger ==
  ASSUME NEW t \in Seq(Nat), NEW e \in Nat
  PROVE  /\ Append(t, e) \in Seq(Nat) /\ Append(t, e) # <<>>
         /\ Len(Append(t, e)) = Len(t) + 1
BY SMTT(30)

\* Pushing into a full queue, oldest out first, keeps its length.
LEMMA EvictAndAppend ==
  ASSUME NEW s \in Seq(Nat), s # <<>>, NEW e \in Nat
  PROVE  /\ Append(Tail(s), e) \in Seq(Nat) /\ Append(Tail(s), e) # <<>>
         /\ Len(Append(Tail(s), e)) = Len(s)
<1> DEFINE t == Tail(s)
<1>1. t \in Seq(Nat) /\ Len(t) = Len(s) - 1 /\ Len(s) \in Nat
  BY TailShorter
<1> HIDE DEF t
<1>2. /\ Append(t, e) \in Seq(Nat) /\ Append(t, e) # <<>>
      /\ Len(Append(t, e)) = Len(t) + 1
  BY <1>1, AppendLonger
<1> QED
  BY <1>1, <1>2 DEF t

-----------------------------------------------------------------------------
(* Safety *)

\* The buffer starts in a state of the inductive invariant.
LEMMA InitIInv == Init => IInv
<1> SUFFICES ASSUME Init PROVE IInv
  OBVIOUS
<1> USE BufferAssumption DEF Ages, Never
<1>1. /\ records \in Seq(Nat) /\ batch \in Seq(Nat) /\ failed \in Seq(Nat)
      /\ channel \in Seq(Nat) /\ delivered \in Seq(Nat)
      /\ Len(failed) = 0 /\ Len(batch) = 0 /\ Len(records) = 0
      /\ Len(delivered) = 0 /\ Len(channel) = 0
  BY NothingHeld DEF Init
<1>2. /\ bufferAge = -1 /\ attemptAge = -1 /\ backoff = InitialRetry
      /\ evicted = 0 /\ expired = 0 /\ lost = 0 /\ pushed = 0 /\ wakeIn = 0
      /\ loop = "deciding" /\ open \in BOOLEAN /\ cancelled \in BOOLEAN
  BY DEF Init
<1>3. records = <<>> /\ batch = <<>> /\ failed = <<>>
  BY DEF Init
<1>4. TypeOK
  BY <1>1, <1>2 DEF TypeOK
<1>5. Phases /\ NoStaleAttempt /\ SleepCoversBackoff
  BY <1>2, <1>3 DEF Phases, NoStaleAttempt, SleepCoversBackoff
<1> QED
  BY <1>1, <1>2, <1>3, <1>4, <1>5 DEF IInv

\* Every step of push, the flush loop, the sink and the clock keeps it.
LEMMA NextIInv == IInv /\ [Next]_vars => IInv'
<1> SUFFICES ASSUME IInv, [Next]_vars PROVE IInv'
  OBVIOUS
<1> USE BufferAssumption
    DEF IInv, TypeOK, Phases, NoStaleAttempt, SleepCoversBackoff, Ages, Never,
        IsExpired, retryState, stats, flushVars, sinkVars
<1>1. CASE Next
  <2>1. CASE Push
    <3> USE <2>1 DEF Push, LockFree
    <3>1. CASE Len(records) >= Capacity
      <4>1. records \in Seq(Nat) /\ records # <<>> /\ pushed + 1 \in Nat
        BY <3>1
      <4>2. records' = Append(Tail(records), pushed + 1) /\ evicted' = evicted + 1
        BY <3>1
      <4>3. records' \in Seq(Nat) /\ records' # <<>> /\ Len(records') = Len(records)
        BY <4>1, <4>2, EvictAndAppend
      <4>4. /\ pushed' = pushed + 1 /\ pushed' \in 0 .. MaxPushes
            /\ bufferAge' \in Ages(MaxBuffering) /\ bufferAge' # Never
            /\ evicted' \in Nat
        BY <4>2
      <4>5. UNCHANGED <<attemptAge, backoff, expired, flushVars, sinkVars,
                        cancelled>>
        OBVIOUS
      <4>6. TypeOK' /\ Phases' /\ NoStaleAttempt'
        BY <4>3, <4>4, <4>5
      <4>7. SleepCoversBackoff'
        BY <4>1, <4>4, <4>5
      <4>8. /\ Len(delivered) \in Nat /\ Len(channel) \in Nat
            /\ Len(failed) \in Nat /\ Len(batch) \in Nat /\ Len(records) \in Nat
            /\ lost \in Nat /\ evicted \in Nat /\ expired \in Nat
        BY SMTT(30)
      <4>9. pushed' = Len(delivered') + Len(channel')
                      + (Len(failed') + Len(batch') + Len(records'))
                      + lost' + evicted' + expired'
        <5>1. /\ evicted' = evicted + 1 /\ pushed' = pushed + 1
              /\ Len(records') = Len(records)
          BY <4>2, <4>3, <4>4
        <5>2. /\ delivered' = delivered /\ channel' = channel /\ failed' = failed
              /\ batch' = batch /\ lost' = lost /\ expired' = expired
          BY <4>5
        <5>3. pushed = Len(delivered) + Len(channel)
                       + (Len(failed) + Len(batch) + Len(records))
                       + lost + evicted + expired
          OBVIOUS
        <5> HIDE DEF Push, IInv, TypeOK
        <5> QED
          BY <4>8, <5>1, <5>2, <5>3
      <4>10. Len(failed') + Len(batch') + Len(records') <= Capacity
        BY <4>3, <4>5, <4>8
      <4> HIDE DEF Push, TypeOK, Phases, NoStaleAttempt, SleepCoversBackoff
      <4> QED
        BY <4>3, <4>4, <4>6, <4>7, <4>9, <4>10
    <3>2. CASE ~(Len(records) >= Capacity)
      <4>1. records' = Append(records, pushed + 1) /\ evicted' = evicted
        BY <3>2
      <4>2. records' \in Seq(Nat) /\ records' # <<>>
            /\ Len(records') = Len(records) + 1
        BY <4>1, SMTT(30)
      <4> QED
        BY <3>2, <4>1, <4>2, SMTT(30)
    <3> QED
      BY <3>1, <3>2
  <2>2. CASE PushExpired
    BY <2>2, TailShorter DEF PushExpired, LockFree
  <2>3. CASE Decide
    BY <2>3, TailShorter DEF Decide, SleepDuration, ShouldRetry
  <2>4. CASE WakeIdle
    BY <2>4, TailShorter DEF WakeIdle, Idle
  <2>5. CASE WakeUnavailable
    BY <2>5, TailShorter DEF WakeUnavailable, Idle, RecordAttempt, Lesser, ShouldRetry
  <2>6. CASE WakeDrain
    BY <2>6, TailShorter DEF WakeDrain, Idle, ShouldRetry
  <2>7. CASE SendRecord
    BY <2>7, TailShorter DEF SendRecord
  <2>8. CASE SendFails
    BY <2>8, TailShorter DEF SendFails
  <2>9. CASE FlushSucceeds
    BY <2>9, TailShorter DEF FlushSucceeds, ResetRetry
  <2>10. CASE FlushFails
    BY <2>10, TailShorter DEF FlushFails, RecordAttempt, Lesser, PutBack
  <2>11. CASE Stop
    BY <2>11, TailShorter DEF Stop
  <2>12. CASE Receive
    BY <2>12, TailShorter DEF Receive
  <2>13. CASE SinkCloses
    <3>1. Len(channel) \in Nat /\ Len(<<>>) = 0 /\ <<>> \in Seq(Nat)
      OBVIOUS
    <3>2. channel' = <<>> /\ lost' = lost + Len(channel) /\ open' = FALSE
      BY <2>13 DEF SinkCloses
    <3>3. UNCHANGED <<records, retryState, stats, flushVars, delivered, pushed,
                      cancelled>>
      BY <2>13 DEF SinkCloses
    <3>4. channel' \in Seq(Nat) /\ Len(channel') = 0 /\ lost' \in Nat
      BY <3>1, <3>2
    <3>5. TypeOK'
      BY <3>2, <3>3, <3>4
    <3> QED
      BY <3>1, <3>2, <3>3, <3>4, <3>5
  <2>14. CASE SinkOpens
    BY <2>14, TailShorter DEF SinkOpens
  <2>15. CASE Tick
    BY <2>15, TailShorter, SMTT(30) DEF Tick, Older, Lesser
  <2>16. CASE Cancel
    BY <2>16, TailShorter DEF Cancel
  <2> QED
    BY <1>1, <2>1, <2>2, <2>3, <2>4, <2>5, <2>6, <2>7, <2>8, <2>9, <2>10, <2>11,
       <2>12, <2>13, <2>14, <2>15, <2>16 DEF Next, FlushLoop
<1>2. CASE UNCHANGED vars
  BY <1>2 DEF vars
<1> QED
  BY <1>1, <1>2

\* The inductive invariant holds for ever.
LEMMA IInvHolds == Spec => []IInv
<1>1. Init => IInv
  BY InitIInv
<1>2. IInv /\ [Next]_vars => IInv'
  BY NextIInv
<1> QED
  BY <1>1, <1>2, PTL DEF Spec

\* Every variable keeps its type, the saturated ages their range.
THEOREM TypeCorrect == Spec => []TypeOK
<1>1. IInv => TypeOK
  BY DEF IInv
<1> QED
  BY <1>1, IInvHolds, PTL

\* No record is lost without being counted, for any interleaving of pushes,
\* flushes, partial sends and sink failures.
THEOREM NothingUnaccounted == Spec => []Conservation
<1>1. IInv => Conservation
  BY LenHeld DEF IInv, Conservation
<1> QED
  BY <1>1, IInvHolds, PTL

\* The buffer never answers for more than Capacity records, the batch of a
\* flush in progress included.
THEOREM BufferBounded == Spec => []WithinCapacity
<1>1. IInv => WithinCapacity
  BY LenHeld DEF IInv, WithinCapacity
<1> QED
  BY <1>1, IInvHolds, PTL

\* Records never wait without a running deadline, and an empty buffer has none.
THEOREM DeadlineIffHolding == Spec => []ClockRunsIffHolding
<1>1. IInv => ClockRunsIffHolding
  BY LenHeld DEF IInv, ClockRunsIffHolding, Phases
<1> QED
  BY <1>1, IInvHolds, PTL

\* The flush loop never wakes up too early to be allowed to retry.
THEOREM SleepIsLongEnough == Spec => []WakesInTime
<1>1. IInv => WakesInTime
  BY BufferAssumption
     DEF IInv, TypeOK, SleepCoversBackoff, WakesInTime, ShouldRetry, Ages, Never
<1> QED
  BY <1>1, IInvHolds, PTL

-----------------------------------------------------------------------------
(* The abstract queue *)

\* A channel that has been closed stays closed: nothing is rejected as long as
\* it is open, so that the record sent next is the oldest one.
OpenMeansNoneFailed == ~SinkReopens /\ open => failed = <<>>

QueueInv == IInv /\ OpenMeansNoneFailed

LEMMA QueueInvHolds == Spec => []QueueInv
<1>1. Init => OpenMeansNoneFailed
  BY DEF Init, OpenMeansNoneFailed
<1>2. OpenMeansNoneFailed /\ [Next]_vars => OpenMeansNoneFailed'
  BY DEF OpenMeansNoneFailed, Next, vars, FlushLoop, Push, PushExpired, Decide, WakeIdle,
         WakeUnavailable, WakeDrain, SendRecord, SendFails, FlushSucceeds, FlushFails,
         Stop, Receive, SinkCloses, SinkOpens, Tick, Cancel, flushVars, sinkVars
<1> QED
  BY <1>1, <1>2, IInvHolds, PTL DEF QueueInv, Spec

\* The first of two queues one after the other.
LEMMA FrontOfTwo ==
  ASSUME NEW s \in Seq(Nat), NEW t \in Seq(Nat)
  PROVE  SubSeq(s \o t, 1, Len(s)) = s
<1>1. Len(s) \in Nat
  OBVIOUS
<1>2. CASE Len(s) = 0
  <2>1. SubSeq(s \o t, 1, Len(s)) = <<>>
    BY <1>2, SubSeqEmpty
  <2>2. s = <<>>
    BY <1>2
  <2> QED
    BY <2>1, <2>2, Zenon
<1>3. CASE Len(s) # 0
  <2>1. 1 \in 1 .. Len(s) /\ Len(s) \in 1 .. Len(s)
    BY <1>1, <1>3
  <2>2. SubSeq(s \o t, 1, Len(s)) = SubSeq(s, 1, Len(s))
    BY <2>1, SubSeqOfConcat1, Zenon
  <2> QED
    BY <2>2, SubSeqFull, Zenon
<1> QED
  BY <1>2, <1>3

\* The second of two queues one after the other, without its head.
LEMMA TailOfSecond ==
  ASSUME NEW s \in Seq(Nat), NEW t \in Seq(Nat), t # <<>>,
         NEW m, m = Len(s) + 2, NEW n, n = Len(s) + Len(t)
  PROVE  SubSeq(s \o t, m, n) = Tail(t)
<1>1. Len(s) \in Nat /\ Len(t) \in Nat \ {0} /\ m \in Int /\ n \in Int
  BY TailShorter
<1>2. CASE Len(t) = 1
  <2>1. n < m
    BY <1>1, <1>2
  <2>2. SubSeq(s \o t, m, n) = <<>>
    BY <1>1, <2>1, SubSeqEmpty, Zenon
  <2>3. Tail(t) = <<>>
    <3>1. Tail(t) = SubSeq(t, 2, Len(t))
      BY TailIsSubSeq, Zenon
    <3>2. 2 \in Int /\ Len(t) \in Int /\ Len(t) < 2
      BY <1>1, <1>2
    <3>3. SubSeq(t, 2, Len(t)) = <<>>
      BY <3>2, SubSeqEmpty, Zenon
    <3> QED
      BY <3>1, <3>3, Zenon
  <2> QED
    BY <2>2, <2>3, Zenon
<1>3. CASE Len(t) # 1
  <2>1. /\ m \in Len(s) + 1 .. Len(s) + Len(t) /\ n \in Len(s) + 1 .. Len(s) + Len(t)
        /\ m - Len(s) = 2 /\ n - Len(s) = Len(t)
    <3>1. ASSUME NEW a \in Nat, NEW b \in Nat \ {0}, b # 1
          PROVE  /\ a + 2 \in a + 1 .. a + b /\ a + b \in a + 1 .. a + b
                 /\ (a + 2) - a = 2 /\ (a + b) - a = b
      BY <3>1
    <3> QED
      BY <1>1, <1>3, <3>1, Zenon
  <2>2. SubSeq(s \o t, m, n) = SubSeq(t, m - Len(s), n - Len(s))
    BY <2>1, SubSeqOfConcat2
  <2>3. SubSeq(s \o t, m, n) = SubSeq(t, 2, Len(t))
    BY <2>1, <2>2, Zenon
  <2> QED
    BY <2>3, TailIsSubSeq, Zenon
<1> QED
  BY <1>2, <1>3

\* Taking the head of t from the middle of s \o t leaves s \o Tail(t).
LEMMA WithoutHead ==
  ASSUME NEW s \in Seq(Nat), NEW t \in Seq(Nat), t # <<>>
  PROVE  /\ Len(s) + 1 \in 1 .. Len(s \o t)
         /\ (s \o t)[Len(s) + 1] = Head(t)
         /\ Queue!Without(s \o t, Len(s) + 1) = s \o Tail(t)
<1> DEFINE i == Len(s) + 1
<1>1. /\ Len(s) \in Nat /\ Len(t) \in Nat \ {0} /\ Head(t) = t[1]
      /\ Len(s \o t) = Len(s) + Len(t)
  BY TailShorter, ConcatProperties
<1>2. i \in 1 .. Len(s \o t)
  BY <1>1
<1>3. (s \o t)[i] = Head(t)
  BY <1>1
<1>4. i - 1 = Len(s) /\ i + 1 = Len(s) + 2
  BY <1>1
<1>5. SubSeq(s \o t, 1, i - 1) = s
  BY <1>4, FrontOfTwo, Zenon
<1>6. SubSeq(s \o t, i + 1, Len(s \o t)) = Tail(t)
  BY <1>1, <1>4, TailOfSecond, ZenonT(60)
<1> HIDE DEF i
<1>7. Queue!Without(s \o t, i) =
        SubSeq(s \o t, 1, i - 1) \o SubSeq(s \o t, i + 1, Len(s \o t))
  BY DEF Queue!Without
<1>8. Queue!Without(s \o t, i) = s \o Tail(t)
  BY <1>5, <1>6, <1>7, Zenon
<1> QED
  BY <1>2, <1>3, <1>8, Zenon DEF i

\* Three queues one after the other.
LEMMA Reassociate ==
  ASSUME NEW s \in Seq(Nat), NEW t \in Seq(Nat), NEW u \in Seq(Nat)
  PROVE  (s \o t) \o u = s \o (t \o u)
BY SMTT(60)

\* Appending to the last of two queues appends to both together.
LEMMA AppendLast ==
  ASSUME NEW s \in Seq(Nat), NEW t \in Seq(Nat), NEW e \in Nat
  PROVE  s \o Append(t, e) = Append(s \o t, e)
<1>1. <<e>> \in Seq(Nat) /\ s \o t \in Seq(Nat)
  OBVIOUS
<1>2. Append(t, e) = t \o <<e>> /\ Append(s \o t, e) = (s \o t) \o <<e>>
  BY <1>1, AppendIsConcat, Zenon
<1>3. (s \o t) \o <<e>> = s \o (t \o <<e>>)
  BY <1>1, Reassociate, Zenon
<1> QED
  BY <1>2, <1>3

\* Moving a record from the head of one queue to the end of the one before changes
\* nothing in the two together.
LEMMA HeadMoves ==
  ASSUME NEW s \in Seq(Nat), NEW t \in Seq(Nat), t # <<>>
  PROVE  Append(s, Head(t)) \o Tail(t) = s \o t
<1> DEFINE h == <<Head(t)>>
           u == Tail(t)
<1>1. h \in Seq(Nat) /\ u \in Seq(Nat) /\ Head(t) \in Nat
  BY TailShorter
<1>2. Append(s, Head(t)) = s \o h
  BY <1>1, AppendIsConcat, Zenon
<1>3. t = h \o u
  OBVIOUS
<1> HIDE DEF h, u
<1>4. (s \o h) \o u = s \o (h \o u)
  BY <1>1, Reassociate, Zenon
<1> QED
  BY <1>2, <1>3, <1>4, Zenon DEF u

\* A record sent goes from the middle of what is held to the end of what is out.
LEMMA HandedOver ==
  ASSUME QueueInv, SendRecord
  PROVE  Queue!HandOver
<1> DEFINE i == Len(failed) + 1
<1>1. /\ batch # <<>> /\ open /\ records = <<>> /\ loop = "sending"
      /\ channel' = Append(channel, Head(batch)) /\ batch' = Tail(batch)
      /\ records' = records /\ failed' = failed /\ delivered' = delivered
      /\ UNCHANGED <<pushed, lost, evicted, expired>>
  BY DEF SendRecord, QueueInv, IInv, Phases, stats
<1>2. /\ failed \in Seq(Nat) /\ batch \in Seq(Nat) /\ channel \in Seq(Nat)
      /\ delivered \in Seq(Nat) /\ Tail(batch) \in Seq(Nat) /\ Head(batch) \in Nat
  BY <1>1, TailShorter DEF QueueInv, IInv, TypeOK
<1>3. Held = failed \o batch /\ Held' = failed \o Tail(batch)
  <2>1. failed \o batch \in Seq(Nat) /\ failed \o Tail(batch) \in Seq(Nat)
    BY <1>2, ConcatProperties, Zenon
  <2>2. /\ (failed \o batch) \o <<>> = failed \o batch
        /\ (failed \o Tail(batch)) \o <<>> = failed \o Tail(batch)
    BY <2>1, ConcatEmptySeq, Zenon
  <2>3. Held = (failed \o batch) \o records /\ Held' = (failed' \o batch') \o records'
    BY <1>2, ConcatAssociative DEF Held
  <2> QED
    BY <1>1, <2>2, <2>3
<1>4. /\ i \in 1 .. Len(Held) /\ Held[i] = Head(batch)
      /\ Queue!Without(Held, i) = Held'
  BY <1>1, <1>2, <1>3, WithoutHead
<1>5. ~SinkReopens => i = 1
  BY <1>1 DEF QueueInv, OpenMeansNoneFailed
<1>6. (delivered \o channel)' = Append(delivered \o channel, Held[i])
  <2>1. delivered \o Append(channel, Head(batch)) = Append(delivered \o channel, Head(batch))
    BY <1>2, AppendLast
  <2> QED
    BY <1>1, <1>4, <2>1, Zenon
<1> HIDE DEF i
<1> QED
  BY <1>1, <1>4, <1>5, <1>6 DEF Queue!HandOver

\* What is held while no flush is under way is what is in the buffer.
LEMMA HeldAtRest ==
  ASSUME records \in Seq(Nat), batch = <<>>, failed = <<>>
  PROVE  Held = records
<1>1. <<>> \o records = records /\ <<>> \o <<>> = <<>>
  BY ConcatEmptySeq
<1> QED
  BY <1>1, Zenon DEF Held

\* A record taken in is put behind those held, the oldest making room if need be.
LEMMA TakenIn ==
  ASSUME QueueInv, Push
  PROVE  Queue!Accept \/ Queue!AcceptDroppingOldest
<1>1. /\ records \in Seq(Nat) /\ batch = <<>> /\ failed = <<>> /\ pushed \in Nat
      /\ Len(records) <= Capacity /\ Len(records) \in Nat /\ Capacity \in Nat \ {0}
  BY BufferAssumption DEF QueueInv, IInv, TypeOK, Phases, Push, LockFree
<1>2. /\ pushed' = pushed + 1 /\ batch' = batch /\ failed' = failed
      /\ UNCHANGED <<delivered, channel, lost, expired>>
  BY DEF Push, flushVars, sinkVars
<1>3. (delivered \o channel)' = delivered \o channel
  BY <1>2
<1>4. Held = records
  BY <1>1, HeldAtRest
<1>5. CASE Len(records) < Capacity
  <2>1. records' = Append(records, pushed + 1) /\ evicted' = evicted
    BY <1>1, <1>5 DEF Push
  <2>2. records' \in Seq(Nat)
    BY <1>1, <2>1
  <2>3. Held' = Append(Held, pushed + 1)
    <3>1. Held' = records'
      BY <1>1, <1>2, <2>2, ConcatEmptySeq DEF Held
    <3> QED
      BY <1>4, <2>1, <3>1, Zenon
  <2> QED
    BY <1>2, <1>3, <1>4, <1>5, <2>1, <2>3 DEF Queue!Accept
<1>6. CASE Len(records) = Capacity
  <2>1. records' = Append(Tail(records), pushed + 1) /\ evicted' = evicted + 1
    BY <1>1, <1>6 DEF Push
  <2>2. records' \in Seq(Nat)
    <3>1. records # <<>> /\ pushed + 1 \in Nat
      BY <1>1, <1>6
    <3> QED
      BY <1>1, <2>1, <3>1, EvictAndAppend
  <2>3. Held' = Append(Tail(Held), pushed + 1)
    <3>1. Held' = records'
      BY <1>1, <1>2, <2>2, ConcatEmptySeq DEF Held
    <3> QED
      BY <1>4, <2>1, <3>1, Zenon
  <2>4. lost' + evicted' + expired' = lost + evicted + expired + 1
    BY <1>2, <2>1 DEF QueueInv, IInv, TypeOK
  <2> QED
    BY <1>2, <1>3, <1>4, <1>6, <2>3, <2>4 DEF Queue!AcceptDroppingOldest
<1> QED
  BY <1>1, <1>5, <1>6

\* An expired buffer takes nothing in.
LEMMA Refused ==
  ASSUME QueueInv, PushExpired
  PROVE  Queue!Refuse
<1>1. /\ pushed' = pushed + 1 /\ expired' = expired + 1
      /\ UNCHANGED <<records, batch, failed, delivered, channel, lost, evicted>>
  BY DEF PushExpired, flushVars, sinkVars
<1>2. lost' + evicted' + expired' = lost + evicted + expired + 1
  BY <1>1 DEF QueueInv, IInv, TypeOK
<1>3. Held' = Held /\ (delivered \o channel)' = delivered \o channel
  BY <1>1 DEF Held
<1> QED
  BY <1>1, <1>2, <1>3 DEF Queue!Refuse

\* A receiver that goes away takes with it what it had not read.
LEMMA LostInChannel ==
  ASSUME QueueInv, SinkCloses
  PROVE  Queue!ConsumerLoses
<1> DEFINE out == delivered \o channel
           n == Len(delivered)
<1>1. /\ channel' = <<>> /\ lost' = lost + Len(channel)
      /\ UNCHANGED <<records, batch, failed, delivered, pushed, evicted, expired>>
  BY DEF SinkCloses, flushVars, stats
<1>2. /\ delivered \in Seq(Nat) /\ channel \in Seq(Nat)
      /\ lost \in Nat /\ evicted \in Nat /\ expired \in Nat
  BY DEF QueueInv, IInv, TypeOK
<1>3. /\ Len(out) = n + Len(channel) /\ n \in Nat /\ Len(channel) \in Nat
      /\ Len(out) \in Nat
  BY <1>2, ConcatProperties
<1>4. SubSeq(out, 1, n) = delivered
  BY <1>2, FrontOfTwo, Zenon
<1>5. out' = delivered
  BY <1>1, <1>2, ConcatEmptySeq
<1>6. Held' = Held
  BY <1>1 DEF Held
<1> HIDE DEF out, n
<1>7. n \in 0 .. Len(out)
  BY <1>3
<1>8. lost' + evicted' + expired' = lost + evicted + expired + (Len(out) - n)
  BY <1>1, <1>2, <1>3
<1>9. out' = SubSeq(out, 1, n)
  BY <1>4, <1>5, Zenon
<1> QED
  BY <1>1, <1>6, <1>7, <1>8, <1>9 DEF Queue!ConsumerLoses, out

\* A step that moves records within what is held, or within what is out, is none
\* of the abstract queue.
LEMMA Unseen ==
  ASSUME QueueInv,
         \/ Decide \/ WakeIdle \/ WakeUnavailable \/ WakeDrain \/ SendFails
         \/ FlushSucceeds \/ FlushFails \/ Stop \/ Receive \/ SinkOpens
         \/ Tick \/ Cancel \/ UNCHANGED vars
  PROVE  UNCHANGED Queue!qvars
<1> USE DEF flushVars, sinkVars, stats
<1>1. /\ records \in Seq(Nat) /\ batch \in Seq(Nat) /\ failed \in Seq(Nat)
      /\ channel \in Seq(Nat) /\ delivered \in Seq(Nat)
  BY DEF QueueInv, IInv, TypeOK
<1>2. UNCHANGED <<pushed, lost, evicted, expired>>
  BY DEF Decide, WakeIdle, WakeUnavailable, WakeDrain, SendFails, FlushSucceeds,
         FlushFails, Stop, Receive, SinkOpens, Tick, Cancel, vars
<1>3. Held' = Held
  <2>1. CASE WakeDrain
    <3>1. batch' = records /\ records' = <<>> /\ failed' = <<>> /\ batch = <<>>
          /\ failed = <<>>
      BY <2>1 DEF WakeDrain, QueueInv, IInv, Phases
    <3>2. Held = records
      BY <1>1, <3>1, HeldAtRest
    <3>3. Held' = records
      BY <1>1, <3>1, ConcatEmptySeq DEF Held
    <3> QED
      BY <3>2, <3>3, Zenon
  <2>2. CASE SendFails
    <3>1. /\ batch # <<>> /\ records = <<>> /\ records' = <<>>
          /\ failed' = Append(failed, Head(batch)) /\ batch' = Tail(batch)
      BY <2>2 DEF SendFails, QueueInv, IInv, Phases
    <3>2. failed' \o batch' = failed \o batch
      BY <1>1, <3>1, HeadMoves
    <3> QED
      BY <3>1, <3>2 DEF Held
  <2>3. CASE FlushFails
    <3>1. /\ batch = <<>> /\ records = <<>> /\ batch' = <<>> /\ failed' = <<>>
          /\ records' = failed \o records
      BY <2>3 DEF FlushFails, PutBack, QueueInv, IInv, Phases
    <3>2. failed \o <<>> = failed /\ <<>> \o failed = failed /\ <<>> \o <<>> = <<>>
      BY <1>1, ConcatEmptySeq
    <3>3. Held = failed /\ Held' = failed
      BY <3>1, <3>2 DEF Held
    <3> QED
      BY <3>3, Zenon
  <2>4. CASE ~WakeDrain /\ ~SendFails /\ ~FlushFails
    <3>1. UNCHANGED <<records, batch, failed>>
      BY <2>4 DEF Decide, WakeIdle, WakeUnavailable, FlushSucceeds, Stop, Receive,
                  SinkOpens, Tick, Cancel, vars
    <3> QED
      BY <3>1 DEF Held
  <2> QED
    BY <2>1, <2>2, <2>3, <2>4
<1>4. (delivered \o channel)' = delivered \o channel
  <2>1. CASE Receive
    <3>1. /\ channel # <<>> /\ delivered' = Append(delivered, Head(channel))
          /\ channel' = Tail(channel)
      BY <2>1 DEF Receive
    <3> QED
      BY <1>1, <3>1, HeadMoves
  <2>2. CASE ~Receive
    <3>1. UNCHANGED <<delivered, channel>>
      BY <2>2 DEF Decide, WakeIdle, WakeUnavailable, WakeDrain, SendFails,
                  FlushSucceeds, FlushFails, Stop, SinkOpens, Tick, Cancel, vars
    <3> QED
      BY <3>1
  <2> QED
    BY <2>1, <2>2
<1> QED
  BY <1>2, <1>3, <1>4 DEF Queue!qvars

\* Every behaviour of the buffer with its flush loop and its sink is one of the
\* bounded lossy queue: what is delivered comes out once, of what was pushed, and,
\* if the sink is a channel, in the order in which it was pushed.
THEOREM QueueIsImplemented == Spec => RefinesLossyQueue
<1>1. Init => Queue!Init
  <2> SUFFICES ASSUME Init PROVE Queue!Init
    OBVIOUS
  <2>1. <<>> \o <<>> = <<>>
    BY ConcatEmptySeq
  <2> QED
    BY <2>1 DEF Init, Queue!Init, Held
<1>2. QueueInv /\ [Next]_vars => [Queue!Next]_Queue!qvars
  BY TakenIn, Refused, HandedOver, LostInChannel, Unseen
     DEF Next, FlushLoop, Queue!Next
<1> QED
  BY <1>1, <1>2, QueueInvHolds, PTL DEF Spec, RefinesLossyQueue, Queue!Spec

=============================================================================
