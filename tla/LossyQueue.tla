----------------------------- MODULE LossyQueue -----------------------------
(***************************************************************************)
(* What a bounded, lossy forwarding buffer promises: records 1, 2, 3, ...  *)
(* are produced in order; the buffer holds at most Capacity of them; a     *)
(* record leaves by being handed over exactly once, or by being dropped as *)
(* the oldest one when the buffer is full, or was never taken in at all.   *)
(* When InOrder, records are handed over in the order they came.           *)
(***************************************************************************)
EXTENDS Naturals, Sequences

CONSTANTS Capacity, InOrder

VARIABLES
  produced,  \* how many records have been produced
  queue,     \* the records the buffer is responsible for
  out,       \* the records handed over and still known to the consumer
  dropped    \* how many records are gone: evicted, refused or lost downstream

qvars == <<produced, queue, out, dropped>>

Without(s, i) == SubSeq(s, 1, i - 1) \o SubSeq(s, i + 1, Len(s))

Init ==
  /\ produced = 0
  /\ queue = <<>>
  /\ out = <<>>
  /\ dropped = 0

Accept ==
  /\ Len(queue) < Capacity
  /\ produced' = produced + 1
  /\ queue' = Append(queue, produced + 1)
  /\ UNCHANGED <<out, dropped>>

AcceptDroppingOldest ==
  /\ Len(queue) = Capacity
  /\ produced' = produced + 1
  /\ queue' = Append(Tail(queue), produced + 1)
  /\ dropped' = dropped + 1
  /\ UNCHANGED out

Refuse ==
  /\ produced' = produced + 1
  /\ dropped' = dropped + 1
  /\ UNCHANGED <<queue, out>>

HandOver ==
  \E i \in 1 .. Len(queue) :
    /\ InOrder => i = 1
    /\ out' = Append(out, queue[i])
    /\ queue' = Without(queue, i)
    /\ UNCHANGED <<produced, dropped>>

\* The consumer goes away with a suffix of what it was handed.
ConsumerLoses ==
  \E n \in 0 .. Len(out) :
    /\ out' = SubSeq(out, 1, n)
    /\ dropped' = dropped + (Len(out) - n)
    /\ UNCHANGED <<produced, queue>>

Next ==
  \/ Accept \/ AcceptDroppingOldest \/ Refuse \/ HandOver \/ ConsumerLoses

Spec == Init /\ [][Next]_qvars

=============================================================================
