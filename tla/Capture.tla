------------------------------ MODULE Capture ------------------------------
(***************************************************************************)
(* The collector's kernel program on several CPUs, its BPF maps            *)
(* (tlapix-ebpf/src/main.rs, maps.rs), the ring buffer, and the reader in  *)
(* user space (tlapix-collector/src/ring_buffer.rs).                       *)
(*                                                                         *)
(* A CPU runs the program to its end before it takes the next packet, but  *)
(* each access to a map is a step: the others run at the same time.  The   *)
(* pseudo-fingerprint of a certificate stands for the certificate.  What   *)
(* happens to an event after the reader is in Collector.                   *)
(***************************************************************************)
EXTENDS Handshake

CONSTANTS
  CPUs,
  Fingerprints, \* pseudo-fingerprints: they stand for the certificates
  Packets,      \* bound: the packets that arrive
  MaxPackets,   \* bound: how many packets arrive
  MaxSeen,      \* capacity of SEEN_CERTS and of CERT_STATS
  RingSize      \* events that fit into the ring buffer

ASSUME CaptureAssumption ==
  /\ IsFiniteSet(CPUs) /\ IsFiniteSet(Fingerprints)
  /\ "none" \notin Fingerprints
  /\ Packets \subseteq Packet
  /\ MaxPackets \in Nat /\ MaxSeen \in Nat \ {0} /\ RingSize \in Nat \ {0}

VARIABLES
  arrived,    \* packets so far, which is also the clock of bpf_ktime_get_ns
  cpu,        \* each CPU: where its program stands, with its locals
  seen,       \* SEEN_CERTS: the time stamp of a certificate, 0 without an entry
  stats,      \* CERT_STATS of each CPU
  counted,    \* the keys of CERT_STATS
  drops,      \* DROP_COUNTER of each CPU
  ring,       \* reserved records, in order, and whether they are submitted
  reader,     \* the event the reader holds, if any
  readerStats,
  observed,   \* history: how often is_new_cert has run for a certificate
  news        \* history: how often it said new, by CPU

maps == <<seen, stats, counted, drops>>
user == <<reader, readerStats>>
captureVars == <<arrived, cpu, maps, ring, user, observed, news>>

NoEvent == [certLen |-> 0, depth |-> 0, issuer |-> 0, der |-> 0]
Local == [pc |-> "idle", cert |-> "none", at |-> 0, new |-> 0, event |-> NoEvent]

Increment(c, counter) == [drops EXCEPT ![c][counter] = @ + 1]

-----------------------------------------------------------------------------
(* parse_tls_handshake *)

\* Counters of a packet that is malformed or only a TLS record.
CountPacket(c, p) ==
  drops' = [drops EXCEPT
              ![c].malformed = @ + (IF MalformedPacket(p) THEN 1 ELSE 0),
              ![c].total = @ + (IF IsTls(p) THEN 1 ELSE 0)]

\* A packet up to the time stamp; most end here.
Arrive(c, p, d) ==
  /\ cpu[c].pc = "idle" /\ arrived < MaxPackets
  /\ arrived' = arrived + 1
  /\ CountPacket(c, p)
  /\ cpu' = [cpu EXCEPT ![c] =
               IF Captured(p)
                 THEN [pc |-> "lookup", cert |-> d, at |-> arrived + 1, new |-> 0,
                       event |-> Event(p)]
                 ELSE Local]
  /\ UNCHANGED <<seen, stats, counted, ring, user, observed, news>>

GoesTo(c, pc) == cpu' = [cpu EXCEPT ![c].pc = pc]
Told(c, new) ==
  /\ observed' = [observed EXCEPT ![cpu[c].cert] = @ + 1]
  /\ news' = [news EXCEPT ![c][cpu[c].cert] = @ + new]
  /\ cpu' = [cpu EXCEPT ![c].pc = "reserve", ![c].new = new]

\* is_new_cert: SEEN_CERTS.get.
LookUp(c) ==
  /\ cpu[c].pc = "lookup"
  /\ GoesTo(c, IF seen[cpu[c].cert] # 0 THEN "update" ELSE "insert")
  /\ UNCHANGED <<arrived, maps, ring, user, observed, news>>

\* Mutant: a key that is not there yet is set up, and its first sighting lost.
Counted_FromZero(c, d) ==
  IF d \in counted THEN stats[c][d] + 1 ELSE 0

\* The count after update_cert_stats.
Counted(c, d) ==
  IF d \in counted THEN stats[c][d] + 1 ELSE 1

\* External: an insertion into a full hash map fails, which the program ignores.
\* A new key of a per-CPU map has 0 on the other CPUs.
StatsInsert(c, d, n) ==
  IF d \in counted \/ Cardinality(counted) < MaxSeen
    THEN /\ stats' = [stats EXCEPT ![c][d] = n]
         /\ counted' = counted \cup {d}
    ELSE UNCHANGED <<stats, counted>>

UpdateCertStats(c) ==
  /\ cpu[c].pc = "update"
  /\ StatsInsert(c, cpu[c].cert, Counted(c, cpu[c].cert))
  /\ Told(c, 0)
  /\ UNCHANGED <<arrived, seen, drops, ring, user>>

Known == {d \in Fingerprints : seen[d] # 0}

\* Mutant: one entry too few.
Room_OffByOne == Cardinality(Known) + 1 < MaxSeen

Room == Cardinality(Known) < MaxSeen

\* SEEN_CERTS.insert, over whatever another CPU has put there since.
InsertSeen(c) ==
  /\ cpu[c].pc = "insert"
  /\ seen' = IF cpu[c].cert \in Known \/ Room
               THEN [seen EXCEPT ![cpu[c].cert] = cpu[c].at] ELSE seen
  /\ GoesTo(c, "init")
  /\ UNCHANGED <<arrived, stats, counted, drops, ring, user, observed, news>>

InsertStats(c) ==
  /\ cpu[c].pc = "init"
  /\ StatsInsert(c, cpu[c].cert, 1)
  /\ Told(c, 1)
  /\ UNCHANGED <<arrived, seen, drops, ring, user>>

-----------------------------------------------------------------------------
(* The ring buffer *)

\* EVENTS.reserve.
Reserve(c) ==
  /\ cpu[c].pc = "reserve" /\ Len(ring) < RingSize
  /\ ring' = Append(ring, [cpu |-> c, at |-> cpu[c].at, new |-> cpu[c].new,
                           event |-> cpu[c].event, submitted |-> FALSE])
  /\ GoesTo(c, "submit")
  /\ UNCHANGED <<arrived, maps, user, observed, news>>

\* Mutant: the event is gone and nothing is counted.
DropCounted_Silent(c) == UNCHANGED drops

DropCounted(c) == drops' = Increment(c, "full")

\* No room: the event is dropped, its certificate remains in SEEN_CERTS.
RingFull(c) ==
  /\ cpu[c].pc = "reserve" /\ Len(ring) = RingSize
  /\ DropCounted(c)
  /\ cpu' = [cpu EXCEPT ![c] = Local]
  /\ UNCHANGED <<arrived, seen, stats, counted, ring, user, observed, news>>

\* The event is filled in and handed over.
Submit(c) ==
  /\ cpu[c].pc = "submit"
  /\ \E i \in DOMAIN ring :
       /\ ring[i].cpu = c /\ ~ring[i].submitted
       /\ ring' = [ring EXCEPT ![i].submitted = TRUE]
  /\ cpu' = [cpu EXCEPT ![c] = Local]
  /\ UNCHANGED <<arrived, maps, user, observed, news>>

-----------------------------------------------------------------------------
(* RingBufferReader *)

\* next_event; a record that is reserved and not submitted hides those behind it.
ReaderTakes ==
  /\ reader = <<>> /\ ring # <<>> /\ Head(ring).submitted
  /\ ring' = Tail(ring)
  /\ reader' = <<Head(ring)>>
  /\ readerStats' = [readerStats EXCEPT !.received = @ + 1]
  /\ UNCHANGED <<arrived, cpu, maps, observed, news>>

\* handle_event, as far as the counters go: an event is processed whether or
\* not its receiver is still there, and a malformed one is skipped.
ReaderHandles ==
  /\ reader # <<>>
  /\ LET outcome == ProcessEvent(reader[1].event)
     IN  readerStats' =
           [readerStats EXCEPT
              !.processed = @ + (IF outcome # "malformed" THEN 1 ELSE 0),
              !.malformed = @ + (IF outcome = "malformed" THEN 1 ELSE 0),
              !.truncated = @ + (IF outcome # "malformed"
                                     /\ IsTruncated(reader[1].event) THEN 1 ELSE 0)]
  /\ reader' = <<>>
  /\ UNCHANGED <<arrived, cpu, maps, ring, observed, news>>

-----------------------------------------------------------------------------
CaptureInit ==
  /\ arrived = 0
  /\ cpu = [c \in CPUs |-> Local]
  /\ seen = [d \in Fingerprints |-> 0]
  /\ stats = [c \in CPUs |-> [d \in Fingerprints |-> 0]]
  /\ counted = {}
  /\ drops = [c \in CPUs |-> [full |-> 0, malformed |-> 0, total |-> 0]]
  /\ ring = <<>> /\ reader = <<>>
  /\ readerStats = [received |-> 0, processed |-> 0, malformed |-> 0, truncated |-> 0]
  /\ observed = [d \in Fingerprints |-> 0]
  /\ news = [c \in CPUs |-> [d \in Fingerprints |-> 0]]

Program(c) ==
  \/ LookUp(c) \/ UpdateCertStats(c) \/ InsertSeen(c) \/ InsertStats(c)
  \/ Reserve(c) \/ RingFull(c) \/ Submit(c)

CaptureNext ==
  \/ \E c \in CPUs, p \in Packets, d \in Fingerprints : Arrive(c, p, d)
  \/ \E c \in CPUs : Program(c)
  \/ ReaderTakes \/ ReaderHandles

CaptureSpec == CaptureInit /\ [][CaptureNext]_captureVars

-----------------------------------------------------------------------------
(* Correctness *)

\* The certificates that have shown up still fit into the maps.
Shown == {d \in Fingerprints : observed[d] > 0 \/ \E c \in CPUs : cpu[c].cert = d}
Fits == Cardinality(Shown) <= MaxSeen

\* As long as the maps have room, the counts of all CPUs together are the number
\* of connections observed with the certificate (maps.rs, CERT_STATS), although
\* two CPUs may both find it new and both start at 1.
ConnectionsCounted ==
  Fits =>
    \A d \in Fingerprints : SumFunction([c \in CPUs |-> stats[c][d]]) = observed[d]

\* A CPU calls a certificate new at most once, and one that has been observed
\* was called new by some CPU (maps.rs, is_new_cert): the race can announce it
\* once per CPU, never again, and never lose the announcement.
NewOncePerCpu ==
  Fits =>
    \A d \in Fingerprints :
      /\ \A c \in CPUs : news[c][d] <= 1
      /\ observed[d] > 0 =>
           \/ \E c \in CPUs : news[c][d] = 1
           \/ \E c \in CPUs : cpu[c].pc = "init" /\ cpu[c].cert = d

\* Every certificate observed is an event in the ring, one the reader has, or a
\* drop that is counted; and every event the reader has taken is counted once.
EventsAccounted ==
  /\ SumFunction(observed) =
       SumFunction([c \in CPUs |-> drops[c].full]) + Len(ring) + readerStats.received
       + Cardinality({c \in CPUs : cpu[c].pc = "reserve"})
  /\ readerStats.received =
       readerStats.processed + readerStats.malformed + Len(reader)
=============================================================================
