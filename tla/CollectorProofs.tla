-------------------------- MODULE CollectorProofs --------------------------
(***************************************************************************)
(* What holds of the collector's pipeline for any certificates, any        *)
(* capacities and any number of crashes and storage errors.                *)
(*                                                                         *)
(* The cache is a sequence without repetitions (CacheInv).  Of what is not *)
(* forgotten, the cache holds all that is stored, so that a certificate    *)
(* that is not cached is new; it is stored before it is forwarded, and is  *)
(* found again after a crash (NewInv).                                     *)
(***************************************************************************)
EXTENDS Collector, FiniteSetTheorems, SequenceTheorems, TLAPS

-----------------------------------------------------------------------------
(* Type correctness *)

Events == [cert : Certs, at : 1 .. MaxTime]

Engines == [pc : {"load", "recv", "touch", "persist", "send", "stopped"},
            event : Events \cup {NoEvent}]

DataTyped ==
  /\ now \in 1 .. MaxTime
  /\ reader \in [pc : {"recv", "send", "stopped"}, event : Events \cup {NoEvent}]
  /\ reader.pc = "send" => reader.event \in Events
  /\ input \in Seq(Events)
  /\ engine \in Engines
  /\ engine.pc \in {"touch", "persist", "send"} => engine.event \in Events
  /\ cache \in Seq(Certs)
  /\ lastSeen \in [Certs -> 0 .. MaxTime]
  /\ output \in Seq(Certs)
  /\ forwarded \in [Certs -> 0 .. 2]
  /\ forgotten \subseteq Certs
  /\ crashes \in 0 .. MaxCrashes /\ failures \in 0 .. MaxFailures

FlagsTyped == analyzer \in BOOLEAN /\ cancelled \in BOOLEAN /\ cleaning \in BOOLEAN

TypeOK == DataTyped /\ FlagsTyped

Distinct(s) == \A i, j \in 1 .. Len(s) : s[i] = s[j] => i = j

CacheInv == Distinct(cache) /\ Len(cache) <= Capacity

NewInv ==
  /\ CachedIsStored
  /\ \A c \in Certs :
       /\ forwarded[c] <= 1 \/ c \in forgotten
       /\ forwarded[c] # 0 => c \in Stored \cup forgotten
       /\ c \in Stored => c \in Range(cache) \cup forgotten \/ engine.pc = "load"
  /\ engine.pc = "load" => cache = <<>>
  /\ engine.pc \in {"persist", "send"} =>
       /\ engine.event.cert \in Range(cache)
       /\ forwarded[engine.event.cert] = 0 \/ engine.event.cert \in forgotten
  /\ engine.pc = "send" => engine.event.cert \in Stored \cup forgotten

-----------------------------------------------------------------------------
(* The cache *)

LEMMA Bounds ==
  /\ Capacity \in Nat \ {0} /\ InCapacity \in Nat \ {0} /\ OutCapacity \in Nat \ {0}
  /\ MaxTime \in Nat \ {0} /\ MaxCrashes \in Nat /\ MaxFailures \in Nat
  /\ IsFiniteSet(Certs)
BY CollectorAssumption

LEMMA RangeOf ==
  ASSUME NEW S, NEW s \in Seq(S)
  PROVE  /\ Len(s) \in Nat /\ DOMAIN s = 1 .. Len(s)
         /\ \A i \in 1 .. Len(s) : s[i] \in S /\ s[i] \in Range(s)
         /\ Range(s) \subseteq S
         /\ \A x \in Range(s) : \E i \in 1 .. Len(s) : s[i] = x
BY DEF Range

\* An entry is taken out of the middle.
LEMMA RemoveEffect ==
  ASSUME NEW s \in Seq(Certs), Distinct(s), NEW k \in 1 .. Len(s)
  PROVE  /\ RemoveAt(s, k) \in Seq(Certs) /\ Distinct(RemoveAt(s, k))
         /\ Len(RemoveAt(s, k)) = Len(s) - 1
         /\ Range(RemoveAt(s, k)) = Range(s) \ {s[k]}
<1> DEFINE left == SubSeq(s, 1, k - 1)
           right == SubSeq(s, k + 1, Len(s))
           t == RemoveAt(s, k)
<1>0. Len(s) \in Nat /\ k \in Nat /\ \A i \in 1 .. Len(s) : s[i] \in Certs
  BY RangeOf
<1>1. /\ left \in Seq(Certs) /\ Len(left) = k - 1
      /\ \A i \in 1 .. k - 1 : left[i] = s[i]
  BY <1>0, SubSeqProperties
<1>2. /\ right \in Seq(Certs) /\ Len(right) = Len(s) - k
      /\ \A i \in 1 .. Len(s) - k : right[i] = s[k + i]
  <2>1. /\ k + 1 \in Int /\ Len(s) \in Int
        /\ \A i \in k + 1 .. Len(s) : s[i] \in Certs
    BY <1>0
  <2>2. /\ right \in Seq(Certs)
        /\ Len(right) = IF k + 1 <= Len(s) THEN Len(s) - (k + 1) + 1 ELSE 0
        /\ \A i \in 1 .. Len(s) - (k + 1) + 1 : right[i] = s[(k + 1) + i - 1]
    BY <2>1, SubSeqProperties
  <2> QED
    BY <1>0, <2>2
<1>3. t = left \o right
  BY DEF RemoveAt
<1> HIDE DEF left, right, t
<1>4. /\ t \in Seq(Certs) /\ Len(t) = Len(s) - 1
      /\ \A i \in 1 .. Len(s) - 1 : t[i] = IF i < k THEN s[i] ELSE s[i + 1]
  <2>1. /\ t \in Seq(Certs) /\ Len(t) = Len(left) + Len(right)
        /\ \A i \in 1 .. Len(left) + Len(right) :
             t[i] = IF i <= Len(left) THEN left[i] ELSE right[i - Len(left)]
    BY <1>1, <1>2, <1>3, ConcatProperties
  <2>2. ASSUME NEW i \in 1 .. Len(s) - 1 PROVE t[i] = IF i < k THEN s[i] ELSE s[i + 1]
    <3>1. CASE i < k
      <4>1. i \in 1 .. k - 1 /\ i \in 1 .. Len(left) + Len(right) /\ i <= Len(left)
        BY <1>0, <1>1, <1>2, <3>1
      <4> QED
        BY <1>1, <2>1, <3>1, <4>1
    <3>2. CASE ~(i < k)
      <4>1. /\ i \in 1 .. Len(left) + Len(right) /\ ~(i <= Len(left))
            /\ i - Len(left) \in 1 .. Len(s) - k /\ k + (i - Len(left)) = i + 1
        BY <1>0, <1>1, <1>2, <3>2
      <4> QED
        BY <1>2, <2>1, <3>2, <4>1
    <3> QED
      BY <3>1, <3>2
  <2> QED
    BY <1>0, <1>1, <1>2, <2>1, <2>2
<1>5. Distinct(t)
  BY <1>0, <1>4 DEF Distinct
<1>6. Range(t) = Range(s) \ {s[k]}
  <2>1. /\ DOMAIN t = 1 .. Len(s) - 1 /\ DOMAIN s = 1 .. Len(s)
    BY <1>4, RangeOf
  <2>2. ASSUME NEW x \in Range(t) PROVE x \in Range(s) \ {s[k]}
    <3>1. PICK i \in 1 .. Len(s) - 1 : t[i] = x
      BY <2>1 DEF Range
    <3> QED
      BY <1>0, <1>4, <2>1, <3>1, SMTT(30) DEF Range, Distinct
  <2>3. ASSUME NEW x \in Range(s) \ {s[k]} PROVE x \in Range(t)
    <3>1. PICK i \in 1 .. Len(s) : s[i] = x /\ i # k
      BY <2>1 DEF Range
    <3>2. CASE i < k
      BY <1>0, <1>4, <2>1, <3>1, <3>2 DEF Range
    <3>3. CASE i > k
      <4>1. i - 1 \in 1 .. Len(s) - 1 /\ t[i - 1] = x
        BY <1>0, <1>4, <3>1, <3>3
      <4> QED
        BY <2>1, <4>1 DEF Range
    <3> QED
      BY <1>0, <3>1, <3>2, <3>3
  <2> QED
    BY <2>2, <2>3
<1> QED
  BY <1>4, <1>5, <1>6 DEF t

\* The first entries of a sequence.
LEMMA PrefixEffect ==
  ASSUME NEW s \in Seq(Certs), Distinct(s), NEW n \in 0 .. Len(s)
  PROVE  /\ SubSeq(s, 1, n) \in Seq(Certs) /\ Distinct(SubSeq(s, 1, n))
         /\ Len(SubSeq(s, 1, n)) = n
         /\ Range(SubSeq(s, 1, n)) \subseteq Range(s)
<1> DEFINE t == SubSeq(s, 1, n)
<1>0. Len(s) \in Nat /\ n \in Nat /\ \A i \in 1 .. Len(s) : s[i] \in Certs
  BY RangeOf
<1>1. t \in Seq(Certs) /\ Len(t) = n /\ \A i \in 1 .. n : t[i] = s[i]
  BY <1>0, SubSeqProperties
<1> HIDE DEF t
<1>2. Distinct(t) /\ Range(t) \subseteq Range(s)
  <2>1. DOMAIN t = 1 .. n /\ DOMAIN s = 1 .. Len(s)
    BY <1>1, RangeOf
  <2> QED
    BY <1>0, <1>1, <2>1 DEF Distinct, Range
<1> QED
  BY <1>1, <1>2 DEF t

LEMMA ConsEffect ==
  ASSUME NEW s \in Seq(Certs), Distinct(s), NEW c \in Certs, c \notin Range(s)
  PROVE  /\ <<c>> \o s \in Seq(Certs) /\ Distinct(<<c>> \o s)
         /\ Len(<<c>> \o s) = Len(s) + 1
         /\ Range(<<c>> \o s) = Range(s) \cup {c}
<1> DEFINE t == <<c>> \o s
<1>0. Len(s) \in Nat /\ DOMAIN s = 1 .. Len(s) /\ \A i \in 1 .. Len(s) : s[i] \in Range(s)
  BY RangeOf
<1>1. /\ t \in Seq(Certs) /\ Len(t) = Len(s) + 1 /\ t[1] = c
      /\ \A i \in 2 .. Len(s) + 1 : t[i] = s[i - 1]
  <2>1. <<c>> \in Seq(Certs) /\ Len(<<c>>) = 1 /\ <<c>>[1] = c
    OBVIOUS
  <2>2. /\ t \in Seq(Certs) /\ Len(t) = 1 + Len(s)
        /\ \A i \in 1 .. 1 + Len(s) : t[i] = IF i <= 1 THEN <<c>>[i] ELSE s[i - 1]
    BY <2>1, ConcatProperties
  <2> QED
    BY <1>0, <2>1, <2>2
<1> HIDE DEF t
<1>2. Distinct(t)
  <2> SUFFICES ASSUME NEW i \in 1 .. Len(t), NEW j \in 1 .. Len(t), t[i] = t[j]
               PROVE  i = j
    BY DEF Distinct
  <2>1. \A k \in 2 .. Len(t) : k - 1 \in 1 .. Len(s) /\ t[k] = s[k - 1] /\ t[k] \in Range(s)
    BY <1>0, <1>1
  <2>2. CASE i = 1 \/ j = 1
    BY <1>0, <1>1, <2>1, <2>2
  <2>3. CASE i # 1 /\ j # 1
    <3>1. i \in 2 .. Len(t) /\ j \in 2 .. Len(t)
      BY <1>0, <1>1, <2>3
    <3>2. s[i - 1] = s[j - 1]
      BY <2>1, <3>1
    <3> QED
      BY <1>0, <2>1, <3>1, <3>2 DEF Distinct
  <2> QED
    BY <2>2, <2>3
<1>3. Range(t) = Range(s) \cup {c}
  <2>1. DOMAIN t = 1 .. Len(s) + 1
    BY <1>1, RangeOf
  <2>2. ASSUME NEW i \in 1 .. Len(s) PROVE t[i + 1] = s[i] /\ i + 1 \in 1 .. Len(s) + 1
    BY <1>0, <1>1
  <2>3. ASSUME NEW i \in 2 .. Len(s) + 1 PROVE t[i] = s[i - 1] /\ i - 1 \in 1 .. Len(s)
    BY <1>0, <1>1
  <2>4. \A i \in 1 .. Len(s) + 1 : i = 1 \/ i \in 2 .. Len(s) + 1
    BY <1>0
  <2>5. 1 \in 1 .. Len(s) + 1
    BY <1>0
  <2>6. ASSUME NEW x \in Range(t) PROVE x \in Range(s) \cup {c}
    <3>1. PICK i \in 1 .. Len(s) + 1 : t[i] = x
      BY <2>1 DEF Range
    <3> QED
      BY <1>0, <1>1, <2>3, <2>4, <3>1
  <2>7. ASSUME NEW i \in 1 .. Len(s) PROVE s[i] \in Range(t)
    BY <2>1, <2>2 DEF Range
  <2>8. c \in Range(t)
    BY <1>1, <2>1, <2>5 DEF Range
  <2>9. \A x \in Range(s) : \E i \in 1 .. Len(s) : s[i] = x
    BY RangeOf
  <2> QED
    BY <2>6, <2>7, <2>8, <2>9
<1> QED
  BY <1>1, <1>2, <1>3 DEF t

\* What LruCache::put does.
LEMMA PutEffect ==
  ASSUME NEW s \in Seq(Certs), Distinct(s), Len(s) <= Capacity, NEW c \in Certs
  PROVE  /\ Put(s, c) \in Seq(Certs) /\ Distinct(Put(s, c)) /\ Len(Put(s, c)) <= Capacity
         /\ Range(Put(s, c)) \subseteq Range(s) \cup {c}
         /\ c \in Range(Put(s, c))
<1>0. Len(s) \in Nat /\ DOMAIN s = 1 .. Len(s) /\ Capacity \in Nat \ {0}
  BY RangeOf, Bounds
<1>1. CASE c \in Range(s)
  <2> DEFINE k == CHOOSE i \in DOMAIN s : s[i] = c
             t == RemoveAt(s, k)
  <2>1. k \in 1 .. Len(s) /\ s[k] = c
    BY <1>0, <1>1 DEF Range
  <2> HIDE DEF k
  <2>2. /\ t \in Seq(Certs) /\ Distinct(t) /\ Len(t) = Len(s) - 1
        /\ Range(t) = Range(s) \ {c}
    BY <2>1, RemoveEffect
  <2>3. Put(s, c) = <<c>> \o t
    BY <1>1 DEF Put, k
  <2> HIDE DEF t
  <2>4. /\ <<c>> \o t \in Seq(Certs) /\ Distinct(<<c>> \o t)
        /\ Len(<<c>> \o t) = Len(t) + 1
        /\ Range(<<c>> \o t) = Range(t) \cup {c}
    BY <2>2, ConsEffect
  <2> QED
    BY <1>0, <1>1, <2>2, <2>3, <2>4
<1>2. CASE c \notin Range(s)
  <2> DEFINE n == IF Len(s) < Capacity THEN Len(s) ELSE Capacity - 1
             t == SubSeq(s, 1, n)
  <2>1. n \in 0 .. Len(s) /\ n + 1 <= Capacity
    BY <1>0
  <2>2. Put(s, c) = <<c>> \o t
    BY <1>2 DEF Put
  <2> HIDE DEF n
  <2>3. /\ t \in Seq(Certs) /\ Distinct(t) /\ Len(t) = n /\ Range(t) \subseteq Range(s)
    BY <2>1, PrefixEffect
  <2> HIDE DEF t
  <2>4. c \notin Range(t)
    BY <1>2, <2>3
  <2>5. /\ <<c>> \o t \in Seq(Certs) /\ Distinct(<<c>> \o t)
        /\ Len(<<c>> \o t) = Len(t) + 1
        /\ Range(<<c>> \o t) = Range(t) \cup {c}
    BY <2>3, <2>4, ConsEffect
  <2> QED
    BY <1>2, <2>1, <2>2, <2>3, <2>5
<1> QED
  BY <1>1, <1>2

LEMMA StoredFinite ==
  /\ IsFiniteSet(Stored) /\ Cardinality(Stored) \in Nat /\ Stored \subseteq Certs
<1>1. Stored \in SUBSET Certs
  BY DEF Stored
<1> QED
  BY <1>1, Bounds, FS_Subset, FS_CardinalityType

\* What reload_from_storage finds: distinct certificates that have a row.
LEMMA ReloadEffect ==
  ASSUME NEW s \in Reloaded
  PROVE  /\ s \in Seq(Certs) /\ Distinct(s) /\ Len(s) <= Capacity
         /\ Range(s) \subseteq Stored
<1> DEFINE n == Cardinality(Stored)
<1>0. n \in Nat /\ Capacity \in Nat \ {0} /\ Stored \subseteq Certs
  BY StoredFinite, Bounds
<1>1. PICK o \in SetToSeqs(Stored) :
        s = SubSeq(o, 1, IF Len(o) > Capacity THEN Capacity ELSE Len(o))
  BY DEF Reloaded
<1>2. o \in [1 .. n -> Stored] /\ \A i, j \in 1 .. n : i # j => o[i] # o[j]
  BY DEF SetToSeqs
<1> HIDE DEF n
<1>3. o \in Seq(Certs) /\ Len(o) = n /\ Distinct(o)
  BY <1>0, <1>2 DEF Distinct
<1>4. Range(o) \subseteq Stored
  BY <1>2 DEF Range
<1> DEFINE m == IF Len(o) > Capacity THEN Capacity ELSE Len(o)
<1>5. m \in 0 .. Len(o) /\ m <= Capacity
  BY <1>0, <1>3
<1>6. s = SubSeq(o, 1, m)
  BY <1>1
<1> HIDE DEF m
<1> QED
  BY <1>3, <1>4, <1>5, <1>6, PrefixEffect

-----------------------------------------------------------------------------
(* Types of the steps *)

LEMMA EventTypes ==
  ASSUME DataTyped
  PROVE  /\ \A c \in Certs : ProcessEvent(c) \in Events /\ ProcessEvent(c).cert = c
         /\ \A event \in Events : [event EXCEPT !.at = now] \in Events
                                 /\ [event EXCEPT !.at = now].cert = event.cert
         /\ Receiving.pc = "recv" /\ Stopped.pc = "stopped"
         /\ Loading \in Engines /\ Loading.pc = "load"
BY DEF DataTyped, ProcessEvent, Events, Receiving, Stopped, Loading, Engines

\* Where handle_event goes on.
LEMMA Steps == Step("new") = "persist" /\ Step("persist") = "send" /\ Step("send") = "recv"
BY DEF Step

LEMMA InitTyped == Init => DataTyped /\ CacheInv
<1> SUFFICES ASSUME Init PROVE DataTyped /\ CacheInv
  OBVIOUS
<1>1. CacheInv
  BY Bounds DEF Init, CacheInv, Distinct
<1>2. /\ reader \in [pc : {"recv", "send", "stopped"}, event : Events \cup {NoEvent}]
      /\ engine \in Engines /\ reader.pc = "recv" /\ engine.pc = "load"
  BY DEF Init, Receiving, Loading, Engines
<1> QED
  BY <1>1, <1>2, Bounds DEF Init, DataTyped

LEMMA ReaderTyped ==
  ASSUME DataTyped,
         \/ \E c \in Certs : ReaderTakes(c)
         \/ ReaderWorks \/ ReaderStops \/ SourceEnds
  PROVE  DataTyped'
<1>0. UNCHANGED <<engine, cache, lastSeen, output, forwarded, forgotten, now, analyzer,
                  cancelled, crashes, failures>>
  BY DEF ReaderTakes, ReaderWorks, ReaderSends, ReaderSendFails, ReaderStops, SourceEnds,
         store, history, outside, faults
<1>1. input' \in Seq(Events)
  <2>1. UNCHANGED input \/ (reader.pc = "send" /\ input' = Append(input, reader.event))
    BY DEF ReaderTakes, ReaderWorks, ReaderSends, ReaderSendFails, ReaderStops, SourceEnds
  <2>2. CASE reader.pc = "send" /\ input' = Append(input, reader.event)
    BY <2>2 DEF DataTyped
  <2> QED
    BY <2>1, <2>2 DEF DataTyped
<1>2. /\ reader' \in [pc : {"recv", "send", "stopped"}, event : Events \cup {NoEvent}]
      /\ reader'.pc = "send" => reader'.event \in Events
  <2>1. CASE \E c \in Certs : ReaderTakes(c)
    BY <2>1, EventTypes DEF ReaderTakes
  <2>2. CASE ~ \E c \in Certs : ReaderTakes(c)
    <3>1. reader' = Receiving \/ reader' = Stopped
      BY <2>2 DEF ReaderWorks, ReaderSends, ReaderSendFails, ReaderStops, SourceEnds
    <3> QED
      BY <3>1 DEF Receiving, Stopped
  <2> QED
    BY <2>1, <2>2
<1> QED
  BY <1>0, <1>1, <1>2 DEF DataTyped

LEMMA EngineTyped ==
  ASSUME DataTyped, CacheInv, EngineWorks \/ EngineStops
  PROVE  DataTyped' /\ CacheInv'
<1> DEFINE EngineOK ==
             /\ engine \in Engines
             /\ engine.pc \in {"touch", "persist", "send"} => engine.event \in Events
<1> USE DEF Engines
<1>0. EngineOK
  BY DEF DataTyped
<1>r. ASSUME engine' \in {Receiving, Stopped} PROVE EngineOK'
  BY <1>r DEF Receiving, Stopped
<1>c. ASSUME NEW pc \in {"persist", "send"}, engine.pc = pc, Continue(pc) PROVE EngineOK'
  <2>1. CASE Step(pc) = "recv"
    BY <1>c, <1>r, <2>1 DEF Continue
  <2>2. CASE Step(pc) # "recv"
    <3>1. engine' = [engine EXCEPT !.pc = "send"]
      BY <1>c, <2>2, Steps DEF Continue
    <3> QED
      BY <1>0, <1>c, <3>1
  <2> QED
    BY <2>1, <2>2
<1>1. CASE EngineTakes
  <2> DEFINE event == Head(input)
  <2>1. event \in Events /\ Tail(input) \in Seq(Events)
    BY <1>1 DEF EngineTakes, DataTyped
  <2>2. /\ cache' = Put(cache, event.cert) /\ input' = Tail(input)
        /\ engine' = IF event.cert \in Range(cache)
                       THEN [pc |-> "touch", event |-> [event EXCEPT !.at = now]]
                       ELSE [pc |-> Step("new"), event |-> event]
        /\ UNCHANGED <<reader, lastSeen, output, forwarded, now, analyzer, cancelled,
                       crashes, failures>>
        /\ forgotten' = forgotten \cup (Range(cache) \ Range(cache'))
    BY <1>1 DEF EngineTakes, outside, faults
  <2> HIDE DEF event
  <2>3. EngineOK'
    BY <2>1, <2>2, EventTypes, Steps
  <2>4. cache' \in Seq(Certs) /\ CacheInv'
    BY <2>1, <2>2, PutEffect DEF CacheInv, DataTyped, Events
  <2>5. forgotten' \subseteq Certs
    BY <2>2, RangeOf DEF DataTyped
  <2> QED
    BY <2>1, <2>2, <2>3, <2>4, <2>5 DEF DataTyped
<1>2. ASSUME EngineOK', UNCHANGED <<reader, now, analyzer, cancelled, crashes>>,
             cache' \in Seq(Certs), CacheInv',
             input' \in {input, <<>>}, forgotten' \subseteq Certs,
             lastSeen' \in [Certs -> 0 .. MaxTime], output' \in Seq(Certs),
             forwarded' \in [Certs -> 0 .. 2], failures' \in 0 .. MaxFailures
      PROVE  DataTyped' /\ CacheInv'
  <2>1. input' \in Seq(Events)
    BY <1>2, EmptySeq, ZenonT(60) DEF DataTyped
  <2> QED
    BY <1>2, <2>1 DEF DataTyped
<1>k. UNCHANGED cache => cache' \in Seq(Certs) /\ CacheInv'
  BY DEF CacheInv, DataTyped
<1>l. CASE EngineLoads
  <2>1. /\ cache' \in Reloaded /\ engine' = Receiving
        /\ forgotten' = forgotten \cup (Stored \ Range(cache'))
        /\ UNCHANGED <<reader, input, lastSeen, output, forwarded, now, analyzer,
                       cancelled, crashes, failures>>
    BY <1>l DEF EngineLoads, outside, faults
  <2>2. cache' \in Seq(Certs) /\ CacheInv'
    BY <2>1, ReloadEffect DEF CacheInv
  <2>3. forgotten' \subseteq Certs
    BY <2>1 DEF Stored, DataTyped
  <2> QED
    BY <1>2, <1>r, <2>1, <2>2, <2>3 DEF DataTyped
<1>f. CASE EngineLoadFails
  <2>1. failures' \in 0 .. MaxFailures /\ forgotten' \subseteq Certs
    BY <1>f, Bounds DEF EngineLoadFails, DataTyped, Stored
  <2> QED
    BY <1>2, <1>f, <1>k, <1>r, <2>1 DEF EngineLoadFails, DataTyped
<1>3. CASE EngineTouches
  <2>1. lastSeen' \in [Certs -> 0 .. MaxTime]
    BY <1>3 DEF EngineTouches, DataTyped, Events
  <2> QED
    BY <1>2, <1>3, <1>k, <1>r, <2>1 DEF EngineTouches, DataTyped, history, outside, faults
<1>4. CASE EnginePersists
  <2>1. lastSeen' \in [Certs -> 0 .. MaxTime]
    BY <1>4 DEF EnginePersists, DataTyped, Events
  <2>2. EngineOK'
    BY <1>4, <1>c DEF EnginePersists
  <2> QED
    BY <1>2, <1>4, <1>k, <2>1, <2>2
      DEF EnginePersists, DataTyped, history, outside, faults
<1>5. CASE EngineStorageFails
  <2>1. EngineOK'
    <3>1. engine' = Receiving \/ (engine.pc = "persist" /\ engine' = [engine EXCEPT !.pc = "send"])
      BY <1>5, Steps DEF EngineStorageFails, AfterFailure
    <3> QED
      BY <1>0, <1>r, <3>1
  <2>2. failures' \in 0 .. MaxFailures
    BY <1>5, Bounds DEF EngineStorageFails, DataTyped
  <2>3. forgotten' \subseteq Certs
    BY <1>5 DEF EngineStorageFails, DataTyped, Events
  <2> QED
    BY <1>2, <1>5, <1>k, <2>1, <2>2, <2>3 DEF EngineStorageFails, DataTyped
<1>6. CASE EngineSends
  <2>1. EngineOK'
    BY <1>6, <1>c DEF EngineSends
  <2>2. engine.event.cert \in Certs
    BY <1>6 DEF EngineSends, DataTyped, Events
  <2>3. output' \in Seq(Certs)
    BY <1>6, <2>2 DEF EngineSends, Forward, DataTyped
  <2>4. forwarded' \in [Certs -> 0 .. 2]
    <3> DEFINE c == engine.event.cert
               n == IF forwarded[c] = 2 THEN 2 ELSE forwarded[c] + 1
    <3>0. forwarded \in [Certs -> 0 .. 2]
      BY DEF DataTyped
    <3>1. n \in 0 .. 2
      <4>1. forwarded[c] \in 0 .. 2
        BY <2>2, <3>0
      <4> QED
        BY <4>1
    <3>2. forwarded' = [forwarded EXCEPT ![c] = n]
      BY <1>6 DEF EngineSends, Forward
    <3> HIDE DEF c, n
    <3> QED
      BY <3>0, <3>1, <3>2
  <2> QED
    BY <1>2, <1>6, <1>k, <2>1, <2>3, <2>4 DEF EngineSends, DataTyped, outside, faults
<1>7. CASE EngineSendFails
  <2>1. EngineOK'
    BY <1>7, <1>c DEF EngineSendFails
  <2> QED
    BY <1>2, <1>7, <1>k, <2>1
      DEF EngineSendFails, DataTyped, store, history, outside, faults
<1>8. CASE EngineStops
  BY <1>2, <1>8, <1>k, <1>r DEF EngineStops, DataTyped, store, history, outside, faults
<1> QED
  BY <1>1, <1>l, <1>f, <1>3, <1>4, <1>5, <1>6, <1>7, <1>8 DEF EngineWorks

LEMMA EnvironmentTyped ==
  ASSUME DataTyped, CacheInv,
         Cleanup \/ Consume \/ AnalyzerStops \/ Cancel \/ Tick \/ Crash
  PROVE  DataTyped' /\ CacheInv'
<1>1. CASE Consume
  <2>1. output' \in Seq(Certs)
    BY <1>1 DEF Consume, DataTyped
  <2> QED
    BY <1>1, <2>1 DEF Consume, DataTyped, CacheInv, history, outside, faults
<1>2. CASE AnalyzerStops \/ Cancel
  <2>1. /\ UNCHANGED <<now, reader, input, engine, cache, lastSeen, forwarded,
                       forgotten, crashes, failures>>
        /\ output' = <<>> \/ UNCHANGED output
    BY <1>2, Zenon DEF AnalyzerStops, Cancel, store, history, faults
  <2>2. output' \in Seq(Certs)
    BY <2>1, EmptySeq DEF DataTyped
  <2> QED
    BY <2>1, <2>2 DEF DataTyped, CacheInv
<1>3. CASE Tick
  <2>1. now' \in 1 .. MaxTime
    BY <1>3, Bounds DEF Tick, DataTyped
  <2> QED
    BY <1>3, <2>1 DEF Tick, DataTyped, CacheInv, store, history, faults
<1>4. CASE Crash
  <2>1. cache' \in Seq(Certs) /\ CacheInv'
    BY <1>4, Bounds DEF Crash, CacheInv, Distinct
  <2>2. /\ reader' \in [pc : {"recv", "send", "stopped"}, event : Events \cup {NoEvent}]
        /\ engine' \in Engines /\ reader'.pc = "recv" /\ engine'.pc = "load"
    BY <1>4, EventTypes DEF Crash, Receiving
  <2>3. crashes' \in 0 .. MaxCrashes
    BY <1>4, Bounds DEF Crash, DataTyped
  <2> QED
    BY <1>4, <2>1, <2>2, <2>3 DEF Crash, DataTyped, history
<1>5. CASE Cleanup
  <2>1. lastSeen' \in [Certs -> 0 .. MaxTime] /\ forgotten' \subseteq Certs
    BY <1>5, Bounds DEF Cleanup, DataTyped, Old, Stored
  <2> QED
    BY <1>5, <2>1 DEF Cleanup, DataTyped, CacheInv, faults
<1> QED
  BY <1>1, <1>2, <1>3, <1>4, <1>5

LEMMA NextTyped == DataTyped /\ CacheInv /\ [Next]_vars => DataTyped' /\ CacheInv'
<1>1. DataTyped /\ CacheInv /\ UNCHANGED vars => DataTyped' /\ CacheInv'
  BY DEF DataTyped, CacheInv, vars, store, history, outside, faults
<1>2. ASSUME CacheInv,
             \/ \E c \in Certs : ReaderTakes(c)
             \/ ReaderWorks \/ ReaderStops \/ SourceEnds
      PROVE  CacheInv'
  <2>1. UNCHANGED cache
    BY <1>2 DEF ReaderTakes, ReaderWorks, ReaderSends, ReaderSendFails, ReaderStops, SourceEnds
  <2> QED
    BY <1>2, <2>1 DEF CacheInv
<1> QED
  BY <1>1, <1>2, ReaderTyped, EngineTyped, EnvironmentTyped DEF Next

LEMMA NextFlags == FlagsTyped /\ [Next]_vars => FlagsTyped'
<1> SUFFICES ASSUME FlagsTyped, [Next]_vars PROVE FlagsTyped'
  OBVIOUS
<1>1. analyzer' \in {analyzer, TRUE, FALSE}
  BY Zenon DEF Next, vars, ReaderTakes, ReaderWorks, ReaderSends, ReaderSendFails,
     ReaderStops, SourceEnds, EngineWorks, EngineLoads, EngineLoadFails, EngineTakes,
     EngineTouches, EnginePersists, EngineStorageFails, EngineSends, EngineSendFails,
     EngineStops, Cleanup, Consume, AnalyzerStops, Cancel, Tick, Crash, outside
<1>2. cancelled' \in {cancelled, TRUE, FALSE}
  BY Zenon DEF Next, vars, ReaderTakes, ReaderWorks, ReaderSends, ReaderSendFails,
     ReaderStops, SourceEnds, EngineWorks, EngineLoads, EngineLoadFails, EngineTakes,
     EngineTouches, EnginePersists, EngineStorageFails, EngineSends, EngineSendFails,
     EngineStops, Cleanup, Consume, AnalyzerStops, Cancel, Tick, Crash, outside
<1>3. cleaning' \in {cleaning, TRUE, FALSE}
  BY Zenon DEF Next, vars, ReaderTakes, ReaderWorks, ReaderSends, ReaderSendFails,
     ReaderStops, SourceEnds, EngineWorks, EngineLoads, EngineLoadFails, EngineTakes,
     EngineTouches, EnginePersists, EngineStorageFails, EngineSends, EngineSendFails,
     EngineStops, Cleanup, Consume, AnalyzerStops, Cancel, Tick, Crash, outside
<1> QED
  BY <1>1, <1>2, <1>3, Zenon DEF FlagsTyped

\* What the tasks, the channels, the cache and the table hold is of the types the
\* code gives them; the cache is no longer than its capacity and holds nothing twice.
THEOREM TypeCorrect == Spec => [](TypeOK /\ CacheInv)
<1>1. Init => FlagsTyped
  BY DEF Init, FlagsTyped
<1>2. (DataTyped /\ CacheInv /\ FlagsTyped) /\ [Next]_vars
        => (DataTyped /\ CacheInv /\ FlagsTyped)'
  BY NextTyped, NextFlags
<1>3. DataTyped /\ CacheInv /\ FlagsTyped <=> TypeOK /\ CacheInv
  BY DEF TypeOK
<1> QED
  BY <1>1, <1>2, <1>3, InitTyped, PTL DEF Spec

-----------------------------------------------------------------------------
(* What is cached, stored and forwarded *)

\* The steps that concern neither the cache nor the table.
LEMMA NewKept ==
  ASSUME NewInv, UNCHANGED <<cache, lastSeen, forwarded, forgotten>>,
         \/ UNCHANGED engine
         \/ engine.pc \notin {"persist", "load"} /\ engine'.pc \in {"recv", "stopped"}
  PROVE  NewInv'
<1>1. Stored' = Stored
  BY DEF Stored
<1>2. CASE UNCHANGED engine
  BY <1>1, <1>2 DEF NewInv, CachedIsStored
<1>3. CASE engine.pc \notin {"persist", "load"} /\ engine'.pc \in {"recv", "stopped"}
  BY <1>1, <1>3 DEF NewInv, CachedIsStored
<1> QED
  BY <1>2, <1>3

LEMMA LoadsNew == ASSUME DataTyped, NewInv, EngineLoads \/ EngineLoadFails PROVE NewInv'
<1>1. /\ engine'.pc = "recv" /\ UNCHANGED <<lastSeen, forwarded>>
      /\ forgotten \subseteq forgotten'
  BY DEF EngineLoads, EngineLoadFails, Receiving
<1>2. Stored' = Stored
  BY <1>1 DEF Stored
<1>3. Range(cache') \subseteq Stored /\ Stored \subseteq Range(cache') \cup forgotten'
  <2>1. CASE EngineLoads
    BY <2>1, ReloadEffect DEF EngineLoads
  <2>2. CASE EngineLoadFails
    BY <2>2 DEF EngineLoadFails, NewInv, Range
  <2> QED
    BY <2>1, <2>2
<1> QED
  BY <1>1, <1>2, <1>3 DEF NewInv, CachedIsStored

LEMMA TakesNew == ASSUME DataTyped, CacheInv, NewInv, EngineTakes PROVE NewInv'
<1> DEFINE c == Head(input).cert
<1>1. /\ c \in Certs /\ cache' = Put(cache, c) /\ engine.pc = "recv"
      /\ UNCHANGED <<lastSeen, forwarded>>
      /\ forgotten' = forgotten \cup (Range(cache) \ Range(cache'))
      /\ c \in Range(cache) => engine'.pc = "touch"
      /\ c \notin Range(cache) => engine'.pc = "persist" /\ engine'.event.cert = c
  <2>1. Head(input) \in Events
    BY DEF EngineTakes, DataTyped
  <2>2. c \in Certs
    BY <2>1 DEF Events
  <2> QED
    BY <2>2, Steps DEF EngineTakes
<1> HIDE DEF c
<1>2. Stored' = Stored
  BY <1>1 DEF Stored
<1>3. Range(cache') \subseteq Range(cache) \cup {c} /\ c \in Range(cache')
  BY <1>1, PutEffect DEF CacheInv, DataTyped
<1>4. \A d \in Certs :
        /\ d \in Range(cache) => d \in Stored \cup forgotten
        /\ d \in Stored => d \in Range(cache) \cup forgotten
        /\ forwarded[d] <= 1 \/ d \in forgotten
        /\ forwarded[d] # 0 => d \in Stored \cup forgotten
  BY <1>1 DEF NewInv, CachedIsStored
<1>5. c \notin Range(cache) => forwarded[c] = 0 \/ c \in forgotten
  BY <1>1, <1>4
<1>6. CachedIsStored'
  BY <1>1, <1>2, <1>3, <1>4 DEF CachedIsStored
<1>7. \A d \in Certs :
        /\ d \in Stored => d \in Range(cache') \cup forgotten'
        /\ forwarded[d] <= 1 \/ d \in forgotten'
        /\ forwarded[d] # 0 => d \in Stored \cup forgotten'
  BY <1>1, <1>4
<1>8. engine'.pc \in {"persist", "send"} =>
        /\ engine'.event.cert \in Range(cache')
        /\ forwarded[engine'.event.cert] = 0 \/ engine'.event.cert \in forgotten'
  BY <1>1, <1>3, <1>5
<1> QED
  BY <1>1, <1>2, <1>6, <1>7, <1>8 DEF NewInv

LEMMA TouchesNew == ASSUME DataTyped, NewInv, EngineTouches PROVE NewInv'
<1>1. /\ engine.pc = "touch" /\ engine'.pc = "recv"
      /\ UNCHANGED <<cache, forwarded, forgotten>>
  BY DEF EngineTouches, Receiving, history
<1>2. Stored' = Stored
  BY DEF EngineTouches, Stored, DataTyped, Events
<1> QED
  BY <1>1, <1>2 DEF NewInv, CachedIsStored

LEMMA PersistsNew == ASSUME DataTyped, NewInv, EnginePersists PROVE NewInv'
<1> DEFINE c == engine.event.cert
<1>1. /\ engine.pc = "persist" /\ engine'.pc = "send" /\ engine'.event.cert = c
      /\ c \in Certs /\ UNCHANGED <<cache, forwarded, forgotten>>
  BY Steps DEF EnginePersists, Continue, DataTyped, Events, history
<1>2. Stored' = Stored \cup {c}
  <2>1. engine.event.at # 0 /\ lastSeen \in [Certs -> 0 .. MaxTime]
    BY <1>1 DEF DataTyped, Events
  <2> QED
    BY <1>1, <2>1 DEF EnginePersists, Stored
<1> QED
  BY <1>1, <1>2 DEF NewInv, CachedIsStored

LEMMA FailsNew == ASSUME DataTyped, NewInv, EngineStorageFails PROVE NewInv'
<1>1. UNCHANGED <<cache, lastSeen, forwarded>>
  BY DEF EngineStorageFails
<1>2. CASE engine.pc = "touch"
  <2>1. engine'.pc = "recv" /\ UNCHANGED forgotten
    BY <1>2 DEF EngineStorageFails, AfterFailure, Receiving
  <2> QED
    BY <1>1, <1>2, <2>1, NewKept
<1>3. CASE engine.pc = "persist"
  <2>1. /\ engine'.pc = "send" /\ engine'.event.cert = engine.event.cert
        /\ forgotten' = forgotten \cup {engine.event.cert}
    BY <1>3, Steps DEF EngineStorageFails, AfterFailure, DataTyped, Engines
  <2>2. Stored' = Stored
    BY <1>1 DEF Stored
  <2> QED
    BY <1>1, <1>3, <2>1, <2>2 DEF NewInv, CachedIsStored
<1> QED
  BY <1>2, <1>3 DEF EngineStorageFails

LEMMA SendsNew == ASSUME DataTyped, NewInv, EngineSends PROVE NewInv'
<1> DEFINE c == engine.event.cert
<1>1. /\ engine.pc = "send" /\ engine'.pc = "recv" /\ c \in Certs
      /\ UNCHANGED <<cache, lastSeen, forgotten>>
  BY Steps DEF EngineSends, Continue, Receiving, DataTyped, Events
<1>2. Stored' = Stored
  BY <1>1 DEF Stored
<1>3. ASSUME NEW d \in Certs
      PROVE  /\ forwarded'[d] <= 1 \/ d \in forgotten
             /\ forwarded'[d] # 0 => d \in Stored \cup forgotten
  <2>1. /\ forwarded[c] = 0 \/ c \in forgotten
        /\ c \in Stored \cup forgotten
        /\ forwarded[d] <= 1 \/ d \in forgotten
        /\ forwarded[d] # 0 => d \in Stored \cup forgotten
    BY <1>1 DEF NewInv
  <2>2. forwarded \in [Certs -> 0 .. 2]
    BY DEF DataTyped
  <2>3. forwarded' = [forwarded EXCEPT ![c] = IF forwarded[c] = 2 THEN 2 ELSE forwarded[c] + 1]
    BY DEF EngineSends, Forward
  <2> HIDE DEF c
  <2>4. CASE d = c
    BY <1>1, <2>1, <2>2, <2>3, <2>4
  <2>5. CASE d # c
    BY <2>1, <2>2, <2>3, <2>5
  <2> QED
    BY <2>4, <2>5
<1> QED
  BY <1>1, <1>2, <1>3 DEF NewInv, CachedIsStored

LEMMA CrashNew == ASSUME NewInv, Crash PROVE NewInv'
<1>1. /\ engine'.pc = "load" /\ cache' = <<>> /\ Range(cache') = {}
      /\ UNCHANGED <<lastSeen, forwarded, forgotten>>
  BY DEF Crash, Loading, Range, history
<1>2. Stored' = Stored
  BY <1>1 DEF Stored
<1> QED
  BY <1>1, <1>2 DEF NewInv, CachedIsStored

LEMMA CleanupNew == ASSUME DataTyped, NewInv, Cleanup PROVE NewInv'
<1>1. UNCHANGED <<engine, cache, forwarded>> /\ forgotten' = forgotten \cup Old
  BY DEF Cleanup
<1>2. Stored' = Stored \ Old
  BY DEF Cleanup, Stored, Old
<1> QED
  BY <1>1, <1>2 DEF NewInv, CachedIsStored

LEMMA NextNew == DataTyped /\ CacheInv /\ NewInv /\ [Next]_vars => NewInv'
<1> SUFFICES ASSUME DataTyped, CacheInv, NewInv, [Next]_vars PROVE NewInv'
  OBVIOUS
<1>1. CASE \/ \E c \in Certs : ReaderTakes(c)
           \/ ReaderWorks \/ ReaderStops \/ SourceEnds
           \/ Consume \/ AnalyzerStops \/ Cancel \/ Tick \/ UNCHANGED vars
  <2>1. UNCHANGED <<cache, lastSeen, forwarded, forgotten, engine>>
    BY <1>1, Zenon DEF ReaderTakes, ReaderWorks, ReaderSends, ReaderSendFails, ReaderStops,
       SourceEnds, Consume, AnalyzerStops, Cancel, Tick, vars, store, history
  <2> QED
    BY <2>1, NewKept
<1>2. CASE EngineStops \/ EngineSendFails
  <2>1. /\ UNCHANGED <<cache, lastSeen, forwarded, forgotten>>
        /\ engine.pc \in {"recv", "send"} /\ engine'.pc \in {"recv", "stopped"}
    BY <1>2, Steps DEF EngineStops, EngineSendFails, Continue, Receiving, Stopped, store,
       history
  <2> QED
    BY <2>1, NewKept
<1> QED
  BY <1>1, <1>2, LoadsNew, TakesNew, TouchesNew, PersistsNew, FailsNew, SendsNew,
     CrashNew, CleanupNew
  DEF Next, EngineWorks

LEMMA Invariant == Spec => [](DataTyped /\ CacheInv /\ NewInv)
<1>1. Init => NewInv
  <2> SUFFICES ASSUME Init PROVE NewInv
    OBVIOUS
  <2>1. /\ Stored = {} /\ engine.pc = "load" /\ cache = <<>> /\ Range(cache) = {}
        /\ \A c \in Certs : forwarded[c] = 0
    BY DEF Init, Stored, Loading, Range
  <2> QED
    BY <2>1 DEF NewInv, CachedIsStored
<1>2. (DataTyped /\ CacheInv /\ NewInv) /\ [Next]_vars
        => (DataTyped /\ CacheInv /\ NewInv)'
  BY NextTyped, NextNew
<1> QED
  BY <1>1, <1>2, InitTyped, PTL DEF Spec

\* dedup.rs: whatever the process is interrupted in and whenever clean-up runs, a
\* certificate that the cache takes for known has a row or is about to get it, unless
\* its storing failed or clean-up took the row.
THEOREM CacheIsBacked == Spec => []CachedIsStored
<1>1. DataTyped /\ CacheInv /\ NewInv => CachedIsStored
  BY DEF NewInv
<1> QED
  BY <1>1, Invariant, PTL

\* dedup.rs: a certificate is announced to the Analyzer at most once, through any
\* number of crashes and storage errors, until it is evicted or cut off by a reload,
\* its storing fails, or clean-up takes its row.
THEOREM AnnouncedOnce == Spec => []NewOnce
<1>1. DataTyped /\ CacheInv /\ NewInv => NewOnce
  BY DEF NewInv, NewOnce
<1> QED
  BY <1>1, Invariant, PTL
=============================================================================
