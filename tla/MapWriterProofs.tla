-------------------------- MODULE MapWriterProofs --------------------------
(***************************************************************************)
(* Theorems about MapWriter, for any number of writers and certificates    *)
(* and any limits: what the unlocked gaps between the checks of            *)
(* write_directive and its write can cost, in entries too many and in      *)
(* directives refused.                                                     *)
(***************************************************************************)
EXTENDS MapWriter, FiniteSetTheorems, TLAPS

\* Where the locals of write_directive are still as they were initialised.
Fresh ==
  \A w \in Writers :
    /\ pc[w] \in {"idle", "capacity"} => next[w] = 1 /\ sum[w] = 0
    /\ pc[w] \in {"idle", "capacity", "count"} => attempt[w] = 0

\* The writers that have found room in map m and not yet written or given up.
Admitted(m) ==
  {w \in Writers : job[w].map = m /\ pc[w] \in {"count", "write", "sleep"}}

\* Room for the entries of map m and for those its admitted writers may add.
Reserved ==
  \A m \in Maps :
    EntryCount(m) + Cardinality(Admitted(m)) <= MaxEntries + Cardinality(Writers) - 1

\* The entries of the maps a counting writer has yet to read.
Rest(k) ==
  (IF k <= 1 THEN EntryCount(1) ELSE 0) + (IF k <= 2 THEN EntryCount(2) ELSE 0)
  + (IF k <= 3 THEN EntryCount(3) ELSE 0)

\* What a writer would take the total to be if nothing moved any more.
Reading(w) == IF pc[w] = "count" THEN sum[w] + Rest(next[w]) ELSE Total

Passed(w) == pc[w] \in {"write", "sleep"}

\* The writers that have passed the memory check, or would with a cap of t + 1.
Low(t) == {w \in Writers : Passed(w) \/ Reading(w) <= t}

\* The total and the number of writers that take it to be at most t bound each
\* other, at every t at once: a removal shifts all readings down by one, and
\* with them the t at which the bound is needed.
Balanced ==
  \A t \in Int : t >= MaxTotal - 1 =>
    Total + Cardinality(Low(t)) <= t + Cardinality(Writers)

IInv == TypeOK /\ Fresh /\ Reserved /\ Balanced

-----------------------------------------------------------------------------
(* Counting *)

\* There are finitely many writers, and at least one.
LEMMA WritersCounted ==
  IsFiniteSet(Writers) /\ Cardinality(Writers) \in Nat /\ Cardinality(Writers) >= 1
<1>1. IsFiniteSet(Writers) /\ Writers # {}
  BY WriterAssumption
<1> QED
  BY <1>1, FS_CardinalityType, FS_EmptySet

\* A set of writers has at most as many elements as there are writers, and as
\* many as any set of writers that contains it.
LEMMA WriterSubset ==
  ASSUME NEW S \in SUBSET Writers, NEW T \in SUBSET S
  PROVE  /\ IsFiniteSet(S) /\ Cardinality(S) \in Nat /\ Cardinality(T) \in Nat
         /\ Cardinality(S) <= Cardinality(Writers)
         /\ Cardinality(T) <= Cardinality(S)
<1>1. IsFiniteSet(S) /\ Cardinality(S) <= Cardinality(Writers)
  BY WritersCounted, FS_Subset
<1>2. IsFiniteSet(T) /\ Cardinality(T) <= Cardinality(S)
  BY <1>1, FS_Subset
<1> QED
  BY <1>1, <1>2, FS_CardinalityType

\* Taking a writer out of a set it is in lowers the count by one.
LEMMA WriterRemoved ==
  ASSUME NEW S \in SUBSET Writers, NEW T, NEW w \in S, T \subseteq S \ {w}
  PROVE  Cardinality(T) \in Nat /\ Cardinality(T) <= Cardinality(S) - 1
<1>1. IsFiniteSet(S) /\ Cardinality(S) \in Nat
  BY WriterSubset
<1>2. Cardinality(S \ {w}) = Cardinality(S) - 1
  BY <1>1, FS_RemoveElement
<1>3. S \ {w} \in SUBSET Writers /\ T \in SUBSET (S \ {w})
  OBVIOUS
<1>4. Cardinality(T) \in Nat /\ Cardinality(T) <= Cardinality(S \ {w})
  BY <1>3, WriterSubset
<1> QED
  BY <1>1, <1>2, <1>4

\* The entries of a map are counted by a natural number.
LEMMA EntriesCounted ==
  ASSUME NEW m
  PROVE  IsFiniteSet(Entries(m)) /\ EntryCount(m) \in Nat
<1>1. Entries(m) \in SUBSET Certs /\ IsFiniteSet(Certs)
  BY WriterAssumption DEF Entries
<1>2. IsFiniteSet(Entries(m))
  BY <1>1, FS_Subset
<1> QED
  BY <1>2, FS_CardinalityType DEF EntryCount

\* The same in the next state.
LEMMA EntriesCountedNext ==
  ASSUME NEW m
  PROVE  EntryCount(m)' \in Nat
<1>1. Entries(m)' \in SUBSET Certs /\ IsFiniteSet(Certs)
  BY WriterAssumption DEF Entries
<1>2. IsFiniteSet(Entries(m)')
  BY <1>1, FS_Subset
<1>3. Cardinality(Entries(m)') \in Nat
  BY <1>2, FS_CardinalityType
<1> QED
  BY <1>3 DEF EntryCount

-----------------------------------------------------------------------------
(* What a step does to the maps *)

\* A step that leaves the maps alone leaves every count alone.
LEMMA MapsUntouched ==
  ASSUME map' = map
  PROVE  \A m : EntryCount(m)' = EntryCount(m)
BY DEF EntryCount, Entries

\* A write adds at most one entry, to the map of its job only.
LEMMA WriteEffect ==
  ASSUME TypeOK, NEW w \in Writers, WriteSucceeds(w),
         NEW m0, m0 = job[w].map, NEW c0, c0 = job[w].cert
  PROVE  /\ m0 \in Maps
         /\ \A m \in Maps : m # m0 => EntryCount(m)' = EntryCount(m)
         /\ \/ EntryCount(m0)' = EntryCount(m0)
            \/ EntryCount(m0)' = EntryCount(m0) + 1
<1>1. m0 \in Maps /\ c0 \in Certs /\ job[w].sev # 0
  <2>1. job[w] \in Jobs
    BY DEF TypeOK, WriteSucceeds
  <2>2. job[w].sev \in 1 .. MaxSeverity
    BY <2>1 DEF Jobs
  <2> QED
    BY <2>1, <2>2, WriterAssumption DEF Jobs
<1>2. map' = [map EXCEPT ![m0][c0] = job[w].sev]
  BY DEF WriteSucceeds
<1>3. \A m \in Maps : m # m0 => Entries(m)' = Entries(m)
  BY <1>1, <1>2 DEF TypeOK, Entries
<1>4. Entries(m0)' = Entries(m0) \cup {c0}
  BY <1>1, <1>2 DEF TypeOK, Entries
<1>5. Cardinality(Entries(m0) \cup {c0}) =
        IF c0 \in Entries(m0) THEN Cardinality(Entries(m0))
                              ELSE Cardinality(Entries(m0)) + 1
  BY EntriesCounted, FS_AddElement
<1> QED
  BY <1>1, <1>3, <1>4, <1>5 DEF EntryCount

\* A removal takes one entry out of one map.
LEMMA RemoveEffect ==
  ASSUME TypeOK, NEW m0 \in Maps, NEW c0 \in Certs, Remove(m0, c0)
  PROVE  /\ \A m \in Maps : m # m0 => EntryCount(m)' = EntryCount(m)
         /\ EntryCount(m0)' = EntryCount(m0) - 1
<1>1. map' = [map EXCEPT ![m0][c0] = 0] /\ c0 \in Entries(m0)
  BY DEF Remove, Entries
<1>2. \A m \in Maps : m # m0 => Entries(m)' = Entries(m)
  BY <1>1 DEF TypeOK, Entries
<1>3. Entries(m0)' = Entries(m0) \ {c0}
  BY <1>1 DEF TypeOK, Entries
<1>4. Cardinality(Entries(m0) \ {c0}) = Cardinality(Entries(m0)) - 1
  BY <1>1, EntriesCounted, FS_RemoveElement
<1> QED
  BY <1>2, <1>3, <1>4 DEF EntryCount

-----------------------------------------------------------------------------
(* Types and fresh locals *)

\* The types hold initially and after every step.
LEMMA TypeInvariant ==
  /\ Init => TypeOK /\ Fresh
  /\ TypeOK /\ Fresh /\ [Next]_vars => TypeOK' /\ Fresh'
<1>1. ASSUME Init PROVE TypeOK /\ Fresh
  BY <1>1, WriterAssumption DEF Init, TypeOK, Fresh, Outcomes, Maps, Jobs, NoJob
<1>2. ASSUME TypeOK, Fresh, [Next]_vars PROVE TypeOK' /\ Fresh'
  <2> USE <1>2, WriterAssumption DEF TypeOK, Fresh, Outcomes, local
  <2>0. NoJob \notin Jobs
    BY DEF NoJob, Jobs
  <2>1. ASSUME NEW w \in Writers, NEW j \in Jobs, Call(w, j)
        PROVE  TypeOK' /\ Fresh'
    BY <2>0, <2>1 DEF Call
  <2>2. ASSUME NEW w \in Writers, CheckCapacity(w)
        PROVE  TypeOK' /\ Fresh'
    BY <2>2 DEF CheckCapacity
  <2>3. ASSUME NEW w \in Writers, CountMap(w)
        PROVE  TypeOK' /\ Fresh'
    <3>1. EntryCount(next[w]) \in Nat
      BY EntriesCounted
    <3> QED
      BY <2>3, <3>1 DEF CountMap, Maps
  <2>4. ASSUME NEW w \in Writers, CheckMemory(w)
        PROVE  TypeOK' /\ Fresh'
    BY <2>4 DEF CheckMemory
  <2>5. ASSUME NEW w \in Writers, WriteSucceeds(w)
        PROVE  TypeOK' /\ Fresh'
    <3>1. job[w] \in Jobs
      BY <2>5 DEF WriteSucceeds
    <3>2. job[w].map \in Maps /\ job[w].cert \in Certs /\ job[w].sev \in 0 .. MaxSeverity
      BY <3>1 DEF Jobs
    <3>3. map' \in [Maps -> [Certs -> 0 .. MaxSeverity]]
      <4> DEFINE m0 == job[w].map
                 c0 == job[w].cert
                 s0 == job[w].sev
      <4>1. map' = [map EXCEPT ![m0] = [map[m0] EXCEPT ![c0] = s0]]
        BY <2>5 DEF WriteSucceeds
      <4>2. m0 \in Maps /\ c0 \in Certs /\ s0 \in 0 .. MaxSeverity
        BY <3>2
      <4> HIDE DEF m0, c0, s0
      <4> QED
        BY <4>1, <4>2
    <3>4. pc[w] = "write" /\ pc' = [pc EXCEPT ![w] = "success"]
          /\ UNCHANGED <<job, next, sum, attempt, gone>>
      BY <2>5 DEF WriteSucceeds
    <3> QED
      BY <3>1, <3>3, <3>4, <2>0
  <2>6. ASSUME NEW w \in Writers, WriteFails(w)
        PROVE  TypeOK' /\ Fresh'
    <3>1. CASE LastAttempt(w)
      BY <2>6, <3>1 DEF WriteFails, LastAttempt
    <3>2. CASE ~LastAttempt(w)
      <4>1. attempt'[w] < MaxRetries /\ attempt' \in [Writers -> 0 .. MaxRetries]
        BY <2>6, <3>2 DEF WriteFails, LastAttempt
      <4>2. pc' = [pc EXCEPT ![w] = "sleep"] /\ UNCHANGED <<map, job, next, sum, gone>>
        BY <2>6, <3>2 DEF WriteFails
      <4>3. \A x \in Writers : x # w => attempt'[x] = attempt[x]
        BY <2>6 DEF WriteFails
      <4>4. pc[w] = "write"
        BY <2>6 DEF WriteFails
      <4> QED
        BY <4>1, <4>2, <4>3, <4>4
    <3> QED
      BY <3>1, <3>2
  <2>7. ASSUME NEW w \in Writers, Retry(w)
        PROVE  TypeOK' /\ Fresh'
    BY <2>7 DEF Retry
  <2>8. ASSUME NEW w \in Writers, Return(w)
        PROVE  TypeOK' /\ Fresh'
    BY <2>8 DEF Return
  <2>9. ASSUME NEW m \in Maps, NEW c \in Certs, Remove(m, c)
        PROVE  TypeOK' /\ Fresh'
    BY <2>9 DEF Remove
  <2>10. CASE UNCHANGED vars
    BY <2>10 DEF vars
  <2> QED
    BY <2>1, <2>2, <2>3, <2>4, <2>5, <2>6, <2>7, <2>8, <2>9, <2>10
       DEF Next, Progress
<1> QED
  BY <1>1, <1>2

-----------------------------------------------------------------------------
(* One map: entries plus admitted writers *)

\* If no writer is newly admitted, the bound of map m can only be broken by an
\* entry more than there were.
LEMMA ReservedIfFewer ==
  ASSUME Reserved, NEW m \in Maps, EntryCount(m)' <= EntryCount(m),
         Admitted(m)' \subseteq Admitted(m)
  PROVE  EntryCount(m)' + Cardinality(Admitted(m)')
           <= MaxEntries + Cardinality(Writers) - 1
<1>1. /\ EntryCount(m) \in Nat /\ EntryCount(m)' \in Nat
      /\ Cardinality(Writers) \in Nat /\ MaxEntries \in Nat
  BY EntriesCounted, EntriesCountedNext, WritersCounted, WriterAssumption
<1>2. Admitted(m) \in SUBSET Writers
  BY DEF Admitted
<1>3. /\ Cardinality(Admitted(m)) \in Nat /\ Cardinality(Admitted(m)') \in Nat
      /\ Cardinality(Admitted(m)') <= Cardinality(Admitted(m))
  BY <1>2, WriterSubset
<1>4. EntryCount(m) + Cardinality(Admitted(m)) <= MaxEntries + Cardinality(Writers) - 1
  BY DEF Reserved
<1> QED
  BY <1>1, <1>3, <1>4

\* Every step keeps the reservation: a writer is admitted only while the map is
\* below its limit, and a new entry uses up an admission.
LEMMA ReservedKept ==
  ASSUME TypeOK, Reserved, [Next]_vars
  PROVE  Reserved'
<1> SUFFICES ASSUME NEW m \in Maps
             PROVE  EntryCount(m)' + Cardinality(Admitted(m)')
                      <= MaxEntries + Cardinality(Writers) - 1
  BY DEF Reserved
<1>0. /\ EntryCount(m) \in Nat /\ EntryCount(m)' \in Nat
      /\ Cardinality(Writers) \in Nat /\ MaxEntries \in Nat
  BY EntriesCounted, EntriesCountedNext, WritersCounted, WriterAssumption
<1>1. ASSUME map' = map, Admitted(m)' \subseteq Admitted(m)
      PROVE  EntryCount(m)' + Cardinality(Admitted(m)')
               <= MaxEntries + Cardinality(Writers) - 1
  <2>1. EntryCount(m)' = EntryCount(m)
    BY <1>1, MapsUntouched
  <2> QED
    BY <1>0, <1>1, <2>1, ReservedIfFewer
<1>2. ASSUME NEW w \in Writers, NEW j \in Jobs, Call(w, j)
      PROVE  map' = map /\ Admitted(m)' \subseteq Admitted(m)
  BY <1>2 DEF Call, Admitted, TypeOK
<1>3. ASSUME NEW w \in Writers, CheckCapacity(w)
      PROVE  EntryCount(m)' + Cardinality(Admitted(m)')
               <= MaxEntries + Cardinality(Writers) - 1
  <2>1. map' = map /\ job' = job /\ EntryCount(m)' = EntryCount(m)
    BY <1>3, MapsUntouched DEF CheckCapacity, local
  <2>2. CASE job[w].map = m /\ HasRoom(w)
    <3>1. EntryCount(m) <= MaxEntries - 1
      BY <1>0, <2>2 DEF HasRoom
    <3>2. Admitted(m)' \in SUBSET Writers
      BY DEF Admitted
    <3>3. /\ Cardinality(Admitted(m)') \in Nat
          /\ Cardinality(Admitted(m)') <= Cardinality(Writers)
      BY <3>2, WriterSubset
    <3> QED
      BY <1>0, <2>1, <3>1, <3>3
  <2>3. CASE ~(job[w].map = m /\ HasRoom(w))
    <3>1. Admitted(m)' \subseteq Admitted(m)
      BY <1>3, <2>1, <2>3 DEF CheckCapacity, Admitted, TypeOK
    <3> QED
      BY <1>1, <2>1, <3>1
  <2> QED
    BY <2>2, <2>3
<1>4. ASSUME NEW w \in Writers, CountMap(w) \/ Retry(w)
      PROVE  map' = map /\ Admitted(m)' \subseteq Admitted(m)
  BY <1>4 DEF CountMap, Retry, Admitted, TypeOK, local
<1>5. ASSUME NEW w \in Writers, CheckMemory(w)
      PROVE  map' = map /\ Admitted(m)' \subseteq Admitted(m)
  BY <1>5 DEF CheckMemory, Admitted, TypeOK, local
<1>6. ASSUME NEW w \in Writers, WriteFails(w)
      PROVE  map' = map /\ Admitted(m)' \subseteq Admitted(m)
  BY <1>6 DEF WriteFails, Admitted, TypeOK
<1>7. ASSUME NEW w \in Writers, Return(w)
      PROVE  map' = map /\ Admitted(m)' \subseteq Admitted(m)
  BY <1>7 DEF Return, Admitted, TypeOK, Outcomes
<1>8. ASSUME NEW w \in Writers, WriteSucceeds(w)
      PROVE  EntryCount(m)' + Cardinality(Admitted(m)')
               <= MaxEntries + Cardinality(Writers) - 1
  <2>1. /\ m # job[w].map => EntryCount(m)' = EntryCount(m)
        /\ EntryCount(m)' <= EntryCount(m) + 1
    BY <1>0, <1>8, WriteEffect
  <2>2. Admitted(m)' \subseteq Admitted(m) \ {w}
    BY <1>8 DEF WriteSucceeds, Admitted, TypeOK, local
  <2>3. CASE m # job[w].map
    BY <1>0, <2>1, <2>2, <2>3, ReservedIfFewer
  <2>4. CASE m = job[w].map
    <3>1. w \in Admitted(m) /\ Admitted(m) \in SUBSET Writers
      BY <1>8, <2>4 DEF WriteSucceeds, Admitted
    <3>2. /\ Cardinality(Admitted(m)) \in Nat /\ Cardinality(Admitted(m)') \in Nat
          /\ Cardinality(Admitted(m)') <= Cardinality(Admitted(m)) - 1
      BY <2>2, <3>1, WriterRemoved, WriterSubset
    <3>3. EntryCount(m) + Cardinality(Admitted(m))
            <= MaxEntries + Cardinality(Writers) - 1
      BY DEF Reserved
    <3> QED
      BY <1>0, <2>1, <3>2, <3>3
  <2> QED
    BY <2>3, <2>4
<1>9. ASSUME NEW m0 \in Maps, NEW c0 \in Certs, Remove(m0, c0)
      PROVE  EntryCount(m)' + Cardinality(Admitted(m)')
               <= MaxEntries + Cardinality(Writers) - 1
  <2>1. EntryCount(m)' <= EntryCount(m)
    BY <1>0, <1>9, RemoveEffect
  <2>2. Admitted(m)' \subseteq Admitted(m)
    BY <1>9 DEF Remove, Admitted, local
  <2> QED
    BY <2>1, <2>2, ReservedIfFewer
<1>10. ASSUME UNCHANGED vars
       PROVE  map' = map /\ Admitted(m)' \subseteq Admitted(m)
  BY <1>10 DEF vars, Admitted
<1> QED
  BY <1>1, <1>2, <1>3, <1>4, <1>5, <1>6, <1>7, <1>8, <1>9, <1>10 DEF Next, Progress

-----------------------------------------------------------------------------
(* All maps: the total against the readings of it *)

\* Totals, readings and the counts of low readers are integers.
LEMMA ReadingsCounted ==
  ASSUME TypeOK
  PROVE  /\ Total \in Nat /\ \A k : Rest(k) \in Nat
         /\ \A w \in Writers : Reading(w) \in Nat
         /\ \A t : Low(t) \in SUBSET Writers /\ Cardinality(Low(t)) \in Nat
<1>1. EntryCount(1) \in Nat /\ EntryCount(2) \in Nat /\ EntryCount(3) \in Nat
  BY EntriesCounted
<1>2. Total \in Nat /\ \A k : Rest(k) \in Nat
  BY <1>1 DEF Total, Rest
<1>3. \A w \in Writers : Reading(w) \in Nat
  BY <1>2 DEF TypeOK, Reading
<1>4. \A t : Low(t) \in SUBSET Writers
  BY DEF Low
<1> QED
  BY <1>2, <1>3, <1>4, WriterSubset

\* The same in the next state.
LEMMA ReadingsCountedNext ==
  ASSUME TypeOK'
  PROVE  /\ Total' \in Nat /\ \A k : Rest(k)' \in Nat
         /\ \A w \in Writers : Reading(w)' \in Nat
         /\ \A t : Low(t)' \in SUBSET Writers /\ Cardinality(Low(t)') \in Nat
<1>1. EntryCount(1)' \in Nat /\ EntryCount(2)' \in Nat /\ EntryCount(3)' \in Nat
  BY EntriesCountedNext
<1>2. Total' \in Nat /\ \A k : Rest(k)' \in Nat
  BY <1>1 DEF Total, Rest
<1>3. \A w \in Writers : Reading(w)' \in Nat
  BY <1>2 DEF TypeOK, Reading
<1>4. \A t : Low(t)' \in SUBSET Writers
  BY DEF Low
<1> QED
  BY <1>2, <1>3, <1>4, WriterSubset

\* A step that touches no map keeps the bound at t if no reading becomes low.
LEMMA BalancedIfFewer ==
  ASSUME TypeOK, TypeOK', Balanced, NEW t \in Int, t >= MaxTotal - 1,
         Total' <= Total, Low(t)' \subseteq Low(t)
  PROVE  Total' + Cardinality(Low(t)') <= t + Cardinality(Writers)
<1>1. /\ Total \in Nat /\ Total' \in Nat /\ Cardinality(Writers) \in Nat
      /\ Low(t) \in SUBSET Writers
  BY ReadingsCounted, ReadingsCountedNext, WritersCounted
<1>2. /\ Cardinality(Low(t)) \in Nat /\ Cardinality(Low(t)') \in Nat
      /\ Cardinality(Low(t)') <= Cardinality(Low(t))
  BY <1>1, WriterSubset
<1>3. Total + Cardinality(Low(t)) <= t + Cardinality(Writers)
  BY DEF Balanced
<1> QED
  BY <1>1, <1>2, <1>3

\* With the maps untouched, a writer whose pc, sum and next stay is low after
\* the step only if it was before.
LEMMA OthersStay ==
  ASSUME TypeOK, map' = map
  PROVE  /\ Total' = Total /\ \A k : Rest(k)' = Rest(k)
         /\ \A x \in Writers :
              pc'[x] = pc[x] /\ sum'[x] = sum[x] /\ next'[x] = next[x]
                => (Passed(x)' <=> Passed(x)) /\ Reading(x)' = Reading(x)
<1>1. \A m : EntryCount(m)' = EntryCount(m)
  BY MapsUntouched
<1>2. Total' = Total /\ \A k : Rest(k)' = Rest(k)
  BY <1>1 DEF Total, Rest
<1> QED
  BY <1>2 DEF Passed, Reading

\* A step of one writer that touches no map keeps the bound, if that writer
\* is not low afterwards or was low before.
LEMMA WriterStep ==
  ASSUME TypeOK, TypeOK', Balanced, NEW t \in Int, t >= MaxTotal - 1,
         NEW w \in Writers, map' = map,
         \A x \in Writers \ {w} :
           pc'[x] = pc[x] /\ sum'[x] = sum[x] /\ next'[x] = next[x],
         w \in Low(t)' => w \in Low(t)
  PROVE  Total' + Cardinality(Low(t)') <= t + Cardinality(Writers)
<1>1. Total' = Total
  BY OthersStay
<1>2. ASSUME NEW x \in Writers, x # w, x \in Low(t)'
      PROVE  x \in Low(t)
  <2>1. (Passed(x)' <=> Passed(x)) /\ Reading(x)' = Reading(x)
    BY <1>2, OthersStay
  <2> QED
    BY <1>2, <2>1 DEF Low
<1>3. Low(t)' \subseteq Low(t)
  BY <1>2 DEF Low
<1>4. Total' <= Total
  BY <1>1, ReadingsCounted
<1> QED
  BY <1>3, <1>4, BalancedIfFewer

\* A successful write lets a new entry into the total only by taking its
\* writer out of the low ones.
LEMMA BalancedByWrite ==
  ASSUME TypeOK, TypeOK', Balanced, NEW t \in Int, t >= MaxTotal - 1, t < Total',
         NEW w \in Writers, WriteSucceeds(w)
  PROVE  Total' + Cardinality(Low(t)') <= t + Cardinality(Writers)
<1>0. /\ Total \in Nat /\ Total' \in Nat /\ Cardinality(Writers) \in Nat
      /\ Low(t) \in SUBSET Writers /\ Cardinality(Low(t)) \in Nat
      /\ \A x \in Writers : Reading(x) \in Nat /\ Reading(x)' \in Nat
      /\ \A m : EntryCount(m) \in Nat /\ EntryCount(m)' \in Nat
  BY ReadingsCounted, ReadingsCountedNext, WritersCounted, EntriesCounted,
     EntriesCountedNext
<1>1. PICK m0 : m0 = job[w].map
  OBVIOUS
<1>2. PICK c0 : c0 = job[w].cert
  OBVIOUS
<1>3. /\ m0 \in Maps
      /\ \A m \in Maps : m # m0 => EntryCount(m)' = EntryCount(m)
      /\ EntryCount(m0)' = EntryCount(m0) \/ EntryCount(m0)' = EntryCount(m0) + 1
  BY <1>1, <1>2, WriteEffect
<1>4. /\ Total' = Total \/ Total' = Total + 1
      /\ \A k \in 1 .. 4 : Rest(k)' >= Rest(k)
  <2>1. m0 = 1 \/ m0 = 2 \/ m0 = 3
    BY <1>3 DEF Maps
  <2>2. 1 \in Maps /\ 2 \in Maps /\ 3 \in Maps
    BY DEF Maps
  <2> QED
    BY <1>0, <1>3, <2>1, <2>2 DEF Total, Rest
<1>5. /\ next' = next /\ sum' = sum /\ pc' = [pc EXCEPT ![w] = "success"]
      /\ pc[w] = "write"
  BY DEF WriteSucceeds, local
<1>6. w \in Low(t) /\ w \notin Low(t)'
  <2>1. ~Passed(w)' /\ Reading(w)' = Total'
    BY <1>5 DEF TypeOK, Passed, Reading
  <2> QED
    BY <1>0, <1>5, <2>1 DEF Low, Passed
<1>7. ASSUME NEW x \in Writers, x # w, x \in Low(t)'
      PROVE  x \in Low(t)
  <2>1. pc'[x] = pc[x] /\ next'[x] = next[x] /\ sum'[x] = sum[x]
        /\ next[x] \in 1 .. 4 /\ sum[x] \in Nat
    BY <1>5, <1>7 DEF TypeOK
  <2>2. Rest(next[x]) \in Nat /\ Rest(next[x])' \in Nat
    BY ReadingsCounted, ReadingsCountedNext
  <2>3. Rest(next[x])' >= Rest(next[x])
    BY <1>4, <2>1 DEF Rest
  <2>4. Reading(x)' >= Reading(x)
    BY <1>0, <1>4, <2>1, <2>2, <2>3 DEF Reading
  <2>5. Passed(x)' <=> Passed(x)
    BY <2>1 DEF Passed
  <2> QED
    BY <1>0, <1>7, <2>4, <2>5 DEF Low
<1>8. Low(t)' \subseteq Low(t) \ {w}
  BY <1>6, <1>7 DEF Low
<1>9. /\ Cardinality(Low(t)') \in Nat
      /\ Cardinality(Low(t)') <= Cardinality(Low(t)) - 1
  BY <1>0, <1>6, <1>8, WriterRemoved
<1>10. Total + Cardinality(Low(t)) <= t + Cardinality(Writers)
  BY DEF Balanced
<1> QED
  BY <1>0, <1>4, <1>9, <1>10

\* A removal lowers every reading by at most one: whoever is low at t now was
\* low at t + 1 before.
LEMMA BalancedByRemove ==
  ASSUME TypeOK, TypeOK', Balanced, NEW t \in Int, t >= MaxTotal - 1,
         NEW m0 \in Maps, NEW c0 \in Certs, Remove(m0, c0)
  PROVE  Total' + Cardinality(Low(t)') <= t + Cardinality(Writers)
<1>0. /\ Total \in Nat /\ Total' \in Nat /\ Cardinality(Writers) \in Nat
      /\ MaxTotal \in Nat
      /\ Low(t + 1) \in SUBSET Writers
      /\ \A x \in Writers : Reading(x) \in Nat /\ Reading(x)' \in Nat
      /\ \A m : EntryCount(m) \in Nat /\ EntryCount(m)' \in Nat
  BY ReadingsCounted, ReadingsCountedNext, WritersCounted, EntriesCounted,
     EntriesCountedNext, WriterAssumption
<1>1. /\ \A m \in Maps : m # m0 => EntryCount(m)' = EntryCount(m)
      /\ EntryCount(m0)' = EntryCount(m0) - 1
  BY RemoveEffect
<1>2. /\ Total' = Total - 1
      /\ \A k \in 1 .. 4 : Rest(k)' >= Rest(k) - 1
  <2>1. m0 = 1 \/ m0 = 2 \/ m0 = 3
    BY DEF Maps
  <2>2. 1 \in Maps /\ 2 \in Maps /\ 3 \in Maps
    BY DEF Maps
  <2> QED
    BY <1>0, <1>1, <2>1, <2>2 DEF Total, Rest
<1>3. pc' = pc /\ next' = next /\ sum' = sum
  BY DEF Remove, local
<1>4. ASSUME NEW x \in Writers, x \in Low(t)'
      PROVE  x \in Low(t + 1)
  <2>1. next[x] \in 1 .. 4 /\ sum[x] \in Nat
    BY DEF TypeOK
  <2>2. Rest(next[x]) \in Nat /\ Rest(next[x])' \in Nat
    BY ReadingsCounted, ReadingsCountedNext
  <2>3. Rest(next[x])' >= Rest(next[x]) - 1
    BY <1>2, <1>3, <2>1 DEF Rest
  <2>4. Reading(x)' >= Reading(x) - 1
    BY <1>0, <1>2, <1>3, <2>1, <2>2, <2>3 DEF Reading
  <2>5. Passed(x)' <=> Passed(x)
    BY <1>3 DEF Passed
  <2> QED
    BY <1>0, <1>4, <2>4, <2>5 DEF Low
<1>5. Low(t)' \subseteq Low(t + 1)
  BY <1>4 DEF Low
<1>6. /\ Cardinality(Low(t + 1)) \in Nat /\ Cardinality(Low(t)') \in Nat
      /\ Cardinality(Low(t)') <= Cardinality(Low(t + 1))
  BY <1>0, <1>5, WriterSubset
<1>7. Total + Cardinality(Low(t + 1)) <= (t + 1) + Cardinality(Writers)
  BY <1>0 DEF Balanced
<1> QED
  BY <1>0, <1>2, <1>6, <1>7

\* Every step keeps the balance.
LEMMA BalancedKept ==
  ASSUME TypeOK, TypeOK', Fresh, Balanced, [Next]_vars
  PROVE  Balanced'
<1> SUFFICES ASSUME NEW t \in Int, t >= MaxTotal - 1
             PROVE  Total' + Cardinality(Low(t)') <= t + Cardinality(Writers)
  BY DEF Balanced
<1>0. /\ Total' \in Nat /\ Cardinality(Writers) \in Nat /\ MaxTotal \in Nat
      /\ Low(t)' \in SUBSET Writers
      /\ \A x \in Writers : Reading(x) \in Nat
      /\ Rest(1) = Total /\ Rest(4) = 0
  <2>1. EntryCount(1) \in Nat /\ EntryCount(2) \in Nat /\ EntryCount(3) \in Nat
    BY EntriesCounted
  <2>2. Rest(1) = Total /\ Rest(4) = 0
    BY <2>1 DEF Rest, Total
  <2> QED
    BY <2>2, ReadingsCounted, ReadingsCountedNext, WritersCounted, WriterAssumption
<1>1. CASE Total' <= t
  <2>1. /\ Cardinality(Low(t)') \in Nat
        /\ Cardinality(Low(t)') <= Cardinality(Writers)
    BY <1>0, WriterSubset
  <2> QED
    BY <1>0, <1>1, <2>1
<1>2. CASE t < Total'
  <2>1. ASSUME NEW w \in Writers, map' = map,
               \A x \in Writers \ {w} :
                 pc'[x] = pc[x] /\ sum'[x] = sum[x] /\ next'[x] = next[x],
               w \in Low(t)' => w \in Low(t)
        PROVE  Total' + Cardinality(Low(t)') <= t + Cardinality(Writers)
    BY <2>1, WriterStep
  <2>2. ASSUME map' = map PROVE Total' = Total /\ \A k : Rest(k)' = Rest(k)
    BY <2>2, OthersStay
  \* A writer that is neither counting nor past the check reads the total.
  <2>3. ASSUME NEW w \in Writers,
               pc'[w] \notin {"count", "write", "sleep"}
        PROVE  w \notin Low(t)'
    <3>1. ~Passed(w)' /\ Reading(w)' = Total'
      BY <2>3 DEF Passed, Reading
    <3> QED
      BY <1>0, <1>2, <3>1 DEF Low
  <2>4. ASSUME NEW w \in Writers, NEW j \in Jobs, Call(w, j)
        PROVE  Total' + Cardinality(Low(t)') <= t + Cardinality(Writers)
    <3>1. w \notin Low(t)'
      BY <2>3, <2>4 DEF Call, TypeOK
    <3> QED
      BY <2>1, <2>4, <3>1 DEF Call, TypeOK
  <2>5. ASSUME NEW w \in Writers, CheckCapacity(w)
        PROVE  Total' + Cardinality(Low(t)') <= t + Cardinality(Writers)
    <3>1. CASE pc'[w] = "count"
      <4>1. /\ pc[w] = "capacity" /\ next'[w] = 1 /\ sum'[w] = 0
            /\ map' = map
        BY <2>5 DEF CheckCapacity, local, Fresh
      <4>2. Reading(w) = Total /\ ~Passed(w)
        BY <4>1 DEF Reading, Passed
      <4>3. Reading(w)' = 0 + Rest(1)'
        BY <3>1, <4>1 DEF Reading, Rest
      <4>4. Rest(1)' = Rest(1)
        BY <2>2, <4>1
      <4>5. Reading(w)' = Reading(w)
        BY <1>0, <4>2, <4>3, <4>4
      <4>6. ~Passed(w)'
        BY <3>1 DEF Passed
      <4>7. w \in Low(t)' => w \in Low(t)
        BY <4>5, <4>6 DEF Low
      <4> QED
        BY <2>1, <2>5, <4>7 DEF CheckCapacity, TypeOK, local
    <3>2. CASE pc'[w] # "count"
      <4>1. w \notin Low(t)'
        BY <2>3, <2>5, <3>2 DEF CheckCapacity, TypeOK
      <4> QED
        BY <2>1, <2>5, <4>1 DEF CheckCapacity, TypeOK, local
    <3> QED
      BY <3>1, <3>2
  <2>6. ASSUME NEW w \in Writers, CountMap(w)
        PROVE  Total' + Cardinality(Low(t)') <= t + Cardinality(Writers)
    <3>1. PICK k \in 1 .. 3 : k = next[w]
      BY <2>6 DEF CountMap, Maps
    <3>2. /\ pc[w] = "count" /\ pc'[w] = "count" /\ map' = map
          /\ sum'[w] = sum[w] + EntryCount(k) /\ next'[w] = k + 1
          /\ sum[w] \in Nat
      BY <2>6, <3>1 DEF CountMap, TypeOK
    <3>3. Reading(w) = sum[w] + Rest(k)
      BY <3>1, <3>2 DEF Reading
    <3>4. Reading(w)' = sum[w] + EntryCount(k) + Rest(k + 1)'
      BY <3>2 DEF Reading, Rest
    <3>5. Rest(k + 1)' = Rest(k + 1)
      BY <2>2, <3>2
    <3>6. EntryCount(k) + Rest(k + 1) = Rest(k)
      <4>1. EntryCount(1) \in Nat /\ EntryCount(2) \in Nat /\ EntryCount(3) \in Nat
        BY EntriesCounted
      <4>2. k = 1 \/ k = 2 \/ k = 3
        OBVIOUS
      <4> QED
        BY <4>1, <4>2 DEF Rest
    <3>7. Rest(k + 1) \in Nat /\ EntryCount(k) \in Nat
      BY ReadingsCounted, EntriesCounted
    <3>8. Reading(w)' = Reading(w)
      BY <3>2, <3>3, <3>4, <3>5, <3>6, <3>7
    <3>9. w \in Low(t)' => w \in Low(t)
      BY <3>2, <3>8 DEF Low, Passed
    <3> QED
      BY <2>1, <2>6, <3>9 DEF CountMap, TypeOK
  <2>7. ASSUME NEW w \in Writers, CheckMemory(w)
        PROVE  Total' + Cardinality(Low(t)') <= t + Cardinality(Writers)
    <3>1. CASE FitsMemory(w)
      <4>1. pc[w] = "count" /\ next[w] = 4 /\ sum[w] \in Nat
        BY <2>7 DEF CheckMemory, TypeOK, Maps
      <4>2. Reading(w) = sum[w]
        BY <1>0, <4>1 DEF Reading
      <4>3. w \in Low(t)
        BY <1>0, <3>1, <4>1, <4>2 DEF FitsMemory, Low
      <4> QED
        BY <2>1, <2>7, <4>3 DEF CheckMemory, TypeOK, local
    <3>2. CASE ~FitsMemory(w)
      <4>1. w \notin Low(t)'
        BY <2>3, <2>7, <3>2 DEF CheckMemory, TypeOK
      <4> QED
        BY <2>1, <2>7, <4>1 DEF CheckMemory, TypeOK, local
    <3> QED
      BY <3>1, <3>2
  <2>8. ASSUME NEW w \in Writers, WriteFails(w) \/ Retry(w)
        PROVE  Total' + Cardinality(Low(t)') <= t + Cardinality(Writers)
    <3>1. w \in Low(t)
      BY <2>8 DEF WriteFails, Retry, Low, Passed
    <3>2. map' = map /\ next' = next /\ sum' = sum
          /\ \A x \in Writers \ {w} : pc'[x] = pc[x]
      BY <2>8 DEF WriteFails, Retry, TypeOK, local
    <3> QED
      BY <2>1, <3>1, <3>2
  <2>9. ASSUME NEW w \in Writers, Return(w)
        PROVE  Total' + Cardinality(Low(t)') <= t + Cardinality(Writers)
    <3>1. w \notin Low(t)'
      BY <2>3, <2>9 DEF Return, TypeOK
    <3> QED
      BY <2>1, <2>9, <3>1 DEF Return, TypeOK
  <2>10. ASSUME NEW w \in Writers, WriteSucceeds(w)
         PROVE  Total' + Cardinality(Low(t)') <= t + Cardinality(Writers)
    BY <1>2, <2>10, BalancedByWrite
  <2>11. ASSUME NEW m0 \in Maps, NEW c0 \in Certs, Remove(m0, c0)
         PROVE  Total' + Cardinality(Low(t)') <= t + Cardinality(Writers)
    BY <2>11, BalancedByRemove
  <2>12. ASSUME UNCHANGED vars
         PROVE  Total' + Cardinality(Low(t)') <= t + Cardinality(Writers)
    <3>1. PICK w \in Writers : TRUE
      BY WriterAssumption
    <3>2. map' = map /\ pc' = pc /\ sum' = sum /\ next' = next
      BY <2>12 DEF vars
    <3>3. (Passed(w)' <=> Passed(w)) /\ Reading(w)' = Reading(w)
      BY <3>2, OthersStay
    <3> QED
      BY <2>1, <3>2, <3>3 DEF Low
  <2> QED
    BY <2>4, <2>5, <2>6, <2>7, <2>8, <2>9, <2>10, <2>11, <2>12 DEF Next, Progress
<1> QED
  BY <1>0, <1>1, <1>2

-----------------------------------------------------------------------------
(* The theorems *)

\* No entries, no admitted writer, every reading 0.
LEMMA InitIInv == Init => IInv
<1> SUFFICES ASSUME Init PROVE IInv
  OBVIOUS
<1>1. TypeOK /\ Fresh
  BY TypeInvariant
<1>2. \A m \in Maps : EntryCount(m) = 0
  <2>1. \A m \in Maps : Entries(m) = {}
    BY DEF Init, Entries
  <2> QED
    BY <2>1, FS_EmptySet DEF EntryCount
<1>3. Reserved
  <2>1. \A m \in Maps : Admitted(m) = {}
    BY DEF Init, Admitted
  <2> QED
    BY <1>2, <2>1, FS_EmptySet, WritersCounted, WriterAssumption DEF Reserved
<1>4. Balanced
  <2>1. Total = 0
    BY <1>2 DEF Total, Maps
  <2> SUFFICES ASSUME NEW t \in Int, t >= MaxTotal - 1
               PROVE  Total + Cardinality(Low(t)) <= t + Cardinality(Writers)
    BY DEF Balanced
  <2>2. /\ Cardinality(Writers) \in Nat /\ Cardinality(Writers) >= 1
        /\ MaxTotal \in Nat
    BY WritersCounted, WriterAssumption
  <2>3. CASE t >= 0
    <3>1. Low(t) \in SUBSET Writers
      BY DEF Low
    <3>2. Cardinality(Low(t)) \in Nat /\ Cardinality(Low(t)) <= Cardinality(Writers)
      BY <3>1, WriterSubset
    <3> QED
      BY <2>1, <2>2, <2>3, <3>2
  <2>4. CASE t < 0
    <3>1. \A w \in Writers : Reading(w) = 0 /\ ~Passed(w)
      BY <2>1 DEF Init, Reading, Passed
    <3>2. Low(t) = {}
      BY <2>4, <3>1 DEF Low
    <3> QED
      BY <2>1, <2>2, <3>2, FS_EmptySet
  <2> QED
    BY <2>3, <2>4
<1> QED
  BY <1>1, <1>3, <1>4 DEF IInv

\* The strengthened invariant holds in every reachable state.
LEMMA IInvHolds == Spec => []IInv
<1>1. IInv /\ [Next]_vars => IInv'
  BY TypeInvariant, ReservedKept, BalancedKept DEF IInv
<1> QED
  BY <1>1, InitIInv, PTL DEF Spec

\* write_directive's locals stay in range and no call starts more attempts than
\* max_retries.
THEOREM TypeCorrect == Spec => []TypeOK
<1>1. IInv => TypeOK
  BY DEF IInv
<1> QED
  BY <1>1, IInvHolds, PTL

\* For any number of concurrent calls, a map exceeds max_entries_per_map by
\* fewer entries than there are calls.
THEOREM MapOvershoot == Spec => []MapBounded
<1>1. IInv => MapBounded
  <2> SUFFICES ASSUME IInv, NEW m \in Maps
               PROVE  EntryCount(m) <= MaxEntries + Cardinality(Writers) - 1
    BY DEF MapBounded
  <2>1. Admitted(m) \in SUBSET Writers
    BY DEF Admitted
  <2>2. /\ Cardinality(Admitted(m)) \in Nat /\ EntryCount(m) \in Nat
        /\ Cardinality(Writers) \in Nat /\ MaxEntries \in Nat
    BY <2>1, WriterSubset, EntriesCounted, WritersCounted, WriterAssumption
  <2>3. EntryCount(m) + Cardinality(Admitted(m))
          <= MaxEntries + Cardinality(Writers) - 1
    BY DEF IInv, Reserved
  <2> QED
    BY <2>2, <2>3
<1> QED
  BY <1>1, IInvHolds, PTL

\* For any number of concurrent calls and any interleaving of removals with
\* the three readings, the memory cap is exceeded by fewer entries than there
\* are calls.
THEOREM MemoryOvershoot == Spec => []MemoryOvershootBounded
<1>1. IInv => MemoryOvershootBounded
  <2> SUFFICES ASSUME IInv PROVE MemoryOvershootBounded
    OBVIOUS
  <2>1. MaxTotal \in Nat /\ MaxTotal - 1 \in Int /\ MaxTotal - 1 >= MaxTotal - 1
    BY WriterAssumption
  <2>2. Total + Cardinality(Low(MaxTotal - 1))
          <= (MaxTotal - 1) + Cardinality(Writers)
    BY <2>1 DEF IInv, Balanced
  <2>3. /\ Total \in Nat /\ Cardinality(Low(MaxTotal - 1)) \in Nat
        /\ Cardinality(Writers) \in Nat
    BY ReadingsCounted, WritersCounted DEF IInv
  <2> QED
    BY <2>1, <2>2, <2>3 DEF MemoryOvershootBounded
<1> QED
  BY <1>1, IInvHolds, PTL

\* Both caps of write_directive hold, up to less than one entry per call.
THEOREM BothCaps == Spec => []CapsHeld
<1>1. MapBounded /\ MemoryOvershootBounded => CapsHeld
  BY DEF CapsHeld
<1> QED
  BY <1>1, MapOvershoot, MemoryOvershoot, PTL

-----------------------------------------------------------------------------
(* Refusals *)

\* The entries of the maps a counting writer has read.
Counted(k) ==
  (IF k > 1 THEN EntryCount(1) ELSE 0) + (IF k > 2 THEN EntryCount(2) ELSE 0)
  + (IF k > 3 THEN EntryCount(3) ELSE 0)

\* A sum is what is still in the maps it was read from, and at most as much more
\* as has gone from them since.
Explained(w) ==
  pc[w] = "count" => gone[w] = MaxTotal \/ sum[w] <= Counted(next[w]) + gone[w]

\* The counts are numbers, and those of untouched maps stay.
LEMMA CountedFacts ==
  /\ \A k \in 1 .. 4 : Counted(k) \in Nat /\ Counted(k)' \in Nat
  /\ Counted(1) = 0 /\ Counted(1)' = 0 /\ Counted(4) = Total
  /\ \A k \in Maps : Counted(k + 1) = Counted(k) + EntryCount(k)
  /\ map' = map => \A k \in 1 .. 4 : Counted(k)' = Counted(k)
<1>1. /\ EntryCount(1) \in Nat /\ EntryCount(2) \in Nat /\ EntryCount(3) \in Nat
      /\ EntryCount(1)' \in Nat /\ EntryCount(2)' \in Nat /\ EntryCount(3)' \in Nat
  BY EntriesCounted, EntriesCountedNext
<1>2. \A k \in 1 .. 4 : Counted(k) \in Nat /\ Counted(k)' \in Nat
  BY <1>1 DEF Counted
<1>3. Counted(1) = 0 /\ Counted(1)' = 0 /\ Counted(4) = Total
  BY <1>1 DEF Counted, Total
<1>4. \A k \in Maps : Counted(k + 1) = Counted(k) + EntryCount(k)
  BY <1>1 DEF Counted, Maps
<1>5. map' = map => \A k \in 1 .. 4 : Counted(k)' = Counted(k)
  BY MapsUntouched DEF Counted
<1> QED
  BY <1>2, <1>3, <1>4, <1>5

\* A writer that does not move and whose maps have not shrunk stays explained.
LEMMA StaysExplained ==
  ASSUME TypeOK, TypeOK', NEW x \in Writers, Explained(x),
         pc'[x] = pc[x], sum'[x] = sum[x], next'[x] = next[x], gone'[x] = gone[x],
         \A k \in 1 .. 4 : Counted(k)' >= Counted(k)
  PROVE  Explained(x)'
<1>1. next[x] \in 1 .. 4 /\ sum[x] \in Nat /\ gone[x] \in Nat
  BY WriterAssumption DEF TypeOK
<1>2. Counted(next[x]) \in Nat /\ Counted(next[x])' \in Nat
  BY <1>1, CountedFacts
<1>3. Counted(next[x])' >= Counted(next[x])
  <2>1. PICK k \in 1 .. 4 : k = next[x]
    BY <1>1
  <2>2. Counted(next[x])' = Counted(k)' /\ Counted(next[x]) = Counted(k)
    BY <2>1 DEF Counted
  <2> QED
    BY <2>2
<1> QED
  BY <1>1, <1>2, <1>3 DEF Explained

\* Every step keeps every sum explained.
LEMMA ExplainedKept ==
  ASSUME TypeOK, TypeOK', Fresh, \A x \in Writers : Explained(x), [Next]_vars
  PROVE  (\A x \in Writers : Explained(x))'
<1> SUFFICES ASSUME NEW x \in Writers PROVE Explained(x)'
  OBVIOUS
<1>0. /\ next[x] \in 1 .. 4 /\ sum[x] \in Nat /\ gone[x] \in 0 .. MaxTotal
      /\ next'[x] \in 1 .. 4 /\ gone'[x] \in 0 .. MaxTotal /\ MaxTotal \in Nat
      /\ Explained(x)
  BY WriterAssumption DEF TypeOK
<1>1. ASSUME map' = map
      PROVE  \A k \in 1 .. 4 : Counted(k)' >= Counted(k)
  <2> SUFFICES ASSUME NEW k \in 1 .. 4 PROVE Counted(k)' >= Counted(k)
    OBVIOUS
  <2>1. Counted(k) \in Nat /\ Counted(k)' = Counted(k)
    BY <1>1, CountedFacts
  <2> QED
    BY <2>1
\* One writer steps without touching a map.
<1>2. ASSUME NEW w \in Writers, map' = map,
             pc' = [pc EXCEPT ![w] = pc'[w]], sum' = [sum EXCEPT ![w] = sum'[w]],
             next' = [next EXCEPT ![w] = next'[w]], gone' = [gone EXCEPT ![w] = gone'[w]],
             Explained(w)'
      PROVE  Explained(x)'
  <2>1. CASE x = w
    BY <1>2, <2>1
  <2>2. CASE x # w
    <3>1. /\ pc'[x] = pc[x] /\ sum'[x] = sum[x]
          /\ next'[x] = next[x] /\ gone'[x] = gone[x]
      BY <1>2, <2>2 DEF TypeOK
    <3> QED
      BY <1>0, <1>1, <1>2, <3>1, StaysExplained
  <2> QED
    BY <2>1, <2>2
<1>3. ASSUME NEW w \in Writers, NEW j \in Jobs, Call(w, j) PROVE Explained(x)'
  <2>1. Explained(w)'
    BY <1>3 DEF Call, Explained, TypeOK
  <2> QED
    BY <1>2, <1>3, <2>1 DEF Call, TypeOK
<1>4. ASSUME NEW w \in Writers, CheckCapacity(w) PROVE Explained(x)'
  <2>1. sum'[w] = 0 /\ next'[w] = 1 /\ gone'[w] \in Nat
    BY <1>4, WriterAssumption DEF CheckCapacity, Fresh, local, TypeOK
  <2>2. Counted(next[w])' = 0
    BY <2>1 DEF Counted
  <2>3. Explained(w)'
    BY <2>1, <2>2 DEF Explained
  <2> QED
    BY <1>2, <1>4, <2>3 DEF CheckCapacity, local, TypeOK
<1>5. ASSUME NEW w \in Writers, CountMap(w) PROVE Explained(x)'
  <2>1. PICK k \in Maps : k = next[w]
    BY <1>5 DEF CountMap
  <2>2. /\ sum'[w] = sum[w] + EntryCount(k) /\ next'[w] = k + 1 /\ map' = map
        /\ pc[w] = "count" /\ gone'[w] = gone[w] /\ k \in 1 .. 4 /\ k + 1 \in 1 .. 4
        /\ sum[w] \in Nat /\ gone[w] \in Nat
    BY <1>5, <2>1, WriterAssumption DEF CountMap, TypeOK, Maps
  <2>3. Counted(next[w])' = Counted(k + 1)'
    BY <2>2 DEF Counted
  <2>4. /\ Counted(k + 1)' = Counted(k) + EntryCount(k)
        /\ Counted(k) \in Nat /\ EntryCount(k) \in Nat
    BY <2>2, CountedFacts, EntriesCounted
  <2>5. gone[w] = MaxTotal \/ sum[w] <= Counted(k) + gone[w]
    BY <2>1, <2>2 DEF Explained
  <2>6. Explained(w)'
    BY <2>2, <2>3, <2>4, <2>5 DEF Explained
  <2> QED
    BY <1>2, <1>5, <2>6 DEF CountMap, TypeOK
<1>6. ASSUME NEW w \in Writers, CheckMemory(w) PROVE Explained(x)'
  <2>1. Explained(w)'
    BY <1>6 DEF CheckMemory, Explained, TypeOK
  <2> QED
    BY <1>2, <1>6, <2>1 DEF CheckMemory, local, TypeOK
<1>7. ASSUME NEW w \in Writers, WriteFails(w) \/ Retry(w) \/ Return(w)
      PROVE  Explained(x)'
  <2>1. map' = map /\ pc'[w] # "count"
    BY <1>7 DEF WriteFails, Retry, Return, TypeOK
  <2>2. Explained(w)'
    BY <2>1 DEF Explained
  <2>3. /\ pc' = [pc EXCEPT ![w] = pc'[w]] /\ sum' = [sum EXCEPT ![w] = sum'[w]]
        /\ next' = [next EXCEPT ![w] = next'[w]]
        /\ gone' = [gone EXCEPT ![w] = gone'[w]]
    BY <1>7 DEF WriteFails, Retry, Return, local, TypeOK
  <2> QED
    BY <1>2, <2>1, <2>2, <2>3
<1>8. ASSUME NEW w \in Writers, WriteSucceeds(w) PROVE Explained(x)'
  <2>1. PICK m0 : m0 = job[w].map
    OBVIOUS
  <2>2. PICK c0 : c0 = job[w].cert
    OBVIOUS
  <2>3. /\ m0 \in Maps
        /\ \A m \in Maps : m # m0 => EntryCount(m)' = EntryCount(m)
        /\ EntryCount(m0)' = EntryCount(m0) \/ EntryCount(m0)' = EntryCount(m0) + 1
    BY <1>8, <2>1, <2>2, WriteEffect
  <2>4. \A m \in Maps : EntryCount(m) \in Nat /\ EntryCount(m)' >= EntryCount(m)
    BY <2>3, EntriesCounted
  <2>5. \A k \in 1 .. 4 : Counted(k)' >= Counted(k)
    BY <2>4, EntriesCounted, EntriesCountedNext DEF Counted, Maps
  <2>6. CASE x = w
    BY <1>8, <2>6 DEF WriteSucceeds, TypeOK, Explained
  <2>7. CASE x # w
    <3>1. /\ pc'[x] = pc[x] /\ sum'[x] = sum[x]
          /\ next'[x] = next[x] /\ gone'[x] = gone[x]
      BY <1>8, <2>7 DEF WriteSucceeds, TypeOK, local
    <3> QED
      BY <1>0, <2>5, <3>1, StaysExplained
  <2> QED
    BY <2>6, <2>7
<1>9. ASSUME NEW m0 \in Maps, NEW c0 \in Certs, Remove(m0, c0) PROVE Explained(x)'
  <2>1. /\ pc'[x] = pc[x] /\ sum'[x] = sum[x] /\ next'[x] = next[x]
        /\ gone'[x] = IF HasCounted(x, m0) /\ gone[x] < MaxTotal
                        THEN gone[x] + 1 ELSE gone[x]
    BY <1>9 DEF Remove, local
  <2>2. /\ \A m \in Maps : m # m0 => EntryCount(m)' = EntryCount(m)
        /\ EntryCount(m0)' = EntryCount(m0) - 1
    BY <1>9, RemoveEffect
  <2>3. /\ EntryCount(1) \in Nat /\ EntryCount(2) \in Nat /\ EntryCount(3) \in Nat
        /\ EntryCount(1)' \in Nat /\ EntryCount(2)' \in Nat /\ EntryCount(3)' \in Nat
    BY EntriesCounted, EntriesCountedNext
  <2>4. \A k \in 1 .. 4 :
          Counted(k)' = IF m0 < k THEN Counted(k) - 1 ELSE Counted(k)
    <3>1. m0 = 1 \/ m0 = 2 \/ m0 = 3
      BY DEF Maps
    <3>2. 1 \in Maps /\ 2 \in Maps /\ 3 \in Maps
      BY DEF Maps
    <3> QED
      BY <2>2, <2>3, <3>1, <3>2 DEF Counted
  <2>5. PICK k \in 1 .. 4 : k = next[x]
    BY <1>0
  <2>6. Counted(next[x])' = Counted(k)' /\ Counted(next[x]) = Counted(k)
    BY <2>1, <2>5 DEF Counted
  <2>7. Counted(k) \in Nat /\ Counted(k)' = IF m0 < k THEN Counted(k) - 1 ELSE Counted(k)
    BY <2>4, CountedFacts
  <2> SUFFICES ASSUME pc[x] = "count", gone[x] # MaxTotal
               PROVE  sum[x] <= Counted(k)' + gone'[x]
    BY <1>0, <2>1, <2>6 DEF Explained, HasCounted
  <2>8. sum[x] <= Counted(k) + gone[x] /\ gone[x] < MaxTotal
    BY <1>0, <2>6 DEF Explained
  <2>9. HasCounted(x, m0) <=> m0 < k
    BY <2>5 DEF HasCounted
  <2> QED
    BY <1>0, <2>1, <2>7, <2>8, <2>9
<1>10. CASE UNCHANGED vars
  BY <1>0, <1>10, <1>1, StaysExplained DEF vars
<1> QED
  BY <1>3, <1>4, <1>5, <1>6, <1>7, <1>8, <1>9, <1>10 DEF Next, Progress

\* For any number of concurrent calls: a directive is refused for memory only if the
\* cap is reached, but for the entries removed from maps the call had counted already.
THEOREM RefusalsAreFounded == Spec => RefusalsFounded
<1> DEFINE All == \A x \in Writers : Explained(x)
           Step == \A w \in Writers :
                     pc[w] = "count" /\ pc'[w] = "map_full" => Total + gone[w] >= MaxTotal
<1>1. Init => All
  BY DEF Init, Explained
<1>2. IInv /\ IInv' /\ All /\ [Next]_vars => All'
  BY ExplainedKept DEF IInv
<1>3. IInv /\ All /\ [Next]_vars => [Step]_vars
  <2> SUFFICES ASSUME IInv, All, Next, NEW w \in Writers,
                      pc[w] = "count", pc'[w] = "map_full"
               PROVE  Total + gone[w] >= MaxTotal
    OBVIOUS
  <2>1. CheckMemory(w) /\ ~FitsMemory(w)
    <3> USE DEF IInv, TypeOK
    <3>1. ASSUME NEW v \in Writers, v # w,
                 (\E j \in Jobs : Call(v, j)) \/ Progress(v)
          PROVE  FALSE
      BY <3>1 DEF Call, Progress, CheckCapacity, CountMap, CheckMemory, WriteSucceeds,
                  WriteFails, Retry, Return
    <3>2. ~\E m \in Maps, c \in Certs : Remove(m, c)
      BY DEF Remove
    <3>3. (\E j \in Jobs : Call(w, j)) \/ Progress(w)
      BY <3>1, <3>2 DEF Next
    <3>4. CheckMemory(w)
      BY <3>3 DEF Call, Progress, CheckCapacity, CountMap, WriteSucceeds, WriteFails,
                  Retry, Return, Outcomes
    <3> QED
      BY <3>4 DEF CheckMemory
  <2>2. next[w] = 4 /\ sum[w] \in Nat /\ gone[w] \in Nat /\ MaxTotal \in Nat
    BY <2>1, WriterAssumption DEF CheckMemory, IInv, TypeOK, Maps
  <2>3. Total \in Nat /\ Counted(next[w]) = Total
    BY <2>2, CountedFacts, ReadingsCounted DEF IInv, Counted, Total
  <2>4. gone[w] = MaxTotal \/ sum[w] <= Total + gone[w]
    BY <2>3 DEF Explained
  <2>5. sum[w] >= MaxTotal
    BY <2>1, <2>2 DEF FitsMemory
  <2> QED
    BY <2>2, <2>3, <2>4, <2>5
<1> QED
  BY <1>1, <1>2, <1>3, IInvHolds, PTL DEF Spec, RefusalsFounded

=============================================================================
