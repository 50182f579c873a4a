----------------------------- MODULE MapWriter -----------------------------
(***************************************************************************)
(* MapWriterService (tlapix-executor/src/map_writer.rs): tasks that write  *)
(* directives into three BPF maps shared by all of them.                   *)
(*                                                                         *)
(* write_directive takes the lock of the target map to look at its size,   *)
(* lets go of it, takes the three locks one after the other to add up the  *)
(* total, lets go of each, and only then writes, locking anew for every    *)
(* attempt.  Each critical section is one action here.                     *)
(*                                                                         *)
(* An entry is abstracted to its severity, 0 when the key is absent; the   *)
(* memory cap is counted in entries.  The kernel map behind a writer, and  *)
(* the callers of remove_entry, are external.  The optional notifier hears *)
(* of failures and touches neither the maps nor the outcome; it is left    *)
(* out.                                                                    *)
(***************************************************************************)
EXTENDS Integers, FiniteSets

CONSTANTS
  Writers,       \* tasks inside write_directive
  Certs,         \* certificate fingerprints
  MaxSeverity,   \* severities are 1 .. MaxSeverity
  MaxEntries,    \* max_entries_per_map
  MapSize,       \* capacity the kernel map itself was created with
  MaxTotal,      \* max_total_memory_bytes / BPF_ACTION_ENTRY_SIZE
  MaxRetries     \* max_retries

ASSUME WriterAssumption ==
  /\ IsFiniteSet(Writers) /\ Writers # {} /\ IsFiniteSet(Certs)
  /\ MaxSeverity \in Nat \ {0}
  /\ MaxEntries \in Nat /\ MapSize \in Nat /\ MaxTotal \in Nat
  /\ MaxRetries \in Nat \ {0}

\* The order in which total_entry_count locks the maps.
Maps == 1 .. 3      \* 1 alert (and renew), 2 protect, 3 isolate

VARIABLES
  map,      \* map[m][c]: severity of the entry for c in map m, or 0
  pc,       \* where each writer stands in write_directive
  job,      \* the directive each writer carries: its map, key and severity
  next,     \* the map whose entries the writer adds up next
  sum,      \* entries the writer has added up so far
  attempt,  \* failed attempts of the retry loop
  gone      \* history: entries removed from a map after the writer had counted it

vars == <<map, pc, job, next, sum, attempt, gone>>
local == <<job, next, sum, attempt>>

Jobs == [map : Maps, cert : Certs, sev : 1 .. MaxSeverity]
NoJob == [map |-> 0, cert |-> 0, sev |-> 0]

Entries(m) == {c \in Certs : map[m][c] # 0}
EntryCount(m) == Cardinality(Entries(m))
Total == EntryCount(1) + EntryCount(2) + EntryCount(3)

\* write_directive is called with some directive; select_map, directive_to_entry.
Call(w, j) ==
  /\ pc[w] = "idle"
  /\ pc' = [pc EXCEPT ![w] = "capacity"]
  /\ job' = [job EXCEPT ![w] = j]
  /\ UNCHANGED <<map, next, sum, attempt, gone>>

\* Mutant: a full map is let through.
HasRoom_Inclusive(w) == EntryCount(job[w].map) <= MaxEntries

HasRoom(w) == EntryCount(job[w].map) < MaxEntries

\* First critical section: the target map is full or not.
CheckCapacity(w) ==
  /\ pc[w] = "capacity"
  /\ pc' = [pc EXCEPT ![w] = IF HasRoom(w) THEN "count" ELSE "map_full"]
  /\ UNCHANGED <<map, local, gone>>

\* total_entry_count, one map at a time.
CountMap(w) ==
  /\ pc[w] = "count" /\ next[w] \in Maps
  /\ sum' = [sum EXCEPT ![w] = @ + EntryCount(next[w])]
  /\ next' = [next EXCEPT ![w] = @ + 1]
  /\ UNCHANGED <<map, pc, job, attempt, gone>>

\* Mutant: the entry the directive is about to add is counted twice.
FitsMemory_Strict(w) == sum[w] + 1 < MaxTotal

FitsMemory(w) == sum[w] + 1 <= MaxTotal

\* The sum of three separate readings against the memory cap.
CheckMemory(w) ==
  /\ pc[w] = "count" /\ next[w] \notin Maps
  /\ pc' = [pc EXCEPT ![w] = IF FitsMemory(w) THEN "write" ELSE "map_full"]
  /\ UNCHANGED <<map, local, gone>>

\* External: a hash map takes a known key always, a new one while it has room.
KernelAccepts(w) ==
  \/ job[w].cert \in Entries(job[w].map)
  \/ EntryCount(job[w].map) < MapSize

WriteSucceeds(w) ==
  /\ pc[w] = "write"
  /\ KernelAccepts(w)
  /\ map' = [map EXCEPT ![job[w].map][job[w].cert] = job[w].sev]
  /\ pc' = [pc EXCEPT ![w] = "success"]
  /\ UNCHANGED <<local, gone>>

LastAttempt(w) == attempt[w] + 1 = MaxRetries

\* Any error, a transient one or the kernel map being full, takes the same path.
WriteFails(w) ==
  /\ pc[w] = "write"
  /\ attempt' = [attempt EXCEPT ![w] = @ + 1]
  /\ pc' = [pc EXCEPT ![w] = IF LastAttempt(w) THEN "failed" ELSE "sleep"]
  /\ UNCHANGED <<map, job, next, sum, gone>>

\* The backoff sleep ends; nothing is looked at again before the next attempt.
Retry(w) ==
  /\ pc[w] = "sleep"
  /\ pc' = [pc EXCEPT ![w] = "write"]
  /\ UNCHANGED <<map, local, gone>>

Outcomes == {"success", "map_full", "failed"}

\* write_directive returns its ExecutionOutcome; its locals go out of scope.
Return(w) ==
  /\ pc[w] \in Outcomes
  /\ pc' = [pc EXCEPT ![w] = "idle"]
  /\ job' = [job EXCEPT ![w] = NoJob]
  /\ next' = [next EXCEPT ![w] = 1]
  /\ sum' = [sum EXCEPT ![w] = 0]
  /\ attempt' = [attempt EXCEPT ![w] = 0]
  /\ gone' = [gone EXCEPT ![w] = 0]
  /\ UNCHANGED map

\* w is adding up the total and has left map m behind.
HasCounted(w, m) == pc[w] = "count" /\ m < next[w]

\* External: expiry removes an entry by fingerprint.  The history is kept up to
\* MaxTotal: more could not matter.
Remove(m, c) ==
  /\ map[m][c] # 0
  /\ map' = [map EXCEPT ![m][c] = 0]
  /\ gone' = [w \in Writers |-> IF HasCounted(w, m) /\ gone[w] < MaxTotal
                                 THEN gone[w] + 1 ELSE gone[w]]
  /\ UNCHANGED <<pc, local>>

Init ==
  /\ map = [m \in Maps |-> [c \in Certs |-> 0]]
  /\ pc = [w \in Writers |-> "idle"]
  /\ job = [w \in Writers |-> NoJob]
  /\ next = [w \in Writers |-> 1]
  /\ sum = [w \in Writers |-> 0]
  /\ attempt = [w \in Writers |-> 0]
  /\ gone = [w \in Writers |-> 0]

Progress(w) ==
  \/ CheckCapacity(w) \/ CountMap(w) \/ CheckMemory(w)
  \/ WriteSucceeds(w) \/ WriteFails(w) \/ Retry(w) \/ Return(w)

Next ==
  \/ \E w \in Writers : (\E j \in Jobs : Call(w, j)) \/ Progress(w)
  \/ \E m \in Maps, c \in Certs : Remove(m, c)

Spec == Init /\ [][Next]_vars

-----------------------------------------------------------------------------
(* Correctness *)

\* Types, and what each place in write_directive says of the locals: only the
\* retry loop counts attempts, and it never starts more than MaxRetries of them.
TypeOK ==
  /\ map \in [Maps -> [Certs -> 0 .. MaxSeverity]]
  /\ pc \in [Writers -> {"idle", "capacity", "count", "write", "sleep"}
                          \cup Outcomes]
  /\ job \in [Writers -> Jobs \cup {NoJob}]
  /\ next \in [Writers -> 1 .. 4]
  /\ sum \in [Writers -> Nat]
  /\ attempt \in [Writers -> 0 .. MaxRetries]
  /\ gone \in [Writers -> 0 .. MaxTotal]
  /\ \A w \in Writers : pc[w] = "idle" <=> job[w] = NoJob
  /\ \A w \in Writers : pc[w] \in {"write", "sleep"} => attempt[w] < MaxRetries

\* The size check and the write are separate critical sections, yet the tasks
\* between them are the only overshoot: a map holds at most one entry per extra
\* task beyond max_entries_per_map, however large the kernel map behind it is.
MapBounded ==
  \A m \in Maps : EntryCount(m) <= MaxEntries + Cardinality(Writers) - 1

\* The total is added up from three readings taken at different times, while
\* other tasks write and expiry removes.  Still no more than one entry per
\* extra task exceeds the memory cap.
MemoryOvershootBounded == Total <= MaxTotal + Cardinality(Writers) - 1

\* Both caps hold up to that overshoot (write_directive).
CapsHeld == MapBounded /\ MemoryOvershootBounded

\* The other direction: a directive is refused for memory only when the cap is
\* reached.  The readings are stale when they are compared, but all that can have
\* made them too high is entries removed after their map was counted; writes in
\* between never do (total_entry_count, write_directive).
RefusalsFounded ==
  [][\A w \in Writers :
       pc[w] = "count" /\ pc'[w] = "map_full" => Total + gone[w] >= MaxTotal]_vars

=============================================================================
