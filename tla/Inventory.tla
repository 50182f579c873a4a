------------------------------ MODULE Inventory ------------------------------
(***************************************************************************)
(* The inventory manager (tlapix-analyzer/src/inventory.rs): it imports a  *)
(* list of known certificates entry by entry, removes what the list no     *)
(* longer has, and keeps the time of its last success, in memory and in    *)
(* the table inventory_refresh_log, for a restart.                         *)
(*                                                                         *)
(* How the shadow detection uses the inventory is in ShadowLifecycle.      *)
(***************************************************************************)
EXTENDS Clock, Integers, Sequences, FiniteSets, SequencesExt

CONSTANTS
  Fps,         \* fingerprints
  Sources,     \* the lists of raw entries a source may have
  Minute,      \* ticks of the clock in a minute
  StaleMinutes,  \* the 60 of is_stale
  InventoryTime,     \* bound of the clock
  MaxRefreshes, MaxRestarts, MaxInventoryFaults  \* bounds of refreshes, restarts, faults

\* A raw entry: the hex digits of a fingerprint, or none or too few of them,
\* and whether there is a subject.
Raw == [fp : Fps \cup {"malformed"}, subject : BOOLEAN]

ASSUME InventoryAssumption ==
  /\ \A s \in Sources : s \in Seq(Raw)
  /\ Minute \in Nat \ {0} /\ StaleMinutes \in Nat /\ InventoryTime \in Nat
  /\ IsFiniteSet(Fps)
  /\ MaxRefreshes \in Nat /\ MaxRestarts \in Nat /\ MaxInventoryFaults \in Nat

Never == 0 - 1

VARIABLES
  source,     \* what the file or the API has
  table,      \* certificate_inventory: the refresh that wrote each entry, 0 if none
  refreshLog, \* inventory_refresh_log: time and success of each row
  last,       \* last_successful_refresh
  manager,    \* the refresh that is going on, with its counts
  spent,      \* refreshes, restarts and faults so far
  succeeded,  \* history: what the last refresh that reached its end had read
  endedAt     \* history: when that was

inventoryVars == <<source, table, refreshLog, last, manager, spent, succeeded, endedAt>>

Idle == [pc |-> "idle", id |-> 0, todo |-> <<>>, read |-> <<>>,
         total |-> 0, skipped |-> 0, removed |-> 0]

InTable == {f \in Fps : table[f] # 0}

\* validate_entry, parse_hex_fingerprint.
Valid(raw) == raw.fp \in Fps /\ raw.subject
Listed(entries) == {raw.fp : raw \in {r \in ToSet(entries) : Valid(r)}}

-----------------------------------------------------------------------------
(* External: the clock, the source *)

InventoryTick ==
  /\ Passes(InventoryTime)
  /\ UNCHANGED inventoryVars

SourceChanges ==
  /\ \E s \in Sources \ {source} : source' = s
  /\ UNCHANGED <<now, table, refreshLog, last, manager, spent, succeeded, endedAt>>

Fault ==
  /\ spent.faults < MaxInventoryFaults
  /\ spent' = [spent EXCEPT !.faults = @ + 1]

-----------------------------------------------------------------------------
(* refresh *)

LogRow(success) == refreshLog' = Append(refreshLog, [at |-> now, success |-> success])

\* The poll interval is over: the source is read under a new refresh id.
Begin ==
  /\ manager.pc = "idle" /\ spent.refreshes < MaxRefreshes
  /\ spent' = [spent EXCEPT !.refreshes = @ + 1]
  /\ manager' = [Idle EXCEPT !.pc = "import", !.id = spent.refreshes + 1,
                             !.todo = source, !.read = source]
  /\ UNCHANGED <<now, source, table, refreshLog, last, succeeded, endedAt>>

\* The source cannot be reached: an API's failure is logged, a file's is not.
Unreachable ==
  /\ manager.pc = "idle" /\ Fault
  /\ LogRow(FALSE) \/ UNCHANGED refreshLog
  /\ UNCHANGED <<now, source, table, last, manager, succeeded, endedAt>>

\* Mutant: the table is emptied before the first entry is imported.
Before_Cleared == [f \in Fps |-> IF table[f] = manager.id THEN table[f] ELSE 0]

\* What the import of an entry finds in the table.
Before == table

\* upsert_inventory_entry, or the entry is skipped.
ImportEntry ==
  /\ manager.pc = "import" /\ manager.todo # <<>>
  /\ LET raw == Head(manager.todo)
     IN  /\ table' = IF Valid(raw) THEN [Before EXCEPT ![raw.fp] = manager.id] ELSE table
         /\ manager' = [manager EXCEPT !.todo = Tail(@),
                          !.total = @ + (IF Valid(raw) THEN 1 ELSE 0),
                          !.skipped = @ + (IF Valid(raw) THEN 0 ELSE 1)]
  /\ UNCHANGED <<now, source, refreshLog, last, spent, succeeded, endedAt>>

\* remove_stale_inventory_entries.
RemoveStale ==
  /\ manager.pc = "import" /\ manager.todo = <<>>
  /\ LET stale == {f \in InTable : table[f] # manager.id}
     IN  /\ table' = [f \in Fps |-> IF f \in stale THEN 0 ELSE table[f]]
         /\ manager' = [manager EXCEPT !.pc = "stamp", !.removed = Cardinality(stale)]
  /\ succeeded' = manager.read
  /\ UNCHANGED <<now, source, refreshLog, last, spent, endedAt>>

\* last_successful_refresh.
Stamp ==
  /\ manager.pc = "stamp"
  /\ last' = now /\ endedAt' = now
  /\ manager' = [manager EXCEPT !.pc = "log"]
  /\ UNCHANGED <<now, source, table, refreshLog, spent, succeeded>>

LogSuccess ==
  /\ manager.pc = "log"
  /\ LogRow(TRUE)
  /\ manager' = Idle /\ endedAt' = now
  /\ UNCHANGED <<now, source, table, last, spent, succeeded>>

\* A statement fails: refresh returns where it stands.
StorageFails ==
  /\ manager.pc \in {"import", "log"} /\ Fault
  /\ manager' = Idle
  /\ UNCHANGED <<now, source, table, refreshLog, last, succeeded, endedAt>>

-----------------------------------------------------------------------------
(* Restart *)

\* Mutant: the time of the last row is taken, whatever it says.
FromLog_AnyRow == Last(refreshLog).at

\* initialize_from_storage, get_latest_refresh_log.
FromLog == IF Last(refreshLog).success THEN Last(refreshLog).at ELSE Never

Restart ==
  /\ spent.restarts < MaxRestarts
  /\ spent' = [spent EXCEPT !.restarts = @ + 1]
  /\ manager' = Idle
  /\ last' = IF refreshLog = <<>> THEN Never ELSE FromLog
  /\ UNCHANGED <<now, source, table, refreshLog, succeeded, endedAt>>

\* is_stale, with num_minutes, which counts whole minutes; never so while no success
\* is known.
IsStale == last # Never /\ (now - last) \div Minute > StaleMinutes

-----------------------------------------------------------------------------
InventoryInit ==
  /\ now = 0 /\ source \in Sources
  /\ table = [f \in Fps |-> 0]
  /\ refreshLog = <<>> /\ last = Never
  /\ manager = Idle
  /\ spent = [refreshes |-> 0, restarts |-> 0, faults |-> 0]
  /\ succeeded = <<>> /\ endedAt = Never

InventoryNext ==
  \/ InventoryTick \/ SourceChanges
  \/ Begin \/ Unreachable \/ ImportEntry \/ RemoveStale \/ Stamp \/ LogSuccess
  \/ StorageFails \/ Restart

InventorySpec == InventoryInit /\ [][InventoryNext]_<<now, inventoryVars>>

-----------------------------------------------------------------------------
(* Correctness *)

\* What the last refresh to reach its end has read stays in the inventory until
\* the next one has imported its whole list, whatever fails in between, and then
\* the inventory is that list (inventory.rs, refresh): a known certificate must
\* never look like a shadow certificate for a while.
NeverMissing ==
  /\ Listed(succeeded) \subseteq InTable
  /\ manager.pc \in {"stamp", "log"} => InTable = Listed(manager.read)

\* An inventory that is not called stale was refreshed with success less than
\* StaleMinutes + 1 minutes ago, also if that was before a restart and other refreshes
\* have failed since, or else the manager knows of no success and the log has none to
\* tell: it is empty, or its latest row is of a failure (inventory.rs, is_stale,
\* initialize_from_storage).  In that last case the inventory may be of any age.
FreshIsRecent ==
  ~IsStale =>
    \/ endedAt # Never /\ now - endedAt < (StaleMinutes + 1) * Minute
    \/ last = Never /\ (refreshLog = <<>> \/ ~Last(refreshLog).success)
=============================================================================
