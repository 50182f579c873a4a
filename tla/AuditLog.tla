------------------------------ MODULE AuditLog ------------------------------
(***************************************************************************)
(* The audit trail (tlapix-common/src/audit.rs) in the table audit_log     *)
(* (storage.rs): the stages of every decision are logged by tasks that run *)
(* at the same time, while old entries are cleaned up and the storage      *)
(* fails and recovers.                                                     *)
(*                                                                         *)
(* A decision is one correlation id; its stages are logged one after       *)
(* another, each after the answer for the one before.                      *)
(***************************************************************************)
EXTENDS Clock, Integers, Sequences, FiniteSets, Functions

CONSTANTS
  Decisions,   \* correlation ids
  AuditRetention,   \* audit_retention_days
  AuditTime,     \* bound of the clock
  MaxFaults,   \* bound: how often the storage fails
  MaxProbes    \* bound: calls of try_restore_health

ASSUME AuditAssumption ==
  /\ AuditRetention \in Nat /\ AuditTime \in Nat
  /\ MaxFaults \in Nat /\ MaxProbes \in Nat

VARIABLES
  failing,   \* whether the storage fails
  faults,
  log,       \* the rows of audit_log
  rowid,     \* sqlite_sequence: the last id that was given to a row
  healthy,   \* AuditLogger.healthy
  writer,    \* of each decision: the write_entry that is going on
  probe,     \* of try_restore_health: how many, and the read that has succeeded
  kept,      \* history: the stages that were answered Ok, with their time
  lastWrite  \* history: whether the last write to the table succeeded

calls == <<writer, probe>>
history == <<kept, lastWrite>>
rows == <<log, rowid>>
auditVars == <<failing, faults, rows, healthy, calls, history>>

Stages == <<"observation", "analysis", "action">>

-----------------------------------------------------------------------------
(* External: the clock, the storage *)

AuditTick ==
  /\ Passes(AuditTime)
  /\ UNCHANGED auditVars

Fail ==
  /\ ~failing /\ faults < MaxFaults
  /\ failing' = TRUE /\ faults' = faults + 1
  /\ UNCHANGED <<now, rows, healthy, calls, history>>

Repair ==
  /\ failing
  /\ failing' = FALSE
  /\ UNCHANGED <<now, faults, rows, healthy, calls, history>>

-----------------------------------------------------------------------------
(* write_entry *)

GoesOn(d, pc) == writer' = [writer EXCEPT ![d].pc = pc]

\* log_observation, log_analysis, log_action: the row with its time stamp.
Log(d) ==
  /\ writer[d].pc = "idle" /\ writer[d].done < Len(Stages)
  /\ writer' = [writer EXCEPT ![d].pc = "insert", ![d].at = now]
  /\ UNCHANGED <<now, failing, faults, rows, healthy, probe, history>>

Row(d) == [id |-> d, stage |-> writer[d].done + 1, at |-> writer[d].at]

\* insert_audit_log.
Insert(d) ==
  /\ writer[d].pc = "insert"
  /\ IF failing THEN UNCHANGED rows
     ELSE /\ rowid' = rowid + 1
          /\ log' = log \cup {[row |-> rowid + 1, entry |-> Row(d)]}
  /\ lastWrite' = ~failing
  /\ GoesOn(d, IF failing THEN "fail" ELSE "load")
  /\ UNCHANGED <<now, failing, faults, healthy, probe, kept>>

Answered(d, pc) ==
  /\ writer' = [writer EXCEPT ![d].pc = pc, ![d].done = @ + 1]
  /\ kept' = kept \cup {Row(d)}

\* The insertion succeeded: the flag is read,
LoadHealth(d) ==
  /\ writer[d].pc = "load"
  /\ IF healthy THEN Answered(d, "idle") ELSE GoesOn(d, "store") /\ UNCHANGED kept
  /\ UNCHANGED <<now, failing, faults, rows, healthy, probe, lastWrite>>

\* and set in a step of its own.
StoreHealthy(d) ==
  /\ writer[d].pc = "store"
  /\ healthy' = TRUE
  /\ Answered(d, "idle")
  /\ UNCHANGED <<now, failing, faults, rows, probe, lastWrite>>

\* The insertion failed; whoever called may log the stage again.
StoreUnhealthy(d) ==
  /\ writer[d].pc = "fail"
  /\ healthy' = FALSE
  /\ GoesOn(d, "idle")
  /\ UNCHANGED <<now, failing, faults, rows, probe, history>>

-----------------------------------------------------------------------------
(* try_restore_health *)

\* It reads, and writes nothing.
ProbeReads ==
  /\ ~probe.ok /\ probe.count < MaxProbes
  /\ probe' = [count |-> probe.count + 1, ok |-> ~failing]
  /\ UNCHANGED <<now, failing, faults, rows, healthy, writer, history>>

ProbeRestores ==
  /\ probe.ok
  /\ healthy' = TRUE
  /\ probe' = [probe EXCEPT !.ok = FALSE]
  /\ UNCHANGED <<now, failing, faults, rows, writer, history>>

-----------------------------------------------------------------------------
(* The table *)

\* Mutant: the cut-off is one day too late.
Old_Inclusive(entry) == entry.at <= now - AuditRetention

Old(entry) == entry.at < now - AuditRetention

\* cleanup_old_audit_logs.
Cleanup ==
  /\ ~failing
  /\ \E r \in log : Old(r.entry)
  /\ log' = {r \in log : ~Old(r.entry)}
  /\ UNCHANGED <<now, failing, faults, rowid, healthy, calls, history>>

OfDecision(d) == {r \in log : r.entry.id = d}

\* What get_decision_chain may answer: the rows by time, those of the same millisecond
\* in any order.
Chains(d) ==
  {chain \in Bijection(1 .. Cardinality(OfDecision(d)), OfDecision(d)) :
     \A i, j \in DOMAIN chain : i < j => chain[i].entry.at <= chain[j].entry.at}

-----------------------------------------------------------------------------
AuditInit ==
  /\ now = 0 /\ failing = FALSE /\ faults = 0
  /\ log = {} /\ rowid = 0 /\ healthy = TRUE
  /\ writer = [d \in Decisions |-> [pc |-> "idle", done |-> 0, at |-> 0]]
  /\ probe = [count |-> 0, ok |-> FALSE]
  /\ kept = {} /\ lastWrite = TRUE

AuditNext ==
  \/ AuditTick \/ Fail \/ Repair \/ Cleanup
  \/ \E d \in Decisions :
       Log(d) \/ Insert(d) \/ LoadHealth(d) \/ StoreHealthy(d) \/ StoreUnhealthy(d)
  \/ ProbeReads \/ ProbeRestores

AuditSpec == AuditInit /\ [][AuditNext]_<<now, auditVars>>

-----------------------------------------------------------------------------
(* Correctness *)

\* The chain of a decision holds every stage whose logging was answered Ok, until
\* its retention is over, none twice, however often a stage failed to be written
\* before, and a stage comes before an earlier one only when both have the same time
\* (audit.rs, get_decision_chain; storage.rs, cleanup_old_audit_logs).
ChainComplete ==
  \A d \in Decisions : \A chain \in Chains(d) :
    /\ \A row \in kept :
         row.id = d /\ now - row.at <= AuditRetention =>
           \E k \in DOMAIN chain : chain[k].entry = row
    /\ \A i, j \in DOMAIN chain : i < j =>
         \/ chain[i].entry.stage < chain[j].entry.stage
         \/ /\ chain[i].entry.stage # chain[j].entry.stage
            /\ chain[i].entry.at = chain[j].entry.at

\* The flag tells, while no call is going on, whether the last audit write
\* succeeded (audit.rs, is_healthy).
HealthFollowsLastWrite ==
  (~probe.ok /\ \A d \in Decisions : writer[d].pc \in {"idle", "insert"})
    => healthy = lastWrite
=============================================================================
