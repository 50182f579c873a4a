------------------------------ MODULE Storage ------------------------------
(***************************************************************************)
(* The storage layer (storage.rs) under several tasks, and the pages of    *)
(* the web UI that read it (web_ui.rs).                                    *)
(*                                                                         *)
(* A call hands a closure to the blocking pool.  It runs when a thread     *)
(* gets the lock of the one connection, in any order, and whether or not   *)
(* the caller is still there; the call is answered later.  A statement is  *)
(* atomic: SQLite applies it or, when it fails or would break a foreign    *)
(* key, changes nothing.                                                   *)
(*                                                                         *)
(* audit_log, certificate_inventory and inventory_refresh_log are in       *)
(* AuditLog and Inventory.                                                 *)
(***************************************************************************)
EXTENDS Clock, Integers, Sequences, FiniteSets

CONSTANTS
  Certs,       \* fingerprints
  Severities,  \* severities and risks
  Limit,       \* rows a page shows of a list
  Horizon,     \* days of list_certificates_expiring_within_days
  Retention,   \* metadata_retention_days
  StorageTime,     \* bound of the clock
  MaxCalls,    \* bound of the calls made
  MaxQueued    \* bound of the closures that wait for the lock

ASSUME StorageAssumption ==
  /\ Limit \in Nat \ {0} /\ Horizon \in Nat /\ Retention \in Nat /\ StorageTime \in Nat
  /\ MaxCalls \in Nat /\ MaxQueued \in Nat

VARIABLES
  db,      \* the tables
  queue,   \* the closures that wait for the lock
  count,   \* calls made
  page     \* the page that is being rendered, and what it has read; of the dashboard
           \* also, as a history, the directives it could have found when it began
           \* (known) and those that had a status it does not ask for since (unlisted)

storageVars == <<db, queue, count, page>>

None == [row |-> FALSE]

\* A directive is identified by the call that inserted it, as by a random uuid.
Ids == 0 .. MaxCalls - 1

StorageInit ==
  /\ now = 0
  /\ db = [certificates |-> [c \in Certs |-> None],
           directives |-> [d \in Ids |-> None],
           shadows |-> [c \in Certs |-> None],
           predictions |-> [c \in Certs |-> None]]
  /\ queue = {} /\ count = 0
  /\ page = [pc |-> "none"]

-----------------------------------------------------------------------------
(* Statements *)

Rows(table) == {k \in DOMAIN table : table[k].row}

\* schema: every directive, shadow and prediction refers to a certificate.
ForeignKeysHold(tables) ==
  /\ \A d \in Rows(tables.directives) :
       tables.directives[d].cert \in Rows(tables.certificates)
  /\ Rows(tables.shadows) \cup Rows(tables.predictions) \subseteq Rows(tables.certificates)

\* ON CONFLICT: a known certificate is seen again.
Upserted(old, s) ==
  IF old.row
  THEN [old EXCEPT !.last_seen = s.at, !.connection_count = @ + 1]
  ELSE [row |-> TRUE, last_seen |-> s.at, not_after |-> s.not_after, connection_count |-> 1]

Inserted(s) ==
  [row |-> TRUE, cert |-> s.cert, status |-> "pending", severity |-> s.severity,
   attempts |-> 0, executed_at |-> -1]

\* last_escalated and resolved_at are left out; first_classified stays.
Classified(old, s) ==
  [row |-> TRUE, risk |-> s.severity, resolved |-> s.resolved,
   first |-> IF old.row THEN old.first ELSE s.at]

\* The tables after a statement; one that finds no row changes nothing, and is Ok.
CertificatesAfter(s) ==
  LET table == db.certificates
  IN  CASE s.op = "upsert_certificate" -> [table EXCEPT ![s.cert] = Upserted(@, s)]
        [] s.op = "touch_certificate" /\ table[s.cert].row ->
             [table EXCEPT ![s.cert].last_seen = s.at, ![s.cert].connection_count = @ + 1]
        [] s.op = "delete_certificate" -> [table EXCEPT ![s.cert] = None]
        [] s.op = "cleanup_old_certificates" ->
             [c \in Certs |-> IF table[c].row /\ table[c].last_seen < now - Retention
                              THEN None ELSE table[c]]
        [] OTHER -> table

DirectivesAfter(s) ==
  LET table == db.directives
  IN  CASE s.op = "insert_action_directive" -> [table EXCEPT ![s.id] = Inserted(s)]
        [] s.op = "update_directive_status" /\ table[s.id].row ->
             [table EXCEPT ![s.id].status = s.status, ![s.id].executed_at = now]
        [] s.op = "mark_directive_failed" /\ table[s.id].row ->
             [table EXCEPT ![s.id].status = "failed", ![s.id].attempts = s.attempts,
                           ![s.id].executed_at = now]
        [] s.op = "delete_action_directive" -> [table EXCEPT ![s.id] = None]
        [] OTHER -> table

ShadowsAfter(s) ==
  CASE s.op = "upsert_shadow_certificate" -> [db.shadows EXCEPT ![s.cert] = Classified(@, s)]
    [] s.op = "delete_shadow_certificate" -> [db.shadows EXCEPT ![s.cert] = None]
    [] OTHER -> db.shadows

PredictionsAfter(s) ==
  CASE s.op = "upsert_renewal_prediction" ->
         [db.predictions EXCEPT ![s.cert] = [row |-> TRUE, severity |-> s.severity]]
    [] s.op = "delete_renewal_prediction" -> [db.predictions EXCEPT ![s.cert] = None]
    [] OTHER -> db.predictions

Effect(s) ==
  [certificates |-> CertificatesAfter(s), directives |-> DirectivesAfter(s),
   shadows |-> ShadowsAfter(s), predictions |-> PredictionsAfter(s)]

\* The statuses list_recent_directives asks for, and those update_directive_status is
\* called with, or that other components ask for ("active").
Final == {"executed", "failed", "expired"}
Updates == {"executed", "expired", "replaced", "active"}

\* What may be asked for at a time.
Statements(at) ==
  [op : {"upsert_certificate"}, cert : Certs, at : {at}, not_after : {at + Horizon + 1}]
    \cup [op : {"touch_certificate"}, cert : Certs, at : {at}]
    \cup [op : {"cleanup_old_certificates"}]
    \cup [op : {"insert_action_directive"}, id : {count}, cert : Certs, severity : Severities]
    \cup [op : {"update_directive_status"}, id : 0 .. count - 1, status : Updates]
    \cup [op : {"mark_directive_failed"}, id : 0 .. count - 1, attempts : {3}]
    \cup [op : {"upsert_shadow_certificate"}, cert : Certs, severity : Severities,
          resolved : BOOLEAN, at : {at}]
    \cup [op : {"upsert_renewal_prediction"}, cert : Certs, severity : Severities]
    \cup [op : {"delete_certificate", "delete_shadow_certificate",
                "delete_renewal_prediction"}, cert : Certs]
    \cup [op : {"delete_action_directive"}, id : 0 .. count - 1]

-----------------------------------------------------------------------------
(* Calls *)

StorageTick ==
  /\ Passes(StorageTime)
  /\ UNCHANGED storageVars

\* A call: its arguments, times among them, are those of the moment.
Submit == \E s \in Statements(now) :
  /\ count < MaxCalls /\ Cardinality(queue) < MaxQueued
  /\ queue' = queue \cup {<<count, s>>}
  /\ count' = count + 1
  /\ UNCHANGED <<now, db, page>>

\* Directives of a status that the dashboard does not ask for.
Unlisted(directives) ==
  {d \in Rows(directives) : directives[d].status \notin {"pending"} \cup Final}

\* A thread gets the lock and runs the statement.
Execute == \E call \in queue :
  /\ queue' = queue \ {call}
  /\ db' = LET new == Effect(call[2]) IN IF ForeignKeysHold(new) THEN new ELSE db
  /\ page' = IF page.pc \in {"pending", "recent"}
             THEN [page EXCEPT !.unlisted = @ \cup Unlisted(db'.directives)]
             ELSE page
  /\ UNCHANGED <<now, count>>

-----------------------------------------------------------------------------
(* Lists, by the method that answers them, and pages *)

WithStatus(status) ==
  {d \in Rows(db.directives) : db.directives[d].status \in status}

\* The Limit first rows of those that times gives a time, latest first, where SQLite
\* may break ties as it likes.
First(times) ==
  LET rows == DOMAIN times
  IN  {top \in SUBSET rows :
         /\ Cardinality(top) = IF Cardinality(rows) < Limit THEN Cardinality(rows) ELSE Limit
         /\ \A in \in top, out \in rows \ top : times[in] >= times[out]}

Recent == First([d \in WithStatus(Final) |-> db.directives[d].executed_at])

\* What a list may answer; unwrap_or_default makes an empty one of an error.
Listings(kind) ==
  {{}} \cup
    CASE kind = "certificates" ->
           First([c \in Rows(db.certificates) |-> db.certificates[c].last_seen])
      [] kind = "expiring" ->
           {{c \in Rows(db.certificates) : db.certificates[c].not_after <= now + Horizon}}
      [] kind = "anomalies" -> {WithStatus({"pending"})}
      [] kind = "actions" -> Recent
      [] kind = "unresolved" -> {{c \in Rows(db.shadows) : ~db.shadows[c].resolved}}
      [] kind = "predictions" -> {Rows(db.predictions)}

\* The pages with one list each, and the lists other components ask for.
ListPage ==
  /\ page.pc = "none"
  /\ \E kind \in {"certificates", "expiring", "anomalies", "actions", "unresolved",
                   "predictions"} :
       \E rows \in Listings(kind) : page' = [pc |-> "listed", kind |-> kind, rows |-> rows]
  /\ UNCHANGED <<now, db, queue, count>>

\* dashboard_handler counts the certificates, then the pending directives, and then
\* lists the recent ones: three statements.
Dashboard ==
  /\ page.pc = "none"
  /\ page' = [pc |-> "pending", certificates |-> Cardinality(Rows(db.certificates)),
              known |-> Rows(db.directives), unlisted |-> Unlisted(db.directives),
              pending |-> {}, recent |-> {}, whole |-> TRUE]
  /\ UNCHANGED <<now, db, queue, count>>

\* Mutant: the recent directives are listed before the pending ones are counted.
Then_Swapped(pc) ==
  CASE pc = "pending" -> Recent [] pc = "recent" -> {WithStatus({"pending"})}

\* What the handler reads at a stage.
Then(pc) ==
  CASE pc = "pending" -> {WithStatus({"pending"})} [] pc = "recent" -> Recent

\* An error shows as zero, or as an empty list.
CountPending ==
  /\ page.pc = "pending"
  /\ \/ \E rows \in Then("pending") : page' = [page EXCEPT !.pc = "recent", !.pending = rows]
     \/ page' = [page EXCEPT !.pc = "recent", !.whole = FALSE]
  /\ UNCHANGED <<now, db, queue, count>>

ListRecent ==
  /\ page.pc = "recent"
  /\ \/ \E rows \in Then("recent") : page' = [page EXCEPT !.pc = "shown", !.recent = rows]
     \/ page' = [page EXCEPT !.pc = "shown", !.whole = FALSE]
  /\ UNCHANGED <<now, db, queue, count>>

Rendered ==
  /\ page.pc \in {"listed", "shown"}
  /\ page' = [pc |-> "none"]
  /\ UNCHANGED <<now, db, queue, count>>

StorageNext ==
  \/ StorageTick \/ Submit \/ Execute
  \/ ListPage \/ Dashboard \/ CountPending \/ ListRecent \/ Rendered

StorageSpec == StorageInit /\ [][StorageNext]_<<now, storageVars>>

-----------------------------------------------------------------------------
(* Correctness *)

\* The dashboard reads in three statements while directives are being executed,
\* failed, expired and replaced.  One that was there from the start is counted as an
\* active anomaly or is among the recent actions, it may be both, unless those fill the
\* list, a read failed, or it was replaced or active meanwhile: no list of the dashboard
\* asks for these (web_ui.rs, dashboard_handler).
DashboardMissesNothing ==
  page.pc = "shown" /\ page.whole =>
    \A d \in (page.known \cap Rows(db.directives)) \ page.unlisted :
      d \in page.pending \cup page.recent \/ Cardinality(page.recent) = Limit
=============================================================================
