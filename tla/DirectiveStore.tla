--------------------------- MODULE DirectiveStore ---------------------------
(***************************************************************************)
(* Action directives in storage and in the BPF map, and the passes over    *)
(* them: the renewal scheduler (tlapix-analyzer/src/renewal_scheduler.rs   *)
(* with the predictor of renewal.rs), the expiry sweep and the failure     *)
(* handler (tlapix-executor/src/expiry.rs, failure_handler.rs) and the     *)
(* retention clean-up (tlapix-common/src/storage.rs, started by main.rs).  *)
(*                                                                         *)
(* Every call of Storage is one atomic step; the passes interleave between *)
(* calls.  Time is counted in days, a directive is named by its place in   *)
(* the order of insertion.  The executor that picks up a directive and     *)
(* writes it into the map is external, and kind: it does both at once.     *)
(***************************************************************************)
EXTENDS Integers, Sequences

CONSTANTS
  Certs,          \* certificate fingerprints
  ExpiryDays,     \* expiry_hours of the sweep
  RetentionDays,  \* retention_days of the clean-up
  RenewDays,      \* days to expiry from which the predicted probability is 0.7
  CriticalDays,   \* days to expiry below which the prediction is critical
  MaxDays,        \* bound of the clock
  MaxDirectives,  \* bound: directives inserted in one behaviour
  MaxFailures     \* bound: how often a storage or a map call fails

NoCert == "none"

ASSUME StoreAssumption ==
  /\ NoCert \notin Certs
  /\ ExpiryDays \in Nat /\ RetentionDays \in Nat
  /\ RenewDays \in Nat /\ CriticalDays \in 1 .. RenewDays
  /\ MaxDays \in Nat \ {0} /\ MaxDirectives \in Nat /\ MaxFailures \in Nat

Medium == 1
Critical == 3

VARIABLES
  now,          \* the day
  notAfter,     \* the day on which each certificate expires
  lastSeen,     \* certificates: day of the last observation, 0 without a row
  predictions,  \* renewal_predictions: the certificates that have one
  directives,   \* action_directives in the order of insertion
  entry,        \* the BPF map: the directive in force for a certificate, or 0
  sched,        \* the locals of run_reevaluation
  sweep,        \* the locals of expire_stale_directives
  handler,      \* the locals of handle_execution_failure
  failures      \* failed calls so far

vars == <<now, notAfter, lastSeen, predictions, directives, entry, sched, sweep,
          handler, failures>>
clock == <<now, notAfter>>
tables == <<lastSeen, predictions, directives>>
passes == <<sched, sweep, handler>>

Statuses == {"pending", "active", "failed", "expired"}
Directive == [cert : Certs, type : {"alert", "renew"},
              severity : {Medium, Critical}, status : Statuses]

Ids == 1 .. Len(directives)
Rows == {c \in Certs : lastSeen[c] # 0}

Fails ==
  /\ failures < MaxFailures
  /\ failures' = failures + 1

\* insert_action_directive; the caller sees to the foreign key.
Insert(c, type, severity) ==
  /\ Len(directives) < MaxDirectives
  /\ directives' = Append(directives, [cert |-> c, type |-> type,
                                       severity |-> severity, status |-> "pending"])

UpdateStatus(i, status) == directives' = [directives EXCEPT ![i].status = status]

-----------------------------------------------------------------------------
(* RenewalScheduler::run_reevaluation *)

SchedIdle == [pc |-> "idle", day |-> 0, todo |-> {}, cert |-> NoCert]

DaysLeft(c) == notAfter[c] - sched.day

\* predict without history: what is prescribed for a certificate, if anything.
Prescribed(c) ==
  IF DaysLeft(c) <= 0 THEN [type |-> "alert", severity |-> Critical]
  ELSE [type |-> "renew", severity |-> IF DaysLeft(c) < CriticalDays THEN Critical
                                                                     ELSE Medium]

\* list_certificates_expiring_within_days; the whole clock of an instance lies
\* within the 30 days asked for.
SchedList ==
  /\ sched.pc = "idle" /\ Rows # {}
  /\ sched' = [SchedIdle EXCEPT !.pc = "predict", !.day = now, !.todo = Rows]
  /\ UNCHANGED <<clock, tables, entry, sweep, handler, failures>>

\* One prediction row for a certificate: a later one replaces it.
UpsertPrediction(c) == predictions' = predictions \cup {c}

\* upsert_renewal_prediction; without its certificate the row is refused and the
\* loop goes on.
SchedPredict(c) ==
  /\ sched.pc = "predict" /\ c \in sched.todo
  /\ IF c \in Rows
       THEN /\ UpsertPrediction(c)
            /\ sched' = IF DaysLeft(c) <= RenewDays
                          THEN [sched EXCEPT !.pc = "insert", !.todo = @ \ {c},
                                             !.cert = c]
                          ELSE [sched EXCEPT !.todo = @ \ {c}]
       ELSE /\ sched' = [sched EXCEPT !.todo = @ \ {c}]
            /\ UNCHANGED predictions
  /\ UNCHANGED <<clock, lastSeen, directives, entry, sweep, handler, failures>>

SchedNext == [sched EXCEPT !.pc = "predict", !.cert = NoCert]

\* The directive is stored, whatever is already there for the certificate.  The
\* prediction just stored keeps the certificate from being deleted.
SchedInsert ==
  /\ sched.pc = "insert"
  /\ Insert(sched.cert, Prescribed(sched.cert).type, Prescribed(sched.cert).severity)
  /\ sched' = SchedNext
  /\ UNCHANGED <<clock, lastSeen, predictions, entry, sweep, handler, failures>>

\* Either of the two calls fails: a warning, and on to the next certificate.
SchedFails ==
  /\ Fails
  /\ \/ sched.pc = "insert" /\ sched' = SchedNext
     \/ /\ sched.pc = "predict"
        /\ \E c \in sched.todo : sched' = [sched EXCEPT !.todo = @ \ {c}]
  /\ UNCHANGED <<clock, tables, entry, sweep, handler>>

SchedReturn ==
  /\ sched.pc = "predict" /\ sched.todo = {}
  /\ sched' = SchedIdle
  /\ UNCHANGED <<clock, tables, entry, sweep, handler, failures>>

Schedule ==
  \/ SchedList \/ SchedInsert \/ SchedFails \/ SchedReturn
  \/ \E c \in Certs : SchedPredict(c)

-----------------------------------------------------------------------------
(* expire_stale_directives *)

SweepIdle == [pc |-> "idle", day |-> 0, todo |-> {}, id |-> 0]

WithStatus(status) == {i \in Ids : directives[i].status = status}

\* The cutoff is fixed, then the active directives are listed ...
SweepListActive ==
  /\ sweep.pc = "idle"
  /\ WithStatus("active") \cup WithStatus("pending") # {}
  /\ sweep' = [SweepIdle EXCEPT !.pc = "pending", !.day = now,
                                !.todo = WithStatus("active")]
  /\ UNCHANGED <<clock, tables, entry, sched, handler, failures>>

\* ... and, a call later, the pending ones.
SweepListPending ==
  /\ sweep.pc = "pending"
  /\ sweep' = [sweep EXCEPT !.pc = "lookup", !.todo = @ \cup WithStatus("pending")]
  /\ UNCHANGED <<clock, tables, entry, sched, handler, failures>>

\* Mutant: the last day of the window counts as outside.
Stale_OffByOne(c) == lastSeen[c] <= sweep.day - ExpiryDays

\* Not seen since the cutoff, or not there at all.
Stale(c) == lastSeen[c] < sweep.day - ExpiryDays

\* get_certificate.
SweepLookup(i) ==
  /\ sweep.pc = "lookup" /\ i \in sweep.todo
  /\ sweep' = IF Stale(directives[i].cert)
                THEN [sweep EXCEPT !.pc = "remove", !.todo = @ \ {i}, !.id = i]
                ELSE [sweep EXCEPT !.todo = @ \ {i}]
  /\ UNCHANGED <<clock, tables, entry, sched, handler, failures>>

\* remove_entry, by fingerprint; a missing entry is as good.
SweepRemove ==
  /\ sweep.pc = "remove"
  /\ entry' = [entry EXCEPT ![directives[sweep.id].cert] = 0]
  /\ sweep' = [sweep EXCEPT !.pc = "mark"]
  /\ UNCHANGED <<clock, tables, sched, handler, failures>>

\* The map refuses: a warning, and the directive is marked all the same.
SweepRemoveFails ==
  /\ sweep.pc = "remove"
  /\ Fails
  /\ sweep' = [sweep EXCEPT !.pc = "mark"]
  /\ UNCHANGED <<clock, tables, entry, sched, handler>>

\* update_directive_status, whatever has become of the directive since.
SweepMark ==
  /\ sweep.pc = "mark"
  /\ UpdateStatus(sweep.id, "expired")
  /\ sweep' = [sweep EXCEPT !.pc = "lookup", !.id = 0]
  /\ UNCHANGED <<clock, lastSeen, predictions, entry, sched, handler, failures>>

\* A storage error ends the sweep.
SweepFails ==
  /\ sweep.pc \in {"pending", "lookup", "mark"}
  /\ Fails
  /\ sweep' = SweepIdle
  /\ UNCHANGED <<clock, tables, entry, sched, handler>>

SweepReturn ==
  /\ sweep.pc = "lookup" /\ sweep.todo = {}
  /\ sweep' = SweepIdle
  /\ UNCHANGED <<clock, tables, entry, sched, handler, failures>>

Sweep ==
  \/ SweepListActive \/ SweepListPending \/ SweepRemove \/ SweepRemoveFails
  \/ SweepMark \/ SweepFails \/ SweepReturn
  \/ \E i \in Ids : SweepLookup(i)

-----------------------------------------------------------------------------
(* handle_execution_failure *)

HandlerIdle == [pc |-> "idle", id |-> 0]

\* Called with a directive that exhausted its attempts, and that may have expired
\* in the meantime; mark_directive_failed.
MarkFailed(i) ==
  /\ handler.pc = "idle"
  /\ directives[i].status # "failed"
  /\ UpdateStatus(i, "failed")
  /\ handler' = [pc |-> "alert", id |-> i]
  /\ UNCHANGED <<clock, lastSeen, predictions, entry, sched, sweep, failures>>

\* Mutant: no second alert for a certificate that has one.
InsertAlert_UnlessPending ==
  /\ handler.pc = "alert"
  /\ LET c == directives[handler.id].cert
     IN  IF \E i \in WithStatus("pending") : /\ directives[i].cert = c
                                             /\ directives[i].type = "alert"
           THEN UNCHANGED directives
           ELSE Insert(c, "alert", Critical)
  /\ handler' = HandlerIdle
  /\ UNCHANGED <<clock, lastSeen, predictions, entry, sched, sweep, failures>>

\* The critical alert for the operators.
InsertAlert ==
  /\ handler.pc = "alert"
  /\ Insert(directives[handler.id].cert, "alert", Critical)
  /\ handler' = HandlerIdle
  /\ UNCHANGED <<clock, lastSeen, predictions, entry, sched, sweep, failures>>

AlertFails ==
  /\ handler.pc = "alert"
  /\ Fails
  /\ handler' = HandlerIdle
  /\ UNCHANGED <<clock, tables, entry, sched, sweep>>

HandleFailure ==
  \/ InsertAlert \/ AlertFails
  \/ \E i \in Ids : MarkFailed(i)

-----------------------------------------------------------------------------
(* Retention, the environment *)

Old == {c \in Rows : lastSeen[c] < now - RetentionDays}

\* What a foreign key of action_directives or renewal_predictions points at.
Referenced == predictions \cup {directives[i].cert : i \in Ids}

\* Mutant: foreign keys are not enforced.
Deletable_All == TRUE

\* One referenced certificate makes the DELETE fail as a whole.
Deletable == Old \cap Referenced = {}

\* cleanup_old_certificates, one DELETE; the error is only logged.
Cleanup ==
  /\ Old # {}
  /\ lastSeen' = IF Deletable
                   THEN [c \in Certs |-> IF c \in Old THEN 0 ELSE lastSeen[c]]
                   ELSE lastSeen
  /\ UNCHANGED <<clock, predictions, directives, entry, passes, failures>>

\* External: traffic shows the certificate and the collector stores it.
Observe(c) ==
  /\ lastSeen' = [lastSeen EXCEPT ![c] = now]
  /\ UNCHANGED <<clock, predictions, directives, entry, passes, failures>>

\* External: the executor writes a pending directive and marks it active.
Activate(i) ==
  /\ directives[i].status = "pending"
  /\ UpdateStatus(i, "active")
  /\ entry' = [entry EXCEPT ![directives[i].cert] = i]
  /\ UNCHANGED <<clock, lastSeen, predictions, passes, failures>>

Day ==
  /\ now < MaxDays
  /\ now' = now + 1
  /\ UNCHANGED <<notAfter, tables, entry, passes, failures>>

Init ==
  /\ now = 1
  /\ notAfter \in [Certs -> 1 .. MaxDays]
  /\ lastSeen = [c \in Certs |-> 0]
  /\ predictions = {}
  /\ directives = <<>>
  /\ entry = [c \in Certs |-> 0]
  /\ sched = SchedIdle /\ sweep = SweepIdle /\ handler = HandlerIdle
  /\ failures = 0

Next ==
  \/ Schedule \/ Sweep \/ HandleFailure \/ Cleanup \/ Day
  \/ \E c \in Certs : Observe(c)
  \/ \E i \in Ids : Activate(i)

Spec == Init /\ [][Next]_vars

-----------------------------------------------------------------------------
(* Correctness *)

TablesOK ==
  /\ now \in 1 .. MaxDays
  /\ notAfter \in [Certs -> 1 .. MaxDays]
  /\ lastSeen \in [Certs -> 0 .. MaxDays]
  /\ predictions \in SUBSET Certs
  /\ directives \in Seq(Directive)
  /\ entry \in [Certs -> 0 .. Len(directives)]
  /\ failures \in 0 .. MaxFailures

SchedOK ==
  /\ sched \in [pc : {"idle", "predict", "insert"}, day : 0 .. MaxDays,
                todo : SUBSET Certs, cert : Certs \cup {NoCert}]
  /\ sched.pc = "insert" => sched.cert # NoCert

SweepOK ==
  /\ sweep \in [pc : {"idle", "pending", "lookup", "remove", "mark"},
                day : 0 .. MaxDays, todo : SUBSET Ids, id : 0 .. Len(directives)]
  /\ sweep.pc \in {"remove", "mark"} => sweep.id # 0

HandlerOK ==
  /\ handler \in [pc : {"idle", "alert"}, id : 0 .. Len(directives)]
  /\ handler.pc = "alert" => handler.id # 0

\* Types, and that the passes only hold directives that exist.
TypeOK == TablesOK /\ SchedOK /\ SweepOK /\ HandlerOK

\* Whatever the passes do to each other, a directive and a prediction keep the
\* certificate they are about: clean-up never pulls it away from under a pass
\* that is just about to insert.
CertificatesKept ==
  /\ Referenced \subseteq Rows
  /\ sched.pc = "insert" => sched.cert \in Rows

\* A directive expires only if its certificate was not seen within ExpiryDays
\* before the sweep began.  (It may have been seen since: the sweep looks once.)
ExpiredWasUnseen ==
  [][\A i \in Ids :
       directives'[i].status = "expired" /\ directives[i].status # "expired" =>
         LET seen == lastSeen[directives[i].cert]
         IN  seen < sweep.day - ExpiryDays \/ seen >= sweep.day]_vars

\* A directive that failed has been followed by a critical alert to the
\* operators, or is about to be, unless storage itself fails.
FailureAlerted ==
  failures = 0 => \A i \in WithStatus("failed") :
    \/ handler = [pc |-> "alert", id |-> i]
    \/ \E j \in i + 1 .. Len(directives) :
         /\ directives[j].cert = directives[i].cert
         /\ directives[j].type = "alert" /\ directives[j].severity = Critical

(* What a comment says and the code does not do. *)

\* storage.rs:1072: "Delete certificates where `last_seen` is older than
\* `retention_days` days": a clean-up that finds such certificates deletes them.
OldAreDeletable == Old # {} => Deletable

=============================================================================
