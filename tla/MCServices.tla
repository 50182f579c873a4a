----------------------------- MODULE MCServices -----------------------------
(***************************************************************************)
(* Model-checking instance of what surrounds the detection: Inventory,     *)
(* AuditLog, Storage with the pages of the web UI, Export and Daemon.      *)
(* They share no state but the clock, and a behaviour moves one of them,   *)
(* its part.                                                               *)
(***************************************************************************)
EXTENDS Inventory, AuditLog, Storage, Export, Daemon

VARIABLE part

partVars == <<part, now, inventoryVars, auditVars, storageVars, exportVars, daemonVars>>

-----------------------------------------------------------------------------
(* Lists of the source: two disjoint ones, one with an entry twice and a    *)
(* malformed one, one with an entry that has no subject, the empty one      *)

Entry(f) == [fp |-> f, subject |-> TRUE]

MCSources ==
  {<<>>, <<Entry("a"), Entry("b")>>,
   <<Entry("b"), Entry("malformed"), Entry("c"), Entry("b")>>,
   <<[fp |-> "a", subject |-> FALSE], Entry("c")>>}

\* Manifests that stop the start at each of their programs, or do not.
MCManifests ==
  {<<>>, <<"intact", "missing">>, <<"unreadable">>, <<"changed", "intact">>,
   <<"intact", "intact">>}

MCConfigs == [prometheus : BOOLEAN, web_ui : BOOLEAN, exports : BOOLEAN]

-----------------------------------------------------------------------------

\* The tables after three calls: a certificate with a directive that is pending and
\* one that was executed.
Populated == \E c \in Certs :
  LET known == [row |-> TRUE, last_seen |-> 0, not_after |-> Horizon + 1,
                connection_count |-> 1]
      directive == Inserted([cert |-> c, severity |-> CHOOSE s \in Severities : TRUE])
  IN  /\ db = [certificates |-> [k \in Certs |-> IF k = c THEN known ELSE None],
               directives |-> [d \in Ids |->
                 CASE d = 1 -> directive
                   [] d = 2 -> [directive EXCEPT !.status = "executed", !.executed_at = 0]
                   [] OTHER -> None],
               shadows |-> [k \in Certs |-> None],
               predictions |-> [k \in Certs |-> None]]
      /\ queue = {} /\ count = 3 /\ page = [pc |-> "none"]

ServicesInit ==
  /\ part \in {"inventory", "audit", "storage", "export", "daemon"}
  /\ InventoryInit /\ AuditInit /\ ExportInit /\ DaemonInit
  /\ IF part = "storage" THEN Populated ELSE StorageInit
  /\ part # "inventory" => source = <<>>
  /\ part # "export" => \A ch \in Channels : ~Enabled(ch)
  /\ part # "daemon" => manifest = <<>>

ServicesNext ==
  \/ /\ part = "inventory" /\ InventoryNext
     /\ UNCHANGED <<part, auditVars, storageVars, exportVars, daemonVars>>
  \/ /\ part = "audit" /\ AuditNext
     /\ UNCHANGED <<part, inventoryVars, storageVars, exportVars, daemonVars>>
  \/ /\ part = "storage" /\ StorageNext
     /\ UNCHANGED <<part, inventoryVars, auditVars, exportVars, daemonVars>>
  \/ /\ part = "export" /\ ExportNext
     /\ UNCHANGED <<part, now, inventoryVars, auditVars, storageVars, daemonVars>>
  \/ /\ part = "daemon" /\ DaemonNext
     /\ UNCHANGED <<part, now, inventoryVars, auditVars, storageVars, exportVars>>

DaemonStep(Step) ==
  /\ part = "daemon" /\ Step
  /\ UNCHANGED <<part, now, inventoryVars, auditVars, storageVars, exportVars>>

\* Fairness as in Daemon.
ServicesSpec ==
  /\ ServicesInit /\ [][ServicesNext]_partVars
  /\ WF_partVars(DaemonStep(Main)) /\ WF_partVars(DaemonStep(TaskStep))

-----------------------------------------------------------------------------
(* Correctness *)

\* Daemon: main starts or gives up, and ends when it is asked to.
DaemonStopsWhenAsked == part = "daemon" => StopsWhenAsked
=============================================================================
