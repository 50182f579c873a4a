-------------------------- MODULE ShadowLifecycle --------------------------
(***************************************************************************)
(* The life of a shadow certificate's row in storage                       *)
(* (tlapix-analyzer/src/shadow_escalation.rs, reconciliation.rs): one task *)
(* escalates the risk of unresolved rows day by day, another reconciles    *)
(* the rows with the inventory, which is refreshed meanwhile.  All hold a  *)
(* clone of the same Storage, every call of which is atomic behind its     *)
(* connection mutex; they interleave between calls, and each task works    *)
(* from a list of rows it read at its start and writes whole rows back.    *)
(*                                                                         *)
(* Of a refresh there are the two calls that write the inventory, for any  *)
(* entries at any time; its order, its errors and its log are in Inventory.*)
(* Time is counted in days.  Who calls the two functions, and with what,   *)
(* is external.  So is who stores what ShadowClassifier says: its methods  *)
(* store nothing and no code calls them yet, so that rows and alerts may   *)
(* be stored at any time, each without the other and over what is there.   *)
(* Retention clean-up is in DirectiveStore: a certificate whose row it can *)
(* delete has no shadow row and no directive.                              *)
(***************************************************************************)
EXTENDS Integers, Sequences

CONSTANTS
  Certs,         \* certificate fingerprints
  MaxDays,       \* bound of the clock
  MaxFailures,   \* bound: how often a storage call returns an error
  MaxStores,     \* bound: how often somebody else stores a row or an alert
  Levels         \* the levels of these rows and alerts

ASSUME LifecycleAssumption ==
  /\ MaxDays \in Nat \ {0}
  /\ MaxFailures \in Nat
  /\ MaxStores \in Nat
  /\ Levels \subseteq 1 .. 4

Low == 1
Critical == 4
RiskLevels == Low .. Critical

VARIABLES
  now,         \* the day
  lastSeen,    \* certificates: day of the last observation, 0 without a row
  inventory,   \* certificate_inventory: the fingerprints in it
  shadow,      \* shadow_certificates: a row, or NoRow
  directives,  \* action_directives in the order of insertion
  esc,         \* the locals of escalate_stale_shadows
  rec,         \* the locals of reconcile_inventory
  failures,    \* storage errors so far
  stores,      \* rows and alerts stored by others so far
  lost         \* history: certificates whose critical alert was not stored

outside == <<now, lastSeen, stores>>
account == <<failures, lost>>
environment == <<outside, account>>
vars == <<environment, inventory, shadow, directives, esc, rec>>

\* since: first_classified; escalated: last_escalated, 0 for NULL.
NoRow == [risk |-> 0, since |-> 0, escalated |-> 0, count |-> 0, resolved |-> FALSE]
NewRow(risk, day) ==
  [risk |-> risk, since |-> day, escalated |-> 0, count |-> 0, resolved |-> FALSE]

NoCert == "none"
Ids == 1 .. Len(directives)
Pending(c) == {i \in Ids : directives[i].cert = c /\ directives[i].status = "pending"}

-----------------------------------------------------------------------------
(* Storage calls *)

\* A call returns an error and has changed nothing.
StorageError ==
  /\ failures < MaxFailures
  /\ failures' = failures + 1

\* inventory_contains; get_certificate finds a row.
InventoryContains(c) == c \in inventory
HasRow(c) == lastSeen[c] # 0

\* list_unresolved_shadow_certificates: a copy of every unresolved row.
Unresolved == [c \in Certs |-> IF shadow[c].resolved THEN NoRow ELSE shadow[c]]

\* upsert_shadow_certificate: the day of classification survives a conflict.
Upsert(c, row) ==
  shadow' = [shadow EXCEPT ![c] =
               IF shadow[c] = NoRow THEN row
                                    ELSE [row EXCEPT !.since = shadow[c].since]]

\* update_directive_status: whatever the status was.
UpdateStatus(i, status) ==
  directives' = [directives EXCEPT ![i].status = status]

\* insert_action_directive, always of a pending one.
Insert(c, severity) ==
  directives' = Append(directives, [cert |-> c, severity |-> severity,
                                    status |-> "pending"])

-----------------------------------------------------------------------------
(* escalate_stale_shadows *)

EscIdle == [pc |-> "idle", day |-> 0, rows |-> [c \in Certs |-> NoRow],
            cert |-> NoCert, ids |-> {}]

\* last_escalated, or first_classified for a row never escalated.
Reference(row) == IF row.escalated = 0 THEN row.since ELSE row.escalated

Due(row) ==
  /\ row # NoRow
  /\ now - Reference(row) >= 1
  /\ row.risk # Critical

\* The list, the clock read once, and the rows the loop will not skip.
EscList ==
  /\ esc.pc = "idle"
  /\ \E c \in Certs : Due(Unresolved[c])
  /\ esc' = [EscIdle EXCEPT !.pc = "scan", !.day = now,
               !.rows = [c \in Certs |-> IF Due(Unresolved[c]) THEN Unresolved[c]
                                                               ELSE NoRow]]
  /\ UNCHANGED <<environment, inventory, shadow, directives, rec>>

\* Mutant: last_escalated is not written back.
Escalated_KeepsClock(row, day) ==
  [row EXCEPT !.risk = IF @ = Critical THEN @ ELSE @ + 1, !.count = @ + 1]

\* RiskLevel::escalate, last_escalated and escalation_count.
Escalated(row, day) ==
  [row EXCEPT !.risk = IF @ = Critical THEN @ ELSE @ + 1,
              !.escalated = day, !.count = @ + 1]

\* Mutant: the level before the escalation is compared.
ReachesCritical_Before(row) == row.risk = Critical

ReachesCritical(row) == Escalated(row, 0).risk = Critical

\* One row of the list is written back whole, one level up.
EscUpdate(c) ==
  /\ esc.pc = "scan" /\ esc.rows[c] # NoRow
  /\ Upsert(c, Escalated(esc.rows[c], esc.day))
  /\ esc' = IF ReachesCritical(esc.rows[c])
              THEN [esc EXCEPT !.rows[c] = NoRow, !.pc = "pending", !.cert = c]
              ELSE [esc EXCEPT !.rows[c] = NoRow]
  /\ UNCHANGED <<environment, inventory, directives, rec>>

\* The upsert fails: logged, and on to the next row.
EscUpdateFails(c) ==
  /\ StorageError
  /\ esc.pc = "scan" /\ esc.rows[c] # NoRow
  /\ esc' = [esc EXCEPT !.rows[c] = NoRow]
  /\ UNCHANGED <<outside, lost, inventory, shadow, directives, rec>>

\* replace_prior_directives lists what is pending ...
EscListPending ==
  /\ esc.pc = "pending"
  /\ esc' = [esc EXCEPT !.pc = "replace", !.ids = Pending(esc.cert)]
  /\ UNCHANGED <<environment, inventory, shadow, directives, rec>>

\* ... and replaces it, one directive a call.
EscReplace(i) ==
  /\ esc.pc = "replace" /\ i \in esc.ids
  /\ UpdateStatus(i, "replaced")
  /\ esc' = [esc EXCEPT !.ids = @ \ {i}]
  /\ UNCHANGED <<environment, inventory, shadow, rec>>

\* An error in either ends the replacement, not the escalation.
EscReplaceFails ==
  /\ StorageError
  /\ \/ esc.pc = "pending"
     \/ esc.pc = "replace" /\ esc.ids # {}
  /\ esc' = [esc EXCEPT !.pc = "replace", !.ids = {}]
  /\ UNCHANGED <<outside, lost, inventory, shadow, directives, rec>>

NextRow == [esc EXCEPT !.pc = "scan", !.cert = NoCert, !.ids = {}]

\* The critical alert that supersedes what was replaced.
EscInsert ==
  /\ esc.pc = "replace" /\ esc.ids = {}
  /\ Insert(esc.cert, Critical)
  /\ esc' = NextRow
  /\ UNCHANGED <<environment, inventory, shadow, rec>>

\* The insertion fails: logged, and on to the next row.
EscInsertFails ==
  /\ StorageError
  /\ esc.pc = "replace" /\ esc.ids = {}
  /\ esc' = NextRow
  /\ lost' = lost \cup {esc.cert}
  /\ UNCHANGED <<outside, inventory, shadow, directives, rec>>

EscReturn ==
  /\ esc.pc = "scan" /\ \A c \in Certs : esc.rows[c] = NoRow
  /\ esc' = EscIdle
  /\ UNCHANGED <<environment, inventory, shadow, directives, rec>>

Escalate ==
  \/ EscList \/ EscListPending \/ EscReplaceFails \/ EscInsert \/ EscInsertFails
  \/ EscReturn
  \/ \E c \in Certs : EscUpdate(c) \/ EscUpdateFails(c)
  \/ \E i \in Ids : EscReplace(i)

-----------------------------------------------------------------------------
(* refresh *)

\* upsert_inventory_entry, as refresh calls it for what its source holds.
ImportEntry(c) ==
  /\ inventory' = inventory \cup {c}
  /\ UNCHANGED <<environment, shadow, directives, esc, rec>>

\* remove_stale_inventory_entries: what bears another refresh's id.  The call tells
\* how many there were, not which.
RemoveStale(stale) ==
  /\ inventory' = inventory \ stale
  /\ UNCHANGED <<environment, shadow, directives, esc, rec>>

RefreshInventory ==
  \/ \E c \in Certs : ImportEntry(c)
  \/ \E stale \in SUBSET inventory : RemoveStale(stale)

-----------------------------------------------------------------------------
(* reconcile_inventory *)

\* removed: removed_fingerprints, from the caller; day: when phase 2 began.
RecIdle == [pc |-> "idle", removed |-> {}, day |-> 0,
            rows |-> [c \in Certs |-> NoRow], cert |-> NoCert, ids |-> {}]

\* Somebody calls it, with whatever fingerprints.
RecCall(removed) ==
  /\ rec.pc = "idle"
  /\ rec' = [RecIdle EXCEPT !.pc = "list", !.removed = removed]
  /\ UNCHANGED <<environment, inventory, shadow, directives, esc>>

\* Phase 1: the rows to compare with the inventory.
RecList ==
  /\ rec.pc = "list"
  /\ rec' = [rec EXCEPT !.pc = "known", !.rows = Unresolved]
  /\ UNCHANGED <<environment, inventory, shadow, directives, esc>>

\* inventory_contains.
RecLookup(c) ==
  /\ rec.pc = "known" /\ rec.rows[c] # NoRow
  /\ rec' = IF InventoryContains(c)
              THEN [rec EXCEPT !.pc = "resolve", !.cert = c]
              ELSE [rec EXCEPT !.rows[c] = NoRow]
  /\ UNCHANGED <<environment, inventory, shadow, directives, esc>>

\* Mutant: resolved_at is set, is_resolved is not.
Resolved_OnlyStamped(row) == row

Resolved(row) == [row EXCEPT !.resolved = TRUE]

\* The row read at the start is written back resolved.
RecResolve ==
  /\ rec.pc = "resolve"
  /\ Upsert(rec.cert, Resolved(rec.rows[rec.cert]))
  /\ rec' = [rec EXCEPT !.pc = "pending", !.rows[rec.cert] = NoRow]
  /\ UNCHANGED <<environment, inventory, directives, esc>>

RecListPending ==
  /\ rec.pc = "pending"
  /\ rec' = [rec EXCEPT !.pc = "cancel", !.ids = Pending(rec.cert)]
  /\ UNCHANGED <<environment, inventory, shadow, directives, esc>>

\* Mutant: the cancelled directive is taken for a replaced one.
RecCancel_Replaces(i) ==
  /\ rec.pc = "cancel" /\ i \in rec.ids
  /\ UpdateStatus(i, "replaced")
  /\ rec' = [rec EXCEPT !.ids = @ \ {i}]
  /\ UNCHANGED <<environment, inventory, shadow, esc>>

\* A pending directive is cancelled by expiring it.
RecCancel(i) ==
  /\ rec.pc = "cancel" /\ i \in rec.ids
  /\ UpdateStatus(i, "expired")
  /\ rec' = [rec EXCEPT !.ids = @ \ {i}]
  /\ UNCHANGED <<environment, inventory, shadow, esc>>

RecCancelled ==
  /\ rec.pc = "cancel" /\ rec.ids = {}
  /\ rec' = [rec EXCEPT !.pc = "known", !.cert = NoCert]
  /\ UNCHANGED <<environment, inventory, shadow, directives, esc>>

\* Phase 2 begins when the list is done; the cutoff is computed once.
RecPhase2 ==
  /\ rec.pc = "known" /\ \A c \in Certs : rec.rows[c] = NoRow
  /\ rec' = [rec EXCEPT !.pc = "removed", !.day = now]
  /\ UNCHANGED <<environment, inventory, shadow, directives, esc>>

StillSeen(c) == HasRow(c) /\ lastSeen[c] >= rec.day - 1

\* get_certificate: is it still in traffic?
RecSeen(c) ==
  /\ rec.pc = "removed" /\ c \in rec.removed
  /\ rec' = IF StillSeen(c)
              THEN [rec EXCEPT !.pc = "existing", !.removed = @ \ {c}, !.cert = c]
              ELSE [rec EXCEPT !.removed = @ \ {c}]
  /\ UNCHANGED <<environment, inventory, shadow, directives, esc>>

\* get_shadow_certificate: a row of any kind, a resolved one too, ends it.
RecExisting ==
  /\ rec.pc = "existing"
  /\ rec' = IF shadow[rec.cert] = NoRow
              THEN [rec EXCEPT !.pc = "create"]
              ELSE [rec EXCEPT !.pc = "removed", !.cert = NoCert]
  /\ UNCHANGED <<environment, inventory, shadow, directives, esc>>

\* The certificate becomes a shadow at low risk.
RecCreate ==
  /\ rec.pc = "create"
  /\ Upsert(rec.cert, NewRow(Low, now))
  /\ rec' = [rec EXCEPT !.pc = "removed", !.cert = NoCert]
  /\ UNCHANGED <<environment, inventory, directives, esc>>

RecReturn ==
  /\ rec.pc = "removed" /\ rec.removed = {}
  /\ rec' = RecIdle
  /\ UNCHANGED <<environment, inventory, shadow, directives, esc>>

\* Every storage call is followed by `?`: an error ends the pass where it is.
RecFails ==
  /\ StorageError
  /\ rec.pc # "idle"
  /\ rec' = RecIdle
  /\ UNCHANGED <<outside, lost, inventory, shadow, directives, esc>>

Reconcile ==
  \/ RecList \/ RecResolve \/ RecListPending \/ RecCancelled
  \/ RecPhase2 \/ RecExisting \/ RecCreate \/ RecReturn \/ RecFails
  \/ \E c \in Certs : RecLookup(c) \/ RecSeen(c)
  \/ \E i \in Ids : RecCancel(i)

-----------------------------------------------------------------------------
(* The environment *)

\* External: a connection shows the certificate.
Observe(c) ==
  /\ lastSeen' = [lastSeen EXCEPT ![c] = now]
  /\ UNCHANGED <<now, stores, account, inventory, shadow, directives, esc, rec>>

\* Somebody stores something about a certificate; it must have a row, to which the
\* row and the directive refer.
Stored(c) ==
  /\ HasRow(c)
  /\ stores < MaxStores
  /\ stores' = stores + 1

\* External: the row of what ShadowClassifier::classify calls a shadow.
StoreRow(c, risk) ==
  /\ Stored(c)
  /\ Upsert(c, NewRow(risk, now))
  /\ UNCHANGED <<now, lastSeen, account, inventory, directives, esc, rec>>

\* External: the alert generate_directive makes, or any other directive.
StoreAlert(c, severity) ==
  /\ Stored(c)
  /\ Insert(c, severity)
  /\ UNCHANGED <<now, lastSeen, account, inventory, shadow, esc, rec>>

Day ==
  /\ now < MaxDays
  /\ now' = now + 1
  /\ UNCHANGED <<lastSeen, stores, account, inventory, shadow, directives, esc, rec>>

Environment ==
  \/ Day
  \/ \E c \in Certs : Observe(c)
  \/ \E c \in Certs, level \in Levels : StoreRow(c, level) \/ StoreAlert(c, level)

Init ==
  /\ now = 1
  /\ lastSeen = [c \in Certs |-> 0]
  /\ inventory = {}
  /\ shadow = [c \in Certs |-> NoRow]
  /\ directives = <<>>
  /\ esc = EscIdle
  /\ rec = RecIdle
  /\ failures = 0
  /\ stores = 0
  /\ lost = {}

Next ==
  \/ Escalate \/ RefreshInventory \/ Reconcile \/ Environment
  \/ \E removed \in SUBSET Certs : RecCall(removed)

Spec == Init /\ [][Next]_vars

\* A pass that has begun waits for nothing but its storage calls.  Nothing makes
\* anybody begin one.
FairSpec ==
  Spec /\ WF_vars(Reconcile) /\ WF_vars(esc.pc # "idle" /\ Escalate)

-----------------------------------------------------------------------------
(* Correctness *)

\* One tier a day at most: a row has not been escalated more often than days
\* have passed since it was classified, whichever stale copies of it the two
\* tasks write over each other.
OneTierPerDay ==
  \A c \in Certs : shadow[c] # NoRow => shadow[c].count <= now - shadow[c].since

\* A row that was escalated to critical has a critical alert that nobody replaced,
\* or the escalator is about to insert it, or its insertion failed: a critical row
\* is never looked at again (shadow_escalation.rs:68, 136).
Alerted(c) ==
  \/ \E i \in Ids : /\ directives[i].cert = c /\ directives[i].severity = Critical
                    /\ directives[i].status # "replaced"
  \/ esc.pc \in {"pending", "replace"} /\ esc.cert = c

CriticalAlerted ==
  \A c \in Certs :
    shadow[c].risk = Critical /\ shadow[c].count > 0 => Alerted(c) \/ c \in lost

\* A directive is only replaced in favour of a later critical one: unless its
\* insertion fails, no alert is taken away and nothing put in its place.
ReplacedHasSuccessor ==
  \A i \in Ids : directives[i].status = "replaced" =>
    \/ \E j \in Ids : /\ j > i /\ directives[j].cert = directives[i].cert
                      /\ directives[j].severity = Critical
    \/ esc.pc = "replace" /\ esc.cert = directives[i].cert
    \/ directives[i].cert \in lost

\* A shadow certificate that comes into the inventory to stay is resolved in the end,
\* and stays resolved, provided somebody reconciles again and again: the escalator may
\* write an unresolved copy over the resolved row, and the next reconciliation has to
\* undo that, whatever ended the earlier ones.
RegisteredIsResolved ==
  \A c \in Certs :
    <>[](c \in inventory /\ shadow[c] # NoRow) /\ []<>(rec.pc = "list")
      => <>[]shadow[c].resolved

=============================================================================
