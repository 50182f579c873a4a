----------------------- MODULE ShadowLifecycleProofs -----------------------
(***************************************************************************)
(* What holds of shadow rows and their directives for any certificates,    *)
(* any number of days, of storage errors and of rows and alerts stored by  *)
(* others.                                                                 *)
(*                                                                         *)
(* Both tasks write back whole rows that they read earlier.  RowInv says   *)
(* what a copy still has to do with the row: the day of classification is  *)
(* the same, and the copy was itself escalated once a day at most.         *)
(* DirectiveInv follows the alerts and the directives they replace through *)
(* the calls of the two tasks; a stale copy may bring a critical row back, *)
(* so it speaks of the copies too.                                         *)
(***************************************************************************)
EXTENDS ShadowLifecycle, TLAPS

-----------------------------------------------------------------------------
(* Types *)

Rows == [risk : 0 .. Critical, since : Nat, escalated : Nat, count : Nat,
         resolved : BOOLEAN]

Directives ==
  [cert : Certs, severity : RiskLevels, status : {"pending", "replaced", "expired"}]

Escalations ==
  [pc : {"idle", "scan", "pending", "replace"}, day : Nat, rows : [Certs -> Rows],
   cert : Certs \cup {NoCert}, ids : SUBSET Nat]

Passes ==
  [pc : {"idle", "list", "known", "resolve", "pending", "cancel", "removed",
         "existing", "create"},
   removed : SUBSET Certs, day : Nat, rows : [Certs -> Rows],
   cert : Certs \cup {NoCert}, ids : SUBSET Nat]

\* Types, and the calls in which a task is about a certificate.
TypeOK ==
  /\ now \in 1 .. MaxDays
  /\ lastSeen \in [Certs -> 0 .. MaxDays]
  /\ inventory \subseteq Certs
  /\ shadow \in [Certs -> Rows]
  /\ directives \in Seq(Directives)
  /\ esc \in Escalations
  /\ esc.pc \in {"pending", "replace"} => esc.cert \in Certs
  /\ rec \in Passes
  /\ rec.pc \in {"resolve", "pending", "cancel", "existing", "create"} => rec.cert \in Certs
  /\ failures \in 0 .. MaxFailures
  /\ stores \in 0 .. MaxStores
  /\ lost \subseteq Certs

-----------------------------------------------------------------------------
(* Rows and copies of them *)

\* A row that may be stored on a day: it was escalated once a day at most.
Sound(row, day) ==
  /\ row.risk \in RiskLevels
  /\ row.since \in 1 .. day
  /\ row.escalated = 0 \/ row.escalated \in row.since .. day
  /\ row.count <= Reference(row) - row.since

\* What is left of a list of rows.
CopyOf(row, c) ==
  /\ shadow[c] # NoRow
  /\ row.since = shadow[c].since
  /\ Sound(row, now)

EscCopy(row, c) ==
  row # NoRow =>
    /\ CopyOf(row, c)
    /\ Reference(row) < esc.day /\ row.risk # Critical

RecCopy(row, c) == row # NoRow => CopyOf(row, c)

RowInv ==
  /\ \A c \in Certs : shadow[c] # NoRow => Sound(shadow[c], now)
  /\ esc.day <= now
  /\ \A c \in Certs : EscCopy(esc.rows[c], c)
  /\ \A c \in Certs : RecCopy(rec.rows[c], c)
  /\ rec.pc = "resolve" => rec.rows[rec.cert] # NoRow
  /\ rec.pc \in {"removed", "existing", "create"} => \A c \in Certs : rec.rows[c] = NoRow

-----------------------------------------------------------------------------
(* Directives *)

\* A row of this kind must have its alert.
Escalation(row) == row.risk = Critical /\ row.count > 0
Covered(c) == Alerted(c) \/ c \in lost

DirectiveInv ==
  /\ \A i \in esc.ids : i \in Ids /\ directives[i].cert = esc.cert
  /\ esc.pc # "replace" => esc.ids = {}
  /\ \A c \in Certs : Escalation(rec.rows[c]) \/ Escalation(shadow[c]) => Covered(c)
  /\ ReplacedHasSuccessor

IInv == TypeOK /\ RowInv /\ DirectiveInv

-----------------------------------------------------------------------------
(* Type correctness *)

LEMMA LevelNumbers == Low = 1 /\ Critical = 4 /\ RiskLevels = 1 .. 4
BY DEF Low, Critical, RiskLevels

LEMMA RowTypes ==
  /\ NoRow \in Rows
  /\ \A risk \in RiskLevels, day \in Nat : NewRow(risk, day) \in Rows
  /\ \A row \in Rows, day \in Nat : Escalated(row, day) \in Rows
  /\ \A row \in Rows : Resolved(row) \in Rows
<1>1. /\ NoRow \in Rows
      /\ \A risk \in RiskLevels, day \in Nat : NewRow(risk, day) \in Rows
  BY DEF NoRow, NewRow, Rows, Low, Critical, RiskLevels
<1>2. ASSUME NEW row \in Rows, NEW day \in Nat PROVE Escalated(row, day) \in Rows
  <2> DEFINE risk == IF row.risk = Critical THEN row.risk ELSE row.risk + 1
  <2>1. row.risk \in 0 .. 4 /\ row.count \in Nat
    BY DEF Rows, Critical
  <2>2. risk \in 0 .. Critical /\ row.count + 1 \in Nat
    BY <2>1 DEF Critical
  <2>3. Escalated(row, day)
          = [row EXCEPT !.risk = risk, !.escalated = day, !.count = row.count + 1]
    BY DEF Escalated
  <2> HIDE DEF risk
  <2> QED
    BY <2>2, <2>3 DEF Rows
<1>3. ASSUME NEW row \in Rows PROVE Resolved(row) \in Rows
  BY DEF Resolved, Rows
<1> QED
  BY <1>1, <1>2, <1>3

LEMMA UpsertType ==
  ASSUME shadow \in [Certs -> Rows], NEW c \in Certs, NEW row \in Rows, Upsert(c, row)
  PROVE  shadow' \in [Certs -> Rows]
BY DEF Upsert, Rows

LEMMA UpdateStatusType ==
  ASSUME directives \in Seq(Directives), NEW i \in Ids,
         NEW status \in {"replaced", "expired"}, UpdateStatus(i, status)
  PROVE  directives' \in Seq(Directives)
<1>1. directives[i] \in Directives
  BY DEF Ids
<1>2. [directives[i] EXCEPT !.status = status] \in Directives
  BY <1>1 DEF Directives
<1>3. directives' = [directives EXCEPT ![i] = [directives[i] EXCEPT !.status = status]]
  BY DEF UpdateStatus
<1> QED
  BY <1>2, <1>3 DEF Ids

LEMMA InsertType ==
  ASSUME directives \in Seq(Directives), NEW c \in Certs, NEW severity \in RiskLevels,
         Insert(c, severity)
  PROVE  directives' \in Seq(Directives)
BY DEF Insert, Directives

LEMMA InitType == Init => TypeOK
<1> SUFFICES ASSUME Init PROVE TypeOK
  OBVIOUS
<1>1. EscIdle \in Escalations /\ RecIdle \in Passes
  BY RowTypes DEF EscIdle, RecIdle, Escalations, Passes
<1>2. EscIdle.pc = "idle" /\ RecIdle.pc = "idle"
  BY DEF EscIdle, RecIdle
<1> QED
  BY <1>1, <1>2, RowTypes, LifecycleAssumption DEF Init, TypeOK

LEMMA UnresolvedType ==
  ASSUME shadow \in [Certs -> Rows]
  PROVE  /\ Unresolved \in [Certs -> Rows]
         /\ \A c \in Certs : Unresolved[c] \in {NoRow, shadow[c]}
BY RowTypes DEF Unresolved

\* What the escalator does to its locals keeps their types.
LEMMA EscTypes ==
  ASSUME esc \in Escalations
  PROVE  /\ esc.rows \in [Certs -> Rows] /\ esc.day \in Nat /\ esc.ids \subseteq Nat
         /\ \A c \in Certs : LET dropped == [esc EXCEPT !.rows[c] = NoRow]
                             IN  /\ dropped \in Escalations /\ dropped.pc = esc.pc
                                 /\ dropped.cert = esc.cert
         /\ \A c \in Certs :
              LET about == [esc EXCEPT !.rows[c] = NoRow, !.pc = "pending", !.cert = c]
              IN  about \in Escalations /\ about.pc = "pending" /\ about.cert = c
         /\ \A ids \in SUBSET Nat :
              LET listed == [esc EXCEPT !.pc = "replace", !.ids = ids]
              IN  /\ listed \in Escalations /\ listed.pc = "replace"
                  /\ listed.cert = esc.cert
         /\ NextRow \in Escalations /\ NextRow.pc = "scan"
<1>1. /\ esc.rows \in [Certs -> Rows] /\ esc.day \in Nat /\ esc.ids \subseteq Nat
  BY DEF Escalations
<1>2. ASSUME NEW c \in Certs
      PROVE  LET dropped == [esc EXCEPT !.rows[c] = NoRow]
             IN  dropped \in Escalations /\ dropped.pc = esc.pc /\ dropped.cert = esc.cert
  BY RowTypes DEF Escalations
<1>3. ASSUME NEW c \in Certs
      PROVE  LET about == [esc EXCEPT !.rows[c] = NoRow, !.pc = "pending", !.cert = c]
             IN  about \in Escalations /\ about.pc = "pending" /\ about.cert = c
  BY RowTypes DEF Escalations
<1>4. ASSUME NEW ids \in SUBSET Nat
      PROVE  LET listed == [esc EXCEPT !.pc = "replace", !.ids = ids]
             IN  /\ listed \in Escalations /\ listed.pc = "replace"
                 /\ listed.cert = esc.cert
  BY DEF Escalations
<1>5. NextRow \in Escalations /\ NextRow.pc = "scan"
  BY DEF NextRow, Escalations
<1> QED
  BY <1>1, <1>2, <1>3, <1>4, <1>5

LEMMA EscalateType == TypeOK /\ Escalate => TypeOK'
<1> SUFFICES ASSUME TypeOK, Escalate PROVE TypeOK'
  OBVIOUS
<1>0. /\ esc \in Escalations /\ shadow \in [Certs -> Rows]
      /\ directives \in Seq(Directives) /\ now \in 1 .. MaxDays
      /\ esc.pc \in {"pending", "replace"} => esc.cert \in Certs
  BY DEF TypeOK
<1>n. now \in Nat
  BY <1>0, LifecycleAssumption
<1>e. ASSUME esc' \in Escalations,
             esc'.pc \in {"pending", "replace"} => esc'.cert \in Certs,
             shadow' \in [Certs -> Rows], directives' \in Seq(Directives),
             UNCHANGED <<outside, inventory, rec>>, lost' \subseteq Certs,
             UNCHANGED failures \/ StorageError
      PROVE  TypeOK'
  <2>1. failures' \in 0 .. MaxFailures
    BY <1>e, LifecycleAssumption DEF TypeOK, StorageError
  <2> QED
    BY <1>e, <2>1 DEF TypeOK, outside
<1>l. UNCHANGED lost => lost' \subseteq Certs
  BY DEF TypeOK
<1>1. CASE EscList
  <2> DEFINE listed == [c \in Certs |-> IF Due(Unresolved[c]) THEN Unresolved[c] ELSE NoRow]
             locals == [EscIdle EXCEPT !.pc = "scan", !.day = now, !.rows = listed]
  <2>1. listed \in [Certs -> Rows]
    BY <1>0, UnresolvedType, RowTypes
  <2>2. esc' = locals
    BY <1>1 DEF EscList
  <2> HIDE DEF listed
  <2>3. locals \in Escalations /\ locals.pc = "scan"
    BY <1>n, <2>1 DEF EscIdle, Escalations
  <2> HIDE DEF locals
  <2> QED
    BY <1>0, <1>1, <1>e, <1>l, <2>2, <2>3 DEF EscList, environment, account
<1>2. ASSUME NEW c \in Certs, EscUpdate(c) PROVE TypeOK'
  <2>1. esc.rows[c] \in Rows /\ esc.day \in Nat
    BY <1>0, EscTypes
  <2>2. shadow' \in [Certs -> Rows]
    BY <1>0, <1>2, <2>1, RowTypes, UpsertType DEF EscUpdate
  <2>3. /\ esc' \in Escalations
        /\ esc'.pc \in {"pending", "replace"} => esc'.cert \in Certs
    BY <1>0, <1>2, EscTypes DEF EscUpdate
  <2> QED
    BY <1>0, <1>2, <1>e, <1>l, <2>2, <2>3 DEF EscUpdate, environment, account
<1>3. ASSUME NEW c \in Certs, EscUpdateFails(c) PROVE TypeOK'
  <2>1. esc' \in Escalations /\ esc'.pc = "scan"
    BY <1>0, <1>3, EscTypes DEF EscUpdateFails
  <2> QED
    BY <1>0, <1>3, <1>e, <1>l, <2>1 DEF EscUpdateFails
<1>4. CASE EscListPending
  <2>1. Pending(esc.cert) \in SUBSET Nat
    BY DEF Pending, Ids
  <2>2. esc' \in Escalations /\ esc'.pc = "replace" /\ esc'.cert = esc.cert
    BY <1>0, <1>4, <2>1, EscTypes DEF EscListPending
  <2> QED
    BY <1>0, <1>4, <1>e, <1>l, <2>2 DEF EscListPending, environment, account
<1>5. ASSUME NEW i \in Ids, EscReplace(i) PROVE TypeOK'
  <2>1. directives' \in Seq(Directives)
    BY <1>0, <1>5, UpdateStatusType DEF EscReplace
  <2>2. esc' \in Escalations /\ esc'.pc = "replace" /\ esc'.cert = esc.cert
    BY <1>0, <1>5 DEF EscReplace, Escalations
  <2> QED
    BY <1>0, <1>5, <1>e, <1>l, <2>1, <2>2 DEF EscReplace, environment, account
<1>6. CASE EscReplaceFails
  <2>1. esc.pc \in {"pending", "replace"} /\ {} \in SUBSET Nat
    BY <1>6 DEF EscReplaceFails
  <2>2. esc' \in Escalations /\ esc'.pc = "replace" /\ esc'.cert = esc.cert
    BY <1>0, <1>6, <2>1, EscTypes DEF EscReplaceFails
  <2> QED
    BY <1>0, <1>6, <1>e, <1>l, <2>1, <2>2 DEF EscReplaceFails
<1>7. CASE EscInsert
  <2>1. directives' \in Seq(Directives)
    BY <1>0, <1>7, InsertType, LevelNumbers DEF EscInsert
  <2> QED
    BY <1>0, <1>7, <1>e, <1>l, <2>1, EscTypes DEF EscInsert, environment, account
<1>8. CASE EscInsertFails
  <2>1. esc.cert \in Certs /\ lost' \subseteq Certs
    BY <1>8 DEF EscInsertFails, TypeOK
  <2> QED
    BY <1>0, <1>8, <1>e, <1>l, <2>1, EscTypes DEF EscInsertFails
<1>9. CASE EscReturn
  <2>1. EscIdle \in Escalations /\ EscIdle.pc = "idle"
    BY RowTypes DEF EscIdle, Escalations
  <2> QED
    BY <1>0, <1>9, <1>e, <1>l, <2>1 DEF EscReturn, environment, account
<1> QED
  BY <1>1, <1>2, <1>3, <1>4, <1>5, <1>6, <1>7, <1>8, <1>9 DEF Escalate

\* The reconciler, whoever calls it, and the refreshes.
Reconciling ==
  Reconcile \/ RefreshInventory \/ \E removed \in SUBSET Certs : RecCall(removed)

LEMMA ReconcileType == TypeOK /\ Reconciling => TypeOK'
<1> SUFFICES ASSUME TypeOK, Reconciling PROVE TypeOK'
  OBVIOUS
<1> USE DEF TypeOK, environment, outside, account
<1>0. RecIdle \in Passes /\ RecIdle.pc = "idle"
  BY RowTypes DEF RecIdle, Passes
<1>n. now \in Nat
  BY LifecycleAssumption
<1>1. CASE RefreshInventory
  <2>1. inventory' \subseteq Certs
    BY <1>1 DEF RefreshInventory, ImportEntry, RemoveStale
  <2> QED
    BY <1>1, <2>1 DEF RefreshInventory, ImportEntry, RemoveStale
<1>2. ASSUME NEW removed \in SUBSET Certs, RecCall(removed) PROVE TypeOK'
  <2>1. rec' \in Passes /\ rec'.pc = "list"
    BY <1>0, <1>2 DEF RecCall, Passes
  <2> QED
    BY <1>2, <2>1 DEF RecCall
<1>4. CASE RecList
  BY <1>4, UnresolvedType DEF RecList, Passes
<1>5. ASSUME NEW c \in Certs, RecLookup(c) PROVE TypeOK'
  <2>1. rec' \in Passes /\ (rec'.pc = "known" \/ rec'.cert \in Certs)
    BY <1>5, RowTypes DEF RecLookup, Passes
  <2> QED
    BY <1>5, <2>1 DEF RecLookup
<1>6. CASE RecResolve
  <2>1. rec.cert \in Certs /\ rec.rows[rec.cert] \in Rows
    BY <1>6 DEF RecResolve, Passes
  <2>2. shadow' \in [Certs -> Rows]
    BY <1>6, <2>1, RowTypes, UpsertType DEF RecResolve
  <2>3. rec' \in Passes /\ rec'.cert = rec.cert
    BY <1>6, <2>1, RowTypes DEF RecResolve, Passes
  <2> QED
    BY <1>6, <2>1, <2>2, <2>3 DEF RecResolve
<1>7. CASE RecListPending
  <2>1. Pending(rec.cert) \in SUBSET Nat
    BY DEF Pending, Ids
  <2>2. rec' \in Passes /\ rec'.cert = rec.cert
    BY <1>7, <2>1 DEF RecListPending, Passes
  <2> QED
    BY <1>7, <2>2 DEF RecListPending
<1>8. ASSUME NEW i \in Ids, RecCancel(i) PROVE TypeOK'
  <2>1. directives' \in Seq(Directives)
    BY <1>8, UpdateStatusType DEF RecCancel
  <2> QED
    BY <1>8, <2>1 DEF RecCancel, Passes
<1>9. CASE RecCancelled
  <2>1. rec' \in Passes /\ rec'.pc = "known"
    BY <1>9 DEF RecCancelled, Passes
  <2> QED
    BY <1>9, <2>1 DEF RecCancelled
<1>10. CASE RecPhase2
  BY <1>n, <1>10 DEF RecPhase2, Passes
<1>11. ASSUME NEW c \in Certs, RecSeen(c) PROVE TypeOK'
  <2>1. rec' \in Passes /\ (rec'.pc = "removed" \/ rec'.cert \in Certs)
    BY <1>11 DEF RecSeen, Passes
  <2> QED
    BY <1>11, <2>1 DEF RecSeen
<1>12. CASE RecExisting
  <2>1. rec' \in Passes /\ rec'.pc \in {"create", "removed"}
        /\ (rec'.pc = "create" => rec'.cert \in Certs)
    BY <1>12 DEF RecExisting, Passes
  <2> QED
    BY <1>12, <2>1 DEF RecExisting
<1>13. CASE RecCreate
  <2>1. shadow' \in [Certs -> Rows]
    <3>1. rec.cert \in Certs /\ NewRow(Low, now) \in Rows
      BY <1>n, <1>13, RowTypes, LevelNumbers DEF RecCreate
    <3> QED
      BY <1>13, <3>1, UpsertType DEF RecCreate
  <2> QED
    BY <1>13, <2>1 DEF RecCreate, Passes
<1>14. CASE RecReturn
  BY <1>0, <1>14 DEF RecReturn
<1>15. CASE RecFails
  BY <1>0, <1>15, LifecycleAssumption DEF RecFails, StorageError
<1> QED
  BY <1>1, <1>2, <1>4, <1>5, <1>6, <1>7, <1>8, <1>9, <1>10, <1>11, <1>12,
     <1>13, <1>14, <1>15 DEF Reconciling, Reconcile

LEMMA EnvironmentType == TypeOK /\ Environment => TypeOK'
<1> SUFFICES ASSUME TypeOK, Environment PROVE TypeOK'
  OBVIOUS
<1> USE DEF TypeOK, account
<1>0. now \in Nat /\ Levels \subseteq RiskLevels
  BY LifecycleAssumption, LevelNumbers
<1>s. ASSUME NEW c \in Certs, Stored(c) PROVE stores' \in 0 .. MaxStores
  BY <1>s, LifecycleAssumption DEF Stored
<1>1. CASE Day
  BY <1>1, LifecycleAssumption DEF Day
<1>2. ASSUME NEW c \in Certs, Observe(c) PROVE TypeOK'
  BY <1>2, LifecycleAssumption DEF Observe
<1>3. ASSUME NEW c \in Certs, NEW level \in Levels, StoreRow(c, level) PROVE TypeOK'
  <2>1. shadow' \in [Certs -> Rows]
    BY <1>0, <1>3, RowTypes, UpsertType DEF StoreRow
  <2> QED
    BY <1>3, <1>s, <2>1 DEF StoreRow
<1>4. ASSUME NEW c \in Certs, NEW level \in Levels, StoreAlert(c, level) PROVE TypeOK'
  <2>1. directives' \in Seq(Directives)
    BY <1>0, <1>4, InsertType DEF StoreAlert
  <2> QED
    BY <1>4, <1>s, <2>1 DEF StoreAlert
<1> QED
  BY <1>1, <1>2, <1>3, <1>4 DEF Environment

LEMMA NextType == TypeOK /\ [Next]_vars => TypeOK'
<1>1. TypeOK /\ UNCHANGED vars => TypeOK'
  BY DEF TypeOK, vars, environment, outside, account
<1> QED
  BY <1>1, EscalateType, ReconcileType, EnvironmentType DEF Next, Reconciling

\* Every state of the two tasks and of the tables has the types that the code's
\* locals and columns have.
THEOREM TypeCorrect == Spec => []TypeOK
BY InitType, NextType, PTL DEF Spec

-----------------------------------------------------------------------------
(* The rows *)

LEMMA SoundLater ==
  ASSUME NEW row \in Rows, NEW day \in Nat, NEW later \in Nat, day <= later, Sound(row, day)
  PROVE  Sound(row, later)
BY DEF Sound, Rows

LEMMA SoundRow ==
  ASSUME NEW row \in Rows, NEW day \in Nat, Sound(row, day)
  PROVE  /\ row # NoRow
         /\ Reference(row) \in row.since .. day
         /\ row.count <= day - row.since
<1>1. NoRow.since = 0
  BY DEF NoRow
<1>2. row.since \in 1 .. day /\ row.escalated \in Nat /\ row.count \in Nat
  BY DEF Sound, Rows
<1>3. Reference(row) \in row.since .. day
  BY <1>2 DEF Sound, Reference
<1> QED
  BY <1>1, <1>2, <1>3 DEF Sound

\* What an upsert leaves in the table.
LEMMA UpsertEffect ==
  ASSUME shadow \in [Certs -> Rows], NEW c \in Certs, NEW row \in Rows, Upsert(c, row)
  PROVE  /\ shadow' \in [Certs -> Rows]
         /\ \A d \in Certs : d # c => shadow'[d] = shadow[d]
         /\ shadow'[c].risk = row.risk /\ shadow'[c].escalated = row.escalated
         /\ shadow'[c].count = row.count /\ shadow'[c].resolved = row.resolved
         /\ shadow[c] = NoRow => shadow'[c].since = row.since
         /\ shadow[c] # NoRow => shadow'[c].since = shadow[c].since
<1>1. shadow' \in [Certs -> Rows]
  BY UpsertType
<1>2. CASE shadow[c] = NoRow
  <2>1. shadow' = [shadow EXCEPT ![c] = row]
    BY <1>2 DEF Upsert
  <2> QED
    BY <1>1, <1>2, <2>1
<1>3. CASE shadow[c] # NoRow
  <2> DEFINE merged == [row EXCEPT !.since = shadow[c].since]
  <2>1. shadow' = [shadow EXCEPT ![c] = merged]
    BY <1>3 DEF Upsert
  <2>2. /\ merged.risk = row.risk /\ merged.escalated = row.escalated
        /\ merged.count = row.count /\ merged.resolved = row.resolved
        /\ merged.since = shadow[c].since
    BY DEF Rows
  <2> HIDE DEF merged
  <2> QED
    BY <1>1, <1>3, <2>1, <2>2
<1> QED
  BY <1>2, <1>3

\* A step that may drop copies and write rows, and lists none.
LEMMA RowsKept ==
  ASSUME TypeOK, TypeOK', RowInv, now <= now', esc'.day <= now',
         \A c \in Certs :
           \/ esc'.rows[c] = NoRow
           \/ esc'.rows[c] = esc.rows[c] /\ esc'.day = esc.day,
         \A c \in Certs : rec'.rows[c] \in {rec.rows[c], NoRow},
         \A c \in Certs :
           \/ shadow'[c] = shadow[c]
           \/ /\ Sound(shadow'[c], now')
              /\ shadow[c] # NoRow => shadow'[c].since = shadow[c].since,
         rec'.pc = "resolve" => rec'.rows[rec'.cert] # NoRow,
         rec'.pc \in {"removed", "existing", "create"} =>
           \A c \in Certs : rec'.rows[c] = NoRow
  PROVE  RowInv'
<1>0. /\ now \in Nat /\ now' \in Nat /\ shadow' \in [Certs -> Rows]
      /\ esc.day \in Nat
  BY LifecycleAssumption, SMTT(30) DEF TypeOK, Escalations
<1>1. ASSUME NEW c \in Certs
      PROVE  shadow[c] \in Rows /\ esc.rows[c] \in Rows /\ rec.rows[c] \in Rows
  BY DEF TypeOK, Escalations, Passes
<1>2. ASSUME NEW c \in Certs, shadow'[c] # NoRow PROVE Sound(shadow'[c], now')
  BY <1>0, <1>1, <1>2, SoundLater DEF RowInv
<1>3. ASSUME NEW c \in Certs, shadow[c] # NoRow
      PROVE  shadow'[c] # NoRow /\ shadow'[c].since = shadow[c].since
  BY <1>0, <1>3, SoundRow
<1>4. ASSUME NEW c \in Certs, NEW row \in Rows, CopyOf(row, c) PROVE CopyOf(row, c)'
  BY <1>0, <1>3, <1>4, SoundLater DEF CopyOf
<1>5. ASSUME NEW c \in Certs, NEW row \in Rows, row = esc.rows[c], row = esc'.rows[c],
             esc'.day = esc.day
      PROVE  EscCopy(row, c)'
  <2> SUFFICES ASSUME row # NoRow PROVE EscCopy(row, c)'
    BY DEF EscCopy
  <2>1. EscCopy(row, c)
    BY <1>5 DEF RowInv
  <2>2. CopyOf(row, c)'
    BY <1>4, <2>1 DEF EscCopy
  <2> QED
    BY <1>5, <2>1, <2>2 DEF EscCopy
<1>6. ASSUME NEW c \in Certs, NEW row \in Rows, row = rec.rows[c], row = rec'.rows[c]
      PROVE  RecCopy(row, c)'
  <2> SUFFICES ASSUME row # NoRow PROVE RecCopy(row, c)'
    BY DEF RecCopy
  <2>1. RecCopy(row, c)
    BY <1>6 DEF RowInv
  <2>2. CopyOf(row, c)'
    BY <1>4, <2>1 DEF RecCopy
  <2> QED
    BY <2>2 DEF RecCopy
<1>8. ASSUME NEW c \in Certs PROVE EscCopy(esc.rows[c], c)'
  <2>1. CASE esc'.rows[c] = NoRow
    BY <2>1 DEF EscCopy
  <2>2. CASE esc'.rows[c] = esc.rows[c] /\ esc'.day = esc.day
    BY <1>1, <1>5, <2>2 DEF EscCopy
  <2> QED
    BY <2>1, <2>2
<1>9. ASSUME NEW c \in Certs PROVE RecCopy(rec.rows[c], c)'
  <2>1. CASE rec'.rows[c] = NoRow
    BY <2>1 DEF RecCopy
  <2>2. CASE rec'.rows[c] = rec.rows[c]
    BY <1>1, <1>6, <2>2 DEF RecCopy
  <2> QED
    BY <2>1, <2>2
<1> QED
  BY <1>2, <1>8, <1>9 DEF RowInv

\* A row written as new: where there is one, it keeps its day of classification.
LEMMA NewRowSound ==
  ASSUME TypeOK, RowInv, NEW c \in Certs, NEW risk \in RiskLevels,
         Upsert(c, NewRow(risk, now))
  PROVE  /\ \A d \in Certs : d # c => shadow'[d] = shadow[d]
         /\ shadow[c] # NoRow => shadow'[c].since = shadow[c].since
         /\ shadow'[c].risk = risk /\ shadow'[c].count = 0
         /\ Sound(shadow'[c], now)
<1> DEFINE row == NewRow(risk, now)
<1>0. now \in Nat /\ now >= 1 /\ shadow \in [Certs -> Rows]
  BY LifecycleAssumption DEF TypeOK
<1>1. /\ row \in Rows /\ row.risk = risk /\ row.since = now /\ row.escalated = 0
      /\ row.count = 0
  BY <1>0, RowTypes DEF NewRow
<1>2. shadow[c] # NoRow => Sound(shadow[c], now)
  BY DEF RowInv
<1> HIDE DEF row
<1>3. /\ shadow'[c].risk = risk /\ shadow'[c].count = 0 /\ shadow'[c].escalated = 0
      /\ shadow[c] = NoRow => shadow'[c].since = now
      /\ shadow[c] # NoRow => shadow'[c].since = shadow[c].since
      /\ \A d \in Certs : d # c => shadow'[d] = shadow[d]
  BY <1>0, <1>1, UpsertEffect DEF row
<1>4. shadow'[c].since \in 1 .. now
  BY <1>0, <1>2, <1>3 DEF Sound
<1>5. Sound(shadow'[c], now)
  BY <1>0, <1>3, <1>4 DEF Sound, Reference
<1> QED
  BY <1>3, <1>5

\* One more tier for a row that was due.
LEMMA EscalatedSound ==
  ASSUME NEW row \in Rows, NEW day \in Nat, Sound(row, day), NEW today \in Nat,
         day <= today, Reference(row) < day, row.risk # Critical,
         NEW new \in Rows, new.since = row.since,
         new.risk = Escalated(row, day).risk, new.count = Escalated(row, day).count,
         new.escalated = Escalated(row, day).escalated
  PROVE  Sound(new, today)
<1>1. row.risk \in 1 .. 3 /\ row.count \in Nat /\ row.since \in 1 .. day
  BY LevelNumbers DEF Sound, Rows
<1>2. /\ Escalated(row, day).risk = row.risk + 1 /\ Escalated(row, day).escalated = day
      /\ Escalated(row, day).count = row.count + 1
  BY <1>1, LevelNumbers DEF Escalated, Rows
<1>3. Reference(new) = day /\ Reference(row) \in row.since .. day
  BY <1>1, <1>2, SoundRow DEF Reference
<1> QED
  BY <1>1, <1>2, <1>3, LevelNumbers DEF Sound

\* The escalator only drops copies, except when it lists.
LEMMA EscDrops ==
  ASSUME esc \in Escalations, Escalate, ~EscList,
         esc.day <= now, now \in Nat
  PROVE  /\ esc'.day <= now
         /\ \A c \in Certs :
              \/ esc'.rows[c] = NoRow
              \/ esc'.rows[c] = esc.rows[c] /\ esc'.day = esc.day
<1>1. /\ EscIdle.day = 0 /\ \A c \in Certs : EscIdle.rows[c] = NoRow
  BY DEF EscIdle
<1>2. NextRow.rows = esc.rows /\ NextRow.day = esc.day
  BY DEF NextRow, Escalations
<1>3. ASSUME NEW c \in Certs, EscUpdate(c) \/ EscUpdateFails(c)
      PROVE  esc'.rows = [esc.rows EXCEPT ![c] = NoRow] /\ esc'.day = esc.day
  BY <1>3 DEF EscUpdate, EscUpdateFails, Escalations
<1>4. CASE EscListPending \/ EscReplaceFails \/ \E i \in Ids : EscReplace(i)
  BY <1>4 DEF EscListPending, EscReplaceFails, EscReplace, Escalations
<1>5. CASE EscInsert \/ EscInsertFails
  BY <1>2, <1>5 DEF EscInsert, EscInsertFails
<1>6. CASE EscReturn
  BY <1>1, <1>6 DEF EscReturn
<1>7. ASSUME NEW c \in Certs, EscUpdate(c) \/ EscUpdateFails(c)
      PROVE  /\ esc'.day <= now
             /\ \A d \in Certs :
                  \/ esc'.rows[d] = NoRow
                  \/ esc'.rows[d] = esc.rows[d] /\ esc'.day = esc.day
  <2>1. esc.rows \in [Certs -> Rows]
    BY DEF Escalations
  <2> QED
    BY <1>3, <1>7, <2>1
<1> QED
  BY <1>4, <1>5, <1>6, <1>7 DEF Escalate

LEMMA EscListRows == ASSUME TypeOK, TypeOK', RowInv, EscList PROVE RowInv'
<1>1. /\ UNCHANGED <<now, shadow, rec>> /\ now \in Nat
      /\ esc'.day = now
      /\ \A c \in Certs : esc'.rows[c] = IF Due(Unresolved[c]) THEN Unresolved[c] ELSE NoRow
  BY LifecycleAssumption DEF EscList, environment, outside, EscIdle, TypeOK
<1>2. ASSUME NEW c \in Certs, esc'.rows[c] # NoRow
      PROVE  esc'.rows[c] = shadow[c] /\ Due(shadow[c])
  <2>1. Due(Unresolved[c]) /\ esc'.rows[c] = Unresolved[c]
    BY <1>1, <1>2
  <2> QED
    BY <1>2, <2>1, UnresolvedType DEF TypeOK
<1>3. ASSUME NEW c \in Certs PROVE EscCopy(esc.rows[c], c)'
  <2> SUFFICES ASSUME esc'.rows[c] # NoRow PROVE EscCopy(esc.rows[c], c)'
    BY DEF EscCopy
  <2>1. /\ esc'.rows[c] = shadow[c] /\ shadow[c] # NoRow /\ shadow[c].risk # Critical
        /\ now - Reference(shadow[c]) >= 1 /\ shadow[c] \in Rows
    BY <1>2 DEF Due, TypeOK
  <2>2. Sound(shadow[c], now)
    BY <2>1 DEF RowInv
  <2>3. Reference(shadow[c]) < now /\ shadow[c].risk \in Nat
    BY <1>1, <2>1, <2>2, SoundRow, LevelNumbers DEF Rows
  <2> QED
    BY <1>1, <2>1, <2>2, <2>3 DEF EscCopy, CopyOf
<1>4. ASSUME NEW c \in Certs PROVE RecCopy(rec.rows[c], c)'
  BY <1>1 DEF RowInv, RecCopy, CopyOf
<1> QED
  BY <1>1, <1>3, <1>4 DEF RowInv

LEMMA EscalateRows == ASSUME TypeOK, TypeOK', RowInv, Escalate PROVE RowInv'
<1>0. /\ esc \in Escalations /\ now \in Nat /\ esc.day <= now
      /\ UNCHANGED <<now, rec>>
      /\ \A c \in Certs : shadow[c] \in Rows /\ esc.rows[c] \in Rows /\ shadow'[c] \in Rows
  <2>1. UNCHANGED <<now, rec>>
    BY DEF Escalate, EscList, EscListPending, EscReplaceFails, EscInsert, EscInsertFails,
           EscReturn, EscUpdate, EscUpdateFails, EscReplace, environment, outside
  <2>2. esc.rows \in [Certs -> Rows]
    BY DEF TypeOK, Escalations
  <2> QED
    BY <2>1, <2>2, LifecycleAssumption DEF TypeOK, RowInv
<1>r. /\ rec'.pc = "resolve" => rec'.rows[rec'.cert] # NoRow
      /\ rec'.pc \in {"removed", "existing", "create"} =>
           \A c \in Certs : rec'.rows[c] = NoRow
  BY <1>0 DEF RowInv
<1>1. CASE EscList
  BY <1>1, EscListRows
<1>2. ASSUME ~EscList, UNCHANGED shadow PROVE RowInv'
  BY <1>0, <1>2, <1>r, EscDrops, RowsKept
<1>3. ASSUME NEW c \in Certs, EscUpdate(c), ~EscList PROVE RowInv'
  <2> DEFINE row == esc.rows[c]
  <2>1. /\ row # NoRow /\ row \in Rows /\ Upsert(c, Escalated(row, esc.day))
        /\ esc.day \in Nat
    BY <1>0, <1>3 DEF EscUpdate, Escalations
  <2>2. EscCopy(row, c)
    BY DEF RowInv
  <2>3. /\ shadow[c] # NoRow /\ row.since = shadow[c].since /\ Sound(row, now)
        /\ Reference(row) < esc.day /\ row.risk # Critical
    BY <2>1, <2>2 DEF EscCopy, CopyOf
  <2> HIDE DEF row
  <2>4. Sound(row, esc.day)
    <3>1. Reference(row) \in row.since .. now /\ row.since \in 1 .. now
      BY <1>0, <2>1, <2>3, SoundRow DEF Sound
    <3>2. row.escalated = 0 \/ row.escalated = Reference(row)
      BY DEF Reference
    <3> QED
      BY <1>0, <2>1, <2>3, <3>1, <3>2 DEF Sound
  <2>5. Escalated(row, esc.day) \in Rows
    BY <2>1, RowTypes
  <2>6. Sound(shadow'[c], now)
    <3> DEFINE new == shadow'[c]
    <3>1. /\ new \in Rows /\ new.since = row.since
          /\ new.risk = Escalated(row, esc.day).risk
          /\ new.count = Escalated(row, esc.day).count
          /\ new.escalated = Escalated(row, esc.day).escalated
      BY <1>0, <2>1, <2>3, <2>5, UpsertEffect DEF TypeOK
    <3> HIDE DEF new
    <3>2. Sound(new, now)
      BY <1>0, <2>1, <2>3, <2>4, <3>1, EscalatedSound
    <3> QED
      BY <3>2 DEF new
  <2>7. /\ shadow'[c].since = shadow[c].since
        /\ \A d \in Certs : d # c => shadow'[d] = shadow[d]
    BY <2>1, <2>3, <2>5, UpsertEffect DEF TypeOK
  <2> QED
    BY <1>0, <1>3, <1>r, <2>6, <2>7, EscDrops, RowsKept
<1> QED
  BY <1>1, <1>2, <1>3 DEF Escalate, EscListPending, EscReplaceFails, EscInsert,
     EscInsertFails, EscReturn, EscUpdateFails, EscReplace

\* The reconciler only drops copies, except when it lists.
LEMMA RecDrops ==
  ASSUME rec \in Passes, Reconciling, ~RecList,
         RowInv
  PROVE  /\ \A c \in Certs : rec'.rows[c] \in {rec.rows[c], NoRow}
         /\ rec'.pc = "resolve" => rec'.rows[rec'.cert] # NoRow
         /\ rec'.pc \in {"removed", "existing", "create"} =>
              \A c \in Certs : rec'.rows[c] = NoRow
<1>0. /\ RecIdle.pc = "idle" /\ \A c \in Certs : RecIdle.rows[c] = NoRow
      /\ rec.rows \in [Certs -> Rows]
      /\ rec.pc \in {"removed", "existing", "create"} => \A c \in Certs : rec.rows[c] = NoRow
  BY DEF RecIdle, Passes, RowInv
<1>1. ASSUME NEW removed \in SUBSET Certs, RecCall(removed)
      PROVE  rec'.pc = "list" /\ \A c \in Certs : rec'.rows[c] = NoRow
  BY <1>1 DEF RecCall, RecIdle
<1>2. CASE RefreshInventory
  <2>1. rec' = rec
    BY <1>2 DEF RefreshInventory, ImportEntry, RemoveStale
  <2> QED
    BY <2>1 DEF RowInv
<1>3. CASE RecListPending \/ RecCancelled
  <2>1. rec'.pc \in {"cancel", "known"} /\ rec'.rows = rec.rows
    BY <1>3 DEF RecListPending, RecCancelled, Passes
  <2> QED
    BY <2>1
<1>4. ASSUME NEW c \in Certs, RecLookup(c)
      PROVE  \/ rec'.pc = "known" /\ rec'.rows = [rec.rows EXCEPT ![c] = NoRow]
             \/ /\ rec'.pc = "resolve" /\ rec'.cert = c /\ rec'.rows = rec.rows
                /\ rec.rows[c] # NoRow
  BY <1>4 DEF RecLookup, Passes
<1>5. CASE RecResolve
  <2>1. rec'.pc = "pending" /\ rec'.rows = [rec.rows EXCEPT ![rec.cert] = NoRow]
    BY <1>5 DEF RecResolve, Passes
  <2> QED
    BY <1>0, <2>1
<1>6. ASSUME NEW i \in Ids, RecCancel(i) PROVE rec'.pc = "cancel" /\ rec'.rows = rec.rows
  BY <1>6 DEF RecCancel, Passes
<1>7. CASE RecPhase2
  <2>1. rec'.pc = "removed" /\ rec'.rows = rec.rows /\ \A c \in Certs : rec.rows[c] = NoRow
    BY <1>7 DEF RecPhase2, Passes
  <2> QED
    BY <2>1
<1>8. ASSUME NEW c \in Certs, RecSeen(c)
      PROVE  /\ rec.pc = "removed" /\ rec'.rows = rec.rows
             /\ rec'.pc \in {"removed", "existing"}
  BY <1>8 DEF RecSeen, Passes
<1>9. CASE RecExisting \/ RecCreate
  <2>1. /\ rec.pc \in {"existing", "create"} /\ rec'.rows = rec.rows
        /\ rec'.pc \in {"create", "removed"}
    BY <1>9 DEF RecExisting, RecCreate, Passes
  <2> QED
    BY <1>0, <2>1
<1>10. CASE RecReturn \/ RecFails
  BY <1>0, <1>10 DEF RecReturn, RecFails
<1> QED
  BY <1>0, <1>1, <1>2, <1>3, <1>4, <1>5, <1>6, <1>7, <1>8, <1>9, <1>10
    DEF Reconciling, Reconcile

LEMMA RecListRows == ASSUME TypeOK, TypeOK', RowInv, RecList PROVE RowInv'
<1>1. /\ UNCHANGED <<now, shadow, esc>> /\ rec'.pc = "known" /\ rec'.rows = Unresolved
      /\ now \in Nat
  BY LifecycleAssumption DEF RecList, environment, outside, TypeOK, Passes
<1>2. ASSUME NEW c \in Certs PROVE RecCopy(rec.rows[c], c)'
  <2> SUFFICES ASSUME rec'.rows[c] # NoRow PROVE RecCopy(rec.rows[c], c)'
    BY DEF RecCopy
  <2>1. rec'.rows[c] = shadow[c] /\ shadow[c] # NoRow /\ shadow[c] \in Rows
    BY <1>1, UnresolvedType DEF TypeOK
  <2>2. Sound(shadow[c], now)
    BY <2>1 DEF RowInv
  <2> QED
    BY <1>1, <2>1, <2>2 DEF RecCopy, CopyOf
<1>3. ASSUME NEW c \in Certs PROVE EscCopy(esc.rows[c], c)'
  BY <1>1 DEF RowInv, EscCopy, CopyOf
<1> QED
  BY <1>1, <1>2, <1>3 DEF RowInv

LEMMA ReconcileRows == ASSUME TypeOK, TypeOK', RowInv, Reconciling PROVE RowInv'
<1>0. /\ now \in Nat /\ rec \in Passes /\ UNCHANGED <<now, esc>> /\ esc.day <= now
      /\ rec.rows \in [Certs -> Rows] /\ shadow \in [Certs -> Rows]
  <2>1. UNCHANGED <<now, esc>>
    BY DEF Reconciling, RecCall, RefreshInventory, Reconcile, ImportEntry, RemoveStale,
           RecList, RecLookup, RecResolve, RecListPending, RecCancel, RecCancelled,
           RecPhase2, RecSeen, RecExisting, RecCreate, RecReturn, RecFails, environment,
           outside
  <2> QED
    BY <2>1, LifecycleAssumption, SMTT(30) DEF TypeOK, RowInv, Passes
<1>2. CASE RecList
  BY <1>2, RecListRows
<1>3. ASSUME ~RecList, UNCHANGED shadow PROVE RowInv'
  BY <1>0, <1>3, RecDrops, RowsKept
<1>4. CASE RecResolve
  <2> DEFINE c == rec.cert
             row == rec.rows[rec.cert]
  <2>1. /\ c \in Certs /\ row # NoRow /\ row \in Rows /\ Upsert(c, Resolved(row))
        /\ ~RecList
    BY <1>0, <1>4 DEF RecResolve, RecList, RowInv, TypeOK, Passes
  <2>2. RecCopy(row, c)
    BY <2>1 DEF RowInv
  <2> HIDE DEF c, row
  <2>3. /\ shadow[c] # NoRow /\ row.since = shadow[c].since /\ Sound(row, now)
    BY <2>1, <2>2 DEF RecCopy, CopyOf
  <2>4. /\ Resolved(row) \in Rows
        /\ Resolved(row).risk = row.risk /\ Resolved(row).count = row.count
        /\ Resolved(row).escalated = row.escalated
    BY <2>1, RowTypes DEF Resolved, Rows
  <2>5. /\ shadow'[c].risk = row.risk
        /\ shadow'[c].count = row.count /\ shadow'[c].escalated = row.escalated
        /\ shadow'[c].since = row.since /\ shadow'[c].since = shadow[c].since
        /\ \A d \in Certs : d # c => shadow'[d] = shadow[d]
    BY <1>0, <2>1, <2>3, <2>4, UpsertEffect
  <2>6. Sound(shadow'[c], now)
    BY <2>3, <2>5 DEF Sound, Reference
  <2> QED
    BY <1>0, <2>1, <2>5, <2>6, RecDrops, RowsKept
<1>5. CASE RecCreate
  <2> DEFINE c == rec.cert
             row == NewRow(Low, now)
  <2>1. c \in Certs /\ Upsert(c, row) /\ ~RecList
    BY <1>5 DEF RecCreate, RecList, TypeOK
  <2>2. Low \in RiskLevels
    BY LevelNumbers
  <2>3. /\ \A d \in Certs : d # c => shadow'[d] = shadow[d]
        /\ shadow[c] # NoRow => shadow'[c].since = shadow[c].since
        /\ Sound(shadow'[c], now)
    BY <1>0, <2>1, <2>2, NewRowSound
  <2> QED
    BY <1>0, <2>1, <2>3, RecDrops, RowsKept
<1> QED
  <2>1. UNCHANGED shadow \/ RecResolve \/ RecCreate
    BY DEF Reconciling, RecCall, RefreshInventory, Reconcile, ImportEntry, RemoveStale,
           RecList, RecLookup, RecListPending, RecCancel, RecCancelled, RecPhase2, RecSeen,
           RecExisting, RecReturn, RecFails
  <2> QED
    BY <1>2, <1>3, <1>4, <1>5, <2>1, SMTT(30)

LEMMA EnvironmentRows == ASSUME TypeOK, TypeOK', RowInv, Environment PROVE RowInv'
<1>0. /\ now \in Nat /\ now' \in Nat /\ now <= now' /\ UNCHANGED <<esc, rec>>
      /\ esc.day <= now /\ esc.day \in Nat
  <2>1. UNCHANGED <<esc, rec>> /\ (now' = now \/ now' = now + 1)
    BY DEF Environment, Day, Observe, StoreRow, StoreAlert
  <2> QED
    BY <2>1, LifecycleAssumption DEF TypeOK, RowInv, Escalations
<1>1. /\ esc'.day <= now'
      /\ rec'.pc = "resolve" => rec'.rows[rec'.cert] # NoRow
      /\ rec'.pc \in {"removed", "existing", "create"} =>
           \A c \in Certs : rec'.rows[c] = NoRow
  BY <1>0, LifecycleAssumption DEF RowInv
<1>3. CASE UNCHANGED shadow
  BY <1>0, <1>1, <1>3, RowsKept
<1>4. ASSUME NEW c \in Certs, NEW level \in Levels, StoreRow(c, level) PROVE RowInv'
  <2>1. Upsert(c, NewRow(level, now)) /\ now' = now /\ level \in RiskLevels
    BY <1>4, LifecycleAssumption, LevelNumbers DEF StoreRow
  <2>2. /\ \A d \in Certs : d # c => shadow'[d] = shadow[d]
        /\ shadow[c] # NoRow => shadow'[c].since = shadow[c].since
        /\ Sound(shadow'[c], now')
    BY <2>1, NewRowSound
  <2> QED
    BY <1>0, <1>1, <2>2, RowsKept
<1> QED
  BY <1>3, <1>4 DEF Environment, Day, Observe, StoreAlert

LEMMA NextRows == TypeOK /\ TypeOK' /\ RowInv /\ [Next]_vars => RowInv'
<1>1. RowInv /\ UNCHANGED vars => RowInv'
  <2> SUFFICES ASSUME RowInv, UNCHANGED vars PROVE RowInv'
    OBVIOUS
  <2>1. UNCHANGED <<now, shadow, esc, rec>>
    BY DEF vars, environment, outside
  <2> QED
    BY <2>1 DEF RowInv, EscCopy, RecCopy, CopyOf
<1> QED
  BY <1>1, EscalateRows, ReconcileRows, EnvironmentRows DEF Next, Reconciling

LEMMA InitRows == Init => RowInv
<1> SUFFICES ASSUME Init PROVE RowInv
  OBVIOUS
<1>1. /\ now = 1 /\ esc.day = 0 /\ rec.pc = "idle"
      /\ \A c \in Certs : shadow[c] = NoRow /\ esc.rows[c] = NoRow /\ rec.rows[c] = NoRow
  BY DEF Init, EscIdle, RecIdle
<1> QED
  BY <1>1 DEF RowInv, EscCopy, RecCopy

LEMMA RowsInvariant == Spec => [](TypeOK /\ RowInv)
<1>1. Init => TypeOK /\ RowInv
  BY InitType, InitRows
<1>2. TypeOK /\ RowInv /\ [Next]_vars => (TypeOK /\ RowInv)'
  BY NextType, NextRows
<1> QED
  BY <1>1, <1>2, PTL DEF Spec

\* shadow_escalation.rs: whichever stale copies of a row the escalator and the
\* reconciler write over each other, on whatever days, it is escalated at most once
\* for each day since it was classified.
THEOREM EscalatedOnceADay == Spec => []OneTierPerDay
<1>1. TypeOK /\ RowInv => OneTierPerDay
  <2> SUFFICES ASSUME TypeOK, RowInv, NEW c \in Certs, shadow[c] # NoRow
               PROVE  shadow[c].count <= now - shadow[c].since
    BY DEF OneTierPerDay
  <2>1. shadow[c] \in Rows /\ now \in Nat /\ Sound(shadow[c], now)
    BY LifecycleAssumption DEF TypeOK, RowInv
  <2> QED
    BY <2>1, SoundRow
<1> QED
  BY <1>1, RowsInvariant, PTL

-----------------------------------------------------------------------------
(* The directives *)

\* A directive keeps its place, its certificate and its severity.
Kept ==
  \A i \in Ids : /\ i \in Ids'
                /\ directives'[i].cert = directives[i].cert
                /\ directives'[i].severity = directives[i].severity

LEMMA UpdateEffect ==
  ASSUME directives \in Seq(Directives), NEW i \in Ids, NEW status, UpdateStatus(i, status)
  PROVE  /\ Kept /\ Ids' = Ids
         /\ \A j \in Ids : j # i => directives'[j].status = directives[j].status
         /\ directives'[i].status = status
<1>1. \A j \in Ids : directives[j] \in Directives
  BY DEF Ids
<1>2. directives' = [directives EXCEPT ![i] = [directives[i] EXCEPT !.status = status]]
  BY DEF UpdateStatus
<1>3. Ids' = Ids /\ \A j \in Ids : j # i => directives'[j] = directives[j]
  BY <1>2 DEF Ids
<1>4. directives'[i] = [directives[i] EXCEPT !.status = status]
  BY <1>2 DEF Ids
<1>5. /\ directives'[i].cert = directives[i].cert /\ directives'[i].status = status
      /\ directives'[i].severity = directives[i].severity
  BY <1>1, <1>4 DEF Directives
<1> QED
  BY <1>3, <1>5 DEF Kept

LEMMA InsertEffect ==
  ASSUME directives \in Seq(Directives), NEW c, NEW severity, Insert(c, severity)
  PROVE  /\ Kept /\ \A i \in Ids : directives'[i] = directives[i]
         /\ \E j \in Ids' :
              /\ directives'[j].cert = c /\ directives'[j].severity = severity
              /\ directives'[j].status = "pending"
              /\ \A i \in Ids : i < j
              /\ \A i \in Ids' : i = j \/ i \in Ids
<1> DEFINE new == [cert |-> c, severity |-> severity, status |-> "pending"]
           j == Len(directives) + 1
<1>1. directives' = Append(directives, new)
  BY DEF Insert
<1>2. /\ new.cert = c /\ new.severity = severity /\ new.status = "pending"
  OBVIOUS
<1> HIDE DEF new
<1>3. /\ Len(directives') = j /\ j \in Nat /\ directives'[j] = new
      /\ \A i \in Ids : directives'[i] = directives[i]
  BY <1>1 DEF Ids
<1> QED
  BY <1>2, <1>3 DEF Ids, Kept

\* The escalator is between writing the row and inserting its alert.
InHand(c) == esc.pc \in {"pending", "replace"} /\ esc.cert = c

\* What every step does: no directive is replaced but in favour of the alert in hand,
\* and that alert is inserted or counted as lost.
Careful ==
  /\ Kept
  /\ lost \subseteq lost'
  /\ \A i \in Ids' : directives'[i].status = "replaced" =>
       \/ i \in Ids /\ directives[i].status = "replaced"
       \/ esc'.pc = "replace" /\ esc'.cert = directives'[i].cert
  /\ esc.pc = "replace" => esc'.pc # "pending"
  /\ \A c \in Certs : InHand(c) =>
       \/ InHand(c)' \/ c \in lost'
       \/ \E j \in Ids' : /\ directives'[j].cert = c /\ directives'[j].severity = Critical
                          /\ directives'[j].status # "replaced"
                          /\ \A i \in Ids : i < j

LEMMA CoveredKept ==
  ASSUME Careful, NEW c \in Certs, Covered(c)
  PROVE  Covered(c)'
<1>1. CASE c \in lost
  BY <1>1 DEF Careful, Covered
<1>2. CASE InHand(c)
  BY <1>2 DEF Careful, Covered, Alerted, InHand
<1>3. CASE \E i \in Ids : /\ directives[i].cert = c /\ directives[i].severity = Critical
                          /\ directives[i].status # "replaced"
  <2>1. PICK i \in Ids : /\ directives[i].cert = c /\ directives[i].severity = Critical
                         /\ directives[i].status # "replaced"
    BY <1>3
  <2>2. /\ i \in Ids' /\ directives'[i].cert = c /\ directives'[i].severity = Critical
        /\ directives'[i].status # "replaced" \/ InHand(c)'
    BY <2>1 DEF Careful, Kept, InHand
  <2> QED
    BY <2>2 DEF Covered, Alerted, InHand
<1> QED
  BY <1>1, <1>2, <1>3 DEF Covered, Alerted, InHand

LEMMA SuccessorKept ==
  ASSUME TypeOK, Careful, ReplacedHasSuccessor
  PROVE  ReplacedHasSuccessor'
<1> SUFFICES ASSUME NEW i \in Ids', directives'[i].status = "replaced"
             PROVE  \/ \E j \in Ids' : /\ j > i /\ directives'[j].cert = directives'[i].cert
                                      /\ directives'[j].severity = Critical
                    \/ esc'.pc = "replace" /\ esc'.cert = directives'[i].cert
                    \/ directives'[i].cert \in lost'
  BY DEF ReplacedHasSuccessor
<1>1. CASE esc'.pc = "replace" /\ esc'.cert = directives'[i].cert
  BY <1>1
<1>2. CASE i \in Ids /\ directives[i].status = "replaced"
  <2> DEFINE c == directives[i].cert
  <2>1. directives'[i].cert = c
    BY <1>2 DEF Careful, Kept
  <2>2. CASE \E j \in Ids : /\ j > i /\ directives[j].cert = c
                           /\ directives[j].severity = Critical
    BY <2>1, <2>2 DEF Careful, Kept
  <2>3. CASE c \in lost
    BY <2>1, <2>3 DEF Careful
  <2>4. CASE esc.pc = "replace" /\ esc.cert = c
    <3>1. PICK d \in Certs : d = c
      BY <2>4 DEF TypeOK
    <3>2. CASE InHand(d)'
      BY <2>1, <2>4, <3>1, <3>2 DEF InHand, Careful
    <3>3. CASE d \in lost'
      BY <2>1, <3>1, <3>3
    <3>4. CASE \E j \in Ids' : /\ directives'[j].cert = d
                              /\ directives'[j].severity = Critical
                              /\ \A k \in Ids : k < j
      <4>1. PICK j \in Ids' : /\ directives'[j].cert = d
                             /\ directives'[j].severity = Critical
                             /\ \A k \in Ids : k < j
        BY <3>4
      <4>2. j > i
        BY <1>2, <4>1 DEF Ids
      <4> QED
        BY <2>1, <3>1, <4>1, <4>2
    <3>5. InHand(d)
      BY <2>4, <3>1 DEF InHand
    <3>6. \/ InHand(d)' \/ d \in lost'
          \/ \E j \in Ids' : /\ directives'[j].cert = d
                            /\ directives'[j].severity = Critical
                            /\ \A k \in Ids : k < j
      <4> HIDE DEF c
      <4> QED
        BY <3>5 DEF Careful
    <3> QED
      BY <3>2, <3>3, <3>4, <3>6
  <2> QED
    BY <1>2, <2>2, <2>3, <2>4 DEF ReplacedHasSuccessor
<1> QED
  BY <1>1, <1>2 DEF Careful

\* A careful step that makes no row or copy critical, but the one in hand.
LEMMA CarefulStep ==
  ASSUME TypeOK, DirectiveInv, Careful,
         \A c \in Certs : Escalation(rec'.rows[c]) \/ Escalation(shadow'[c]) =>
           Escalation(rec.rows[c]) \/ Escalation(shadow[c]) \/ InHand(c)',
         \A i \in esc'.ids : i \in Ids' /\ directives'[i].cert = esc'.cert,
         esc'.pc # "replace" => esc'.ids = {}
  PROVE  DirectiveInv'
<1>1. ASSUME NEW c \in Certs, Escalation(rec'.rows[c]) \/ Escalation(shadow'[c])
      PROVE  Covered(c)'
  <2>1. CASE Escalation(rec.rows[c]) \/ Escalation(shadow[c])
    BY <2>1, CoveredKept DEF DirectiveInv
  <2>2. CASE InHand(c)'
    BY <2>2 DEF InHand, Covered, Alerted
  <2> QED
    BY <1>1, <2>1, <2>2
<1>2. ReplacedHasSuccessor'
  BY SuccessorKept DEF DirectiveInv
<1> QED
  BY <1>1, <1>2 DEF DirectiveInv, Escalation

\* A step of anybody but the escalator.
LEMMA SteadyStep ==
  ASSUME TypeOK, DirectiveInv, Kept, UNCHANGED <<esc, lost>>,
         \A i \in Ids' : directives'[i].status = "replaced" =>
           i \in Ids /\ directives[i].status = "replaced",
         \A c \in Certs : Escalation(rec'.rows[c]) \/ Escalation(shadow'[c]) =>
           Escalation(rec.rows[c]) \/ Escalation(shadow[c])
  PROVE  DirectiveInv'
<1>1. Careful
  BY DEF Careful, InHand
<1>2. /\ \A i \in esc'.ids : i \in Ids' /\ directives'[i].cert = esc'.cert
      /\ esc'.pc # "replace" => esc'.ids = {}
  BY DEF DirectiveInv, Kept
<1> QED
  BY <1>1, <1>2, CarefulStep

LEMMA Unchanged ==
  UNCHANGED directives =>
    Kept /\ \A i \in Ids' : i \in Ids /\ directives'[i] = directives[i]
BY DEF Kept, Ids

LEMMA NoEscalation == ~Escalation(NoRow)
BY DEF Escalation, NoRow, Critical

LEMMA EscalateDirectives ==
  ASSUME TypeOK, TypeOK', RowInv, DirectiveInv, Escalate
  PROVE  DirectiveInv'
<1>0. /\ esc \in Escalations /\ rec' = rec /\ directives \in Seq(Directives)
      /\ shadow \in [Certs -> Rows]
      /\ \A c \in Certs : esc.rows[c] \in Rows
  <2>1. rec' = rec
    BY DEF Escalate, EscList, EscUpdate, EscUpdateFails, EscListPending, EscReplace,
           EscReplaceFails, EscInsert, EscInsertFails, EscReturn
  <2> QED
    BY <2>1 DEF TypeOK, Escalations
<1>s. esc.pc # "replace" => esc.ids = {}
  BY DEF DirectiveInv
\* Nothing but the locals changes, and what was in hand stays in hand.
<1>q. ASSUME UNCHANGED <<shadow, directives, lost>>,
             esc.pc = "replace" => esc'.pc # "pending",
             \A c \in Certs : InHand(c) => InHand(c)',
             \A i \in esc'.ids : i \in Ids /\ directives[i].cert = esc'.cert,
             esc'.pc # "replace" => esc'.ids = {}
      PROVE  DirectiveInv'
  <2>1. Careful
    BY <1>q, Unchanged DEF Careful
  <2> QED
    BY <1>0, <1>q, <2>1, CarefulStep, Unchanged DEF Ids
<1>1. CASE EscList \/ EscReturn
  <2>1. /\ esc.pc \notin {"pending", "replace"} /\ esc'.pc \notin {"pending", "replace"}
        /\ esc'.ids = {} /\ UNCHANGED <<directives, shadow, lost>>
    <3>1. EscIdle.pc = "idle" /\ EscIdle.ids = {}
      BY DEF EscIdle
    <3>2. CASE EscList
      BY <3>2 DEF EscList, EscIdle, environment, account
    <3>3. CASE EscReturn
      BY <3>1, <3>3 DEF EscReturn, environment, account
    <3> QED
      BY <1>1, <3>2, <3>3
  <2> QED
    BY <1>q, <2>1 DEF InHand
<1>2. ASSUME NEW c \in Certs, EscUpdate(c) PROVE DirectiveInv'
  <2>1. /\ esc.pc = "scan" /\ UNCHANGED <<directives, lost>>
        /\ Upsert(c, Escalated(esc.rows[c], esc.day))
    BY <1>2 DEF EscUpdate, environment, account
  <2>2. /\ esc'.ids = {} /\ esc'.pc # "replace"
        /\ ReachesCritical(esc.rows[c]) => InHand(c)'
    BY <1>0, <1>2, <1>s DEF EscUpdate, Escalations, InHand
  <2>3. Careful
    BY <2>1, Unchanged DEF Careful, InHand
  <2>4. ASSUME NEW d \in Certs, Escalation(shadow'[d])
        PROVE  Escalation(shadow[d]) \/ InHand(d)'
    <3>1. CASE d # c
      <4>1. shadow'[d] = shadow[d]
        BY <1>0, <2>1, <3>1 DEF Upsert
      <4> QED
        BY <2>4, <4>1
    <3>2. CASE d = c
      <4>1. esc.day \in Nat /\ Escalated(esc.rows[c], esc.day) \in Rows
        BY <1>0, RowTypes DEF Escalations
      <4>2. shadow'[c].risk = Escalated(esc.rows[c], esc.day).risk
        BY <1>0, <2>1, <4>1, UpsertEffect
      <4>3. Escalated(esc.rows[c], esc.day).risk = Escalated(esc.rows[c], 0).risk
        BY <1>0 DEF Escalated, Rows
      <4>4. ReachesCritical(esc.rows[c])
        BY <2>4, <3>2, <4>2, <4>3 DEF ReachesCritical, Escalation
      <4> QED
        BY <2>2, <3>2, <4>4
    <3> QED
      BY <3>1, <3>2
  <2> QED
    BY <1>0, <2>2, <2>3, <2>4, CarefulStep
<1>3. ASSUME NEW c \in Certs, EscUpdateFails(c) PROVE DirectiveInv'
  <2>1. /\ esc.pc = "scan" /\ esc'.pc = "scan" /\ esc'.ids = {}
        /\ UNCHANGED <<directives, shadow, lost>>
    BY <1>0, <1>3, <1>s DEF EscUpdateFails, Escalations
  <2> QED
    BY <1>q, <2>1 DEF InHand
<1>4. CASE EscListPending
  <2>1. /\ esc.pc = "pending" /\ esc'.pc = "replace" /\ esc'.cert = esc.cert
        /\ esc'.ids = Pending(esc.cert) /\ UNCHANGED <<directives, shadow, lost>>
    BY <1>0, <1>4 DEF EscListPending, environment, account, Escalations
  <2>2. \A i \in esc'.ids : i \in Ids /\ directives[i].cert = esc'.cert
    BY <2>1 DEF Pending
  <2> QED
    BY <1>q, <2>1, <2>2 DEF InHand
<1>5. ASSUME NEW i \in Ids, EscReplace(i) PROVE DirectiveInv'
  <2>1. /\ esc.pc = "replace" /\ esc'.pc = "replace" /\ esc'.cert = esc.cert
        /\ i \in esc.ids /\ esc'.ids \subseteq esc.ids
        /\ UpdateStatus(i, "replaced") /\ UNCHANGED <<shadow, lost>>
    BY <1>0, <1>5 DEF EscReplace, environment, account, Escalations
  <2>2. /\ Kept /\ Ids' = Ids
        /\ \A j \in Ids : j # i => directives'[j].status = directives[j].status
        /\ directives'[i].cert = esc'.cert
    BY <1>0, <2>1, UpdateEffect DEF DirectiveInv, Kept
  <2>3. Careful
    BY <2>1, <2>2 DEF Careful, InHand
  <2>4. \A j \in esc'.ids : j \in Ids' /\ directives'[j].cert = esc'.cert
    BY <2>1, <2>2 DEF DirectiveInv, Kept
  <2> QED
    BY <1>0, <2>1, <2>3, <2>4, CarefulStep
<1>6. CASE EscReplaceFails
  <2>1. /\ esc.pc \in {"pending", "replace"} /\ esc'.pc = "replace" /\ esc'.cert = esc.cert
        /\ esc'.ids = {} /\ UNCHANGED <<directives, shadow, lost>>
    BY <1>0, <1>6 DEF EscReplaceFails, Escalations
  <2> QED
    BY <1>q, <2>1 DEF InHand
<1>7. CASE EscInsert
  <2>1. /\ esc.pc = "replace" /\ esc'.pc = "scan" /\ esc'.ids = {}
        /\ Insert(esc.cert, Critical) /\ UNCHANGED <<shadow, lost>>
    BY <1>0, <1>7 DEF EscInsert, NextRow, environment, account, Escalations
  <2>2. /\ Kept /\ \A i \in Ids : directives'[i] = directives[i]
        /\ \E j \in Ids' :
             /\ directives'[j].cert = esc.cert /\ directives'[j].severity = Critical
             /\ directives'[j].status = "pending"
             /\ \A i \in Ids : i < j
             /\ \A i \in Ids' : i = j \/ i \in Ids
    BY <1>0, <2>1, InsertEffect
  <2>3. \A i \in Ids' : directives'[i].status = "replaced" =>
                           i \in Ids /\ directives[i].status = "replaced"
    BY <2>2
  <2>4. Careful
    BY <2>1, <2>2, <2>3 DEF Careful, InHand
  <2> QED
    BY <1>0, <2>1, <2>4, CarefulStep
<1>8. CASE EscInsertFails
  <2>1. /\ esc.pc = "replace" /\ esc'.pc = "scan" /\ esc'.ids = {}
        /\ UNCHANGED <<directives, shadow>> /\ lost' = lost \cup {esc.cert}
    BY <1>0, <1>8 DEF EscInsertFails, NextRow, Escalations
  <2>2. Careful
    BY <2>1, Unchanged DEF Careful, InHand
  <2> QED
    BY <1>0, <2>1, <2>2, CarefulStep
<1> QED
  BY <1>1, <1>2, <1>3, <1>4, <1>5, <1>6, <1>7, <1>8 DEF Escalate

LEMMA ReconcileDirectives ==
  ASSUME TypeOK, TypeOK', RowInv, DirectiveInv, Reconciling
  PROVE  DirectiveInv'
<1>0. /\ rec \in Passes /\ directives \in Seq(Directives) /\ UNCHANGED <<esc, lost>>
      /\ shadow \in [Certs -> Rows]
      /\ \A c \in Certs : rec.rows[c] \in Rows
      /\ rec.pc \in {"resolve", "create"} => rec.cert \in Certs
  <2>1. UNCHANGED <<esc, lost>>
    BY DEF Reconciling, RecCall, RefreshInventory, Reconcile, ImportEntry, RemoveStale,
           RecList, RecLookup, RecResolve, RecListPending, RecCancel, RecCancelled,
           RecPhase2, RecSeen, RecExisting, RecCreate, RecReturn, RecFails, environment,
           account
  <2> QED
    BY <2>1, SMTT(30) DEF TypeOK, Passes
<1>c. ~RecList => \A c \in Certs : Escalation(rec'.rows[c]) => Escalation(rec.rows[c])
  BY <1>0, RecDrops, NoEscalation
<1>q. ASSUME UNCHANGED directives,
             \A c \in Certs : Escalation(rec'.rows[c]) \/ Escalation(shadow'[c]) =>
               Escalation(rec.rows[c]) \/ Escalation(shadow[c])
      PROVE  DirectiveInv'
  BY <1>0, <1>q, SteadyStep, Unchanged
<1>2. CASE RecList
  <2>1. rec'.rows = Unresolved /\ UNCHANGED <<shadow, directives>>
    BY <1>0, <1>2 DEF RecList, Passes
  <2>2. \A c \in Certs : Escalation(rec'.rows[c]) => Escalation(shadow[c])
    BY <1>0, <2>1, NoEscalation, UnresolvedType
  <2> QED
    BY <1>q, <2>1, <2>2
<1>3. CASE RecResolve
  <2> DEFINE c == rec.cert
             row == rec.rows[rec.cert]
  <2>1. /\ c \in Certs /\ row \in Rows /\ Upsert(c, Resolved(row)) /\ ~RecList
        /\ UNCHANGED directives
    BY <1>0, <1>3 DEF RecResolve, RecList
  <2>2. row = rec.rows[c]
    OBVIOUS
  <2> HIDE DEF c, row
  <2>3. /\ Resolved(row) \in Rows /\ Resolved(row).risk = row.risk
        /\ Resolved(row).count = row.count
    BY <2>1, RowTypes DEF Resolved, Rows
  <2>4. /\ shadow'[c].risk = row.risk /\ shadow'[c].count = row.count
        /\ \A d \in Certs : d # c => shadow'[d] = shadow[d]
    BY <1>0, <2>1, <2>3, UpsertEffect
  <2>5. \A d \in Certs : Escalation(shadow'[d]) =>
                           Escalation(rec.rows[d]) \/ Escalation(shadow[d])
    BY <2>2, <2>4 DEF Escalation
  <2> QED
    BY <1>c, <1>q, <2>1, <2>5
<1>4. CASE RecCreate
  <2> DEFINE c == rec.cert
  <2>1. /\ c \in Certs /\ Upsert(c, NewRow(Low, now)) /\ ~RecList /\ UNCHANGED directives
    BY <1>0, <1>4 DEF RecCreate, RecList
  <2>2. Low \in RiskLevels
    BY LevelNumbers
  <2> HIDE DEF c
  <2>3. shadow'[c].count = 0 /\ \A d \in Certs : d # c => shadow'[d] = shadow[d]
    BY <2>1, <2>2, NewRowSound
  <2>4. \A d \in Certs : Escalation(shadow'[d]) => Escalation(shadow[d])
    BY <2>3 DEF Escalation
  <2> QED
    BY <1>c, <1>q, <2>1, <2>4
<1>5. ASSUME NEW i \in Ids, RecCancel(i) PROVE DirectiveInv'
  <2>1. /\ UpdateStatus(i, "expired") /\ ~RecList /\ UNCHANGED shadow
    BY <1>5 DEF RecCancel, RecList
  <2>2. /\ Kept /\ Ids' = Ids /\ directives'[i].status # "replaced"
        /\ \A j \in Ids : j # i => directives'[j].status = directives[j].status
    BY <1>0, <2>1, UpdateEffect
  <2>3. \A j \in Ids' : directives'[j].status = "replaced" =>
                           j \in Ids /\ directives[j].status = "replaced"
    BY <2>2
  <2>4. \A c \in Certs : Escalation(rec'.rows[c]) \/ Escalation(shadow'[c]) =>
                           Escalation(rec.rows[c]) \/ Escalation(shadow[c])
    BY <1>c, <2>1
  <2> QED
    BY <1>0, <2>2, <2>3, <2>4, SteadyStep
<1>6. ASSUME ~RecList, UNCHANGED <<shadow, directives>> PROVE DirectiveInv'
  BY <1>c, <1>q, <1>6
<1> QED
  <2>1. \/ RecList \/ RecResolve \/ RecCreate \/ \E i \in Ids : RecCancel(i)
        \/ UNCHANGED <<shadow, directives>>
    BY DEF Reconciling, RecCall, RefreshInventory, Reconcile, ImportEntry, RemoveStale,
           RecLookup, RecListPending, RecCancelled, RecPhase2, RecSeen, RecExisting,
           RecReturn, RecFails
  <2> QED
    BY <1>2, <1>3, <1>4, <1>5, <1>6, <2>1, SMTT(30)

LEMMA EnvironmentDirectives ==
  ASSUME TypeOK, TypeOK', RowInv, DirectiveInv, Environment
  PROVE  DirectiveInv'
<1>0. UNCHANGED <<esc, rec, lost>> /\ directives \in Seq(Directives)
  BY DEF Environment, Day, Observe, StoreRow, StoreAlert, account, TypeOK
<1>1. CASE UNCHANGED <<shadow, directives>>
  BY <1>0, <1>1, SteadyStep, Unchanged
<1>2. ASSUME NEW c \in Certs, NEW level \in Levels, StoreRow(c, level) PROVE DirectiveInv'
  <2>1. UNCHANGED directives /\ Upsert(c, NewRow(level, now)) /\ level \in RiskLevels
    BY <1>2, LifecycleAssumption, LevelNumbers DEF StoreRow
  <2>2. shadow'[c].count = 0 /\ \A d \in Certs : d # c => shadow'[d] = shadow[d]
    BY <2>1, NewRowSound
  <2>3. \A d \in Certs : Escalation(shadow'[d]) => Escalation(shadow[d])
    BY <2>2 DEF Escalation
  <2> QED
    BY <1>0, <2>1, <2>3, SteadyStep, Unchanged
<1>3. ASSUME NEW c \in Certs, NEW level \in Levels, StoreAlert(c, level) PROVE DirectiveInv'
  <2>1. UNCHANGED shadow /\ Insert(c, level)
    BY <1>3 DEF StoreAlert
  <2>2. /\ Kept
        /\ \A i \in Ids' : directives'[i].status = "replaced" =>
                             i \in Ids /\ directives[i].status = "replaced"
    BY <1>0, <2>1, InsertEffect
  <2> QED
    BY <1>0, <2>1, <2>2, SteadyStep
<1> QED
  BY <1>1, <1>2, <1>3 DEF Environment, Day, Observe

LEMMA InitDirectives == Init => DirectiveInv
<1> SUFFICES ASSUME Init PROVE DirectiveInv
  OBVIOUS
<1>1. /\ esc.ids = {} /\ Ids = {}
      /\ \A c \in Certs : rec.rows[c] = NoRow /\ shadow[c] = NoRow
  BY DEF Init, EscIdle, RecIdle, Ids
<1> QED
  BY <1>1, NoEscalation DEF DirectiveInv, ReplacedHasSuccessor

LEMMA Inductive == IInv /\ [Next]_vars => IInv'
<1>1. TypeOK /\ DirectiveInv /\ UNCHANGED vars => DirectiveInv'
  <2> SUFFICES ASSUME TypeOK, DirectiveInv, UNCHANGED vars PROVE DirectiveInv'
    OBVIOUS
  <2>1. UNCHANGED <<shadow, directives, esc, rec, lost>>
    BY DEF vars, environment, account
  <2> QED
    BY <2>1, SteadyStep, Unchanged
<1> QED
  BY <1>1, NextType, NextRows, EscalateDirectives, ReconcileDirectives,
     EnvironmentDirectives DEF IInv, Next, Reconciling

LEMMA Invariant == Spec => []IInv
<1>1. Init => IInv
  BY InitType, InitRows, InitDirectives DEF IInv
<1> QED
  BY <1>1, Inductive, PTL DEF Spec

\* shadow_escalation.rs:90-164: a row escalated to critical has a critical alert nobody
\* replaced, or the escalator is about to insert it, or that insertion failed: whatever
\* stale copies are written over the row, whatever is replaced or cancelled meanwhile,
\* and whichever other storage calls fail.
THEOREM CriticalIsAlerted == Spec => []CriticalAlerted
<1>1. IInv => CriticalAlerted
  BY DEF IInv, DirectiveInv, CriticalAlerted, Escalation, Covered
<1> QED
  BY <1>1, Invariant, PTL

\* shadow_escalation.rs:153-178: a replaced directive has a later critical one of its
\* certificate, or the escalator is about to insert it, or that insertion failed.
THEOREM ReplacedIsSucceeded == Spec => []ReplacedHasSuccessor
<1>1. IInv => ReplacedHasSuccessor
  BY DEF IInv, DirectiveInv
<1> QED
  BY <1>1, Invariant, PTL
=============================================================================
