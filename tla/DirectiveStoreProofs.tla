----------------------- MODULE DirectiveStoreProofs -----------------------
(***************************************************************************)
(* What holds of the directive store for any set of certificates, any      *)
(* periods and any number of directives and of failed calls.               *)
(***************************************************************************)
EXTENDS DirectiveStore, SequenceTheorems, TLAPS

(***************************************************************************)
(* CertificatesKept is not inductive: a certificate whose directive is     *)
(* about to be inserted is kept by the prediction just stored.  Nor is     *)
(* what makes a directive expire: after the cutoff of the sweep a          *)
(* certificate can only be seen later than that, and is never deleted      *)
(* while a directive refers to it.                                         *)
(***************************************************************************)
Predicted == sched.pc = "insert" => sched.cert \in predictions

Unseen(i) ==
  LET seen == lastSeen[directives[i].cert]
  IN  seen < sweep.day - ExpiryDays \/ seen >= sweep.day

SweepDecided ==
  /\ sweep.day <= now
  /\ sweep.pc \in {"remove", "mark"} => Unseen(sweep.id)

-----------------------------------------------------------------------------
(* The table of directives *)

\* A new directive comes last and changes no other.
LEMMA InsertAppends ==
  ASSUME TypeOK, NEW c \in Certs, NEW type \in {"alert", "renew"},
         NEW severity \in {Medium, Critical}, Insert(c, type, severity)
  PROVE  /\ directives' \in Seq(Directive)
         /\ Len(directives) \in Nat /\ Len(directives') = Len(directives) + 1
         /\ \A i \in Ids : directives'[i] = directives[i]
         /\ directives'[Len(directives) + 1] =
              [cert |-> c, type |-> type, severity |-> severity, status |-> "pending"]
<1> DEFINE d == [cert |-> c, type |-> type, severity |-> severity,
                 status |-> "pending"]
<1>1. d \in Directive
  BY DEF Directive, Statuses
<1>2. directives \in Seq(Directive) /\ directives' = Append(directives, d)
  BY DEF TypeOK, TablesOK, Insert
<1> HIDE DEF d
<1>3. QED
  BY <1>1, <1>2, AppendProperties, LenProperties DEF Ids, d

\* A change of status is one of a single directive and of nothing else in it.
LEMMA UpdateOnlyStatus ==
  ASSUME TypeOK, NEW i \in Ids, NEW status \in Statuses, UpdateStatus(i, status)
  PROVE  /\ directives' \in Seq(Directive)
         /\ Len(directives) \in Nat /\ Len(directives') = Len(directives)
         /\ \A j \in Ids : /\ directives'[j].cert = directives[j].cert
                           /\ directives'[j].type = directives[j].type
                           /\ directives'[j].severity = directives[j].severity
                           /\ directives'[j].status =
                                IF j = i THEN status ELSE directives[j].status
<1> DEFINE d == [directives[i] EXCEPT !.status = status]
<1>1. directives \in Seq(Directive) /\ i \in 1 .. Len(directives)
  BY DEF TypeOK, TablesOK, Ids
<1>2. directives[i] \in Directive
  BY <1>1, ElementOfSeq
<1>3. d \in Directive
  BY <1>2 DEF Directive
<1>4. directives' = [directives EXCEPT ![i] = d]
  BY DEF UpdateStatus
<1> HIDE DEF d
<1>5. /\ directives' \in Seq(Directive) /\ Len(directives') = Len(directives)
      /\ \A j \in 1 .. Len(directives) :
           directives'[j] = IF j = i THEN d ELSE directives[j]
  BY <1>1, <1>3, <1>4, ExceptSeq
<1>6. /\ d.cert = directives[i].cert /\ d.type = directives[i].type
      /\ d.severity = directives[i].severity /\ d.status = status
  BY <1>2 DEF Directive, d
<1> QED
  BY <1>1, <1>5, <1>6, LenProperties DEF Ids

\* Every directive in the table is one.
LEMMA IdsAreDirectives ==
  ASSUME TypeOK, NEW i \in Ids
  PROVE  /\ directives[i] \in Directive /\ directives[i].cert \in Certs
         /\ i \in Nat \ {0} /\ Len(directives) \in Nat
<1>1. directives \in Seq(Directive) /\ i \in 1 .. Len(directives)
  BY DEF TypeOK, TablesOK, Ids
<1>2. directives[i] \in Directive /\ Len(directives) \in Nat
  BY <1>1, ElementOfSeq, LenProperties
<1> QED
  BY <1>1, <1>2 DEF Directive

-----------------------------------------------------------------------------
(* Type correctness *)

LEMMA InitTypeOK == Init => TypeOK
<1> SUFFICES ASSUME Init PROVE TypeOK
  OBVIOUS
<1>1. directives \in Seq(Directive) /\ Len(directives) = 0
  BY EmptySeq DEF Init
<1> QED
  BY <1>1, StoreAssumption
     DEF Init, TypeOK, TablesOK, SchedOK, SweepOK, HandlerOK, SchedIdle, SweepIdle,
         HandlerIdle, Ids, NoCert

\* What the tables hold stays well typed, and no directive is ever removed.
LEMMA NextTablesOK ==
  ASSUME TypeOK, [Next]_vars
  PROVE  /\ TablesOK'
         /\ Len(directives) \in Nat /\ Len(directives') \in Nat
         /\ Len(directives') >= Len(directives)
<1> USE StoreAssumption
<1>0. Len(directives) \in Nat /\ TablesOK
  BY LenProperties DEF TypeOK, TablesOK
<1> SUFFICES /\ TablesOK'
             /\ Len(directives') \in {Len(directives), Len(directives) + 1}
  BY <1>0
<1>1. ASSUME UNCHANGED <<clock, lastSeen, entry>>, predictions' \in SUBSET Certs,
             directives' \in Seq(Directive), failures' \in 0 .. MaxFailures,
             Len(directives') \in {Len(directives), Len(directives) + 1}
      PROVE  TablesOK'
  BY <1>0, <1>1 DEF TablesOK, clock
<1>2. ASSUME Fails PROVE failures' \in 0 .. MaxFailures
  BY <1>0, <1>2 DEF Fails, TablesOK
<1>3. CASE Schedule
  <2>1. CASE SchedInsert
    <3>1. sched.cert \in Certs
      BY <2>1 DEF SchedInsert, TypeOK, SchedOK
    <3>2. /\ Prescribed(sched.cert).type \in {"alert", "renew"}
          /\ Prescribed(sched.cert).severity \in {Medium, Critical}
      BY DEF Prescribed
    <3>3. /\ directives' \in Seq(Directive)
          /\ Len(directives') = Len(directives) + 1
      BY <2>1, <3>1, <3>2, InsertAppends DEF SchedInsert
    <3> QED
      BY <1>0, <1>1, <2>1, <3>3 DEF SchedInsert, TablesOK
  <2>2. CASE SchedList \/ SchedReturn
    BY <1>0, <1>1, <2>2 DEF SchedList, SchedReturn, TablesOK, tables
  <2>3. CASE SchedFails
    BY <1>0, <1>1, <1>2, <2>3 DEF SchedFails, TablesOK, tables
  <2>4. CASE \E c \in Certs : SchedPredict(c)
    BY <1>0, <1>1, <2>4 DEF SchedPredict, UpsertPrediction, TablesOK
  <2> QED
    BY <1>3, <2>1, <2>2, <2>3, <2>4 DEF Schedule
<1>4. CASE Sweep
  <2>1. CASE \/ SweepListActive \/ SweepListPending \/ SweepReturn
             \/ \E i \in Ids : SweepLookup(i)
    BY <1>0, <1>1, <2>1
       DEF SweepListActive, SweepListPending, SweepReturn, SweepLookup, TablesOK, tables
  <2>2. CASE SweepRemoveFails \/ SweepFails
    BY <1>0, <1>1, <1>2, <2>2 DEF SweepRemoveFails, SweepFails, TablesOK, tables
  <2>3. CASE SweepRemove
    <3> DEFINE c == directives[sweep.id].cert
               bound == 0 .. Len(directives)
    <3>1. /\ entry' = [entry EXCEPT ![c] = 0]
          /\ UNCHANGED <<clock, tables, failures>>
      BY <2>3 DEF SweepRemove
    <3>2. entry \in [Certs -> bound] /\ 0 \in bound
      BY <1>0 DEF TablesOK
    <3> HIDE DEF c, bound
    <3>3. entry' \in [Certs -> bound]
      BY <3>1, <3>2
    <3> QED
      BY <1>0, <3>1, <3>3 DEF TablesOK, clock, tables, bound
  <2>4. CASE SweepMark
    <3>1. sweep.id \in Ids /\ UpdateStatus(sweep.id, "expired")
      BY <1>0, <2>4 DEF SweepMark, TypeOK, SweepOK, Ids
    <3>2. /\ directives' \in Seq(Directive) /\ Len(directives') = Len(directives)
      BY <3>1, UpdateOnlyStatus DEF Statuses
    <3> QED
      BY <1>0, <1>1, <2>4, <3>2 DEF SweepMark, TablesOK
  <2> QED
    BY <1>4, <2>1, <2>2, <2>3, <2>4 DEF Sweep
<1>5. CASE HandleFailure
  <2>1. CASE InsertAlert
    <3>1. handler.id \in Ids
      BY <1>0, <2>1 DEF InsertAlert, TypeOK, HandlerOK, Ids
    <3>2. directives[handler.id].cert \in Certs
      BY <3>1, IdsAreDirectives
    <3>3. /\ directives' \in Seq(Directive)
          /\ Len(directives') = Len(directives) + 1
      BY <2>1, <3>2, InsertAppends DEF InsertAlert
    <3> QED
      BY <1>0, <1>1, <2>1, <3>3 DEF InsertAlert, TablesOK
  <2>2. CASE AlertFails
    BY <1>0, <1>1, <1>2, <2>2 DEF AlertFails, TablesOK, tables
  <2>3. ASSUME NEW i \in Ids, MarkFailed(i)
        PROVE  TablesOK' /\ Len(directives') = Len(directives)
    <3>1. /\ directives' \in Seq(Directive) /\ Len(directives') = Len(directives)
      BY <2>3, UpdateOnlyStatus DEF MarkFailed, Statuses
    <3> QED
      BY <1>0, <1>1, <2>3, <3>1 DEF MarkFailed, TablesOK
  <2> QED
    BY <1>5, <2>1, <2>2, <2>3 DEF HandleFailure
<1>6. CASE Cleanup
  <2>1. lastSeen' \in [Certs -> 0 .. MaxDays]
    BY <1>0, <1>6 DEF Cleanup, TablesOK
  <2> QED
    BY <1>0, <1>6, <2>1 DEF Cleanup, TablesOK, clock
<1>7. CASE Day
  BY <1>0, <1>7 DEF Day, TablesOK, tables
<1>8. CASE \E c \in Certs : Observe(c)
  <2>1. lastSeen' \in [Certs -> 0 .. MaxDays]
    BY <1>0, <1>8 DEF Observe, TablesOK
  <2> QED
    BY <1>0, <1>8, <2>1 DEF Observe, TablesOK, clock
<1>9. ASSUME NEW i \in Ids, Activate(i)
      PROVE  TablesOK' /\ Len(directives') = Len(directives)
  <2>1. /\ directives' \in Seq(Directive) /\ Len(directives') = Len(directives)
    BY <1>9, UpdateOnlyStatus DEF Activate, Statuses
  <2>2. entry' \in [Certs -> 0 .. Len(directives)]
    <3> DEFINE c == directives[i].cert
               bound == 0 .. Len(directives)
    <3>1. entry' = [entry EXCEPT ![c] = i]
      BY <1>9 DEF Activate
    <3>2. entry \in [Certs -> bound] /\ i \in bound
      BY <1>0 DEF TablesOK, Ids
    <3> HIDE DEF c, bound
    <3>3. entry' \in [Certs -> bound]
      BY <3>1, <3>2
    <3> QED
      BY <3>3 DEF bound
  <2> QED
    BY <1>0, <1>9, <2>1, <2>2 DEF Activate, TablesOK, clock
<1>10. CASE UNCHANGED vars
  BY <1>0, <1>10 DEF vars, TablesOK
<1> QED
  BY <1>3, <1>4, <1>5, <1>6, <1>7, <1>8, <1>9, <1>10 DEF Next

\* Only the scheduler touches its locals.
LEMMA NextSchedOK ==
  ASSUME TypeOK, [Next]_vars
  PROVE  SchedOK'
<1> USE StoreAssumption DEF TypeOK
<1>1. CASE Schedule
  <2>1. CASE SchedList
    <3>1. sched' = [pc |-> "predict", day |-> now, todo |-> Rows, cert |-> NoCert]
      BY <2>1 DEF SchedList, SchedIdle
    <3>2. Rows \in SUBSET Certs /\ now \in 0 .. MaxDays
      BY DEF Rows, TablesOK
    <3> QED
      BY <3>1, <3>2 DEF SchedOK
  <2>2. CASE SchedInsert
    BY <2>2 DEF SchedInsert, SchedNext, SchedOK
  <2>3. CASE SchedFails
    BY <2>3 DEF SchedFails, SchedNext, SchedOK
  <2>4. CASE SchedReturn
    BY <2>4 DEF SchedReturn, SchedIdle, SchedOK
  <2>5. ASSUME NEW c \in Certs, SchedPredict(c) PROVE SchedOK'
    BY <2>5, ZenonT(60) DEF SchedPredict, SchedOK
  <2> QED
    BY <1>1, <2>1, <2>2, <2>3, <2>4, <2>5 DEF Schedule
<1>2. CASE UNCHANGED sched
  BY <1>2 DEF SchedOK
<1>3. Sweep => UNCHANGED sched
  BY DEF Sweep, SweepListActive, SweepListPending, SweepRemove, SweepRemoveFails,
         SweepMark, SweepFails, SweepReturn, SweepLookup
<1> QED
  BY <1>1, <1>2, <1>3
     DEF Next, HandleFailure, InsertAlert, AlertFails, MarkFailed, Cleanup, Day,
         Observe, Activate, passes, vars

\* Only the sweep touches its locals; the directives it holds stay there.
LEMMA NextSweepOK ==
  ASSUME TypeOK, [Next]_vars
  PROVE  SweepOK'
<1> USE StoreAssumption DEF TypeOK
<1>0. /\ Len(directives) \in Nat /\ Len(directives') \in Nat
      /\ Ids \subseteq Ids' /\ 0 .. Len(directives) \subseteq 0 .. Len(directives')
      /\ Ids \subseteq 1 .. Len(directives)
  BY NextTablesOK DEF Ids
<1>1. CASE Sweep
  <2> SUFFICES /\ sweep' \in [pc : {"idle", "pending", "lookup", "remove", "mark"},
                              day : 0 .. MaxDays, todo : SUBSET Ids,
                              id : 0 .. Len(directives)]
               /\ sweep'.pc \in {"remove", "mark"} => sweep'.id # 0
    BY <1>0 DEF SweepOK
  <2> DEFINE active == WithStatus("active")
             pending == WithStatus("pending")
  <2>0. active \in SUBSET Ids /\ pending \in SUBSET Ids
    BY DEF WithStatus
  <2> HIDE DEF active, pending
  <2>1. CASE SweepListActive
    <3>1. sweep' = [pc |-> "pending", day |-> now, todo |-> active, id |-> 0]
      BY <2>1 DEF SweepListActive, SweepIdle, active
    <3> QED
      BY <1>0, <2>0, <3>1 DEF TablesOK
  <2>2. CASE SweepListPending
    <3>1. sweep' = [sweep EXCEPT !.pc = "lookup", !.todo = sweep.todo \cup pending]
      BY <2>2 DEF SweepListPending, pending
    <3> QED
      BY <1>0, <2>0, <3>1 DEF SweepOK
  <2>3. CASE SweepRemove \/ SweepRemoveFails
    BY <2>3 DEF SweepRemove, SweepRemoveFails, SweepOK
  <2>4. CASE SweepMark
    <3>1. sweep' = [sweep EXCEPT !.pc = "lookup", !.id = 0]
      BY <2>4 DEF SweepMark
    <3>2. 0 \in 0 .. Len(directives)
      BY <1>0
    <3> QED
      BY <3>1, <3>2 DEF SweepOK
  <2>5. CASE SweepFails \/ SweepReturn
    BY <1>0, <2>5 DEF SweepFails, SweepReturn, SweepIdle
  <2>6. ASSUME NEW i \in Ids, SweepLookup(i)
        PROVE  /\ sweep' \in [pc : {"idle", "pending", "lookup", "remove", "mark"},
                              day : 0 .. MaxDays, todo : SUBSET Ids,
                              id : 0 .. Len(directives)]
               /\ sweep'.pc \in {"remove", "mark"} => sweep'.id # 0
    <3>1. CASE sweep' = [sweep EXCEPT !.pc = "remove", !.todo = sweep.todo \ {i},
                                      !.id = i]
      <4>1. i # 0 /\ i \in 0 .. Len(directives) /\ sweep.todo \ {i} \in SUBSET Ids
        BY <1>0 DEF Ids, SweepOK
      <4> QED
        BY <3>1, <4>1 DEF SweepOK
    <3>2. CASE sweep' = [sweep EXCEPT !.todo = sweep.todo \ {i}]
      <4>1. sweep.todo \ {i} \in SUBSET Ids /\ sweep.pc = "lookup"
        BY <2>6 DEF SweepOK, SweepLookup
      <4> QED
        BY <3>2, <4>1 DEF SweepOK
    <3> QED
      BY <2>6, <3>1, <3>2 DEF SweepLookup
  <2> QED
    BY <1>1, <2>1, <2>2, <2>3, <2>4, <2>5, <2>6 DEF Sweep
<1>2. CASE UNCHANGED sweep
  BY <1>0, <1>2 DEF SweepOK
<1>3. Schedule => UNCHANGED sweep
  BY DEF Schedule, SchedList, SchedInsert, SchedFails, SchedReturn, SchedPredict
<1> QED
  BY <1>1, <1>2, <1>3
     DEF Next, HandleFailure, InsertAlert, AlertFails, MarkFailed, Cleanup, Day,
         Observe, Activate, passes, vars

\* Only the failure handler touches its locals.
LEMMA NextHandlerOK ==
  ASSUME TypeOK, [Next]_vars
  PROVE  HandlerOK'
<1> USE StoreAssumption DEF TypeOK
<1>0. /\ Len(directives) \in Nat /\ Len(directives') \in Nat
      /\ 0 .. Len(directives) \subseteq 0 .. Len(directives')
      /\ Ids = 1 .. Len(directives)
  BY NextTablesOK DEF Ids
<1>1. CASE HandleFailure
  <2>1. CASE InsertAlert \/ AlertFails
    BY <1>0, <2>1 DEF InsertAlert, AlertFails, HandlerIdle, HandlerOK
  <2>2. ASSUME NEW i \in Ids, MarkFailed(i) PROVE HandlerOK'
    BY <1>0, <2>2 DEF MarkFailed, HandlerOK
  <2> QED
    BY <1>1, <2>1, <2>2 DEF HandleFailure
<1>2. CASE UNCHANGED handler
  BY <1>0, <1>2 DEF HandlerOK
<1>3. Schedule => UNCHANGED handler
  BY DEF Schedule, SchedList, SchedInsert, SchedFails, SchedReturn, SchedPredict
<1>4. Sweep => UNCHANGED handler
  BY DEF Sweep, SweepListActive, SweepListPending, SweepRemove, SweepRemoveFails,
         SweepMark, SweepFails, SweepReturn, SweepLookup
<1> QED
  BY <1>1, <1>2, <1>3, <1>4
     DEF Next, Cleanup, Day, Observe, Activate, passes, vars

LEMMA NextTypeOK == TypeOK /\ [Next]_vars => TypeOK'
  BY NextTablesOK, NextSchedOK, NextSweepOK, NextHandlerOK DEF TypeOK

\* Every row and every pass stays well typed; no pass holds a directive that is
\* not in the table.
THEOREM TypeCorrect == Spec => []TypeOK
  BY InitTypeOK, NextTypeOK, PTL DEF Spec

-----------------------------------------------------------------------------
(* No row loses its certificate *)

\* References only come from rows that are there.
LEMMA NextKept ==
  ASSUME TypeOK, CertificatesKept, Predicted, [Next]_vars
  PROVE  CertificatesKept' /\ Predicted'
<1> USE DEF TypeOK
<1>0. /\ \A i \in Ids : directives[i].cert \in Rows
      /\ predictions \subseteq Rows
      /\ Ids = 1 .. Len(directives) /\ Len(directives) \in Nat
      /\ sched.pc = "insert" => sched.cert \in predictions
  BY NextTablesOK DEF CertificatesKept, Predicted, Referenced, Ids
<1> SUFFICES /\ \A i \in Ids' : directives'[i].cert \in Rows'
             /\ predictions' \subseteq Rows'
             /\ sched'.pc = "insert" => sched'.cert \in predictions'
  BY DEF CertificatesKept, Predicted, Referenced
<1>1. ASSUME UNCHANGED <<directives, predictions, sched>>, Rows \subseteq Rows'
      PROVE  /\ \A i \in Ids' : directives'[i].cert \in Rows'
             /\ predictions' \subseteq Rows'
             /\ sched'.pc = "insert" => sched'.cert \in predictions'
  BY <1>0, <1>1 DEF Ids
<1>2. ASSUME NEW c \in Rows, NEW type \in {"alert", "renew"},
             NEW severity \in {Medium, Critical}, Insert(c, type, severity),
             UNCHANGED <<lastSeen, predictions>>
      PROVE  /\ \A i \in Ids' : directives'[i].cert \in Rows'
             /\ predictions' \subseteq Rows'
  <2>0. c \in Certs
    BY DEF Rows
  <2>1. /\ Len(directives') = Len(directives) + 1
        /\ \A i \in Ids : directives'[i] = directives[i]
        /\ directives'[Len(directives) + 1].cert = c
    <3>1. TypeOK
      OBVIOUS
    <3> HIDE DEF TypeOK
    <3>2. Insert(c, type, severity)
      BY <1>2
    <3>3. /\ Len(directives') = Len(directives) + 1
          /\ \A i \in Ids : directives'[i] = directives[i]
          /\ directives'[Len(directives) + 1] =
               [cert |-> c, type |-> type, severity |-> severity, status |-> "pending"]
      BY <2>0, <3>1, <3>2, InsertAppends
    <3> QED
      BY <3>3
  <2>2. Rows' = Rows
    BY <1>2 DEF Rows
  <2>3. \A i \in Ids' : i \in Ids \/ i = Len(directives) + 1
    BY <1>0, <2>1 DEF Ids
  <2> QED
    BY <1>0, <1>2, <2>1, <2>2, <2>3
<1>3. ASSUME NEW i \in Ids, NEW status \in Statuses, UpdateStatus(i, status),
             UNCHANGED <<lastSeen, predictions, sched>>
      PROVE  /\ \A j \in Ids' : directives'[j].cert \in Rows'
             /\ predictions' \subseteq Rows'
             /\ sched'.pc = "insert" => sched'.cert \in predictions'
  <2>1. /\ Len(directives') = Len(directives)
        /\ \A j \in Ids : directives'[j].cert = directives[j].cert
    BY <1>3, UpdateOnlyStatus
  <2>2. Rows' = Rows /\ Ids' = Ids
    BY <1>3, <2>1 DEF Rows, Ids
  <2> QED
    BY <1>0, <1>3, <2>1, <2>2
<1>4. CASE Schedule
  <2>0. Rows' = Rows
    BY <1>4 DEF Schedule, SchedList, SchedInsert, SchedFails, SchedReturn, SchedPredict,
                Rows, tables
  <2>1. CASE SchedInsert
    <3>1. /\ Prescribed(sched.cert).type \in {"alert", "renew"}
          /\ Prescribed(sched.cert).severity \in {Medium, Critical}
      BY DEF Prescribed
    <3>2. sched.cert \in Rows /\ sched'.pc = "predict"
      BY <1>0, <2>1 DEF SchedInsert, SchedNext, SchedOK
    <3> QED
      BY <1>2, <2>1, <3>1, <3>2 DEF SchedInsert
  <2>2. ASSUME SchedList \/ SchedReturn \/ SchedFails
        PROVE  sched'.pc # "insert" /\ UNCHANGED <<directives, predictions>>
    <3>1. CASE SchedFails
      <4>1. CASE sched.pc = "insert" /\ sched' = SchedNext
        BY <3>1, <4>1 DEF SchedFails, SchedNext, SchedOK, tables
      <4>2. CASE sched.pc = "predict" /\ \E c \in sched.todo :
                   sched' = [sched EXCEPT !.todo = @ \ {c}]
        BY <3>1, <4>2 DEF SchedFails, SchedOK, tables
      <4> QED
        BY <3>1, <4>1, <4>2 DEF SchedFails
    <3>2. CASE SchedList
      BY <3>2 DEF SchedList, SchedIdle, tables
    <3>3. CASE SchedReturn
      BY <3>3 DEF SchedReturn, SchedIdle, tables
    <3> QED
      BY <2>2, <3>1, <3>2, <3>3
  <2>3. ASSUME NEW c \in Certs, SchedPredict(c)
        PROVE  /\ predictions' \subseteq Rows /\ UNCHANGED directives
               /\ sched'.pc = "insert" => sched'.cert \in predictions'
    BY <1>0, <2>3 DEF SchedPredict, UpsertPrediction, SchedOK
  <2> QED
    BY <1>0, <1>4, <2>0, <2>1, <2>2, <2>3 DEF Schedule, Ids
<1>5. CASE Sweep
  <2>1. CASE SweepMark
    <3>1. sweep.id \in Ids
      BY <1>0, <2>1 DEF SweepMark, SweepOK
    <3> QED
      BY <1>3, <2>1, <3>1 DEF SweepMark, Statuses
  <2>2. CASE UNCHANGED <<tables, sched>>
    BY <1>1, <2>2 DEF tables, Rows
  <2> QED
    BY <1>5, <2>1, <2>2
       DEF Sweep, SweepListActive, SweepListPending, SweepRemove, SweepRemoveFails,
           SweepFails, SweepReturn, SweepLookup
<1>6. CASE HandleFailure
  <2>1. CASE InsertAlert
    <3>1. handler.id \in Ids /\ directives[handler.id].cert \in Rows
      BY <1>0, <2>1 DEF InsertAlert, HandlerOK
    <3> QED
      BY <1>0, <1>2, <2>1, <3>1 DEF InsertAlert
  <2>2. CASE AlertFails
    BY <1>1, <2>2 DEF AlertFails, tables, Rows
  <2>3. CASE \E i \in Ids : MarkFailed(i)
    BY <1>3, <2>3 DEF MarkFailed, Statuses
  <2> QED
    BY <1>6, <2>1, <2>2, <2>3 DEF HandleFailure
<1>7. CASE Cleanup
  <2>1. Referenced \subseteq Rows'
    <3>1. CASE Deletable
      BY <1>7, <3>1 DEF Cleanup, Deletable, CertificatesKept, Rows, Old
    <3>2. CASE ~Deletable
      BY <1>7, <3>2 DEF Cleanup, CertificatesKept, Rows
    <3> QED
      BY <3>1, <3>2
  <2> QED
    BY <1>0, <1>7, <2>1 DEF Cleanup, Referenced, passes, Ids
<1>8. CASE Day \/ UNCHANGED vars
  BY <1>1, <1>8 DEF Day, vars, tables, passes, Rows
<1>9. CASE \E c \in Certs : Observe(c)
  <2>1. Rows \subseteq Rows'
    BY <1>9 DEF Observe, Rows, TablesOK
  <2> QED
    BY <1>1, <1>9, <2>1 DEF Observe, passes
<1>10. CASE \E i \in Ids : Activate(i)
  BY <1>3, <1>10 DEF Activate, Statuses, passes
<1> QED
  BY <1>4, <1>5, <1>6, <1>7, <1>8, <1>9, <1>10 DEF Next

LEMMA InitKept == Init => CertificatesKept /\ Predicted
<1> SUFFICES ASSUME Init PROVE CertificatesKept /\ Predicted
  OBVIOUS
<1>1. Len(directives) = 0
  BY EmptySeq DEF Init
<1> QED
  BY <1>1 DEF Init, CertificatesKept, Predicted, Referenced, Ids, SchedIdle

\* Clean-up never takes a certificate away from a directive, a prediction or a
\* scheduler that is about to insert, wherever it comes in between.
THEOREM NothingDangles == Spec => []CertificatesKept
<1> DEFINE Inv == TypeOK /\ CertificatesKept /\ Predicted
<1>1. Init => Inv
  BY InitTypeOK, InitKept
<1>2. Inv /\ [Next]_vars => Inv'
  BY NextTypeOK, NextKept
<1>3. Inv => CertificatesKept
  OBVIOUS
<1> QED
  BY <1>1, <1>2, <1>3, PTL DEF Spec

-----------------------------------------------------------------------------
(* Every failure is followed by an alert *)

Alerted(i) ==
  \E j \in i + 1 .. Len(directives) :
    /\ directives[j].cert = directives[i].cert
    /\ directives[j].type = "alert" /\ directives[j].severity = Critical

\* What a step does to the table that matters for the alerts: directives keep
\* everything but their status.
LEMMA AlertsLast ==
  ASSUME TypeOK, Len(directives') \in Nat, Len(directives') >= Len(directives),
         \A i \in Ids : /\ directives'[i].cert = directives[i].cert
                        /\ directives'[i].type = directives[i].type
                        /\ directives'[i].severity = directives[i].severity,
         NEW i \in Ids, Alerted(i)
  PROVE  Alerted(i)'
<1>1. Len(directives) \in Nat /\ i \in Nat
  BY IdsAreDirectives
<1>2. PICK j \in i + 1 .. Len(directives) :
        /\ directives[j].cert = directives[i].cert
        /\ directives[j].type = "alert" /\ directives[j].severity = Critical
  BY DEF Alerted
<1>3. j \in Ids /\ j \in i + 1 .. Len(directives')
  BY <1>1, <1>2 DEF Ids
<1> QED
  BY <1>2, <1>3 DEF Alerted

LEMMA NextAlerted ==
  ASSUME TypeOK, FailureAlerted, [Next]_vars
  PROVE  FailureAlerted'
<1>0. /\ Len(directives) \in Nat /\ Len(directives') \in Nat
      /\ failures \in Nat /\ Ids = 1 .. Len(directives)
  BY NextTablesOK, StoreAssumption DEF TypeOK, TablesOK, Ids
<1> SUFFICES ASSUME failures' = 0, NEW i \in Ids', directives'[i].status = "failed"
             PROVE  handler' = [pc |-> "alert", id |-> i] \/ Alerted(i)'
  BY DEF FailureAlerted, Alerted, WithStatus
<1>1. ~Fails
  BY <1>0 DEF Fails
<1>2. ASSUME failures = 0, NEW k \in Ids, directives[k].status = "failed"
      PROVE  handler = [pc |-> "alert", id |-> k] \/ Alerted(k)
  BY <1>2 DEF FailureAlerted, Alerted, WithStatus
<1>3. CASE UNCHANGED <<directives, handler, failures>>
  <2>1. i \in Ids /\ (Alerted(i) => Alerted(i)')
    BY <1>3 DEF Ids, Alerted
  <2> QED
    BY <1>2, <1>3, <2>1
<1>4. ASSUME NEW c \in Certs, NEW type \in {"alert", "renew"},
             NEW severity \in {Medium, Critical}, Insert(c, type, severity),
             i \in Ids => handler = [pc |-> "alert", id |-> i] \/ Alerted(i)
      PROVE  \/ /\ i \in Ids /\ Alerted(i)'
             \/ /\ i \in Ids /\ handler = [pc |-> "alert", id |-> i]
  <2>1. /\ Len(directives') = Len(directives) + 1
        /\ \A k \in Ids : directives'[k] = directives[k]
        /\ directives'[Len(directives) + 1] =
             [cert |-> c, type |-> type, severity |-> severity, status |-> "pending"]
    BY <1>4, InsertAppends
  <2>2. i # Len(directives) + 1
    BY <2>1
  <2>3. i \in Ids
    BY <1>0, <2>1, <2>2 DEF Ids
  <2> QED
    BY <1>0, <1>4, <2>1, <2>3, AlertsLast
<1>5. ASSUME NEW k \in Ids, NEW status \in Statuses, UpdateStatus(k, status)
      PROVE  /\ i \in Ids /\ (Alerted(i) => Alerted(i)')
             /\ i = k => status = "failed"
             /\ i # k => directives[i].status = "failed"
  <2>1. /\ Len(directives') = Len(directives)
        /\ \A j \in Ids : /\ directives'[j].cert = directives[j].cert
                          /\ directives'[j].type = directives[j].type
                          /\ directives'[j].severity = directives[j].severity
                          /\ directives'[j].status =
                               IF j = k THEN status ELSE directives[j].status
    BY <1>5, UpdateOnlyStatus
  <2>2. i \in Ids
    BY <2>1 DEF Ids
  <2>3. Alerted(i) => Alerted(i)'
    BY <1>0, <2>1, <2>2, AlertsLast
  <2> QED
    BY <2>1, <2>2, <2>3
<1>6. CASE Schedule
  <2>1. CASE SchedInsert
    <3>1. sched.cert \in Certs
      BY <2>1 DEF SchedInsert, TypeOK, SchedOK
    <3>2. /\ Prescribed(sched.cert).type \in {"alert", "renew"}
          /\ Prescribed(sched.cert).severity \in {Medium, Critical}
      BY DEF Prescribed
    <3>3. UNCHANGED <<handler, failures>>
      BY <2>1 DEF SchedInsert
    <3>4. i \in Ids => directives[i].status = "failed"
      BY <2>1, <3>1, <3>2, InsertAppends DEF SchedInsert
    <3> QED
      BY <1>2, <1>4, <2>1, <3>1, <3>2, <3>3, <3>4 DEF SchedInsert
  <2> QED
    BY <1>1, <1>3, <1>6, <2>1
       DEF Schedule, SchedList, SchedFails, SchedReturn, SchedPredict, tables
<1>7. CASE Sweep
  <2>1. CASE SweepMark
    <3>1. sweep.id \in Ids
      BY <1>0, <2>1 DEF SweepMark, TypeOK, SweepOK
    <3>2. UpdateStatus(sweep.id, "expired") /\ UNCHANGED <<handler, failures>>
      BY <2>1 DEF SweepMark
    <3> QED
      BY <1>2, <1>5, <3>1, <3>2 DEF Statuses
  <2> QED
    BY <1>1, <1>3, <1>7, <2>1
       DEF Sweep, SweepListActive, SweepListPending, SweepRemove, SweepRemoveFails,
           SweepFails, SweepReturn, SweepLookup, tables
<1>8. CASE HandleFailure
  <2>1. CASE InsertAlert
    <3> DEFINE k == handler.id
    <3>1. k \in Ids /\ handler.pc = "alert"
      BY <1>0, <2>1 DEF InsertAlert, TypeOK, HandlerOK
    <3>2. /\ directives[k].cert \in Certs /\ k \in Nat
          /\ Insert(directives[k].cert, "alert", Critical)
      BY <2>1, <3>1, IdsAreDirectives DEF InsertAlert
    <3>3. /\ Len(directives') = Len(directives) + 1
          /\ \A j \in Ids : directives'[j] = directives[j]
          /\ directives'[Len(directives) + 1] =
               [cert |-> directives[k].cert, type |-> "alert", severity |-> Critical,
                status |-> "pending"]
      BY <3>2, InsertAppends
    <3>4. i \in Ids => handler = [pc |-> "alert", id |-> i] \/ Alerted(i)
      BY <1>2, <2>1, <3>3 DEF InsertAlert
    <3>5. CASE i \in Ids /\ Alerted(i)'
      BY <3>5
    <3>6. CASE i \in Ids /\ handler = [pc |-> "alert", id |-> i]
      <4>1. i = k
        BY <3>6
      <4>2. Len(directives) + 1 \in i + 1 .. Len(directives')
        BY <1>0, <3>1, <3>3, <4>1
      <4> QED
        BY <3>1, <3>3, <4>1, <4>2 DEF Alerted
    <3> QED
      BY <1>4, <3>2, <3>4, <3>5, <3>6
  <2>2. ASSUME NEW k \in Ids, MarkFailed(k)
        PROVE  handler' = [pc |-> "alert", id |-> i] \/ Alerted(i)'
    <3>1. /\ UpdateStatus(k, "failed") /\ UNCHANGED failures
          /\ handler.pc = "idle" /\ handler' = [pc |-> "alert", id |-> k]
      BY <2>2 DEF MarkFailed
    <3>2. \A j \in Ids : handler # [pc |-> "alert", id |-> j]
      BY <3>1
    <3> QED
      BY <1>2, <1>5, <3>1, <3>2 DEF Statuses
  <2> QED
    BY <1>1, <1>8, <2>1, <2>2 DEF HandleFailure, AlertFails
<1>9. ASSUME NEW k \in Ids, Activate(k)
      PROVE  handler' = [pc |-> "alert", id |-> i] \/ Alerted(i)'
  <2>1. UpdateStatus(k, "active") /\ UNCHANGED <<handler, failures>>
    BY <1>9 DEF Activate, passes
  <2> QED
    BY <1>2, <1>5, <2>1 DEF Statuses
<1> QED
  BY <1>3, <1>6, <1>7, <1>8, <1>9
     DEF Next, Cleanup, Day, Observe, passes, tables, vars

LEMMA InitAlerted == Init => FailureAlerted
<1> SUFFICES ASSUME Init PROVE FailureAlerted
  OBVIOUS
<1>1. Len(directives) = 0
  BY EmptySeq DEF Init
<1> QED
  BY <1>1 DEF FailureAlerted, WithStatus, Ids

\* As long as storage works, no failed directive stays without its critical
\* alert, whatever other passes do to the table meanwhile.
THEOREM FailuresAreAlerted == Spec => []FailureAlerted
<1> DEFINE Inv == TypeOK /\ FailureAlerted
<1>1. Init => Inv
  BY InitTypeOK, InitAlerted
<1>2. Inv /\ [Next]_vars => Inv'
  BY NextTypeOK, NextAlerted
<1>3. Inv => FailureAlerted
  OBVIOUS
<1> QED
  BY <1>1, <1>2, <1>3, PTL DEF Spec

-----------------------------------------------------------------------------
(* Nothing expires that was seen in the window *)

LEMMA NextDecided ==
  ASSUME TypeOK, CertificatesKept, SweepDecided, [Next]_vars
  PROVE  SweepDecided'
<1>0. /\ now \in Nat \ {0} /\ now' \in Nat /\ sweep.day \in Nat /\ ExpiryDays \in Nat
      /\ lastSeen \in [Certs -> Nat]
      /\ Ids = 1 .. Len(directives) /\ Len(directives) \in Nat
      /\ sweep.pc \in {"remove", "mark"} => sweep.id \in Ids
  BY NextTablesOK, StoreAssumption DEF TypeOK, TablesOK, SweepOK, Ids
<1>1. ASSUME UNCHANGED <<now, lastSeen, sweep>>,
             \A i \in Ids : directives'[i].cert = directives[i].cert
      PROVE  SweepDecided'
  BY <1>0, <1>1 DEF SweepDecided, Unseen
<1>2. ASSUME NEW c \in Certs, NEW type \in {"alert", "renew"},
             NEW severity \in {Medium, Critical}, Insert(c, type, severity)
      PROVE  \A i \in Ids : directives'[i].cert = directives[i].cert
  BY <1>2, InsertAppends
<1>3. ASSUME NEW k \in Ids, NEW status \in Statuses, UpdateStatus(k, status)
      PROVE  \A i \in Ids : directives'[i].cert = directives[i].cert
  BY <1>3, UpdateOnlyStatus
<1>4. CASE Schedule
  <2>1. CASE SchedInsert
    <3>1. sched.cert \in Certs
      BY <2>1 DEF SchedInsert, TypeOK, SchedOK
    <3>2. /\ Prescribed(sched.cert).type \in {"alert", "renew"}
          /\ Prescribed(sched.cert).severity \in {Medium, Critical}
      BY DEF Prescribed
    <3> QED
      BY <1>1, <1>2, <2>1, <3>1, <3>2 DEF SchedInsert, clock
  <2> QED
    BY <1>1, <1>4, <2>1
       DEF Schedule, SchedList, SchedFails, SchedReturn, SchedPredict, tables, clock
<1>5. CASE Sweep
  <2>1. CASE SweepListActive
    BY <1>0, <2>1 DEF SweepListActive, SweepIdle, SweepDecided, clock
  <2>2. CASE SweepListPending
    BY <2>2 DEF SweepListPending, SweepDecided, TypeOK, SweepOK, clock
  <2>3. CASE SweepRemove \/ SweepRemoveFails
    BY <2>3 DEF SweepRemove, SweepRemoveFails, SweepDecided, Unseen, TypeOK, SweepOK,
                clock, tables
  <2>4. CASE SweepMark
    BY <2>4 DEF SweepMark, SweepDecided, TypeOK, SweepOK, clock
  <2>5. CASE SweepFails \/ SweepReturn
    BY <1>0, <2>5 DEF SweepFails, SweepReturn, SweepIdle, SweepDecided, clock
  <2>6. ASSUME NEW i \in Ids, SweepLookup(i) PROVE SweepDecided'
    <3>1. CASE Stale(directives[i].cert)
      <4>1. sweep' = [sweep EXCEPT !.pc = "remove", !.todo = sweep.todo \ {i}, !.id = i]
        BY <2>6, <3>1 DEF SweepLookup
      <4>2. sweep'.day = sweep.day /\ sweep'.id = i
        BY <4>1 DEF TypeOK, SweepOK
      <4> QED
        BY <2>6, <3>1, <4>2
           DEF SweepLookup, SweepDecided, Unseen, Stale, clock, tables
    <3>2. CASE ~Stale(directives[i].cert)
      BY <2>6, <3>2 DEF SweepLookup, SweepDecided, TypeOK, SweepOK, clock
    <3> QED
      BY <3>1, <3>2
  <2> QED
    BY <1>5, <2>1, <2>2, <2>3, <2>4, <2>5, <2>6 DEF Sweep
<1>6. CASE HandleFailure
  <2>1. CASE InsertAlert
    <3>1. handler.id \in Ids
      BY <1>0, <2>1 DEF InsertAlert, TypeOK, HandlerOK
    <3>2. directives[handler.id].cert \in Certs
      BY <3>1, IdsAreDirectives
    <3> QED
      BY <1>1, <1>2, <2>1, <3>2 DEF InsertAlert, clock
  <2> QED
    BY <1>1, <1>3, <1>6, <2>1 DEF HandleFailure, AlertFails, MarkFailed, Statuses,
                                  clock, tables
<1>7. CASE Cleanup
  <2>1. \A i \in Ids : lastSeen'[directives[i].cert] = lastSeen[directives[i].cert]
    <3> SUFFICES ASSUME NEW i \in Ids
                 PROVE  lastSeen'[directives[i].cert] = lastSeen[directives[i].cert]
      OBVIOUS
    <3>1. directives[i].cert \in Certs /\ directives[i].cert \in Referenced
      BY IdsAreDirectives DEF Referenced
    <3> QED
      BY <1>7, <3>1 DEF Cleanup, Deletable
  <2> QED
    BY <1>0, <1>7, <2>1 DEF Cleanup, SweepDecided, Unseen, passes, clock
<1>8. CASE Day
  BY <1>0, <1>8 DEF Day, SweepDecided, Unseen, passes, tables
<1>9. ASSUME NEW c \in Certs, Observe(c) PROVE SweepDecided'
  BY <1>0, <1>9, SMTT(30) DEF Observe, SweepDecided, Unseen, passes, clock
<1>10. CASE \E i \in Ids : Activate(i)
  BY <1>1, <1>3, <1>10 DEF Activate, Statuses, passes, clock
<1>11. CASE UNCHANGED vars
  BY <1>1, <1>11 DEF vars
<1> QED
  BY <1>4, <1>5, <1>6, <1>7, <1>8, <1>9, <1>10, <1>11 DEF Next

\* A status becomes "expired" in SweepMark and nowhere else.
LEMMA OnlySweepExpires ==
  ASSUME TypeOK, [Next]_vars, NEW i \in Ids,
         directives'[i].status = "expired", directives[i].status # "expired"
  PROVE  SweepMark /\ i = sweep.id
<1>1. Len(directives) \in Nat /\ Ids = 1 .. Len(directives)
  BY NextTablesOK DEF Ids
<1>2. directives' # directives
  OBVIOUS
<1>3. ASSUME NEW c \in Certs, NEW type \in {"alert", "renew"},
             NEW severity \in {Medium, Critical}, Insert(c, type, severity)
      PROVE  FALSE
  BY <1>3, InsertAppends
<1>4. ASSUME NEW k \in Ids, NEW status \in Statuses, UpdateStatus(k, status)
      PROVE  status = "expired" /\ i = k
  BY <1>4, UpdateOnlyStatus
<1>5. CASE SweepMark
  <2>1. sweep.id \in Ids
    BY <1>1, <1>5 DEF SweepMark, TypeOK, SweepOK
  <2> QED
    BY <1>4, <1>5, <2>1 DEF SweepMark, Statuses
<1>6. ASSUME SchedInsert PROVE FALSE
  <2>1. sched.cert \in Certs
    BY <1>6 DEF SchedInsert, TypeOK, SchedOK
  <2>2. /\ Prescribed(sched.cert).type \in {"alert", "renew"}
        /\ Prescribed(sched.cert).severity \in {Medium, Critical}
    BY DEF Prescribed
  <2> QED
    BY <1>3, <1>6, <2>1, <2>2 DEF SchedInsert
<1>7. ASSUME InsertAlert PROVE FALSE
  <2>1. handler.id \in Ids
    BY <1>1, <1>7 DEF InsertAlert, TypeOK, HandlerOK
  <2>2. directives[handler.id].cert \in Certs
    BY <2>1, IdsAreDirectives
  <2> QED
    BY <1>3, <1>7, <2>2 DEF InsertAlert
<1>8. ASSUME NEW k \in Ids, MarkFailed(k) \/ Activate(k) PROVE FALSE
  BY <1>4, <1>8 DEF MarkFailed, Activate, Statuses
<1> QED
  BY <1>2, <1>5, <1>6, <1>7, <1>8
     DEF Next, Schedule, SchedList, SchedFails, SchedReturn, SchedPredict, Sweep,
         SweepListActive, SweepListPending, SweepRemove, SweepRemoveFails, SweepFails,
         SweepReturn, SweepLookup, HandleFailure, AlertFails, Cleanup, Day, Observe,
         tables, vars

\* A directive expires only if its certificate was outside the window when the
\* sweep looked, for any interleaving with traffic, clean-up and other passes.
THEOREM ExpiryNeedsSilence == Spec => ExpiredWasUnseen
<1> DEFINE Inv == TypeOK /\ CertificatesKept /\ Predicted /\ SweepDecided
<1>1. Init => Inv
  <2> SUFFICES ASSUME Init PROVE SweepDecided
    BY InitTypeOK, InitKept
  <2> QED
    BY DEF Init, SweepDecided, SweepIdle
<1>2. Inv /\ [Next]_vars => Inv'
  BY NextTypeOK, NextKept, NextDecided
<1>3. Inv /\ [Next]_vars =>
        [\A i \in Ids :
           directives'[i].status = "expired" /\ directives[i].status # "expired" =>
             LET seen == lastSeen[directives[i].cert]
             IN  seen < sweep.day - ExpiryDays \/ seen >= sweep.day]_vars
  BY OnlySweepExpires DEF SweepMark, SweepDecided, Unseen
<1> QED
  BY <1>1, <1>2, <1>3, PTL DEF Spec, ExpiredWasUnseen

=============================================================================
