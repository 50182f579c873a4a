--------------------------- MODULE ServicesProofs ---------------------------
(***************************************************************************)
(* Proofs about what surrounds the detection, for any number of            *)
(* fingerprints, decisions, directives, recorders, endpoints and events,   *)
(* any source, manifest and configuration.                                 *)
(*                                                                         *)
(* Daemon: the invariant says at each stage of main what has been checked  *)
(* and which services have been started by then.                           *)
(*                                                                         *)
(* Inventory: while a list is imported, what has been written and what is  *)
(* left of the list make up the list, under an import id that no other row *)
(* has.                                                                    *)
(*                                                                         *)
(* Storage: a directive is inserted once, by the call that names it, so    *)
(* that no other takes the place of one that was there when the dashboard  *)
(* began; between its two statements it is counted, or has moved on to a   *)
(* final status or through one the dashboard does not ask for.             *)
(*                                                                         *)
(* Export: of a dispatch, the endpoints before the current one are served  *)
(* and those after it untouched. Of the counters, the flush of an event    *)
(* begins after the event was counted, and a flush that sends has offered  *)
(* what it has passed.                                                     *)
(*                                                                         *)
(* AuditLog: the rows of a decision have increasing ids and stages, and no *)
(* times that decrease, so that its chain, sorted by time, goes by stage   *)
(* up to equal times; a stage that was answered Ok, or will be, is in the  *)
(* table or past its retention.                                            *)
(***************************************************************************)
EXTENDS Inventory, AuditLog, Storage, Export, Daemon,
        FiniteSetTheorems, SequenceTheorems, TLAPS

-----------------------------------------------------------------------------
(* Daemon *)

Files == {"intact", "missing", "unreadable", "changed"}

TaskStates ==
  {"absent", "certificates", "audit_log", "done", "loading", "waiting", "starting",
   "binding", "serving", "failed", "stopped"}

\* The stages in which the first so many steps of main are done.
Late == {"web_ui", "waiting", "sleeping"}
AfterExecutor == Late \cup {"observability"}
AfterAnalyzer == AfterExecutor \cup {"executor"}
AfterCollector == AfterAnalyzer \cup {"analyzer"}
Checked == AfterCollector \cup {"storage", "collector"}
MainStages == Checked \cup {"args", "config", "integrity"}

Started(t) == task[t] # "absent"

DaemonTypes ==
  /\ manifest \in Seq(Files) /\ checked \in 0 .. Len(manifest)
  /\ stage \in MainStages /\ task \in [Tasks -> TaskStates]

DaemonInv ==
  /\ DaemonTypes
  /\ \A i \in 1 .. checked : manifest[i] = "intact"
  /\ stage \in Checked => checked = Len(manifest)
  /\ (\E t \in Tasks : Started(t)) => stage \in AfterCollector \cup {"collector"}
  /\ stage \in AfterCollector => Started("collector")
  /\ stage \in AfterAnalyzer => Started("analyzer")
  /\ stage \in AfterExecutor => Started("executor")
  /\ stage \in Late => Started("observability") /\ config.exports
  /\ stage = "sleeping" => cancelled
  /\ exit = "ok" => cancelled

mainVars == <<manifest, stage, config, checked, cancelled>>

-----------------------------------------------------------------------------

LEMMA DaemonInitially == DaemonInit => DaemonInv
<1> SUFFICES ASSUME DaemonInit PROVE DaemonInv
  OBVIOUS
<1>1. DaemonTypes
  BY DaemonAssumption
     DEF DaemonInit, DaemonTypes, Files, MainStages, Checked, AfterCollector, AfterAnalyzer,
         AfterExecutor, Late, TaskStates
<1> QED
  BY <1>1
  DEF DaemonInit, DaemonInv, Started, MainStages, Checked, AfterCollector, AfterAnalyzer,
              AfterExecutor, Late

\* A task changes its state only once it is started, and is never absent again.
LEMMA TaskChanges ==
  ASSUME DaemonTypes, NEW t \in Tasks, NEW s \in TaskStates \ {"absent"},
         task' = [task EXCEPT ![t] = s]
  PROVE  /\ task' \in [Tasks -> TaskStates]
         /\ Started(t)' /\ \A u \in Tasks : Started(u) => Started(u)'
         /\ \A u \in Tasks : Started(u)' => Started(u) \/ u = t
  BY DEF DaemonTypes, Started

LEMMA TasksGoOn ==
  ASSUME DaemonTypes, TaskStep
  PROVE  /\ UNCHANGED <<mainVars, exit>>
         /\ task' \in [Tasks -> TaskStates]
         /\ \A u \in Tasks : Started(u) => Started(u)'
         /\ \E u \in Tasks : Started(u)
<1> DEFINE Goal == /\ UNCHANGED <<mainVars, exit>>
                   /\ task' \in [Tasks -> TaskStates]
                   /\ \A u \in Tasks : Started(u) => Started(u)'
                   /\ \E u \in Tasks : Started(u)
<1>1. ASSUME NEW t \in Tasks,
             NEW from \in TaskStates \ {"absent"}, NEW to \in TaskStates \ {"absent"},
             Moves(t, from, to)
      PROVE  Goal
  <2>1. Started(t) /\ UNCHANGED <<mainVars, exit>> /\ task' = [task EXCEPT ![t] = to]
    BY <1>1 DEF Moves, Started, mainVars
  <2> QED
    BY <2>1, TaskChanges
<1>2. CASE CleansUp
  <2>1. "cleanup" \in Tasks
        /\ {"certificates", "audit_log", "done"} \subseteq TaskStates \ {"absent"}
    BY DEF Tasks, TaskStates
  <2> QED
    BY <1>1, <1>2, <2>1 DEF CleansUp
<1>3. CASE Loads
  <2>1. "collector" \in Tasks /\ {"loading", "waiting"} \subseteq TaskStates \ {"absent"}
    BY DEF Tasks, Services, TaskStates
  <2> QED
    BY <1>1, <1>3, <2>1 DEF Loads
<1>4. CASE Observes
  <2>1. "observability" \in Tasks /\ Started("observability") /\ UNCHANGED <<mainVars, exit>>
    BY <1>4 DEF Observes, Tasks, Services, Started, mainVars
  <2>2. /\ task' \in [Tasks -> TaskStates]
        /\ \A u \in Tasks : Started(u) => Started(u)'
    BY <1>4 DEF Observes, DaemonTypes, Started, TaskStates
  <2> QED
    BY <2>1, <2>2
<1>5. ASSUME NEW t \in Servers, Binds(t)
      PROVE  Goal
  <2>1. t \in Tasks /\ {"binding", "serving", "failed"} \subseteq TaskStates \ {"absent"}
    BY DEF Tasks, TaskStates
  <2> QED
    BY <1>1, <1>5, <2>1 DEF Binds
<1>6. ASSUME NEW t \in Services \cup Servers, Stops(t)
      PROVE  Goal
  <2>1. t \in Tasks /\ {"waiting", "serving", "stopped"} \subseteq TaskStates \ {"absent"}
    BY DEF Tasks, TaskStates
  <2> QED
    BY <1>1, <1>6, <2>1 DEF Stops
<1> QED
  BY <1>2, <1>3, <1>4, <1>5, <1>6 DEF TaskStep

-----------------------------------------------------------------------------

LEMMA DaemonInductive == DaemonInv /\ [DaemonNext]_daemonVars => DaemonInv'
<1> SUFFICES ASSUME DaemonInv, [DaemonNext]_daemonVars PROVE DaemonInv'
  OBVIOUS
<1> USE DEF MainStages, Checked, AfterCollector, AfterAnalyzer, AfterExecutor, Late
<1>1. CASE UNCHANGED daemonVars
  BY <1>1 DEF DaemonInv, DaemonTypes, Started, daemonVars
<1>2. CASE TaskStep
  <2>1. /\ UNCHANGED <<mainVars, exit>> /\ task' \in [Tasks -> TaskStates]
        /\ \A u \in Tasks : Started(u) => Started(u)'
        /\ \E u \in Tasks : Started(u)
    BY <1>2, TasksGoOn DEF DaemonInv
  <2>2. {"collector", "analyzer", "executor", "observability"} \subseteq Tasks
    BY DEF Tasks, Services
  <2>3. DaemonTypes'
    BY <2>1 DEF DaemonInv, DaemonTypes, mainVars
  <2> QED
    BY <2>1, <2>2, <2>3 DEF DaemonInv, mainVars
<1>3. ASSUME NEW s, Signal(s)
      PROVE  DaemonInv'
  BY <1>3 DEF Signal, DaemonInv, DaemonTypes, Started
<1>4. ASSUME NEW how, Exit(how), how = "ok" => cancelled
      PROVE  DaemonInv'
  BY <1>4 DEF Exit, DaemonInv, DaemonTypes, Started
<1>5. CASE ParseArgs
  <2>1. CASE Exit("version") \/ Exit("usage")
    BY <1>4, <2>1
  <2>2. CASE /\ stage = "args" /\ stage' = "config"
             /\ UNCHANGED <<manifest, config, checked, cancelled, signalled, task, exit>>
    BY <2>2 DEF DaemonInv, DaemonTypes, Started
  <2> QED
    BY <1>5, <2>1, <2>2 DEF ParseArgs, Stands
<1>6. CASE LoadConfig
  <2>1. CASE Exit("error")
    BY <1>4, <2>1
  <2>2. CASE /\ stage = "config" /\ stage' = "integrity"
             /\ UNCHANGED <<manifest, checked, cancelled, signalled, task, exit>>
    BY <2>2 DEF DaemonInv, DaemonTypes, Started
  <2> QED
    BY <1>6, <2>1, <2>2 DEF LoadConfig, Stands
<1>7. CASE Validate
  <2>1. CASE Exit("error")
    BY <1>4, <2>1
  <2>2. CASE /\ stage = "integrity" /\ checked < Len(manifest)
             /\ Acceptable(manifest[checked + 1]) /\ checked' = checked + 1
             /\ UNCHANGED <<manifest, stage, config, cancelled, signalled, task, exit>>
    BY <2>2 DEF Acceptable, DaemonInv, DaemonTypes, Started
  <2>3. CASE /\ stage = "integrity" /\ checked = Len(manifest) /\ stage' = "storage"
             /\ UNCHANGED <<manifest, config, checked, cancelled, signalled, task, exit>>
    BY <2>3 DEF DaemonInv, DaemonTypes, Started
  <2> QED
    BY <1>7, <2>1, <2>2, <2>3 DEF Validate, Stands
<1>8. ASSUME NEW t \in Tasks, NEW s \in TaskStates \ {"absent"},
             task' = [task EXCEPT ![t] = s],
             stage \in AfterCollector \cup {"storage", "collector"},
             stage' \in AfterCollector \cup {"collector"},
             UNCHANGED <<manifest, config, checked, cancelled, signalled, exit>>,
             stage' \in AfterCollector => stage \in AfterCollector \/ t = "collector",
             stage' \in AfterAnalyzer => stage \in AfterAnalyzer \/ t = "analyzer",
             stage' \in AfterExecutor => stage \in AfterExecutor \/ t = "executor",
             stage' \in Late => stage \in Late \/ (t = "observability" /\ config.exports),
             stage' = "sleeping" => stage = "sleeping"
      PROVE  DaemonInv'
  <2>1. /\ task' \in [Tasks -> TaskStates] /\ Started(t)'
        /\ \A u \in Tasks : Started(u) => Started(u)'
    BY <1>8, TaskChanges DEF DaemonInv
  <2>2. {"collector", "analyzer", "executor", "observability"} \subseteq Tasks
    BY DEF Tasks, Services
  <2>3. DaemonTypes'
    BY <1>8, <2>1 DEF DaemonInv, DaemonTypes
  <2> QED
    BY <1>8, <2>1, <2>2, <2>3 DEF DaemonInv
<1>9. CASE OpenStorage
  <2>1. CASE Exit("error")
    BY <1>4, <2>1
  <2>2. CASE /\ stage = "storage" /\ Start("cleanup", "certificates") /\ stage' = "collector"
             /\ UNCHANGED <<manifest, config, checked, cancelled, signalled, exit>>
    BY <1>8, <2>2 DEF Start, Tasks, TaskStates
  <2> QED
    BY <1>9, <2>1, <2>2 DEF OpenStorage, Stands
<1>10. CASE StartService
  <2> DEFINE s == IF stage = "collector" THEN "loading" ELSE "waiting"
  <2>1. /\ stage \in {"collector", "analyzer", "executor"}
        /\ stage = "collector" => stage' = "analyzer"
        /\ stage = "analyzer" => stage' = "executor"
        /\ stage = "executor" => stage' = "observability"
        /\ UNCHANGED <<manifest, config, checked, cancelled, signalled, exit>>
    BY <1>10 DEF StartService, NextService
  <2>2. task' = [task EXCEPT ![stage] = s] /\ s \in TaskStates \ {"absent"}
    BY <1>10 DEF StartService, Start, TaskStates
  <2> HIDE DEF s
  <2>3. {"collector", "analyzer", "executor"} \subseteq Tasks
    BY DEF Tasks, Services
  <2>4. CASE stage = "collector"
    BY <1>8, <2>1, <2>2, <2>3, <2>4
  <2>5. CASE stage = "analyzer"
    BY <1>8, <2>1, <2>2, <2>3, <2>5
  <2>6. CASE stage = "executor"
    BY <1>8, <2>1, <2>2, <2>3, <2>6
  <2> QED
    BY <2>1, <2>4, <2>5, <2>6
<1>11. CASE StartObservability
  <2>1. CASE ~config.exports
    BY <1>4, <1>11, <2>1 DEF StartObservability
  <2>2. CASE config.exports
    BY <1>8, <1>11, <2>2 DEF StartObservability, Stands, Start, Tasks, Services, TaskStates
  <2> QED
    BY <2>1, <2>2
<1>12. CASE StartWebUi
  <2>1. CASE config.web_ui
    BY <1>8, <1>12, <2>1 DEF StartWebUi, Stands, Start, Tasks, Servers, TaskStates
  <2>2. CASE ~config.web_ui
    BY <1>12, <2>2 DEF StartWebUi, Stands, DaemonInv, DaemonTypes, Started
  <2> QED
    BY <2>1, <2>2
<1>13. CASE Shutdown
  BY <1>13 DEF Shutdown, Stands, DaemonInv, DaemonTypes, Started
<1>14. CASE Leave
  BY <1>4, <1>14 DEF Leave, Stands, DaemonInv
<1> QED
  BY <1>1, <1>2, <1>3, <1>5, <1>6, <1>7, <1>9, <1>10, <1>11, <1>12, <1>13, <1>14
    DEF DaemonNext, Main

\* run_daemon (main.rs): nothing runs before every program has passed its check
\* (integrity.rs), and main waits only with every service started.
THEOREM ChecksComeFirst == DaemonSpec => []ServicesAfterChecks
<1>1. DaemonInit => DaemonInv
  BY DaemonInitially
<1>2. DaemonInv => ServicesAfterChecks
  BY DEF DaemonInv, DaemonTypes, Started, ServicesAfterChecks, Tasks, Services, Checked, AfterCollector,
         AfterAnalyzer, AfterExecutor, Late
<1> QED
  BY <1>1, <1>2, DaemonInductive, PTL DEF DaemonSpec

\* run_daemon (main.rs): a daemon that ends well has cancelled its tasks.
THEOREM CleanExitCancels == DaemonSpec => [](exit = "ok" => cancelled)
<1>1. DaemonInit => DaemonInv
  BY DaemonInitially
<1>2. DaemonInv => (exit = "ok" => cancelled)
  BY DEF DaemonInv
<1> QED
  BY <1>1, <1>2, DaemonInductive, PTL DEF DaemonSpec

-----------------------------------------------------------------------------
(* Inventory *)

ManagerRecord ==
  [pc : {"idle", "import", "stamp", "log"}, id : Nat, todo : Seq(Raw), read : Seq(Raw),
   total : Nat, skipped : Nat, removed : Nat]

RefreshRecord == [at : Nat, success : BOOLEAN]

InventoryTypes ==
  /\ now \in Nat /\ source \in Seq(Raw)
  /\ table \in [Fps -> Nat]
  /\ refreshLog \in Seq(RefreshRecord)
  /\ last \in Nat \cup {Never} /\ endedAt \in Nat \cup {Never}
  /\ manager \in ManagerRecord
  /\ spent \in [refreshes : Nat, restarts : Nat, faults : Nat]
  /\ succeeded \in Seq(Raw)

\* What the refresh with this id has written.
Written(id) == {f \in Fps : table[f] = id}

\* The import so far and the rest of the list make up the list, under an id that no
\* refresh before has used.
Importing ==
  /\ \A f \in Fps : table[f] <= spent.refreshes
  /\ manager.pc = "import" =>
       /\ manager.id = spent.refreshes /\ manager.id > 0
       /\ Written(manager.id) \cup Listed(manager.todo) = Listed(manager.read)

\* The latest row of the log, if there is one, is not of a success.
LogTellsNothing == refreshLog = <<>> \/ ~Last(refreshLog).success

\* No time that the manager may take for its last success is after the last time a
\* refresh reached its end; it knows of none only when the log does not tell.
Stamps ==
  /\ last <= endedAt /\ endedAt <= now
  /\ last = Never => LogTellsNothing
  /\ manager.pc = "log" => last # Never
  /\ \A i \in DOMAIN refreshLog : refreshLog[i].success => refreshLog[i].at <= endedAt

InventoryInv == InventoryTypes /\ Importing /\ NeverMissing /\ Stamps

-----------------------------------------------------------------------------

LEMMA ListedHead ==
  ASSUME NEW s \in Seq(Raw), s # <<>>
  PROVE  /\ Valid(Head(s)) => Listed(s) = {Head(s).fp} \cup Listed(Tail(s))
         /\ ~Valid(Head(s)) => Listed(s) = Listed(Tail(s))
         /\ Head(s) \in Raw /\ Tail(s) \in Seq(Raw)
<1>1. /\ Head(s) = s[1] /\ Tail(s) \in Seq(Raw) /\ Head(s) \in Raw
      /\ Len(s) \in Nat \ {0} /\ Len(Tail(s)) = Len(s) - 1
      /\ \A i \in 1 .. Len(s) - 1 : Tail(s)[i] = s[i + 1]
  OBVIOUS
<1>2. ToSet(s) = {Head(s)} \cup ToSet(Tail(s))
  <2>1. ASSUME NEW i \in 1 .. Len(s) PROVE s[i] \in {Head(s)} \cup ToSet(Tail(s))
    <3>1. CASE i = 1
      BY <1>1, <3>1
    <3>2. CASE i # 1
      <4>1. i - 1 \in 1 .. Len(s) - 1 /\ (i - 1) + 1 = i
        BY <1>1, <3>2
      <4>2. Tail(s)[i - 1] = s[i] /\ i - 1 \in DOMAIN Tail(s)
        BY <1>1, <4>1
      <4> QED
        BY <4>2 DEF ToSet
    <3> QED
      BY <3>1, <3>2
  <2>2. ASSUME NEW i \in 1 .. Len(s) - 1 PROVE Tail(s)[i] \in ToSet(s)
    <3>1. i + 1 \in DOMAIN s /\ Tail(s)[i] = s[i + 1]
      BY <1>1
    <3> QED
      BY <3>1 DEF ToSet
  <2>3. Head(s) \in ToSet(s)
    BY <1>1 DEF ToSet
  <2>4. DOMAIN s = 1 .. Len(s) /\ DOMAIN Tail(s) = 1 .. Len(s) - 1
    BY <1>1
  <2>5. ToSet(s) \subseteq {Head(s)} \cup ToSet(Tail(s))
    BY <2>1, <2>4 DEF ToSet
  <2>6. ToSet(Tail(s)) \subseteq ToSet(s)
    BY <2>2, <2>4 DEF ToSet
  <2> QED
    BY <2>3, <2>5, <2>6
<1> QED
  BY <1>1, <1>2 DEF Listed

LEMMA ListedEmpty == Listed(<<>>) = {}
BY DEF Listed, ToSet

LEMMA ListedKnown == \A s : Listed(s) \subseteq Fps
BY DEF Listed, Valid

LEMMA InventoryInitially ==
  ASSUME InventoryInit
  PROVE  InventoryInv
<1>1. Idle \in ManagerRecord /\ Idle.pc = "idle"
  BY EmptySeq DEF Idle, ManagerRecord
<1>2. source \in Seq(Raw)
  BY InventoryAssumption DEF InventoryInit
<1>3. InventoryTypes
  BY <1>1, <1>2, EmptySeq DEF InventoryInit, InventoryTypes, Never
<1>4. Importing /\ NeverMissing
  BY <1>1, ListedEmpty DEF InventoryInit, Importing, NeverMissing
<1>5. Stamps
  BY <1>1 DEF InventoryInit, Stamps, LogTellsNothing, Never
<1> QED
  BY <1>3, <1>4, <1>5 DEF InventoryInv

\* A step without an entry or a time: the manager stands still, begins or gives up.
LEMMA ManagerRests ==
  ASSUME InventoryInv, now' \in Nat, now' >= now, source' \in Seq(Raw),
         UNCHANGED <<table, succeeded, endedAt>>,
         spent' \in [refreshes : Nat, restarts : Nat, faults : Nat],
         refreshLog' = refreshLog \/ refreshLog' = Append(refreshLog, [at |-> now, success |-> FALSE]),
         last' = last \/ last' = Never
                      \/ \E i \in DOMAIN refreshLog :
                           refreshLog[i].success /\ last' = refreshLog[i].at,
         last' = Never => last = Never \/ LogTellsNothing,
         last' = last \/ manager' = Idle,
         \/ manager' = manager /\ spent'.refreshes = spent.refreshes
         \/ manager' = Idle /\ spent'.refreshes = spent.refreshes
  PROVE  InventoryInv'
<1>1. Idle \in ManagerRecord /\ Idle.pc = "idle"
  BY EmptySeq DEF Idle, ManagerRecord
<1>2. refreshLog' \in Seq(RefreshRecord)
  <2>1. [at |-> now, success |-> FALSE] \in RefreshRecord
    BY DEF InventoryInv, InventoryTypes, RefreshRecord
  <2>2. refreshLog \in Seq(RefreshRecord)
    BY DEF InventoryInv, InventoryTypes
  <2>3. Append(refreshLog, [at |-> now, success |-> FALSE]) \in Seq(RefreshRecord)
    BY <2>1, <2>2, AppendProperties
  <2> QED
    BY <2>2, <2>3
<1>3. \A i \in DOMAIN refreshLog : refreshLog[i].at \in Nat
  <2>1. \A i \in DOMAIN refreshLog : refreshLog[i] \in RefreshRecord
    BY DEF InventoryInv, InventoryTypes
  <2> QED
    BY <2>1 DEF RefreshRecord
<1>4. last' \in Nat \cup {Never} /\ last' <= endedAt
  BY <1>3, SMTT(30) DEF InventoryInv, InventoryTypes, Stamps, Never
<1>5. InventoryTypes'
  BY <1>1, <1>2, <1>4 DEF InventoryInv, InventoryTypes
<1>6. Importing'
  <2>1. spent'.refreshes = spent.refreshes /\ table' = table
    BY <1>1
  <2>2. CASE manager' = manager
    BY <2>1, <2>2 DEF InventoryInv, Importing, Written, Listed
  <2>3. CASE manager' = Idle
    BY <1>1, <2>1, <2>3 DEF InventoryInv, Importing
  <2> QED
    BY <2>2, <2>3
<1>7. NeverMissing'
  <2>1. CASE manager' = manager
    BY <2>1 DEF InventoryInv, NeverMissing, InTable, Listed
  <2>2. CASE manager' = Idle
    BY <1>1, <2>2 DEF InventoryInv, NeverMissing, InTable, Listed
  <2> QED
    BY <2>1, <2>2
<1>8. \A i \in DOMAIN refreshLog' : refreshLog'[i].success => refreshLog'[i].at <= endedAt
  <2>1. CASE refreshLog' = refreshLog
    BY <2>1 DEF InventoryInv, Stamps
  <2>2. CASE refreshLog' = Append(refreshLog, [at |-> now, success |-> FALSE])
    <3>1. /\ Len(refreshLog) \in Nat /\ DOMAIN refreshLog = 1 .. Len(refreshLog)
          /\ DOMAIN refreshLog' = 1 .. Len(refreshLog) + 1
          /\ \A i \in 1 .. Len(refreshLog) : refreshLog'[i] = refreshLog[i]
          /\ refreshLog'[Len(refreshLog) + 1] = [at |-> now, success |-> FALSE]
      BY <2>2, SMTT(30) DEF InventoryInv, InventoryTypes
    <3>2. ~refreshLog'[Len(refreshLog) + 1].success
      BY <3>1
    <3> QED
      BY <3>1, <3>2 DEF InventoryInv, Stamps
  <2> QED
    BY <2>1, <2>2
<1>9. last' = Never => LogTellsNothing'
  <2>1. CASE refreshLog' = refreshLog
    BY <2>1 DEF InventoryInv, Stamps, LogTellsNothing, Last
  <2>2. CASE refreshLog' = Append(refreshLog, [at |-> now, success |-> FALSE])
    <3>1. refreshLog'[Len(refreshLog')] = [at |-> now, success |-> FALSE]
      BY <2>2, SMTT(30) DEF InventoryInv, InventoryTypes
    <3> QED
      BY <3>1 DEF LogTellsNothing, Last
  <2> QED
    BY <2>1, <2>2
<1>10. manager'.pc = "log" => last' # Never
  BY <1>1 DEF InventoryInv, Stamps
<1>11. Stamps'
  BY <1>4, <1>8, <1>9, <1>10 DEF InventoryInv, InventoryTypes, Stamps, Never
<1> QED
  BY <1>5, <1>6, <1>7, <1>11 DEF InventoryInv

\* The step of a refresh that is begun.
LEMMA BeginKeeps ==
  ASSUME InventoryInv, Begin
  PROVE  InventoryInv'
<1>1. /\ spent' = [spent EXCEPT !.refreshes = spent.refreshes + 1]
      /\ manager' = [Idle EXCEPT !.pc = "import", !.id = spent.refreshes + 1,
                                 !.todo = source, !.read = source]
      /\ UNCHANGED <<now, source, table, refreshLog, last, succeeded, endedAt>>
  BY DEF Begin
<1>2. /\ source \in Seq(Raw) /\ spent.refreshes \in Nat
      /\ spent \in [refreshes : Nat, restarts : Nat, faults : Nat]
      /\ table \in [Fps -> Nat]
  BY DEF InventoryInv, InventoryTypes
<1>3. /\ manager' \in ManagerRecord /\ manager'.pc = "import"
      /\ manager'.id = spent.refreshes + 1
      /\ manager'.todo = source /\ manager'.read = source
  <2>1. manager' = [pc |-> "import", id |-> spent.refreshes + 1, todo |-> source,
                    read |-> source, total |-> 0, skipped |-> 0, removed |-> 0]
    BY <1>1 DEF Idle
  <2> QED
    BY <1>2, <2>1 DEF ManagerRecord
<1>4. /\ spent' \in [refreshes : Nat, restarts : Nat, faults : Nat]
      /\ spent'.refreshes = spent.refreshes + 1
  BY <1>1, <1>2
<1>5. InventoryTypes'
  BY <1>1, <1>3, <1>4 DEF InventoryInv, InventoryTypes
<1>6. Importing'
  <2>1. \A f \in Fps : table[f] <= spent.refreshes /\ table[f] \in Nat
    BY <1>2 DEF InventoryInv, Importing
  <2>2. {f \in Fps : table[f] = spent.refreshes + 1} = {}
    BY <1>2, <2>1
  <2>3. \A f \in Fps : table'[f] <= spent'.refreshes
    BY <1>1, <1>2, <1>4, <2>1
  <2>4. Written(manager.id)' = {}
    BY <1>1, <1>3, <2>2 DEF Written
  <2>5. Listed(manager.todo)' = Listed(manager.read)'
    BY <1>3 DEF Listed
  <2> QED
    BY <1>2, <1>3, <1>4, <2>3, <2>4, <2>5 DEF Importing
<1>7. NeverMissing'
  BY <1>1, <1>3 DEF InventoryInv, NeverMissing, InTable, Listed
<1>8. Stamps'
  BY <1>1, <1>3 DEF InventoryInv, Stamps, LogTellsNothing, Last
<1> QED
  BY <1>5, <1>6, <1>7, <1>8 DEF InventoryInv

LEMMA ImportKeeps ==
  ASSUME InventoryInv, ImportEntry
  PROVE  InventoryInv'
<1> DEFINE raw == Head(manager.todo)
<1>1. /\ manager.pc = "import" /\ manager.todo # <<>>
      /\ Valid(raw) => table' = [table EXCEPT ![raw.fp] = manager.id]
      /\ ~Valid(raw) => table' = table
      /\ manager' = [manager EXCEPT !.todo = Tail(manager.todo),
                       !.total = manager.total + (IF Valid(raw) THEN 1 ELSE 0),
                       !.skipped = manager.skipped + (IF Valid(raw) THEN 0 ELSE 1)]
      /\ UNCHANGED <<now, source, refreshLog, last, spent, succeeded, endedAt>>
  BY DEF ImportEntry, Before
<1>2. /\ manager \in ManagerRecord /\ table \in [Fps -> Nat]
      /\ manager.todo \in Seq(Raw) /\ manager.id \in Nat /\ manager.read \in Seq(Raw)
      /\ spent.refreshes \in Nat
  BY DEF InventoryInv, InventoryTypes, ManagerRecord
<1>3. /\ manager.id = spent.refreshes /\ manager.id > 0
      /\ Written(manager.id) \cup Listed(manager.todo) = Listed(manager.read)
      /\ \A f \in Fps : table[f] <= spent.refreshes
  BY <1>1 DEF InventoryInv, Importing
<1>4. /\ raw \in Raw /\ Tail(manager.todo) \in Seq(Raw)
      /\ Valid(raw) => Listed(manager.todo) = {raw.fp} \cup Listed(Tail(manager.todo))
      /\ ~Valid(raw) => Listed(manager.todo) = Listed(Tail(manager.todo))
  BY <1>1, <1>2, ListedHead
<1>5. /\ manager' \in ManagerRecord /\ manager'.pc = "import" /\ manager'.id = manager.id
      /\ manager'.todo = Tail(manager.todo) /\ manager'.read = manager.read
  <2>1. /\ (IF Valid(raw) THEN 1 ELSE 0) \in Nat /\ (IF Valid(raw) THEN 0 ELSE 1) \in Nat
    OBVIOUS
  <2>2. /\ manager.total + (IF Valid(raw) THEN 1 ELSE 0) \in Nat
        /\ manager.skipped + (IF Valid(raw) THEN 0 ELSE 1) \in Nat
    BY <1>2, <2>1 DEF ManagerRecord
  <2> QED
    BY <1>1, <1>2, <1>4, <2>2 DEF ManagerRecord
<1> HIDE DEF raw
<1>6. /\ table' \in [Fps -> Nat] /\ \A f \in Fps : table'[f] <= spent.refreshes
      /\ \A f \in Fps : table[f] # 0 => table'[f] # 0
      /\ Valid(raw) => \A f \in Fps : table'[f] = manager.id <=> table[f] = manager.id \/ f = raw.fp
      /\ Valid(raw) => raw.fp \in Fps
  <2>1. CASE Valid(raw)
    <3>1. raw.fp \in Fps
      BY <2>1 DEF Valid
    <3> QED
      BY <1>1, <1>2, <1>3, <2>1, <3>1, SMTT(30)
  <2>2. CASE ~Valid(raw)
    BY <1>1, <1>2, <1>3, <2>2
  <2> QED
    BY <2>1, <2>2
<1>7. {f \in Fps : table'[f] = manager.id} \cup Listed(Tail(manager.todo)) = Listed(manager.read)
  <2>1. CASE Valid(raw)
    <3>1. {f \in Fps : table'[f] = manager.id} = Written(manager.id) \cup {raw.fp}
      BY <1>6, <2>1 DEF Written
    <3> QED
      BY <1>3, <1>4, <2>1, <3>1
  <2>2. CASE ~Valid(raw)
    BY <1>1, <1>3, <1>4, <2>2 DEF Written
  <2> QED
    BY <2>1, <2>2
<1>8. InventoryTypes'
  BY <1>1, <1>5, <1>6 DEF InventoryInv, InventoryTypes
<1>9. Importing'
  <2>1. Written(manager.id)' = {f \in Fps : table'[f] = manager.id}
    BY <1>5 DEF Written
  <2>2. /\ Listed(manager.todo)' = Listed(Tail(manager.todo))
        /\ Listed(manager.read)' = Listed(manager.read)
    BY <1>5 DEF Listed
  <2>3. spent' = spent
    BY <1>1
  <2> QED
    BY <1>3, <1>5, <1>6, <1>7, <2>1, <2>2, <2>3 DEF Importing
<1>10. NeverMissing'
  <2>1. InTable \subseteq InTable'
    BY <1>6 DEF InTable
  <2>2. Listed(succeeded)' = Listed(succeeded)
    BY <1>1 DEF Listed
  <2> QED
    BY <1>5, <2>1, <2>2 DEF InventoryInv, NeverMissing
<1>11. Stamps'
  BY <1>1, <1>5 DEF InventoryInv, Stamps, LogTellsNothing, Last
<1> QED
  BY <1>8, <1>9, <1>10, <1>11 DEF InventoryInv

LEMMA RemoveKeeps ==
  ASSUME InventoryInv, RemoveStale
  PROVE  InventoryInv'
<1> DEFINE stale == {f \in InTable : table[f] # manager.id}
<1>1. /\ manager.pc = "import" /\ manager.todo = <<>>
      /\ table' = [f \in Fps |-> IF f \in stale THEN 0 ELSE table[f]]
      /\ manager' = [manager EXCEPT !.pc = "stamp", !.removed = Cardinality(stale)]
      /\ succeeded' = manager.read
      /\ UNCHANGED <<now, source, refreshLog, last, spent, endedAt>>
  BY DEF RemoveStale
<1>2. /\ manager \in ManagerRecord /\ table \in [Fps -> Nat]
      /\ manager.id \in Nat /\ manager.read \in Seq(Raw)
  BY DEF InventoryInv, InventoryTypes, ManagerRecord
<1>3. Cardinality(stale) \in Nat
  <2>1. stale \subseteq Fps
    BY DEF InTable
  <2> QED
    BY <2>1, InventoryAssumption, FS_Subset, FS_CardinalityType
<1>4. /\ manager' \in ManagerRecord /\ manager'.pc = "stamp" /\ manager'.id = manager.id
      /\ manager'.read = manager.read
  BY <1>1, <1>2, <1>3 DEF ManagerRecord
<1>5. manager.id > 0 /\ Written(manager.id) = Listed(manager.read)
      /\ \A f \in Fps : table[f] <= spent.refreshes
  BY <1>1, ListedEmpty DEF InventoryInv, Importing
<1>6. table' \in [Fps -> Nat] /\ \A f \in Fps : table'[f] <= spent.refreshes
  <2>1. spent.refreshes \in Nat
    BY DEF InventoryInv, InventoryTypes
  <2> QED
    BY <1>1, <1>2, <1>5, <2>1
<1>7. InTable' = Written(manager.id)
  <2>1. ASSUME NEW f \in Fps PROVE table'[f] # 0 <=> table[f] = manager.id
    BY <1>1, <1>2, <1>5 DEF InTable
  <2> QED
    BY <2>1 DEF InTable, Written
<1> HIDE DEF stale
<1>8. InventoryTypes'
  BY <1>1, <1>2, <1>4, <1>6 DEF InventoryInv, InventoryTypes
<1>9. Importing'
  BY <1>1, <1>4, <1>6 DEF Importing
<1>10. NeverMissing'
  <2>1. /\ Listed(succeeded)' = Listed(manager.read)
        /\ Listed(manager.read)' = Listed(manager.read)
    BY <1>1, <1>4 DEF Listed
  <2> QED
    BY <1>5, <1>7, <2>1 DEF NeverMissing
<1>11. Stamps'
  BY <1>1, <1>4 DEF InventoryInv, Stamps, LogTellsNothing, Last
<1> QED
  BY <1>8, <1>9, <1>10, <1>11 DEF InventoryInv

\* The end of a refresh: the time of the success, in memory and in the log.
LEMMA EndKeeps ==
  ASSUME InventoryInv, Stamp \/ LogSuccess
  PROVE  InventoryInv'
<1>1. /\ manager.pc \in {"stamp", "log"} /\ endedAt' = now
      /\ UNCHANGED <<now, source, table, spent, succeeded>>
  BY DEF Stamp, LogSuccess
<1>2. /\ manager \in ManagerRecord /\ now \in Nat /\ endedAt \in Nat \cup {Never}
      /\ last \in Nat \cup {Never} /\ refreshLog \in Seq(RefreshRecord)
      /\ last <= endedAt /\ endedAt <= now /\ endedAt \in Int /\ last \in Int
  BY DEF InventoryInv, InventoryTypes, Stamps, Never
<1>3. \A i \in DOMAIN refreshLog : refreshLog[i].success => refreshLog[i].at <= now
  <2>1. \A i \in DOMAIN refreshLog : refreshLog[i].at \in Nat
    <3>1. \A i \in DOMAIN refreshLog : refreshLog[i] \in RefreshRecord
      BY <1>2
    <3> QED
      BY <3>1 DEF RefreshRecord
  <2> QED
    BY <1>2, <2>1 DEF InventoryInv, Stamps
<1>4. CASE Stamp
  <2>1. /\ last' = now /\ manager' = [manager EXCEPT !.pc = "log"]
        /\ refreshLog' = refreshLog /\ manager.pc = "stamp"
    BY <1>4 DEF Stamp
  <2>2. /\ manager' \in ManagerRecord /\ manager'.pc = "log" /\ manager'.read = manager.read
    BY <1>2, <2>1 DEF ManagerRecord
  <2>3. InventoryTypes'
    BY <1>1, <1>2, <2>1, <2>2 DEF InventoryInv, InventoryTypes
  <2>4. Importing'
    BY <1>1, <2>2 DEF InventoryInv, Importing
  <2>5. NeverMissing'
    BY <1>1, <2>1, <2>2 DEF InventoryInv, NeverMissing, InTable, Listed
  <2>6. Stamps'
    BY <1>1, <1>2, <1>3, <2>1 DEF Stamps, Never
  <2> QED
    BY <2>3, <2>4, <2>5, <2>6 DEF InventoryInv
<1>5. CASE LogSuccess
  <2>1. /\ last' = last /\ manager' = Idle
        /\ refreshLog' = Append(refreshLog, [at |-> now, success |-> TRUE])
    BY <1>5 DEF LogSuccess, LogRow
  <2>2. Idle \in ManagerRecord /\ Idle.pc = "idle"
    BY EmptySeq DEF Idle, ManagerRecord
  <2>3. [at |-> now, success |-> TRUE] \in RefreshRecord
    BY <1>2 DEF RefreshRecord
  <2>4. /\ refreshLog' \in Seq(RefreshRecord)
        /\ Len(refreshLog) \in Nat /\ DOMAIN refreshLog = 1 .. Len(refreshLog)
        /\ DOMAIN refreshLog' = 1 .. Len(refreshLog) + 1
        /\ \A i \in 1 .. Len(refreshLog) : refreshLog'[i] = refreshLog[i]
        /\ refreshLog'[Len(refreshLog) + 1] = [at |-> now, success |-> TRUE]
    BY <1>2, <2>1, <2>3
  <2>5. InventoryTypes'
    BY <1>1, <1>2, <2>1, <2>2, <2>4 DEF InventoryInv, InventoryTypes
  <2>6. Importing'
    BY <1>1, <2>1, <2>2 DEF InventoryInv, Importing
  <2>7. NeverMissing'
    BY <1>1, <2>1, <2>2 DEF InventoryInv, NeverMissing, InTable, Listed
  <2>8. refreshLog'[Len(refreshLog) + 1].at = now
    BY <2>4
  <2>9. \A i \in DOMAIN refreshLog' : refreshLog'[i].success => refreshLog'[i].at <= now
    BY <1>2, <1>3, <2>4, <2>8
  <2>10. last' <= endedAt' /\ endedAt' <= now'
    BY <1>1, <1>2, <2>1
  <2>11. last' # Never
    <3>1. manager.pc = "log"
      BY <1>5 DEF LogSuccess
    <3> QED
      BY <2>1, <3>1 DEF InventoryInv, Stamps
  <2>12. Stamps'
    BY <1>1, <2>9, <2>10, <2>11 DEF Stamps
  <2> QED
    BY <2>5, <2>6, <2>7, <2>12 DEF InventoryInv
<1> QED
  BY <1>4, <1>5

LEMMA FromTheLog ==
  ASSUME InventoryInv, refreshLog # <<>>
  PROVE  \/ FromLog = Never /\ LogTellsNothing
         \/ \E i \in DOMAIN refreshLog :
              refreshLog[i].success /\ FromLog = refreshLog[i].at
<1>1. Len(refreshLog) \in DOMAIN refreshLog
  BY DEF InventoryInv, InventoryTypes
<1> QED
  BY <1>1 DEF FromLog, Last, LogTellsNothing

LEMMA InventoryInductive ==
  ASSUME InventoryInv, [InventoryNext]_<<now, inventoryVars>>
  PROVE  InventoryInv'
<1>0. /\ now \in Nat /\ source \in Seq(Raw)
      /\ spent \in [refreshes : Nat, restarts : Nat, faults : Nat]
  BY DEF InventoryInv, InventoryTypes
<1>1. CASE UNCHANGED <<now, inventoryVars>>
  BY <1>0, <1>1, ManagerRests DEF inventoryVars
<1>2. CASE InventoryTick
  BY <1>0, <1>2, ManagerRests DEF InventoryTick, Passes, inventoryVars
<1>3. CASE SourceChanges
  BY <1>0, <1>3, ManagerRests, InventoryAssumption DEF SourceChanges
<1>4. CASE Begin
  BY <1>4, BeginKeeps
<1>5. ASSUME Fault
      PROVE  /\ spent' \in [refreshes : Nat, restarts : Nat, faults : Nat]
             /\ spent'.refreshes = spent.refreshes
  BY <1>0, <1>5 DEF Fault
<1>6. CASE Unreachable
  <2>1. /\ Fault /\ manager' = manager
        /\ refreshLog' = refreshLog
             \/ refreshLog' = Append(refreshLog, [at |-> now, success |-> FALSE])
        /\ UNCHANGED <<now, source, table, last, succeeded, endedAt>>
    BY <1>6 DEF Unreachable, LogRow
  <2> QED
    BY <1>0, <1>5, <2>1, ManagerRests
<1>7. CASE ImportEntry
  BY <1>7, ImportKeeps
<1>8. CASE RemoveStale
  BY <1>8, RemoveKeeps
<1>9. CASE Stamp \/ LogSuccess
  BY <1>9, EndKeeps
<1>10. CASE StorageFails
  <2>1. Fault /\ manager' = Idle
        /\ UNCHANGED <<now, source, table, refreshLog, last, succeeded, endedAt>>
    BY <1>10 DEF StorageFails
  <2> QED
    BY <1>0, <1>5, <2>1, ManagerRests
<1>11. CASE Restart
  <2>1. /\ manager' = Idle
        /\ UNCHANGED <<now, source, table, refreshLog, succeeded, endedAt>>
        /\ refreshLog = <<>> => last' = Never
        /\ refreshLog # <<>> => last' = FromLog
    BY <1>11 DEF Restart
  <2>2. \/ last' = Never /\ LogTellsNothing
        \/ \E i \in DOMAIN refreshLog :
             refreshLog[i].success /\ last' = refreshLog[i].at
    BY <2>1, FromTheLog DEF LogTellsNothing
  <2>3. /\ spent' \in [refreshes : Nat, restarts : Nat, faults : Nat]
        /\ spent'.refreshes = spent.refreshes
    BY <1>0, <1>11 DEF Restart
  <2> QED
    <3>1. \A i \in DOMAIN refreshLog : refreshLog[i].at # Never
      <4>1. \A i \in DOMAIN refreshLog : refreshLog[i] \in RefreshRecord
        BY DEF InventoryInv, InventoryTypes
      <4> QED
        BY <4>1 DEF RefreshRecord, Never
    <3>2. last' = Never => LogTellsNothing
      BY <2>2, <3>1
    <3> QED
      BY <1>0, <2>1, <2>2, <2>3, <3>2, ManagerRests
<1> QED
  BY <1>1, <1>2, <1>3, <1>4, <1>6, <1>7, <1>8, <1>9, <1>10, <1>11 DEF InventoryNext

\* num_minutes: the whole parts and one more exceed the age.
LEMMA WholeParts ==
  ASSUME NEW age \in Nat, NEW part \in Nat \ {0}
  PROVE  age \div part \in Nat /\ age < (age \div part + 1) * part
  OBVIOUS

LEMMA ProductsGrow ==
  ASSUME NEW a \in Nat, NEW b \in Nat, a <= b, NEW c \in Nat
  PROVE  (a + 1) * c <= (b + 1) * c
  OBVIOUS

\* InventoryManager::refresh: a known certificate is never missing from the inventory
\* while a refresh is going on or has failed, for any lists and any faults.
THEOREM KnownStay == InventorySpec => []NeverMissing
<1>1. InventoryInit => InventoryInv
  BY InventoryInitially
<1>2. InventoryInv /\ [InventoryNext]_<<now, inventoryVars>> => InventoryInv'
  BY InventoryInductive
<1>3. InventoryInv => NeverMissing
  BY DEF InventoryInv
<1> QED
  BY <1>1, <1>2, <1>3, PTL DEF InventorySpec

\* is_stale: what is not called stale was refreshed within the limit, whatever failed
\* and however often the daemon was restarted since, or the manager knows of no success
\* and the log does not tell of one.
THEOREM FreshWasRefreshed == InventorySpec => []FreshIsRecent
<1>1. InventoryInit => InventoryInv
  BY InventoryInitially
<1>2. InventoryInv /\ [InventoryNext]_<<now, inventoryVars>> => InventoryInv'
  BY InventoryInductive
<1>3. InventoryInv => FreshIsRecent
  <2> SUFFICES ASSUME InventoryInv, ~IsStale, last # Never
               PROVE  endedAt # Never /\ now - endedAt < (StaleMinutes + 1) * Minute
    BY DEF FreshIsRecent, InventoryInv, Stamps, LogTellsNothing
  <2>1. /\ now \in Nat /\ last \in Nat /\ endedAt \in Nat /\ last <= endedAt
        /\ endedAt <= now /\ endedAt # Never
    BY DEF InventoryInv, InventoryTypes, Stamps, Never
  <2>2. Minute \in Nat \ {0} /\ StaleMinutes \in Nat
    BY InventoryAssumption
  <2> DEFINE age == now - last
             whole == age \div Minute
  <2>3. age \in Nat /\ ~(whole > StaleMinutes) /\ now - endedAt <= age
    BY <2>1 DEF IsStale
  <2> HIDE DEF age
  <2>4. whole \in Nat /\ age < (whole + 1) * Minute
    BY <2>2, <2>3, WholeParts
  <2> HIDE DEF whole
  <2>5. (whole + 1) * Minute <= (StaleMinutes + 1) * Minute
    BY <2>2, <2>3, <2>4, ProductsGrow
  <2> QED
    BY <2>1, <2>2, <2>3, <2>4, <2>5
<1> QED
  BY <1>1, <1>2, <1>3, PTL DEF InventorySpec

-----------------------------------------------------------------------------
(* Storage *)

Moved == Final \cup Updates
Statuses == {"pending"} \cup Moved

DirectiveRecord ==
  [row : {TRUE}, cert : Certs, status : Statuses, severity : Severities,
   attempts : Nat, executed_at : Int]

Directives == [Ids -> {None} \cup DirectiveRecord]

\* A call in the queue, as far as directives go: it names one that may be there, and
\* inserts one under its own number.
InOrder(c) ==
  /\ c[1] \in Nat /\ c[1] < count
  /\ c[2].op = "insert_action_directive" =>
       c[2].id = c[1] /\ c[1] \in Ids /\ c[2].cert \in Certs /\ c[2].severity \in Severities
  /\ c[2].op = "update_directive_status" => c[2].id \in Ids /\ c[2].status \in Moved
  /\ c[2].op = "mark_directive_failed" => c[2].id \in Ids /\ c[2].attempts \in Nat
  /\ c[2].op = "delete_action_directive" => c[2].id \in Ids

\* The insertion of a directive has yet to be executed.
Awaited(d) == \E c \in queue : c[2].op = "insert_action_directive" /\ c[2].id = d

\* A page on its way through the statements of the dashboard.
Underway ==
  page.pc \in {"pending", "recent", "shown"} =>
    /\ page = [pc |-> page.pc, certificates |-> page.certificates, known |-> page.known,
               unlisted |-> page.unlisted, pending |-> page.pending,
               recent |-> page.recent, whole |-> page.whole]
    /\ page.known \subseteq Ids /\ page.whole \in BOOLEAN
    /\ \A d \in page.known : d < count /\ ~Awaited(d)

\* What is pending, or has been counted since, or moved on to a final status or to one
\* the dashboard does not ask for.
Followed ==
  page.pc \in {"pending", "recent"} =>
    \A d \in (page.known \cap Rows(db.directives)) \ page.unlisted :
      \/ db.directives[d].status \in Final
      \/ page.pc = "pending" /\ db.directives[d].status = "pending"
      \/ page.pc = "recent" /\ (d \in page.pending \/ ~page.whole)

StorageInv ==
  /\ now \in Nat /\ count \in Nat
  /\ db.directives \in Directives
  /\ \A c \in queue : InOrder(c)
  /\ \A d \in Ids : d \in Rows(db.directives) => d < count /\ ~Awaited(d)
  /\ \A b, c \in queue : b[1] = c[1] => b = c
  /\ Underway /\ Followed /\ DashboardMissesNothing

-----------------------------------------------------------------------------

LEMMA DirectiveFields ==
  ASSUME NEW r \in {None} \cup DirectiveRecord
  PROVE  /\ r.row \in BOOLEAN
         /\ r.row => r \in DirectiveRecord /\ r.status \in Statuses
<1>1. CASE r = None
  BY <1>1 DEF None
<1>2. CASE r \in DirectiveRecord
  <2>1. r.row \in {TRUE} /\ r.status \in Statuses
    BY <1>2 DEF DirectiveRecord
  <2>2. r.row = TRUE
    BY <2>1
  <2> QED
    BY <1>2, <2>1, <2>2
<1> QED
  BY <1>1, <1>2

LEMMA RecordMovesOn ==
  ASSUME NEW r \in DirectiveRecord, NEW status \in Moved, NEW n \in Nat, now \in Nat
  PROVE  /\ [r EXCEPT !.status = status, !.executed_at = now] \in DirectiveRecord
         /\ [r EXCEPT !.status = status, !.executed_at = now].status = status
         /\ [r EXCEPT !.status = status, !.attempts = n, !.executed_at = now] \in DirectiveRecord
         /\ [r EXCEPT !.status = status, !.attempts = n, !.executed_at = now].status = status
<1>1. now \in Int
  OBVIOUS
<1>2. r = [row |-> r.row, cert |-> r.cert, status |-> r.status, severity |-> r.severity,
           attempts |-> r.attempts, executed_at |-> r.executed_at]
      /\ r.row \in {TRUE} /\ r.cert \in Certs /\ r.severity \in Severities
      /\ r.attempts \in Nat /\ r.executed_at \in Int
  BY DEF DirectiveRecord
<1> QED
  BY <1>1, <1>2 DEF DirectiveRecord, Statuses

\* The statements change a directive in one place, and never make it pending again.
LEMMA DirectivesStep ==
  ASSUME db.directives \in Directives, now \in Nat, NEW c, InOrder(c)
  PROVE  /\ DirectivesAfter(c[2]) \in Directives
         /\ \A d \in Ids : DirectivesAfter(c[2])[d].row =>
              \/ /\ db.directives[d].row
                 /\ DirectivesAfter(c[2])[d].status \in {db.directives[d].status} \cup Moved
              \/ c[2].op = "insert_action_directive" /\ c[2].id = d
<1> DEFINE s == c[2]
           t == db.directives
           After == DirectivesAfter(s)
           Goal == /\ After \in Directives
                   /\ \A d \in Ids : After[d].row =>
                        \/ t[d].row /\ After[d].status \in {t[d].status} \cup Moved
                        \/ s.op = "insert_action_directive" /\ s.id = d
<1>0. t \in Directives /\ \A d \in Ids : t[d] \in {None} \cup DirectiveRecord
  BY DEF Directives
<1>1. CASE After = t
  BY <1>0, <1>1
<1>2. ASSUME NEW d \in Ids, NEW r \in {None} \cup DirectiveRecord,
             After = [t EXCEPT ![d] = r],
             r.row => \/ t[d].row /\ r.status \in Moved
                      \/ s.op = "insert_action_directive" /\ s.id = d
      PROVE  Goal
  <2> HIDE DEF After, s, t
  <2>1. After \in Directives /\ After[d] = r /\ \A k \in Ids \ {d} : After[k] = t[k]
    BY <1>0, <1>2 DEF Directives
  <2> QED
    BY <1>2, <2>1
<1>3. CASE s.op = "insert_action_directive"
  <2>1. s.id \in Ids /\ After = [t EXCEPT ![s.id] = Inserted(s)]
    BY <1>3 DEF InOrder, DirectivesAfter
  <2>2. Inserted(s) \in DirectiveRecord
    BY <1>3 DEF InOrder, Inserted, DirectiveRecord, Statuses
  <2> QED
    BY <1>2, <1>3, <2>1, <2>2
<1>4. CASE s.op = "update_directive_status" /\ t[s.id].row
  <2> DEFINE r == [t[s.id] EXCEPT !.status = s.status, !.executed_at = now]
  <2>1. s.id \in Ids /\ s.status \in Moved
    BY <1>4 DEF InOrder
  <2>2. After = [t EXCEPT ![s.id] = r]
    BY <1>4 DEF DirectivesAfter
  <2>3. r \in DirectiveRecord /\ r.status \in Moved
    <3>1. t[s.id] \in DirectiveRecord
      BY <1>0, <1>4, <2>1, DirectiveFields
    <3> QED
      BY <2>1, <3>1, RecordMovesOn
  <2> HIDE DEF r
  <2> QED
    BY <1>2, <1>4, <2>1, <2>2, <2>3
<1>5. CASE s.op = "mark_directive_failed" /\ t[s.id].row
  <2> DEFINE r == [t[s.id] EXCEPT !.status = "failed", !.attempts = s.attempts,
                                  !.executed_at = now]
  <2>1. s.id \in Ids /\ s.attempts \in Nat
    BY <1>5, SMTT(30) DEF InOrder
  <2>2. After = [t EXCEPT ![s.id] = r]
    BY <1>5 DEF DirectivesAfter
  <2>3. r \in DirectiveRecord /\ r.status \in Moved
    <3>1. t[s.id] \in DirectiveRecord
      BY <1>0, <1>5, <2>1, DirectiveFields
    <3>2. "failed" \in Moved
      BY DEF Moved, Final
    <3> QED
      BY <2>1, <3>1, <3>2, RecordMovesOn
  <2> HIDE DEF r
  <2> QED
    BY <1>2, <1>5, <2>1, <2>2, <2>3
<1>6. CASE s.op = "delete_action_directive"
  <2>1. s.id \in Ids /\ After = [t EXCEPT ![s.id] = None] /\ ~None.row
    BY <1>6, SMTT(30) DEF InOrder, DirectivesAfter, None
  <2> QED
    BY <1>2, <2>1
<1>7. \/ s.op = "insert_action_directive"
      \/ s.op = "update_directive_status" /\ t[s.id].row
      \/ s.op = "mark_directive_failed" /\ t[s.id].row
      \/ s.op = "delete_action_directive"
      \/ After = t
  BY DEF DirectivesAfter
<1> QED
  BY <1>1, <1>3, <1>4, <1>5, <1>6, <1>7

\* A statement names a directive that was inserted before, or inserts the next one.
LEMMA StatementFields ==
  ASSUME NEW s \in Statements(now), count \in Nat, count < MaxCalls, MaxCalls \in Nat
  PROVE  /\ s.op = "insert_action_directive" =>
              s.id = count /\ s.cert \in Certs /\ s.severity \in Severities
         /\ s.op = "update_directive_status" => s.id \in Ids /\ s.status \in Moved
         /\ s.op = "mark_directive_failed" => s.id \in Ids /\ s.attempts \in Nat
         /\ s.op = "delete_action_directive" => s.id \in Ids
<1>1. 0 .. count - 1 \subseteq Ids /\ 3 \in Nat
  BY DEF Ids
<1>2. CASE s \in [op : {"insert_action_directive"}, id : {count}, cert : Certs,
                  severity : Severities]
  BY <1>2
<1>3. CASE s \in [op : {"update_directive_status"}, id : 0 .. count - 1, status : Updates]
  BY <1>1, <1>3 DEF Moved
<1>4. CASE s \in [op : {"mark_directive_failed"}, id : 0 .. count - 1, attempts : {3}]
  BY <1>1, <1>4
<1>5. CASE s \in [op : {"delete_action_directive"}, id : 0 .. count - 1]
  BY <1>1, <1>5
<1>6. CASE s.op \notin {"insert_action_directive", "update_directive_status",
                        "mark_directive_failed", "delete_action_directive"}
  BY <1>6
<1>7. \/ s.op \notin {"insert_action_directive", "update_directive_status",
                      "mark_directive_failed", "delete_action_directive"}
      \/ s \in [op : {"insert_action_directive"}, id : {count}, cert : Certs,
                severity : Severities]
      \/ s \in [op : {"update_directive_status"}, id : 0 .. count - 1, status : Updates]
      \/ s \in [op : {"mark_directive_failed"}, id : 0 .. count - 1, attempts : {3}]
      \/ s \in [op : {"delete_action_directive"}, id : 0 .. count - 1]
  BY DEF Statements
<1> QED
  BY <1>2, <1>3, <1>4, <1>5, <1>6, <1>7

\* A list of the First holds every row unless it is full.
LEMMA FirstAreAll ==
  ASSUME NEW times, IsFiniteSet(DOMAIN times), NEW top \in First(times), Limit \in Nat
  PROVE  top \subseteq DOMAIN times /\ (Cardinality(top) = Limit \/ top = DOMAIN times)
<1>1. top \subseteq DOMAIN times
      /\ Cardinality(top) = IF Cardinality(DOMAIN times) < Limit
                            THEN Cardinality(DOMAIN times) ELSE Limit
  BY DEF First
<1>2. Cardinality(top) = Cardinality(DOMAIN times) => top = DOMAIN times
  BY <1>1, FS_Subset
<1> QED
  BY <1>1, <1>2

LEMMA RecentMissesNothing ==
  ASSUME StorageAssumption, db.directives \in Directives, NEW list \in Recent
  PROVE  Cardinality(list) = Limit \/ list = WithStatus(Final)
<1> DEFINE times == [d \in WithStatus(Final) |-> db.directives[d].executed_at]
<1>1. DOMAIN times \subseteq Ids
  BY DEF WithStatus, Rows, Directives
<1>2. IsFiniteSet(Ids)
  <2>1. 0 \in Int /\ MaxCalls - 1 \in Int
    BY DEF StorageAssumption
  <2> QED
    BY <2>1, FS_Interval DEF Ids
<1>3. IsFiniteSet(DOMAIN times)
  BY <1>1, <1>2, FS_Subset
<1>4. DOMAIN times = WithStatus(Final)
  OBVIOUS
<1>5. list \in First(times) /\ Limit \in Nat
  BY DEF Recent, StorageAssumption
<1> HIDE DEF times
<1> QED
  BY <1>3, <1>4, <1>5, FirstAreAll

-----------------------------------------------------------------------------

LEMMA StorageInvInit ==
  ASSUME StorageInit
  PROVE  StorageInv
<1>1. now \in Nat /\ count \in Nat /\ queue = {} /\ page.pc = "none"
  BY DEF StorageInit
<1>2. db.directives = [d \in Ids |-> None] /\ ~None.row
  BY DEF StorageInit, None
<1>3. db.directives \in Directives /\ Rows(db.directives) = {}
  BY <1>2 DEF Directives, Rows
<1>4. Underway /\ Followed /\ DashboardMissesNothing
  BY <1>1 DEF Underway, Followed, DashboardMissesNothing
<1> QED
  BY <1>1, <1>3, <1>4 DEF StorageInv

LEMMA SubmitKeeps ==
  ASSUME StorageAssumption, StorageInv, Submit
  PROVE  StorageInv'
<1> USE DEF StorageAssumption
<1>1. PICK s \in Statements(now) :
        /\ count < MaxCalls
        /\ queue' = queue \cup {<<count, s>>}
        /\ count' = count + 1
        /\ UNCHANGED <<now, db, page>>
  BY DEF Submit
<1>2. count \in Nat /\ count' \in Nat /\ now' \in Nat /\ db' = db /\ page' = page
      /\ (db.directives \in Directives)'
  <2>1. count \in Nat /\ now \in Nat /\ db.directives \in Directives
    BY DEF StorageInv
  <2>2. count' = count + 1 /\ now' = now /\ db' = db /\ page' = page
    BY <1>1
  <2>3. (db.directives \in Directives)'
    BY <2>1, <2>2 DEF Directives, Ids, DirectiveRecord, Statuses, Moved, Final, Updates, None
  <2> QED
    BY <2>1, <2>2, <2>3
<1>3. /\ s.op = "insert_action_directive" =>
           s.id = count /\ s.cert \in Certs /\ s.severity \in Severities
      /\ s.op = "update_directive_status" => s.id \in Ids /\ s.status \in Moved
      /\ s.op = "mark_directive_failed" => s.id \in Ids /\ s.attempts \in Nat
      /\ s.op = "delete_action_directive" => s.id \in Ids
  BY <1>1, <1>2, StatementFields
<1>4. \A c \in queue : InOrder(c) /\ c[1] \in Nat /\ c[1] < count
  BY DEF StorageInv, InOrder
<1>5. (\A c \in queue : InOrder(c))'
  <2> SUFFICES ASSUME NEW c \in queue' PROVE InOrder(c)'
    OBVIOUS
  <2>1. CASE c \in queue
    BY <1>1, <1>2, <1>4, <2>1 DEF InOrder
  <2>2. CASE c = <<count, s>>
    <3>1. c[1] = count /\ c[2] = s /\ count \in Ids /\ count < count'
      BY <1>1, <1>2, <2>2 DEF Ids
    <3> QED
      BY <1>2, <1>3, <3>1 DEF InOrder
  <2> QED
    BY <1>1, <2>1, <2>2
<1>6. \A d \in Ids : d < count /\ ~Awaited(d) => (d < count /\ ~Awaited(d))'
  <2> SUFFICES ASSUME NEW d \in Ids, d < count, ~Awaited(d), Awaited(d)' PROVE FALSE
    BY <1>1, <1>2 DEF Ids
  <2>1. PICK c \in queue' : c[2].op = "insert_action_directive" /\ c[2].id = d
    BY DEF Awaited
  <2>2. c = <<count, s>>
    BY <1>1, <2>1 DEF Awaited
  <2> QED
    BY <1>2, <1>3, <2>1, <2>2 DEF Ids
<1>7. (\A d \in Ids : d \in Rows(db.directives) => d < count /\ ~Awaited(d))'
  BY <1>2, <1>6 DEF StorageInv, Rows, Ids
<1>8. (\A b, c \in queue : b[1] = c[1] => b = c)'
  BY <1>1, <1>2, <1>4 DEF StorageInv
<1>9. Underway'
  BY <1>2, <1>6 DEF StorageInv, Underway, Ids
<1>10. Followed' /\ DashboardMissesNothing'
  BY <1>2 DEF StorageInv, Followed, DashboardMissesNothing, Rows, Final
<1> QED
  BY <1>2, <1>5, <1>7, <1>8, <1>9, <1>10 DEF StorageInv

LEMMA ExecuteKeeps ==
  ASSUME StorageInv, Execute
  PROVE  StorageInv'
<1>1. PICK c \in queue :
        /\ queue' = queue \ {c}
        /\ db' = IF ForeignKeysHold(Effect(c[2])) THEN Effect(c[2]) ELSE db
        /\ page' = IF page.pc \in {"pending", "recent"}
                   THEN [page EXCEPT !.unlisted = page.unlisted \cup Unlisted(db'.directives)]
                   ELSE page
        /\ UNCHANGED <<now, count>>
  BY DEF Execute
<1>2. /\ count \in Nat /\ now \in Nat /\ count' = count /\ now' = now
      /\ db.directives \in Directives /\ InOrder(c)
  BY <1>1 DEF StorageInv
<1>3. db'.directives = DirectivesAfter(c[2]) \/ db'.directives = db.directives
  BY <1>1 DEF Effect
<1>4. /\ db'.directives \in Directives
      /\ \A d \in Ids : db'.directives[d].row =>
           \/ /\ db.directives[d].row
              /\ db'.directives[d].status \in {db.directives[d].status} \cup Moved
           \/ c[2].op = "insert_action_directive" /\ c[2].id = d
  BY <1>2, <1>3, DirectivesStep
<1>5. DOMAIN db.directives = Ids /\ DOMAIN db'.directives = Ids
  BY <1>2, <1>4 DEF Directives
<1>6. (\A b \in queue : InOrder(b))'
  BY <1>1, <1>2 DEF StorageInv, InOrder, Ids, Moved, Final, Updates
<1>7. \A d \in Ids : ~Awaited(d) =>
        ~Awaited(d)' /\ ~(c[2].op = "insert_action_directive" /\ c[2].id = d)
  BY <1>1 DEF Awaited
<1>8. (\A d \in Ids : d \in Rows(db.directives) => d < count /\ ~Awaited(d))'
  <2> SUFFICES ASSUME NEW d \in Ids, db'.directives[d].row PROVE d < count /\ ~Awaited(d)'
    BY <1>2, <1>5 DEF Rows, Ids
  <2>1. CASE db.directives[d].row
    BY <1>5, <1>7, <2>1 DEF StorageInv, Rows
  <2>2. CASE c[2].op = "insert_action_directive" /\ c[2].id = d
    <3>1. c[1] = d /\ d < count
      BY <1>2, <2>2 DEF InOrder
    <3>2. ASSUME NEW b \in queue', b[2].op = "insert_action_directive", b[2].id = d
          PROVE  FALSE
      BY <1>1, <3>1, <3>2 DEF StorageInv, InOrder
    <3> QED
      BY <3>1, <3>2 DEF Awaited
  <2> QED
    BY <1>4, <2>1, <2>2
<1>9. (\A a, b \in queue : a[1] = b[1] => a = b)'
  BY <1>1 DEF StorageInv
<1>a. \/ page' = page /\ page.pc \notin {"pending", "recent"}
      \/ /\ page.pc \in {"pending", "recent"}
         /\ page' = [pc |-> page.pc, certificates |-> page.certificates,
                     known |-> page.known,
                     unlisted |-> page.unlisted \cup Unlisted(db'.directives),
                     pending |-> page.pending, recent |-> page.recent,
                     whole |-> page.whole]
  BY <1>1 DEF StorageInv, Underway
<1>10. Underway'
  BY <1>2, <1>7, <1>a DEF StorageInv, Underway, Ids
<1>11. ASSUME page.pc \in {"pending", "recent", "shown"},
              NEW d \in page.known \cap Rows(db'.directives)
       PROVE  d \in Rows(db.directives)
              /\ db'.directives[d].status \in {db.directives[d].status} \cup Moved
  <2>1. d \in Ids /\ ~Awaited(d)
    BY <1>11 DEF StorageInv, Underway
  <2>2. db'.directives[d].row
    BY <1>11 DEF Rows
  <2> QED
    BY <1>4, <1>5, <1>7, <2>1, <2>2 DEF Rows
<1>12. Followed'
  <2> SUFFICES ASSUME page.pc \in {"pending", "recent"},
                      NEW d \in page.known \cap Rows(db'.directives),
                      d \notin page.unlisted, d \notin Unlisted(db'.directives)
               PROVE  \/ db'.directives[d].status \in Final
                      \/ page.pc = "pending" /\ db'.directives[d].status = "pending"
                      \/ page.pc = "recent" /\ (d \in page.pending \/ ~page.whole)
    BY <1>a DEF Followed
  <2>1. /\ d \in Rows(db.directives)
        /\ db'.directives[d].status \in {db.directives[d].status} \cup Moved
        /\ db'.directives[d].status \in {"pending"} \cup Final
    BY <1>11 DEF Unlisted
  <2>2. "pending" \notin Moved
    BY DEF Moved, Final, Updates
  <2>3. \/ db.directives[d].status \in Final
        \/ page.pc = "pending" /\ db.directives[d].status = "pending"
        \/ page.pc = "recent" /\ (d \in page.pending \/ ~page.whole)
    BY <2>1 DEF StorageInv, Followed
  <2>4. "pending" \notin Final
    BY DEF Final
  <2> QED
    BY <2>1, <2>2, <2>3, <2>4
<1>13. DashboardMissesNothing'
  BY <1>11, <1>a DEF StorageInv, DashboardMissesNothing
<1> QED
  <2>1. (now \in Nat /\ count \in Nat /\ db.directives \in Directives)'
    BY <1>2, <1>4 DEF Directives, Ids, DirectiveRecord, Statuses, Moved, Final, Updates, None
  <2> QED
    BY <1>6, <1>8, <1>9, <1>10, <1>12, <1>13, <2>1 DEF StorageInv

\* What holds of the tables and the calls when only a page goes on.
LEMMA TablesStay ==
  ASSUME StorageInv, UNCHANGED <<db, queue, count>>, now' \in Nat
  PROVE  /\ (now \in Nat /\ count \in Nat /\ db.directives \in Directives)'
         /\ (\A c \in queue : InOrder(c))'
         /\ (\A d \in Ids : d \in Rows(db.directives) => d < count /\ ~Awaited(d))'
         /\ (\A b, c \in queue : b[1] = c[1] => b = c)'
         /\ \A d : Awaited(d)' = Awaited(d)
<1>1. (now \in Nat /\ count \in Nat /\ db.directives \in Directives)'
  BY DEF StorageInv, Directives, Ids, DirectiveRecord, Statuses, Moved, Final, Updates, None
<1>2. \A d : Awaited(d)' = Awaited(d)
  BY DEF Awaited
<1>3. (\A c \in queue : InOrder(c))'
  BY DEF StorageInv, InOrder, Ids, Moved, Final, Updates
<1>4. (\A d \in Ids : d \in Rows(db.directives) => d < count /\ ~Awaited(d))'
  BY <1>2 DEF StorageInv, Rows, Ids
<1>5. (\A b, c \in queue : b[1] = c[1] => b = c)'
  BY DEF StorageInv
<1> QED
  BY <1>1, <1>2, <1>3, <1>4, <1>5

LEMMA PageKeeps ==
  ASSUME StorageAssumption, StorageInv, UNCHANGED <<db, queue, count>>, now' \in Nat,
         ListPage \/ Dashboard \/ CountPending \/ ListRecent \/ Rendered \/ UNCHANGED page
  PROVE  StorageInv'
<1> DEFINE Pages == Underway /\ Followed /\ DashboardMissesNothing
<1>0. SUFFICES Pages'
  BY TablesStay DEF StorageInv
<1>a. \A d : Awaited(d)' = Awaited(d)
  BY TablesStay
<1>b. db.directives \in Directives /\ DOMAIN db.directives = Ids
      /\ \A d \in Ids : db.directives[d] \in {None} \cup DirectiveRecord
  BY DEF StorageInv, Directives
<1>1. CASE page'.pc \notin {"pending", "recent", "shown"}
  BY <1>1 DEF Underway, Followed, DashboardMissesNothing
<1>2. CASE UNCHANGED page
  BY <1>2, <1>a DEF StorageInv, Underway, Followed, DashboardMissesNothing, Rows,
                    Ids, Final
<1>3. CASE ListPage \/ Rendered
  BY <1>1, <1>3 DEF ListPage, Rendered
<1>4. CASE Dashboard
  <2>1. page' = [pc |-> "pending", certificates |-> Cardinality(Rows(db.certificates)),
                 known |-> Rows(db.directives), unlisted |-> Unlisted(db.directives),
                 pending |-> {}, recent |-> {}, whole |-> TRUE]
    BY <1>4 DEF Dashboard
  <2>2. \A d \in Rows(db.directives) : d \in Ids /\ d < count /\ ~Awaited(d)
    BY <1>b DEF StorageInv, Rows
  <2> QED
    BY <1>a, <2>1, <2>2 DEF Underway, Followed, DashboardMissesNothing, Unlisted, Rows,
                            Final, Ids
<1>5. CASE CountPending
  <2>1. page.pc = "pending" /\ Underway
    BY <1>5 DEF CountPending, StorageInv
  <2>2. \/ page' = [page EXCEPT !.pc = "recent", !.pending = WithStatus({"pending"})]
        \/ page' = [page EXCEPT !.pc = "recent", !.whole = FALSE]
    BY <1>5 DEF CountPending, Then
  <2>3. /\ page' = [pc |-> "recent", certificates |-> page.certificates,
                    known |-> page.known, unlisted |-> page.unlisted,
                    pending |-> page'.pending, recent |-> page.recent,
                    whole |-> page'.whole]
        /\ page'.whole \in BOOLEAN
        /\ page'.whole => page'.pending = WithStatus({"pending"})
    BY <2>1, <2>2 DEF Underway
  <2>4. \A d \in (page.known \cap Rows(db.directives)) \ page.unlisted :
          d \in WithStatus({"pending"}) \/ db.directives[d].status \in Final
    BY <2>1 DEF StorageInv, Followed, WithStatus
  <2>5. Underway'
    BY <1>a, <2>1, <2>3 DEF Underway, Ids
  <2>6. Followed'
    BY <2>3, <2>4 DEF Followed, Rows, Final
  <2>7. DashboardMissesNothing'
    BY <2>3 DEF DashboardMissesNothing
  <2> QED
    BY <2>5, <2>6, <2>7
<1>6. CASE ListRecent
  <2>1. page.pc = "recent" /\ Underway /\ Followed
    BY <1>6 DEF ListRecent, StorageInv
  <2>2. \/ page' = [page EXCEPT !.pc = "shown", !.whole = FALSE]
        \/ \E list \in Recent : page' = [page EXCEPT !.pc = "shown", !.recent = list]
    BY <1>6 DEF ListRecent, Then
  <2>3. PICK list :
        /\ page' = [pc |-> "shown", certificates |-> page.certificates,
                    known |-> page.known, unlisted |-> page.unlisted,
                    pending |-> page.pending, recent |-> list, whole |-> page'.whole]
        /\ page'.whole \in BOOLEAN
        /\ page'.whole => page.whole /\ list \in Recent
    BY <2>1, <2>2 DEF Underway
  <2>4. Underway'
    BY <1>a, <2>1, <2>3 DEF Underway, Ids
  <2>5. Followed'
    BY <2>3 DEF Followed
  <2>6. page'.whole => Cardinality(list) = Limit \/ list = WithStatus(Final)
    BY <1>b, <2>3, RecentMissesNothing
  <2>7. DashboardMissesNothing'
    <3> SUFFICES ASSUME page'.whole,
                        NEW d \in (page.known \cap Rows(db.directives)) \ page.unlisted
                 PROVE  d \in page.pending \cup list \/ Cardinality(list) = Limit
      BY <2>3 DEF DashboardMissesNothing, Rows
    <3>1. d \in page.pending \/ d \in WithStatus(Final)
      BY <2>1, <2>3 DEF Followed, WithStatus
    <3> QED
      BY <2>6, <3>1
  <2> QED
    BY <2>4, <2>5, <2>7
<1> QED
  BY <1>2, <1>3, <1>4, <1>5, <1>6

\* Storage: a directive that was there when the dashboard began to be read is counted as
\* pending or listed as recent, unless the list is full, a read failed or the directive
\* had a status the dashboard does not ask for meanwhile, in whatever order the threads
\* of the pool run the statements (storage.rs; web_ui.rs, dashboard_handler).
THEOREM DashboardShowsAll == StorageSpec => []DashboardMissesNothing
<1> USE StorageAssumption
<1>1. StorageInit => StorageInv
  BY StorageInvInit
<1>2. StorageInv /\ [StorageNext]_<<now, storageVars>> => StorageInv'
  <2> SUFFICES ASSUME StorageInv, [StorageNext]_<<now, storageVars>> PROVE StorageInv'
    OBVIOUS
  <2>1. CASE Submit
    BY <2>1, SubmitKeeps
  <2>2. CASE Execute
    BY <2>2, ExecuteKeeps
  <2>3. CASE StorageTick \/ UNCHANGED <<now, storageVars>>
    <3>1. now \in Nat
      BY DEF StorageInv
    <3>2. UNCHANGED <<db, queue, count>> /\ UNCHANGED page /\ now' \in Nat
      BY <2>3, <3>1 DEF StorageTick, Passes, storageVars
    <3> QED
      BY <3>2, PageKeeps
  <2>4. CASE ListPage \/ Dashboard \/ CountPending \/ ListRecent \/ Rendered
    <3>1. now \in Nat
      BY DEF StorageInv
    <3>2. UNCHANGED <<db, queue, count>> /\ now' \in Nat
      BY <2>4, <3>1 DEF ListPage, Dashboard, CountPending, ListRecent, Rendered
    <3> QED
      BY <2>4, <3>2, PageKeeps
  <2> QED
    BY <2>1, <2>2, <2>3, <2>4 DEF StorageNext
<1>3. StorageInv => DashboardMissesNothing
  BY DEF StorageInv
<1> QED
  BY <1>1, <1>2, <1>3, PTL DEF StorageSpec

-----------------------------------------------------------------------------
(* Export *)

\* The stages of record_event before its flush is spawned, and all of them.
Unspawned == {"otlp", "prometheus", "statsd", "spawn"}
Stage == {"idle", "webhooks", "post", "backoff", "mark"} \cup Unspawned

Delivery == [tries : Nat, result : {"none", "ok", "failed"}]

ExportCall ==
  [pc : Stage, metric : Metric, event : 0 .. MaxEvents, endpoint : Endpoints,
   delivery : [Endpoints -> Delivery]]

FlushRecord == [pc : {"none", "load", "send"}, at : 1 .. 2, value : [Metric -> Nat]]

ExportTypes ==
  /\ health \in [Channels -> {"healthy", "degraded", "disabled"}]
  /\ counted \in [Counting -> [Metric -> Nat]]
  /\ call \in [Recorders -> ExportCall]
  /\ flush \in [0 .. MaxEvents -> FlushRecord]
  /\ offered \in [Metric -> Nat]
  /\ events \in 0 .. MaxEvents

Served(d) ==
  \/ d.result = "ok" /\ d.tries > 0
  \/ d.result = "failed" /\ d.tries = RetryMax + 1

\* A dispatch has served the endpoints up to k, and none of the others.
ServedUpTo(c, k) ==
  \A e \in Endpoints : /\ e <= k => Served(c.delivery[e])
                       /\ e > k => c.delivery[e] = NoDelivery

AllServed(c) == \A e \in Endpoints : Served(c.delivery[e])

\* How far a call has come, where h is the health of the channels.
Progress(c, h) ==
  /\ c.pc \in Unspawned \cup {"webhooks"} => c.endpoint = 1 /\ ServedUpTo(c, 0)
  /\ c.pc \in {"post", "backoff"} =>
       /\ h["webhooks"] # "disabled"
       /\ \A e \in Endpoints : /\ e < c.endpoint => Served(c.delivery[e])
                               /\ e > c.endpoint => c.delivery[e] = NoDelivery
       /\ c.delivery[c.endpoint].result = "none" /\ c.delivery[c.endpoint].tries <= RetryMax
  /\ c.pc = "mark" => h["webhooks"] # "disabled" /\ AllServed(c)
  /\ c.pc = "idle" /\ c.event > 0 /\ c.metric \in Dispatched /\ h["webhooks"] # "disabled" =>
       /\ AllServed(c)
       /\ (\E e \in Endpoints : c.delivery[e].result = "failed") => h["webhooks"] = "degraded"

DeliveryInv == ExportTypes /\ \A r \in Recorders : Progress(call[r], health)

-----------------------------------------------------------------------------

LEMMA CallFields ==
  ASSUME NEW c \in ExportCall
  PROVE  /\ c.pc \in Stage /\ c.metric \in Metric /\ c.event \in 0 .. MaxEvents
         /\ c.endpoint \in Endpoints /\ c.delivery \in [Endpoints -> Delivery]
         /\ c = [pc |-> c.pc, metric |-> c.metric, event |-> c.event,
                 endpoint |-> c.endpoint, delivery |-> c.delivery]
BY DEF ExportCall

LEMMA CallBuilt ==
  ASSUME NEW pc \in Stage, NEW metric \in Metric, NEW event \in 0 .. MaxEvents,
         NEW endpoint \in Endpoints, NEW delivery \in [Endpoints -> Delivery]
  PROVE  [pc |-> pc, metric |-> metric, event |-> event, endpoint |-> endpoint,
          delivery |-> delivery] \in ExportCall
BY DEF ExportCall

LEMMA FreshCall ==
  ASSUME ExportAssumption, NEW pc \in Stage, NEW m \in Metric, NEW n \in 0 .. MaxEvents
  PROVE  Fresh(pc, m, n) \in ExportCall /\ ServedUpTo(Fresh(pc, m, n), 0)
<1>1. 1 \in Endpoints /\ \A e \in Endpoints : e > 0 /\ ~(e <= 0)
  BY DEF ExportAssumption, Endpoints
<1>2. NoDelivery \in Delivery
  BY DEF NoDelivery, Delivery
<1>3. [e \in Endpoints |-> NoDelivery] \in [Endpoints -> Delivery]
  BY <1>2
<1>4. Fresh(pc, m, n) \in ExportCall
  BY <1>1, <1>3, CallBuilt DEF Fresh
<1>5. ServedUpTo(Fresh(pc, m, n), 0)
  BY <1>1 DEF Fresh, ServedUpTo
<1> QED
  BY <1>4, <1>5

\* A call that goes from one stage to the next.
LEMMA CallMoves ==
  ASSUME NEW c \in ExportCall, NEW pc \in Stage
  PROVE  LET new == [c EXCEPT !.pc = pc]
         IN  /\ new \in ExportCall /\ new.pc = pc /\ new.metric = c.metric
             /\ new.event = c.event /\ new.endpoint = c.endpoint /\ new.delivery = c.delivery
BY CallFields, CallBuilt

\* A call that goes on with an endpoint.
LEMMA DeliveryChanges ==
  ASSUME NEW c \in ExportCall, NEW d \in Delivery
  PROVE  LET new == [c EXCEPT !.delivery[c.endpoint] = d]
         IN  /\ new \in ExportCall /\ new.pc = c.pc /\ new.metric = c.metric
             /\ new.event = c.event /\ new.endpoint = c.endpoint
             /\ new.delivery[c.endpoint] = d
             /\ \A e \in Endpoints \ {c.endpoint} : new.delivery[e] = c.delivery[e]
<1> DEFINE delivery == [c.delivery EXCEPT ![c.endpoint] = d]
<1>1. c.endpoint \in Endpoints /\ c.delivery \in [Endpoints -> Delivery]
  BY CallFields
<1>2. delivery \in [Endpoints -> Delivery] /\ delivery[c.endpoint] = d
      /\ \A e \in Endpoints \ {c.endpoint} : delivery[e] = c.delivery[e]
  BY <1>1
<1>3. [c EXCEPT !.delivery[c.endpoint] = d] =
        [pc |-> c.pc, metric |-> c.metric, event |-> c.event, endpoint |-> c.endpoint,
         delivery |-> delivery]
  BY CallFields
<1> HIDE DEF delivery
<1> QED
  BY <1>2, <1>3, CallFields, CallBuilt

\* A call whose endpoint was served goes on with the next, or the dispatch is over.
LEMMA EndpointDone ==
  ASSUME ExportAssumption, NEW h, h["webhooks"] # "disabled", NEW c \in ExportCall,
         ServedUpTo(c, c.endpoint)
  PROVE  /\ AfterEndpoint(c) \in ExportCall /\ Progress(AfterEndpoint(c), h)
         /\ AfterEndpoint(c).pc \in {"post", "mark", "idle"}
         /\ AfterEndpoint(c).event = c.event
<1>a. /\ c.endpoint \in Endpoints
      /\ c = [pc |-> c.pc, metric |-> c.metric, event |-> c.event,
              endpoint |-> c.endpoint, delivery |-> c.delivery]
  BY CallFields
<1>b. Endpoints = 1 .. NumEndpoints /\ NumEndpoints \in Nat /\ RetryMax \in Nat
  BY DEF Endpoints, ExportAssumption
<1>0. c.endpoint \in Endpoints /\ Endpoints = 1 .. NumEndpoints /\ NumEndpoints \in Nat
      /\ RetryMax \in Nat /\ NoDelivery.result = "none" /\ NoDelivery.tries = 0
  BY <1>a, <1>b DEF NoDelivery
<1>1. CASE c.endpoint < NumEndpoints
  <2> DEFINE new == [c EXCEPT !.pc = "post", !.endpoint = c.endpoint + 1]
  <2>1. /\ new.pc = "post" /\ new.metric = c.metric /\ new.event = c.event
        /\ new.endpoint = c.endpoint + 1 /\ new.delivery = c.delivery
    BY <1>a
  <2>2. c.endpoint + 1 \in Endpoints /\ "post" \in Stage
    BY <1>0, <1>1 DEF Stage
  <2>3. new \in ExportCall
    BY <2>2 DEF ExportCall
  <2>4. c.delivery[c.endpoint + 1] = NoDelivery
    BY <1>0, <2>2 DEF ServedUpTo
  <2>5. \A e \in Endpoints : /\ e < c.endpoint + 1 => Served(c.delivery[e])
                             /\ e > c.endpoint + 1 => c.delivery[e] = NoDelivery
    BY <1>0 DEF ServedUpTo
  <2>6. AfterEndpoint(c) = new
    BY <1>1 DEF AfterEndpoint
  <2>7. /\ new.pc = "post" /\ new.event = c.event /\ new.endpoint = c.endpoint + 1
        /\ new.delivery = c.delivery
    BY <2>1
  <2> HIDE DEF new
  <2>8. Progress(new, h)
    BY <1>0, <2>4, <2>5, <2>7 DEF Progress, Unspawned
  <2> QED
    BY <2>3, <2>6, <2>7, <2>8
<1>2. CASE ~(c.endpoint < NumEndpoints)
  <2>1. AllServed(c)
    BY <1>0, <1>2 DEF AllServed, ServedUpTo
  <2>2. CASE \E e \in Endpoints : c.delivery[e].result = "failed"
    <3> DEFINE new == [c EXCEPT !.pc = "mark"]
    <3>1. AfterEndpoint(c) = new
      BY <1>2, <2>2 DEF AfterEndpoint
    <3>2. new \in ExportCall /\ new.pc = "mark" /\ new.event = c.event
          /\ new.delivery = c.delivery
      BY CallMoves DEF Stage
    <3> HIDE DEF new
    <3>3. Progress(new, h)
      BY <2>1, <3>2 DEF Progress, AllServed, Unspawned
    <3> QED
      BY <3>1, <3>2, <3>3
  <2>3. CASE ~\E e \in Endpoints : c.delivery[e].result = "failed"
    <3> DEFINE new == [c EXCEPT !.pc = "idle"]
    <3>1. AfterEndpoint(c) = new
      BY <1>2, <2>3 DEF AfterEndpoint
    <3>2. new \in ExportCall /\ new.pc = "idle" /\ new.event = c.event
          /\ new.delivery = c.delivery
      BY CallMoves DEF Stage
    <3> HIDE DEF new
    <3>3. Progress(new, h)
      BY <2>1, <2>3, <3>2 DEF Progress, AllServed, Unspawned
    <3> QED
      BY <3>1, <3>2, <3>3
  <2> QED
    BY <2>2, <2>3
<1> QED
  BY <1>1, <1>2

\* A request that was answered, or failed for the last time.
LEMMA EndpointServed ==
  ASSUME ExportAssumption, NEW h, NEW c \in ExportCall, c.pc = "post", Progress(c, h),
         NEW result \in {"ok", "failed"},
         result = "failed" => LastAttempt(c.delivery[c.endpoint].tries + 1)
  PROVE  LET new == Ended(Tried(c), result)
         IN  new \in ExportCall /\ ServedUpTo(new, new.endpoint) /\ new.event = c.event
<1> DEFINE d == [tries |-> c.delivery[c.endpoint].tries + 1, result |-> result]
           new == [c EXCEPT !.delivery[c.endpoint] = d]
<1>a. /\ c.endpoint \in Endpoints /\ c.delivery \in [Endpoints -> Delivery]
      /\ c = [pc |-> c.pc, metric |-> c.metric, event |-> c.event,
              endpoint |-> c.endpoint, delivery |-> c.delivery]
  BY CallFields
<1>b. (\A e \in Endpoints : e \in Int) /\ RetryMax \in Nat
  BY DEF Endpoints, ExportAssumption
<1>0. /\ c.endpoint \in Endpoints /\ c.delivery \in [Endpoints -> Delivery]
      /\ c.endpoint \in Int /\ RetryMax \in Nat
  BY <1>a, <1>b
<1>1. c.delivery[c.endpoint] \in Delivery
      /\ c.delivery[c.endpoint].tries \in Nat /\ c.delivery[c.endpoint].tries <= RetryMax
  BY <1>0 DEF Delivery, Progress
<1>2. d \in Delivery /\ Served(d)
  BY <1>0, <1>1 DEF Delivery, Served, LastAttempt
<1>3. new = Ended(Tried(c), result)
  <2>1. c.delivery[c.endpoint] = [tries |-> c.delivery[c.endpoint].tries,
                                  result |-> c.delivery[c.endpoint].result]
    BY <1>1 DEF Delivery
  <2>2. Tried(c) = [c EXCEPT !.delivery = [c.delivery EXCEPT ![c.endpoint] =
                      [tries |-> c.delivery[c.endpoint].tries + 1,
                       result |-> c.delivery[c.endpoint].result]]]
    BY <2>1 DEF Tried
  <2>3. Tried(c).endpoint = c.endpoint
    BY <1>a, <2>2
  <2>4. Ended(Tried(c), result) =
          [Tried(c) EXCEPT !.delivery = [Tried(c).delivery EXCEPT ![c.endpoint] =
             [Tried(c).delivery[c.endpoint] EXCEPT !.result = result]]]
    BY <2>3 DEF Ended
  <2>5. Tried(c).delivery = [c.delivery EXCEPT ![c.endpoint] =
                      [tries |-> c.delivery[c.endpoint].tries + 1,
                       result |-> c.delivery[c.endpoint].result]]
    BY <1>a, <2>2
  <2>6. [Tried(c).delivery[c.endpoint] EXCEPT !.result = result] = d
    BY <1>0, <2>5
  <2>7. [Tried(c).delivery EXCEPT ![c.endpoint] = d] = [c.delivery EXCEPT ![c.endpoint] = d]
    BY <1>0, <2>5
  <2> QED
    BY <1>a, <2>2, <2>4, <2>6, <2>7
<1> HIDE DEF d
<1>4. /\ new \in ExportCall /\ new.event = c.event /\ new.endpoint = c.endpoint
      /\ new.delivery[c.endpoint] = d
      /\ \A e \in Endpoints \ {c.endpoint} : new.delivery[e] = c.delivery[e]
  BY <1>2, DeliveryChanges
<1> HIDE DEF new
<1>5. ServedUpTo(new, c.endpoint)
  <2> SUFFICES ASSUME NEW e \in Endpoints
               PROVE  /\ e <= c.endpoint => Served(new.delivery[e])
                      /\ e > c.endpoint => new.delivery[e] = NoDelivery
    BY DEF ServedUpTo
  <2>0. e \in Int /\ c.endpoint \in Int
    BY <1>b, <1>0
  <2>1. CASE e = c.endpoint
    BY <1>2, <1>4, <2>0, <2>1
  <2>2. CASE e # c.endpoint
    <3>1. new.delivery[e] = c.delivery[e]
      BY <1>4, <2>2
    <3> QED
      BY <2>0, <2>2, <3>1 DEF Progress
  <2> QED
    BY <2>1, <2>2
<1> QED
  BY <1>3, <1>4, <1>5

LEMMA ExportInitially ==
  ASSUME ExportAssumption, ExportInit
  PROVE  DeliveryInv
<1>1. health \in [Channels -> {"healthy", "degraded", "disabled"}]
  BY DEF ExportInit
<1>2. counted \in [Counting -> [Metric -> Nat]] /\ offered \in [Metric -> Nat]
      /\ events \in 0 .. MaxEvents
  BY DEF ExportInit, ExportAssumption
<1>3. "idle" \in Stage /\ "discovered" \in Metric /\ 0 \in 0 .. MaxEvents
  BY DEF Stage, Metric, ExportAssumption
<1>4. Fresh("idle", "discovered", 0) \in ExportCall
  BY <1>3, FreshCall
<1>5. call \in [Recorders -> ExportCall]
  BY <1>4 DEF ExportInit
<1>6. NoFlush \in FlushRecord
  BY DEF NoFlush, FlushRecord
<1>7. flush \in [0 .. MaxEvents -> FlushRecord]
  BY <1>6 DEF ExportInit
<1>8. ASSUME NEW r \in Recorders PROVE Progress(call[r], health)
  <2>1. call[r].pc = "idle" /\ call[r].event = 0
    BY DEF ExportInit, Fresh
  <2> QED
    BY <2>1 DEF Progress, Unspawned
<1> QED
  BY <1>1, <1>2, <1>5, <1>7, <1>8 DEF DeliveryInv, ExportTypes

\* One call goes on, and the health stays.
LEMMA CallGoesOn ==
  ASSUME DeliveryInv, NEW r \in Recorders, NEW c \in ExportCall,
         call' = [call EXCEPT ![r] = c], UNCHANGED health, Progress(c, health)
  PROVE  /\ call' \in [Recorders -> ExportCall]
         /\ \A q \in Recorders : Progress(call'[q], health')
<1>1. call \in [Recorders -> ExportCall]
  BY DEF DeliveryInv, ExportTypes
<1>2. call' \in [Recorders -> ExportCall] /\ call'[r] = c
      /\ \A q \in Recorders \ {r} : call'[q] = call[q]
  BY <1>1
<1>3. \A q \in Recorders : Progress(call[q], health)
  BY DEF DeliveryInv
<1> QED
  BY <1>2, <1>3

\* A stage later, with the endpoints as they were.
LEMMA StageOn ==
  ASSUME NEW c \in ExportCall, NEW h, Progress(c, h), NEW pc \in Stage,
         \/ c.pc \in Unspawned /\ pc \in Unspawned \cup {"webhooks"}
         \/ c.pc = "backoff" /\ pc = "post"
  PROVE  [c EXCEPT !.pc = pc] \in ExportCall /\ Progress([c EXCEPT !.pc = pc], h)
<1> DEFINE new == [c EXCEPT !.pc = pc]
<1> SUFFICES new \in ExportCall /\ Progress(new, h)
  OBVIOUS
<1>1. /\ new \in ExportCall /\ new.pc = pc /\ new.metric = c.metric
      /\ new.event = c.event /\ new.endpoint = c.endpoint /\ new.delivery = c.delivery
  BY CallMoves
<1> HIDE DEF new
<1>2. CASE c.pc \in Unspawned /\ pc \in Unspawned \cup {"webhooks"}
  <2>1. new.endpoint = 1 /\ ServedUpTo(new, 0)
    BY <1>1, <1>2 DEF Progress, ServedUpTo
  <2> QED
    BY <1>1, <1>2, <2>1 DEF Progress, Unspawned
<1>3. CASE c.pc = "backoff" /\ pc = "post"
  BY <1>1, <1>3 DEF Progress, Unspawned
<1> QED
  BY <1>1, <1>2, <1>3

\* What a step of record_event makes of its call, but for the last one.
LEMMA RecordSteps ==
  ASSUME ExportAssumption, DeliveryInv, NEW r \in Recorders,
         \/ \E m \in Metric : Record(r, m)
         \/ Count(r) \/ Spawn(r) \/ Webhooks(r)
         \/ PostSucceeds(r) \/ PostFails(r) \/ Backoff(r)
  PROVE  /\ UNCHANGED health
         /\ \E c \in ExportCall : call' = [call EXCEPT ![r] = c] /\ Progress(c, health)
<1> DEFINE c == call[r]
<1>0. c \in ExportCall /\ Progress(c, health)
  BY DEF DeliveryInv, ExportTypes
<1>u. UNCHANGED health
  BY DEF Record, Count, Spawn, Webhooks, PostSucceeds, PostFails, Backoff
<1>1. ASSUME NEW m \in Metric, Record(r, m)
      PROVE  \E new \in ExportCall : call' = [call EXCEPT ![r] = new] /\ Progress(new, health)
  <2> DEFINE new == Fresh("otlp", m, events + 1)
  <2>1. events + 1 \in 0 .. MaxEvents /\ call' = [call EXCEPT ![r] = new]
    BY <1>1 DEF Record, DeliveryInv, ExportTypes, ExportAssumption
  <2>2. "otlp" \in Stage /\ "otlp" \in Unspawned /\ new.pc = "otlp" /\ new.endpoint = 1
    BY DEF Stage, Unspawned, Fresh
  <2>3. new \in ExportCall /\ ServedUpTo(new, 0)
    BY <2>1, <2>2, FreshCall
  <2> HIDE DEF new
  <2>4. Progress(new, health)
    BY <2>2, <2>3 DEF Progress, Unspawned
  <2> QED
    BY <2>1, <2>3, <2>4
<1>2. ASSUME Count(r) \/ Spawn(r) \/ Backoff(r)
      PROVE  \E new \in ExportCall : call' = [call EXCEPT ![r] = new] /\ Progress(new, health)
  <2>1. PICK pc \in Stage :
          /\ call' = [call EXCEPT ![r].pc = pc]
          /\ \/ c.pc \in Unspawned /\ pc \in Unspawned \cup {"webhooks"}
             \/ c.pc = "backoff" /\ pc = "post"
    <3>1. CASE Count(r)
      <4>1. PICK ch \in Counting : At(r, ch) /\ Goto(r, Following[ch])
        BY <3>1 DEF Count
      <4>2. ch \in {"otlp", "prometheus", "statsd"}
        BY DEF Counting, Channels
      <4>3. Following[ch] \in {"prometheus", "statsd", "spawn"}
        BY <4>2 DEF Following
      <4> QED
        BY <4>1, <4>2, <4>3 DEF At, Goto, Stage, Unspawned
    <3>2. CASE Spawn(r)
      BY <3>2 DEF Spawn, At, Goto, Following, Stage, Unspawned
    <3>3. CASE Backoff(r)
      BY <3>3 DEF Backoff, At, Goto, Stage
    <3> QED
      BY <1>2, <3>1, <3>2, <3>3
  <2>2. [c EXCEPT !.pc = pc] \in ExportCall /\ Progress([c EXCEPT !.pc = pc], health)
    BY <1>0, <2>1, StageOn
  <2> QED
    BY <2>1, <2>2
<1>3. ASSUME Webhooks(r)
      PROVE  \E new \in ExportCall : call' = [call EXCEPT ![r] = new] /\ Progress(new, health)
  <2> DEFINE dispatches == Enabled("webhooks") /\ c.metric \in Dispatched
             pc == IF dispatches THEN "post" ELSE "idle"
             new == [c EXCEPT !.pc = pc]
  <2>1. c.pc = "webhooks" /\ call' = [call EXCEPT ![r] = new]
    BY <1>3 DEF Webhooks, At, Goto
  <2>2. pc \in Stage
    BY DEF Stage
  <2>3. /\ new \in ExportCall /\ new.pc = pc /\ new.metric = c.metric
        /\ new.endpoint = c.endpoint /\ new.delivery = c.delivery
    BY <1>0, <2>2, CallMoves
  <2>4. c.endpoint = 1 /\ ServedUpTo(c, 0)
    BY <1>0, <2>1 DEF Progress
  <2> HIDE DEF new
  <2>5. Progress(new, health)
    <3>1. CASE dispatches
      <4>1. \A e \in Endpoints : e >= 1 /\ c.delivery[e] = NoDelivery
        BY <2>4 DEF ServedUpTo, Endpoints
      <4>2. 1 \in Endpoints /\ NoDelivery.result = "none" /\ NoDelivery.tries = 0
            /\ RetryMax \in Nat
        BY DEF Endpoints, ExportAssumption, NoDelivery
      <4> QED
        BY <2>3, <2>4, <3>1, <4>1, <4>2 DEF Progress, Enabled, Unspawned, Endpoints
    <3>2. CASE ~dispatches
      BY <2>3, <3>2 DEF Progress, Enabled, Unspawned
    <3> QED
      BY <3>1, <3>2
  <2> QED
    BY <2>1, <2>3, <2>5
<1>4. ASSUME PostSucceeds(r) \/ PostFails(r)
      PROVE  \E new \in ExportCall : call' = [call EXCEPT ![r] = new] /\ Progress(new, health)
  <2>1. c.pc = "post" /\ health["webhooks"] # "disabled"
    BY <1>0, <1>4 DEF PostSucceeds, PostFails, At, Progress
  <2>2. ASSUME NEW result \in {"ok", "failed"},
               result = "failed" => LastAttempt(c.delivery[c.endpoint].tries + 1),
               call' = [call EXCEPT ![r] = AfterEndpoint(Ended(Tried(c), result))]
        PROVE  \E new \in ExportCall : call' = [call EXCEPT ![r] = new] /\ Progress(new, health)
    <3> DEFINE new == Ended(Tried(c), result)
    <3>1. new \in ExportCall /\ ServedUpTo(new, new.endpoint)
      BY <1>0, <2>1, <2>2, EndpointServed
    <3> HIDE DEF new
    <3>2. AfterEndpoint(new) \in ExportCall /\ Progress(AfterEndpoint(new), health)
      BY <2>1, <3>1, EndpointDone
    <3> QED
      BY <2>2, <3>2 DEF new
  <2>3. CASE PostSucceeds(r)
    BY <2>2, <2>3 DEF PostSucceeds
  <2> DEFINE t == c.delivery[c.endpoint].tries + 1
  <2>4. c.delivery[c.endpoint] \in Delivery /\ c.endpoint \in Endpoints
    BY <1>0, CallFields
  <2>5. Tried(c).delivery[c.endpoint].tries = t /\ Tried(c).endpoint = c.endpoint
    BY <1>0, <2>4, CallFields DEF Tried, Delivery
  <2>6. CASE PostFails(r) /\ LastAttempt(t)
    <3>1. call' = [call EXCEPT ![r] = AfterEndpoint(Ended(Tried(c), "failed"))]
      BY <2>5, <2>6 DEF PostFails, AfterFailure
    <3> QED
      BY <2>2, <2>6, <3>1
  <2>7. CASE PostFails(r) /\ ~LastAttempt(t)
    <3> DEFINE d == [c.delivery[c.endpoint] EXCEPT !.tries = t]
               tried == [c EXCEPT !.delivery[c.endpoint] = d]
               new == [tried EXCEPT !.pc = "backoff"]
    <3>1. call' = [call EXCEPT ![r] = new]
      BY <2>5, <2>7 DEF PostFails, Tried
    <3>2. RetryMax \in Nat /\ c.delivery[c.endpoint].tries \in Nat
          /\ c.delivery[c.endpoint].result = "none"
      BY <1>0, <2>1, <2>4 DEF ExportAssumption, Delivery, Progress
    <3>3. d \in Delivery /\ d.result = "none" /\ d.tries = t
      BY <2>4, <3>2 DEF Delivery
    <3>4. t <= RetryMax
      BY <2>7, <3>2 DEF LastAttempt
    <3> HIDE DEF d
    <3>5. /\ tried \in ExportCall /\ tried.endpoint = c.endpoint
          /\ tried.delivery[c.endpoint] = d
          /\ \A e \in Endpoints \ {c.endpoint} : tried.delivery[e] = c.delivery[e]
      BY <1>0, <3>3, DeliveryChanges
    <3> HIDE DEF tried
    <3>6. /\ new \in ExportCall /\ new.pc = "backoff" /\ new.endpoint = c.endpoint
          /\ new.delivery = tried.delivery
      BY <3>5, CallMoves DEF Stage
    <3> HIDE DEF new
    <3>7. \A e \in Endpoints : /\ e < c.endpoint => Served(new.delivery[e])
                               /\ e > c.endpoint => new.delivery[e] = NoDelivery
      <4> SUFFICES ASSUME NEW e \in Endpoints
                   PROVE  /\ e < c.endpoint => Served(new.delivery[e])
                          /\ e > c.endpoint => new.delivery[e] = NoDelivery
        OBVIOUS
      <4>1. e \in Int /\ c.endpoint \in Int
        BY <2>4 DEF Endpoints
      <4>2. CASE e = c.endpoint
        BY <4>1, <4>2
      <4>3. CASE e # c.endpoint
        <5>1. new.delivery[e] = c.delivery[e]
          BY <3>5, <3>6, <4>3
        <5> QED
          BY <1>0, <2>1, <5>1 DEF Progress
      <4> QED
        BY <4>2, <4>3
    <3>8. Progress(new, health)
      BY <2>1, <3>3, <3>4, <3>5, <3>6, <3>7 DEF Progress, Unspawned
    <3> QED
      BY <3>1, <3>6, <3>8
  <2> QED
    BY <1>4, <2>3, <2>6, <2>7
<1> QED
  BY <1>u, <1>1, <1>2, <1>3, <1>4

\* A step of record_event on the counters and the flushes.
LEMMA RecordTyped ==
  ASSUME ExportAssumption, ExportTypes, NEW r \in Recorders,
         \/ \E m \in Metric : Record(r, m)
         \/ Count(r) \/ Spawn(r) \/ Webhooks(r)
         \/ PostSucceeds(r) \/ PostFails(r) \/ Backoff(r) \/ Mark(r)
  PROVE  /\ counted' \in [Counting -> [Metric -> Nat]]
         /\ flush' \in [0 .. MaxEvents -> FlushRecord]
         /\ offered' \in [Metric -> Nat]
         /\ events' \in 0 .. MaxEvents
<1>0. /\ counted \in [Counting -> [Metric -> Nat]]
      /\ flush \in [0 .. MaxEvents -> FlushRecord]
      /\ offered \in [Metric -> Nat] /\ events \in 0 .. MaxEvents /\ MaxEvents \in Nat
      /\ call[r] \in ExportCall
  BY DEF ExportTypes, ExportAssumption
<1>a. call[r].metric \in Metric /\ call[r].event \in 0 .. MaxEvents
  BY <1>0, CallFields
<1>1. CASE \E m \in Metric : Record(r, m)
  BY <1>0, <1>1 DEF Record
<1>2. CASE Count(r)
  <2>1. PICK ch \in Counting :
          counted' = counted \/ Increment(ch, call[r].metric)
    BY <1>2 DEF Count
  <2>2. UNCHANGED <<flush, offered, events>>
    BY <1>2 DEF Count
  <2>3. CASE Increment(ch, call[r].metric)
    <3>1. counted[ch] \in [Metric -> Nat] /\ counted[ch][call[r].metric] + 1 \in Nat
      BY <1>0, <1>a
    <3>2. [counted[ch] EXCEPT ![call[r].metric] = counted[ch][call[r].metric] + 1]
            \in [Metric -> Nat]
      BY <3>1
    <3>3. counted' = [counted EXCEPT ![ch] =
            [counted[ch] EXCEPT ![call[r].metric] = counted[ch][call[r].metric] + 1]]
      BY <2>3 DEF Increment
    <3> QED
      BY <1>0, <2>2, <3>2, <3>3
  <2> QED
    BY <1>0, <2>1, <2>2, <2>3
<1>3. CASE Spawn(r)
  <2>1. [flush[call[r].event] EXCEPT !.pc = "load"] \in FlushRecord
    <3> DEFINE f == flush[call[r].event]
    <3>1. f \in FlushRecord
      BY <1>0, <1>a
    <3> HIDE DEF f
    <3>2. [f EXCEPT !.pc = "load"] \in FlushRecord
      BY <3>1 DEF FlushRecord
    <3> QED
      BY <3>2 DEF f
  <2>2. flush' = flush
        \/ flush' = [flush EXCEPT ![call[r].event] =
                       [flush[call[r].event] EXCEPT !.pc = "load"]]
    BY <1>3 DEF Spawn
  <2>3. UNCHANGED <<counted, offered, events>>
    BY <1>3 DEF Spawn
  <2> QED
    BY <1>0, <1>a, <2>1, <2>2, <2>3
<1>4. CASE Webhooks(r) \/ PostSucceeds(r) \/ PostFails(r) \/ Backoff(r) \/ Mark(r)
  BY <1>0, <1>4 DEF Webhooks, PostSucceeds, PostFails, Backoff, Mark
<1> QED
  BY <1>1, <1>2, <1>3, <1>4

LEMMA MetricsAre ==
  /\ Len(Metrics) = 2 /\ Metrics[1] = "discovered" /\ Metrics[2] = "executed"
  /\ Metric = {"discovered", "executed"}
BY DEF Metrics, Metric

\* A flush that goes on.
LEMMA LoadStep ==
  ASSUME ExportTypes, NEW n \in 0 .. MaxEvents, FlushLoad(n)
  PROVE  LET f == flush[n]
             m == Metrics[f.at]
         IN  \E new \in FlushRecord :
               /\ flush' = [flush EXCEPT ![n] = new]
               /\ f.at \in 1 .. 2 /\ new.value[m] = counted["statsd"][m]
               /\ \A k \in Metric \ {m} : new.value[k] = f.value[k]
               /\ \/ f.at = 1 /\ new.pc = "load" /\ new.at = 2
                  \/ f.at = 2 /\ new.pc = "send" /\ new.at = 1
<1> DEFINE f == flush[n]
           m == Metrics[f.at]
           value == [f.value EXCEPT ![m] = counted["statsd"][m]]
<1>1. /\ f.pc = "load" /\ f.at \in 1 .. 2 /\ f.value \in [Metric -> Nat]
      /\ f = [pc |-> f.pc, at |-> f.at, value |-> f.value]
  BY DEF ExportTypes, FlushRecord, FlushLoad
<1>2. m \in Metric /\ counted["statsd"] \in [Metric -> Nat]
  <2>1. "statsd" \in Counting
    BY DEF Counting, Channels
  <2> QED
    BY <1>1, <2>1, MetricsAre DEF ExportTypes
<1>3. value \in [Metric -> Nat] /\ value[m] = counted["statsd"][m]
      /\ \A k \in Metric \ {m} : value[k] = f.value[k]
  BY <1>1, <1>2
<1> DEFINE loaded == [f EXCEPT !.value[m] = counted["statsd"][m]]
<1>4. loaded = [pc |-> f.pc, at |-> f.at, value |-> value]
  BY <1>1
<1> DEFINE next == IF f.at < Len(Metrics) THEN [loaded EXCEPT !.at = @ + 1]
                   ELSE [loaded EXCEPT !.pc = "send", !.at = 1]
<1>5. flush' = [flush EXCEPT ![n] = next]
  BY DEF FlushLoad
<1> HIDE DEF value, loaded
<1>6. CASE f.at = 1
  <2> DEFINE new == [pc |-> "load", at |-> 2, value |-> value]
  <2>1. next = new
    BY <1>1, <1>4, <1>6, MetricsAre
  <2> HIDE DEF next
  <2>2. flush' = [flush EXCEPT ![n] = new]
    BY <1>5, <2>1
  <2>3. new \in FlushRecord /\ new.pc = "load" /\ new.at = 2 /\ new.value = value
    BY <1>3 DEF FlushRecord
  <2> HIDE DEF new
  <2> QED
    BY <1>1, <1>3, <1>6, <2>2, <2>3
<1>7. CASE f.at = 2
  <2> DEFINE new == [loaded EXCEPT !.pc = "send", !.at = 1]
  <2>1. next = new
    BY <1>7, MetricsAre
  <2> HIDE DEF next
  <2>2. flush' = [flush EXCEPT ![n] = new]
    BY <1>5, <2>1
  <2>3. new \in FlushRecord
    <3>1. loaded \in FlushRecord
      BY <1>1, <1>3, <1>4 DEF FlushRecord
    <3> HIDE DEF new
    <3> DEFINE sending == [loaded EXCEPT !.pc = "send"]
    <3>2. sending \in FlushRecord
      BY <3>1 DEF FlushRecord
    <3>3. new = [sending EXCEPT !.at = 1]
      BY DEF new
    <3> HIDE DEF sending
    <3>4. 1 \in 1 .. 2
      OBVIOUS
    <3> QED
      BY <3>2, <3>3, <3>4 DEF FlushRecord
  <2>4. new.pc = "send" /\ new.at = 1 /\ new.value = value
    BY <1>4
  <2> HIDE DEF new
  <2> QED
    BY <1>1, <1>3, <1>7, <2>2, <2>3, <2>4
<1> QED
  BY <1>1, <1>6, <1>7

LEMMA SendStep ==
  ASSUME ExportTypes, NEW n \in 0 .. MaxEvents, FlushSend(n)
  PROVE  LET f == flush[n]
             m == Metrics[f.at]
         IN  /\ f.at \in 1 .. 2 /\ f.pc = "send" /\ offered' \in [Metric -> Nat]
             /\ offered'[m] >= f.value[m] /\ \A k \in Metric : offered'[k] >= offered[k]
             /\ \E new \in FlushRecord :
                  /\ flush' = [flush EXCEPT ![n] = new]
                  /\ \/ f.at = 1 /\ new.pc = "send" /\ new.at = 2 /\ new.value = f.value
                     \/ f.at = 2 /\ new = NoFlush
<1> DEFINE f == flush[n]
           m == Metrics[f.at]
           new == IF f.at < Len(Metrics) THEN [f EXCEPT !.at = @ + 1] ELSE NoFlush
<1>1. /\ f.pc = "send" /\ f.at \in 1 .. 2 /\ f.value \in [Metric -> Nat]
      /\ f = [pc |-> f.pc, at |-> f.at, value |-> f.value]
  BY DEF ExportTypes, FlushRecord, FlushSend
<1>2. m \in Metric /\ f.value[m] \in Nat /\ offered \in [Metric -> Nat]
  BY <1>1, MetricsAre DEF ExportTypes
<1>3. offered' = [offered EXCEPT ![m] = IF @ < f.value[m] THEN f.value[m] ELSE @]
      /\ flush' = [flush EXCEPT ![n] = new]
  BY DEF FlushSend
<1>4. /\ offered' \in [Metric -> Nat]
      /\ offered'[m] >= f.value[m] /\ \A k \in Metric : offered'[k] >= offered[k]
  BY <1>2, <1>3
<1>5. CASE f.at = 1
  <2>1. new = [pc |-> "send", at |-> 2, value |-> f.value]
    BY <1>1, <1>5, MetricsAre
  <2> HIDE DEF new
  <2>2. new \in FlushRecord /\ new.pc = "send" /\ new.at = 2 /\ new.value = f.value
    BY <1>1, <2>1 DEF FlushRecord
  <2> QED
    BY <1>1, <1>3, <1>4, <1>5, <2>2
<1>6. CASE f.at = 2
  <2>1. new = NoFlush /\ NoFlush \in FlushRecord
    BY <1>6, MetricsAre DEF NoFlush, FlushRecord
  <2> HIDE DEF new
  <2> QED
    BY <1>1, <1>3, <1>4, <1>6, <2>1
<1> QED
  BY <1>1, <1>5, <1>6

LEMMA DeliveryInductive ==
  ASSUME ExportAssumption, DeliveryInv, [ExportNext]_exportVars
  PROVE  DeliveryInv'
<1> DEFINE Counters == /\ counted \in [Counting -> [Metric -> Nat]]
                       /\ flush \in [0 .. MaxEvents -> FlushRecord]
                       /\ offered \in [Metric -> Nat]
                       /\ events \in 0 .. MaxEvents
           Calls == /\ health \in [Channels -> {"healthy", "degraded", "disabled"}]
                    /\ call \in [Recorders -> ExportCall]
                    /\ \A r \in Recorders : Progress(call[r], health)
<1>0. DeliveryInv <=> Counters /\ Calls
  BY DEF DeliveryInv, ExportTypes
<1>1. DeliveryInv' <=> Counters' /\ Calls'
  BY DEF DeliveryInv, ExportTypes, FlushRecord, ExportCall, Delivery, Stage, Unspawned,
         Metric, Endpoints, Channels, Counting
<1> SUFFICES Counters' /\ Calls'
  BY <1>1
<1>2. ExportTypes
  BY DEF DeliveryInv
<1>3. ASSUME NEW r \in Recorders,
             \/ \E m \in Metric : Record(r, m)
             \/ Count(r) \/ Spawn(r) \/ Webhooks(r)
             \/ PostSucceeds(r) \/ PostFails(r) \/ Backoff(r)
      PROVE  Counters' /\ Calls'
  <2>1. Counters'
    BY <1>2, <1>3, RecordTyped
  <2>2. /\ UNCHANGED health
        /\ \E c \in ExportCall : call' = [call EXCEPT ![r] = c] /\ Progress(c, health)
    BY <1>3, RecordSteps
  <2>3. PICK c \in ExportCall : call' = [call EXCEPT ![r] = c] /\ Progress(c, health)
    BY <2>2
  <2>4. /\ call' \in [Recorders -> ExportCall]
        /\ \A q \in Recorders : Progress(call'[q], health')
    BY <2>2, <2>3, CallGoesOn
  <2>5. health' \in [Channels -> {"healthy", "degraded", "disabled"}]
    BY <1>0, <2>2
  <2> QED
    BY <2>1, <2>4, <2>5
<1>4. ASSUME NEW r \in Recorders, Mark(r) PROVE Counters' /\ Calls'
  <2>1. Counters'
    BY <1>2, <1>4, RecordTyped
  <2>2. /\ call[r].pc = "mark" /\ health' = [health EXCEPT !["webhooks"] = "degraded"]
        /\ call' = [call EXCEPT ![r] = [call[r] EXCEPT !.pc = "idle"]]
    BY <1>4 DEF Mark, At, Goto
  <2>3. "webhooks" \in Channels /\ call[r] \in ExportCall /\ Progress(call[r], health)
    BY <1>0 DEF Channels
  <2>4. health["webhooks"] # "disabled" /\ AllServed(call[r])
    BY <2>2, <2>3 DEF Progress
  <2>5. health' \in [Channels -> {"healthy", "degraded", "disabled"}]
        /\ health'["webhooks"] = "degraded"
    BY <1>0, <2>2, <2>3
  <2> DEFINE new == [call[r] EXCEPT !.pc = "idle"]
  <2>6. new \in ExportCall /\ new.pc = "idle" /\ new.delivery = call[r].delivery
    BY <2>3, CallMoves DEF Stage
  <2> HIDE DEF new
  <2>7. /\ call' \in [Recorders -> ExportCall] /\ call'[r] = new
        /\ \A q \in Recorders \ {r} : call'[q] = call[q]
    BY <1>0, <2>2, <2>6 DEF new
  <2>8. Progress(new, health')
    BY <2>4, <2>5, <2>6 DEF Progress, AllServed, Unspawned
  <2>9. ASSUME NEW q \in Recorders PROVE Progress(call[q], health')
    <3>1. Progress(call[q], health)
      BY <1>0
    <3> QED
      BY <2>4, <2>5, <3>1 DEF Progress
  <2> QED
    BY <2>1, <2>5, <2>7, <2>8, <2>9
<1>5. ASSUME UNCHANGED <<health, call>>, Counters' PROVE Counters' /\ Calls'
  BY <1>0, <1>5
<1>6. CASE PeriodicTick
  <2>1. 0 \in 0 .. MaxEvents
    BY DEF ExportAssumption
  <2> DEFINE f == flush[0]
  <2>2. f \in FlushRecord
    BY <1>0, <2>1
  <2>3. flush' = [flush EXCEPT ![0] = [f EXCEPT !.pc = "load"]]
    BY <1>6 DEF PeriodicTick
  <2>a. UNCHANGED <<health, call, counted, offered, events>>
    BY <1>6 DEF PeriodicTick
  <2> HIDE DEF f
  <2>4. [f EXCEPT !.pc = "load"] \in FlushRecord
    BY <2>2 DEF FlushRecord
  <2> DEFINE new == [f EXCEPT !.pc = "load"]
  <2> HIDE DEF new
  <2>5. flush' = [flush EXCEPT ![0] = new] /\ new \in FlushRecord
    BY <2>3, <2>4 DEF new, f
  <2>6. Counters'
    BY <1>0, <2>1, <2>a, <2>5
  <2> QED
    BY <1>5, <2>a, <2>6
<1>7. ASSUME NEW n \in 0 .. MaxEvents, FlushLoad(n) PROVE Counters' /\ Calls'
  <2>1. PICK new \in FlushRecord : flush' = [flush EXCEPT ![n] = new]
    BY <1>2, <1>7, LoadStep
  <2>2. UNCHANGED <<health, call, counted, offered, events>>
    BY <1>7 DEF FlushLoad
  <2>3. Counters'
    BY <1>0, <2>1, <2>2
  <2> QED
    BY <1>5, <2>2, <2>3
<1>8. ASSUME NEW n \in 0 .. MaxEvents, FlushSend(n) PROVE Counters' /\ Calls'
  <2>1. /\ offered' \in [Metric -> Nat]
        /\ \E new \in FlushRecord : flush' = [flush EXCEPT ![n] = new]
    BY <1>2, <1>8, SendStep
  <2>2. UNCHANGED <<health, call, counted, events>>
    BY <1>8 DEF FlushSend
  <2>3. Counters'
    BY <1>0, <2>1, <2>2
  <2> QED
    BY <1>5, <2>2, <2>3
<1>9. CASE UNCHANGED exportVars
  BY <1>0, <1>5, <1>9 DEF exportVars
<1> HIDE DEF Counters, Calls
<1> QED
  BY <1>3, <1>4, <1>6, <1>7, <1>8, <1>9 DEF ExportNext

\* Export: when record_event returns for an action, every endpoint has answered with
\* success or was tried retry_max + 1 times, and a failure shows in the health of the
\* channel, whatever other events are being dispatched (webhooks.rs, export.rs).
THEOREM EveryEndpointServed == ExportSpec => []DeliveredOrExhausted
<1> USE ExportAssumption
<1>1. ExportInit => DeliveryInv
  BY ExportInitially
<1>2. DeliveryInv /\ [ExportNext]_exportVars => DeliveryInv'
  BY DeliveryInductive
<1>3. DeliveryInv => DeliveredOrExhausted
  <2> SUFFICES ASSUME DeliveryInv PROVE DeliveredOrExhausted
    OBVIOUS
  <2>1. ASSUME NEW r \in Recorders, call[r].pc = "idle", call[r].event > 0,
               call[r].metric \in Dispatched, health["webhooks"] # "disabled"
        PROVE  /\ AllServed(call[r])
               /\ (\E e \in Endpoints : call[r].delivery[e].result = "failed")
                    => health["webhooks"] = "degraded"
    BY <2>1 DEF DeliveryInv, Progress
  <2> QED
    BY <2>1, Zenon DEF DeliveredOrExhausted, At, Enabled, AllServed, Served
<1> QED
  BY <1>1, <1>2, <1>3, PTL DEF ExportSpec

-----------------------------------------------------------------------------
(* Export: the counters and the flushes *)

\* A flush that has not begun is as it was made; one that sends has offered what comes
\* before.
FlushesRun ==
  \A n \in 0 .. MaxEvents :
    /\ flush[n].pc = "none" => flush[n] = NoFlush
    /\ flush[n].pc = "send" /\ flush[n].at = 2 =>
         offered["discovered"] >= flush[n].value["discovered"]

\* The flush of an event is its own, and is spawned after the event was counted.
FlushesFollow ==
  /\ \A n \in 0 .. MaxEvents : n > events => flush[n] = NoFlush
  /\ \A r \in Recorders :
       /\ call[r].event <= events
       /\ call[r].pc \in Unspawned => call[r].event > 0 /\ flush[call[r].event] = NoFlush
  /\ \A q, r \in Recorders : q # r /\ call[q].event = call[r].event => call[q].event = 0

NoneCounted == ~Enabled("statsd") => \A m \in Metric : counted["statsd"][m] = 0

FlushInv == FlushesRun /\ FlushesFollow /\ NoneCounted

\* A flush that has yet to read a counter, or has read this much of it.
Carries(f, m, value) ==
  \/ f.pc = "load" /\ \E i \in f.at .. 2 : Metrics[i] = m
  \/ f.pc # "none" /\ f.value[m] >= value

Leaves(m) ==
  \/ offered[m] >= counted["statsd"][m]
  \/ \E n \in 0 .. MaxEvents : Carries(flush[n], m, counted["statsd"][m])
  \/ \E r \in Recorders : At(r, "spawn")

ExportInv == ExportTypes /\ FlushInv /\ \A m \in Metric : Leaves(m)

-----------------------------------------------------------------------------

LEMMA PostEvent ==
  ASSUME NEW c \in ExportCall, NEW result
  PROVE  LET new == AfterEndpoint(Ended(Tried(c), result))
         IN  new.event = c.event /\ new.pc \in {"post", "mark", "idle"}
<1> DEFINE tried == Tried(c)
           ended == Ended(tried, result)
<1>1. DOMAIN c = {"pc", "metric", "event", "endpoint", "delivery"}
  BY DEF ExportCall
<1>2. tried.event = c.event /\ DOMAIN tried = DOMAIN c
  BY <1>1 DEF Tried
<1> HIDE DEF tried
<1>3. ended.event = c.event /\ DOMAIN ended = DOMAIN c
  BY <1>1, <1>2 DEF Ended
<1> HIDE DEF ended
<1>4. AfterEndpoint(ended).event = c.event
      /\ AfterEndpoint(ended).pc \in {"post", "mark", "idle"}
  BY <1>1, <1>3 DEF AfterEndpoint
<1> QED
  BY <1>4 DEF ended, tried

\* A step of a call whose event is being recorded keeps the event, and goes back to
\* no stage before the flush.
LEMMA EventStays ==
  ASSUME ExportTypes, NEW r \in Recorders,
         \/ Count(r) \/ Spawn(r) \/ Webhooks(r)
         \/ PostSucceeds(r) \/ PostFails(r) \/ Backoff(r) \/ Mark(r)
  PROVE  /\ \A q \in Recorders \ {r} : call'[q] = call[q]
         /\ call'[r].event = call[r].event
         /\ call'[r].pc \in Unspawned =>
              call[r].pc \in Unspawned /\ (call'[r].pc = "spawn" => At(r, "statsd"))
<1> DEFINE c == call[r]
<1>1. call \in [Recorders -> ExportCall] /\ c \in ExportCall
      /\ DOMAIN c = {"pc", "metric", "event", "endpoint", "delivery"}
  BY DEF ExportTypes, ExportCall
<1>2. CASE Count(r)
  <2>1. PICK ch \in Counting : At(r, ch) /\ Goto(r, Following[ch])
    BY <1>2 DEF Count
  <2>2. ch \in {"otlp", "prometheus", "statsd"}
    BY DEF Counting, Channels
  <2>3. Following[ch] \in Unspawned /\ (Following[ch] = "spawn" => ch = "statsd")
    BY <2>2 DEF Following, Unspawned
  <2>4. /\ \A q \in Recorders \ {r} : call'[q] = call[q]
        /\ call'[r].event = call[r].event /\ call'[r].pc = Following[ch]
    BY <1>1, <2>1 DEF Goto
  <2> QED
    BY <2>1, <2>2, <2>3, <2>4 DEF At, Unspawned
<1>3. CASE Spawn(r) \/ Webhooks(r) \/ Backoff(r) \/ Mark(r)
  <2>1. \E pc \in {"webhooks", "post", "idle"} : Goto(r, pc)
    BY <1>3 DEF Spawn, Webhooks, Backoff, Mark, Following
  <2>2. PICK pc \in {"webhooks", "post", "idle"} : Goto(r, pc)
    BY <2>1
  <2>3. /\ \A q \in Recorders \ {r} : call'[q] = call[q]
        /\ call'[r].event = call[r].event /\ call'[r].pc = pc
    BY <1>1, <2>2 DEF Goto
  <2> QED
    BY <2>3 DEF Unspawned
<1>4. ASSUME NEW new, call' = [call EXCEPT ![r] = new], new.event = c.event,
             new.pc \in {"post", "mark", "idle", "backoff"}
      PROVE  /\ \A q \in Recorders \ {r} : call'[q] = call[q]
             /\ call'[r].event = call[r].event
             /\ call'[r].pc \notin Unspawned
  BY <1>1, <1>4 DEF Unspawned
<1>5. CASE PostSucceeds(r)
  <2> DEFINE new == AfterEndpoint(Ended(Tried(c), "ok"))
  <2>1. call' = [call EXCEPT ![r] = new]
    BY <1>5 DEF PostSucceeds
  <2>2. new.event = c.event /\ new.pc \in {"post", "mark", "idle"}
    BY <1>1, PostEvent
  <2> HIDE DEF new
  <2> QED
    BY <1>4, <2>1, <2>2
<1>6. CASE PostFails(r)
  <2> DEFINE tried == Tried(c)
             final == LastAttempt(tried.delivery[tried.endpoint].tries)
  <2>1. call' = [call EXCEPT ![r] = IF final THEN AfterEndpoint(Ended(tried, "failed"))
                                    ELSE [tried EXCEPT !.pc = "backoff"]]
    BY <1>6 DEF PostFails, AfterFailure
  <2>2. CASE final
    <3> DEFINE new == AfterEndpoint(Ended(tried, "failed"))
    <3>1. call' = [call EXCEPT ![r] = new]
      BY <2>1, <2>2
    <3>2. new.event = c.event /\ new.pc \in {"post", "mark", "idle"}
      BY <1>1, PostEvent
    <3> HIDE DEF new
    <3> QED
      BY <1>4, <3>1, <3>2
  <2>3. CASE ~final
    <3> DEFINE new == [tried EXCEPT !.pc = "backoff"]
    <3>1. call' = [call EXCEPT ![r] = new]
      BY <2>1, <2>3
    <3>2. tried.event = c.event /\ DOMAIN tried = DOMAIN c
      BY <1>1 DEF Tried
    <3> HIDE DEF tried
    <3>3. new.event = c.event /\ new.pc = "backoff"
      BY <1>1, <3>2
    <3> HIDE DEF new
    <3> QED
      BY <1>4, <3>1, <3>3
  <2> QED
    BY <2>2, <2>3
<1> QED
  BY <1>2, <1>3, <1>5, <1>6

LEMMA LeavesNothing == NothingUnsent <=> \A m \in Metric : Leaves(m)
<1>1. Len(Metrics) = 2
  BY MetricsAre
<1> QED
  BY <1>1 DEF NothingUnsent, Leaves, Carries

LEMMA ExportInvInit ==
  ASSUME ExportAssumption, ExportInit
  PROVE  FlushInv /\ \A m \in Metric : Leaves(m)
<1>1. /\ flush = [n \in 0 .. MaxEvents |-> NoFlush] /\ NoFlush.pc = "none"
      /\ offered = [m \in Metric |-> 0] /\ events = 0
      /\ counted = [ch \in Counting |-> [m \in Metric |-> 0]]
      /\ call = [r \in Recorders |-> Fresh("idle", "discovered", 0)]
  BY DEF ExportInit, NoFlush
<1>2. "statsd" \in Counting
  BY DEF Counting, Channels
<1>3. \A r \in Recorders : call[r].event = 0 /\ call[r].pc = "idle"
  BY <1>1 DEF Fresh
<1>4. FlushesRun /\ FlushesFollow
  BY <1>1, <1>3 DEF FlushesRun, FlushesFollow, Unspawned
<1>5. \A m \in Metric : counted["statsd"][m] = 0 /\ offered[m] = 0
  BY <1>1, <1>2
<1>6. NoneCounted /\ \A m \in Metric : Leaves(m)
  BY <1>5 DEF NoneCounted, Leaves
<1> QED
  BY <1>4, <1>6 DEF FlushInv

\* A call goes on while no flush changes.
LEMMA CallsFollow ==
  ASSUME ExportTypes, FlushesFollow, NEW r \in Recorders,
         \A q \in Recorders \ {r} : call'[q] = call[q],
         call'[r].event = call[r].event,
         call'[r].pc \in Unspawned => call[r].pc \in Unspawned,
         UNCHANGED <<flush, events>>
  PROVE  FlushesFollow'
<1>1. \A q \in Recorders :
        /\ call'[q].event = call[q].event
        /\ call'[q].pc \in Unspawned => call[q].pc \in Unspawned
  OBVIOUS
<1>2. flush' = flush /\ events' = events
  OBVIOUS
<1>3. \A n \in 0 .. MaxEvents : n > events' => flush'[n] = NoFlush
  BY <1>2, Zenon DEF FlushesFollow
<1>4. ASSUME NEW q \in Recorders
      PROVE  /\ call'[q].event <= events'
             /\ call'[q].pc \in Unspawned =>
                  call'[q].event > 0 /\ flush'[call'[q].event] = NoFlush
  <2>1. /\ call[q].event <= events
        /\ call[q].pc \in Unspawned => call[q].event > 0 /\ flush[call[q].event] = NoFlush
    BY Zenon DEF FlushesFollow
  <2> QED
    BY <1>1, <1>2, <2>1, Zenon
<1>5. ASSUME NEW q \in Recorders, NEW s \in Recorders, q # s,
             call'[q].event = call'[s].event
      PROVE  call'[q].event = 0
  <2>1. call[q].event = call[s].event => call[q].event = 0
    BY <1>5, Zenon DEF FlushesFollow
  <2> QED
    BY <1>1, <1>5, <2>1, Zenon
<1> QED
  BY <1>3, <1>4, <1>5, Zenon DEF FlushesFollow, NoFlush

LEMMA NewEventKeeps ==
  ASSUME ExportAssumption, ExportInv, NEW r \in Recorders, NEW m \in Metric, Record(r, m)
  PROVE  FlushInv' /\ \A k \in Metric : Leaves(k)'
<1>1. /\ call[r].pc = "idle" /\ events \in Nat /\ events < MaxEvents /\ events' = events + 1
      /\ call' = [call EXCEPT ![r] = Fresh("otlp", m, events + 1)]
      /\ UNCHANGED <<health, counted, flush, offered>> /\ call \in [Recorders -> ExportCall]
  BY DEF Record, At, ExportInv, ExportTypes
<1>2. /\ call'[r].pc = "otlp" /\ call'[r].event = events + 1
      /\ \A q \in Recorders \ {r} : call'[q] = call[q]
  BY <1>1 DEF Fresh
<1>3. FlushesRun'
  BY <1>1 DEF ExportInv, FlushInv, FlushesRun
<1>4. \A q \in Recorders : call[q].event \in Nat /\ call[q].event <= events
  BY <1>1, CallFields DEF ExportInv, FlushInv, FlushesFollow
<1>5. FlushesFollow'
  <2>1. \A n \in 0 .. MaxEvents : n > events => flush[n] = NoFlush
    BY DEF ExportInv, FlushInv, FlushesFollow
  <2>2. (\A n \in 0 .. MaxEvents : n > events => flush[n] = NoFlush)'
    BY <1>1, <2>1 DEF NoFlush
  <2>3. flush[events + 1] = NoFlush
    BY <1>1, <2>1 DEF ExportAssumption
  <2>4. ASSUME NEW q \in Recorders
        PROVE  /\ call'[q].event <= events'
               /\ call'[q].pc \in Unspawned =>
                    call'[q].event > 0 /\ flush'[call'[q].event] = NoFlush
    <3>1. CASE q = r
      BY <1>1, <1>2, <2>3, <3>1
    <3>2. CASE q # r
      <4>1. call[q].pc \in Unspawned => call[q].event > 0 /\ flush[call[q].event] = NoFlush
        BY DEF ExportInv, FlushInv, FlushesFollow
      <4> QED
        BY <1>1, <1>2, <1>4, <3>2, <4>1
    <3> QED
      BY <3>1, <3>2
  <2>5. ASSUME NEW p \in Recorders, NEW q \in Recorders, p # q,
               call'[p].event = call'[q].event
        PROVE  call'[p].event = 0
    <3>1. CASE p # r /\ q # r
      BY <1>2, <2>5, <3>1 DEF ExportInv, FlushInv, FlushesFollow
    <3>2. CASE p = r \/ q = r
      BY <1>1, <1>2, <1>4, <2>5, <3>2
    <3> QED
      BY <3>1, <3>2
  <2> QED
    BY <2>2, <2>4, <2>5 DEF FlushesFollow, NoFlush
<1>6. NoneCounted'
  BY <1>1 DEF ExportInv, FlushInv, NoneCounted, Enabled
<1>7. ASSUME NEW k \in Metric PROVE Leaves(k)'
  <2>1. Leaves(k)
    BY DEF ExportInv
  <2>2. \A q \in Recorders : At(q, "spawn") => At(q, "spawn")'
    BY <1>1, <1>2 DEF At
  <2> QED
    BY <1>1, <2>1, <2>2 DEF Leaves, Carries, Metrics
<1> QED
  BY <1>3, <1>5, <1>6, <1>7 DEF FlushInv

LEMMA CountedKeeps ==
  ASSUME ExportAssumption, ExportInv, NEW r \in Recorders, Count(r)
  PROVE  FlushInv' /\ \A k \in Metric : Leaves(k)'
<1>0. ExportTypes /\ FlushInv
  BY DEF ExportInv
<1>1. PICK ch \in Counting :
        /\ At(r, ch)
        /\ IF Enabled(ch) THEN Increment(ch, call[r].metric) ELSE UNCHANGED counted
        /\ Goto(r, Following[ch])
        /\ UNCHANGED <<health, flush, offered, events>>
  BY DEF Count
<1>2. /\ \A q \in Recorders \ {r} : call'[q] = call[q]
      /\ call'[r].event = call[r].event
      /\ call'[r].pc \in Unspawned => call[r].pc \in Unspawned
  BY <1>0, EventStays
<1>3. FlushesRun'
  BY <1>0, <1>1 DEF FlushInv, FlushesRun, NoFlush
<1>4. FlushesFollow'
  BY <1>0, <1>1, <1>2, CallsFollow DEF FlushInv
<1>5. counted \in [Counting -> [Metric -> Nat]] /\ "statsd" \in Counting
      /\ call \in [Recorders -> ExportCall]
  BY <1>0 DEF ExportTypes, Counting, Channels
<1>6. ~Enabled("statsd") \/ ch # "statsd" => counted'["statsd"] = counted["statsd"]
  BY <1>1, <1>5 DEF Increment
<1>7. NoneCounted'
  BY <1>0, <1>1, <1>6 DEF FlushInv, NoneCounted, Enabled
<1>8. ASSUME NEW k \in Metric PROVE Leaves(k)'
  <2>1. CASE ch = "statsd"
    <3>1. call' = [call EXCEPT ![r].pc = "spawn"]
      BY <1>1, <2>1 DEF Goto, Following
    <3>2. call[r] \in ExportCall
      BY <1>5
    <3>3. call'[r].pc = "spawn"
      BY <1>5, <3>1, <3>2, CallMoves DEF Stage, Unspawned
    <3> QED
      BY <3>3 DEF Leaves, At
  <2>2. CASE ch # "statsd"
    <3>1. Leaves(k)
      BY DEF ExportInv
    <3>2. ch # "spawn"
      BY DEF Counting, Channels
    <3>3. \A q \in Recorders : At(q, "spawn") => At(q, "spawn")'
      BY <1>1, <1>2, <3>2 DEF At
    <3> QED
      BY <1>1, <1>6, <2>2, <3>1, <3>3 DEF Leaves, Carries, Metrics
  <2> QED
    BY <2>1, <2>2
<1> QED
  BY <1>3, <1>4, <1>7, <1>8 DEF FlushInv

LEMMA SpawnKeeps ==
  ASSUME ExportAssumption, ExportInv, NEW r \in Recorders, Spawn(r)
  PROVE  FlushInv' /\ \A k \in Metric : Leaves(k)'
<1> DEFINE n == call[r].event
           loading == [NoFlush EXCEPT !.pc = "load"]
<1>0. ExportTypes /\ FlushInv
  BY DEF ExportInv
<1>1. /\ call[r].pc = "spawn" /\ UNCHANGED <<health, counted, offered, events>>
      /\ flush' = IF Enabled("statsd") THEN [flush EXCEPT ![n].pc = "load"] ELSE flush
  BY DEF Spawn, At
<1>2. /\ \A q \in Recorders \ {r} : call'[q] = call[q]
      /\ call'[r].event = n /\ call'[r].pc = "webhooks"
  <2>1. call' = [call EXCEPT ![r].pc = "webhooks"] /\ call[r] \in ExportCall
        /\ call \in [Recorders -> ExportCall]
    BY <1>0 DEF Spawn, Goto, Following, ExportTypes
  <2> QED
    BY <2>1, CallMoves DEF Stage
<1>3. n \in 0 .. MaxEvents /\ n <= events /\ n > 0 /\ flush[n] = NoFlush
      /\ flush \in [0 .. MaxEvents -> FlushRecord]
  BY <1>0, <1>1, CallFields DEF ExportTypes, FlushInv, FlushesFollow, Unspawned
<1>4. /\ loading.pc = "load" /\ loading.at = 1
      /\ \A k \in Metric : Carries(loading, k, counted["statsd"][k])
  BY MetricsAre DEF NoFlush, Carries
<1>5. CASE Enabled("statsd")
  <2>1. flush' = [flush EXCEPT ![n] = loading]
    BY <1>1, <1>3, <1>5
  <2> HIDE DEF loading
  <2>2. flush'[n] = loading /\ \A i \in 0 .. MaxEvents \ {n} : flush'[i] = flush[i]
    BY <1>3, <2>1
  <2>3. FlushesRun'
    <3> SUFFICES ASSUME NEW i \in 0 .. MaxEvents
                 PROVE  /\ flush'[i].pc = "none" => flush'[i] = NoFlush
                        /\ flush'[i].pc = "send" /\ flush'[i].at = 2 =>
                             offered["discovered"] >= flush'[i].value["discovered"]
      BY <1>1 DEF FlushesRun, NoFlush
    <3>1. CASE i = n
      BY <1>4, <2>2, <3>1
    <3>2. CASE i # n
      BY <1>0, <2>2, <3>2 DEF FlushInv, FlushesRun
    <3> QED
      BY <3>1, <3>2
  <2>4. FlushesFollow'
    <3>1. ASSUME NEW i \in 0 .. MaxEvents, i > events PROVE flush'[i] = NoFlush
      <4>1. flush[i] = NoFlush
        BY <1>0, <3>1 DEF FlushInv, FlushesFollow
      <4>2. events \in Nat
        BY <1>0 DEF ExportTypes
      <4>3. i # n
        BY <1>3, <3>1, <4>2
      <4> QED
        BY <2>2, <4>1, <4>3
    <3>2. ASSUME NEW q \in Recorders
          PROVE  /\ call'[q].event <= events
                 /\ call'[q].pc \in Unspawned =>
                      call'[q].event > 0 /\ flush'[call'[q].event] = NoFlush
      <4>1. CASE q = r
        BY <1>2, <1>3, <4>1 DEF Unspawned
      <4>2. CASE q # r
        <5>1. call'[q] = call[q] /\ call[q].event \in 0 .. MaxEvents
          BY <1>0, <1>2, <4>2, CallFields DEF ExportTypes
        <5>2. /\ call[q].event <= events
              /\ call[q].pc \in Unspawned =>
                   call[q].event > 0 /\ flush[call[q].event] = NoFlush
              /\ call[q].event = n => n = 0
          BY <1>0, <4>2 DEF FlushInv, FlushesFollow
        <5> QED
          BY <1>3, <2>2, <5>1, <5>2
      <4> QED
        BY <4>1, <4>2
    <3>3. \A q \in Recorders : call'[q].event = call[q].event
      BY <1>2
    <3>4. \A p, q \in Recorders : p # q /\ call'[p].event = call'[q].event => call'[p].event = 0
      BY <1>0, <3>3 DEF FlushInv, FlushesFollow
    <3> QED
      BY <1>1, <3>1, <3>2, <3>4 DEF FlushesFollow, NoFlush
  <2>5. NoneCounted'
    BY <1>1, <1>5 DEF NoneCounted, Enabled
  <2>6. \A k \in Metric : Carries(flush'[n], k, counted'["statsd"][k])
    BY <1>1, <1>4, <2>2
  <2>7. \A k \in Metric : Leaves(k)'
    BY <1>3, <2>6 DEF Leaves, Carries, Metrics
  <2> QED
    BY <2>3, <2>4, <2>5, <2>7 DEF FlushInv
<1>6. CASE ~Enabled("statsd")
  <2>1. UNCHANGED flush
    BY <1>1, <1>6
  <2>2. FlushesRun'
    BY <1>0, <1>1, <2>1 DEF FlushInv, FlushesRun, NoFlush
  <2>3. FlushesFollow'
    <3>1. call'[r].pc \in Unspawned => call[r].pc \in Unspawned
      BY <1>2 DEF Unspawned
    <3> QED
      BY <1>0, <1>1, <1>2, <2>1, <3>1, CallsFollow DEF FlushInv
  <2>4. NoneCounted'
    BY <1>0, <1>1 DEF FlushInv, NoneCounted, Enabled
  <2>5. ASSUME NEW k \in Metric PROVE Leaves(k)'
    <3>1. counted["statsd"][k] = 0 /\ offered[k] \in Nat
      BY <1>0, <1>6 DEF FlushInv, NoneCounted, ExportTypes
    <3> QED
      BY <1>1, <3>1 DEF Leaves
  <2> QED
    BY <2>2, <2>3, <2>4, <2>5 DEF FlushInv
<1> QED
  BY <1>5, <1>6

LEMMA DispatchKeeps ==
  ASSUME ExportAssumption, ExportInv, NEW r \in Recorders,
         Webhooks(r) \/ PostSucceeds(r) \/ PostFails(r) \/ Backoff(r) \/ Mark(r)
  PROVE  FlushInv' /\ \A k \in Metric : Leaves(k)'
<1>0. ExportTypes /\ FlushInv
  BY DEF ExportInv
<1>1. UNCHANGED <<counted, flush, offered, events>> /\ call[r].pc # "spawn"
  BY DEF Webhooks, PostSucceeds, PostFails, Backoff, Mark, At
<1>2. health'["statsd"] = health["statsd"]
  BY <1>0 DEF Webhooks, PostSucceeds, PostFails, Backoff, Mark, ExportTypes, Channels
<1>3. /\ \A q \in Recorders \ {r} : call'[q] = call[q]
      /\ call'[r].event = call[r].event
      /\ call'[r].pc \in Unspawned => call[r].pc \in Unspawned
  BY <1>0, EventStays
<1>4. FlushesRun'
  BY <1>0, <1>1 DEF FlushInv, FlushesRun, NoFlush
<1>5. FlushesFollow'
  BY <1>0, <1>1, <1>3, CallsFollow DEF FlushInv
<1>6. NoneCounted'
  BY <1>0, <1>1, <1>2 DEF FlushInv, NoneCounted, Enabled
<1>7. ASSUME NEW k \in Metric PROVE Leaves(k)'
  <2>1. Leaves(k)
    BY DEF ExportInv
  <2>2. \A q \in Recorders : At(q, "spawn") => At(q, "spawn")'
    BY <1>1, <1>3 DEF At
  <2> QED
    BY <1>1, <2>1, <2>2 DEF Leaves, Carries, Metrics
<1> QED
  BY <1>4, <1>5, <1>6, <1>7 DEF FlushInv

\* A flush goes on while no call does: what it carries it still carries, or has offered.
LEMMA FlushKeeps ==
  ASSUME ExportAssumption, ExportInv, NEW n \in 0 .. MaxEvents, NEW new \in FlushRecord,
         flush' = [flush EXCEPT ![n] = new], UNCHANGED <<health, counted, call, events>>,
         offered' \in [Metric -> Nat], \A k \in Metric : offered'[k] >= offered[k],
         new.pc = "none" => new = NoFlush,
         new.pc = "send" /\ new.at = 2 => offered'["discovered"] >= new.value["discovered"],
         n = 0 \/ flush[n] # NoFlush,
         \A k \in Metric : Carries(flush[n], k, counted["statsd"][k]) =>
           Carries(new, k, counted["statsd"][k]) \/ offered'[k] >= counted["statsd"][k]
  PROVE  FlushInv' /\ \A k \in Metric : Leaves(k)'
<1>0. ExportTypes /\ FlushInv
  BY DEF ExportInv
<1>1. flush'[n] = new /\ \A i \in 0 .. MaxEvents \ {n} : flush'[i] = flush[i]
  BY <1>0 DEF ExportTypes
<1>2. offered \in [Metric -> Nat] /\ flush \in [0 .. MaxEvents -> FlushRecord]
      /\ \A i \in 0 .. MaxEvents : flush[i].value["discovered"] \in Nat
      /\ counted["statsd"] \in [Metric -> Nat] /\ events \in Nat
      /\ \A q \in Recorders : call[q].event \in 0 .. MaxEvents
  <2>1. offered \in [Metric -> Nat] /\ flush \in [0 .. MaxEvents -> FlushRecord]
        /\ events \in Nat
    BY <1>0 DEF ExportTypes
  <2>2. ASSUME NEW i \in 0 .. MaxEvents PROVE flush[i].value["discovered"] \in Nat
    <3>1. flush[i].value \in [Metric -> Nat]
      BY <2>1 DEF FlushRecord
    <3> QED
      BY <3>1 DEF Metric
  <2>3. counted["statsd"] \in [Metric -> Nat]
    BY <1>0 DEF ExportTypes, Counting, Channels
  <2>4. \A q \in Recorders : call[q].event \in 0 .. MaxEvents
    BY <1>0, CallFields DEF ExportTypes
  <2> QED
    BY <2>1, <2>2, <2>3, <2>4
<1>3. FlushesRun'
  <2> SUFFICES ASSUME NEW i \in 0 .. MaxEvents
               PROVE  /\ flush'[i].pc = "none" => flush'[i] = NoFlush
                      /\ flush'[i].pc = "send" /\ flush'[i].at = 2 =>
                           offered'["discovered"] >= flush'[i].value["discovered"]
    BY DEF FlushesRun, NoFlush
  <2>1. CASE i = n
    BY <1>1, <2>1
  <2>2. CASE i # n
    <3>1. /\ flush[i].pc = "none" => flush[i] = NoFlush
          /\ flush[i].pc = "send" /\ flush[i].at = 2 =>
               offered["discovered"] >= flush[i].value["discovered"]
      BY <1>0 DEF FlushInv, FlushesRun
    <3>2. "discovered" \in Metric
      BY DEF Metric
    <3> QED
      BY <1>1, <1>2, <2>2, <3>1, <3>2
  <2> QED
    BY <2>1, <2>2
<1>4. FlushesFollow'
  <2>1. ASSUME NEW i \in 0 .. MaxEvents, flush[i] = NoFlush, i > 0
        PROVE  flush'[i] = NoFlush
    BY <1>1, <2>1
  <2>2. \A i \in 0 .. MaxEvents : i > events => flush'[i] = NoFlush
    BY <1>0, <1>2, <2>1 DEF FlushInv, FlushesFollow
  <2>3. \A q \in Recorders :
          /\ call[q].event <= events
          /\ call[q].pc \in Unspawned => call[q].event > 0 /\ flush'[call[q].event] = NoFlush
    BY <1>0, <1>2, <2>1 DEF FlushInv, FlushesFollow
  <2>4. \A p, q \in Recorders : p # q /\ call[p].event = call[q].event => call[p].event = 0
    BY <1>0 DEF FlushInv, FlushesFollow
  <2> QED
    BY <2>2, <2>3, <2>4 DEF FlushesFollow, NoFlush
<1>5. NoneCounted'
  BY <1>0 DEF FlushInv, NoneCounted, Enabled
<1>6. ASSUME NEW k \in Metric PROVE Leaves(k)'
  <2> DEFINE value == counted["statsd"][k]
  <2>1. offered'[k] >= offered[k] /\ offered'[k] \in Nat /\ offered[k] \in Nat /\ value \in Nat
    BY <1>2
  <2>2. CASE offered[k] >= value
    BY <2>1, <2>2 DEF Leaves
  <2>3. CASE \E r \in Recorders : At(r, "spawn")
    BY <2>3 DEF Leaves, At
  <2>4. ASSUME NEW i \in 0 .. MaxEvents, Carries(flush[i], k, value)
        PROVE  offered'[k] >= value \/ \E j \in 0 .. MaxEvents : Carries(flush'[j], k, value)
    <3>1. CASE i = n
      BY <1>1, <2>4, <3>1
    <3>2. CASE i # n
      BY <1>1, <2>4, <3>2
    <3> QED
      BY <3>1, <3>2
  <2>5. Leaves(k)
    BY DEF ExportInv
  <2>6. (\/ offered[k] >= value
         \/ \E j \in 0 .. MaxEvents : Carries(flush[j], k, value)
         \/ \E r \in Recorders : At(r, "spawn"))
    BY <2>5 DEF Leaves
  <2>7. ASSUME NEW j \in 0 .. MaxEvents, Carries(flush'[j], k, value) PROVE Leaves(k)'
    BY <2>7 DEF Leaves, Carries, Metrics
  <2>8. CASE offered'[k] >= value
    BY <2>8 DEF Leaves
  <2> QED
    BY <2>2, <2>3, <2>4, <2>6, <2>7, <2>8
<1> QED
  BY <1>3, <1>4, <1>5, <1>6 DEF FlushInv

LEMMA FlushesKeep ==
  ASSUME ExportAssumption, ExportInv,
         PeriodicTick \/ \E n \in 0 .. MaxEvents : FlushLoad(n) \/ FlushSend(n)
  PROVE  FlushInv' /\ \A k \in Metric : Leaves(k)'
<1>0. ExportTypes /\ FlushInv
  BY DEF ExportInv
<1>1. offered \in [Metric -> Nat] /\ counted["statsd"] \in [Metric -> Nat]
      /\ flush \in [0 .. MaxEvents -> FlushRecord]
  BY <1>0 DEF ExportTypes, Counting, Channels
<1>2. CASE PeriodicTick
  <2> DEFINE new == [NoFlush EXCEPT !.pc = "load"]
  <2>1. 0 \in 0 .. MaxEvents /\ flush[0] = NoFlush
    BY <1>0, <1>2 DEF ExportAssumption, PeriodicTick, FlushInv, FlushesRun
  <2>2. flush' = [flush EXCEPT ![0] = new]
    BY <1>2, <2>1 DEF PeriodicTick
  <2>3. UNCHANGED <<health, counted, call, events, offered>>
    BY <1>2 DEF PeriodicTick
  <2>4. new.pc = "load" /\ new.at = 1
    BY DEF NoFlush
  <2>5. new \in FlushRecord
    BY DEF NoFlush, FlushRecord
  <2>6. \A k \in Metric : Carries(new, k, counted["statsd"][k])
    BY <2>4, MetricsAre DEF Carries
  <2>7. \A k \in Metric : offered'[k] >= offered[k]
    BY <1>1, <2>3
  <2>8. offered' \in [Metric -> Nat]
    BY <1>1, <2>3
  <2>9. UNCHANGED <<health, counted, call, events>>
    BY <2>3
  <2> HIDE DEF new
  <2> QED
    BY <2>1, <2>2, <2>4, <2>5, <2>6, <2>7, <2>8, <2>9, FlushKeeps
<1>3. ASSUME NEW n \in 0 .. MaxEvents, FlushLoad(n)
      PROVE  FlushInv' /\ \A k \in Metric : Leaves(k)'
  <2> DEFINE f == flush[n]
             m == Metrics[f.at]
  <2>1. PICK new \in FlushRecord :
          /\ flush' = [flush EXCEPT ![n] = new]
          /\ f.at \in 1 .. 2 /\ new.value[m] = counted["statsd"][m]
          /\ \A k \in Metric \ {m} : new.value[k] = f.value[k]
          /\ \/ f.at = 1 /\ new.pc = "load" /\ new.at = 2
             \/ f.at = 2 /\ new.pc = "send" /\ new.at = 1
    BY <1>0, <1>3, LoadStep
  <2>2. UNCHANGED <<health, counted, call, events, offered>> /\ f.pc = "load"
    BY <1>3 DEF FlushLoad
  <2>3. ASSUME NEW k \in Metric, Carries(f, k, counted["statsd"][k])
        PROVE  Carries(new, k, counted["statsd"][k])
    <3>1. new.pc # "none" /\ counted["statsd"][k] \in Nat
      BY <1>1, <2>1
    <3>2. CASE k = m
      BY <2>1, <3>1, <3>2 DEF Carries
    <3>3. CASE k # m /\ f.value[k] >= counted["statsd"][k]
      BY <2>1, <3>1, <3>3 DEF Carries
    <3>4. CASE k # m /\ \E i \in f.at .. 2 : Metrics[i] = k
      <4>1. f.at = 1 /\ Metrics[2] = k
        BY <2>1, <3>4
      <4> QED
        BY <2>1, <4>1 DEF Carries
    <3> QED
      BY <2>3, <3>2, <3>3, <3>4 DEF Carries
  <2>4. \A k \in Metric : offered'[k] >= offered[k]
    BY <1>1, <2>2
  <2>5. offered' \in [Metric -> Nat] /\ UNCHANGED <<health, counted, call, events>>
    BY <1>1, <2>2
  <2>6. f # NoFlush /\ new.pc # "none" /\ ~(new.pc = "send" /\ new.at = 2)
    BY <2>1, <2>2 DEF NoFlush
  <2> QED
    BY <2>1, <2>3, <2>4, <2>5, <2>6, FlushKeeps
<1>4. ASSUME NEW n \in 0 .. MaxEvents, FlushSend(n)
      PROVE  FlushInv' /\ \A k \in Metric : Leaves(k)'
  <2> DEFINE f == flush[n]
             m == Metrics[f.at]
  <2>1. /\ f.at \in 1 .. 2 /\ f.pc = "send" /\ offered' \in [Metric -> Nat]
        /\ offered'[m] >= f.value[m] /\ \A k \in Metric : offered'[k] >= offered[k]
    BY <1>0, <1>4, SendStep
  <2>2. PICK new \in FlushRecord :
          /\ flush' = [flush EXCEPT ![n] = new]
          /\ \/ f.at = 1 /\ new.pc = "send" /\ new.at = 2 /\ new.value = f.value
             \/ f.at = 2 /\ new = NoFlush
    BY <1>0, <1>4, SendStep, SMTT(30)
  <2>3. UNCHANGED <<health, counted, call, events>>
    BY <1>4 DEF FlushSend
  <2>4. \A k \in Metric : f.value[k] \in Nat /\ counted["statsd"][k] \in Nat
                          /\ offered[k] \in Nat /\ offered'[k] \in Nat
    BY <1>1, <2>1 DEF FlushRecord
  <2>5. ASSUME NEW k \in Metric, Carries(f, k, counted["statsd"][k])
        PROVE  Carries(new, k, counted["statsd"][k]) \/ offered'[k] >= counted["statsd"][k]
    <3>1. f.value[k] >= counted["statsd"][k]
      BY <2>1, <2>5 DEF Carries
    <3>2. CASE f.at = 1
      BY <2>2, <3>1, <3>2 DEF Carries
    <3>3. CASE f.at = 2
      <4>1. offered'[k] >= f.value[k]
        <5>1. CASE k = "executed"
          BY <2>1, <3>3, <5>1, MetricsAre
        <5>2. CASE k = "discovered"
          <6>1. offered["discovered"] >= f.value["discovered"]
            BY <1>0, <2>1, <3>3 DEF FlushInv, FlushesRun
          <6> QED
            BY <2>1, <2>4, <5>2, <6>1
        <5> QED
          BY <5>1, <5>2, MetricsAre
      <4> QED
        BY <2>4, <3>1, <4>1
    <3> QED
      BY <2>1, <3>2, <3>3
  <2>6. new.pc = "none" => new = NoFlush
    BY <2>2
  <2>7. new.pc = "send" /\ new.at = 2 => offered'["discovered"] >= new.value["discovered"]
    <3>1. CASE f.at = 1
      BY <2>1, <2>2, <3>1, MetricsAre
    <3>2. CASE f.at = 2
      BY <2>2, <3>2 DEF NoFlush
    <3> QED
      BY <2>1, <3>1, <3>2
  <2>8. f # NoFlush
    BY <2>1 DEF NoFlush
  <2> QED
    BY <2>1, <2>2, <2>3, <2>5, <2>6, <2>7, <2>8, FlushKeeps
<1> QED
  BY <1>2, <1>3, <1>4

\* Export: a count that the socket was not offered is one a flush has yet to read or
\* carries, or that a flush about to be spawned will read, however the flushes overlap
\* (export.rs, record_event; statsd.rs, flush_metrics).
THEOREM EveryCountLeaves == ExportSpec => []NothingUnsent
<1> USE ExportAssumption
<1> DEFINE Inv == DeliveryInv /\ ExportInv
<1>1. ExportInit => Inv
  BY ExportInitially, ExportInvInit DEF ExportInv, DeliveryInv
<1>2. Inv /\ [ExportNext]_exportVars => Inv'
  <2> SUFFICES ASSUME Inv, [ExportNext]_exportVars PROVE Inv'
    OBVIOUS
  <2>1. DeliveryInv' /\ ExportTypes'
    BY DeliveryInductive DEF DeliveryInv
  <2> SUFFICES FlushInv' /\ \A k \in Metric : Leaves(k)'
    BY <2>1 DEF ExportInv, Metric
  <2>2. ASSUME NEW r \in Recorders, NEW m \in Metric, Record(r, m)
        PROVE  FlushInv' /\ \A k \in Metric : Leaves(k)'
    BY <2>2, NewEventKeeps
  <2>3. ASSUME NEW r \in Recorders, Count(r)
        PROVE  FlushInv' /\ \A k \in Metric : Leaves(k)'
    BY <2>3, CountedKeeps
  <2>4. ASSUME NEW r \in Recorders, Spawn(r)
        PROVE  FlushInv' /\ \A k \in Metric : Leaves(k)'
    BY <2>4, SpawnKeeps
  <2>5. ASSUME NEW r \in Recorders,
               Webhooks(r) \/ PostSucceeds(r) \/ PostFails(r) \/ Backoff(r) \/ Mark(r)
        PROVE  FlushInv' /\ \A k \in Metric : Leaves(k)'
    BY <2>5, DispatchKeeps
  <2>6. CASE PeriodicTick \/ \E n \in 0 .. MaxEvents : FlushLoad(n) \/ FlushSend(n)
    BY <2>6, FlushesKeep
  <2>7. CASE UNCHANGED exportVars
    <3>1. UNCHANGED <<health, counted, call, flush, offered, events>>
      BY <2>7 DEF exportVars
    <3>2. FlushInv'
      BY <3>1 DEF ExportInv, FlushInv, FlushesRun, FlushesFollow, NoneCounted, Enabled,
                  NoFlush, Unspawned, Metric
    <3>3. \A k \in Metric : Leaves(k)'
      BY <3>1 DEF ExportInv, Leaves, Carries, Metrics, At
    <3> QED
      BY <3>2, <3>3
  <2> QED
    BY <2>2, <2>3, <2>4, <2>5, <2>6, <2>7 DEF ExportNext
<1>3. Inv => NothingUnsent
  BY LeavesNothing DEF ExportInv
<1> QED
  BY <1>1, <1>2, <1>3, PTL DEF ExportSpec

-----------------------------------------------------------------------------
(* AuditLog *)

AuditEntry == [id : Decisions, stage : 1 .. 3, at : Nat]
AuditRow == [row : Nat, entry : AuditEntry]

WriterRecord ==
  [pc : {"idle", "insert", "load", "store", "fail"}, done : 0 .. 3, at : Nat]

AuditTypes ==
  /\ now \in Nat /\ rowid \in Nat /\ IsFiniteSet(log) /\ log \subseteq AuditRow
  /\ writer \in [Decisions -> WriterRecord]
  /\ kept \subseteq AuditEntry

\* The stages of a decision that have been written to the table.
Reached(d) == writer[d].done + (IF writer[d].pc \in {"load", "store"} THEN 1 ELSE 0)

\* An entry is in the table for as long as its retention lasts.
Lasts(entry) ==
  now - entry.at <= AuditRetention => \E r \in log : r.entry = entry

\* The rows of a decision were written one after another.
RowsInOrder ==
  /\ \A r \in log :
       /\ r.row <= rowid /\ r.entry.at <= writer[r.entry.id].at
       /\ r.entry.stage <= Reached(r.entry.id)
  /\ \A r, s \in log : r.row = s.row => r = s
  /\ \A r, s \in log :
       r.entry.id = s.entry.id /\ r.row < s.row =>
         r.entry.at <= s.entry.at /\ r.entry.stage < s.entry.stage

WritersFollow ==
  \A d \in Decisions :
    /\ writer[d].at <= now /\ (writer[d].pc # "idle" => writer[d].done < 3)
    /\ writer[d].pc \in {"load", "store"} => Lasts(Row(d))

AuditInv ==
  AuditTypes /\ RowsInOrder /\ WritersFollow /\ \A entry \in kept : Lasts(entry)

-----------------------------------------------------------------------------

LEMMA AuditFields ==
  ASSUME AuditTypes, NEW r \in log
  PROVE  /\ r.row \in Nat /\ r.entry \in AuditEntry
         /\ r.entry.id \in Decisions /\ r.entry.stage \in 1 .. 3 /\ r.entry.at \in Nat
<1>1. r \in AuditRow
  BY DEF AuditTypes
<1>2. r.row \in Nat /\ r.entry \in AuditEntry
  BY <1>1 DEF AuditRow
<1> QED
  BY <1>2 DEF AuditEntry

\* Of two rows of a decision the later stage has no earlier time, and no stage is there
\* twice.
LEMMA StagesFollowTime ==
  ASSUME AuditInv, NEW r \in log, NEW s \in log, r.entry.id = s.entry.id, r # s,
         r.entry.at <= s.entry.at
  PROVE  \/ r.entry.stage < s.entry.stage
         \/ r.entry.stage # s.entry.stage /\ r.entry.at = s.entry.at
<1>1. /\ r.row \in Nat /\ s.row \in Nat /\ r.entry.at \in Nat /\ s.entry.at \in Nat
      /\ r.entry.stage \in Nat /\ s.entry.stage \in Nat
  BY AuditFields DEF AuditInv
<1>2. /\ r.row < s.row => r.entry.stage < s.entry.stage
      /\ s.row < r.row => s.entry.at <= r.entry.at /\ s.entry.stage < r.entry.stage
      /\ r.row # s.row
  BY DEF AuditInv, RowsInOrder
<1> QED
  BY <1>1, <1>2

\* A chain has every row of its decision once.
LEMMA ChainOfRows ==
  ASSUME AuditInv
  PROVE  ChainComplete
<1> SUFFICES ASSUME NEW d \in Decisions, NEW chain \in Chains(d)
             PROVE  /\ \A row \in kept : row.id = d /\ now - row.at <= AuditRetention =>
                         \E k \in DOMAIN chain : chain[k].entry = row
                    /\ \A i, j \in DOMAIN chain : i < j =>
                         \/ chain[i].entry.stage < chain[j].entry.stage
                         \/ /\ chain[i].entry.stage # chain[j].entry.stage
                            /\ chain[i].entry.at = chain[j].entry.at
  BY DEF ChainComplete
<1> DEFINE S == OfDecision(d)
           n == Cardinality(S)
<1>1. /\ chain \in Bijection(1 .. n, S)
      /\ \A i, j \in DOMAIN chain : i < j => chain[i].entry.at <= chain[j].entry.at
  BY DEF Chains
<1>2. S \subseteq log /\ \A r \in log : r.entry.id = d <=> r \in S
  BY DEF OfDecision
<1> HIDE DEF S, n
<1>3. /\ DOMAIN chain = 1 .. n /\ \A k \in 1 .. n : chain[k] \in S
      /\ \A r \in S : \E k \in 1 .. n : chain[k] = r
      /\ \A i, j \in 1 .. n : chain[i] = chain[j] => i = j
  BY <1>1 DEF Bijection, Injection, Surjection, IsInjective
<1>4. ASSUME NEW row \in kept, row.id = d, now - row.at <= AuditRetention
      PROVE  \E k \in DOMAIN chain : chain[k].entry = row
  <2>1. PICK r \in log : r.entry = row
    BY <1>4 DEF AuditInv, Lasts
  <2>2. r \in S
    BY <1>2, <1>4, <2>1
  <2> QED
    BY <1>3, <2>1, <2>2
<1>5. ASSUME NEW i \in 1 .. n, NEW j \in 1 .. n, i < j
      PROVE  \/ chain[i].entry.stage < chain[j].entry.stage
             \/ /\ chain[i].entry.stage # chain[j].entry.stage
                /\ chain[i].entry.at = chain[j].entry.at
  <2> DEFINE r == chain[i]
             s == chain[j]
  <2>1. r \in S /\ s \in S /\ r # s
    BY <1>3, <1>5
  <2>2. r.entry.at <= s.entry.at
    BY <1>1, <1>3, <1>5
  <2> HIDE DEF r, s
  <2>3. r \in log /\ s \in log /\ r.entry.id = s.entry.id
    BY <1>2, <2>1
  <2> QED
    BY <2>1, <2>2, <2>3, StagesFollowTime DEF r, s
<1> QED
  BY <1>3, <1>4, <1>5

-----------------------------------------------------------------------------

LEMMA AuditInitially == AuditInit => AuditInv
<1> SUFFICES ASSUME AuditInit PROVE AuditInv
  OBVIOUS
<1>1. now = 0 /\ log = {} /\ rowid = 0 /\ kept = {}
      /\ writer = [d \in Decisions |-> [pc |-> "idle", done |-> 0, at |-> 0]]
  BY DEF AuditInit
<1>2. AuditTypes
  BY <1>1, FS_EmptySet DEF AuditTypes, WriterRecord
<1>3. RowsInOrder /\ WritersFollow
  BY <1>1 DEF RowsInOrder, WritersFollow
<1> QED
  BY <1>1, <1>2, <1>3 DEF AuditInv

LEMMA WriterFields ==
  ASSUME AuditTypes, NEW d \in Decisions
  PROVE  /\ writer[d] \in WriterRecord
         /\ writer[d].pc \in {"idle", "insert", "load", "store", "fail"}
         /\ writer[d].done \in 0 .. 3 /\ writer[d].at \in Nat
         /\ DOMAIN writer[d] = {"pc", "done", "at"}
BY DEF AuditTypes, WriterRecord

\* One writer goes on, and nothing but the history changes.
LEMMA WriterGoesOn ==
  ASSUME AuditInv, NEW d \in Decisions, NEW w \in WriterRecord,
         writer' = [writer EXCEPT ![d] = w], UNCHANGED <<now, log, rowid>>,
         w.at <= now, writer[d].at <= w.at, w.pc # "idle" => w.done < 3,
         Reached(d) <= w.done + (IF w.pc \in {"load", "store"} THEN 1 ELSE 0),
         w.pc \in {"load", "store"} => Lasts([id |-> d, stage |-> w.done + 1, at |-> w.at]),
         kept' \subseteq AuditEntry, \A entry \in kept' : Lasts(entry)
  PROVE  AuditInv'
<1>0. /\ AuditTypes /\ RowsInOrder /\ WritersFollow
      /\ log' = log /\ rowid' = rowid /\ now' = now
  BY DEF AuditInv
<1>1. writer'[d] = w /\ \A e \in Decisions \ {d} : writer'[e] = writer[e]
  BY <1>0 DEF AuditTypes
<1>2. AuditTypes'
  BY <1>0 DEF AuditTypes, AuditRow, AuditEntry, WriterRecord
<1>3. \A entry : Lasts(entry) => Lasts(entry)'
  BY <1>0 DEF Lasts
<1>4. ASSUME NEW e \in Decisions
      PROVE  Reached(e) <= Reached(e)' /\ Reached(e) \in Nat /\ Reached(e)' \in Nat
             /\ writer[e].at <= writer'[e].at /\ writer[e].at \in Nat /\ writer'[e].at \in Nat
  <2>1. writer[e].at \in Nat /\ writer'[e].at \in Nat /\ writer[e].done \in Nat
        /\ writer'[e].done \in Nat
    BY <1>0, <1>2 DEF AuditTypes, WriterRecord
  <2>2. CASE e = d
    BY <1>1, <2>1, <2>2 DEF Reached
  <2>3. CASE e # d
    BY <1>1, <2>1, <2>3 DEF Reached
  <2> QED
    BY <2>2, <2>3
<1>5. RowsInOrder'
  <2>1. ASSUME NEW r \in log
        PROVE  /\ r.row <= rowid /\ r.entry.at <= writer'[r.entry.id].at
               /\ r.entry.stage <= Reached(r.entry.id)'
    <3>1. /\ r.row <= rowid /\ r.entry.at <= writer[r.entry.id].at
          /\ r.entry.stage <= Reached(r.entry.id)
      BY <1>0 DEF RowsInOrder
    <3>2. /\ r.entry.id \in Decisions /\ r.entry.at \in Nat /\ r.entry.stage \in Nat
      BY <1>0, AuditFields
    <3>3. Reached(r.entry.id) <= Reached(r.entry.id)' /\ Reached(r.entry.id) \in Nat
          /\ Reached(r.entry.id)' \in Nat
          /\ writer[r.entry.id].at <= writer'[r.entry.id].at
          /\ writer[r.entry.id].at \in Nat /\ writer'[r.entry.id].at \in Nat
      BY <1>4, <3>2
    <3> QED
      BY <3>1, <3>2, <3>3
  <2> QED
    BY <1>0, <2>1 DEF RowsInOrder, Reached
<1>6. WritersFollow'
  <2> SUFFICES ASSUME NEW e \in Decisions
               PROVE  /\ writer'[e].at <= now
                      /\ writer'[e].pc # "idle" => writer'[e].done < 3
                      /\ writer'[e].pc \in {"load", "store"} => Lasts(Row(e))'
    BY <1>0 DEF WritersFollow
  <2>1. CASE e = d
    <3>1. Row(e)' = [id |-> d, stage |-> w.done + 1, at |-> w.at]
      BY <1>1, <2>1 DEF Row
    <3>2. w.pc \in {"load", "store"} => Lasts(Row(e))'
      BY <1>0, <3>1 DEF Lasts
    <3> QED
      BY <1>1, <2>1, <3>2
  <2>2. CASE e # d
    <3>1. Row(e)' = Row(e)
      BY <1>1, <2>2 DEF Row
    <3>2. Lasts(Row(e)) => Lasts(Row(e))'
      BY <1>0, <3>1 DEF Lasts
    <3> QED
      BY <1>0, <1>1, <2>2, <3>2 DEF WritersFollow
  <2> QED
    BY <2>1, <2>2
<1>7. (\A entry \in kept : Lasts(entry))'
  BY <1>3
<1> QED
  BY <1>2, <1>5, <1>6, <1>7 DEF AuditInv

\* The calls of a writer that do not write to the table.
LEMMA WriterCallKeeps ==
  ASSUME AuditInv, NEW d \in Decisions,
         \/ Log(d)
         \/ Insert(d) /\ failing
         \/ LoadHealth(d)
         \/ StoreHealthy(d)
         \/ StoreUnhealthy(d)
  PROVE  AuditInv'
<1> DEFINE w == writer[d]
<1>0. AuditTypes /\ WritersFollow /\ now \in Nat /\ \A entry \in kept : Lasts(entry)
  BY DEF AuditInv, AuditTypes
<1>1. /\ w \in WriterRecord /\ w.done \in 0 .. 3 /\ w.at \in Nat /\ w.at <= now
      /\ w.pc # "idle" => w.done < 3
      /\ w.pc \in {"load", "store"} => Lasts(Row(d))
      /\ writer \in [Decisions -> WriterRecord] /\ kept \subseteq AuditEntry
      /\ w = [pc |-> w.pc, done |-> w.done, at |-> w.at]
  BY <1>0, WriterFields DEF WritersFollow, AuditTypes, WriterRecord
<1>2. CASE Log(d)
  <2> DEFINE new == [w EXCEPT !.pc = "insert", !.at = now]
  <2>1. /\ w.pc = "idle" /\ w.done < Len(Stages)
        /\ UNCHANGED <<now, log, rowid>> /\ UNCHANGED kept
    BY <1>2 DEF Log, history, rows
  <2>2. w.done < 3
    BY <2>1 DEF Stages
  <2>3. writer' = [writer EXCEPT ![d] = new]
    BY <1>2 DEF Log
  <2>4. new \in WriterRecord
    BY <1>0, <1>1 DEF WriterRecord
  <2>5. new.pc = "insert" /\ new.done = w.done /\ new.at = now
    BY <1>1
  <2> HIDE DEF new
  <2>6. Reached(d) <= new.done + (IF new.pc \in {"load", "store"} THEN 1 ELSE 0)
    BY <1>1, <2>1, <2>5 DEF Reached
  <2>7. new.at <= now /\ writer[d].at <= new.at /\ (new.pc # "idle" => new.done < 3)
        /\ new.pc \notin {"load", "store"}
    BY <1>0, <1>1, <2>2, <2>5
  <2>8. kept' \subseteq AuditEntry /\ \A entry \in kept' : Lasts(entry)
    BY <1>0, <1>1, <2>1
  <2> QED
    BY <2>1, <2>3, <2>4, <2>6, <2>7, <2>8, WriterGoesOn
<1>3. ASSUME UNCHANGED <<now, log, rowid>>, UNCHANGED kept,
             \/ w.pc = "load" /\ GoesOn(d, "store")
             \/ w.pc = "insert" /\ GoesOn(d, "fail")
             \/ w.pc = "fail" /\ GoesOn(d, "idle")
      PROVE  AuditInv'
  <2> DEFINE pc == CASE w.pc = "load" -> "store" [] w.pc = "insert" -> "fail"
                     [] OTHER -> "idle"
             new == [w EXCEPT !.pc = pc]
  <2>1. writer' = [writer EXCEPT ![d] = new]
    BY <1>3 DEF GoesOn
  <2>a. w.pc \in {"load", "insert", "fail"}
    BY <1>3
  <2>0. /\ pc \in {"idle", "fail", "store"}
        /\ \/ w.pc = "load" /\ pc = "store"
           \/ w.pc = "insert" /\ pc = "fail"
           \/ w.pc = "fail" /\ pc = "idle"
    BY <2>a
  <2> HIDE DEF pc
  <2>2. new \in WriterRecord /\ new.pc = pc /\ new.done = w.done /\ new.at = w.at
    BY <1>1, <2>0 DEF WriterRecord
  <2> HIDE DEF new
  <2>3. Reached(d) <= new.done + (IF new.pc \in {"load", "store"} THEN 1 ELSE 0)
    BY <1>1, <2>0, <2>2 DEF Reached
  <2>4. new.pc \in {"load", "store"} =>
          Lasts([id |-> d, stage |-> new.done + 1, at |-> new.at])
    BY <1>1, <2>0, <2>2 DEF Row
  <2>5. new.at <= now /\ writer[d].at <= new.at /\ (new.pc # "idle" => new.done < 3)
    BY <1>0, <1>1, <2>0, <2>2
  <2>6. kept' \subseteq AuditEntry /\ \A entry \in kept' : Lasts(entry)
    BY <1>0, <1>1, <1>3
  <2> QED
    BY <1>3, <2>1, <2>2, <2>3, <2>4, <2>5, <2>6, WriterGoesOn
<1>4. ASSUME w.pc \in {"load", "store"}, Answered(d, "idle"), UNCHANGED <<now, log, rowid>>
      PROVE  AuditInv'
  <2> DEFINE new == [pc |-> "idle", done |-> w.done + 1, at |-> w.at]
  <2>1. writer' = [writer EXCEPT ![d] = new] /\ kept' = kept \cup {Row(d)}
    BY <1>1, <1>4 DEF Answered
  <2>2. w.done < 3
    BY <1>1, <1>4
  <2>3. new \in WriterRecord /\ new.pc = "idle" /\ new.done = w.done + 1 /\ new.at = w.at
    BY <1>1, <2>2 DEF WriterRecord
  <2>4. Row(d) \in AuditEntry
    BY <1>1, <2>2 DEF Row, AuditEntry
  <2> HIDE DEF new
  <2>5. Reached(d) <= new.done + (IF new.pc \in {"load", "store"} THEN 1 ELSE 0)
    BY <1>1, <1>4, <2>3 DEF Reached
  <2>6. kept' \subseteq AuditEntry /\ \A entry \in kept' : Lasts(entry)
    BY <1>0, <1>1, <1>4, <2>1, <2>4
  <2>7. new.at <= now /\ writer[d].at <= new.at /\ (new.pc # "idle" => new.done < 3)
        /\ new.pc \notin {"load", "store"}
    BY <1>0, <1>1, <2>3
  <2> QED
    BY <1>4, <2>1, <2>3, <2>5, <2>6, <2>7, WriterGoesOn
<1>5. CASE Insert(d) /\ failing
  <2>1. w.pc = "insert" /\ GoesOn(d, "fail") /\ UNCHANGED <<now, log, rowid>>
        /\ UNCHANGED kept
    BY <1>5 DEF Insert, rows
  <2> QED
    BY <1>3, <2>1
<1>6. CASE LoadHealth(d)
  <2>1. w.pc = "load" /\ UNCHANGED <<now, log, rowid>>
    BY <1>6 DEF LoadHealth, rows
  <2>3. CASE Answered(d, "idle")
    BY <1>4, <2>1, <2>3
  <2>4. CASE GoesOn(d, "store") /\ UNCHANGED kept
    BY <1>3, <2>1, <2>4
  <2>5. CASE healthy
    <3>1. Answered(d, "idle")
      BY <1>6, <2>5 DEF LoadHealth
    <3> QED
      BY <2>3, <3>1
  <2>6. CASE ~healthy
    <3>1. GoesOn(d, "store") /\ UNCHANGED kept
      BY <1>6, <2>6 DEF LoadHealth
    <3> QED
      BY <2>4, <3>1
  <2> QED
    BY <2>5, <2>6
<1>7. CASE StoreHealthy(d)
  <2>1. w.pc = "store" /\ UNCHANGED <<now, log, rowid>> /\ Answered(d, "idle")
    BY <1>7 DEF StoreHealthy, rows
  <2> QED
    BY <1>4, <2>1
<1>8. CASE StoreUnhealthy(d)
  <2>1. w.pc = "fail" /\ GoesOn(d, "idle") /\ UNCHANGED <<now, log, rowid>>
        /\ UNCHANGED kept
    BY <1>8 DEF StoreUnhealthy, rows, history
  <2> QED
    BY <1>3, <2>1
<1> QED
  BY <1>2, <1>5, <1>6, <1>7, <1>8

\* insert_audit_log: the row is the last of the table, and of its decision.
LEMMA InsertKeeps ==
  ASSUME AuditInv, NEW d \in Decisions, Insert(d), ~failing
  PROVE  AuditInv'
<1> DEFINE w == writer[d]
           row == [row |-> rowid + 1, entry |-> Row(d)]
<1>0. /\ AuditTypes /\ RowsInOrder /\ WritersFollow /\ \A entry \in kept : Lasts(entry)
      /\ rowid \in Nat
  BY DEF AuditInv, AuditTypes
<1>1. /\ w.pc = "insert" /\ rowid' = rowid + 1 /\ log' = log \cup {row}
      /\ GoesOn(d, "load") /\ UNCHANGED <<now, kept>>
  BY DEF Insert
<1>2. /\ w \in WriterRecord /\ w.done \in 0 .. 2 /\ w.at \in Nat /\ w.at <= now
      /\ writer \in [Decisions -> WriterRecord]
  <2>1. w.done \in 0 .. 3 /\ w.done < 3
    BY <1>0, <1>1, WriterFields DEF WritersFollow
  <2> QED
    BY <1>0, <2>1, WriterFields DEF WritersFollow, AuditTypes
<1>3. /\ writer'[d].pc = "load" /\ writer'[d].done = w.done /\ writer'[d].at = w.at
      /\ \A e \in Decisions \ {d} : writer'[e] = writer[e]
      /\ writer' \in [Decisions -> WriterRecord]
  BY <1>1, <1>2 DEF GoesOn, WriterRecord
<1>4. /\ Row(d) \in AuditEntry /\ Row(d).id = d /\ Row(d).stage = w.done + 1
      /\ Row(d).at = w.at
  BY <1>2 DEF Row, AuditEntry
<1>5. row \in AuditRow /\ row.row = rowid + 1 /\ row.entry = Row(d)
  BY <1>0, <1>4 DEF AuditRow
<1> HIDE DEF row
<1>6. AuditTypes'
  <2>1. IsFiniteSet(log')
    BY <1>0, <1>1, FS_AddElement DEF AuditTypes
  <2>2. log' \subseteq AuditRow /\ rowid' \in Nat /\ now' \in Nat /\ kept' \subseteq AuditEntry
    BY <1>0, <1>1, <1>5 DEF AuditTypes
  <2> QED
    BY <1>3, <2>1, <2>2 DEF AuditTypes, AuditRow, AuditEntry, WriterRecord
<1>7. \A r \in log : r.row \in Nat /\ r.row <= rowid /\ r.entry.at \in Nat
                     /\ r.entry.stage \in Nat /\ r.entry.id \in Decisions
                     /\ r.entry.at <= writer[r.entry.id].at
                     /\ r.entry.stage <= Reached(r.entry.id)
  BY <1>0, AuditFields DEF RowsInOrder
<1>8. \A e \in Decisions : writer'[e].at = writer[e].at
  BY <1>3
<1>9. /\ Reached(d) = w.done /\ Reached(d)' = w.done + 1
      /\ \A e \in Decisions \ {d} : Reached(e)' = Reached(e)
  BY <1>1, <1>2, <1>3 DEF Reached
<1>10. ASSUME NEW r \in log'
       PROVE  /\ r.row <= rowid' /\ r.entry.at <= writer'[r.entry.id].at
              /\ r.entry.stage <= Reached(r.entry.id)'
  <2>1. CASE r = row
    BY <1>0, <1>1, <1>2, <1>3, <1>4, <1>5, <1>9, <2>1
  <2>2. CASE r \in log /\ r.entry.id = d
    BY <1>0, <1>1, <1>2, <1>7, <1>8, <1>9, <2>2
  <2>3. CASE r \in log /\ r.entry.id # d
    <3>1. r.entry.id \in Decisions \ {d} /\ r.row \in Nat /\ r.row <= rowid
      BY <1>7, <2>3
    <3>2. r.row <= rowid'
      BY <1>0, <1>1, <3>1
    <3>3. r.entry.at <= writer'[r.entry.id].at
      BY <1>7, <1>8, <2>3, <3>1
    <3>4. r.entry.stage <= Reached(r.entry.id)'
      BY <1>7, <1>9, <2>3, <3>1
    <3> QED
      BY <3>2, <3>3, <3>4
  <2> QED
    BY <1>1, <2>1, <2>2, <2>3
<1>11. ASSUME NEW r \in log', NEW s \in log', r.row = s.row
       PROVE  r = s
  BY <1>0, <1>1, <1>5, <1>7, <1>11 DEF RowsInOrder
<1>12. ASSUME NEW r \in log', NEW s \in log', r.entry.id = s.entry.id, r.row < s.row
       PROVE  r.entry.at <= s.entry.at /\ r.entry.stage < s.entry.stage
  <2>1. CASE r \in log /\ s \in log
    BY <1>0, <1>12, <2>1 DEF RowsInOrder
  <2>2. CASE r \in log /\ s = row
    <3>1. r.entry.id = d /\ r.entry.at <= w.at /\ r.entry.stage <= w.done
          /\ r.entry.stage \in Nat
      BY <1>4, <1>5, <1>7, <1>9, <1>12, <2>2
    <3> QED
      BY <1>2, <1>4, <1>5, <2>2, <3>1
  <2>3. r # row
    BY <1>0, <1>1, <1>5, <1>7, <1>12
  <2> QED
    BY <1>1, <2>1, <2>2, <2>3
<1>13. RowsInOrder'
  BY <1>10, <1>11, <1>12 DEF RowsInOrder
<1>14. \A entry : Lasts(entry) => Lasts(entry)'
  BY <1>1 DEF Lasts
<1>15. Lasts(Row(d))'
  <2>1. Row(d)' = Row(d)
    BY <1>3 DEF Row
  <2>2. row \in log' /\ row.entry = Row(d)'
    BY <1>1, <1>5, <2>1
  <2> QED
    BY <2>2 DEF Lasts
<1>16. WritersFollow'
  <2> SUFFICES ASSUME NEW e \in Decisions
               PROVE  /\ writer'[e].at <= now'
                      /\ writer'[e].pc # "idle" => writer'[e].done < 3
                      /\ writer'[e].pc \in {"load", "store"} => Lasts(Row(e))'
    BY DEF WritersFollow
  <2>1. CASE e = d
    BY <1>1, <1>2, <1>3, <1>15, <2>1
  <2>2. CASE e # d
    <3>1. Row(e)' = Row(e) /\ writer'[e] = writer[e]
      BY <1>3, <2>2 DEF Row
    <3>2. Lasts(Row(e)) => Lasts(Row(e))'
      BY <1>1, <3>1 DEF Lasts
    <3> QED
      BY <1>0, <1>1, <3>1, <3>2 DEF WritersFollow
  <2> QED
    BY <2>1, <2>2
<1>17. (\A entry \in kept : Lasts(entry))'
  BY <1>0, <1>1, <1>14
<1> QED
  BY <1>6, <1>13, <1>16, <1>17 DEF AuditInv

\* The clock, the clean-up, the storage and the probe.
LEMMA TableKeeps ==
  ASSUME AuditAssumption, AuditInv, UNCHANGED <<rowid, writer, kept>>,
         \/ now' = now /\ log' = {r \in log : ~Old(r.entry)}
         \/ now' \in {now, now + 1} /\ log' = log
  PROVE  AuditInv'
<1>0. AuditTypes /\ RowsInOrder /\ WritersFollow /\ \A entry \in kept : Lasts(entry)
  BY DEF AuditInv
<1>1. log' \subseteq log /\ now \in Nat /\ now' \in Nat /\ now <= now' /\ IsFiniteSet(log')
  <2>1. log' \subseteq log /\ IsFiniteSet(log)
    BY <1>0 DEF AuditTypes
  <2> QED
    BY <1>0, <2>1, FS_Subset DEF AuditTypes
<1>2. AuditTypes'
  <2>1. log' \subseteq AuditRow
    BY <1>0, <1>1 DEF AuditTypes
  <2> QED
    BY <1>0, <1>1, <2>1 DEF AuditTypes, AuditRow, AuditEntry, WriterRecord
<1>3. RowsInOrder'
  BY <1>0, <1>1 DEF RowsInOrder, Reached
<1>4. ASSUME NEW entry \in AuditEntry, Lasts(entry) PROVE Lasts(entry)'
  <2> SUFFICES ASSUME now' - entry.at <= AuditRetention
               PROVE  \E r \in log' : r.entry = entry
    BY DEF Lasts
  <2>1. entry.at \in Nat /\ AuditRetention \in Nat
    BY DEF AuditEntry, AuditAssumption
  <2>2. now - entry.at <= AuditRetention
    BY <1>1, <2>1
  <2>3. PICK r \in log : r.entry = entry
    BY <1>4, <2>2 DEF Lasts
  <2>4. ~Old(r.entry)
    BY <1>1, <2>1, <2>2, <2>3 DEF Old
  <2> QED
    BY <2>3, <2>4
<1>5. WritersFollow'
  <2> SUFFICES ASSUME NEW d \in Decisions
               PROVE  /\ writer[d].at <= now'
                      /\ writer[d].pc # "idle" => writer[d].done < 3
                      /\ writer[d].pc \in {"load", "store"} => Lasts(Row(d))'
    BY DEF WritersFollow
  <2>1. /\ writer[d].at <= now /\ (writer[d].pc # "idle" => writer[d].done < 3)
        /\ writer[d].pc \in {"load", "store"} => Lasts(Row(d))
        /\ writer[d].at \in Nat /\ writer[d].done \in 0 .. 3
    BY <1>0, WriterFields DEF WritersFollow
  <2>2. Row(d)' = Row(d)
    BY DEF Row
  <2>3. ASSUME writer[d].pc \in {"load", "store"} PROVE Lasts(Row(d))'
    <3>1. Row(d) \in AuditEntry
      BY <2>1, <2>3 DEF Row, AuditEntry
    <3> DEFINE entry == Row(d)
    <3> HIDE DEF entry
    <3>2. entry \in AuditEntry /\ Lasts(entry)
      BY <2>1, <2>3, <3>1 DEF entry
    <3> QED
      BY <1>4, <2>2, <3>1, <2>1, <2>3 DEF Lasts
  <2> QED
    BY <1>1, <2>1, <2>3
<1>6. (\A entry \in kept : Lasts(entry))'
  <2>1. kept \subseteq AuditEntry
    BY <1>0 DEF AuditTypes
  <2> QED
    BY <1>0, <1>4, <2>1
<1> QED
  BY <1>2, <1>3, <1>5, <1>6 DEF AuditInv

\* AuditLog: however SQLite orders rows of the same time, the chain of a decision holds
\* every stage that was answered Ok until its retention is over, none twice, and in
\* order up to equal times, however the writers, the clean-up and the failures of the
\* storage interleave (audit.rs, write_entry and get_decision_chain; storage.rs,
\* cleanup_old_audit_logs).
THEOREM ChainIsWhole == AuditSpec => []ChainComplete
<1> USE AuditAssumption
<1>1. AuditInit => AuditInv
  BY AuditInitially
<1>2. AuditInv /\ [AuditNext]_<<now, auditVars>> => AuditInv'
  <2> SUFFICES ASSUME AuditInv, [AuditNext]_<<now, auditVars>> PROVE AuditInv'
    OBVIOUS
  <2>1. ASSUME NEW d \in Decisions,
               Log(d) \/ Insert(d) \/ LoadHealth(d) \/ StoreHealthy(d) \/ StoreUnhealthy(d)
        PROVE  AuditInv'
    <3>1. CASE Insert(d) /\ ~failing
      BY <3>1, InsertKeeps
    <3>2. CASE Insert(d) /\ failing
      BY <3>2, WriterCallKeeps
    <3>3. CASE Log(d)
      BY <3>3, WriterCallKeeps
    <3>4. CASE LoadHealth(d)
      BY <3>4, WriterCallKeeps
    <3>5. CASE StoreHealthy(d)
      BY <3>5, WriterCallKeeps
    <3>6. CASE StoreUnhealthy(d)
      BY <3>6, WriterCallKeeps
    <3> QED
      BY <2>1, <3>1, <3>2, <3>3, <3>4, <3>5, <3>6
  <2>2. CASE Cleanup
    BY <2>2, TableKeeps DEF Cleanup, calls, history
  <2>3. CASE AuditTick \/ Fail \/ Repair \/ ProbeReads \/ ProbeRestores
             \/ UNCHANGED <<now, auditVars>>
    <3>1. UNCHANGED <<rowid, writer, kept, log>> /\ now' \in {now, now + 1}
      BY <2>3 DEF AuditTick, Passes, Fail, Repair, ProbeReads, ProbeRestores, auditVars,
                  rows, calls, history
    <3> QED
      BY <3>1, TableKeeps
  <2> QED
    BY <2>1, <2>2, <2>3 DEF AuditNext
<1>3. AuditInv => ChainComplete
  BY ChainOfRows
<1> QED
  BY <1>1, <1>2, <1>3, PTL DEF AuditSpec
=============================================================================
