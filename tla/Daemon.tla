------------------------------- MODULE Daemon -------------------------------
(***************************************************************************)
(* The daemon's life (tlapix-daemon/src/main.rs): it checks the programs   *)
(* (tlapix-executor/src/integrity.rs), opens the storage, starts its       *)
(* services one after the other, waits for a signal, cancels, sleeps for   *)
(* two seconds and ends.  Nobody waits for the tasks: they end by          *)
(* themselves when they see the cancellation, or with the process.         *)
(*                                                                         *)
(* The servers of the web UI and of Prometheus are tasks of their own,     *)
(* which give up when they cannot bind.  A signal that comes before main   *)
(* installs its handlers kills the process; one that comes after the first *)
(* is not looked at.                                                       *)
(***************************************************************************)
EXTENDS Integers, Sequences, FiniteSets

CONSTANTS
  Manifests,  \* what the files of a manifest are like, in its order; main has <<>>
  Configs     \* what the configuration may ask for

\* Whether there are a Prometheus address and a web UI, and whether the endpoints of
\* the exports are well formed.
Config == [prometheus : BOOLEAN, web_ui : BOOLEAN, exports : BOOLEAN]

ASSUME DaemonAssumption ==
  /\ Configs \subseteq Config
  /\ \A m \in Manifests : m \in Seq({"intact", "missing", "unreadable", "changed"})

VARIABLES
  manifest,   \* the programs to check
  stage,      \* where main stands
  config,     \* the configuration, once loaded
  checked,    \* programs that passed
  cancelled,  \* the token
  signalled,  \* the signal that has come, if any
  task,       \* the state of every task
  exit        \* how the process ended

daemonVars == <<manifest, stage, config, checked, cancelled, signalled, task, exit>>

Services == {"collector", "analyzer", "executor", "observability"}
Servers == {"prometheus", "web_ui"}
Tasks == Services \cup Servers \cup {"cleanup"}

Running == exit = "none"

DaemonInit ==
  /\ manifest \in Manifests
  /\ stage = "args" /\ config = [prometheus |-> FALSE, web_ui |-> FALSE, exports |-> TRUE]
  /\ checked = 0 /\ cancelled = FALSE /\ signalled = "none"
  /\ task = [t \in Tasks |-> "absent"] /\ exit = "none"

-----------------------------------------------------------------------------
(* main *)

Stands(where) == stage = where /\ Running

\* main returns: with the runtime go all tasks, at the await they stand at.
Exit(how) ==
  /\ exit' = how
  /\ UNCHANGED <<manifest, stage, config, checked, cancelled, signalled, task>>

Start(t, state) == task' = [task EXCEPT ![t] = state]

\* parse_args: --version and a wrong argument end the program.
ParseArgs ==
  /\ Stands("args")
  /\ \/ Exit("version") \/ Exit("usage")
     \/ stage' = "config" /\ UNCHANGED <<manifest, config, checked, cancelled, signalled, task, exit>>

LoadConfig ==
  /\ Stands("config")
  /\ \/ Exit("error")
     \/ /\ config' \in Configs /\ stage' = "integrity"
        /\ UNCHANGED <<manifest, checked, cancelled, signalled, task, exit>>

Acceptable(file) == file = "intact"

\* validate_program_integrity: the first program that is missing, unreadable or has
\* another checksum ends the start.
Validate ==
  /\ Stands("integrity")
  /\ \/ /\ checked < Len(manifest)
        /\ IF Acceptable(manifest[checked + 1])
           THEN /\ checked' = checked + 1
                /\ UNCHANGED <<manifest, stage, config, cancelled, signalled, task, exit>>
           ELSE Exit("error")
     \/ /\ checked = Len(manifest) /\ stage' = "storage"
        /\ UNCHANGED <<manifest, config, checked, cancelled, signalled, task, exit>>

OpenStorage ==
  /\ Stands("storage")
  /\ \/ Exit("error")
     \/ /\ Start("cleanup", "certificates") /\ stage' = "collector"
        /\ UNCHANGED <<manifest, config, checked, cancelled, signalled, exit>>

NextService == [collector |-> "analyzer", analyzer |-> "executor", executor |-> "observability"]

\* start_collector, start_analyzer, start_executor.
StartService ==
  /\ Running /\ stage \in DOMAIN NextService
  /\ Start(stage, IF stage = "collector" THEN "loading" ELSE "waiting")
  /\ stage' = NextService[stage]
  /\ UNCHANGED <<manifest, config, checked, cancelled, signalled, exit>>

\* start_observability: an endpoint that is not well formed ends the start, with the
\* services already running and not cancelled.
StartObservability ==
  /\ Stands("observability")
  /\ IF config.exports
     THEN /\ Start("observability", "starting") /\ stage' = "web_ui"
          /\ UNCHANGED <<manifest, config, checked, cancelled, signalled, exit>>
     ELSE Exit("error")

StartWebUi ==
  /\ Stands("web_ui")
  /\ IF config.web_ui THEN Start("web_ui", "binding") ELSE UNCHANGED task
  /\ stage' = "waiting"
  /\ UNCHANGED <<manifest, config, checked, cancelled, signalled, exit>>

\* Mutant: only Ctrl+C is waited for.
Handled_CtrlC(signal) == signal = "SIGINT"

Handled(signal) == signal \in {"SIGINT", "SIGTERM"}

\* wait_for_shutdown returns, and main cancels.
Shutdown ==
  /\ Stands("waiting") /\ Handled(signalled)
  /\ cancelled' = TRUE /\ stage' = "sleeping"
  /\ UNCHANGED <<manifest, config, checked, signalled, task, exit>>

Leave == Stands("sleeping") /\ Exit("ok")

Main ==
  \/ ParseArgs \/ LoadConfig \/ Validate \/ OpenStorage \/ StartService
  \/ StartObservability \/ StartWebUi \/ Shutdown \/ Leave

-----------------------------------------------------------------------------
(* Tasks *)

Moves(t, from, to) ==
  /\ Running /\ task[t] = from /\ task' = [task EXCEPT ![t] = to]
  /\ UNCHANGED <<manifest, stage, config, checked, cancelled, signalled, exit>>

\* Both clean-ups, each of which may fail with a warning.
CleansUp ==
  \/ Moves("cleanup", "certificates", "audit_log")
  \/ Moves("cleanup", "audit_log", "done")

\* The collector reloads fingerprints first, or warns.
Loads == Moves("collector", "loading", "waiting")

\* The task of the exports starts a task for Prometheus.
Observes ==
  /\ Running /\ task["observability"] = "starting"
  /\ task' = [task EXCEPT !["observability"] = "waiting",
                          !["prometheus"] = IF config.prometheus THEN "binding" ELSE @]
  /\ UNCHANGED <<manifest, stage, config, checked, cancelled, signalled, exit>>

Binds(t) == Moves(t, "binding", "serving") \/ Moves(t, "binding", "failed")

Stops(t) ==
  /\ cancelled
  /\ Moves(t, "waiting", "stopped") \/ Moves(t, "serving", "stopped")

TaskStep ==
  \/ CleansUp \/ Loads \/ Observes
  \/ \E t \in Servers : Binds(t)
  \/ \E t \in Services \cup Servers : Stops(t)

\* External: before main installs its handlers a signal kills the process.
Signal(s) ==
  /\ Running /\ signalled = "none"
  /\ signalled' = s
  /\ exit' = IF stage = "waiting" THEN "none" ELSE "killed"
  /\ UNCHANGED <<manifest, stage, config, checked, cancelled, task>>

DaemonNext == Main \/ TaskStep \/ \E s \in {"SIGINT", "SIGTERM"} : Signal(s)

\* main goes on by itself; so does every task.  Signals need not come.
DaemonSpec ==
  /\ DaemonInit /\ [][DaemonNext]_daemonVars
  /\ WF_daemonVars(Main) /\ WF_daemonVars(TaskStep)

-----------------------------------------------------------------------------
(* Correctness *)

\* A service runs only when every program of the manifest was intact (integrity.rs,
\* "abort startup"), and main is operational only with every service started.
ServicesAfterChecks ==
  /\ (\E t \in Tasks : task[t] # "absent") =>
       \A i \in DOMAIN manifest : manifest[i] = "intact"
  /\ stage \in {"waiting", "sleeping"} =>
       /\ \A t \in Services : task[t] # "absent"
       /\ config.exports

\* main starts or gives up, and a signal at any time ends it (main.rs, "Handles
\* graceful shutdown on SIGTERM/SIGINT"), whatever becomes of the servers; unless it
\* failed or was killed the tasks were cancelled first.
StopsWhenAsked ==
  /\ <>(stage = "waiting" \/ ~Running)
  /\ (signalled # "none") ~> (~Running)
  /\ [](exit = "ok" => cancelled)
=============================================================================
