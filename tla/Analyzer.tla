------------------------------ MODULE Analyzer ------------------------------
(***************************************************************************)
(* The AnalyzerService and its AiBackend (ai_backend.rs): tasks evaluate   *)
(* certificates at the same time, each by the rules and, while the backend *)
(* is AiPowered, by the model.  A model that fails or is late puts the     *)
(* backend into RuleBasedFallback, for all tasks and for good.             *)
(*                                                                         *)
(* The lock of the mode is held for one look or one change at a time.      *)
(* Without the feature onnx (ai_backend_stub.rs) there is no model, as     *)
(* after a failed load.                                                    *)
(***************************************************************************)
EXTENDS Integers, FiniteSets

CONSTANTS
  Tasks,      \* tasks that evaluate certificates
  Outcomes,   \* what an inference may come to
  MaxEvals    \* bound of evaluations

ASSUME AnalyzerAssumption ==
  /\ Outcomes \subseteq {"ok", "error", "timeout"} /\ MaxEvals \in Nat

VARIABLES
  session,    \* whether a model was loaded
  reason,     \* why the backend is in fallback, or "" while it is AiPowered
  task,       \* where each evaluation stands, and what it will answer
  evals,      \* evaluations begun
  late        \* history: the tasks that began in fallback

analyzerVars == <<session, reason, task, evals, late>>

InFallback == reason # ""

\* Which sources an answer has, and the error of the backend.
NoAnswer == [rules |-> FALSE, ai |-> FALSE, error |-> ""]
Idle == [pc |-> "idle", answer |-> NoAnswer]

\* AiBackend::new, or ::fallback when no path is configured.
AnalyzerInit ==
  /\ session \in BOOLEAN
  /\ reason = IF session THEN "" ELSE "load"
  /\ task = [t \in Tasks |-> Idle]
  /\ evals = 0 /\ late = {}

Goto(t, pc) == task' = [task EXCEPT ![t].pc = pc]

Fails(t, pc, error) ==
  task' = [task EXCEPT ![t].pc = pc, ![t].answer.error = error]

\* AnalyzerService::evaluate: the rules, always.
Evaluate(t) ==
  /\ task[t].pc = "idle" /\ evals < MaxEvals
  /\ evals' = evals + 1
  /\ task' = [task EXCEPT ![t] = [pc |-> "mode", answer |-> [NoAnswer EXCEPT !.rules = TRUE]]]
  /\ late' = IF InFallback THEN late \cup {t} ELSE late \ {t}
  /\ UNCHANGED <<session, reason>>

\* AiBackend::evaluate looks at the mode,
ReadMode(t) ==
  /\ task[t].pc = "mode"
  /\ IF InFallback THEN Fails(t, "done", "in fallback")
     ELSE IF ~session THEN Fails(t, "enter", "no session")
     ELSE Goto(t, "infer")
  /\ UNCHANGED <<session, reason, evals, late>>

\* waits for the model up to its timeout,
Infer(t) ==
  /\ task[t].pc = "infer"
  /\ \E outcome \in Outcomes :
       IF outcome = "ok"
       THEN task' = [task EXCEPT ![t].pc = "done", ![t].answer.ai = TRUE]
       ELSE Fails(t, "enter", outcome)
  /\ UNCHANGED <<session, reason, evals, late>>

\* Mutant: the mode is not looked at again under the write lock.
EnterFallback_Blind(t) ==
  /\ task[t].pc = "enter"
  /\ reason' = task[t].answer.error
  /\ Goto(t, "done")
  /\ UNCHANGED <<session, evals, late>>

\* and enters fallback unless another task has.
EnterFallback(t) ==
  /\ task[t].pc = "enter"
  /\ reason' = IF InFallback THEN reason ELSE task[t].answer.error
  /\ Goto(t, "done")
  /\ UNCHANGED <<session, evals, late>>

Answer(t) ==
  /\ task[t].pc = "done"
  /\ task' = [task EXCEPT ![t] = Idle]
  /\ UNCHANGED <<session, reason, evals, late>>

AnalyzerNext == \E t \in Tasks :
  Evaluate(t) \/ ReadMode(t) \/ Infer(t) \/ EnterFallback(t) \/ Answer(t)

AnalyzerSpec == AnalyzerInit /\ [][AnalyzerNext]_analyzerVars

-----------------------------------------------------------------------------
(* Correctness *)

\* Once entered, fallback is never left and its reason is the first failure
\* (enter_fallback), although evaluations that saw the model alive go on failing and
\* succeeding; one that began in fallback gets nothing from the model
\* (AiBackend::evaluate), and every answer has the anomalies of the rules.
FallbackHolds ==
  [][/\ InFallback => reason' = reason
     /\ \A t \in Tasks :
          task'[t].pc = "done" => /\ task'[t].answer.rules
                                  /\ task'[t].answer.ai => t \notin late'
                                  /\ task'[t].answer.error # "" => reason' # ""]_analyzerVars
=============================================================================
