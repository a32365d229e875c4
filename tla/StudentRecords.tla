--------------------------- MODULE StudentRecords ---------------------------
(***************************************************************************)
(* The StudentModel row of one trained checkpoint: how it is packaged and  *)
(* registered when its TAO job has succeeded, how the paired evaluate job  *)
(* decides on its quality, and the two requests that replay a failed half. *)
(*                                                                         *)
(*  - Packaging (a LoRA merge runs for up to an hour) and reading the      *)
(*    predictions are awaited, without a lock and without a session: what  *)
(*    was looked at before them may be different after.                    *)
(*  - The handler of a job's success is repeated, from its start, until    *)
(*    outputs_fetch_status says that it came to its end.                   *)
(***************************************************************************)
EXTENDS Naturals, FiniteSets

CONSTANTS
  Requests,         \* requests that may run at once
  MaxStudentEvents  \* bound: requests, crashes, exceptions

VARIABLES
  trained,        \* the train or quantize job succeeded
  rows,           \* StudentModel rows of this train and quantize pair
  packaging,      \* checkpoint_packaging_status of the first
  quality,        \* quality_status
  qualityRun,     \* quality_evaluation_run_id, 0 for null
  rescores,       \* completed runs with evaluation_source "tao"
  evaluateJob,    \* status of the paired evaluate job
  fetched,        \* jobs whose outputs_fetch_status is completed
  works,          \* what each coroutine awaits
  swallowed,      \* bookkeeping: the handler swallowed an exception
  studentEvents   \* bound counter

studentVars == <<trained, rows, packaging, quality, qualityRun, rescores, evaluateJob, fetched, works,
                 swallowed, studentEvents>>

\* The handlers of the two jobs, the local evaluation of a LoRA baseline.
Workers == {"train handler", "evaluate handler", "baseline"} \cup Requests

NoWork == [w \in Workers |-> [doing |-> "nothing", saw |-> 0]]

StudentInit ==
  /\ trained = FALSE
  /\ rows = 0 /\ packaging = "none"
  /\ quality = "pending" /\ qualityRun = 0 /\ rescores = 0
  /\ evaluateJob = "not_started"
  /\ fetched = {}
  /\ works = NoWork
  /\ swallowed = FALSE
  /\ studentEvents = 0

StudentEvent == studentEvents < MaxStudentEvents /\ studentEvents' = studentEvents + 1

Doing(w, what) == works[w].doing = what
Does(w, what)  == works' = [works EXCEPT ![w] = [doing |-> what, saw |-> rows]]
Done(w)        == works' = [works EXCEPT ![w].doing = "nothing"]

-----------------------------------------------------------------------------
(* Packaging and registration.                                             *)

TrainSucceeds ==
  /\ ~ trained /\ trained' = TRUE
  /\ UNCHANGED <<rows, packaging, quality, qualityRun, rescores, evaluateJob, fetched, works,
                 swallowed, studentEvents>>

\* Mutant: the marker says so at once.
HandleTrainedEarly ==
  /\ trained /\ "train" \notin fetched
  /\ Doing("train handler", "nothing")
  /\ Does("train handler", "packaging")
  /\ fetched' = fetched \cup {"train"}
  /\ UNCHANGED <<trained, rows, packaging, quality, qualityRun, rescores, evaluateJob, swallowed,
                 studentEvents>>

\* The poll saw the job succeed, or the tick finds that its outputs were never
\* dealt with.
HandleTrained ==
  /\ trained /\ "train" \notin fetched
  /\ Doing("train handler", "nothing")
  /\ Does("train handler", "packaging")
  /\ UNCHANGED <<trained, rows, packaging, quality, qualityRun, rescores, evaluateJob, fetched, swallowed,
                 studentEvents>>

\* A handler marks its job as dealt with in a transaction of its own: the
\* process may end before it.
Returns(w) ==
  \/ /\ Done(w)
     /\ fetched' = fetched \cup CASE w = "train handler"    -> {"train"}
                                   [] w = "evaluate handler" -> {"evaluate"}
                                   [] OTHER                  -> {}
     /\ UNCHANGED studentEvents
  \/ StudentEvent /\ works' = NoWork /\ UNCHANGED fetched

\* _existing_student_for_tao_job, after packaging.
Existing(w) == rows > 0

\* The end of register_from_tao_terminal.
Registered(w, outcome) ==
  /\ Doing(w, "packaging")
  /\ rows' = IF Existing(w) THEN rows ELSE rows + 1
  /\ packaging' = outcome
  /\ evaluateJob' = IF w # "baseline" THEN evaluateJob
                    ELSE IF outcome = "failed" THEN "failed" ELSE "local"
  /\ Returns(w)
  /\ UNCHANGED <<trained, quality, qualityRun, rescores, swallowed>>

\* An exception is logged; the handler goes on to its end.
RegistrationRaises(w) ==
  /\ Doing(w, "packaging")
  /\ Returns(w)
  /\ swallowed' = TRUE
  /\ UNCHANGED <<trained, rows, packaging, quality, qualityRun, rescores, evaluateJob>>

\* run_automatic_baseline_evaluation, up to the deployment.
Baseline ==
  /\ "train" \in fetched /\ evaluateJob = "not_started"
  /\ IF rows = 0 \/ packaging = "failed"
     THEN Does("baseline", "packaging") /\ evaluateJob' = "running"
     ELSE evaluateJob' = "local" /\ UNCHANGED works
  /\ UNCHANGED <<trained, rows, packaging, quality, qualityRun, rescores, fetched, swallowed, studentEvents>>

\* repackage_student_model
Repackage(w) ==
  /\ StudentEvent
  /\ Doing(w, "nothing")
  /\ rows > 0 /\ packaging = "failed"
  /\ \E step \in {"refreshing", "packaging"} : Does(w, step)
  /\ UNCHANGED <<trained, rows, packaging, quality, qualityRun, rescores, evaluateJob, fetched, swallowed>>

\* The artifacts of a quantize job are fetched again first.
Refreshed(w, ok) ==
  /\ Doing(w, "refreshing")
  /\ IF ok THEN Does(w, "packaging") ELSE Done(w)
  /\ UNCHANGED <<trained, rows, packaging, quality, qualityRun, rescores, evaluateJob, fetched, swallowed,
                 studentEvents>>

-----------------------------------------------------------------------------
(* The quality.                                                            *)

\* The evaluate job of TAO ends.
EvaluateEnds(outcome) ==
  /\ "train" \in fetched /\ evaluateJob = "not_started"
  /\ evaluateJob' = outcome
  /\ quality' = IF outcome = "failed" /\ rows > 0 THEN "failed" ELSE quality
  /\ UNCHANGED <<trained, rows, packaging, qualityRun, rescores, fetched, works, swallowed, studentEvents>>

HandleEvaluated ==
  /\ evaluateJob = "succeeded" /\ "evaluate" \notin fetched
  /\ Doing("evaluate handler", "nothing")
  /\ Does("evaluate handler", "rescoring")
  /\ UNCHANGED <<trained, rows, packaging, quality, qualityRun, rescores, evaluateJob, fetched, swallowed,
                 studentEvents>>

\* rerescore_student_model_quality
Rerescore(w) ==
  /\ StudentEvent
  /\ Doing(w, "nothing")
  /\ rows > 0 /\ quality = "failed" /\ evaluateJob = "succeeded"
  /\ Does(w, "rescoring")
  /\ UNCHANGED <<trained, rows, packaging, quality, qualityRun, rescores, evaluateJob, fetched, swallowed>>

\* The end of rescore_evaluate_job: a Student that was there scores, or there
\* is nothing to score.  Only the handler then marks it failed.
Rescored(w, scored) ==
  /\ Doing(w, "rescoring")
  /\ IF scored /\ works[w].saw > 0
     THEN rescores' = rescores + 1 /\ quality' = "validated" /\ qualityRun' = rescores + 1
     ELSE /\ quality' = IF w = "evaluate handler" /\ rows > 0 THEN "failed" ELSE quality
          /\ UNCHANGED <<rescores, qualityRun>>
  /\ Returns(w)
  /\ UNCHANGED <<trained, rows, packaging, evaluateJob, swallowed>>

StudentCrash ==
  /\ StudentEvent
  /\ works' = NoWork
  /\ UNCHANGED <<trained, rows, packaging, quality, qualityRun, rescores, evaluateJob, fetched, swallowed>>

-----------------------------------------------------------------------------

WorkEnds(w) ==
  \/ \E outcome \in {"validated", "failed"} : Registered(w, outcome)
  \/ \E ok \in BOOLEAN : Refreshed(w, ok) \/ Rescored(w, ok)

StudentNext ==
  \/ TrainSucceeds \/ HandleTrained \/ HandleEvaluated \/ Baseline
  \/ \E outcome \in {"succeeded", "failed"} : EvaluateEnds(outcome)
  \/ \E w \in Workers : WorkEnds(w) \/ RegistrationRaises(w)
  \/ \E w \in Requests : Repackage(w) \/ Rerescore(w)
  \/ StudentCrash

\* The poll ticks, and what is awaited ends.
StudentFair ==
  /\ WF_studentVars(HandleTrained \/ HandleEvaluated)
  /\ WF_studentVars(\E w \in Workers : WorkEnds(w))

-----------------------------------------------------------------------------
(* Properties.                                                             *)

\* A job that succeeded gets its Student, one whoever registers it (the handler
\* repeated after a crash, the baseline evaluation, a replay), and one that was
\* evaluated a verdict on it, whatever crash came between, but for an exception
\* that was swallowed (the outputs-fetch scan, _existing_student_for_tao_job).
StudentsAreJudged ==
  <>[](/\ trained => rows = 1 \/ (rows = 0 /\ swallowed)
       /\ evaluateJob = "succeeded" => quality # "pending" \/ swallowed)

\* "A validated checkpoint must never be re-materialized underneath a live
\* serving/eval consumer" (repackage_student_model), and "this path will not
\* overwrite a validated Student" (rerescore_student_model_quality): a replay
\* that ends changes nothing of what was validated meanwhile.
ReplaysLeaveValidated ==
  [][\A w \in Requests : works'[w] # works[w] =>
       /\ packaging = "validated" => packaging' = packaging
       /\ quality = "validated" => qualityRun' = qualityRun]_studentVars
=============================================================================
