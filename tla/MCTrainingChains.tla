-------------------------- MODULE MCTrainingChains --------------------------
(* Model-checking instances of TrainingChains. *)
EXTENDS TrainingChains

\* What a poll may report: everything, or only what ends a job.
AllReports == {"queued", "running", "paused", "succeeded", "failed", "canceled"}
Endings    == {"succeeded", "failed"}
=============================================================================
