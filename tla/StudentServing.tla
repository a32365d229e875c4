--------------------------- MODULE StudentServing ---------------------------
(***************************************************************************)
(* The local serving validation of Students, on the GPUs of LocalNim.  A   *)
(* lifecycle takes a GPU from whoever has it, deploys the Student, waits   *)
(* for it, puts it through its stages, stops it, and brings back whom it   *)
(* displaced.  A project has one Student here and one lifecycle at a time. *)
(***************************************************************************)
EXTENDS LocalNim

VARIABLE serving  \* StudentModel.serving_status, of each project's Student

vars == <<nimVars, serving>>

TypeOK ==
  /\ NimTypeOK
  /\ serving \in [Projects -> {"not_attempted", "pending", "validated", "failed"}]

Init ==
  /\ NimInit
  /\ serving = [p \in Projects |-> "not_attempted"]

Verdict(f, s) == serving' = [serving EXCEPT ![f.kind.owner] = s]

-----------------------------------------------------------------------------

\* _has_in_flight_deploy; the task includes the wait for what it returned.
InFlight(p) ==
  \E f \in flows : \/ f.mode = "student" /\ f.kind.owner = p
                   \/ f.mode = "return" /\ \E d \in f.v : what[d].owner = p

\* deploy_nim, and run_automatic_baseline_evaluation of the same lifecycle.
DeployNim(p, g) ==
  /\ Requested
  /\ ~ InFlight(p)
  /\ serving' = [serving EXCEPT ![p] = "pending"]
  /\ flows' = flows \cup {[step |-> "prepare", mode |-> "student", d |-> 0,
                           kind |-> [owner |-> p, role |-> "student", gpu |-> g],
                           v |-> {}, named |-> {}]}
  /\ UNCHANGED <<rows, links, box, todo, marks, crashes, faults>>

\* The lifecycle's own preflight, before it displaces anybody.
Prepare(f) ==
  /\ f.step = "prepare"
  /\ \/ Then(f, {To(f, "lock")}) /\ UNCHANGED serving
     \/ Then(f, {}) /\ Verdict(f, "failed")
  /\ UNCHANGED <<rows, links, box, todo, marks, bounds>>

\* deploy_local_nim reports a failed deployment to its lifecycle.
StudentDeployFails(f) ==
  /\ DeployFails(f)
  /\ IF f.mode = "student" THEN Verdict(f, "failed") ELSE UNCHANGED serving

\* _stop_deployment_quiet and the finally clause, in the order of the code.
Leave(f, s) ==
  Then(f, IF Active(f.d) THEN {TearsDown(f, s)} ELSE Returned(f.d))

\* _wait_for_deployment_running: running, or failed or past the deadline.
\* A restoration that does not come up is only logged.
WatchRuns(f) ==
  /\ f.step = "watch" /\ status[f.d] = "running"
  /\ Then(f, IF f.mode = "student" THEN {To(f, "stages")} ELSE {})
  /\ UNCHANGED <<rows, links, box, todo, marks, bounds, serving>>

\* Mutant: the wait is for the deployment's failure, with no deadline.
WatchEndsOnFailure(f) ==
  /\ f.step = "watch" /\ status[f.d] = "failed"
  /\ IF f.mode = "student" THEN Verdict(f, "failed") /\ Leave(f, "quit")
                           ELSE Then(f, {}) /\ UNCHANGED serving
  /\ UNCHANGED <<rows, links, box, todo, marks, bounds>>

WatchEnds(f) ==
  /\ f.step = "watch"
  /\ IF f.mode = "student" THEN Verdict(f, "failed") /\ Leave(f, "quit")
                           ELSE Then(f, {}) /\ UNCHANGED serving
  /\ UNCHANGED <<rows, links, box, todo, marks, bounds>>

\* Smoke inference, the temporary endpoint, the evaluation through it and the
\* benchmark sweep: each needs a NIM that answers, and each may fail.
StageFails(f) ==
  /\ f.step = "stages"
  /\ Verdict(f, "failed")
  /\ Leave(f, "quit")
  /\ UNCHANGED <<rows, links, box, todo, marks, bounds>>

\* Stage 8 stops the container before anything is said of the result.
StagesPass(f) ==
  /\ f.step = "stages"
  /\ box[f.d] = "ready" /\ Active(f.d)
  /\ Then(f, {TearsDown(f, "close")})
  /\ UNCHANGED <<rows, links, box, todo, marks, bounds, serving>>

\* The teardown returns.  A sweep may have skipped a concurrency.
Close(f) ==
  /\ f.step = "close"
  /\ Stopped(f.d, f.named)
  /\ Verdict(f, "validated") \/ Verdict(f, "failed")
  /\ Then(f, Returned(f.d))
  /\ UNCHANGED <<what, ided, by, todo, torn, spared, requests, crashes>>

Quit(f) ==
  /\ f.step = "quit"
  /\ Stopped(f.d, f.named)
  /\ Then(f, Returned(f.d))
  /\ UNCHANGED <<what, ided, by, todo, torn, spared, requests, crashes, serving>>

\* _recover_student_deployment fails the Student, whether or not the removal
\* is confirmed.
Interrupted(f) ==
  /\ Purge(f) \/ PurgeUnconfirmed(f)
  /\ IF f.kind.role = "student" THEN Verdict(f, "failed") ELSE UNCHANGED serving

-----------------------------------------------------------------------------

Request ==
  /\ UNCHANGED serving
  /\ \/ \E k \in Kind, m \in {"place", "replace"} : RequestDeploy(k, m)
     \/ \E d \in Ids : RequestStop(d)
     \/ \E p \in Projects, d \in Ids : Reuse(p, d)

Docker == UNCHANGED serving /\ \E d \in Ids : Load(d) \/ Exit(d)

NimFlow(f) ==
  /\ UNCHANGED serving
  /\ \/ Refuse(f) \/ Acquire(f) \/ Evict(f) \/ EvictRaises(f) \/ Stamp(f)
     \/ Reserve(f) \/ PreflightPasses(f) \/ Remove(f) \/ Run(f) \/ Undo(f)
     \/ PollHealthy(f) \/ PollGivesUp(f) \/ VerifyPasses(f) \/ VerifyFails(f)
     \/ Register(f) \/ FailDone(f) \/ StopDone(f) \/ Attach(f)
     \/ Recheck(f) \/ InspectHealthy(f) \/ InspectStarting(f) \/ InspectUnhealthy(f)
     \/ Drop(f) \/ InspectGone(f)

StudentFlow(f) ==
  \/ Prepare(f) \/ StudentDeployFails(f) \/ WatchRuns(f) \/ WatchEnds(f)
  \/ StageFails(f) \/ StagesPass(f) \/ Close(f) \/ Quit(f)
  \/ Interrupted(f)

Recover == UNCHANGED serving /\ \E d \in todo : RecoverNext(d)
CrashRestart == Crash /\ UNCHANGED serving

Next ==
  \/ Request
  \/ \E p \in Projects, g \in Gpus : DeployNim(p, g)
  \/ Docker
  \/ \E f \in flows : NimFlow(f) \/ StudentFlow(f)
  \/ Recover
  \/ CrashRestart

Spec == Init /\ [][Next]_vars

\* Every await returns: subprocesses and requests have timeouts, waits have
\* deadlines, and the lock is given to those who wait for it.  No flow comes
\* round, so that serving some flow, again and again, serves each.
Fairness ==
  /\ WF_vars(\E f \in flows : NimFlow(f) \/ StudentFlow(f))
  /\ WF_vars(Recover)

FairSpec == Spec /\ Fairness

-----------------------------------------------------------------------------
(* Properties.                                                             *)

\* Whatever was asked for, however it was interrupted, the host comes to rest:
\* every deployment, lifecycle and recovery ends, none waits for another.
ComesToRest == []<>(flows = {} /\ todo = {})
=============================================================================
