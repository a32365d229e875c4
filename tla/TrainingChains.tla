--------------------------- MODULE TrainingChains ---------------------------
(***************************************************************************)
(* The TAO job chains of one training suite.  A chain trains one base      *)
(* model: job 1 trains, job 2 evaluates it, and each quantization scheme   *)
(* adds a quantize job (child of 1) and its evaluate (child of that).      *)
(* Jobs run at TAO, outside the process; the suite, its job rows and what  *)
(* is known of them are in SQLite.                                         *)
(*                                                                         *)
(*  - Everything here runs on the event loop.  A flow is what one          *)
(*    coroutine still has to do: the poll tick, a post-success task, a     *)
(*    request, the kickoff of the suite, startup recovery.  It is          *)
(*    interrupted only at its awaits: LoopFree is the event loop's token.  *)
(*  - A crash loses every flow.  Startup recovery fails the jobs whose     *)
(*    submission it interrupted; the tick's scans look for the rest.       *)
(***************************************************************************)
EXTENDS Naturals, FiniteSets

CONSTANTS
  Chains,      \* number of chains: the base models of the suite
  Schemes,     \* number of quantization schemes
  SkipChains,  \* chains whose base is in TAO_AUTOEVAL_SKIP_BASES
  Reports,     \* what a poll of TAO may report, as canonical statuses
  MaxCancels,  \* bound: cancels of a job or of the suite that are accepted
  MaxCrashes   \* bound: backend crashes

ASSUME ShapeAssumption ==
  Chains \in Nat \ {0} /\ Schemes \in Nat /\ SkipChains \subseteq 1 .. Chains
ASSUME ReportsAssumption ==
  Reports \subseteq {"queued", "running", "paused", "succeeded", "failed", "canceled"}
ASSUME BoundsAssumption == MaxCancels \in Nat /\ MaxCrashes \in Nat

Jobs == [chain : 1 .. Chains, seq : 1 .. 2 * (Schemes + 1)]

VARIABLES
  \* ---- SQLite: survives a crash
  suite,    \* TrainingSuite.status, from the commit of its chains on
  lora,     \* enable_lora of its jobs' configuration
  state,    \* TAOJob.status
  fetch,    \* outputs_fetch_status ("in_progress" is recovered as "pending" is)
  halted,   \* what chain_halted_reason says, if anything
  \* ---- process memory
  flows,    \* what each coroutine has left to do
  \* ---- bookkeeping
  asked,    \* external: jobs TAO was asked to create, and how often
  lost,     \* an event was lost: crash, exception, or failure seen by a refresh
  cancels, crashes  \* bound counters

rows == <<suite, lora, state, fetch, halted>>
bounds == <<cancels, crashes>>
vars == <<rows, flows, asked, lost, bounds>>

Terminal  == {"succeeded", "failed", "canceled"}
Pollable  == {"submitted", "queued", "running", "paused"}
InFlight  == {"submitting"} \cup Pollable
Statuses  == {"not_started"} \cup InFlight \cup Terminal
Urgent    == {"submit", "settle", "advance", "halt", "commit", "plan", "sweep"}
Awaiting  == {"post", "recall", "fetch", "logs", "local", "cancel", "withdraw", "recovered"}
Kickoff   == {"kickoff", "setup"}
Flow      == [by : Kickoff \cup {"tick", "post", "request", "startup"}, from : Jobs,
              step : Urgent \cup Awaiting, job : Jobs]

TypeOK ==
  /\ suite \in {"initialized", "running", "completed", "failed", "canceled"}
  /\ lora \in BOOLEAN
  /\ state \in [Jobs -> Statuses]
  /\ fetch \in [Jobs -> {"pending", "completed", "failed"}]
  /\ halted \in [Jobs -> {"none", "failure", "cancel", "skipped", "suite"}]
  /\ flows \subseteq Flow
  /\ asked \in [Jobs -> Nat]
  /\ lost \in BOOLEAN
  /\ cancels \in 0 .. MaxCancels
  /\ crashes \in 0 .. MaxCrashes

Root(c) == [chain |-> c, seq |-> 1]

\* create_training_suite has committed the rows of every chain and goes on,
\* without an await, to submit the first train job: in the request that
\* launched the suite, or in the setup task that provisioned its bases.
Init ==
  /\ suite = "initialized" /\ lora \in BOOLEAN
  /\ state = [j \in Jobs |-> "not_started"]
  /\ fetch = [j \in Jobs |-> "pending"]
  /\ halted = [j \in Jobs |-> "none"]
  /\ \E by \in Kickoff : flows = {[by |-> by, from |-> Root(1), step |-> "submit", job |-> Root(1)]}
  /\ asked = [j \in Jobs |-> 0]
  /\ lost = FALSE
  /\ cancels = 0 /\ crashes = 0

-----------------------------------------------------------------------------
(* The shape of a chain.                                                   *)

Action(j) ==
  IF j.seq = 1 THEN "train" ELSE IF j.seq % 2 = 0 THEN "evaluate" ELSE "quantize"

ParentSeq(n) == IF n <= 1 THEN 0 ELSE IF n = 2 \/ n % 2 = 1 THEN 1 ELSE n - 1

IsParent(i, j) == i.chain = j.chain /\ ParentSeq(j.seq) = i.seq

\* _transitive_dependents_in_session: at most two generations.
Dependents(i) ==
  {j \in Jobs : IsParent(i, j) \/ \E p \in Jobs : IsParent(i, p) /\ IsParent(p, j)}

Chain(c) == {j \in Jobs : j.chain = c}

\* The baseline evaluation of a LoRA chain runs here, not at TAO.
Local(j) == lora /\ j.seq = 2

\* can_transition, of the statuses a poll may report.
CanTransition(old, new) ==
  \/ old = "submitted" /\ new \in {"queued", "running", "succeeded", "failed", "canceled"}
  \/ old = "queued" /\ new \in {"running", "succeeded", "failed", "canceled"}
  \/ old = "running" /\ new \in {"succeeded", "failed", "paused", "canceled"}
  \/ old = "paused" /\ new \in {"running", "succeeded", "canceled"}

-----------------------------------------------------------------------------
(* What is next: helpers on the statuses st of all jobs.                   *)

\* Mutant: the chain goes on in sequence, whatever became of the parent.
EligibleInSequence(st, c) == {j \in Chain(c) : st[j] = "not_started"}

Eligible(st, c) ==
  {j \in Chain(c) : st[j] = "not_started" /\ \A i \in Jobs : IsParent(i, j) => st[i] = "succeeded"}

Lowest(S) == {j \in S : \A i \in S : j.seq <= i.seq}

HasActiveWork(st, c) ==
  LET has(s) == \E j \in Chain(c) : st[j] = s IN
  (\E s \in InFlight : has(s)) \/ (has("not_started") /\ has("succeeded"))

\* _find_next_chain_to_start
\* Mutant: only behind chains that trained.
NextChainIfTrained(st) ==
  {Root(c) : c \in {d \in 1 .. Chains : st[Root(d)] = "not_started"
                      /\ \A b \in 1 .. d - 1 : st[Root(b)] = "succeeded"}}

NextChain(st) ==
  {Root(c) : c \in {d \in 1 .. Chains : st[Root(d)] = "not_started"
                      /\ \A b \in 1 .. d - 1 : st[Root(b)] # "not_started"}}

\* An auto-skipped evaluation counts as a success.
\* Mutant: so does any canceled job.
GoodIfCanceled(st, ht) == {j \in Jobs : st[j] \in {"succeeded", "canceled"}}

Good(st, ht) == {j \in Jobs : st[j] = "succeeded" \/ (st[j] = "canceled" /\ ht[j] = "skipped")}

\* _roll_up_suite_status
RolledUp(st, ht) ==
  LET good == Good(st, ht)
      over == {j \in Jobs : st[j] \in Terminal}
  IN
  IF suite = "canceled" THEN "canceled"
  ELSE IF good = Jobs THEN "completed"
  ELSE IF over = Jobs THEN "failed"
  ELSE IF over \subseteq good /\ suite = "initialized" THEN "running"
  ELSE suite

-----------------------------------------------------------------------------
(* Flows.                                                                  *)

LoopFree == \A f \in flows : f.step \notin Urgent
Serving  == \A f \in flows : f.by # "startup"
TickIdle == Serving /\ \A f \in flows : f.by # "tick"
PostActive(j) == \E f \in flows : f.by = "post" /\ f.from = j

At(f, step) == f \in flows /\ f.step = step
Goes(f, step, job) == (flows \ {f}) \cup {[f EXCEPT !.step = step, !.job = job]}
Ends(f) == flows \ {f}

\* The flow submits the job that was planned, or is over when there is none.
Submits(f, planned) == Ends(f) \cup {[f EXCEPT !.step = "submit", !.job = j] : j \in planned}

\* _plan_suite_advance: what follows a failed or canceled job of chain c.
\* Mutant: a canceled suite goes on.
PlannedRegardless(st, c) ==
  IF Eligible(st, c) # {} THEN Lowest(Eligible(st, c))
  ELSE IF HasActiveWork(st, c) THEN {} ELSE NextChain(st)

Planned(st, c) ==
  IF suite = "canceled" THEN {}
  ELSE IF Eligible(st, c) # {} THEN Lowest(Eligible(st, c))
  ELSE IF HasActiveWork(st, c) THEN {} ELSE NextChain(st)

-----------------------------------------------------------------------------
(* Submitting a job.                                                       *)

\* submit_chain_job, up to its POST.  An evaluation refused for its lineage
\* is, to the chain, one whose POST fails.
Submit(f) ==
  /\ At(f, "submit")
  /\ IF state[f.job] = "not_started"
     THEN /\ state' = [state EXCEPT ![f.job] = "submitting"]
          /\ asked' = [asked EXCEPT ![f.job] = @ + 1]
          /\ flows' = Goes(f, "post", f.job)
     ELSE flows' = Ends(f) /\ UNCHANGED <<state, asked>>
  /\ UNCHANGED <<suite, lora, fetch, halted, lost, bounds>>

\* _submit_and_persist_outcome: a job that the suite's cancel reached while
\* its POST was in flight stays canceled, and TAO is asked to drop it.
ReachedByCancel(j) == state[j] = "canceled"

Submitted(f, accepted) ==
  LET done == IF f.by \in Kickoff THEN Goes(f, "settle", f.job)
              ELSE IF accepted \/ ReachedByCancel(f.job) THEN Ends(f)
              ELSE Goes(f, "halt", f.job)
  IN
  /\ LoopFree
  /\ At(f, "post")
  /\ IF ReachedByCancel(f.job)
     THEN /\ flows' = IF accepted THEN Goes(f, "recall", f.job) ELSE done
          /\ UNCHANGED state
     ELSE /\ state' = [state EXCEPT ![f.job] = IF accepted THEN "submitted" ELSE "failed"]
          /\ flows' = done
  /\ UNCHANGED <<suite, lora, fetch, halted, asked, lost, bounds>>

Recalled(f) ==
  /\ LoopFree
  /\ At(f, "recall")
  /\ flows' = IF f.by \in Kickoff THEN Goes(f, "settle", f.job) ELSE Ends(f)
  /\ UNCHANGED <<rows, asked, lost, bounds>>

\* The end of create_training_suite: the suite takes its kickoff's outcome.
SettledAs(j) ==
  IF suite = "canceled" THEN suite
  ELSE IF state[j] \in {"failed", "canceled"} THEN state[j] ELSE "running"

Settle(f) ==
  /\ At(f, "settle")
  /\ suite' = SettledAs(f.job)
  /\ flows' = Ends(f)
  /\ UNCHANGED <<lora, state, fetch, halted, asked, lost, bounds>>

-----------------------------------------------------------------------------
(* The poll tick, and what follows a job's end.                            *)

\* The statuses after a poll's answer is applied to a row.
Applied(j, report) == IF CanTransition(state[j], report) THEN report ELSE state[j]

\* A row has TAO's id once its submission is accepted; local evaluations never.
AtTao(j) == state[j] \in Pollable /\ asked[j] > 0

\* _poll_single_job.  A failure's logs are fetched before it is acted upon.
Poll(j, report) ==
  /\ LoopFree /\ TickIdle
  /\ AtTao(j)
  /\ Applied(j, report) # state[j]
  /\ state' = [state EXCEPT ![j] = report]
  /\ flows' = flows \cup
       CASE report = "succeeded" -> {[by |-> "post", from |-> j, step |-> "fetch", job |-> j]}
         [] report = "failed"    -> {[by |-> "tick", from |-> j, step |-> "logs", job |-> j]}
         [] report = "canceled"  -> {[by |-> "tick", from |-> j, step |-> "halt", job |-> j]}
         [] OTHER                -> {}
  /\ UNCHANGED <<suite, lora, fetch, halted, asked, lost, bounds>>

\* get_tao_job with refresh=true applies a poll's answer and nothing else.
Refresh(j, report) ==
  /\ LoopFree /\ Serving
  /\ AtTao(j)
  /\ Applied(j, report) # state[j]
  /\ state' = [state EXCEPT ![j] = report]
  /\ lost' = (lost \/ report \in {"failed", "canceled"})
  /\ UNCHANGED <<suite, lora, fetch, halted, flows, asked, bounds>>

\* _post_success_flow: artifacts, packaging, re-scoring; then the advance,
\* whether or not they could be had.
Fetched(f, outcome) ==
  /\ LoopFree
  /\ At(f, "fetch")
  /\ fetch' = [fetch EXCEPT ![f.job] = outcome]
  /\ flows' = Goes(f, "advance", f.job)
  /\ UNCHANGED <<suite, lora, state, halted, asked, lost, bounds>>

\* Evaluations that TAO cannot run are skipped on the way to the next job.
Doomed(j) == Action(j) = "evaluate" /\ j.chain \in SkipChains /\ ~Local(j)

\* _advance_after_terminal: what follows a succeeded job.
Advance(f) ==
  LET c       == f.job.chain
      open    == Eligible(state, c)
      next    == Lowest({j \in open : ~Doomed(j)})
      skipped == {j \in open : Doomed(j) /\ \A i \in next : j.seq < i.seq}
      here    == {j \in next : Local(j)}
      st      == [j \in Jobs |-> IF j \in skipped THEN "canceled"
                                 ELSE IF j \in here THEN "running" ELSE state[j]]
  IN
  /\ At(f, "advance")
  /\ IF suite = "canceled"
     THEN flows' = Ends(f) /\ UNCHANGED <<suite, state, halted>>
     ELSE /\ state' = st
          /\ halted' = [j \in Jobs |-> IF j \in skipped THEN "skipped"
                                       ELSE IF j \in here THEN "none" ELSE halted[j]]
          /\ flows' = IF here # {} THEN Ends(f) \cup {[f EXCEPT !.step = "local", !.job = j] : j \in here}
                      ELSE Submits(f, IF next # {} THEN next
                                      ELSE IF HasActiveWork(st, c) THEN {} ELSE NextChain(st))
          /\ suite' = RolledUp(state', halted')
  /\ UNCHANGED <<lora, fetch, asked, lost, bounds>>

\* _run_local_baseline_evaluation writes its outcome whatever the row says.
LocalEnds(f, outcome) ==
  /\ LoopFree
  /\ At(f, "local")
  /\ state' = [state EXCEPT ![f.job] = outcome]
  /\ fetch' = [fetch EXCEPT ![f.job] = "completed"]
  /\ flows' = Goes(f, IF outcome = "succeeded" THEN "advance" ELSE "halt", f.job)
  /\ UNCHANGED <<suite, lora, halted, asked, lost, bounds>>

LocalRaises(f) ==
  /\ LoopFree
  /\ At(f, "local")
  /\ flows' = Ends(f)
  /\ lost' = TRUE
  /\ UNCHANGED <<rows, asked, bounds>>

LogsFetched(f) ==
  /\ LoopFree
  /\ At(f, "logs")
  /\ flows' = Goes(f, "halt", f.job)
  /\ UNCHANGED <<rows, asked, lost, bounds>>

\* Chain isolation: only jobs that need the failed one are halted.
\* Mutant: every later job of the chain is.
HaltedBySequence(i) == {j \in Chain(i.chain) : j.seq > i.seq /\ state[j] = "not_started"}

HaltedBy(i) == {j \in Dependents(i) : state[j] = "not_started"}

\* handle_terminal_failure
Halt(f) ==
  /\ At(f, "halt")
  /\ state' = [j \in Jobs |-> IF j \in HaltedBy(f.job) THEN "failed" ELSE state[j]]
  /\ halted' = [j \in Jobs |-> IF j \in HaltedBy(f.job) THEN "failure" ELSE halted[j]]
  /\ suite' = RolledUp(state', halted')
  /\ flows' = Submits(f, Planned(state', f.job.chain))
  /\ UNCHANGED <<lora, fetch, asked, lost, bounds>>

-----------------------------------------------------------------------------
(* The tick's recovery scans.                                              *)

\* _recover_stuck_outputs_fetch_in_project
RecoverFetch(j) ==
  /\ LoopFree /\ TickIdle
  /\ state[j] = "succeeded" /\ fetch[j] = "pending" /\ ~PostActive(j)
  /\ flows' = flows \cup {[by |-> "post", from |-> j, step |-> "fetch", job |-> j]}
  /\ UNCHANGED <<rows, asked, lost, bounds>>

\* A chain that no flow owns, as far as its rows and the task names tell.
Stalled(c) ==
  /\ \E j \in Chain(c) : state[j] = "not_started"
  /\ \A j \in Chain(c) : state[j] \notin InFlight /\ ~PostActive(j)

\* Mutant: cancels are left alone.
UnhaltedFailures(c) ==
  Lowest({j \in Chain(c) : state[j] = "failed" /\ HaltedBy(j) # {}})

Unhalted(c) ==
  Lowest({j \in Chain(c) : state[j] \in {"failed", "canceled"} /\ halted[j] # "skipped" /\ HaltedBy(j) # {}})

Resumable(c) ==
  {i \in Jobs : fetch[i] = "completed" /\ \E j \in Lowest(Eligible(state, c)) : IsParent(i, j)}

\* _reconcile_stalled_chains_in_project, for one chain: first the failures
\* whose dependents are not halted, then the successes not followed up.  Logs
\* are not fetched again when they are there, or TAO never had the job.
Reconcile(c) ==
  /\ LoopFree /\ TickIdle
  /\ Stalled(c)
  /\ \/ \E j \in Unhalted(c), step \in {"logs", "halt"} :
          /\ step = "logs" => state[j] = "failed"
          /\ flows' = flows \cup {[by |-> "tick", from |-> j, step |-> step, job |-> j]}
     \/ /\ Unhalted(c) = {}
        /\ \E i \in Resumable(c) :
             flows' = flows \cup {[by |-> "tick", from |-> i, step |-> "advance", job |-> i]}
  /\ UNCHANGED <<rows, asked, lost, bounds>>

-----------------------------------------------------------------------------
(* Cancels: of one job, and of the suite.                                  *)

\* cancel_tao_job: TAO is asked first, unless it has no such job or
\* force_local is set.
CancelJob(j, forced) ==
  /\ LoopFree /\ Serving
  /\ state[j] \in {"not_started"} \cup Pollable
  /\ cancels < MaxCancels /\ cancels' = cancels + 1
  /\ flows' = flows \cup
       {[by |-> "request", from |-> j, job |-> j,
         step |-> IF AtTao(j) /\ ~forced THEN "cancel" ELSE "commit"]}
  /\ UNCHANGED <<rows, asked, lost, crashes>>

CancelAnswered(f, agreed) ==
  /\ LoopFree
  /\ At(f, "cancel")
  /\ flows' = IF agreed THEN Goes(f, "commit", f.job) ELSE Ends(f)
  /\ UNCHANGED <<rows, asked, lost, bounds>>

\* The job may have ended while TAO was asked.
\* Mutant: the row is not looked at again.
OvertakenNever(j) == FALSE

Overtaken(j) == state[j] \in Terminal

Commit(f) ==
  LET later == {j \in Chain(f.job.chain) : j.seq > f.job.seq /\ state[j] = "not_started"} IN
  /\ At(f, "commit")
  /\ IF Overtaken(f.job)
     THEN flows' = Ends(f) /\ UNCHANGED <<state, halted>>
     ELSE /\ state' = [j \in Jobs |-> IF j = f.job THEN "canceled"
                                      ELSE IF j \in later THEN "failed" ELSE state[j]]
          /\ halted' = [j \in Jobs |-> IF j \in later THEN "cancel" ELSE halted[j]]
          /\ flows' = Goes(f, "plan", f.job)
  /\ UNCHANGED <<suite, lora, fetch, asked, lost, bounds>>

Plan(f) ==
  /\ At(f, "plan")
  /\ suite' = RolledUp(state, halted)
  /\ flows' = Submits(f, Planned(state, f.job.chain))
  /\ UNCHANGED <<lora, state, fetch, halted, asked, lost, bounds>>

\* cancel_training_suite: the suite first, then the setup task, TAO, and the
\* other jobs.  A task canceled at its POST never learns TAO's id of the job.
CancelSuite ==
  /\ LoopFree /\ Serving
  /\ suite \notin {"completed", "failed"}
  /\ cancels < MaxCancels /\ cancels' = cancels + 1
  /\ suite' = "canceled"
  /\ LET setup == {f \in flows : f.by = "setup"} IN
     flows' = (flows \ setup) \cup
       {[by |-> "request", from |-> Root(1), job |-> Root(1),
         step |-> IF setup # {} \/ \E j \in Jobs : AtTao(j) THEN "withdraw" ELSE "sweep"]}
  /\ UNCHANGED <<lora, state, fetch, halted, asked, lost, crashes>>

Withdrawn(f) ==
  /\ LoopFree
  /\ At(f, "withdraw")
  /\ flows' = Goes(f, "sweep", f.job)
  /\ UNCHANGED <<rows, asked, lost, bounds>>

Sweep(f) ==
  /\ At(f, "sweep")
  /\ state' = [j \in Jobs |-> IF state[j] \in Terminal THEN state[j] ELSE "canceled"]
  /\ halted' = [j \in Jobs |-> IF state[j] \notin Terminal /\ halted[j] = "none"
                               THEN "suite" ELSE halted[j]]
  /\ suite' = "canceled"
  /\ flows' = Ends(f)
  /\ UNCHANGED <<lora, fetch, asked, lost, bounds>>

-----------------------------------------------------------------------------
(* A crash, and the recovery that runs before the backend serves again.    *)

Interrupted == {j \in Jobs : state[j] = "submitting"}

\* recover_interrupted_tao_jobs: TAO may or may not have the job, so it is not
\* submitted again.
\* Mutant: it is queued for another try.
RecoveredForRetry(j) == IF j \in Interrupted THEN "not_started" ELSE state[j]

Recovered(j) == IF j \in Interrupted THEN "failed" ELSE state[j]

CrashRestart ==
  /\ crashes < MaxCrashes
  /\ crashes' = crashes + 1
  /\ lost' = TRUE
  /\ state' = [j \in Jobs |-> Recovered(j)]
  /\ flows' = {[by |-> "startup", from |-> j, step |-> "recovered", job |-> j] : j \in Interrupted}
  /\ UNCHANGED <<suite, lora, fetch, halted, asked, cancels>>

\* The recovered jobs are followed up one after the other.
Recover(f) ==
  /\ At(f, "recovered")
  /\ \A g \in flows : g.step = "recovered"
  /\ flows' = Goes(f, "halt", f.job)
  /\ UNCHANGED <<rows, asked, lost, bounds>>

-----------------------------------------------------------------------------
Step(f) ==
  \/ Submit(f) \/ Recalled(f) \/ Settle(f) \/ Advance(f) \/ LocalRaises(f) \/ LogsFetched(f)
  \/ Halt(f) \/ Commit(f) \/ Plan(f) \/ Withdrawn(f) \/ Sweep(f) \/ Recover(f)
  \/ \E yes \in BOOLEAN : Submitted(f, yes) \/ CancelAnswered(f, yes)
  \/ \E outcome \in {"completed", "failed"} : Fetched(f, outcome)
  \/ \E outcome \in {"succeeded", "failed"} : LocalEnds(f, outcome)

Next ==
  \/ \E f \in flows : Step(f)
  \/ \E j \in Jobs :
       \/ \E report \in Reports : Poll(j, report) \/ Refresh(j, report)
       \/ RecoverFetch(j)
       \/ \E forced \in BOOLEAN : CancelJob(j, forced)
  \/ \E c \in 1 .. Chains : Reconcile(c)
  \/ CancelSuite
  \/ CrashRestart

Spec == Init /\ [][Next]_vars

\* The event loop keeps scheduling every flow and its awaits return; the poll
\* tick keeps coming; TAO ends every job, in a way its status machine accepts.
Fairness ==
  /\ \A j \in Jobs : WF_vars(\E f \in flows : f.from = j /\ Step(f))
  /\ WF_vars(\E j \in Jobs : RecoverFetch(j))
  /\ WF_vars(\E c \in 1 .. Chains : Reconcile(c))
  /\ WF_vars(\E j \in Jobs, report \in Reports \cap Terminal : Poll(j, report))

FairSpec == Spec /\ Fairness

-----------------------------------------------------------------------------
(* Safety.                                                                 *)

\* TAO is asked for a job once, although the tick, its scans, post-success
\* tasks, cancels and startup recovery may each plan it.
AskedOnce == \A j \in Jobs : asked[j] <= 1

\* A job is at TAO, or was, only behind a parent that succeeded.
ParentFirst ==
  \A i, j \in Jobs :
    IsParent(i, j) /\ state[j] \in InFlight \cup {"succeeded"} => state[i] = "succeeded"

\* "Independent siblings are NOT halted": behind a failure only jobs that
\* need the failed job are, and behind a cancel only jobs that follow it.
HaltsAreExplained ==
  \A j \in Jobs :
    /\ halted[j] = "failure" =>
         \E i \in Jobs : j \in Dependents(i) /\ state[i] \in {"failed", "canceled"}
    /\ halted[j] = "cancel" =>
         \E i \in Chain(j.chain) : i.seq < j.seq /\ (state[i] = "canceled" \/ Local(i))

\* A completed suite has every job done or deliberately skipped, for good.
CompletedMeansDone ==
  suite = "completed" =>
    \A j \in Jobs : state[j] = "succeeded" \/ (state[j] = "canceled" /\ halted[j] = "skipped")

\* The cancel of the suite is final, and no late submission outcome, poll or
\* advance submits another of its jobs.
CanceledSuiteStaysQuiet ==
  [][suite = "canceled" => suite' = "canceled" /\ asked' = asked]_vars

\* No actor changes a job that ended (but for the local evaluation, which
\* overwrites a cancel that reached its row meanwhile).
EndedJobsStand ==
  [][\A j \in Jobs :
       state[j] \in Terminal /\ (\A f \in flows : f.step = "local" => f.job # j)
         => state'[j] = state[j]]_vars

-----------------------------------------------------------------------------
(* Liveness.                                                               *)

\* What a crash interrupted is derived again from the rows: a job whose
\* parent ended, its outputs fetched, is submitted, halted or skipped.
ChainsGoOn ==
  \A i, j \in Jobs :
    IsParent(i, j) /\ state[j] = "not_started" /\ ~lora
        /\ (state[i] \in {"failed", "canceled"} \/ (state[i] = "succeeded" /\ fetch[i] = "completed"))
      ~> state[j] # "not_started" \/ suite = "canceled"

\* A suite ends, if no event is lost.
SuiteEnds == suite \in {"initialized", "running"} ~> suite \in {"completed", "failed", "canceled"} \/ lost

-----------------------------------------------------------------------------
(* What a comment says and the scans do not respect.                       *)

\* "A first-job submission failure fails the whole suite here; it must NOT
\* cross-advance to the next chain": a failed suite submits nothing.
FailedSuiteSubmitsNothing ==
  [][suite = "failed" => asked' = asked]_vars
=============================================================================
