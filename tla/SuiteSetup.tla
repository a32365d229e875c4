----------------------------- MODULE SuiteSetup -----------------------------
(***************************************************************************)
(* How a Training Suite comes to have chains: the launch request, the      *)
(* provisioning of a missing Student base, the two frozen dataset exports, *)
(* their upload, and the transaction that creates the chains.  What the    *)
(* chains do then is in TrainingChains.                                    *)
(*                                                                         *)
(*  - An idempotency key has at most one suite (a unique constraint), so   *)
(*    suites are named by their keys.  A request's body is the one Student *)
(*    base it selects.                                                     *)
(*  - A flow is a request, or a background task; its step names the await  *)
(*    at which it stands.  Between two awaits nothing else of the event    *)
(*    loop runs, but the process may die between two commits.              *)
(***************************************************************************)
EXTENDS Naturals, FiniteSets

CONSTANTS
  Keys,         \* idempotency keys
  Bases,        \* Student base models
  MaxRequests,  \* bound: launch and cancel requests
  MaxGuidance,  \* bound: Guidance versions
  MaxCrashes    \* bound: backend crashes

ASSUME SetupBoundsAssumption ==
  /\ Bases # {}
  /\ MaxRequests \in Nat /\ MaxCrashes \in Nat
  /\ MaxGuidance \in Nat \ {0}

Runs == 1 .. MaxRequests
Versions == 1 .. MaxGuidance

VARIABLES
  \* ---- the databases
  suite,    \* TrainingSuite, by idempotency key
  run,      \* TAOBaseExperimentProvisioningRun
  pull,     \* tao_base_experiment_pull_status of each base
  active,   \* the project's active Guidance version
  \* ---- the process
  flows,    \* requests and tasks under way
  \* ---- bookkeeping
  given,    \* <<k, b>>: a request for b with key k was answered with k's suite
  requests, crashes  \* bound counters

bounds == <<requests, crashes>>
vars == <<suite, run, pull, active, flows, given, bounds>>

NoSuite == [status |-> "none", base |-> CHOOSE b \in Bases : TRUE, guidance |-> 0,
            training |-> 0, evaluation |-> 0, transfer |-> FALSE, run |-> 0,
            chains |-> FALSE, asked |-> FALSE]

Setup == {"provisioning", "preparing"}
Pursued == {"queued", "running"}

SuiteRecord ==
  [status : Setup \cup {"none", "initialized", "running", "failed", "canceled"},
   base : Bases,
   guidance : Versions \cup {0},
   training : Versions \cup {0},     \* the Guidance of the linked export, 0 if none
   evaluation : Versions \cup {0},
   transfer : BOOLEAN,               \* setup_error_ref holds the transfer token
   run : Runs \cup {0},              \* provisioning_run_id
   chains : BOOLEAN,                 \* chain rows exist
   asked : BOOLEAN]                  \* the first job was claimed for submission

Flow == [step : {"preflight", "wait", "train", "eval", "upload_train", "upload_eval",
                 "kickoff", "post", "pull", "record", "cancel_setup", "cancel_run"},
         key : Keys, base : Bases, g : Versions \cup {0}, run : Runs \cup {0},
         task : BOOLEAN]

TypeOK ==
  /\ suite \in [Keys -> SuiteRecord]
  /\ run \in [Runs -> [status : {"none", "queued", "running", "succeeded", "failed"},
                       base : Bases]]
  /\ pull \in [Bases -> {"absent", "pulling", "pull_complete", "failed"}]
  /\ active \in Versions
  /\ flows \subseteq Flow
  /\ given \subseteq Keys \X Bases
  /\ requests \in 0 .. MaxRequests /\ crashes \in 0 .. MaxCrashes

\* Any of the bases may be on the TAO side from earlier.
Init ==
  /\ suite = [k \in Keys |-> NoSuite]
  /\ run = [r \in Runs |-> [status |-> "none", base |-> NoSuite.base]]
  /\ pull \in [Bases -> {"absent", "pull_complete"}]
  /\ active = 1
  /\ flows = {} /\ given = {}
  /\ requests = 0 /\ crashes = 0

-----------------------------------------------------------------------------

\* From the commit of the chains to the claim of the first job there is no await.
Idle == \A f \in flows : f.step # "kickoff"

To(f, s) == [f EXCEPT !.step = s]
Then(f, F) == flows' = (flows \ {f}) \cup F
Ends(f) == Then(f, {})

Exists(k) == suite[k].status # "none"

\* _can_retry_dataset_upload_setup
Retryable(s) ==
  s.status = "failed" /\ s.transfer /\ ~ s.chains /\ s.training # 0 /\ s.evaluation # 0

\* Mutant: the key alone decides whose suite it is.
MatchesByKey(k, b) == TRUE

\* _request_matches_suite
Matches(k, b) == suite[k].base = b

\* A snapshot of the key's suite, or 409 for another request's key.
Replay(k, b) == given' = IF Matches(k, b) THEN given \cup {<<k, b>>} ELSE given

\* _set_suite_setup_status: an SME's cancel stands.
Failed(s, token) ==
  IF s.status = "canceled" THEN s
  ELSE [s EXCEPT !.status = "failed", !.transfer = token]

\* _fail_setup, at the end of a flow.
Fail(f, token) ==
  /\ suite' = [suite EXCEPT ![f.key] = Failed(@, token)]
  /\ Ends(f)

-----------------------------------------------------------------------------
(* launch_training_suite                                                   *)

Requested == Idle /\ requests < MaxRequests /\ requests' = requests + 1

\* Up to the readiness checks, which ask TAO.
Launch(k, b) ==
  /\ Requested
  /\ IF Exists(k) /\ (~ Matches(k, b) \/ ~ Retryable(suite[k]))
     THEN Replay(k, b) /\ UNCHANGED flows
     ELSE /\ flows' = flows \cup {[step |-> "preflight", key |-> k, base |-> b,
                                   g |-> 0, run |-> 0, task |-> FALSE]}
          /\ UNCHANGED given
  /\ UNCHANGED <<suite, run, pull, active, crashes>>

PreflightFails(f) ==
  /\ f.step = "preflight"
  /\ Ends(f)
  /\ UNCHANGED <<suite, run, pull, active, given, bounds>>

Missing(b) == pull[b] # "pull_complete"

\* start_provisioning_run: one active run at a time, shared by those who wait
\* for the same base.
ActiveRun == {r \in Runs : run[r].status \in Pursued}
Shared(b) == {r \in ActiveRun : run[r].base = b}
NewRun == {r \in Runs : run[r].status = "none" /\ \A q \in 1 .. r - 1 : run[q].status # "none"}

Provisional(f, r) ==
  [NoSuite EXCEPT !.status = "provisioning", !.base = f.base, !.guidance = active, !.run = r]

Owned(f, r) == [f EXCEPT !.step = "wait", !.run = r, !.task = TRUE]

\* The base is missing: the key is claimed, and then the run is started or
\* joined.  A launch that lost the key answers with the winner's suite.
LaunchLoses(f) ==
  /\ f.step = "preflight"
  /\ Missing(f.base) /\ Exists(f.key)
  /\ Replay(f.key, f.base)
  /\ Ends(f)
  /\ UNCHANGED <<suite, run, pull, active, bounds>>

\* Another base is being provisioned, or provisioning has no prerequisites:
\* the claim of the key is taken back.
ProvisioningRefused(f) ==
  /\ f.step = "preflight"
  /\ Missing(f.base) /\ ~ Exists(f.key)
  /\ Shared(f.base) = {}
  /\ Ends(f)
  /\ UNCHANGED <<suite, run, pull, active, given, bounds>>

ProvisioningJoined(f) ==
  /\ f.step = "preflight"
  /\ Missing(f.base) /\ ~ Exists(f.key)
  /\ \E r \in Shared(f.base) :
       /\ suite' = [suite EXCEPT ![f.key] = Provisional(f, r)]
       /\ Then(f, {Owned(f, r)})
  /\ given' = given \cup {<<f.key, f.base>>}
  /\ UNCHANGED <<run, pull, active, bounds>>

ProvisioningStarted(f) ==
  /\ f.step = "preflight"
  /\ Missing(f.base) /\ ~ Exists(f.key)
  /\ ActiveRun = {}
  /\ \E r \in NewRun :
       /\ run' = [run EXCEPT ![r] = [status |-> "queued", base |-> f.base]]
       /\ suite' = [suite EXCEPT ![f.key] = Provisional(f, r)]
       /\ Then(f, {Owned(f, r), [To(f, "pull") EXCEPT !.run = r, !.task = TRUE]})
  /\ pull' = [pull EXCEPT ![f.base] = "pulling"]
  /\ given' = given \cup {<<f.key, f.base>>}
  /\ UNCHANGED <<active, bounds>>

-----------------------------------------------------------------------------
(* execute_provisioning_run and the suite that waits for it.               *)

\* patch_model_pull_status_across_projects, preserving what is complete.
Unpulled(b) == pull' = [pull EXCEPT ![b] = IF Missing(b) THEN "failed" ELSE @]

Pulled(f) ==
  /\ f.step = "pull"
  /\ pull' = [pull EXCEPT ![f.base] = "pull_complete"]
  /\ run' = [run EXCEPT ![f.run].status = "running"]
  /\ Then(f, {To(f, "record")})
  /\ UNCHANGED <<suite, active, given, bounds>>

Recorded(f) ==
  /\ f.step = "record"
  /\ run' = [run EXCEPT ![f.run].status = "succeeded"]
  /\ Ends(f)
  /\ UNCHANGED <<suite, pull, active, given, bounds>>

PullFails(f) ==
  /\ f.step \in {"pull", "record"}
  /\ Unpulled(f.base)
  /\ run' = [run EXCEPT ![f.run].status = "failed"]
  /\ Ends(f)
  /\ UNCHANGED <<suite, active, given, bounds>>

\* _complete_suite_after_provisioning looks at its run every two seconds.
WaitFails(f) ==
  /\ f.step = "wait"
  /\ run[f.run].status = "failed"
  /\ Fail(f, FALSE)
  /\ UNCHANGED <<run, pull, active, given, bounds>>

-----------------------------------------------------------------------------
(* create_training_suite, from its request or after provisioning.          *)

\* The flow's turn to create: a request with its base ready, or a suite whose
\* provisioning succeeded.
MayCreate(f) ==
  \/ f.step = "preflight" /\ ~ Missing(f.base)
  \/ f.step = "wait" /\ run[f.run].status = "succeeded"

\* Whose suite the flow goes on with: the one it provisioned, or a failed one
\* whose frozen exports it may upload again.
Adopts(f) ==
  Exists(f.key) /\ Matches(f.key, f.base)
  /\ IF f.step = "wait" THEN suite[f.key].status \in Setup ELSE Retryable(suite[f.key])

\* The key is taken: its suite is the answer, or a conflict.
CreateReplays(f) ==
  /\ MayCreate(f)
  /\ Exists(f.key) /\ ~ Adopts(f)
  /\ IF f.step = "preflight" THEN Replay(f.key, f.base) ELSE UNCHANGED given
  /\ Ends(f)
  /\ UNCHANGED <<suite, run, pull, active, bounds>>

\* The Guidance is no longer the one the suite froze, or the data checks fail.
CreateRefused(f) ==
  /\ MayCreate(f)
  /\ Exists(f.key) => Adopts(f)
  /\ IF f.step = "wait" THEN Fail(f, FALSE) ELSE Ends(f) /\ UNCHANGED suite
  /\ UNCHANGED <<run, pull, active, given, bounds>>

\* The durable owner of the setup: inserted, or claimed with its exports.
Claimed(f) ==
  IF Exists(f.key)
  THEN [suite[f.key] EXCEPT !.status = "preparing", !.transfer = FALSE]
  ELSE [NoSuite EXCEPT !.status = "preparing", !.base = f.base, !.guidance = active]

NextStep(s) ==
  IF s.training = 0 THEN "train" ELSE IF s.evaluation = 0 THEN "eval" ELSE "upload_train"

Create(f) ==
  /\ MayCreate(f)
  /\ Exists(f.key) => Adopts(f) /\ suite[f.key].guidance = active
  /\ LET s == Claimed(f) IN
       /\ suite' = [suite EXCEPT ![f.key] = s]
       /\ Then(f, {[To(f, NextStep(s)) EXCEPT !.g = active]})
  /\ UNCHANGED <<run, pull, active, given, bounds>>

\* The worker thread commits the export with its link, if there is still
\* somebody to link it for.
Links(f) == suite[f.key].status = "preparing"

Build(f) ==
  /\ f.step \in {"train", "eval"}
  /\ Links(f)
  /\ suite' = [suite EXCEPT ![f.key] =
                 IF f.step = "train" THEN [@ EXCEPT !.training = f.g]
                                     ELSE [@ EXCEPT !.evaluation = f.g]]
  /\ Then(f, {To(f, IF f.step = "train" THEN "eval" ELSE "upload_train")})
  /\ UNCHANGED <<run, pull, active, given, bounds>>

\* The build fails, has too few examples (when it is linked already), or finds
\* its suite no longer preparing.
BuildFails(f) ==
  /\ f.step \in {"train", "eval"}
  /\ \/ Fail(f, FALSE)
     \/ /\ Links(f)
        /\ suite' = [suite EXCEPT ![f.key] =
             Failed(IF f.step = "train" THEN [@ EXCEPT !.training = f.g]
                                        ELSE [@ EXCEPT !.evaluation = f.g], FALSE)]
        /\ Ends(f)
  /\ UNCHANGED <<run, pull, active, given, bounds>>

\* An upload looks at the suite before it begins.
Uploaded(f) ==
  /\ f.step = "upload_train"
  /\ IF suite[f.key].status = "preparing"
     THEN Then(f, {To(f, "upload_eval")}) /\ UNCHANGED suite
     ELSE Fail(f, FALSE)
  /\ UNCHANGED <<run, pull, active, given, bounds>>

\* A failed transfer may be retried, a failed integrity check may not.
UploadFails(f) ==
  /\ f.step \in {"upload_train", "upload_eval"}
  /\ \E token \in BOOLEAN : Fail(f, token)
  /\ UNCHANGED <<run, pull, active, given, bounds>>

\* Mutant: the Guidance was checked when the setup began.
StillActiveAsBegun(f) == TRUE

\* The re-read under the write lock.
StillActive(f) == active = f.g

\* Mutant: nobody cancels a suite that is all but started.
StillPreparingSurely(f) == Exists(f.key)

StillPreparing(f) == suite[f.key].status = "preparing"

\* The second upload is done: chains and suite in one transaction.
Commit(f) ==
  /\ f.step = "upload_eval"
  /\ StillPreparing(f) /\ StillActive(f)
  /\ suite' = [suite EXCEPT ![f.key] = [@ EXCEPT !.status = "initialized",
                                                 !.guidance = f.g, !.chains = TRUE]]
  /\ Then(f, {To(f, "kickoff")})
  /\ UNCHANGED <<run, pull, active, given, bounds>>

Abandon(f) ==
  /\ f.step = "upload_eval"
  /\ ~ (StillPreparing(f) /\ StillActive(f))
  /\ Fail(f, FALSE)
  /\ UNCHANGED <<run, pull, active, given, bounds>>

\* submit_chain_job claims the first job and asks TAO.
Kickoff(f) ==
  /\ f.step = "kickoff"
  /\ suite' = [suite EXCEPT ![f.key].asked = TRUE]
  /\ Then(f, {To(f, "post")})
  /\ UNCHANGED <<run, pull, active, given, bounds>>

Posted(f) ==
  /\ f.step = "post"
  /\ \E s \in {"running", "failed"} :
       suite' = [suite EXCEPT ![f.key].status = IF @ = "canceled" THEN @ ELSE s]
  /\ given' = IF f.task THEN given ELSE given \cup {<<f.key, f.base>>}
  /\ Ends(f)
  /\ UNCHANGED <<run, pull, active, bounds>>

\* Once the first job was asked for, the chains' own flows roll the suite up,
\* whoever asked (TrainingChains).
RolledUp(k) ==
  /\ Idle
  /\ suite[k].status = "initialized" /\ suite[k].asked
  /\ \E s \in {"running", "failed"} : suite' = [suite EXCEPT ![k].status = s]
  /\ UNCHANGED <<run, pull, active, flows, given, bounds>>

-----------------------------------------------------------------------------
(* cancel_training_suite, Guidance edits, crash and recovery.              *)

\* Final before anything else is done about it.
Cancel(k) ==
  /\ Requested
  /\ suite[k].status \in Setup \cup {"initialized", "running", "canceled"}
  /\ suite' = [suite EXCEPT ![k].status = "canceled"]
  /\ flows' = flows \cup {[step |-> "cancel_setup", key |-> k, base |-> suite[k].base,
                           g |-> 0, run |-> suite[k].run, task |-> FALSE]}
  /\ UNCHANGED <<run, pull, active, given, crashes>>

\* cancel_task of the suite's setup, wherever it stands; a request that sets
\* the suite up has no task.
CancelSetup(f) ==
  /\ f.step = "cancel_setup"
  /\ flows' = (flows \ ({f} \cup {h \in flows : h.task /\ h.key = f.key
                                                 /\ h.step \notin {"pull", "record"}}))
              \cup (IF f.run # 0 THEN {To(f, "cancel_run")} ELSE {})
  /\ UNCHANGED <<suite, run, pull, active, given, bounds>>

\* cancel_task of its provisioning run, whoever else waits for it.
CancelRun(f) ==
  /\ f.step = "cancel_run"
  /\ LET P == {h \in flows : h.step \in {"pull", "record"} /\ h.run = f.run} IN
       /\ flows' = flows \ ({f} \cup P)
       /\ IF P = {} THEN UNCHANGED <<run, pull>>
          ELSE run' = [run EXCEPT ![f.run].status = "failed"] /\ Unpulled(f.base)
  /\ UNCHANGED <<suite, active, given, bounds>>

EditGuidance ==
  /\ Idle
  /\ active < MaxGuidance
  /\ active' = active + 1
  /\ UNCHANGED <<suite, run, pull, flows, given, bounds>>

\* Mutant: only what was preparing was interrupted.
InterruptedIfPreparing(s) ==
  IF s.status = "preparing"
  THEN Failed(s, ~ s.chains /\ s.training # 0 /\ s.evaluation # 0)
  ELSE s

\* recover_interrupted_training_suite_setups; a transfer may be resumed.
Interrupted(s) ==
  IF s.status \in Setup
  THEN Failed(s, s.status = "preparing" /\ ~ s.chains /\ s.training # 0 /\ s.evaluation # 0)
  ELSE s

\* recover_interrupted_provisioning_runs comes first.
CrashRestart ==
  /\ crashes < MaxCrashes
  /\ crashes' = crashes + 1
  /\ flows' = {}
  /\ run' = [r \in Runs |-> IF r \in ActiveRun THEN [run[r] EXCEPT !.status = "failed"]
                            ELSE run[r]]
  /\ pull' = [b \in Bases |-> IF Missing(b) /\ Shared(b) # {} THEN "failed" ELSE pull[b]]
  /\ suite' = [k \in Keys |-> Interrupted(suite[k])]
  /\ UNCHANGED <<active, given, requests>>

-----------------------------------------------------------------------------

Setting(f) ==
  \/ PreflightFails(f) \/ LaunchLoses(f) \/ ProvisioningRefused(f) \/ ProvisioningJoined(f)
  \/ ProvisioningStarted(f) \/ WaitFails(f) \/ CreateReplays(f) \/ CreateRefused(f)
  \/ Create(f) \/ Build(f) \/ BuildFails(f) \/ Uploaded(f) \/ UploadFails(f)
  \/ Commit(f) \/ Abandon(f) \/ Posted(f) \/ CancelSetup(f) \/ CancelRun(f)

Provisioning(f) == Pulled(f) \/ Recorded(f) \/ PullFails(f)

Next ==
  \/ \E k \in Keys, b \in Bases : Launch(k, b)
  \/ \E k \in Keys : Cancel(k) \/ RolledUp(k)
  \/ \E f \in flows : Kickoff(f) \/ (Idle /\ (Setting(f) \/ Provisioning(f)))
  \/ EditGuidance
  \/ CrashRestart

Spec == Init /\ [][Next]_vars

\* Every await returns, the packaging helper has a timeout, and no flow comes
\* round.  TrainingChains answers for the roll-up.
Fairness ==
  /\ WF_vars(\E f \in flows : Kickoff(f) \/ (Idle /\ (Setting(f) \/ Provisioning(f))))
  /\ WF_vars(\E k \in Keys : RolledUp(k))

FairSpec == Spec /\ Fairness

-----------------------------------------------------------------------------
(* Properties.                                                             *)

\* A launch that was answered with a suite has its suite: the key was not
\* given to another request's, however many raced for it, and a claim that is
\* taken back was shown to nobody (launch_training_suite).
AnswersStand ==
  \A a \in given : Exists(a[1]) /\ suite[a[1]].base = a[2]

Owners(k) ==
  {f \in flows : f.key = k /\ f.step \in {"wait", "train", "eval", "upload_train", "upload_eval"}}
PullTasks(r) == {f \in flows : f.run = r /\ f.step \in {"pull", "record"}}

\* Whatever setup is under way is somebody's work: a suite in setup is one
\* flow's, and no retry, replay, cancel or restart leaves it to nobody or to
\* two; a base that is being pulled has a run that pulls it, and an active run
\* its task, so that neither blocks later launches (create_training_suite,
\* execute_provisioning_run).
SetupIsPursued ==
  /\ \A k \in Keys : suite[k].status \in Setup => Cardinality(Owners(k)) = 1
  /\ \A b \in Bases : pull[b] = "pulling" => Shared(b) # {}
  /\ \A r \in ActiveRun : PullTasks(r) # {}

\* What is submitted trains and evaluates under one Guidance, the one that is
\* active when the chains are created, however long the exports and uploads
\* took and however often they were retried (the re-read of Phase 1d).
TrainsUnderActiveGuidance ==
  [][\A k \in Keys : suite'[k].chains /\ ~ suite[k].chains =>
       active = suite'[k].guidance /\ active = suite'[k].training
       /\ active = suite'[k].evaluation]_vars

\* A canceled suite stays canceled, and what was under way for it links no
\* export, creates no chains and starts no job (cancel_training_suite).
CanceledSetupStaysQuiet ==
  [][\A k \in Keys : suite[k].status = "canceled" => suite'[k] = suite[k]]_vars

\* Every setup comes to an end, in chains, a failure or a cancel: requests are
\* finitely many here, so from some moment on no suite is in setup.
SetupsSettle ==
  <>[](\A k \in Keys : suite[k].status \notin Setup)
=============================================================================
