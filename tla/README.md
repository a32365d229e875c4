# A verification development for the VLM feedback loop backend

The backend (`src/src/backend/vlm_feedback_loop`, FastAPI on one asyncio loop,
one SQLite database per project) lets a subject-matter expert (SME) label
images with the help of a Teacher model, measure the Teacher, label the rest
in batches, and train Student models through an external service (TAO).

This directory holds TLA+ models of the parts whose correctness depends on
interleavings, crashes and late answers, TLC configurations that check them on
small instances, and proofs of what matters most for every instance.
`PROJECT.json` lists components, runs, mutants, hazards and theorems, and maps
each definition to the lines it stands for.

Paths below are relative to `src/src/backend/vlm_feedback_loop/`; `*_service`
files are under `services/`.

## 1. How the program executes

Three facts decide what may interleave with what.

* **One event loop.** Executors, pollers, flows and `async` handlers are
  coroutines of one loop. Two of them interleave only at an `await`. SQLite
  calls do not await, so everything between two awaits is one step. In the
  models, `LoopFree` says that no coroutine is between two such steps that
  another could not enter.
* **Worker threads.** Synchronous handlers (label save, skip, restore, guidance
  edit, settings) run on threads, under the project's write lock where the
  router takes it (`services/project_db_locks.py`). They interleave with the
  loop at every transaction boundary: `LockFree` is that lock. A read outside
  a transaction ("autocommit read") is a step of its own; SQLite's write lock,
  taken by the first flush, makes the flush-to-commit part one step.
* **Rows survive, memory does not.** A crash loses tasks, events, counters in
  memory and uncommitted work. Startup (`main.py`, `lifespan`) rewrites rows
  before the program serves; `CrashRestart` is the crash and that pass together.

## 2. Inventory

| Component (code) | State | Operations | Hard behaviour |
|---|---|---|---|
| Batch runs (`batch_label_service`, `teacher_rejection`, `run_queries`) | `RunRecord`, `OperationRecord`, events and counters in memory | start, claim, reconcile, lanes, circuit breaker, finalize, cancel, resume | late answers, torn outcomes, restart, cancel at any point |
| Labels (`label_service`) | `Example.state`, `Label` rows | save, skip, restore | reads before the write lock |
| Schema evolution (`schema_evolution_service`, `edit_classification`) | active Guidance, labels | edit in place, semantic edit | fails runs in one transaction, tells their tasks later |
| Evaluations (`evaluation_service`) | `RunRecord`, frozen pool, results in memory | manual start, automatic start, supersede, phases A to C, retry passes, cancel | newest configuration wins; edits under a run |
| Suites and chains (`training_suite_service`, `tao_job_service`, `tao_polling_service`) | `TrainingSuite`, `TAOJob` rows, flows in memory | submit, poll, advance, halt, roll-up, cancel, reconcile | five callers advance a chain; events are lost |
| Local NIM deployments (`local_nim_service`) | deployment rows, containers, GPU occupancy | deploy, poll, stop, displace, recover | one GPU, many actors, awaits inside |
| Student lifecycle (`student_nim_lifecycle`, `student_model_service`, `tao_rescoring_service`) | Student rows, displaced residents | staged deploy, benchmark, rescore, restore | each stage may fail; what was displaced must return |
| Suite setup (`training_preflight_service`, `tao_base_experiment_provisioning*`, `dataset_export_service`, `tao_dataset_upload_service`) | provisioning runs, exports | preflight, provision, export, upload | idempotent launch, edits meanwhile |
| Drains (`clip_embedding_service`, `ingest_sweeper_service`) | embeddings, hashes | sweep until nothing is pending | triggers dropped while one runs |
| Test Pool (`pool_service`, `greedy_max_min`, `review_selector_service`) | pool membership | route, rebalance, snapshot, select | rounding at small counts |
| Primitives (`priority`, `background`, `sse`, `hosted_rate_limiter`) | gate, task registry, queues, window | | limits, shutdown |
| Guidance and schema (`guidance_service`, `schema_core`) | versions | create, derive | version numbers under contention |
| Requests to models (`proposal_service`, `prompt_service`, `icl_service`, `nim_client`, `http_client`) | none of their own | build a prompt, read an answer | retries inside one call |
| Registry and files (`project_service`, `example_service`, `model_config_service`, `nim_endpoint_service`, `filesystem_service`) | project rows, files | CRUD, archive | the busy gate at archive |
| Generators (bundles, handoff, issue text) | files | render | none |
| Routers, CLI, scripts, browser UI | none | call the above | clients of the API |

How they interact:

* Labels decide what a batch run may select and what it may overwrite; a batch
  run writes labels; both are wiped by a semantic edit. The three share one
  model, `BatchLabeling`.
* A label save, a settings update and a Guidance edit end with an
  Auto-Evaluate check that may start an evaluation and supersede the live one
  (`EvaluationRuns`). An edit fails evaluations in the same sweep that fails
  batch runs; each model has its half of the sweep.
* A Training Suite pins the Guidance it exported under and then runs on
  its own rows (`TrainingChains`). It meets local NIM deployments where a LoRA
  baseline is evaluated on a local Student; that evaluation is one
  long await of `TrainingChains`.
* A Student lifecycle takes a GPU from a Teacher and gives it back
  (`StudentServing` extends `LocalNim`); the embedding drain asks a NIM of the
  same host and only sees it come and go (`IngestDrains`).
* A label save routes the example into or past the Test Pool; evaluations,
  exemplars and training datasets all look at the pool (`DataSplit`).
* The foreground gate (`priority`) only delays a background request. It is the
  reason a lane looks at its events twice.

What makes each component correct: for batch runs, one active run per project,
an outcome and a counter for each input, no dispatch after a cancel or a
tripped breaker, and terminal states that stay; for labels, states that agree
with rows, nothing under a retired Guidance, and human decisions that no
machine outcome displaces; for evaluations, one live gate run, scores measured
on the labels they froze, newest configuration wins, and each trigger answered;
for chains, one request to TAO per job, parents before children, isolation of
failures, final cancels, and suites that end. For NIM deployments: one resident
per GPU, no row that says running over a dead container, and no Teacher
repointed at a dead endpoint.

## 3. The modules

| Module | What it is |
|---|---|
| `AtomicProject` | what a project promises: every handler one indivisible step, no memory, no requests in flight |
| `BatchLabeling` | batch runs, labels, edits, crash and recovery of one project |
| `EvaluationRuns` | evaluation runs and the Auto-Evaluate check of one project |
| `TrainingChains` | TAO jobs of one training suite |
| `SuiteSetup` | how a suite comes to have chains: launch, provisioning, exports, upload, commit |
| `LocalNim` | NIM containers on the host: rows, containers, GPUs, endpoints, restart |
| `StudentServing` | the serving validation of Students; extends `LocalNim` |
| `IngestDrains` | the pHash and embedding workers, their triggers and their provider |
| `DataSplit` | Test Pool, evaluations' frozen pools and exemplars, training and evaluation datasets |
| `HostedCalls` | requests to a hosted model: attempts, deadline, shared ceiling, learned pace |
| `TeacherCapabilities` | what a Teacher's configuration knows about the model behind it |
| `StudentRecords` | the Student row of one checkpoint: packaging, quality, replays |
| `Archiving` | the archived column, its marker file, the busy gate and the guard |
| `Diversity` | pure: the choices made by likeness of images |
| `Invocation` | pure: one request to the Teacher: room, exemplars, images, repetition, record; extends `Diversity` |
| `HostReadiness` | pure: what a host can run: advice, placement, refusal, preflight, shared Teachers, what is served |
| `TrainingReadiness` | pure: a launch's preflight, the provisioning of bases, the checks made again |
| `LabelSchema`, `LabelMetrics` | pure: schemas, edits of them, values; rates, F1 and the Scale-Up gate |
| `Sequencing` | the loop, the sorted set and the filtered sequence that the pure modules are made of, told by position so that the prover can reason about them |
| `..._proofs` | eight modules of theorems, section 5 |
| `MC...` | model-checking instances: sets of answers and reports, scenes and shapes, questions to the pure modules |

Operators with the comment "Mutant:" are a plausible slip in the definition
below them. No specification uses them; each mutant run replaces the
definition by its slip and TLC then finds the property violated.

### BatchLabeling

| Model | Code |
|---|---|
| `active` | `Project.active_guidance_id`, as its version number |
| `exState`, `auto`, `verified` | `Example.state`; the `auto_labeled` and `verified` rows of `Label`, as sets so that a duplicate can exist |
| `status`, `reason`, `snap`, `counts`, `streak`, `tripped` | the batch `RunRecord` and its metrics |
| `op`, `ignored` | `OperationRecord` of each item, `ignored_due_to_run_cancellation` |
| `exec`, `work`, `flags`, `tally` | the executor's task: how far it got, where each item is, its events, its counters |
| `starting`, `saving`, `signals` | a start and a save between their reads and their write; runs failed by a commit and not yet told |
| `StartRead`, `StartInsert` | `start_batch_label_run` before and after its await |
| `Claim`, `Reconcile` | `_execute_batch_label` up to the lanes: sole ownership, torn outcomes, re-armed operations |
| `LanePull`, `LaneDispatch`, `LaneGivesUp`, `LaneReturn`, `LaneRaise` | one lane: take an item, pass the gate and look again, invoke, `_commit_batch_result`, or raise |
| `Finalize` | the conditional UPDATE that ends or pauses the run |
| `Cancel`, `Resume` | their handlers |
| `SaveRead`, `SaveCommit`, `Skip`, `RestoreOmitted` | `label_service` |
| `EditInPlace`, `EditSemantic`, `Signal` | `execute_edit`; the signals after its commit |
| `CrashRestart` | a crash and `_recover_interrupted_runs` |

Abstracted: an item's answer is its outcome class, schema retries inside one
invocation are part of it, field values are nothing but the Guidance they are
under.

### EvaluationRuns

`frozen` is what `start_evaluation_run` snapshots (kind, Guidance, settings,
pool), `truth` the ground truth the executor loads later, `born` the order of
`created_at`. `StartRead`/`StartInsert` are a manual start, which holds no
lock; `AutoStart`/`AutoDecline` are `maybe_start_auto_evaluation`, which ends
each mutation under the lock (`mutating`). The executor's phases are the
values of `exec`: claimed, burst (phase B), retry (phase C and the passes for
rate-limited examples). The growth trigger counts labels the model does not
have, so `AutoStart` may take it as given and `AutoDecline` as absent.

### TrainingChains and SuiteSetup

A *flow* is what one coroutine still has to do: the poll tick, the task after a
success, a request, the kickoff of the suite, startup recovery. `step` says
where it stands: an *awaiting* step may be interrupted, an *urgent* one holds
the loop. `submit`, `advance`, `halt`, `plan` and the other urgent steps are
the code between two awaits of `submit_chain_job`, `_advance_after_terminal`,
`handle_terminal_failure` and `cancel_tao_job`. `Poll`, `RecoverFetch` and
`Reconcile` are the tick; `Refresh` is a read that applies a poll without its
flow. `asked` counts what TAO was asked for, so that "submitted once" can be
said; `lost` remembers that an event was lost, for the liveness that assumes
none was. A chain has `2 * (Schemes + 1)` jobs in the order the rows are
created: train, evaluate, then quantize and evaluate for each scheme.

`SuiteSetup` ends where `TrainingChains` begins. A suite is named by its
idempotency key; `run` and `pull` are the provisioning runs and the status of
each base. A launch is answered, waits for the base it shares with others,
builds its two exports, uploads them and commits its chains in one
transaction that looks at the Guidance again (`CommitChains`); `Kickoff` is a
step of its own. What the suite does afterwards is its roll-up (`RolledUp`).

### LocalNim and StudentServing

A deployment is a row (`status`, `what`) and a container (`box`); `bound` and
`config` are the configurations that send requests to it, `by` says who
displaced it. A flow stands at an await of `deploy_local_nim`, of the health
poll, of a stop or of the restoration of the displaced, or between two commits
that others may come between: a displacement is `evict`, which stops a resident
and commits that, `stamp`, which records who displaced it, and at last `reserve`.
`HoldsLock` are the steps under `_GPU_DEPLOY_LOCK`. After a restart `todo` are
the rows that startup recovery still has to look at.

The code ignores most of what Docker answers, and so does the model, which counts
each such answer as a fault (`MaxFaults`):

* `TearDown` removes the container, or Docker refuses (`Refused`): the caller
  goes on as if it were gone, and the container joins `left`. Every teardown is
  this one: of a stop, a displacement, a failure, an undone reservation, an
  unhealthy NIM at startup, the end of a Student, and the `docker rm -f` before a
  run. Only the purge of a Student at startup looks at the result.
* `InspectGone` takes a container for gone if it is, or if `docker inspect`
  failed; the row ends without a teardown, and a container that lives joins `left`.
* `DeployFails` at `run` may be a `docker run` that timed out after its container
  started.
* `EvictRaises`: the stop of a resident raises, is logged, and the deployment
  goes on. Before the stop's commit the resident keeps its row (`spared`); after
  it the detachment may be missing (`torn`); there is no stamp either way.

`torn`, `left` and `spared` are bookkeeping for the properties: no guard reads
them.

`StudentServing` adds the lifecycle of a Student to the same flows: take the
GPU, deploy, wait, pass the stages, stop, bring back the displaced. Its tasks
may fail at each stage.

### The other modules

* `IngestDrains`: each drain is one task with a fixed id, so a trigger that
  finds it running does nothing. `sweep` and `embed` are what the two tasks
  hold; `Poll` is `local_nim_service`'s tick that starts a dead embedding drain
  again.
* `DataSplit`: a save routes one example (`Saved`), an evaluation freezes the
  pool and draws exemplars at every question, a suite builds two datasets in
  two sessions. `Select`, the greedy selection that refills the pool, is a
  constant operator of which only this is assumed: it takes from its
  candidates. TLC evaluates `DataSplit`, and that assumption, with the selection
  of `Diversity`.
* `HostedCalls`: `tokens` is the limiter's `_timestamps`, `holder` its lock.
  `passed` is bookkeeping: the times of all requests ever let through, so that
  the ceiling can be stated for every window of the process's life and not for
  what the limiter happens to remember.
* `TeacherCapabilities`: a probe and a proposal read the configuration, await
  the model and write what they learned, to whatever the configuration is
  bound to by then.
* `StudentRecords`: packaging and rescoring are awaited without a session;
  the handler of a success is repeated until `outputs_fetch_status` is set.
* `Archiving`: the column is what counts, the file what the scans look at.
* `Invocation`: `Invoke` is `invoke_teacher`: token budget, exemplars by relevance
  and then by room and images, one batch of images, the request, and its
  repetition with more room if the answer was cut off. A text is its number of
  tokens, a label the tokens of each of its fields.
* `HostReadiness`: a host is its GPUs, its rows and the answers of its commands.
  `Advice` is the assessment of the environment, `Deploy` the deploy handler up to
  the queue, `DryRun` the preflight handler, `StopRow` and `StartRow` what becomes
  of the projects that follow a Teacher. `LocalNim` has the interleavings of the
  same handlers and takes the GPU and the outcome of a preflight as given; here
  these are computed and nothing interleaves.
* `TrainingReadiness`: `Launched` is `launch_training_suite` after its look at the
  idempotency key, `CreateAccepts` what `create_training_suite` asks again,
  `Provision` the provisioning of the bases that were selected. `SuiteSetup` has
  the order of these, with one base for the selected set.
* `Diversity`, `Invocation`, `HostReadiness`, `TrainingReadiness`, `LabelSchema` and
  `LabelMetrics` have no state. A question to them is an initial state of the run,
  and the invariant compares the answer with a definition that says what is wanted and not how to compute it: the
  selected are farther than the others, a kept label is valid and says the
  same under the new schema, a rate is the one counted from the results.

## 4. The runs

Counts are distinct states, times those of two TLC workers.

| Run | Question | States | Time |
|---|---|---|---|
| `batch_one_run` | One run, three examples, two lanes, a breaker of one, an edit, a crash: do rows, ledger, breaker, dispatch and SME decisions agree? | 0.8 M | 35 s |
| `batch_runs` | Two runs over one example, two crashes, an edit, fairness: is one run active at most, does a label survive under a retired Guidance, does all of it look like `AtomicProject`, does every run settle? | 0.7 M | 75 s |
| `eval_runs` | *lanes*: one run, two examples, retry passes; *rivals*: two runs, two settings, two Guidance versions: do counters partition the pool, is a run scored on what it froze, does the newest win, does each run end? | 0.8 M | 2.5 min |
| `chain_safety` | Two chains of four jobs, one skipped base, a cancel, a crash: asked once, parents first, isolation, final cancels? | 0.7 M | 70 s |
| `chain_recovery` | Two chains of two jobs, every report of TAO, fairness: do chains go on, do suites end? | 20 K | 50 s |
| `nim_serving` | *serving*: one GPU, two of: a request, a crash, a fault of Docker or of a stop; *deployments*: three of these, without Students; *drains*: two images, two workers: one owner, no stray container, no dead endpoint, the displaced return, all comes to rest, nothing is left without hash or embedding? | 0.5 M | 2 min |
| `project_data` | ten scenes, below | 0.7 M | 3 min |
| `promotion_race` (violation) | Does a save promote the machine label, as documented? | | |
| `stale_certification` (violation) | Can a run certify a configuration changed since? | | |
| `failed_suite_submits` (violation) | Does a suite that its launch called failed submit nothing more? | | |
| `split_leak` (violation) | Are a suite's training and evaluation datasets disjoint, as the API promises? | | |
| `replays_leave_validated` (violation) | Does a replay leave a validated checkpoint alone? | | |

**Scenes and shapes.** Parts of the system that share no state are checked by
one run: its initial state chooses a *scene* (`MCProjectData`, `MCServing`) or a
*shape* (`MCEvaluationRuns`), only that part moves, and the others stay where
they begin. The scenes of `project_data` and the properties that they are about:

| Scene | Instance | States | Properties |
|---|---|---|---|
| `setup` | two keys, two bases that TAO lacks, three requests, an edit, a crash | 210 K | `AnswersStand`, `TrainsUnderActiveGuidance`, `CanceledSetupStaysQuiet`, `SetupsSettle` |
| `pool`, `training` | three examples, two fractions, an edit, a crash | 113 K, 124 K | `EvaluatedStaysHeldOut` |
| `exports` | one build at a time, a crash | few | `ExportsSettle` |
| `teacher` | two tasks, two endpoints, models that refuse nothing or all | 102 K | `WrongSupportIsUnlearned` |
| `students` | one checkpoint, two replays, three faults | 1 K | `StudentsAreJudged` |
| `archiving` | four events | few | `MarkerFollowsColumn` |
| `hosted` | two callers, a ceiling of one per window of two ticks, three ticks | 55 K | `WithinCeiling` |
| `choices` | all questions about four images at two distances; requests with windows of 1 K to 256 K tokens, with three exemplars and each kind of file; hosts of at most two GPUs; launches that select at most two bases | 25 K | `ChoicesKeepTheirPromises` |
| `labels` | edits of two schemas, answers, scores, gates | 26 K | `LabelsKeepTheirMeaning` |

**Bounds and why they suffice.** Two lanes are the least at which one request
is in flight while another trips the breaker, and three items let one wait
behind both. Two runs are the least for exclusion and for a supersede; a third
shows only `stale_certification`. Two Guidance versions give one edit; a second
edit does to a run what the first did, because the first leaves none that could
label. A crash in the middle of a recovered run needs two crashes. Two chains
are the least for a cross-chain start; one quantization scheme gives the three
generations that `_transitive_dependents_in_session` walks. Three launches are
the least for a race, a retry and a cancel. On one GPU seven deployment ids
never run out: `ComesToRest` would not hold if a deployment found none. Requests,
crashes and faults are also bounded together (`MaxEvents`, `MaxServingEvents`):
with Students two of them, a displacement that is refused or a Student that a
crash interrupts; without Students three, two requests and a crash, one of each,
or a `docker rm` that is refused of a container which an earlier refusal left.
Three with Students were checked by hand for the four invariants (five ids, 1.4 M
states), the inductive invariant of section 5 with two faults for seven million
states, and section 5 has every bound. Three examples let the pool hold one,
refill and leave one to train on. `Rpm = 1` is run; two were checked by hand
(3.2 M states), and section 5 has every ceiling. Each bound that the code does
not have (`Max...`) is a guard on the action it bounds. Deadlock is not checked:
when bounds are used up and all work is done, nothing is left to do, as in the
program.

**Fairness.** Weak fairness throughout, of what the event loop, or a thread,
goes on with by itself: a request to a Teacher, to TAO or to Docker ends within
its deadline, so every await returns, and the loop runs every ready coroutine.

* One condition for a union of coroutines (`Fairness` of `EvaluationRuns`,
  `StudentServing`, `SuiteSetup`) is enough where each of them ends after a
  bounded number of steps: whoever is served, again and again, all are.
* Chains: the poll tick keeps coming, and TAO ends every job in a way that the
  status machine accepts. It does not accept `paused` to `failed`: a job that
  TAO fails while paused stays paused (`tao_job_service.py:91`), so `Poll` is
  fair for the reports that end a job.
* Drains: `Poll`, the status route that starts a dead drain again, keeps being
  asked; with nobody looking, a drain that died stays dead.
* `SuiteSetup` takes the roll-up of a suite as fair; `TrainingChains` answers
  for it (`SuiteEnds`).
* Archiving: somebody lists the archived projects, which repairs a marker.
* Teacher: proposals that switch the thinking off keep being asked
  (`KeepsAsking`, strong fairness); only they can find out that a recorded
  support is wrong.

Nothing is assumed of SMEs, of cancels or of crashes. Crashes, faults and
failures of transport are bounded, so liveness says what happens once they stop.

**Violations.** Each shows a disagreement between a document or a comment and
the code; `PROJECT.json` quotes both under "findings".

* `promotion_race`: `save_label` looks for the Auto-Labeled row before it has
  the write lock, so a batch outcome committed in between is not promoted but
  doubled.
* `stale_certification`: settings changed and changed back while a run of the
  first change is live; that run still publishes as the newest basis.
* `failed_suite_submits`: the reconcile scan goes on with the next chain of a
  suite whose first submission failed.
* `split_leak`: the two datasets of a suite are selected in two sessions; a save
  in between promotes an example of the first into the Test Pool, and so into
  the second.
* `replays_leave_validated`: two replays look at the same failed row, await, and
  the one that ends last works over what the first one validated.

## 5. What is proved

Eight modules of theorems, checked by TLAPS, for every value of the constants
that satisfies the assumptions the component declares (`KeysAssumption`,
`ShapeAssumption`, `DrainAssumption`, ...: finite sets, positive sizes, natural
bounds). The bounds on requests, edits and crashes are constants as well, so a
theorem holds for any number of them.

A theorem is about the component's own specification. A scene or a shape of a
run starts in states of that specification and takes its steps, while the rest
stutters; the run is an instance of it.

| Module | Theorem | Establishes |
|---|---|---|
| `BatchLabeling_proofs` | `TypeCorrect` | `TypeOK` |
| | `ExclusionCorrect` | `OneActiveRun` |
| | `LabelsCorrect` | `LabelsMatchStates` |
| | `LineageCorrect`, `SnapshotCorrect` | `LiveLabelsAreCurrent`, `RunsUnderActiveGuidance` |
| | `LedgerCorrect` | `LedgerAccountsForRun` |
| | `BreakerCorrect`, `DispatchCorrect` | `BreakerBoundsStreak`, `DispatchOnlyWhileWanted` |
| | `TerminalStands`, `DecisionStands` | `TerminalForever`, `HumanDecisionStands` |
| | `RefinementCorrect` | every behaviour is one of `AtomicProject` |
| `EvaluationRuns_proofs` | `InvariantHolds`, `TypeCorrect` | the invariant, `TypeOK` |
| | `ScoredCorrect`, `CountersCorrect` | `ScoredWhatItFroze`, `CountersPartitionPool` |
| | `NewestCorrect` | `NewestRunWins` |
| `TrainingChains_proofs` | `TypeCorrect` | `TypeOK` |
| | `AskedOnceCorrect`, `ParentsCorrect` | `AskedOnce`, `ParentFirst` |
| | `IsolationCorrect`, `CompletionCorrect` | `HaltsAreExplained`, `CompletedMeansDone` |
| | `CancelIsFinal`, `EndedStands` | `CanceledSuiteStaysQuiet`, `EndedJobsStand` |
| `SuiteSetup_proofs` | `InvariantHolds`, `TypeCorrect` | the invariant, `TypeOK` |
| | `AnswersCorrect`, `PursuitCorrect` | `AnswersStand`, `SetupIsPursued` |
| | `GuidanceCorrect`, `CanceledStaysQuiet` | `TrainsUnderActiveGuidance`, `CanceledSetupStaysQuiet` |
| `StudentServing_proofs` | `LockInvariant`, `TypeCorrect` | the lock's invariant, `TypeOK` |
| | `OneRowCorrect`, `ContainersCorrect` | `OneActiveRowPerGpu`, `ContainersAreManaged` |
| | `LinksCorrect`, `DisplacedCorrect` | `BoundToLiveNims`, `DisplacedAreOwed` |
| `ProjectData_proofs` | `DrainsHold`, `DrainTypeCorrect` | the invariant, `DrainTypeOK` |
| | `SweepCorrect` | `SweepMissesNothing` |
| | `HostedInvariantHolds`, `HostedTypeCorrect` | the invariant, `HostedTypeOK` |
| | `CeilingCorrect` | `WithinCeiling` |
| | `SplitHolds`, `PoolCorrect` | the invariant, `PoolIsVerified` |
| | `HeldOutCorrect`, `FilesCorrect` | `EvaluatedStaysHeldOut`, `FilesMatchStatus` |
| `Labels_proofs` | `EditsKeepLabels`, `ServingKeepsCore` | `LabelsSurviveEdit`, `ServingAsksForCore` of any schema |
| | `AcceptedAnswersStay` | `AcceptedStays` of any answer |
| | `ScoresAgree`, `GateAsksForEachValue` | `MetricsAgree`, `ReadyMeansCovered` of any results |
| | `LabelsAreKept` | `LabelsKeepTheirMeaning` |
| `Choices_proofs` | `LaunchesHold` | `TrainingIsReady` of any launch |
| | `PoolChoiceHolds`, `ReviewChoiceHolds` | `PoolChoiceIsSound`, `ReviewChoiceIsSound` of any images |
| | `ExemplarsHold` | `ExemplarsAreTheMostRelevant` of any candidates |
| | `HostsHold` | `HostKeepsItsWord` of any host |
| | `InvocationsHold` | `InvocationIsSound` of any request |
| | `ChoicesAreKept` | `ChoicesKeepTheirPromises` |

None of the invariants of the stateful components is inductive alone. What each is strengthened with is
what the code relies on without saying so.

**Batch runs.** `IInv` says where the loop and the locks leave no room:

* `StartAlone`: while a start is between its reads and its insert, no run is
  active: nothing else the loop may run in between makes one so.
* `LanesAlive`: an executor that claimed its run finds it running, canceling or
  terminal, never queued or paused: only its own last step leaves running for
  paused. A terminal row may still have lanes, which is why outcomes look at
  the row.
* `SaveUndecided`: an example being saved is still Unlabeled or Auto-Labeled: the
  write lock keeps the other SME handlers out, and a batch outcome decides
  nothing.

The argument about labels is the one the code makes in comments: an outcome is
persisted only if its run is still running, an edit fails every run that could
be, and a run claimed after an edit is failed by the re-check; so a running run
was frozen under the active version, and what it writes is current. The ledger,
the breaker and the dispatch rest on `RunsAreSound`, which is said of each run
by itself: at most `Width` items are in its lanes (`LanesHold`), its events say
what its row says (`EventsAreSet`), the streak *and the requests still in
flight* together stay below the threshold plus the width (`StreakIsBounded`,
which is what makes the streak's own bound inductive: each answer moves one
request from the second to the first), an answer is ignored only in a run that
will not complete (`IgnoredAreDoomed`), and while the run labels, its tally is
the ledger's as long as no event took its authority away and every item out of
work has an outcome as long as none was set (`LedgerIsOpen`). The refinement
maps runs' statuses to phases and example states to dispositions: `PhaseStep`
and `DispositionStep` show each action to be a step of the abstract project or
a stutter.

**Evaluations.** What a run froze under the active version is still in the pool
(`FrozenArePooled`), because only a semantic edit takes examples out and it
makes a version of its own; a run that runs is under the active version
(`RunningIsCurrent`); so the truth loaded later has every frozen member
(`TruthIsFrozen`), which a publication needs. `NewestRunWins` is an action
property and needs that of the gate-basis runs only the newest is live
(`NewestIsLive`), also between the two halves of a manual start. The counters
need a counting lemma, `MembersAreCounted`: outcome classes partition the pool.

**Chains.** The strengthening says what each coroutine may rely on when it is
resumed:

* `Unasked`: a row that says not started was never asked for; `PostsOpen`: a
  POST under way owns its row, which only a cancel of the suite changes;
  `LocalsOpen`: the same of a local evaluation.
* `Ready`: what is about to be submitted has its checkpoint; it rests on
  `SuccessStands`, that nothing takes a parent's success back.
* `Quiet`: a canceled suite has no submission planned, and only its cancel
  sweeps its rows. That takes `KickoffAlone`: the launch settles its suite
  without giving up the loop, so no other flow stands between its plan and its
  submission then.
* `Reported`: a failure is handled while it stands, so a halt still has its
  reason when it is written. The baseline evaluation, which may run locally and
  overwrites its row, is excepted; nothing depends on it (`BaselineIsLeaf`).

`RowStep`, `ReasonStep`, `SuiteStep` and `FlowStep` go through the actions once
each and say what a step may do to a row, to its reason, to the suite and to the
flows; the preservation of each part of the invariant then follows from them
without looking at an action again.

**Suite setup.** A suite in setup is in exactly one flow's hands, and an
active pull in one task's (`OneOwner`, `SetupsAreOwned`, `PullsArePursued`): the
claims of the idempotency key, of the retry and of the base each have a flow on
one side and a row on the other, and `OwnersAgree` and `RunsAgree` tie them. From that
follow the answers (no second flow rewrites a suite somebody was answered with)
and the quiet of a canceled suite (its owner finds it canceled at its next look
and nobody else has it). `LinksAgree` carries the frozen Guidance through the
exports to the commit, where the re-read compares it with the active one.

**NIMs and Students.** Five layers, each using those below it, so that no proof
looks at all of the state at once.

1. `LockInv`: the deploy lock has one holder; ids are given in the order of the
   lock, so the holder's is the youngest and *of the deployments a GPU ever had
   only the youngest may be active* (`YoungestHasTheGpu`), but for residents whose
   stop raised (`spared`). This is the part that is not written anywhere in the
   code and from which one row per GPU follows.
2. `RowsStay`: an id that is taken stays what it is.
3. `BoxInv`: under an id that is being deployed there is one flow and no
   container yet (`DeploymentsAreAlone`), so a container that runs without an
   active row has somebody who is about to remove it, or its removal was refused
   or never asked for (`left`), which each step that ends a row records.
4. `LinkInv`: what a promoting flow knows of its NIM still holds when it binds it.
5. `OwedInv`: who displaced somebody and failed is itself somebody's work
   (`DisplacersArePursued`), the holder of the lock included, whose stamp may be
   yet to come; unless a crash cut its clean-up short (`torn`) or the GPU was
   handed on (`HandedOn`): to somebody newer, or to a resident whose stop raised
   and at whose expense no restoration is made.

The theorems say what holds *whatever Docker refuses*: `ContainersCorrect` does not
promise that a container goes, but that a live one without an active row is being
removed or on record as kept by Docker, by a failed inspection or by a crash. The
exceptions `torn`, `left` and `spared` are what the code leaves open (section 6).

**Drains.** The sweeper ends only if what it tried is all there is
(`AttemptsAreDone`, `BatchesAreIngested`), and an ingest adds its trigger in the
step that adds its row, so what is missing has a sweeper or a trigger on its
way.

**Hosted requests.** `WithinCeiling` is about every window of the life of the
process; the limiter remembers only the end of what it let through
(`MemoryIsTheEnd`) and forgot what is a window old. Since it never remembers
more than the ceiling (`MemoryFits`) and whoever sleeps holds the lock and waits
for the oldest of a full window (`SleeperHoldsLock`), the request `Rpm` places
later is a window later (`PassedAreSpaced`); a window with more than `Rpm`
would hold two such.

**Held-out data.** `FrozenStayInPool`: what was frozen since the last wipe is
still in the pool, whatever the fraction, for a refill only adds; exemplars and
training data exclude the pool. `Select` may be any selection that takes from
its candidates.

**Labels and choices.** The pure modules have no state, so their invariants say
something of the questions of a run. A theorem says it of *every* question the
program can be asked, and names what a question is; the invariant of the run is
a corollary (`LabelsAreKept`, `ChoicesAreKept`), for which each scene's
questions are shown to be of that kind. What a question is:

* Of an edit: the ids of the schema are distinct, the edit submits a known field
  once (`KnownOnce`: the code looks fields up by id), and the labels are stored
  ones, valid and canonical. Of a score: the true labels are stored ones. Of the
  gate: its threshold of F1 is above zero; at zero it asks nothing of a value.
* Of a launch (`LaunchAsked`): nothing but the fields of its rows and switches
  that are on or off.
* Of the choices by likeness (`PoolAsked`, `ReviewAsked`, `ExemplarsAsked`):
  finitely many images, distances and similarities that are integers, each
  candidate once.
* Of a host (`HostAsked`): catalog names are unique; the embedding model is no
  Teacher, has a container and asks for no capability; a deployment's device
  exists and its status is one of the code's.
* Of a request (`InvocationAsked`): the schema has a Core field
  (`schema_core.py:369`), settings are positive where the code requires it, an
  answer validates only if it came, the file read for an example is of that
  example. `StaysInTheWindow` is said under the settings as delivered (section 6
  has why).

The pure modules are loops, sorted sets and filtered sequences (`Sequencing`).
A loop is a function of the number of its steps: `LoopExists` says that there is
one, `LoopKeeps` that what each step preserves holds at the end. A sorted set
is a sequence in which each element stands behind as many as precede it
(`InTurn`). The library's induction theorems take an operator as a parameter and
cannot be cited; where an induction is needed, the least counterexample is taken
instead (`LeastNat`). On these rest the arguments of the parts:

* An edit is classified by what changed; one that is not semantic only renames,
  and a renaming without twins is injective, so labels agree after it exactly if
  they did before.
* A greedy choice is unique once ties are broken by the order of the images, so
  the order in which they come does not matter; a prefix of the order of
  relevance that fits is the longest that does.
* A deployment takes what placement found free or says whom it displaces; the
  assessment reads the same rows, so its advice can be followed where the GPUs
  are alike.
* Of a request, the answer's room is reserved before exemplars are added, and
  each exemplar is added only if it fits into what is left; so prompt and
  answer fit together, the repetition included.

**Only model-checked**, because it is beyond this prover: liveness under
fairness, for which ENABLED is needed (`RunsSettle`, `EvaluationsSettle`,
`ChainsGoOn`, `SuiteEnds`, `SetupsSettle`, `ComesToRest`, `EmbeddingsCatchUp`,
`WrongSupportIsUnlearned`, `StudentsAreJudged`, `MarkerFollowsColumn` and the
first conjunct of `ExportsSettle`).

Every invariant and every other action property of the passing runs is stated
by a theorem above.

## 6. What is not modelled, and why

* Data that no property tells apart: prompt text, sampling and seeds, the content
  of images, vectors and hashes, the text of metrics, display rounding, the report on class
  coverage.
* Standalone TAO jobs, the one-time migration of legacy LoRA skips, external
  mode of local NIMs, `activate_teacher_model_config`.
* Of a deployment: port choice, the docker command line, the details of
  preflight and of NGC.
* Commits that follow each other without an await are one step where no other
  coroutine can come between: a stop's status and the detachment of its
  endpoints. A crash between them is not modelled, nor is an error of the database
  there, except in a displacement, where it is swallowed (`EvictRaises`).
* Second processes: a file lock keeps them out (`services/locks.py`).
* SQLite's own contention errors: writers retry or fail as a whole.
* The orderly shutdown's grace periods: a crash covers what they may lose.
* Pure rendering, CRUD, the browser interface, scripts.
* `test_pool_fraction` is a float in the code and an exact rational in the
  model; the clock of the limiter moves on past an exact tie.

Properties that are defined and not run, because the code does not have them;
each quotes the promise it is about:

* `SlotsAreDistinct` (`HostedCalls`): two calls may pace to the same slot once
  the interval has decayed (`_pace`).
* `NothingCarriedAcross` (`TeacherCapabilities`): a probe that was asked of one
  endpoint writes its result after the configuration was bound to another
  (`nim_endpoint_service.py:257`).
* `DisplacementFreesTheGpu` (`LocalNim`): the teardown of a displaced NIM ignores
  what `docker stop` and `docker rm` answer (`local_nim_service.py:3619`), and its row
  is stopped and stamped although the container may run.
* `RestartEndsInterrupted` (`Archiving`): the startup scans look at the marker
  file only (`dataset_export_service.py:735`, `main.py:127`,
  `tao_bootstrap_service.py:54`), so work begun through a route without the
  archive guard, or admitted just before, is not ended by a restart.

Behaviour met while modelling that no run states. All of it is in the models.

*Runs and labels*

* The duplicate row of the promotion race survives a semantic edit
  (`schema_evolution_service.py:482`).
* A change made while the newest evaluation is canceling is not evaluated, and
  the end of that run calls no check (`evaluation_service.py:1727`).
* `evaluation_service.py:992` catches the cancellation of its own task.
* Of a schema edit: names in `edited_core_fields` stay stale after a rename; a
  repeated `field_id` hides an added core field; enum values that were stored
  without normalization are not renamed and become invalid; reordering the
  allowed values is "no change" and yet changes the hash. Two values that
  differ in case are both accepted, and one is then read as the other.
* The Scale-Up gate takes the last evaluation by `created_at`; a value without
  a true occurrence has F1 zero, so the gate waits until each is covered.

*Suites and chains*

* A crash after the last job of a chain is committed and before its advance:
  the scan looks only at chains with a `not_started` row, so the next chain
  does not start and the suite stays running (`tao_polling_service.py:2507`). A
  local baseline evaluation that raises stays running (`:1822`).
* After a failure or a cancel, `_plan_suite_advance` has no skip loop: an
  evaluation that the success path would skip or run locally is submitted to
  TAO (`tao_polling_service.py:1220`).
* A failed artifact fetch still advances the chain, although the comment at
  `tao_polling_service.py:1477` says that the caller skips it.
* The local baseline evaluation writes its outcome over a row that was
  canceled meanwhile (`tao_polling_service.py:1866`); `EndedJobsStand` names
  this exception.
* Canceling a suite kills its setup task, perhaps inside the POST of its first
  job: TAO may then have a job whose id was never stored.
* With three chains or more, canceling the first job of a chain that has not
  started while a success flow runs may start two chains at once.
* A crash between the commit of a suite's rows and its kickoff leaves it
  `initialized`, with nobody to start it (`training_suite_service.py:2395`).
* Canceling a suite cancels a provisioning run that another suite shares.
* A repeated success handler creates a second completed run for one evaluate
  job, and a refetch that fails may turn a validated checkpoint to failed. A
  partial checkpoint may be validated: packaging asks for one shard.

*NIMs and Students*

* A crash between the mark of a failure and its teardown leaves a container
  that no row manages (`local_nim_service.py:3681`). `ContainersAreManaged`
  excepts it (`torn`, which also holds the Students whose purge Docker did not
  confirm and residents whose stop raised before the detachment).
* A removal that Docker refuses leaves one too (`local_nim_service.py:3619`), as do a
  `docker inspect` at startup that fails or times out although the container runs
  (`:4511`), and a `docker run` that times out after it started one (`:3375`). No
  row, and nobody else, looks at these again (`left`).
* A stop that raises while its resident is displaced is logged and the
  deployment goes on (`local_nim_service.py:2187`), so two active rows may share a GPU
  (`spared`), and a later restoration of what was displaced is refused.
* A Student whose lifecycle had no active row yet stays `pending` after a crash
  (`student_model_service.py:1311`).
* A Student may itself be displaced, against `student_nim_lifecycle.py:878`; it
  is then restored without its `student_model_id` ("bare"). A nested
  displacement loses the Teacher, a double one restores twice, and what
  displaced somebody and is stopped by its user restores nobody.
* Deploying the same role of the same project on another GPU kills the first
  container by its name; a late `rm -f` by name may hit a successor.

*Drains, requests, archives*

* A project stamped for the local provider whose configuration vouches for a
  dead NIM fails every drain until its health check says so.
* An archived project with pending hashes is passed over at startup, and
  unarchiving it triggers nothing (`passedOver`).
* The wait in the limiter is not bounded by `deadline_s`; one waiter holds the
  lock for all (`hosted_rate_limiter.py:61`).
* A structured-output refusal is never remembered; one that comes out of order
  ends the proposal; a demotion learned late is applied to the new endpoint; the
  endpoint is not looked at again after a probe; `regenerate_rationale` does
  not look at it at all. A pending `OperationRecord` stays pending after a crash.
* The room for an answer and its repetition suffice with the settings as they
  are delivered (`StaysInTheWindow`). `MAX_OUTPUT_FRACTION` may be set up to 1,
  and then the repetition may ask for more than the window has left
  (`prompt_service.py:1391`); it also passes over the operator's
  `RUNTIME_PROMPT_OUTPUT_MAX_TOKENS_OVERRIDE`. The tokens of images are not counted.
* An exemplar whose file cannot be read ends the request, where
  `prompt_service.py:247` says that it goes on with text only.
* The assessment looks at the first running Teacher only
  (`environment.py:407`): a recommended one that runs on a later GPU is not named
  for reuse, although a deployment and a new project take it.
* The GPU that the assessment keeps for a Teacher is the lowest that is free, a
  Teacher takes the lowest that is large enough, and the placement of an
  embedding NIM does not ask for the supported products the assessment asks for.
  Hence `AdviceCanBeFollowed` says of an embedding NIM beside a Teacher only what
  holds where the GPUs are alike.
* Placement takes memory to a tenth of a GB, the preflight as it is: a GPU of
  79.16 GB is placed for a floor of 80 and then refused. A host on which no GPU
  is large enough names its first resident as replaceable
  (`routers/local_nim.py:88`), although a retry is refused again.
* A Student base whose name has an allowed prefix (`model_config_service.py:497`)
  but no path to the Hub passes the launch's preflight with the promise that it
  will be provisioned, and the provisioning fails. One spelled with capitals is
  provisioned in TAO but not found by the patch of the projects, which goes by
  the exact name, as does the restriction on quantization. A provisioning that
  fails in its transfer does not record the bases it found registered.
* Suite setup is not in the busy gate of archiving.
* `services/priority.py:58`: re-enabling the hold leaves the gate open until the
  next foreground request. `services/sse.py:124`: the shutdown sentinel is
  dropped for a full queue.

## 7. Plan

Done, the most important behaviour first: `BatchLabeling` with
`AtomicProject`; `EvaluationRuns`; `TrainingChains`; `LocalNim` and
`StudentServing`; `SuiteSetup`; `IngestDrains`; `DataSplit` and `Diversity`;
`LabelSchema` and `LabelMetrics`; `Invocation`, `HostReadiness`, `TrainingReadiness`;
`HostedCalls`, `TeacherCapabilities`, `StudentRecords`, `Archiving`; and the proofs
of section 5: one module for each large component that has safety properties in
a run, `ProjectData_proofs` for three small ones, `Labels_proofs` and
`Choices_proofs` for the pure modules.

Next:

1. `HandedOn` replaced by a bound on how often a displaced resident may be
   passed over.
2. Transfers of TAO artifacts (`tao_dataset_upload_service`,
   `tao_polling_service`): resumed uploads, partial fetches.
3. The outcome class of an item, which `BatchLabeling` and `EvaluationRuns` take as
   given, out of `Invocation` and the parsing of answers.

Runs that ask related questions of one instance are merged as modules are
added, so that the whole set stays quick to repeat.
