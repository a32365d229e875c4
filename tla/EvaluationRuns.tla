--------------------------- MODULE EvaluationRuns ---------------------------
(***************************************************************************)
(* The evaluation runs of one project: gate-basis runs, which measure the  *)
(* Teacher on the Test Pool and feed the Scale-Up gate, and Student        *)
(* benchmark runs, which share the executor but not the supersede rule.    *)
(*                                                                         *)
(*  - The event loop runs the executors, the start and cancel handlers and *)
(*    the Auto-Evaluate check that ends every mutating request.            *)
(*  - Label saves, settings updates and Guidance edits run on worker       *)
(*    threads under the project write lock, which their Auto-Evaluate      *)
(*    check still holds (LockFree).  A manual start does not take it.      *)
(*  - A restart fails whatever was not terminal.                           *)
(***************************************************************************)
EXTENDS Naturals, FiniteSets, FiniteSetsExt

CONSTANTS
  Keys,          \* examples that can enter the Test Pool
  Runs,          \* identities of evaluation runs
  Settings,      \* values of the tracked settings other than the Guidance
  FirstPool,     \* EVAL_FIRST_POOL_SIZE
  AutoEvaluate,  \* Project.auto_evaluate_enabled
  Width,         \* concurrency of the burst
  MaxPasses,     \* EVAL_RATE_LIMIT_RETRY_MAX_PASSES
  Answers,       \* what a Teacher invocation may come back with
  MaxGuidance,   \* bound: Guidance versions created
  MaxCrashes     \* bound: backend crashes

ASSUME PoolAssumption == IsFiniteSet(Keys) /\ FirstPool \in Nat \ {0}
ASSUME SettingsAssumption == Settings # {} /\ AutoEvaluate \in BOOLEAN
ASSUME ExecutionAssumption == Width \in Nat \ {0} /\ MaxPasses \in Nat
ASSUME AnswersAssumption ==
  Answers \subseteq {"success", "schema_invalid", "endpoint_error", "rate_limited",
                     "rejected", "raise"}
ASSUME BoundsAssumption == MaxGuidance \in Nat \ {0} /\ MaxCrashes \in Nat

VARIABLES
  \* ---- SQLite: survives a crash
  active,    \* Project.active_guidance_id, as a version number
  era,       \* the version born from the last semantic Core change
  setting,   \* the other tracked settings of the project
  pool,      \* examples whose verified label is routed to the Test Pool
  status,    \* RunRecord.status, "none" before the row exists
  frozen,    \* what a run snapshotted: kind, guidance, setting, pool members
  born,      \* order of RunRecord.created_at
  counts,    \* examples_succeeded, _schema_invalid, and the other counters
  \* ---- process memory
  exec,      \* where each run's executor task stands
  work,      \* where the executor has each of its examples
  results,   \* the executor's outcome of each example
  truth,     \* the ground truth it loaded: under which version, of which examples
  retry,     \* examples left in the current sequential pass
  pass,      \* extra passes made for rate-limited examples
  flags,     \* the executor's cancel event and rejection registries
  starting,  \* a manual start between its reads and its first write, if any
  mutating,  \* a mutation committed, its Auto-Evaluate check still to come
  signals,   \* runs failed by a committed edit, their executors not yet told
  crashes    \* bound counter

project  == <<active, era, setting, pool>>
record   == <<status, frozen, born, counts>>
executor == <<exec, work, results, truth, retry, pass>>
request  == <<starting, mutating, signals>>
vars     == <<project, record, executor, flags, request, crashes>>

Guidances == 1 .. MaxGuidance
Outcomes  == {"success", "schema_invalid", "endpoint_error", "rate_limited"}
Counters  == {"success", "schema_invalid", "other"}
Live      == {"queued", "running"}
Published == {"completed", "incomplete"}
Terminal  == Published \cup {"canceled", "failed"}
Snapshot  == [kind : {"gate", "student"}, guidance : Guidances, setting : Settings,
              members : SUBSET Keys]
Untold    == [k \in Keys |-> "none"]
Zero      == [c \in Counters |-> 0]

TypeOK ==
  /\ active \in Guidances /\ era \in 0 .. active /\ setting \in Settings
  /\ pool \subseteq Keys
  /\ status \in [Runs -> {"none", "canceling"} \cup Live \cup Terminal]
  /\ frozen \in [Runs -> Snapshot]
  /\ born \in [Runs -> Nat]
  /\ counts \in [Runs -> [Counters -> Nat]]
  /\ exec \in [Runs -> {"none", "dispatched", "claimed", "burst", "retry"}]
  /\ work \in [Runs -> [Keys -> {"idle", "todo", "invoking"}]]
  /\ results \in [Runs -> [Keys -> {"none"} \cup Outcomes]]
  /\ truth \in [Runs -> [guidance : {0} \cup Guidances, keys : SUBSET Keys]]
  /\ retry \in [Runs -> SUBSET Keys]
  /\ pass \in [Runs -> 0 .. MaxPasses]
  /\ flags \in [Runs -> SUBSET {"cancel", "rejected"}]
  /\ starting \subseteq [run : Runs, snapshot : Snapshot]
  /\ mutating \in BOOLEAN
  /\ signals \subseteq Runs
  /\ crashes \in 0 .. MaxCrashes

Init ==
  /\ active = 1 /\ era = 0 /\ setting \in Settings
  /\ pool \in SUBSET Keys
  /\ status = [r \in Runs |-> "none"]
  /\ frozen = [r \in Runs |-> [kind |-> "gate", guidance |-> 1, setting |-> setting, members |-> {}]]
  /\ born = [r \in Runs |-> 0]
  /\ counts = [r \in Runs |-> Zero]
  /\ exec = [r \in Runs |-> "none"]
  /\ work = [r \in Runs |-> [k \in Keys |-> "idle"]]
  /\ results = [r \in Runs |-> Untold]
  /\ truth = [r \in Runs |-> [guidance |-> 0, keys |-> {}]]
  /\ retry = [r \in Runs |-> {}]
  /\ pass = [r \in Runs |-> 0]
  /\ flags = [r \in Runs |-> {}]
  /\ starting = {} /\ mutating = FALSE /\ signals = {}
  /\ crashes = 0

-----------------------------------------------------------------------------
(* Starting a run.                                                         *)

LoopFree == starting = {}

\* signal_run_cancellation: an executor that has begun has registered its event.
Told(r) == IF exec[r] \in {"claimed", "burst", "retry"} THEN flags[r] \cup {"cancel"} ELSE flags[r]

Current(kind) ==
  [kind |-> kind, guidance |-> active, setting |-> setting, members |-> pool]

\* Runs a new gate-basis run supersedes; one already canceling needs nothing.
\* Mutant: a run that has not begun is left alone.
SupersededIfRunning(kind) ==
  IF kind = "gate" THEN {q \in Runs : frozen[q].kind = "gate" /\ status[q] = "running"} ELSE {}

Superseded(kind) ==
  IF kind = "gate" THEN {q \in Runs : frozen[q].kind = "gate" /\ status[q] \in Live} ELSE {}

\* The insert of start_evaluation_run: supersede, new row, new task, at once
\* for every other coroutine and, being one transaction, for every thread.
Insert(r, snapshot) ==
  /\ status' = [q \in Runs |-> IF q = r THEN "queued"
                               ELSE IF q \in Superseded(snapshot.kind) THEN "canceling"
                               ELSE status[q]]
  /\ flags' = [q \in Runs |-> IF q \in Superseded(snapshot.kind) THEN Told(q) ELSE flags[q]]
  /\ frozen' = [frozen EXCEPT ![r] = snapshot]
  /\ born' = [born EXCEPT ![r] = 1 + Max({born[q] : q \in Runs})]
  /\ exec' = [exec EXCEPT ![r] = "dispatched"]

\* A start by hand, or of a Student benchmark, reads with autocommit SELECTs
\* until its first flush: an edit on its thread may commit in between.
StartRead(r) ==
  /\ LoopFree
  /\ status[r] = "none"
  /\ pool # {}
  /\ \E kind \in {"gate", "student"} : starting' = {[run |-> r, snapshot |-> Current(kind)]}
  /\ UNCHANGED <<project, record, executor, flags, mutating, signals, crashes>>

StartInsert ==
  /\ \E s \in starting : Insert(s.run, s.snapshot)
  /\ starting' = {}
  /\ UNCHANGED <<project, counts, work, results, truth, retry, pass, mutating, signals, crashes>>

Cancel(r) ==
  /\ LoopFree
  /\ status[r] \in Live \cup {"canceling"}
  /\ status' = [status EXCEPT ![r] = "canceling"]
  /\ flags' = [flags EXCEPT ![r] = Told(r)]
  /\ UNCHANGED <<project, frozen, born, counts, executor, request, crashes>>

-----------------------------------------------------------------------------
(* The executor.                                                           *)

\* Phase A.  The claim UPDATE holds the write lock, so the active Guidance it
\* reads next is the one any concurrent edit left.
ClaimedStatus(r) ==
  CASE status[r] = "canceling" -> "canceled"
    [] status[r] = "queued"    -> IF frozen[r].guidance = active THEN "running" ELSE "failed"
    [] OTHER                   -> status[r]

Claim(r) ==
  /\ LoopFree
  /\ exec[r] = "dispatched"
  /\ status' = [status EXCEPT ![r] = ClaimedStatus(r)]
  /\ exec' = [exec EXCEPT ![r] = IF ClaimedStatus(r) = "running" THEN "claimed" ELSE "none"]
  /\ UNCHANGED <<project, frozen, born, counts, work, results, truth, retry, pass,
                 flags, request, crashes>>

\* A later transaction reads the ground truth of the frozen members.
Load(r) ==
  /\ LoopFree
  /\ exec[r] = "claimed"
  /\ truth' = [truth EXCEPT ![r] = [guidance |-> active, keys |-> pool \cap frozen[r].members]]
  /\ work' = [work EXCEPT ![r] = [k \in Keys |-> IF k \in frozen[r].members THEN "todo" ELSE "idle"]]
  /\ exec' = [exec EXCEPT ![r] = "burst"]
  /\ UNCHANGED <<project, record, results, retry, pass, flags, request, crashes>>

\* The executor leaves: its memory of the run is gone.
Leave(r) ==
  /\ exec' = [exec EXCEPT ![r] = "none"]
  /\ work' = [work EXCEPT ![r] = [k \in Keys |-> "idle"]]
  /\ results' = [results EXCEPT ![r] = Untold]
  /\ retry' = [retry EXCEPT ![r] = {}]
  /\ pass' = [pass EXCEPT ![r] = 0]
  /\ flags' = [flags EXCEPT ![r] = {}]

\* Every UPDATE of a run's status leaves a terminal status alone.
Then(r, to) == IF status[r] \in Terminal THEN status[r] ELSE to

\* What loading the ground truth and the run's configuration may raise is the
\* executor's unhandled exception.
LoadRaises(r) ==
  /\ LoopFree
  /\ "raise" \in Answers
  /\ exec[r] = "claimed"
  /\ status' = [status EXCEPT ![r] = Then(r, "failed")]
  /\ Leave(r)
  /\ UNCHANGED <<project, frozen, born, counts, truth, request, crashes>>

InFlight(r) == {k \in Keys : work[r][k] = "invoking"}
Canceled(r) == "cancel" \in flags[r]

\* Phase B.  Each task looks at the event once more after the foreground gate
\* and the semaphore, and dispatches without another await.
MayDispatch(r) == ~Canceled(r)

BurstDispatch(r, k) ==
  /\ LoopFree
  /\ exec[r] = "burst"
  /\ work[r][k] = "todo"
  /\ MayDispatch(r)
  /\ Cardinality(InFlight(r)) < Width
  /\ work' = [work EXCEPT ![r][k] = "invoking"]
  /\ UNCHANGED <<project, record, exec, results, truth, retry, pass, flags, request, crashes>>

BurstSkip(r, k) ==
  /\ LoopFree
  /\ exec[r] = "burst"
  /\ work[r][k] = "todo"
  /\ ~MayDispatch(r)
  /\ work' = [work EXCEPT ![r][k] = "idle"]
  /\ UNCHANGED <<project, record, exec, results, truth, retry, pass, flags, request, crashes>>

\* A capability rejection is an endpoint_error whose text names a control.
Recorded(answer) == IF answer = "rejected" THEN "endpoint_error" ELSE answer

\* The outcome transaction reads the run's status: an answer to a canceling
\* run is kept for audit only and may not fail the run as rejected.
Ignored(r) == status[r] = "canceling"

Noted(r, answer) ==
  IF answer = "rejected" /\ ~Ignored(r) THEN flags[r] \cup {"cancel", "rejected"} ELSE flags[r]

Of(outcomes, members, kinds) == Cardinality({k \in members : outcomes[k] \in kinds})

\* _persist_progress_counters: one count per example, whatever its attempts.
Tally(outcomes, members) ==
  [c \in Counters |-> Of(outcomes, members, IF c = "other" THEN {"endpoint_error", "rate_limited"}
                                            ELSE {c})]

Persisted(r, outcomes) ==
  IF status[r] \in Terminal THEN counts
  ELSE [counts EXCEPT ![r] = Tally(outcomes, frozen[r].members)]

\* Progress is persisted every twentieth of the pool and when it is complete.
BurstReturn(r, k, answer) ==
  /\ LoopFree
  /\ exec[r] = "burst"
  /\ work[r][k] = "invoking"
  /\ answer # "raise"
  /\ work' = [work EXCEPT ![r][k] = "idle"]
  /\ flags' = [flags EXCEPT ![r] = Noted(r, answer)]
  /\ IF Ignored(r) THEN UNCHANGED <<results, counts>>
     ELSE /\ results' = [results EXCEPT ![r][k] = Recorded(answer)]
          /\ counts' \in {counts, Persisted(r, results'[r])}
          /\ (\A j \in frozen[r].members : results'[r][j] # "none") =>
                counts' = Persisted(r, results'[r])
  /\ UNCHANGED <<project, status, frozen, born, exec, truth, retry, pass, request, crashes>>

\* An exception leaves the task; the example has no outcome yet.
BurstRaise(r, k) ==
  /\ LoopFree
  /\ "raise" \in Answers
  /\ exec[r] = "burst"
  /\ work[r][k] = "invoking"
  /\ work' = [work EXCEPT ![r][k] = "idle"]
  /\ UNCHANGED <<project, record, exec, results, truth, retry, pass, flags, request, crashes>>

Failing == {"endpoint_error", "rate_limited"}

\* The gather is inspected: an example whose task raised gets an
\* endpoint_error of its own, unless the run is being stopped.
\* Mutant: the exceptions gather returned are not inspected.
GatheredUninspected(r) == results[r]

Gathered(r) ==
  [k \in Keys |-> IF k \in frozen[r].members /\ results[r][k] = "none" /\ ~Canceled(r)
                  THEN "endpoint_error" ELSE results[r][k]]

\* How an executor that was told to stop leaves: a recorded rejection fails
\* the run; otherwise a canceling run is canceled and its counters kept.
Stop(r) ==
  /\ Canceled(r)
  /\ IF "rejected" \in flags[r]
     THEN status' = [status EXCEPT ![r] = Then(r, "failed")] /\ UNCHANGED counts
     ELSE /\ status' = [status EXCEPT ![r] = IF @ = "canceling" THEN "canceled" ELSE @]
          /\ counts' = Persisted(r, results[r])
  /\ Leave(r)
  /\ UNCHANGED <<project, frozen, born, truth, request, crashes>>

BurstOver(r) ==
  /\ LoopFree
  /\ exec[r] = "burst"
  /\ \A k \in Keys : work[r][k] = "idle"

BurstEnd(r) ==
  /\ BurstOver(r)
  /\ ~Canceled(r)
  /\ results' = [results EXCEPT ![r] = Gathered(r)]
  /\ retry' = [retry EXCEPT ![r] = {k \in frozen[r].members : Gathered(r)[k] \in Failing}]
  /\ exec' = [exec EXCEPT ![r] = "retry"]
  /\ UNCHANGED <<project, record, work, truth, pass, flags, request, crashes>>

\* Phases C and C2: one example at a time, the event looked at again after
\* the foreground gate.
RetryDispatch(r, k) ==
  /\ LoopFree
  /\ exec[r] = "retry"
  /\ k \in retry[r]
  /\ MayDispatch(r)
  /\ InFlight(r) = {}
  /\ retry' = [retry EXCEPT ![r] = @ \ {k}]
  /\ work' = [work EXCEPT ![r][k] = "invoking"]
  /\ UNCHANGED <<project, record, exec, results, truth, pass, flags, request, crashes>>

\* An exception counts as endpoint_error; an answer that finds the event set
\* is dropped; only the first pass persists its progress.
RetryReturn(r, k, answer) ==
  LET outcome == IF answer = "raise" THEN "endpoint_error" ELSE Recorded(answer) IN
  /\ LoopFree
  /\ exec[r] = "retry"
  /\ work[r][k] = "invoking"
  /\ work' = [work EXCEPT ![r][k] = "idle"]
  /\ flags' = [flags EXCEPT ![r] = Noted(r, answer)]
  /\ IF "cancel" \in flags'[r] \/ Ignored(r) THEN UNCHANGED <<results, counts>>
     ELSE /\ results' = [results EXCEPT ![r][k] = outcome]
          /\ counts' = IF pass[r] = 0 THEN Persisted(r, results'[r]) ELSE counts
  /\ UNCHANGED <<project, status, frozen, born, exec, truth, retry, pass, request, crashes>>

RateLimited(r) == {k \in frozen[r].members : results[r][k] = "rate_limited"}

PassOver(r) ==
  /\ LoopFree
  /\ exec[r] = "retry"
  /\ InFlight(r) = {}

\* Mutant: passes are not counted.
NextPassNumberUncounted(r) == pass[r]

NextPassNumber(r) == pass[r] + 1

NextPass(r) ==
  /\ PassOver(r)
  /\ ~Canceled(r)
  /\ retry[r] = {} /\ RateLimited(r) # {} /\ pass[r] < MaxPasses
  /\ retry' = [retry EXCEPT ![r] = RateLimited(r)]
  /\ pass' = [pass EXCEPT ![r] = NextPassNumber(r)]
  /\ UNCHANGED <<project, record, exec, work, results, truth, flags, request, crashes>>

\* A schema-invalid answer is a scored miss, yet it too leaves the run
\* incomplete; so does a success with no ground truth to score it against.
Scored(r) == {k \in frozen[r].members : results[r][k] = "success" /\ k \in truth[r].keys}

\* Phases D to G, without an await: metrics, then one conditional UPDATE.
FinalStatus(r) ==
  IF status[r] = "canceling" THEN "canceled"
  ELSE Then(r, IF Scored(r) = frozen[r].members THEN "completed" ELSE "incomplete")

Publish(r) ==
  /\ PassOver(r)
  /\ ~Canceled(r)
  /\ retry[r] = {} /\ (RateLimited(r) = {} \/ pass[r] = MaxPasses)
  /\ status' = [status EXCEPT ![r] = FinalStatus(r)]
  /\ counts' = IF FinalStatus(r) \in Published THEN Persisted(r, results[r]) ELSE counts
  /\ Leave(r)
  /\ UNCHANGED <<project, frozen, born, truth, request, crashes>>

StopEarly(r) == (BurstOver(r) \/ PassOver(r)) /\ Stop(r)

Attempts(r) ==
  \E k \in Keys :
    \/ BurstDispatch(r, k) \/ BurstSkip(r, k) \/ BurstRaise(r, k) \/ RetryDispatch(r, k)
    \/ \E a \in Answers : BurstReturn(r, k, a) \/ RetryReturn(r, k, a)

Executor(r) ==
  Claim(r) \/ Load(r) \/ LoadRaises(r) \/ Attempts(r) \/ BurstEnd(r) \/ NextPass(r)
    \/ Publish(r) \/ StopEarly(r)

-----------------------------------------------------------------------------
(* Mutations under the project write lock, and their Auto-Evaluate check.  *)

LockFree == ~mutating /\ signals = {}

SaveLabel ==
  /\ LockFree
  /\ \E k \in Keys \ pool : pool' = pool \cup {k}
  /\ mutating' = TRUE
  /\ UNCHANGED <<active, era, setting, record, executor, flags, starting, signals, crashes>>

UpdateSettings ==
  /\ LockFree
  /\ setting' \in Settings \ {setting}
  /\ mutating' = TRUE
  /\ UNCHANGED <<active, era, pool, record, executor, flags, starting, signals, crashes>>

\* _cancel_active_runs: the sweep of a Guidance edit.
\* Mutant: the sweep leaves running runs to their executors.
SweptIdle == {r \in Runs : status[r] \in {"queued", "canceling"}}

Swept == {r \in Runs : status[r] \in Live \cup {"canceling"}}

Sweep ==
  /\ active < MaxGuidance
  /\ active' = active + 1
  /\ status' = [r \in Runs |-> IF r \in Swept THEN "failed" ELSE status[r]]
  /\ signals' = Swept
  /\ mutating' = TRUE

EditInPlace ==
  /\ LockFree
  /\ Sweep
  /\ UNCHANGED <<era, setting, pool, frozen, born, counts, executor, flags, starting, crashes>>

\* A semantic Core edit deletes the labels, so the Test Pool with them.
EditSemantic ==
  /\ LockFree
  /\ Sweep
  /\ era' = active'
  /\ pool' = {}
  /\ UNCHANGED <<setting, frozen, born, counts, executor, flags, starting, crashes>>

Signal(r) ==
  /\ r \in signals
  /\ flags' = [flags EXCEPT ![r] = Told(r)]
  /\ signals' = signals \ {r}
  /\ UNCHANGED <<project, record, executor, starting, mutating, crashes>>

\* _era_teacher_evals: gate-basis runs of the current schema era.
OfEra(kinds) ==
  {r \in Runs : frozen[r].kind = "gate" /\ status[r] \in kinds /\ frozen[r].guidance >= era}

Newest(S) == {r \in S : \A q \in S : born[q] <= born[r]}

\* detect_config_changes
Changed(r) == frozen[r].guidance # active \/ frozen[r].setting # setting

\* compute_trigger_status: first pool threshold, configuration change, or the
\* growth of the ICL examples since the last run, which the model leaves open:
\* AutoStart assumes it, AutoDecline does not.
Triggered(growth) ==
  LET last == Newest(OfEra(Published)) IN
  \/ last = {} /\ Cardinality(pool) >= FirstPool
  \/ \E r \in last : Changed(r) \/ growth

\* A live run of the current configuration, or a cancel in progress,
\* suppresses an automatic start.
Suppressed ==
  \E r \in Newest({q \in Runs : frozen[q].kind = "gate" /\ status[q] \in Live \cup {"canceling"}}) :
     status[r] = "canceling" \/ ~Changed(r)

CheckDue == mutating /\ signals = {} /\ LoopFree

AutoStart(r) ==
  /\ CheckDue /\ AutoEvaluate
  /\ Triggered(TRUE) /\ ~Suppressed /\ pool # {}
  /\ status[r] = "none"
  /\ Insert(r, Current("gate"))
  /\ mutating' = FALSE
  /\ UNCHANGED <<project, counts, work, results, truth, retry, pass, starting, signals, crashes>>

\* No run is left, in the bounded model only, or none is called for.
AutoDecline ==
  /\ CheckDue
  /\ \/ ~AutoEvaluate \/ ~Triggered(FALSE) \/ Suppressed \/ pool = {}
     \/ \A r \in Runs : status[r] # "none"
  /\ mutating' = FALSE
  /\ UNCHANGED <<project, record, executor, flags, starting, signals, crashes>>

\* Startup recovery fails evaluation runs: they are not resumed.
Interrupted == {r \in Runs : status[r] \in Live \cup {"canceling"}}

CrashRestart ==
  /\ crashes < MaxCrashes
  /\ crashes' = crashes + 1
  /\ status' = [r \in Runs |-> IF r \in Interrupted THEN "failed" ELSE status[r]]
  /\ exec' = [r \in Runs |-> "none"]
  /\ work' = [r \in Runs |-> [k \in Keys |-> "idle"]]
  /\ results' = [r \in Runs |-> Untold]
  /\ retry' = [r \in Runs |-> {}]
  /\ pass' = [r \in Runs |-> 0]
  /\ flags' = [r \in Runs |-> {}]
  /\ starting' = {} /\ mutating' = FALSE /\ signals' = {}
  /\ UNCHANGED <<project, frozen, born, counts, truth>>

-----------------------------------------------------------------------------
Next ==
  \/ \E r \in Runs : Executor(r) \/ StartRead(r) \/ Cancel(r) \/ AutoStart(r) \/ Signal(r)
  \/ StartInsert \/ AutoDecline
  \/ SaveLabel \/ UpdateSettings \/ EditInPlace \/ EditSemantic
  \/ CrashRestart

Spec == Init /\ [][Next]_vars

\* What is under way in the request handlers and their threads.
Handler ==
  StartInsert \/ AutoDecline \/ \E r \in Runs : Signal(r) \/ AutoStart(r)

\* The event loop keeps scheduling the executors, a Teacher request answers
\* within its HTTP deadline, foreground requests end, threads run.  An executor
\* takes finitely many steps, so fairness to all of them is fairness to each.
Fairness == WF_vars(\E r \in Runs : Executor(r)) /\ WF_vars(Handler)

FairSpec == Spec /\ Fairness

-----------------------------------------------------------------------------
(* Safety.                                                                 *)

\* A published run was scored against labels of the version it froze, and
\* against every member it froze: an edit between its start, its claim, its
\* load and its last UPDATE never lets it publish.
ScoredWhatItFroze ==
  \A r \in Runs : status[r] \in Published =>
    truth[r].guidance = frozen[r].guidance /\ frozen[r].members \subseteq truth[r].keys

\* The counters of a published run count each member of its frozen pool once,
\* although failed attempts were repeated; a completed run has only successes.
CountersPartitionPool ==
  \A r \in Runs :
    /\ status[r] \in Published =>
         counts[r]["success"] + counts[r]["schema_invalid"] + counts[r]["other"]
           = Cardinality(frozen[r].members)
    /\ status[r] = "completed" => counts[r]["success"] = Cardinality(frozen[r].members)

\* Newest configuration wins: no gate-basis run publishes after a newer one
\* was created, even if the newer one was canceled or failed meanwhile.
NewestRunWins ==
  [][\A r, q \in Runs :
       frozen[r].kind = "gate" /\ frozen[q].kind = "gate" /\ born[q] > born[r]
         => ~(status[r] \notin Published /\ status'[r] \in Published)]_vars

-----------------------------------------------------------------------------
(* Liveness.                                                               *)

\* Every run ends, whatever fails, is rate-limited or raises: there are finitely
\* many here, so from some moment on none is live.
EvaluationsSettle == <>[](\A r \in Runs : status[r] \notin Live \cup {"canceling"})

-----------------------------------------------------------------------------
(* What the documents say and the code does not do.                        *)

\* "a gate-basis run can never certify a configuration the SME has since
\* changed", with Auto-Evaluate on, its check done and a run left to start.
CertifiesCurrentConfiguration ==
  [][\A r \in Runs :
       AutoEvaluate /\ ~mutating /\ (\E q \in Runs : status[q] = "none")
         /\ frozen[r].kind = "gate" /\ status[r] \notin Published /\ status'[r] \in Published
       => ~Changed(r)]_vars
=============================================================================
