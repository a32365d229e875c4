--------------------------- MODULE BatchLabeling ---------------------------
(***************************************************************************)
(* One project of the labeling backend: its examples, labels, Guidance     *)
(* versions and batch-label runs in SQLite, and the actors that write them *)
(* concurrently.                                                           *)
(*                                                                         *)
(*  - The event loop runs the batch executors and the start, cancel and    *)
(*    resume handlers.  Two coroutines interleave only where one awaits:   *)
(*    LoopFree is the event loop's token.                                  *)
(*  - Save, skip, restore and Guidance edit run on worker threads, one at  *)
(*    a time under the project write lock (LockFree).  They interleave     *)
(*    with the event loop at every transaction boundary.                   *)
(*  - A crash loses the process memory and an uncommitted save; startup    *)
(*    recovery then rewrites the run rows.                                 *)
(***************************************************************************)
EXTENDS Naturals, FiniteSets

CONSTANTS
  Keys,         \* the examples of the project
  Runs,         \* identities of batch-label runs
  Width,        \* dispatch width of a run: its number of lanes
  Threshold,    \* consecutive endpoint failures that trip the breaker
  Answers,      \* what a Teacher invocation may come back with
  MaxGuidance,  \* bound: Guidance versions created
  MaxCrashes    \* bound: backend crashes

ASSUME KeysAssumption == IsFiniteSet(Keys)
ASSUME WidthAssumption == Width \in Nat \ {0}
ASSUME ThresholdAssumption == Threshold \in Nat \ {0}
ASSUME AnswersAssumption ==
  Answers \subseteq {"success", "schema_invalid", "endpoint_error", "rejected", "raise"}
ASSUME BoundsAssumption == MaxGuidance \in Nat \ {0} /\ MaxCrashes \in Nat

VARIABLES
  \* ---- SQLite: survives a crash
  active,    \* Project.active_guidance_id, as a version number
  exState,   \* Example.state
  auto,      \* auto_labeled Label rows of each example (guidance and run)
  verified,  \* verified Label rows of each example (their guidance)
  status,    \* RunRecord.status, "none" before the row exists
  reason,    \* RunRecord.status_reason, of the failures told apart here
  snap,      \* the guidance and input_keys a run froze at start
  streak,    \* metrics.circuit_breaker_consecutive
  tripped,   \* metrics.circuit_breaker_tripped
  counts,    \* examples_succeeded, _schema_invalid, _endpoint_error
  op,        \* OperationRecord.invocation_status of each run item
  ignored,   \* items with ignored_due_to_run_cancellation
  \* ---- process memory
  exec,      \* where each run's executor task stands
  work,      \* where the executor has each of its items
  flags,     \* the executor's events: cancel, stopped, breaker, raised, rejected
  tally,     \* the executor's own counters
  starting,  \* the start request between its reads and its insert, if any
  saving,    \* the save between its reads and its flush, if any
  signals,   \* runs failed by a committed edit, their executors not yet told
  crashes    \* bound counter

db    == <<active, exState, auto, verified, status, reason, snap, streak,
           tripped, counts, op, ignored>>
labels == <<exState, auto, verified>>
ledger == <<op, ignored>>
breaker == <<streak, tripped>>
memory == <<exec, work, flags, tally>>
vars  == <<db, memory, starting, saving, signals, crashes>>

Guidances == 1 .. MaxGuidance
Results   == {"success", "schema_invalid", "endpoint_error"}
Terminal  == {"completed", "canceled", "failed"}
Active    == {"queued", "running", "canceling"}
AutoLabel == [guidance : Guidances, run : Runs]
Snapshot  == [guidance : Guidances, input : SUBSET Keys]
NoCounts  == [x \in Results |-> 0]

TypeOK ==
  /\ active \in Guidances
  /\ exState \in [Keys -> {"Unlabeled", "Auto-Labeled", "Verified", "Omitted"}]
  /\ auto \in [Keys -> SUBSET AutoLabel]
  /\ verified \in [Keys -> SUBSET Guidances]
  /\ status \in [Runs -> {"none", "paused"} \cup Active \cup Terminal]
  /\ reason \in [Runs -> {"none", "edited", "rejected", "unhandled"}]
  /\ snap \in [Runs -> Snapshot]
  /\ streak \in [Runs -> Nat]
  /\ tripped \in [Runs -> BOOLEAN]
  /\ counts \in [Runs -> [Results -> Nat]]
  /\ op \in [Runs -> [Keys -> {"none", "pending"} \cup Results]]
  /\ ignored \in [Runs -> SUBSET Keys]
  /\ exec \in [Runs -> {"none", "dispatched", "claimed", "lanes"}]
  /\ work \in [Runs -> [Keys -> {"idle", "todo", "held", "invoking"}]]
  /\ flags \in [Runs -> SUBSET {"cancel", "stopped", "breaker", "raised", "rejected"}]
  /\ tally \in [Runs -> [Results -> Nat]]
  /\ starting \subseteq [run : Runs, snapshot : Snapshot]
  /\ saving \subseteq [key : Keys, guidance : Guidances, seen : SUBSET AutoLabel]
  /\ signals \subseteq Runs
  /\ crashes \in 0 .. MaxCrashes

Init ==
  /\ active = 1
  /\ exState = [k \in Keys |-> "Unlabeled"]
  /\ auto = [k \in Keys |-> {}]
  /\ verified = [k \in Keys |-> {}]
  /\ status = [r \in Runs |-> "none"]
  /\ reason = [r \in Runs |-> "none"]
  /\ snap = [r \in Runs |-> [guidance |-> 1, input |-> {}]]
  /\ streak = [r \in Runs |-> 0]
  /\ tripped = [r \in Runs |-> FALSE]
  /\ counts = [r \in Runs |-> NoCounts]
  /\ op = [r \in Runs |-> [k \in Keys |-> "none"]]
  /\ ignored = [r \in Runs |-> {}]
  /\ exec = [r \in Runs |-> "none"]
  /\ work = [r \in Runs |-> [k \in Keys |-> "idle"]]
  /\ flags = [r \in Runs |-> {}]
  /\ tally = [r \in Runs |-> NoCounts]
  /\ starting = {} /\ saving = {} /\ signals = {}
  /\ crashes = 0

-----------------------------------------------------------------------------
(* Starting, canceling and resuming a run: handlers on the event loop.     *)

LoopFree == starting = {} /\ \A r \in Runs : exec[r] # "claimed"

\* Mutant: a canceling run does not count as active.
OtherActiveNotCanceling(r) == \E q \in Runs \ {r} : status[q] \in {"queued", "running"}

OtherActive(r) == \E q \in Runs \ {r} : status[q] \in Active

Selectable(includeAuto) ==
  {"Unlabeled"} \cup (IF includeAuto THEN {"Auto-Labeled"} ELSE {})

\* start_batch_label_run reads the project, the other runs and the examples
\* with autocommit SELECTs and inserts the row in a later transaction: a
\* Guidance edit on its thread may commit in between.
StartRead(r) ==
  /\ LoopFree
  /\ status[r] = "none"
  /\ ~OtherActive(r)
  /\ \E includeAuto \in BOOLEAN :
       starting' = {[run |-> r,
                     snapshot |-> [guidance |-> active,
                                   input |-> {k \in Keys : exState[k] \in Selectable(includeAuto)}]]}
  /\ UNCHANGED <<db, memory, saving, signals, crashes>>

StartInsert ==
  /\ \E s \in starting :
       /\ status' = [status EXCEPT ![s.run] = "queued"]
       /\ snap' = [snap EXCEPT ![s.run] = s.snapshot]
       /\ exec' = [exec EXCEPT ![s.run] = "dispatched"]
  /\ starting' = {}
  /\ UNCHANGED <<active, labels, reason, breaker, counts, ledger, work, flags,
                 tally, saving, signals, crashes>>

\* signal_run_cancellation: only an executor that has begun has registered
\* its cancel event.
Told(r) == IF exec[r] \in {"claimed", "lanes"} THEN flags[r] \cup {"cancel"} ELSE flags[r]

Cancel(r) ==
  /\ LoopFree
  /\ status[r] \in Active \cup {"paused"}
  /\ IF status[r] = "paused"
     THEN status' = [status EXCEPT ![r] = "canceled"] /\ UNCHANGED flags
     ELSE /\ status' = [status EXCEPT ![r] = "canceling"]
          /\ flags' = [flags EXCEPT ![r] = Told(r)]
  /\ UNCHANGED <<active, labels, reason, snap, breaker, counts, ledger, exec,
                 work, tally, starting, saving, signals, crashes>>

Resume(r) ==
  /\ LoopFree
  /\ status[r] = "paused"
  /\ ~OtherActive(r)
  /\ status' = [status EXCEPT ![r] = "queued"]
  /\ streak' = [streak EXCEPT ![r] = 0]
  /\ tripped' = [tripped EXCEPT ![r] = FALSE]
  /\ exec' = [exec EXCEPT ![r] = "dispatched"]
  /\ UNCHANGED <<active, labels, reason, snap, counts, ledger, work, flags,
                 tally, starting, saving, signals, crashes>>

-----------------------------------------------------------------------------
(* The executor of a run.                                                  *)

\* Phase A.  The claim UPDATE takes the write lock, so the active Guidance
\* it reads next is the one any concurrent edit left.
ClaimedStatus(r) ==
  CASE status[r] = "canceling" -> "canceled"
    [] status[r] = "queued"    -> IF snap[r].guidance = active THEN "running" ELSE "failed"
    [] OTHER                   -> status[r]

Claim(r) ==
  /\ LoopFree
  /\ exec[r] = "dispatched"
  /\ status' = [status EXCEPT ![r] = ClaimedStatus(r)]
  /\ reason' = IF status[r] = "queued" /\ ClaimedStatus(r) = "failed"
               THEN [reason EXCEPT ![r] = "edited"] ELSE reason
  /\ exec' = [exec EXCEPT ![r] = IF ClaimedStatus(r) = "running" THEN "claimed" ELSE "none"]
  /\ UNCHANGED <<active, labels, snap, breaker, counts, ledger, work, flags,
                 tally, starting, saving, signals, crashes>>

\* reconcile_batch_items: a success counts when its machine label is still
\* this run's, or an SME disposition has superseded it.
Settled(r, k) ==
  \/ op[r][k] \in Results \ {"success"}
  \/ /\ op[r][k] = "success"
     /\ \/ exState[k] \in {"Verified", "Omitted"}
        \/ /\ exState[k] = "Auto-Labeled"
           /\ auto[k] = {[guidance |-> snap[r].guidance, run |-> r]}

\* Mutant: any operation claimed before the restart counts as done.
DoneOnceClaimed(r) == {k \in snap[r].input \ ignored[r] : op[r][k] # "none"}

Done(r) == {k \in snap[r].input \ ignored[r] : Settled(r, k)}

Summary(r, items) == [x \in Results |-> Cardinality({k \in items : op[r][k] = x})]

Rearmed(r) == IF tripped[r] \/ streak[r] >= Threshold THEN {"breaker"} ELSE {}

\* Resume point of an executor: torn successes go back to pending, the
\* counters are rebuilt from the ledger, a tripped breaker is tripped again.
Reconcile(r) ==
  /\ exec[r] = "claimed"
  /\ op' = [op EXCEPT ![r] = [k \in Keys |->
                 IF op[r][k] = "success" /\ k \notin Done(r) THEN "pending" ELSE op[r][k]]]
  /\ work' = [work EXCEPT ![r] = [k \in Keys |->
                 IF k \in snap[r].input \ Done(r) THEN "todo" ELSE "idle"]]
  /\ tally' = [tally EXCEPT ![r] = Summary(r, Done(r))]
  /\ counts' = IF status[r] \in Terminal THEN counts
               ELSE [counts EXCEPT ![r] = Summary(r, Done(r))]
  /\ flags' = [flags EXCEPT ![r] = @ \cup Rearmed(r)]
  /\ exec' = [exec EXCEPT ![r] = "lanes"]
  /\ UNCHANGED <<active, labels, status, reason, snap, breaker, ignored,
                 starting, saving, signals, crashes>>

InLanes(r) == {k \in Keys : work[r][k] \in {"held", "invoking"}}

\* The lanes stop on any of the events (a rejection also sets cancel).
\* Mutant: the lanes do not look at the breaker.
HaltedUnlessBreaker(r) == flags[r] \ {"breaker"} # {}

Halted(r) == flags[r] # {}

\* A lane takes the next item and waits at the foreground-priority gate.
LanePull(r, k) ==
  /\ LoopFree
  /\ exec[r] = "lanes"
  /\ ~Halted(r)
  /\ work[r][k] = "todo"
  /\ Cardinality(InLanes(r)) < Width
  /\ work' = [work EXCEPT ![r][k] = "held"]
  /\ UNCHANGED <<db, exec, flags, tally, starting, saving, signals, crashes>>

\* Released by the gate, the lane looks at the events again; then it claims
\* the item's one OperationRecord (or reuses the pending one) and invokes.
\* Mutant: the events are not looked at again after the gate.
PassesGateBlindly(r) == exec[r] = "lanes"

PassesGate(r) == ~Halted(r)

LaneDispatch(r, k) ==
  /\ LoopFree
  /\ work[r][k] = "held"
  /\ PassesGate(r)
  /\ op' = [op EXCEPT ![r][k] = "pending"]
  /\ work' = [work EXCEPT ![r][k] = "invoking"]
  /\ UNCHANGED <<active, labels, status, reason, snap, breaker, counts, ignored,
                 exec, flags, tally, starting, saving, signals, crashes>>

LaneGivesUp(r, k) ==
  /\ LoopFree
  /\ work[r][k] = "held"
  /\ ~PassesGate(r)
  /\ work' = [work EXCEPT ![r][k] = "idle"]
  /\ UNCHANGED <<db, exec, flags, tally, starting, saving, signals, crashes>>

\* A capability rejection is an endpoint_error whose text names a control.
Recorded(answer) == IF answer = "rejected" THEN "endpoint_error" ELSE answer

\* The executor's own streak is the row's: each outcome writes both at once.
NextStreak(r, result) ==
  CASE result = "success"        -> 0
    [] result = "schema_invalid" -> streak[r]
    [] OTHER                     -> streak[r] + 1

\* The outcome may still affect the run: it is running, and no event of this
\* process has asked the executor to stop.
\* Mutant: only the event is consulted, not the row.
AuthoritativeByEvent(r) == "cancel" \notin flags[r]

Authoritative(r) == status[r] = "running" /\ "cancel" \notin flags[r]

\* An answer that lost its authority is recorded for audit only.
LaneReturnsLate(r, k, answer) ==
  /\ ~Authoritative(r)
  /\ ignored' = [ignored EXCEPT ![r] = IF status[r] = "canceling" THEN @ \cup {k} ELSE @]
  /\ flags' = [flags EXCEPT ![r] = @ \cup {"stopped"}]
  /\ UNCHANGED <<labels, breaker, counts, tally>>

\* Mutant: a skip is not a disposition.
SupersededByLabel(k) == exState[k] = "Verified"

SupersededBySme(k) == exState[k] \in {"Verified", "Omitted"}

\* Mutant: the disposition is not re-read before the label is written.
PersistsRegardless(k, answer) == answer = "success"

Persists(k, answer) == answer = "success" /\ ~SupersededBySme(k)

LaneReturnsInTime(r, k, answer) ==
  LET next  == NextStreak(r, Recorded(answer))
      trips == "breaker" \in flags[r] \/ next >= Threshold
  IN
  /\ Authoritative(r)
  /\ streak' = [streak EXCEPT ![r] = next]
  /\ tripped' = [tripped EXCEPT ![r] = trips]
  /\ IF Persists(k, answer)
     THEN /\ auto' = [auto EXCEPT ![k] = {[guidance |-> snap[r].guidance, run |-> r]}]
          /\ exState' = [exState EXCEPT ![k] = "Auto-Labeled"]
     ELSE UNCHANGED <<auto, exState>>
  /\ tally' = [tally EXCEPT ![r][Recorded(answer)] = @ + 1]
  /\ counts' = IF trips THEN counts ELSE [counts EXCEPT ![r] = tally'[r]]
  /\ flags' = [flags EXCEPT ![r] =
                 @ \cup (IF trips THEN {"breaker"} ELSE {})
                   \cup (IF answer = "rejected" THEN {"rejected", "cancel"} ELSE {})]
  /\ UNCHANGED <<verified, ignored>>

LaneReturn(r, k, answer) ==
  /\ LoopFree
  /\ work[r][k] = "invoking"
  /\ answer # "raise"
  /\ op' = [op EXCEPT ![r][k] = Recorded(answer)]
  /\ work' = [work EXCEPT ![r][k] = "idle"]
  /\ LaneReturnsLate(r, k, answer) \/ LaneReturnsInTime(r, k, answer)
  /\ UNCHANGED <<active, status, reason, snap, exec, starting, saving, signals, crashes>>

\* An exception leaves the lane; its operation stays pending.
LaneRaise(r, k) ==
  /\ LoopFree
  /\ "raise" \in Answers
  /\ work[r][k] = "invoking"
  /\ work' = [work EXCEPT ![r][k] = "idle"]
  /\ flags' = [flags EXCEPT ![r] = @ \cup {"raised"}]
  /\ UNCHANGED <<db, exec, tally, starting, saving, signals, crashes>>

Drained(r) ==
  /\ exec[r] = "lanes"
  /\ InLanes(r) = {}
  /\ Halted(r) \/ \A k \in Keys : work[r][k] # "todo"

\* What the drained executor makes of its run: a capability rejection wins,
\* then cancellation or a lost authority, then a lane's exception, then the
\* breaker.  Each UPDATE is conditional on the status it finds.
FinalStatus(r) ==
  IF status[r] \in Terminal THEN status[r]
  ELSE IF "rejected" \in flags[r] THEN "failed"
  ELSE IF status[r] = "canceling" THEN "canceled"
  ELSE IF flags[r] \ {"breaker"} # {} THEN "failed"
  ELSE IF flags[r] = {"breaker"} THEN "paused"
  ELSE "completed"

FinalReason(r) ==
  IF FinalStatus(r) # "failed" \/ status[r] = "failed" THEN reason[r]
  ELSE IF "rejected" \in flags[r] THEN "rejected"
  ELSE "unhandled"

Finalize(r) ==
  /\ LoopFree
  /\ Drained(r)
  /\ status' = [status EXCEPT ![r] = FinalStatus(r)]
  /\ reason' = [reason EXCEPT ![r] = FinalReason(r)]
  /\ counts' = IF status[r] \in Terminal THEN counts ELSE [counts EXCEPT ![r] = tally[r]]
  /\ exec' = [exec EXCEPT ![r] = "none"]
  /\ work' = [work EXCEPT ![r] = [k \in Keys |-> "idle"]]
  /\ flags' = [flags EXCEPT ![r] = {}]
  /\ tally' = [tally EXCEPT ![r] = NoCounts]
  /\ UNCHANGED <<active, labels, snap, breaker, ledger, starting, saving, signals, crashes>>

-----------------------------------------------------------------------------
(* The SME's handlers, on worker threads under the project write lock.     *)

LockFree == saving = {} /\ signals = {}

\* save_label reads the example, the active Guidance and the machine label
\* with autocommit SELECTs ...
SaveRead(k) ==
  /\ LockFree
  /\ exState[k] \in {"Unlabeled", "Auto-Labeled"}
  /\ saving' = {[key |-> k, guidance |-> active, seen |-> auto[k]]}
  /\ UNCHANGED <<db, memory, starting, signals, crashes>>

\* ... and writes at its flush.  The flush fails when the row it promotes was
\* replaced; the commit guard abandons it when the active Guidance moved.
StillThere(s) == s.seen = {} \/ auto[s.key] = s.seen

SaveCommit ==
  /\ \E s \in saving :
       IF active = s.guidance /\ StillThere(s)
       THEN /\ verified' = [verified EXCEPT ![s.key] = @ \cup {s.guidance}]
            /\ auto' = IF s.seen = {} THEN auto ELSE [auto EXCEPT ![s.key] = {}]
            /\ exState' = [exState EXCEPT ![s.key] = "Verified"]
       ELSE UNCHANGED labels
  /\ saving # {}
  /\ saving' = {}
  /\ UNCHANGED <<active, status, reason, snap, breaker, counts, ledger, memory,
                 starting, signals, crashes>>

Skip(k) ==
  /\ LockFree
  /\ exState[k] \in {"Unlabeled", "Auto-Labeled"}
  /\ auto' = [auto EXCEPT ![k] = {}]
  /\ exState' = [exState EXCEPT ![k] = "Omitted"]
  /\ UNCHANGED <<active, verified, status, reason, snap, breaker, counts, ledger,
                 memory, starting, saving, signals, crashes>>

RestoreOmitted ==
  /\ LockFree
  /\ \E k \in Keys : exState[k] = "Omitted"
  /\ exState' = [k \in Keys |-> IF exState[k] = "Omitted" THEN "Unlabeled" ELSE exState[k]]
  /\ UNCHANGED <<active, auto, verified, status, reason, snap, breaker, counts,
                 ledger, memory, starting, saving, signals, crashes>>

\* _cancel_active_runs: the sweep of a Guidance edit.
\* Mutant: the sweep forgets paused runs.
SweptActive == {r \in Runs : status[r] \in Active}

Swept == {r \in Runs : status[r] \in Active \cup {"paused"}}

Sweep ==
  /\ active < MaxGuidance
  /\ active' = active + 1
  /\ status' = [r \in Runs |-> IF r \in Swept THEN "failed" ELSE status[r]]
  /\ reason' = [r \in Runs |-> IF r \in Swept THEN "edited" ELSE reason[r]]
  /\ signals' = Swept

\* A rename, Aux, description or rules edit: every label of the old version
\* is re-pointed to the new one.
EditInPlace ==
  /\ LockFree
  /\ Sweep
  /\ auto' = [k \in Keys |-> {[l EXCEPT !.guidance = IF @ = active THEN active' ELSE @] : l \in auto[k]}]
  /\ verified' = [k \in Keys |-> {IF g = active THEN active' ELSE g : g \in verified[k]}]
  /\ UNCHANGED <<exState, snap, breaker, counts, ledger, memory, starting, saving, crashes>>

\* A semantic Core edit: labels of the Verified and of the Auto-Labeled
\* examples are deleted and the examples return to Unlabeled.
EditSemantic ==
  /\ LockFree
  /\ Sweep
  /\ auto' = [k \in Keys |-> IF exState[k] = "Auto-Labeled" THEN {} ELSE auto[k]]
  /\ verified' = [k \in Keys |-> IF exState[k] = "Verified" THEN {} ELSE verified[k]]
  /\ exState' = [k \in Keys |-> IF exState[k] = "Omitted" THEN "Omitted" ELSE "Unlabeled"]
  /\ UNCHANGED <<snap, breaker, counts, ledger, memory, starting, saving, crashes>>

\* After its commit the edit sets the cancel event of each run it failed,
\* from its thread, one at a time.
Signal(r) ==
  /\ r \in signals
  /\ flags' = [flags EXCEPT ![r] = Told(r)]
  /\ signals' = signals \ {r}
  /\ UNCHANGED <<db, exec, work, tally, starting, saving, crashes>>

-----------------------------------------------------------------------------
(* A crash, and the recovery that runs before the backend serves again.    *)

\* Mutant: only queued runs are dispatched again.
RecoveredIfQueued(r) == IF status[r] = "canceling" THEN "canceled" ELSE status[r]

RecoveredStatus(r) ==
  CASE status[r] \in {"queued", "running"} -> "queued"
    [] status[r] = "canceling"             -> "canceled"
    [] OTHER                               -> status[r]

CrashRestart ==
  /\ crashes < MaxCrashes
  /\ crashes' = crashes + 1
  /\ status' = [r \in Runs |-> RecoveredStatus(r)]
  /\ counts' = [r \in Runs |-> IF status[r] = "canceling" THEN Summary(r, Done(r)) ELSE counts[r]]
  /\ exec' = [r \in Runs |-> IF RecoveredStatus(r) = "queued" THEN "dispatched" ELSE "none"]
  /\ work' = [r \in Runs |-> [k \in Keys |-> "idle"]]
  /\ flags' = [r \in Runs |-> {}]
  /\ tally' = [r \in Runs |-> NoCounts]
  /\ starting' = {} /\ saving' = {} /\ signals' = {}
  /\ UNCHANGED <<active, labels, reason, snap, breaker, ledger>>

-----------------------------------------------------------------------------
Lanes(r) ==
  \E k \in Keys : \/ LanePull(r, k) \/ LaneDispatch(r, k) \/ LaneGivesUp(r, k)
                  \/ \E a \in Answers : LaneReturn(r, k, a)
                  \/ LaneRaise(r, k)

Executor(r) == Claim(r) \/ Reconcile(r) \/ Lanes(r) \/ Finalize(r)

Operator(r) == StartRead(r) \/ Cancel(r) \/ Resume(r)

Sme ==
  \/ \E k \in Keys : SaveRead(k) \/ Skip(k)
  \/ SaveCommit \/ RestoreOmitted \/ EditInPlace \/ EditSemantic
  \/ \E r \in Runs : Signal(r)

Next ==
  \/ \E r \in Runs : Executor(r) \/ Operator(r)
  \/ StartInsert
  \/ Sme
  \/ CrashRestart

Spec == Init /\ [][Next]_vars

\* The event loop keeps scheduling the executors, a Teacher request answers
\* within its HTTP deadline, foreground requests end, threads run.
Fairness ==
  /\ \A r \in Runs : WF_vars(Executor(r)) /\ WF_vars(Signal(r))
  /\ WF_vars(StartInsert) /\ WF_vars(SaveCommit)

FairSpec == Spec /\ Fairness

-----------------------------------------------------------------------------
(* Safety.                                                                 *)

\* What an example's state says of its labels is what its Label rows say,
\* whatever SME handler, batch outcome, edit or crash came last
\* (label_service, _commit_batch_result, _execute_semantic_evolution).
LabelsMatchStates ==
  \A k \in Keys :
    /\ \A l, m \in auto[k] : l = m
    /\ \A g, h \in verified[k] : g = h
    /\ exState[k] = "Auto-Labeled" => auto[k] # {}
    /\ exState[k] = "Verified" <=> verified[k] # {}
    /\ exState[k] = "Omitted" => auto[k] = {}

\* No label that the project shows orphans from the active Guidance: a save
\* or a batch outcome racing an edit never stamps a retired version.
LiveLabelsAreCurrent ==
  \A k \in Keys :
    /\ verified[k] \subseteq {active}
    /\ exState[k] = "Auto-Labeled" => \A l \in auto[k] : l.guidance = active

\* A run that labels, or could be resumed to, was frozen under the Guidance
\* that is active now, even if it was created while an edit committed.
RunsUnderActiveGuidance ==
  \A r \in Runs : status[r] \in {"running", "paused"} => snap[r].guidance = active

\* At most one run of the project is queued, running or canceling, through
\* pauses, resumes and restarts.
OneActiveRun ==
  \A r, q \in Runs : status[r] \in Active /\ status[q] \in Active => r = q

\* A completed run has one authoritative terminal outcome for every input
\* item, and its counters (those of a paused run too) are the ledger's.
LedgerAccountsForRun ==
  \A r \in Runs :
    /\ status[r] = "completed" => \A k \in snap[r].input : op[r][k] \in Results /\ k \notin ignored[r]
    /\ status[r] \in {"completed", "paused"} => counts[r] = Summary(r, snap[r].input)

\* Only requests already in flight can extend the failure streak once the
\* breaker trips, restarts included.
BreakerBoundsStreak == \A r \in Runs : streak[r] < Threshold + Width

\* No new invocation after the breaker latched or a cancel was accepted,
\* although lanes wait at the gate meanwhile and restarts lose their events.
DispatchOnlyWhileWanted ==
  [][\A r \in Runs, k \in Keys :
       work[r][k] # "invoking" /\ work'[r][k] = "invoking"
         => ~tripped[r] /\ status[r] # "canceling"]_vars

\* No actor resurrects a terminal run.
TerminalForever ==
  [][\A r \in Runs : status[r] \in Terminal => status'[r] = status[r]]_vars

\* A batch outcome never displaces what the SME decided: Verified is left
\* only by a Guidance edit, Omitted only back to Unlabeled.
HumanDecisionStands ==
  [][\A k \in Keys :
       /\ exState[k] = "Verified" /\ exState'[k] # "Verified" => active' # active
       /\ exState[k] = "Omitted" => exState'[k] \in {"Omitted", "Unlabeled"}]_vars

-----------------------------------------------------------------------------
(* Refinement.                                                             *)

Atomic == INSTANCE AtomicProject
            WITH version <- active, disposition <- exState, phase <- status

\* Handlers split by awaits and thread boundaries, requests in flight, lost
\* events and crashes together look as if every handler were one step of a
\* project whose edit stops all labeling at once.
ImplementsAtomicProject == Atomic!Spec

-----------------------------------------------------------------------------
(* Liveness.                                                               *)

\* Every active run settles: it ends, or the breaker pauses it.
RunsSettle ==
  \A r \in Runs : status[r] \in Active ~> status[r] \in Terminal \cup {"paused"}

-----------------------------------------------------------------------------
(* What the documents say and concurrency refutes.                         *)

\* "If the example was Auto-Labeled, the existing Label record is promoted
\* from auto_labeled to verified": a Verified example keeps no machine label.
PromotionReplacesMachineLabel ==
  \A k \in Keys : exState[k] = "Verified" => auto[k] = {}
=============================================================================
