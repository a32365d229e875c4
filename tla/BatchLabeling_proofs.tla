----------------------- MODULE BatchLabeling_proofs -----------------------
(* Proofs, for every number of examples, runs, lanes and versions, about   *)
(* the labeling of one project.                                            *)
EXTENDS BatchLabeling, FiniteSetTheorems, TLAPS

\* The counters rebuilt from the ledger are natural numbers
\* (summarize_batch_outcomes).
LEMMA SummaryType ==
  ASSUME NEW r \in Runs, NEW S \in SUBSET Keys
  PROVE  Summary(r, S) \in [Results -> Nat]
<1>1. ASSUME NEW x \in Results
      PROVE  Cardinality({k \in S : op[r][k] = x}) \in Nat
  <2>1. IsFiniteSet({k \in S : op[r][k] = x})
    BY KeysAssumption, FS_Subset
  <2> QED
    BY <2>1, FS_CardinalityType
<1> QED
  BY <1>1 DEF Summary

LEMMA TypeInit == Init => TypeOK
<1> SUFFICES ASSUME Init PROVE TypeOK
  OBVIOUS
<1>1. snap \in [Runs -> Snapshot] /\ active \in Guidances
  BY BoundsAssumption DEF Init, Snapshot, Guidances
<1>2. counts \in [Runs -> [Results -> Nat]] /\ tally \in [Runs -> [Results -> Nat]]
  BY DEF Init, NoCounts
<1>3. crashes \in 0 .. MaxCrashes
  BY BoundsAssumption DEF Init
<1> QED
  BY <1>1, <1>2, <1>3 DEF Init, TypeOK

\* No step leaves the types: one case per action of the system.
LEMMA TypeStep == TypeOK /\ [Next]_vars => TypeOK'
<1> SUFFICES ASSUME TypeOK, [Next]_vars PROVE TypeOK'
  OBVIOUS
<1> USE DEF db, memory, labels, ledger, breaker
<1>1. ASSUME NEW r \in Runs, StartRead(r) PROVE TypeOK'
  BY <1>1 DEF TypeOK, StartRead, Snapshot
<1>2. ASSUME StartInsert PROVE TypeOK'
  BY <1>2 DEF TypeOK, StartInsert, Snapshot, Active
<1>3. ASSUME NEW r \in Runs, Cancel(r) PROVE TypeOK'
  <2>1. Told(r) \in SUBSET {"cancel", "stopped", "breaker", "raised", "rejected"}
    <3>1. flags[r] \in SUBSET {"cancel", "stopped", "breaker", "raised", "rejected"}
      BY DEF TypeOK
    <3> QED
      BY <3>1 DEF Told
  <2>2. CASE status[r] = "paused"
    BY <1>3, <2>2 DEF TypeOK, Cancel, Terminal
  <2>3. CASE status[r] # "paused"
    <3>1. status' \in [Runs -> {"none", "paused"} \cup Active \cup Terminal]
      BY <1>3, <2>3 DEF TypeOK, Cancel, Active
    <3>2. flags' \in [Runs -> SUBSET {"cancel", "stopped", "breaker", "raised", "rejected"}]
      BY <1>3, <2>1, <2>3 DEF TypeOK, Cancel
    <3> QED
      BY <1>3, <2>3, <3>1, <3>2 DEF TypeOK, Cancel
  <2> QED
    BY <2>2, <2>3
<1>4. ASSUME NEW r \in Runs, Resume(r) PROVE TypeOK'
  BY <1>4 DEF TypeOK, Resume, Active
<1>5. ASSUME NEW r \in Runs, Claim(r) PROVE TypeOK'
  BY <1>5 DEF TypeOK, Claim, ClaimedStatus, Active, Terminal
<1>6. ASSUME NEW r \in Runs, Reconcile(r) PROVE TypeOK'
  <2>1. Summary(r, Done(r)) \in [Results -> Nat]
    <3>1. Done(r) \in SUBSET Keys
      BY DEF TypeOK, Done, Snapshot
    <3> QED
      BY <3>1, SummaryType
  <2>2. op' \in [Runs -> [Keys -> {"none", "pending"} \cup Results]]
    BY <1>6 DEF TypeOK, Reconcile
  <2>3. work' \in [Runs -> [Keys -> {"idle", "todo", "held", "invoking"}]]
    BY <1>6 DEF TypeOK, Reconcile
  <2>4. flags' \in [Runs -> SUBSET {"cancel", "stopped", "breaker", "raised", "rejected"}]
    <3>1. Rearmed(r) \in SUBSET {"breaker"}
      BY DEF Rearmed
    <3> QED
      BY <1>6, <3>1 DEF TypeOK, Reconcile
  <2> QED
    BY <1>6, <2>1, <2>2, <2>3, <2>4 DEF TypeOK, Reconcile
<1>7. ASSUME NEW r \in Runs, NEW k \in Keys, LanePull(r, k) PROVE TypeOK'
  BY <1>7 DEF TypeOK, LanePull
<1>8. ASSUME NEW r \in Runs, NEW k \in Keys, LaneDispatch(r, k) PROVE TypeOK'
  <2>1. op' \in [Runs -> [Keys -> {"none", "pending"} \cup Results]]
    BY <1>8 DEF TypeOK, LaneDispatch
  <2> QED
    BY <1>8, <2>1 DEF TypeOK, LaneDispatch
<1>9. ASSUME NEW r \in Runs, NEW k \in Keys, LaneGivesUp(r, k) PROVE TypeOK'
  BY <1>9 DEF TypeOK, LaneGivesUp
<1>10. ASSUME NEW r \in Runs, NEW k \in Keys, NEW a \in Answers, LaneReturn(r, k, a)
       PROVE  TypeOK'
  <2>1. Recorded(a) \in Results
    BY <1>10, AnswersAssumption DEF LaneReturn, Recorded, Results
  <2>2. op' \in [Runs -> [Keys -> {"none", "pending"} \cup Results]]
    BY <1>10, <2>1 DEF TypeOK, LaneReturn
  <2>3. work' \in [Runs -> [Keys -> {"idle", "todo", "held", "invoking"}]]
    BY <1>10 DEF TypeOK, LaneReturn
  <2>4. CASE LaneReturnsLate(r, k, a)
    BY <1>10, <2>2, <2>3, <2>4 DEF TypeOK, LaneReturn, LaneReturnsLate
  <2>5. CASE LaneReturnsInTime(r, k, a)
    <3>1. NextStreak(r, Recorded(a)) \in Nat
      BY DEF TypeOK, NextStreak
    <3>2. [guidance |-> snap[r].guidance, run |-> r] \in AutoLabel
      BY DEF TypeOK, Snapshot, AutoLabel
    <3>3. /\ auto' \in [Keys -> SUBSET AutoLabel]
          /\ exState' \in [Keys -> {"Unlabeled", "Auto-Labeled", "Verified", "Omitted"}]
      <4>1. CASE Persists(k, a)
        <5>1. /\ auto' = [auto EXCEPT ![k] = {[guidance |-> snap[r].guidance, run |-> r]}]
              /\ exState' = [exState EXCEPT ![k] = "Auto-Labeled"]
          BY <2>5, <4>1 DEF LaneReturnsInTime
        <5> QED
          BY <3>2, <5>1 DEF TypeOK
      <4>2. CASE ~Persists(k, a)
        BY <2>5, <4>2 DEF TypeOK, LaneReturnsInTime
      <4> QED
        BY <4>1, <4>2
    <3>4. tally' \in [Runs -> [Results -> Nat]] /\ counts' \in [Runs -> [Results -> Nat]]
      BY <2>1, <2>5 DEF TypeOK, LaneReturnsInTime
    <3>5. streak' \in [Runs -> Nat] /\ tripped' \in [Runs -> BOOLEAN]
      BY <2>5, <3>1 DEF TypeOK, LaneReturnsInTime
    <3>6. flags' \in [Runs -> SUBSET {"cancel", "stopped", "breaker", "raised", "rejected"}]
      BY <2>5 DEF TypeOK, LaneReturnsInTime
    <3> QED
      BY <1>10, <2>2, <2>3, <2>5, <3>3, <3>4, <3>5, <3>6
         DEF TypeOK, LaneReturn, LaneReturnsInTime
  <2> QED
    BY <1>10, <2>4, <2>5 DEF LaneReturn
<1>11. ASSUME NEW r \in Runs, NEW k \in Keys, LaneRaise(r, k) PROVE TypeOK'
  BY <1>11 DEF TypeOK, LaneRaise
<1>12. ASSUME NEW r \in Runs, Finalize(r) PROVE TypeOK'
  <2>1. FinalStatus(r) \in {"paused"} \cup Terminal
    BY DEF FinalStatus, Terminal
  <2>2. FinalReason(r) \in {"none", "edited", "rejected", "unhandled"}
    BY DEF TypeOK, FinalReason
  <2>3. tally' \in [Runs -> [Results -> Nat]] /\ counts' \in [Runs -> [Results -> Nat]]
    BY <1>12 DEF TypeOK, Finalize, NoCounts
  <2> QED
    BY <1>12, <2>1, <2>2, <2>3 DEF TypeOK, Finalize
<1>13. ASSUME NEW k \in Keys, SaveRead(k) PROVE TypeOK'
  BY <1>13 DEF TypeOK, SaveRead
<1>14. ASSUME SaveCommit PROVE TypeOK'
  <2>1. PICK s \in saving :
          IF active = s.guidance /\ StillThere(s)
          THEN /\ verified' = [verified EXCEPT ![s.key] = @ \cup {s.guidance}]
               /\ auto' = IF s.seen = {} THEN auto ELSE [auto EXCEPT ![s.key] = {}]
               /\ exState' = [exState EXCEPT ![s.key] = "Verified"]
          ELSE UNCHANGED <<exState, auto, verified>>
    BY <1>14 DEF SaveCommit
  <2>2. s.key \in Keys /\ s.guidance \in Guidances
    BY DEF TypeOK
  <2> QED
    <3>1. CASE active = s.guidance /\ StillThere(s)
      <4>1. verified' \in [Keys -> SUBSET Guidances]
        <5>1. verified' = [verified EXCEPT ![s.key] = @ \cup {s.guidance}]
          BY <2>1, <3>1
        <5>2. verified[s.key] \cup {s.guidance} \in SUBSET Guidances
          BY <2>2 DEF TypeOK
        <5> QED
          BY <5>1, <5>2 DEF TypeOK
      <4>2. auto' \in [Keys -> SUBSET AutoLabel]
        BY <2>1, <2>2, <3>1 DEF TypeOK
      <4>3. exState' \in [Keys -> {"Unlabeled", "Auto-Labeled", "Verified", "Omitted"}]
        BY <2>1, <2>2, <3>1 DEF TypeOK
      <4> QED
        BY <1>14, <4>1, <4>2, <4>3 DEF TypeOK, SaveCommit
    <3>2. CASE ~(active = s.guidance /\ StillThere(s))
      BY <1>14, <2>1, <3>2 DEF TypeOK, SaveCommit
    <3> QED
      BY <3>1, <3>2
<1>15. ASSUME NEW k \in Keys, Skip(k) PROVE TypeOK'
  BY <1>15 DEF TypeOK, Skip
<1>16. ASSUME RestoreOmitted PROVE TypeOK'
  BY <1>16 DEF TypeOK, RestoreOmitted
<1>17. ASSUME Sweep PROVE /\ active' \in Guidances
                          /\ status' \in [Runs -> {"none", "paused"} \cup Active \cup Terminal]
                          /\ reason' \in [Runs -> {"none", "edited", "rejected", "unhandled"}]
                          /\ signals' \subseteq Runs
  BY <1>17, BoundsAssumption DEF TypeOK, Sweep, Swept, Guidances, Terminal
<1>18. ASSUME EditInPlace PROVE TypeOK'
  <2>1. Sweep
    BY <1>18 DEF EditInPlace
  <2>2. auto' \in [Keys -> SUBSET AutoLabel]
    <3>1. ASSUME NEW k \in Keys, NEW l \in auto[k]
          PROVE  [l EXCEPT !.guidance = IF @ = active THEN active' ELSE @] \in AutoLabel
      <4>1. l \in AutoLabel
        BY DEF TypeOK
      <4> QED
        BY <1>17, <2>1, <4>1 DEF AutoLabel
    <3>2. auto' = [k \in Keys |-> {[l EXCEPT !.guidance = IF @ = active THEN active' ELSE @] : l \in auto[k]}]
      BY <1>18 DEF EditInPlace
    <3>3. \A k \in Keys : auto'[k] \in SUBSET AutoLabel
      BY <3>1, <3>2
    <3> QED
      BY <3>2, <3>3
  <2>3. verified' \in [Keys -> SUBSET Guidances]
    BY <1>17, <1>18, <2>1 DEF TypeOK, EditInPlace
  <2> QED
    BY <1>17, <1>18, <2>1, <2>2, <2>3 DEF TypeOK, EditInPlace
<1>19. ASSUME EditSemantic PROVE TypeOK'
  <2>1. Sweep
    BY <1>19 DEF EditSemantic
  <2> QED
    BY <1>17, <1>19, <2>1 DEF TypeOK, EditSemantic
<1>20. ASSUME NEW r \in Runs, Signal(r) PROVE TypeOK'
  BY <1>20 DEF TypeOK, Signal, Told
<1>21. ASSUME CrashRestart PROVE TypeOK'
  <2>1. \A r \in Runs : Summary(r, Done(r)) \in [Results -> Nat]
    <3>1. \A r \in Runs : Done(r) \in SUBSET Keys
      BY DEF TypeOK, Done, Snapshot
    <3> QED
      BY <3>1, SummaryType
  <2>2. status' \in [Runs -> {"none", "paused"} \cup Active \cup Terminal]
    BY <1>21 DEF TypeOK, CrashRestart, RecoveredStatus, Active, Terminal
  <2>3. tally' \in [Runs -> [Results -> Nat]] /\ counts' \in [Runs -> [Results -> Nat]]
    BY <1>21, <2>1 DEF TypeOK, CrashRestart, NoCounts
  <2>4. crashes' \in 0 .. MaxCrashes
    BY <1>21, BoundsAssumption DEF TypeOK, CrashRestart
  <2> QED
    BY <1>21, <2>2, <2>3, <2>4 DEF TypeOK, CrashRestart
<1>22. CASE UNCHANGED vars
  BY <1>22 DEF TypeOK, vars
<1> QED
  BY <1>1, <1>2, <1>3, <1>4, <1>5, <1>6, <1>7, <1>8, <1>9, <1>10, <1>11, <1>12, <1>13,
     <1>14, <1>15, <1>16, <1>18, <1>19, <1>20, <1>21, <1>22
     DEF Next, Executor, Operator, Sme, Lanes

\* Every reachable state of the project, its executors and its handlers is
\* well typed.
THEOREM TypeCorrect == Spec => []TypeOK
<1> QED
  BY TypeInit, TypeStep, PTL DEF Spec
-----------------------------------------------------------------------------
(* Exclusion of runs.                                                      *)

\* While a start waits for its insert the loop admits no other handler: no
\* run is active, and the one being created has no row yet.
StartAlone ==
  \A s \in starting : /\ status[s.run] = "none"
                      /\ \A r \in Runs : status[r] \notin Active
                      /\ \A t \in starting : s = t

\* Only Init, the handlers of runs, edits and crashes touch what exclusion
\* depends on.
LEMMA ExclusionFrame ==
  ASSUME TypeOK, [Next]_vars,
         ~(\E r \in Runs : StartRead(r) \/ Cancel(r) \/ Resume(r) \/ Claim(r) \/ Finalize(r)),
         ~StartInsert, ~EditInPlace, ~EditSemantic, ~CrashRestart
  PROVE  UNCHANGED <<status, starting>>
  BY DEF Next, Executor, Operator, Sme, Lanes, vars, db, memory, Reconcile, LanePull,
         LaneDispatch, LaneGivesUp, LaneReturn, LaneRaise, SaveRead, SaveCommit, Skip,
         RestoreOmitted, Signal

LEMMA ExclusionStep ==
  ASSUME TypeOK, OneActiveRun, StartAlone, [Next]_vars
  PROVE  OneActiveRun' /\ StartAlone'
<1> USE DEF db, memory, labels, ledger, breaker
<1>1. ASSUME NEW r \in Runs, StartRead(r) PROVE OneActiveRun' /\ StartAlone'
  <2>1. \A q \in Runs : status[q] \notin Active
    BY <1>1 DEF StartRead, OtherActive, Active
  <2> QED
    BY <1>1, <2>1 DEF StartRead, OneActiveRun, StartAlone, Active
<1>2. ASSUME StartInsert PROVE OneActiveRun' /\ StartAlone'
  <2>1. PICK s \in starting : status' = [status EXCEPT ![s.run] = "queued"]
    BY <1>2 DEF StartInsert
  <2>2. s.run \in Runs /\ \A r \in Runs : status[r] \notin Active
    BY DEF TypeOK, StartAlone
  <2> QED
    BY <1>2, <2>1, <2>2 DEF TypeOK, StartInsert, OneActiveRun, StartAlone
<1>3. ASSUME NEW r \in Runs, Cancel(r) PROVE OneActiveRun' /\ StartAlone'
  <2>1. CASE status[r] = "paused"
    <3>1. status' = [status EXCEPT ![r] = "canceled"] /\ starting = {} /\ starting' = {}
      BY <1>3, <2>1 DEF Cancel, LoopFree
    <3> QED
      BY <3>1 DEF TypeOK, OneActiveRun, StartAlone, Active
  <2>2. CASE status[r] # "paused"
    <3>1. /\ status' = [status EXCEPT ![r] = "canceling"] /\ starting = {} /\ starting' = {}
          /\ status[r] \in Active
      BY <1>3, <2>2 DEF Cancel, LoopFree
    <3> QED
      BY <3>1 DEF TypeOK, OneActiveRun, StartAlone, Active
  <2> QED
    BY <2>1, <2>2
<1>4. ASSUME NEW r \in Runs, Resume(r) PROVE OneActiveRun' /\ StartAlone'
  BY <1>4 DEF TypeOK, Resume, LoopFree, OtherActive, OneActiveRun, StartAlone, Active
<1>5. ASSUME NEW r \in Runs, Claim(r) PROVE OneActiveRun' /\ StartAlone'
  <2>1. ClaimedStatus(r) \in Active => status[r] \in Active
    BY DEF ClaimedStatus, Active
  <2> QED
    BY <1>5, <2>1 DEF TypeOK, Claim, LoopFree, OneActiveRun, StartAlone
<1>6. ASSUME NEW r \in Runs, Finalize(r) PROVE OneActiveRun' /\ StartAlone'
  <2>1. FinalStatus(r) \notin Active
    BY DEF FinalStatus, Active, Terminal
  <2> QED
    BY <1>6, <2>1 DEF TypeOK, Finalize, LoopFree, OneActiveRun, StartAlone
<1>7. ASSUME Sweep, UNCHANGED starting PROVE OneActiveRun' /\ StartAlone'
  BY <1>7 DEF TypeOK, Sweep, Swept, OneActiveRun, StartAlone, Active
<1>8. CASE EditInPlace \/ EditSemantic
  BY <1>7, <1>8 DEF EditInPlace, EditSemantic
<1>9. ASSUME CrashRestart PROVE OneActiveRun' /\ StartAlone'
  <2>1. \A r \in Runs : RecoveredStatus(r) \in Active => status[r] \in Active
    BY DEF RecoveredStatus, Active
  <2> QED
    BY <1>9, <2>1 DEF TypeOK, CrashRestart, OneActiveRun, StartAlone
<1>10. CASE ~(\E r \in Runs : StartRead(r) \/ Cancel(r) \/ Resume(r) \/ Claim(r) \/ Finalize(r))
            /\ ~StartInsert /\ ~EditInPlace /\ ~EditSemantic /\ ~CrashRestart
  BY <1>10, ExclusionFrame DEF OneActiveRun, StartAlone
<1> QED
  BY <1>1, <1>2, <1>3, <1>4, <1>5, <1>6, <1>8, <1>9, <1>10

-----------------------------------------------------------------------------
(* Executors.                                                              *)

\* An executor that claimed its run never finds it queued or paused: only
\* its own last step leaves running for paused.
LanesAlive ==
  \A r \in Runs :
    exec[r] \in {"claimed", "lanes"} => status[r] \in {"running", "canceling"} \cup Terminal

LEMMA ExecutorFrame ==
  ASSUME [Next]_vars,
         ~(\E r \in Runs : Cancel(r) \/ Resume(r) \/ Claim(r) \/ Reconcile(r) \/ Finalize(r)),
         ~StartInsert, ~EditInPlace, ~EditSemantic, ~CrashRestart
  PROVE  UNCHANGED <<status, exec>>
  BY DEF Next, Executor, Operator, Sme, Lanes, vars, db, memory, labels, ledger, breaker,
         StartRead, LanePull, LaneDispatch, LaneGivesUp, LaneReturn, LaneRaise,
         SaveRead, SaveCommit, Skip, RestoreOmitted, Signal

LEMMA ExecutorStep ==
  ASSUME TypeOK, LanesAlive, [Next]_vars PROVE LanesAlive'
<1> USE DEF db, memory, labels, ledger, breaker
<1>1. ASSUME NEW r \in Runs, Cancel(r) PROVE LanesAlive'
  <2>1. PICK x \in {"canceled", "canceling"} : status' = [status EXCEPT ![r] = x]
    BY <1>1 DEF Cancel
  <2> QED
    BY <1>1, <2>1 DEF TypeOK, Cancel, LanesAlive, Terminal
<1>2. ASSUME NEW r \in Runs, Resume(r) PROVE LanesAlive'
  BY <1>2 DEF TypeOK, Resume, LanesAlive
<1>3. ASSUME NEW r \in Runs, Claim(r) PROVE LanesAlive'
  BY <1>3 DEF TypeOK, Claim, LanesAlive
<1>4. ASSUME NEW r \in Runs, Reconcile(r) PROVE LanesAlive'
  BY <1>4 DEF TypeOK, Reconcile, LanesAlive
<1>5. ASSUME NEW r \in Runs, Finalize(r) PROVE LanesAlive'
  BY <1>5 DEF TypeOK, Finalize, LanesAlive
<1>6. ASSUME StartInsert PROVE LanesAlive'
  BY <1>6 DEF TypeOK, StartInsert, LanesAlive
<1>7. ASSUME Sweep, UNCHANGED exec PROVE LanesAlive'
  BY <1>7 DEF TypeOK, Sweep, LanesAlive, Terminal
<1>8. CASE EditInPlace \/ EditSemantic
  BY <1>7, <1>8 DEF EditInPlace, EditSemantic
<1>9. ASSUME CrashRestart PROVE LanesAlive'
  BY <1>9 DEF CrashRestart, LanesAlive
<1>10. CASE UNCHANGED <<status, exec>>
  BY <1>10 DEF LanesAlive
<1> QED
  BY <1>1, <1>2, <1>3, <1>4, <1>5, <1>6, <1>8, <1>9, <1>10, ExecutorFrame

-----------------------------------------------------------------------------
(* Labels.                                                                 *)

\* What a save is about to verify is still undecided: the project write lock
\* keeps the other SME handlers out, and a batch outcome decides nothing.
SaveUndecided == \A s \in saving : exState[s.key] \in {"Unlabeled", "Auto-Labeled"}

LEMMA LabelFrame ==
  ASSUME [Next]_vars,
         ~(\E r \in Runs, k \in Keys, a \in Answers : LaneReturn(r, k, a)),
         ~(\E k \in Keys : SaveRead(k) \/ Skip(k)),
         ~SaveCommit, ~RestoreOmitted, ~EditInPlace, ~EditSemantic, ~CrashRestart
  PROVE  UNCHANGED <<active, exState, auto, verified, saving>>
  BY DEF Next, Executor, Operator, Sme, Lanes, vars, db, memory, labels, ledger, breaker,
         StartRead, StartInsert, Cancel, Resume, Claim, Reconcile, LanePull, LaneDispatch,
         LaneGivesUp, LaneRaise, Finalize, Signal

LEMMA LabelStep ==
  ASSUME TypeOK, LabelsMatchStates, SaveUndecided, [Next]_vars
  PROVE  LabelsMatchStates' /\ SaveUndecided'
<1> USE DEF db, memory, labels, ledger, breaker
<1>1. ASSUME NEW r \in Runs, NEW k \in Keys, NEW a \in Answers, LaneReturn(r, k, a)
      PROVE  LabelsMatchStates' /\ SaveUndecided'
  <2>1. UNCHANGED <<verified, saving>>
    BY <1>1 DEF LaneReturn, LaneReturnsLate, LaneReturnsInTime
  <2>2. CASE UNCHANGED <<exState, auto>>
    BY <2>1, <2>2 DEF LabelsMatchStates, SaveUndecided
  <2>3. CASE ~UNCHANGED <<exState, auto>>
    <3>1. /\ auto' = [auto EXCEPT ![k] = {[guidance |-> snap[r].guidance, run |-> r]}]
          /\ exState' = [exState EXCEPT ![k] = "Auto-Labeled"]
          /\ exState[k] \notin {"Verified", "Omitted"}
      BY <1>1, <2>3 DEF LaneReturn, LaneReturnsLate, LaneReturnsInTime, Persists, SupersededBySme
    <3>2. verified[k] = {}
      BY <3>1 DEF TypeOK, LabelsMatchStates
    <3>3. LabelsMatchStates'
      <4>1. \A j \in Keys \ {k} : auto'[j] = auto[j] /\ exState'[j] = exState[j]
        BY <3>1 DEF TypeOK
      <4>2. /\ auto'[k] = {[guidance |-> snap[r].guidance, run |-> r]}
            /\ exState'[k] = "Auto-Labeled"
        BY <3>1 DEF TypeOK
      <4>3. ASSUME NEW j \in Keys
            PROVE  /\ \A l, m \in auto'[j] : l = m
                   /\ \A g, h \in verified'[j] : g = h
                   /\ exState'[j] = "Auto-Labeled" => auto'[j] # {}
                   /\ exState'[j] = "Verified" <=> verified'[j] # {}
                   /\ exState'[j] = "Omitted" => auto'[j] = {}
        <5>1. CASE j = k
          BY <2>1, <3>2, <4>2, <5>1
        <5>2. CASE j # k
          <6>1. auto'[j] = auto[j] /\ exState'[j] = exState[j] /\ verified'[j] = verified[j]
            BY <2>1, <4>1, <5>2
          <6> QED
            BY <6>1 DEF LabelsMatchStates
        <5> QED
          BY <5>1, <5>2
      <4> QED
        BY <4>3 DEF LabelsMatchStates
    <3>4. SaveUndecided'
      BY <2>1, <3>1 DEF TypeOK, SaveUndecided
    <3> QED
      BY <3>3, <3>4
  <2> QED
    BY <2>2, <2>3
<1>2. ASSUME NEW k \in Keys, SaveRead(k) PROVE LabelsMatchStates' /\ SaveUndecided'
  BY <1>2 DEF SaveRead, LabelsMatchStates, SaveUndecided
<1>3. ASSUME SaveCommit PROVE LabelsMatchStates' /\ SaveUndecided'
  <2>1. SaveUndecided'
    BY <1>3 DEF SaveCommit, SaveUndecided
  <2>2. PICK s \in saving :
          IF active = s.guidance /\ StillThere(s)
          THEN /\ verified' = [verified EXCEPT ![s.key] = @ \cup {s.guidance}]
               /\ auto' = IF s.seen = {} THEN auto ELSE [auto EXCEPT ![s.key] = {}]
               /\ exState' = [exState EXCEPT ![s.key] = "Verified"]
          ELSE UNCHANGED <<exState, auto, verified>>
    BY <1>3 DEF SaveCommit
  <2>3. CASE UNCHANGED <<exState, auto, verified>>
    BY <2>1, <2>3 DEF LabelsMatchStates
  <2>4. CASE ~UNCHANGED <<exState, auto, verified>>
    <3>1. s.key \in Keys /\ exState[s.key] \in {"Unlabeled", "Auto-Labeled"}
      BY DEF TypeOK, SaveUndecided
    <3>2. verified[s.key] = {}
      BY <3>1 DEF LabelsMatchStates
    <3>3. verified' = [verified EXCEPT ![s.key] = {s.guidance}]
      BY <2>2, <2>4, <3>2
    <3>4. exState' = [exState EXCEPT ![s.key] = "Verified"]
      BY <2>2, <2>4
    <3>5. auto' = auto \/ auto' = [auto EXCEPT ![s.key] = {}]
      BY <2>2, <2>4
    <3>6. ASSUME NEW j \in Keys
          PROVE  /\ \A l, m \in auto'[j] : l = m
                 /\ \A g, h \in verified'[j] : g = h
                 /\ exState'[j] = "Auto-Labeled" => auto'[j] # {}
                 /\ exState'[j] = "Verified" <=> verified'[j] # {}
                 /\ exState'[j] = "Omitted" => auto'[j] = {}
      <4>1. CASE j = s.key
        BY <3>1, <3>3, <3>4, <3>5, <4>1 DEF TypeOK, LabelsMatchStates
      <4>2. CASE j # s.key
        BY <3>1, <3>3, <3>4, <3>5, <4>2 DEF TypeOK, LabelsMatchStates
      <4> QED
        BY <4>1, <4>2
    <3> QED
      BY <2>1, <3>6 DEF LabelsMatchStates
  <2> QED
    BY <2>3, <2>4
<1>4. ASSUME NEW k \in Keys, Skip(k) PROVE LabelsMatchStates' /\ SaveUndecided'
  BY <1>4 DEF TypeOK, Skip, LockFree, LabelsMatchStates, SaveUndecided
<1>5. ASSUME RestoreOmitted PROVE LabelsMatchStates' /\ SaveUndecided'
  BY <1>5 DEF TypeOK, RestoreOmitted, LockFree, LabelsMatchStates, SaveUndecided
<1>6. ASSUME EditInPlace PROVE LabelsMatchStates' /\ SaveUndecided'
  <2>1. UNCHANGED exState /\ saving = {} /\ UNCHANGED saving
    BY <1>6 DEF EditInPlace, LockFree
  <2>2. ASSUME NEW k \in Keys
        PROVE  /\ \A l, m \in auto'[k] : l = m
               /\ auto[k] = {} <=> auto'[k] = {}
    <3>1. auto'[k] = {[l EXCEPT !.guidance = IF @ = active THEN active' ELSE @] : l \in auto[k]}
      BY <1>6 DEF EditInPlace
    <3>2. \A l, m \in auto[k] : l = m
      BY DEF LabelsMatchStates
    <3> QED
      BY <3>1, <3>2
  <2>3. ASSUME NEW k \in Keys
        PROVE  /\ \A g, h \in verified'[k] : g = h
               /\ verified[k] = {} <=> verified'[k] = {}
    <3>1. verified'[k] = {IF g = active THEN active' ELSE g : g \in verified[k]}
      BY <1>6 DEF EditInPlace
    <3>2. \A g, h \in verified[k] : g = h
      BY DEF LabelsMatchStates
    <3> QED
      BY <3>1, <3>2
  <2> QED
    BY <2>1, <2>2, <2>3 DEF LabelsMatchStates, SaveUndecided
<1>7. ASSUME EditSemantic PROVE LabelsMatchStates' /\ SaveUndecided'
  BY <1>7 DEF TypeOK, EditSemantic, LockFree, LabelsMatchStates, SaveUndecided
<1>8. ASSUME CrashRestart PROVE LabelsMatchStates' /\ SaveUndecided'
  BY <1>8 DEF CrashRestart, LabelsMatchStates, SaveUndecided
<1>9. CASE UNCHANGED <<active, exState, auto, verified, saving>>
  BY <1>9 DEF LabelsMatchStates, SaveUndecided
<1> QED
  BY <1>1, <1>2, <1>3, <1>4, <1>5, <1>6, <1>7, <1>8, <1>9, LabelFrame

-----------------------------------------------------------------------------
(* Guidance.                                                               *)

\* Besides the label writers, the handlers of runs matter to what is current.
LEMMA GuidanceFrame ==
  ASSUME [Next]_vars,
         ~(\E r \in Runs, k \in Keys, a \in Answers : LaneReturn(r, k, a)),
         ~(\E r \in Runs : Cancel(r) \/ Resume(r) \/ Claim(r) \/ Finalize(r)),
         ~(\E k \in Keys : Skip(k)), ~StartInsert,
         ~SaveCommit, ~RestoreOmitted, ~EditInPlace, ~EditSemantic, ~CrashRestart
  PROVE  UNCHANGED <<active, exState, auto, verified, status, snap>>
  BY DEF Next, Executor, Operator, Sme, Lanes, vars, db, memory, labels, ledger, breaker,
         StartRead, Reconcile, LanePull, LaneDispatch, LaneGivesUp, LaneRaise, SaveRead, Signal

LEMMA GuidanceStep ==
  ASSUME TypeOK, LanesAlive, LabelsMatchStates, LiveLabelsAreCurrent,
         RunsUnderActiveGuidance, [Next]_vars
  PROVE  LiveLabelsAreCurrent' /\ RunsUnderActiveGuidance'
<1> USE DEF db, memory, labels, ledger, breaker
<1>1. ASSUME NEW r \in Runs, NEW k \in Keys, NEW a \in Answers, LaneReturn(r, k, a)
      PROVE  LiveLabelsAreCurrent' /\ RunsUnderActiveGuidance'
  <2>1. UNCHANGED <<active, status, snap, verified>>
    BY <1>1 DEF LaneReturn, LaneReturnsLate, LaneReturnsInTime
  <2>2. CASE UNCHANGED <<exState, auto>>
    BY <2>1, <2>2 DEF LiveLabelsAreCurrent, RunsUnderActiveGuidance
  <2>3. CASE ~UNCHANGED <<exState, auto>>
    <3>1. /\ auto' = [auto EXCEPT ![k] = {[guidance |-> snap[r].guidance, run |-> r]}]
          /\ exState' = [exState EXCEPT ![k] = "Auto-Labeled"]
          /\ status[r] = "running"
      BY <1>1, <2>3 DEF LaneReturn, LaneReturnsLate, LaneReturnsInTime, Authoritative
    <3>2. snap[r].guidance = active
      BY <3>1 DEF RunsUnderActiveGuidance
    <3> QED
      BY <2>1, <3>1, <3>2 DEF TypeOK, LiveLabelsAreCurrent, RunsUnderActiveGuidance
  <2> QED
    BY <2>2, <2>3
<1>2. ASSUME StartInsert PROVE LiveLabelsAreCurrent' /\ RunsUnderActiveGuidance'
  BY <1>2 DEF TypeOK, StartInsert, LiveLabelsAreCurrent, RunsUnderActiveGuidance
<1>3. ASSUME NEW r \in Runs, Cancel(r) PROVE LiveLabelsAreCurrent' /\ RunsUnderActiveGuidance'
  BY <1>3 DEF TypeOK, Cancel, LiveLabelsAreCurrent, RunsUnderActiveGuidance
<1>4. ASSUME NEW r \in Runs, Resume(r) PROVE LiveLabelsAreCurrent' /\ RunsUnderActiveGuidance'
  BY <1>4 DEF TypeOK, Resume, LiveLabelsAreCurrent, RunsUnderActiveGuidance
<1>5. ASSUME NEW r \in Runs, Claim(r) PROVE LiveLabelsAreCurrent' /\ RunsUnderActiveGuidance'
  BY <1>5 DEF TypeOK, Claim, ClaimedStatus, LiveLabelsAreCurrent, RunsUnderActiveGuidance
<1>6. ASSUME NEW r \in Runs, Finalize(r) PROVE LiveLabelsAreCurrent' /\ RunsUnderActiveGuidance'
  <2>1. FinalStatus(r) \in {"running", "paused"} => status[r] = "running"
    <3>1. status[r] \in {"running", "canceling", "completed", "canceled", "failed"}
      BY <1>6 DEF Finalize, Drained, LanesAlive, Terminal
    <3> QED
      BY <3>1 DEF FinalStatus, Terminal
  <2>2. /\ status' = [status EXCEPT ![r] = FinalStatus(r)]
        /\ UNCHANGED <<active, exState, auto, verified, snap>>
    BY <1>6 DEF Finalize
  <2> QED
    BY <2>1, <2>2 DEF TypeOK, LiveLabelsAreCurrent, RunsUnderActiveGuidance
<1>7. ASSUME SaveCommit PROVE LiveLabelsAreCurrent' /\ RunsUnderActiveGuidance'
  <2>1. PICK s \in saving :
          IF active = s.guidance /\ StillThere(s)
          THEN /\ verified' = [verified EXCEPT ![s.key] = @ \cup {s.guidance}]
               /\ auto' = IF s.seen = {} THEN auto ELSE [auto EXCEPT ![s.key] = {}]
               /\ exState' = [exState EXCEPT ![s.key] = "Verified"]
          ELSE UNCHANGED <<exState, auto, verified>>
    BY <1>7 DEF SaveCommit
  <2>2. UNCHANGED <<active, status, snap>> /\ s.key \in Keys
    BY <1>7 DEF TypeOK, SaveCommit
  <2>3. CASE UNCHANGED <<exState, auto, verified>>
    BY <2>2, <2>3 DEF LiveLabelsAreCurrent, RunsUnderActiveGuidance
  <2>4. CASE ~UNCHANGED <<exState, auto, verified>>
    <3>3. verified' = [verified EXCEPT ![s.key] = @ \cup {active}]
      BY <2>1, <2>4
    <3>1. \A j \in Keys : verified'[j] \subseteq {active}
      <4>1. \A j \in Keys : verified'[j] = verified[j] \/ verified'[j] = verified[j] \cup {active}
        BY <2>2, <3>3 DEF TypeOK
      <4> QED
        BY <4>1 DEF LiveLabelsAreCurrent
    <3>2. \A j \in Keys : exState'[j] = "Auto-Labeled" => exState[j] = "Auto-Labeled" /\ auto'[j] \subseteq auto[j]
      BY <2>1, <2>2, <2>4 DEF TypeOK
    <3> QED
      BY <2>2, <3>1, <3>2 DEF LiveLabelsAreCurrent, RunsUnderActiveGuidance
  <2> QED
    BY <2>3, <2>4
<1>8. ASSUME NEW k \in Keys, Skip(k) PROVE LiveLabelsAreCurrent' /\ RunsUnderActiveGuidance'
  BY <1>8 DEF TypeOK, Skip, LiveLabelsAreCurrent, RunsUnderActiveGuidance
<1>9. ASSUME RestoreOmitted PROVE LiveLabelsAreCurrent' /\ RunsUnderActiveGuidance'
  BY <1>9 DEF TypeOK, RestoreOmitted, LiveLabelsAreCurrent, RunsUnderActiveGuidance
<1>10. ASSUME Sweep, UNCHANGED snap PROVE RunsUnderActiveGuidance'
  BY <1>10 DEF TypeOK, Sweep, Swept, RunsUnderActiveGuidance, Active
<1>11. ASSUME EditInPlace PROVE LiveLabelsAreCurrent' /\ RunsUnderActiveGuidance'
  <2>1. RunsUnderActiveGuidance'
    BY <1>10, <1>11 DEF EditInPlace
  <2>2. \A k \in Keys : verified'[k] \subseteq {active'}
    BY <1>11 DEF EditInPlace, LiveLabelsAreCurrent
  <2>3. ASSUME NEW k \in Keys, exState'[k] = "Auto-Labeled", NEW l \in auto'[k]
        PROVE  l.guidance = active'
    BY <1>11, <2>3 DEF TypeOK, AutoLabel, EditInPlace, LiveLabelsAreCurrent
  <2> QED
    BY <2>1, <2>2, <2>3 DEF LiveLabelsAreCurrent
<1>12. ASSUME EditSemantic PROVE LiveLabelsAreCurrent' /\ RunsUnderActiveGuidance'
  <2>1. RunsUnderActiveGuidance'
    BY <1>10, <1>12 DEF EditSemantic
  <2>2. \A k \in Keys : verified'[k] = {} /\ exState'[k] # "Auto-Labeled"
    BY <1>12 DEF TypeOK, EditSemantic, LabelsMatchStates
  <2> QED
    BY <2>1, <2>2 DEF LiveLabelsAreCurrent
<1>13. ASSUME CrashRestart PROVE LiveLabelsAreCurrent' /\ RunsUnderActiveGuidance'
  BY <1>13 DEF TypeOK, CrashRestart, RecoveredStatus, LiveLabelsAreCurrent, RunsUnderActiveGuidance
<1>14. CASE UNCHANGED <<active, exState, auto, verified, status, snap>>
  BY <1>14 DEF LiveLabelsAreCurrent, RunsUnderActiveGuidance
<1> QED
  BY <1>1, <1>2, <1>3, <1>4, <1>5, <1>6, <1>7, <1>8, <1>9, <1>11, <1>12, <1>13, <1>14, GuidanceFrame

-----------------------------------------------------------------------------
(* The inductive invariant and what follows from it.                       *)

IInv ==
  /\ TypeOK
  /\ OneActiveRun /\ StartAlone /\ LanesAlive
  /\ LabelsMatchStates /\ SaveUndecided
  /\ LiveLabelsAreCurrent /\ RunsUnderActiveGuidance

LEMMA Inductive == Spec => []IInv
<1>1. Init => IInv
  <2> SUFFICES ASSUME Init PROVE IInv
    OBVIOUS
  <2>1. TypeOK
    BY TypeInit
  <2>2. OneActiveRun /\ StartAlone /\ LanesAlive /\ RunsUnderActiveGuidance
    BY DEF Init, OneActiveRun, StartAlone, LanesAlive, RunsUnderActiveGuidance, Active
  <2>3. LabelsMatchStates /\ SaveUndecided /\ LiveLabelsAreCurrent
    BY DEF Init, LabelsMatchStates, SaveUndecided, LiveLabelsAreCurrent
  <2> QED
    BY <2>1, <2>2, <2>3 DEF IInv
<1>2. IInv /\ [Next]_vars => IInv'
  BY TypeStep, ExclusionStep, ExecutorStep, LabelStep, GuidanceStep DEF IInv
<1> QED
  BY <1>1, <1>2, PTL DEF Spec

\* Never two queued, running or canceling runs, however starts, pauses,
\* resumes, cancels, edits and restarts interleave: a start request keeps its
\* place on the event loop between its check and its insert.
THEOREM ExclusionCorrect == Spec => []OneActiveRun
<1>1. IInv => OneActiveRun
  BY DEF IInv
<1> QED
  BY <1>1, Inductive, PTL

\* Example.state and the Label rows of every example agree after every commit
\* of the label handlers, the executors' outcomes, the edits and the restarts.
THEOREM LabelsCorrect == Spec => []LabelsMatchStates
<1>1. IInv => LabelsMatchStates
  BY DEF IInv
<1> QED
  BY <1>1, Inductive, PTL

\* No label that counts names a retired Guidance version: neither a save whose
\* reads an edit overtook, nor an outcome whose run an edit failed, commits one.
THEOREM LineageCorrect == Spec => []LiveLabelsAreCurrent
<1>1. IInv => LiveLabelsAreCurrent
  BY DEF IInv
<1> QED
  BY <1>1, Inductive, PTL

\* A run created while an edit committed is failed by its claim, and one the
\* edit found paused can never be resumed.
THEOREM SnapshotCorrect == Spec => []RunsUnderActiveGuidance
<1>1. IInv => RunsUnderActiveGuidance
  BY DEF IInv
<1> QED
  BY <1>1, Inductive, PTL

-----------------------------------------------------------------------------
(* The abstract project.                                                   *)

\* A label handler or a batch outcome moves at most one disposition, the way
\* the abstract project allows.
LEMMA DispositionStep ==
  ASSUME IInv, [Next]_vars,
         \/ \E r \in Runs, k \in Keys, a \in Answers : LaneReturn(r, k, a)
         \/ \E k \in Keys : Skip(k)
         \/ SaveCommit \/ RestoreOmitted
  PROVE  [Atomic!Next]_(Atomic!vars)
<1> USE DEF db, memory, labels, ledger, breaker
<1>1. ASSUME NEW r \in Runs, NEW k \in Keys, NEW a \in Answers, LaneReturn(r, k, a)
      PROVE  [Atomic!Next]_(Atomic!vars)
  <2>1. UNCHANGED <<active, status>>
    BY <1>1 DEF LaneReturn
  <2>2. CASE UNCHANGED exState
    BY <2>1, <2>2 DEF Atomic!vars
  <2>3. CASE ~UNCHANGED exState
    <3>1. /\ exState' = [exState EXCEPT ![k] = "Auto-Labeled"]
          /\ status[r] = "running" /\ exState[k] \notin {"Verified", "Omitted"}
      BY <1>1, <2>3 DEF LaneReturn, LaneReturnsLate, LaneReturnsInTime, Authoritative,
                        Persists, SupersededBySme
    <3>2. exState[k] \in {"Unlabeled", "Auto-Labeled"}
      BY <3>1 DEF IInv, TypeOK
    <3>3. Atomic!MachineLabel(k)
      BY <2>1, <3>1, <3>2 DEF Atomic!MachineLabel, Atomic!Dispose
    <3> QED
      BY <3>3 DEF Atomic!Next
  <2> QED
    BY <2>2, <2>3
<1>2. ASSUME NEW k \in Keys, Skip(k) PROVE [Atomic!Next]_(Atomic!vars)
  <2>1. Atomic!HumanDecide(k)
    BY <1>2 DEF Skip, Atomic!HumanDecide, Atomic!Dispose
  <2> QED
    BY <2>1 DEF Atomic!Next
<1>3. ASSUME SaveCommit PROVE [Atomic!Next]_(Atomic!vars)
  <2>1. PICK s \in saving :
          exState' = [exState EXCEPT ![s.key] = "Verified"] \/ UNCHANGED exState
    BY <1>3 DEF SaveCommit
  <2>2. UNCHANGED <<active, status>>
    BY <1>3 DEF SaveCommit
  <2>3. CASE UNCHANGED exState
    BY <2>2, <2>3 DEF Atomic!vars
  <2>4. CASE exState' = [exState EXCEPT ![s.key] = "Verified"]
    <3>1. s.key \in Keys /\ exState[s.key] \in {"Unlabeled", "Auto-Labeled"}
      BY DEF IInv, TypeOK, SaveUndecided
    <3>2. Atomic!HumanDecide(s.key)
      BY <2>2, <2>4, <3>1 DEF Atomic!HumanDecide, Atomic!Dispose
    <3> QED
      BY <3>1, <3>2 DEF Atomic!Next
  <2> QED
    BY <2>1, <2>3, <2>4
<1>4. ASSUME RestoreOmitted PROVE [Atomic!Next]_(Atomic!vars)
  <2>1. Atomic!Restore
    BY <1>4 DEF RestoreOmitted, Atomic!Restore
  <2> QED
    BY <2>1 DEF Atomic!Next
<1> QED
  BY <1>1, <1>2, <1>3, <1>4

\* A step of an executor or of an operator's request moves one run's phase.
LEMMA PhaseStep ==
  ASSUME IInv, [Next]_vars,
         \/ \E r \in Runs : Cancel(r) \/ Resume(r) \/ Claim(r) \/ Finalize(r)
         \/ StartInsert
  PROVE  [Atomic!Next]_(Atomic!vars)
<1> USE DEF db, memory, labels, ledger, breaker
<1>1. ASSUME NEW r \in Runs, Cancel(r) PROVE [Atomic!Next]_(Atomic!vars)
  <2>1. Atomic!RequestCancel(r)
    BY <1>1 DEF Cancel, Active, Atomic!RequestCancel, Atomic!Move, Atomic!Unsettled
  <2> QED
    BY <2>1 DEF Atomic!Next
<1>2. ASSUME NEW r \in Runs, Resume(r) PROVE [Atomic!Next]_(Atomic!vars)
  <2>1. Atomic!SoleRun(r)
    BY <1>2 DEF Resume, OtherActive, Active, Atomic!SoleRun, Atomic!Unsettled
  <2>2. Atomic!Create(r)
    BY <1>2, <2>1 DEF Resume, Atomic!Create, Atomic!Move
  <2> QED
    BY <2>2 DEF Atomic!Next
<1>3. ASSUME NEW r \in Runs, Claim(r) PROVE [Atomic!Next]_(Atomic!vars)
  <2>1. status' = [status EXCEPT ![r] = ClaimedStatus(r)] /\ UNCHANGED <<active, exState>>
    BY <1>3 DEF Claim
  <2>2. CASE status[r] = "queued"
    <3>1. ClaimedStatus(r) = IF snap[r].guidance = active THEN "running" ELSE "failed"
      BY <2>2 DEF ClaimedStatus
    <3>2. Atomic!Advance(r)
      BY <2>1, <2>2, <3>1 DEF Atomic!Advance, Atomic!Move, Atomic!Unsettled
    <3> QED
      BY <3>2 DEF Atomic!Next
  <2>3. CASE status[r] = "canceling"
    <3>1. ClaimedStatus(r) = "canceled"
      BY <2>3 DEF ClaimedStatus
    <3>2. Atomic!Advance(r)
      BY <2>1, <2>3, <3>1 DEF Atomic!Advance, Atomic!Move
    <3> QED
      BY <3>2 DEF Atomic!Next
  <2>4. CASE status[r] \notin {"queued", "canceling"}
    <3>1. ClaimedStatus(r) = status[r]
      BY <2>4 DEF ClaimedStatus
    <3>2. UNCHANGED status
      BY <2>1, <3>1 DEF IInv, TypeOK
    <3> QED
      BY <2>1, <3>2 DEF Atomic!vars
  <2> QED
    BY <2>2, <2>3, <2>4
<1>4. ASSUME NEW r \in Runs, Finalize(r) PROVE [Atomic!Next]_(Atomic!vars)
  <2>1. status' = [status EXCEPT ![r] = FinalStatus(r)] /\ UNCHANGED <<active, exState>>
    BY <1>4 DEF Finalize
  <2>2. status[r] \in {"running", "canceling"} \cup Terminal
    BY <1>4 DEF Finalize, Drained, IInv, LanesAlive
  <2>3. CASE status[r] \in Terminal
    <3>1. FinalStatus(r) = status[r]
      BY <2>3 DEF FinalStatus
    <3>2. UNCHANGED status
      BY <2>1, <3>1 DEF IInv, TypeOK
    <3> QED
      BY <2>1, <3>2 DEF Atomic!vars
  <2>4. CASE status[r] = "running"
    <3>1. FinalStatus(r) \in {"failed", "paused", "completed"}
      BY <2>4 DEF FinalStatus, Terminal
    <3>2. Atomic!Advance(r)
      BY <2>1, <2>4, <3>1 DEF Atomic!Advance, Atomic!Move, Atomic!Unsettled
    <3> QED
      BY <3>2 DEF Atomic!Next
  <2>5. CASE status[r] = "canceling"
    <3>1. FinalStatus(r) \in {"failed", "canceled"}
      BY <2>5 DEF FinalStatus, Terminal
    <3>2. Atomic!Advance(r)
      BY <2>1, <2>5, <3>1 DEF Atomic!Advance, Atomic!Move, Atomic!Unsettled
    <3> QED
      BY <3>2 DEF Atomic!Next
  <2> QED
    BY <2>2, <2>3, <2>4, <2>5
<1>5. ASSUME StartInsert PROVE [Atomic!Next]_(Atomic!vars)
  <2>2. PICK s \in starting : status' = [status EXCEPT ![s.run] = "queued"]
    BY <1>5 DEF StartInsert
  <2>3. s.run \in Runs /\ UNCHANGED <<active, exState>>
    BY <1>5 DEF IInv, TypeOK, StartInsert
  <2>4. status[s.run] = "none" /\ \A q \in Runs : status[q] \notin Active
    BY DEF IInv, StartAlone
  <2>5. Atomic!Create(s.run)
    BY <2>2, <2>3, <2>4 DEF Active, Atomic!Create, Atomic!SoleRun, Atomic!Unsettled, Atomic!Move
  <2> QED
    BY <2>3, <2>5 DEF Atomic!Next
<1> QED
  BY <1>1, <1>2, <1>3, <1>4, <1>5

\* Every step of the backend is a step of the atomic project or none of its
\* business: lost authority, in-flight requests, thread boundaries and crashes
\* do not show.
THEOREM RefinementCorrect == Spec => ImplementsAtomicProject
<1>1. Init => Atomic!Init
  BY DEF Init, Atomic!Init
<1>2. IInv /\ [Next]_vars => [Atomic!Next]_(Atomic!vars)
  <2> SUFFICES ASSUME IInv, [Next]_vars PROVE [Atomic!Next]_(Atomic!vars)
    OBVIOUS
  <2> USE DEF db, memory, labels, ledger, breaker
  <2>1. CASE EditInPlace
    <3>1. Atomic!Edit
      BY <2>1 DEF EditInPlace, Sweep, Swept, Active, Atomic!Edit, Atomic!Unsettled
    <3> QED
      BY <3>1 DEF Atomic!Next
  <2>2. CASE EditSemantic
    <3>1. Atomic!Edit
      BY <2>2 DEF EditSemantic, Sweep, Swept, Active, Atomic!Edit, Atomic!Unsettled
    <3> QED
      BY <3>1 DEF Atomic!Next
  <2>3. CASE CrashRestart
    <3>1. Atomic!Restart
      BY <2>3 DEF CrashRestart, RecoveredStatus, Atomic!Restart
    <3> QED
      BY <3>1 DEF Atomic!Next
  <2>4. CASE UNCHANGED <<active, exState, status>>
    BY <2>4 DEF Atomic!vars
  <2> QED
    BY <2>1, <2>2, <2>3, <2>4, DispositionStep, PhaseStep
       DEF Next, Executor, Operator, Sme, Lanes, vars, StartRead, Reconcile, LanePull,
           LaneDispatch, LaneGivesUp, LaneRaise, SaveRead, Signal
<1> QED
  BY <1>1, <1>2, Inductive, PTL DEF Spec, ImplementsAtomicProject, Atomic!Spec

-----------------------------------------------------------------------------
(* What no step may do.                                                    *)

\* Terminal is terminal: a late executor, a cancel, an edit and the startup
\* recovery each leave a finished run's status alone.
THEOREM TerminalStands == Spec => TerminalForever
<1>1. IInv /\ [Next]_vars =>
        [\A r \in Runs : status[r] \in Terminal => status'[r] = status[r]]_vars
  <2> SUFFICES ASSUME IInv, [Next]_vars, NEW q \in Runs, status[q] \in Terminal
               PROVE  status'[q] = status[q]
    OBVIOUS
  <2> USE DEF db, memory, labels, ledger, breaker
  <2>1. status \in [Runs -> {"none", "paused"} \cup Active \cup Terminal]
    BY DEF IInv, TypeOK
  <2>2. ASSUME NEW r \in Runs, Cancel(r) \/ Resume(r) PROVE status'[q] = status[q]
    BY <2>1, <2>2 DEF Cancel, Resume, Active, Terminal
  <2>3. ASSUME NEW r \in Runs, Claim(r) PROVE status'[q] = status[q]
    BY <2>1, <2>3 DEF Claim, ClaimedStatus, Terminal
  <2>4. ASSUME NEW r \in Runs, Finalize(r) PROVE status'[q] = status[q]
    BY <2>1, <2>4 DEF Finalize, FinalStatus, Terminal
  <2>5. CASE StartInsert
    BY <2>1, <2>5 DEF StartInsert, IInv, StartAlone, Terminal
  <2>6. CASE EditInPlace \/ EditSemantic
    BY <2>1, <2>6 DEF EditInPlace, EditSemantic, Sweep, Swept, Active, Terminal
  <2>7. CASE CrashRestart
    BY <2>1, <2>7 DEF CrashRestart, RecoveredStatus, Terminal
  <2>8. CASE UNCHANGED status
    BY <2>8
  <2> QED
    BY <2>2, <2>3, <2>4, <2>5, <2>6, <2>7, <2>8
       DEF Next, Executor, Operator, Sme, Lanes, vars, StartRead, Reconcile, LanePull,
           LaneDispatch, LaneGivesUp, LaneReturn, LaneRaise, SaveRead, SaveCommit, Skip,
           RestoreOmitted, Signal
<1> QED
  BY <1>1, Inductive, PTL DEF Spec, TerminalForever

\* An SME's decision is never displaced by a Teacher's answer, whichever of
\* them was read first and committed last.
THEOREM DecisionStands == Spec => HumanDecisionStands
<1>1. IInv /\ [Next]_vars =>
        [\A k \in Keys :
           /\ exState[k] = "Verified" /\ exState'[k] # "Verified" => active' # active
           /\ exState[k] = "Omitted" => exState'[k] \in {"Omitted", "Unlabeled"}]_vars
  <2> SUFFICES ASSUME IInv, [Next]_vars, NEW j \in Keys
               PROVE  /\ exState[j] = "Verified" /\ exState'[j] # "Verified" => active' # active
                      /\ exState[j] = "Omitted" => exState'[j] \in {"Omitted", "Unlabeled"}
    OBVIOUS
  <2> USE DEF db, memory, labels, ledger, breaker
  <2>1. exState \in [Keys -> {"Unlabeled", "Auto-Labeled", "Verified", "Omitted"}] /\ active \in Nat
    BY DEF IInv, TypeOK, Guidances
  <2>2. ASSUME NEW r \in Runs, NEW k \in Keys, NEW a \in Answers, LaneReturn(r, k, a)
        PROVE  exState'[j] = exState[j] \/ exState[j] \notin {"Verified", "Omitted"}
    BY <2>1, <2>2 DEF LaneReturn, LaneReturnsLate, LaneReturnsInTime, Persists, SupersededBySme
  <2>3. ASSUME NEW k \in Keys, Skip(k)
        PROVE  exState'[j] = exState[j] \/ exState[j] \notin {"Verified", "Omitted"}
    BY <2>1, <2>3 DEF Skip
  <2>4. ASSUME SaveCommit
        PROVE  exState'[j] = exState[j] \/ exState[j] \notin {"Verified", "Omitted"}
    <3>1. PICK s \in saving :
            exState' = [exState EXCEPT ![s.key] = "Verified"] \/ UNCHANGED exState
      BY <2>4 DEF SaveCommit
    <3>2. exState[s.key] \in {"Unlabeled", "Auto-Labeled"}
      BY DEF IInv, SaveUndecided
    <3> QED
      BY <2>1, <3>1, <3>2
  <2>5. ASSUME RestoreOmitted
        PROVE  IF exState[j] = "Omitted" THEN exState'[j] = "Unlabeled" ELSE exState'[j] = exState[j]
    BY <2>5 DEF RestoreOmitted
  <2>6. ASSUME EditInPlace \/ EditSemantic
        PROVE  active' # active /\ (exState[j] = "Omitted" => exState'[j] = "Omitted")
    BY <2>1, <2>6 DEF EditInPlace, EditSemantic, Sweep
  <2>7. CASE UNCHANGED exState
    BY <2>7
  <2> QED
    BY <2>2, <2>3, <2>4, <2>5, <2>6, <2>7
       DEF Next, Executor, Operator, Sme, Lanes, vars, StartRead, StartInsert, Cancel, Resume,
           Claim, Finalize, Reconcile, LanePull, LaneDispatch, LaneGivesUp, LaneRaise,
           SaveRead, Signal, CrashRestart
<1> QED
  BY <1>1, Inductive, PTL DEF Spec, HumanDecisionStands

-----------------------------------------------------------------------------
(* What the executor of a run keeps: its lanes, the events they obey, the  *)
(* failure streak and the ledger of its items.                             *)

-----------------------------------------------------------------------------
(* The invariant of one run.                                               *)

\* Only an executor in its lanes holds items, never more than it has lanes.
LanesHold(r) ==
  /\ exec[r] # "lanes" => \A k \in Keys : work[r][k] = "idle"
  /\ Cardinality(InLanes(r)) <= Width

\* What the row says of the run, the events of its executor say too.
EventsAreSet(r) ==
  /\ exec[r] \in {"claimed", "lanes"} => status[r] \in {"running", "canceling", "failed"}
  /\ exec[r] \in {"claimed", "lanes"} /\ status[r] = "canceling" => "cancel" \in flags[r]
  /\ exec[r] = "lanes" /\ (tripped[r] \/ streak[r] >= Threshold) => "breaker" \in flags[r]

\* Each request in flight may still be a failure of the streak.
InFlight(r) == {k \in Keys : work[r][k] = "invoking"}
StreakIsBounded(r) == streak[r] + Cardinality(InFlight(r)) < Threshold + Width

\* An answer is ignored in a run that will not complete.
IgnoredAreDoomed(r) == ignored[r] # {} => status[r] \in {"canceling", "canceled", "failed"}

\* While the run labels: an item in work has no outcome yet; the executor's
\* counters are the ledger's until an event takes its authority; and until
\* some event is set, every item out of work has its outcome.
LedgerIsOpen(r) ==
  exec[r] = "lanes" /\ status[r] = "running" =>
    /\ \A k \in Keys : work[r][k] # "idle" => k \in snap[r].input /\ op[r][k] \notin Results
    /\ flags[r] \subseteq {"breaker"} => tally[r] = Summary(r, snap[r].input)
    /\ flags[r] = {} => \A k \in snap[r].input : work[r][k] = "idle" => op[r][k] \in Results

\* LedgerAccountsForRun, of one run.
LedgerIsClosed(r) ==
  /\ status[r] = "completed" => \A k \in snap[r].input : op[r][k] \in Results /\ k \notin ignored[r]
  /\ status[r] \in {"completed", "paused"} => counts[r] = Summary(r, snap[r].input)

RunIsSound(r) ==
  LanesHold(r) /\ EventsAreSet(r) /\ StreakIsBounded(r) /\ IgnoredAreDoomed(r)
    /\ LedgerIsOpen(r) /\ LedgerIsClosed(r)
RunsAreSound == \A r \in Runs : RunIsSound(r)
-----------------------------------------------------------------------------
(* Counting.                                                               *)

\* How many items the lanes hold, of any number of examples.
LEMMA LanesAreFinite ==
  ASSUME NEW r \in Runs
  PROVE  /\ IsFiniteSet(InLanes(r)) /\ Cardinality(InLanes(r)) \in Nat
         /\ IsFiniteSet(InFlight(r)) /\ Cardinality(InFlight(r)) \in Nat
         /\ Cardinality(InFlight(r)) <= Cardinality(InLanes(r))
<1>1. InLanes(r) \in SUBSET Keys /\ InFlight(r) \in SUBSET InLanes(r)
  BY DEF InLanes, InFlight
<1>2. IsFiniteSet(InLanes(r))
  BY <1>1, KeysAssumption, FS_Subset
<1>3. IsFiniteSet(InFlight(r)) /\ Cardinality(InFlight(r)) <= Cardinality(InLanes(r))
  BY <1>1, <1>2, FS_Subset
<1> QED
  BY <1>2, <1>3, FS_CardinalityType

\* An item more, or an item less.
LEMMA OneMore ==
  ASSUME NEW S \in SUBSET Keys, NEW k \in Keys
  PROVE  /\ IsFiniteSet(S) /\ Cardinality(S) \in Nat
         /\ k \notin S => Cardinality(S \cup {k}) = Cardinality(S) + 1
         /\ k \in S => Cardinality(S \ {k}) = Cardinality(S) - 1
<1>1. IsFiniteSet(S)
  BY KeysAssumption, FS_Subset
<1> QED
  BY <1>1, FS_CardinalityType, FS_AddElement, FS_RemoveElement

LEMMA Empty == \A S : S = {} => Cardinality(S) = 0
  BY FS_EmptySet

\* An outcome adds one to its counter and leaves the others.
LEMMA OneOutcomeMore ==
  ASSUME NEW r \in Runs, NEW k \in Keys, NEW o \in Results,
         NEW items \in SUBSET Keys, k \in items, op[r][k] \notin Results,
         \A j \in Keys : op'[r][j] = IF j = k THEN o ELSE op[r][j]
  PROVE     Summary(r, items)' = [x \in Results |-> IF x = o THEN Summary(r, items)[x] + 1
                                                    ELSE Summary(r, items)[x]]
<1>2. ASSUME NEW x \in Results
      PROVE  Cardinality({j \in items : op'[r][j] = x})
               = IF x = o THEN Cardinality({j \in items : op[r][j] = x}) + 1
                 ELSE Cardinality({j \in items : op[r][j] = x})
  <2> DEFINE S == {j \in items : op[r][j] = x}
             T == {j \in items : op'[r][j] = x}
  <2>1. S \in SUBSET Keys /\ k \notin S
    OBVIOUS
  <2>2. CASE x = o
    <3>1. T = S \cup {k}
      BY <2>2
    <3> HIDE DEF S, T
    <3>2. Cardinality(S \cup {k}) = Cardinality(S) + 1
      BY <2>1, OneMore
    <3>3. Cardinality(T) = Cardinality(S) + 1
      BY <3>1, <3>2
    <3> QED
      BY <2>2, <3>3 DEF S, T
  <2>3. CASE x # o
    <3>1. T = S
      BY <2>3
    <3> QED
      BY <2>3, <3>1
  <2> QED
    BY <2>2, <2>3
<1> QED
  BY <1>2 DEF Summary
-----------------------------------------------------------------------------
(* A step of one run.                                                      *)

\* The run is as it was, whatever happens to others, to labels and to handlers.
Same(q) ==
  /\ status'[q] = status[q] /\ snap'[q] = snap[q] /\ streak'[q] = streak[q]
  /\ tripped'[q] = tripped[q] /\ counts'[q] = counts[q] /\ op'[q] = op[q]
  /\ ignored'[q] = ignored[q] /\ exec'[q] = exec[q] /\ work'[q] = work[q]
  /\ flags'[q] = flags[q] /\ tally'[q] = tally[q]

LEMMA LanesStay ==
  ASSUME NEW q \in Runs, work'[q] = work[q]
  PROVE  InLanes(q)' = InLanes(q) /\ InFlight(q)' = InFlight(q)
  BY DEF InLanes, InFlight

\* Events may be added to a run while nothing else of it changes.
LEMMA EventsMayBeAdded ==
  ASSUME NEW q \in Runs, RunIsSound(q), flags[q] \subseteq flags'[q],
         status'[q] = status[q], snap'[q] = snap[q], streak'[q] = streak[q],
         tripped'[q] = tripped[q], counts'[q] = counts[q], op'[q] = op[q],
         ignored'[q] = ignored[q], exec'[q] = exec[q], work'[q] = work[q], tally'[q] = tally[q]
  PROVE  RunIsSound(q)'
<1>1. InLanes(q)' = InLanes(q) /\ InFlight(q)' = InFlight(q)
  BY LanesStay
<1>2. Summary(q, snap[q].input)' = Summary(q, snap[q].input)
  BY DEF Summary
<1>3. LanesHold(q)' /\ StreakIsBounded(q)'
  BY <1>1 DEF RunIsSound, LanesHold, StreakIsBounded
<1>4. EventsAreSet(q)' /\ IgnoredAreDoomed(q)'
  BY DEF RunIsSound, EventsAreSet, IgnoredAreDoomed
<1>5. LedgerIsOpen(q)'
  BY <1>2 DEF RunIsSound, LedgerIsOpen
<1>6. LedgerIsClosed(q)'
  BY <1>2 DEF RunIsSound, LedgerIsClosed
<1> QED
  BY <1>3, <1>4, <1>5, <1>6 DEF RunIsSound

LEMMA SameStaysSound ==
  ASSUME NEW q \in Runs, RunIsSound(q), Same(q)
  PROVE  RunIsSound(q)'
<1>1. flags[q] \subseteq flags'[q]
  BY DEF Same
<1> QED
  BY <1>1, EventsMayBeAdded DEF Same

Others(r) == \A q \in Runs \ {r} : Same(q)

LEMMA OneRunStep ==
  ASSUME RunsAreSound, NEW r \in Runs, Others(r), RunIsSound(r)'
  PROVE  RunsAreSound'
<1>1. ASSUME NEW q \in Runs, q # r PROVE RunIsSound(q)'
  BY <1>1, SameStaysSound DEF RunsAreSound, Others
<1> QED
  BY <1>1 DEF RunsAreSound

\* One entry of a table of tables.
LEMMA Entries ==
  ASSUME NEW S, NEW f \in [Runs -> [Keys -> S]], NEW r \in Runs, NEW k \in Keys, NEW x
  PROVE  /\ \A j \in Keys : [f EXCEPT ![r][k] = x][r][j] = IF j = k THEN x ELSE f[r][j]
         /\ \A q \in Runs \ {r} : [f EXCEPT ![r][k] = x][q] = f[q]
  OBVIOUS

LEMMA WorkEntries ==
  ASSUME TypeOK, NEW r \in Runs, NEW k \in Keys, NEW x, work' = [work EXCEPT ![r][k] = x]
  PROVE  /\ \A j \in Keys : work'[r][j] = IF j = k THEN x ELSE work[r][j]
         /\ \A q \in Runs \ {r} : work'[q] = work[q]
<1> DEFINE S == {"idle", "todo", "held", "invoking"}
<1>1. work \in [Runs -> [Keys -> S]]
  BY DEF TypeOK
<1> HIDE DEF S
<1> QED
  BY <1>1, Entries

LEMMA OpEntries ==
  ASSUME TypeOK, NEW r \in Runs, NEW k \in Keys, NEW x, op' = [op EXCEPT ![r][k] = x]
  PROVE  /\ \A j \in Keys : op'[r][j] = IF j = k THEN x ELSE op[r][j]
         /\ \A q \in Runs \ {r} : op'[q] = op[q]
<1> DEFINE S == {"none", "pending"} \cup Results
<1>1. op \in [Runs -> [Keys -> S]]
  BY DEF TypeOK
<1> HIDE DEF S
<1> QED
  BY <1>1, Entries

\* Who is in the lanes once a lane has let go of an item.
LEMMA LaneEmpties ==
  ASSUME TypeOK, NEW r \in Runs, RunIsSound(r), NEW k \in Keys, work[r][k] \in {"held", "invoking"},
         \A j \in Keys : work'[r][j] = IF j = k THEN "idle" ELSE work[r][j],
         exec' = exec
  PROVE  /\ exec[r] = "lanes" /\ LanesHold(r)'
         /\ Cardinality(InFlight(r)') \in Nat
         /\ work[r][k] = "invoking" =>
              Cardinality(InFlight(r)') = Cardinality(InFlight(r)) - 1
         /\ work[r][k] = "held" => InFlight(r)' = InFlight(r)
<1>0. exec[r] = "lanes"
  BY DEF RunIsSound, LanesHold
<1>2. InLanes(r)' = InLanes(r) \ {k} /\ k \in InLanes(r) /\ InLanes(r) \in SUBSET Keys
  BY DEF InLanes
<1>3. /\ InFlight(r)' = InFlight(r) \ {k} /\ InFlight(r) \in SUBSET Keys
      /\ work[r][k] = "invoking" => k \in InFlight(r)
      /\ work[r][k] = "held" => InFlight(r)' = InFlight(r)
  BY DEF InFlight
<1>4. Cardinality(InLanes(r) \ {k}) = Cardinality(InLanes(r)) - 1 /\ Cardinality(InLanes(r)) \in Nat
  BY <1>2, OneMore
<1>5. Cardinality(InLanes(r)') <= Width
  <2>1. Cardinality(InLanes(r)') = Cardinality(InLanes(r)) - 1
    BY <1>2, <1>4
  <2> QED
    BY <1>4, <2>1, WidthAssumption DEF RunIsSound, LanesHold
<1>6. work[r][k] = "invoking" => Cardinality(InFlight(r)') = Cardinality(InFlight(r)) - 1
  <2> SUFFICES ASSUME work[r][k] = "invoking"
               PROVE  Cardinality(InFlight(r)') = Cardinality(InFlight(r)) - 1
    OBVIOUS
  <2>1. Cardinality(InFlight(r) \ {k}) = Cardinality(InFlight(r)) - 1
    BY <1>3, OneMore
  <2> QED
    BY <1>3, <2>1
<1>7. InFlight(r)' \in SUBSET Keys
  BY <1>3
<1>8. Cardinality(InFlight(r)') \in Nat
  BY <1>3, <1>7, OneMore
<1> QED
  BY <1>0, <1>3, <1>5, <1>6, <1>8 DEF LanesHold

\* A lane pulls an item: it has no outcome yet.
LEMMA PullStep ==
  ASSUME TypeOK, RunsAreSound, NEW r \in Runs, NEW k \in Keys, LanePull(r, k)
  PROVE  RunsAreSound'
<1> USE DEF db, memory, labels, ledger, breaker
<1>0. RunIsSound(r) /\ exec[r] = "lanes" /\ work[r][k] = "todo"
  BY DEF RunsAreSound, LanePull
<1>1. /\ \A j \in Keys : work'[r][j] = IF j = k THEN "held" ELSE work[r][j]
      /\ \A q \in Runs \ {r} : work'[q] = work[q]
  BY WorkEntries DEF LanePull
<1>2. InLanes(r)' = InLanes(r) \cup {k} /\ k \notin InLanes(r) /\ InLanes(r) \in SUBSET Keys
  BY <1>0, <1>1 DEF InLanes
<1>3. InFlight(r)' = InFlight(r)
  BY <1>0, <1>1 DEF InFlight
<1>4. Cardinality(InLanes(r)') <= Width
  <2>1. Cardinality(InLanes(r) \cup {k}) = Cardinality(InLanes(r)) + 1 /\ Cardinality(InLanes(r)) \in Nat
    BY <1>2, OneMore
  <2>2. Cardinality(InLanes(r)') = Cardinality(InLanes(r)) + 1
    BY <1>2, <2>1
  <2> QED
    BY <2>1, <2>2, WidthAssumption DEF LanePull
<1>5. Others(r)
  BY <1>1 DEF Others, Same, LanePull
<1>6. Summary(r, snap[r].input)' = Summary(r, snap[r].input)
  BY DEF Summary, LanePull
<1>7. LanesHold(r)' /\ StreakIsBounded(r)'
  BY <1>0, <1>3, <1>4 DEF RunIsSound, LanesHold, StreakIsBounded, LanePull
<1>8. EventsAreSet(r)' /\ IgnoredAreDoomed(r)'
  BY <1>0 DEF RunIsSound, EventsAreSet, IgnoredAreDoomed, LanePull
<1>9. LedgerIsOpen(r)'
  BY <1>0, <1>1, <1>6 DEF RunIsSound, LedgerIsOpen, LanePull
<1>10. LedgerIsClosed(r)'
  BY <1>0, <1>6 DEF RunIsSound, LedgerIsClosed, LanePull
<1> QED
  BY <1>5, <1>7, <1>8, <1>9, <1>10, OneRunStep DEF RunIsSound

\* A lane invokes: no event is set, so that the streak is below the threshold.
LEMMA DispatchStep ==
  ASSUME TypeOK, RunsAreSound, NEW r \in Runs, NEW k \in Keys, LaneDispatch(r, k)
  PROVE  RunsAreSound' /\ exec[r] = "lanes" /\ ~tripped[r] /\ status[r] # "canceling"
<1> USE DEF db, memory, labels, ledger, breaker
<1>0. RunIsSound(r) /\ work[r][k] = "held" /\ flags[r] = {}
  BY DEF RunsAreSound, LaneDispatch, PassesGate, Halted
<1>1. exec[r] = "lanes" /\ ~tripped[r] /\ ~(streak[r] >= Threshold) /\ status[r] # "canceling"
  BY <1>0 DEF RunIsSound, LanesHold, EventsAreSet
<1>2. /\ \A j \in Keys : work'[r][j] = IF j = k THEN "invoking" ELSE work[r][j]
      /\ \A q \in Runs \ {r} : work'[q] = work[q]
  BY WorkEntries DEF LaneDispatch
<1>3. /\ \A j \in Keys : op'[r][j] = IF j = k THEN "pending" ELSE op[r][j]
      /\ \A q \in Runs \ {r} : op'[q] = op[q]
  BY OpEntries DEF LaneDispatch
<1>4. InLanes(r)' = InLanes(r)
  BY <1>0, <1>2 DEF InLanes
<1>5. StreakIsBounded(r)'
  <2>1. InFlight(r)' \in SUBSET InLanes(r) /\ InLanes(r) \in SUBSET Keys
    BY <1>4 DEF InLanes, InFlight
  <2>2. IsFiniteSet(InLanes(r)) /\ Cardinality(InLanes(r)) \in Nat
    BY LanesAreFinite
  <2>3. IsFiniteSet(InFlight(r)') /\ Cardinality(InFlight(r)') <= Cardinality(InLanes(r))
    BY <2>1, <2>2, FS_Subset
  <2>4. Cardinality(InFlight(r)') \in Nat
    BY <2>3, FS_CardinalityType
  <2>5. Cardinality(InLanes(r)) <= Width
    BY <1>0 DEF RunIsSound, LanesHold
  <2>6. streak[r] \in Nat /\ streak'[r] = streak[r]
    BY DEF TypeOK, LaneDispatch
  <2> QED
    BY <1>1, <2>2, <2>3, <2>4, <2>5, <2>6, WidthAssumption, ThresholdAssumption DEF StreakIsBounded
<1>6. Others(r)
  BY <1>2, <1>3 DEF Others, Same, LaneDispatch
<1>7. LanesHold(r)' /\ EventsAreSet(r)' /\ IgnoredAreDoomed(r)'
  BY <1>0, <1>1, <1>4 DEF RunIsSound, LanesHold, EventsAreSet, IgnoredAreDoomed, LaneDispatch
<1>8. LedgerIsOpen(r)'
  <2> SUFFICES ASSUME status[r] = "running" PROVE LedgerIsOpen(r)'
    BY DEF LedgerIsOpen, LaneDispatch
  <2>1. PICK items : items = snap[r].input
    OBVIOUS
  <2>2. items \subseteq Keys /\ snap'[r].input = items
    BY <2>1 DEF TypeOK, Snapshot, LaneDispatch
  <2>3. op[r][k] \notin Results
    BY <1>0, <1>1 DEF RunIsSound, LedgerIsOpen
  <2>4. \A x \in Results : {j \in items : op'[r][j] = x} = {j \in items : op[r][j] = x}
    BY <1>3, <2>2, <2>3 DEF Results
  <2>5. Summary(r, items)' = Summary(r, items)
    BY <2>4 DEF Summary
  <2>6. Summary(r, snap[r].input)' = Summary(r, snap[r].input)
    BY <2>1, <2>2, <2>5 DEF Summary
  <2>7. "pending" \notin Results
    BY DEF Results
  <2> QED
    BY <1>0, <1>1, <1>2, <1>3, <2>3, <2>6, <2>7 DEF RunIsSound, LedgerIsOpen, LaneDispatch, TypeOK, Snapshot
<1>9. LedgerIsClosed(r)'
  BY <1>0, <1>1 DEF RunIsSound, EventsAreSet, LedgerIsClosed, LaneDispatch
<1> QED
  BY <1>1, <1>5, <1>6, <1>7, <1>8, <1>9, OneRunStep DEF RunIsSound

\* The events are set: a lane gives its item back, or an exception leaves it.
LEMMA GiveUpStep ==
  ASSUME TypeOK, RunsAreSound, NEW r \in Runs, NEW k \in Keys, LaneGivesUp(r, k) \/ LaneRaise(r, k)
  PROVE  RunsAreSound'
<1> USE DEF db, memory, labels, ledger, breaker
<1>0. RunIsSound(r) /\ work[r][k] \in {"held", "invoking"}
      /\ work' = [work EXCEPT ![r][k] = "idle"] /\ exec' = exec
  BY DEF RunsAreSound, LaneGivesUp, LaneRaise
<1>2. /\ \A j \in Keys : work'[r][j] = IF j = k THEN "idle" ELSE work[r][j]
      /\ \A q \in Runs \ {r} : work'[q] = work[q]
  BY <1>0, WorkEntries
<1>1. /\ exec[r] = "lanes" /\ LanesHold(r)' /\ Cardinality(InFlight(r)') \in Nat
      /\ Cardinality(InFlight(r)') <= Cardinality(InFlight(r))
  <2>1. Cardinality(InFlight(r)) \in Nat
    BY LanesAreFinite
  <2> QED
    BY <1>0, <1>2, <2>1, LaneEmpties
<1>3. flags[r] \subseteq flags'[r] /\ flags'[r] # {} /\ \A q \in Runs \ {r} : flags'[q] = flags[q]
  <2>1. CASE LaneGivesUp(r, k)
    BY <2>1 DEF LaneGivesUp, PassesGate, Halted
  <2>2. CASE LaneRaise(r, k)
    BY <2>2 DEF LaneRaise, TypeOK
  <2> QED
    BY <2>1, <2>2
<1>4. UNCHANGED <<status, snap, streak, tripped, counts, op, ignored, exec, tally>>
  BY DEF LaneGivesUp, LaneRaise
<1>5. Others(r)
  BY <1>2, <1>3, <1>4 DEF Others, Same
<1>6. StreakIsBounded(r)'
  <2>1. streak[r] \in Nat /\ Cardinality(InFlight(r)) \in Nat
    BY LanesAreFinite DEF TypeOK
  <2> QED
    BY <1>0, <1>1, <1>4, <2>1, WidthAssumption, ThresholdAssumption DEF RunIsSound, StreakIsBounded
<1>7. EventsAreSet(r)' /\ IgnoredAreDoomed(r)'
  BY <1>0, <1>3, <1>4 DEF RunIsSound, EventsAreSet, IgnoredAreDoomed
<1>8. Summary(r, snap[r].input)' = Summary(r, snap[r].input)
  BY <1>4 DEF Summary
<1>9. LedgerIsOpen(r)'
  BY <1>0, <1>2, <1>3, <1>4, <1>8 DEF RunIsSound, LedgerIsOpen
<1>10. LedgerIsClosed(r)'
  BY <1>0, <1>4, <1>8 DEF RunIsSound, LedgerIsClosed
<1> QED
  BY <1>1, <1>5, <1>6, <1>7, <1>9, <1>10, OneRunStep DEF RunIsSound

\* An answer: late, it takes the executor's authority to account for the run;
\* in time, it is one outcome more, and one request in flight less.
LEMMA ReturnStep ==
  ASSUME TypeOK, TypeOK', RunsAreSound, NEW r \in Runs, NEW k \in Keys, NEW a \in Answers,
         LaneReturn(r, k, a)
  PROVE  RunsAreSound'
<1> USE DEF db, memory, labels, ledger, breaker
<1>0. RunIsSound(r) /\ work[r][k] = "invoking"
      /\ work' = [work EXCEPT ![r][k] = "idle"] /\ exec' = exec
      /\ UNCHANGED <<status, snap>>
  BY DEF RunsAreSound, LaneReturn
<1>1. PICK o \in Results : o = Recorded(a)
  BY AnswersAssumption DEF LaneReturn, Recorded, Results
<1>2. op' = [op EXCEPT ![r][k] = o]
  BY <1>1 DEF LaneReturn
<1>4. /\ \A j \in Keys : work'[r][j] = IF j = k THEN "idle" ELSE work[r][j]
      /\ \A q \in Runs \ {r} : work'[q] = work[q]
  BY <1>0, WorkEntries
<1>3. /\ exec[r] = "lanes" /\ LanesHold(r)' /\ Cardinality(InFlight(r)') \in Nat
      /\ Cardinality(InFlight(r)') = Cardinality(InFlight(r)) - 1
  BY <1>0, <1>4, LaneEmpties
<1>5. /\ \A j \in Keys : op'[r][j] = IF j = k THEN o ELSE op[r][j]
      /\ \A q \in Runs \ {r} : op'[q] = op[q]
  BY <1>2, OpEntries
<1>6. status[r] \in {"running", "canceling", "failed"}
  BY <1>0, <1>3 DEF RunIsSound, EventsAreSet
<1>7. LedgerIsClosed(r)'
  BY <1>0, <1>6 DEF LedgerIsClosed
<1>8. streak[r] \in Nat /\ Cardinality(InFlight(r)) \in Nat
  BY LanesAreFinite DEF TypeOK
<1>9. CASE LaneReturnsLate(r, k, a)
  <2>1. /\ "stopped" \in flags'[r] /\ flags[r] \subseteq flags'[r]
        /\ ignored'[r] # {} => ignored[r] # {} \/ status[r] = "canceling"
        /\ \A q \in Runs \ {r} : flags'[q] = flags[q] /\ ignored'[q] = ignored[q]
    BY <1>9 DEF LaneReturnsLate, TypeOK
  <2>2. UNCHANGED <<streak, tripped, counts, tally>>
    BY <1>9 DEF LaneReturnsLate
  <2>3. Others(r)
    BY <1>0, <1>4, <1>5, <2>1, <2>2 DEF Others, Same
  <2>4. StreakIsBounded(r)'
    BY <1>0, <1>3, <1>8, <2>2, WidthAssumption, ThresholdAssumption DEF RunIsSound, StreakIsBounded
  <2>5. EventsAreSet(r)' /\ IgnoredAreDoomed(r)'
    BY <1>0, <2>1, <2>2 DEF RunIsSound, EventsAreSet, IgnoredAreDoomed
  <2>6. LedgerIsOpen(r)'
    <3>1. ~(flags'[r] \subseteq {"breaker"}) /\ flags'[r] # {}
      BY <2>1
    <3> QED
      BY <1>0, <1>4, <1>5, <3>1 DEF RunIsSound, LedgerIsOpen
  <2> QED
    BY <1>3, <1>7, <2>3, <2>4, <2>5, <2>6, OneRunStep DEF RunIsSound
<1>10. CASE LaneReturnsInTime(r, k, a)
  <2> DEFINE next  == NextStreak(r, o)
             trips == "breaker" \in flags[r] \/ next >= Threshold
  <2>1. /\ status[r] = "running"
        /\ streak' = [streak EXCEPT ![r] = next] /\ tripped' = [tripped EXCEPT ![r] = trips]
        /\ tally' = [tally EXCEPT ![r][o] = @ + 1]
        /\ counts' = IF trips THEN counts ELSE [counts EXCEPT ![r] = tally'[r]]
        /\ flags' = [flags EXCEPT ![r] =
                       @ \cup (IF trips THEN {"breaker"} ELSE {})
                         \cup (IF a = "rejected" THEN {"rejected", "cancel"} ELSE {})]
        /\ ignored' = ignored
    BY <1>1, <1>10 DEF LaneReturnsInTime, Authoritative
  <2>2. next \in Nat /\ next <= streak[r] + 1
    BY <1>8 DEF NextStreak
  <2> HIDE DEF next
  <2>3. /\ streak'[r] = next /\ tripped'[r] = trips
        /\ flags[r] \subseteq flags'[r]
        /\ trips => "breaker" \in flags'[r]
        /\ \A q \in Runs \ {r} :
             streak'[q] = streak[q] /\ tripped'[q] = tripped[q] /\ flags'[q] = flags[q]
    BY <2>1 DEF TypeOK
  <2>4. \A q \in Runs \ {r} : tally'[q] = tally[q] /\ counts'[q] = counts[q]
    BY <2>1 DEF TypeOK
  <2>5. tally'[r] = [x \in Results |-> IF x = o THEN tally[r][x] + 1 ELSE tally[r][x]]
    <3>1. tally \in [Runs -> [Results -> Nat]]
      BY DEF TypeOK
    <3> QED
      BY <2>1, <3>1
  <2>6. Others(r)
    BY <1>0, <1>4, <1>5, <2>1, <2>3, <2>4 DEF Others, Same
  <2>7. StreakIsBounded(r)'
    BY <1>0, <1>3, <1>8, <2>2, <2>3, WidthAssumption, ThresholdAssumption
      DEF RunIsSound, StreakIsBounded
  <2>8. EventsAreSet(r)' /\ IgnoredAreDoomed(r)'
    <3>1. tripped'[r] \/ streak'[r] >= Threshold => "breaker" \in flags'[r]
      BY <2>3
    <3> QED
      BY <1>0, <2>1, <2>3, <3>1 DEF RunIsSound, EventsAreSet, IgnoredAreDoomed
  <2>9. LedgerIsOpen(r)'
    <3>1. PICK items : items = snap[r].input
      OBVIOUS
    <3>2. items \in SUBSET Keys /\ snap'[r].input = items /\ k \in items /\ op[r][k] \notin Results
      BY <1>0, <1>3, <2>1, <3>1 DEF TypeOK, Snapshot, RunIsSound, LedgerIsOpen
    <3>3. Summary(r, items)' = [x \in Results |-> IF x = o THEN Summary(r, items)[x] + 1
                                                  ELSE Summary(r, items)[x]]
      BY <1>5, <3>2, OneOutcomeMore
    <3>4. Summary(r, snap[r].input) = Summary(r, items)
          /\ Summary(r, snap[r].input)' = Summary(r, items)'
      BY <3>1, <3>2 DEF Summary
    <3>5. flags'[r] \subseteq {"breaker"} => tally'[r] = Summary(r, items)'
      <4> SUFFICES ASSUME flags'[r] \subseteq {"breaker"} PROVE tally'[r] = Summary(r, items)'
        OBVIOUS
      <4>1. flags[r] \subseteq {"breaker"}
        BY <2>3
      <4>2. tally[r] = Summary(r, items)
        BY <1>0, <1>3, <2>1, <3>4, <4>1 DEF RunIsSound, LedgerIsOpen
      <4> QED
        BY <2>5, <3>3, <4>2
    <3>6. flags'[r] = {} => flags[r] = {}
      BY <2>3
    <3> QED
      BY <1>0, <1>3, <1>4, <1>5, <2>1, <3>1, <3>2, <3>4, <3>5, <3>6 DEF RunIsSound, LedgerIsOpen
  <2> QED
    BY <1>3, <1>7, <2>6, <2>7, <2>8, <2>9, OneRunStep DEF RunIsSound
<1> QED
  BY <1>9, <1>10 DEF LaneReturn

\* A resumed executor counts what the ledger has: the torn successes, which
\* it sets back, and the open items are what is left to do.
LEMMA ReconcileStep ==
  ASSUME TypeOK, RunsAreSound, NEW r \in Runs, Reconcile(r)
  PROVE  RunsAreSound'
<1> USE DEF db, memory, labels, ledger, breaker
<1>0. RunIsSound(r) /\ exec[r] = "claimed"
  BY DEF RunsAreSound, Reconcile
<1>1. /\ exec'[r] = "lanes" /\ flags'[r] = flags[r] \cup Rearmed(r)
      /\ tally'[r] = Summary(r, Done(r))
      /\ \A q \in Runs \ {r} : exec'[q] = exec[q] /\ flags'[q] = flags[q] /\ tally'[q] = tally[q]
                               /\ counts'[q] = counts[q]
  BY DEF Reconcile, TypeOK
<1>2. /\ \A k \in Keys : op'[r][k] = IF op[r][k] = "success" /\ k \notin Done(r) THEN "pending"
                                     ELSE op[r][k]
      /\ \A k \in Keys : work'[r][k] = IF k \in snap[r].input \ Done(r) THEN "todo" ELSE "idle"
      /\ \A q \in Runs \ {r} : op'[q] = op[q] /\ work'[q] = work[q]
  BY DEF Reconcile, TypeOK
<1>3. UNCHANGED <<status, snap, streak, tripped, ignored>>
  BY DEF Reconcile
<1>4. Others(r)
  BY <1>1, <1>2, <1>3 DEF Others, Same
<1>5. InLanes(r)' = {} /\ InFlight(r)' = {}
  BY <1>2 DEF InLanes, InFlight
<1>6. Cardinality(InLanes(r)') = 0 /\ Cardinality(InFlight(r)') = 0
  BY <1>5, Empty
<1>7. LanesHold(r)' /\ StreakIsBounded(r)'
  <2>1. streak[r] \in Nat /\ Cardinality(InFlight(r)) \in Nat
    BY LanesAreFinite DEF TypeOK
  <2> QED
    BY <1>0, <1>1, <1>3, <1>6, <2>1, WidthAssumption, ThresholdAssumption
      DEF RunIsSound, LanesHold, StreakIsBounded
<1>8. EventsAreSet(r)' /\ IgnoredAreDoomed(r)'
  BY <1>0, <1>1, <1>3 DEF RunIsSound, EventsAreSet, IgnoredAreDoomed, Rearmed
<1>9. LedgerIsClosed(r)'
  BY <1>0, <1>3 DEF RunIsSound, EventsAreSet, LedgerIsClosed
<1>10. LedgerIsOpen(r)'
  <2> SUFFICES ASSUME status[r] = "running" PROVE LedgerIsOpen(r)'
    BY <1>3 DEF LedgerIsOpen
  <2>1. PICK items, done : items = snap[r].input /\ done = Done(r)
    OBVIOUS
  <2>2. items \in SUBSET Keys /\ snap'[r].input = items
    BY <1>3, <2>1 DEF TypeOK, Snapshot
  <2>3. ignored[r] = {}
    BY <1>0 DEF RunIsSound, IgnoredAreDoomed
  <2>4. /\ done \subseteq items
        /\ \A k \in items : op[r][k] \in Results \ {"success"} => k \in done
        /\ \A k \in done : op[r][k] \in Results
    BY <2>1, <2>3 DEF Done, Settled, Results
  <2>5. \A k \in items : op'[r][k] = IF op[r][k] = "success" /\ k \notin done THEN "pending"
                                     ELSE op[r][k]
    BY <1>2, <2>1, <2>2
  <2>6. \A k \in items : op'[r][k] \in Results <=> k \in done
    BY <2>4, <2>5 DEF Results
  <2>7. \A x \in Results : {k \in items : op'[r][k] = x} = {k \in done : op[r][k] = x}
    BY <2>4, <2>5, <2>6 DEF Results
  <2>8. Summary(r, items)' = Summary(r, done)
    BY <2>7 DEF Summary
  <2>9. tally'[r] = Summary(r, snap[r].input)'
    <3>1. Summary(r, snap[r].input)' = Summary(r, items)'
      BY <2>2 DEF Summary
    <3> QED
      BY <1>1, <2>1, <2>8, <3>1
  <2>10. \A k \in Keys : work'[r][k] = IF k \in items \ done THEN "todo" ELSE "idle"
    BY <1>2, <2>1
  <2> QED
    BY <2>2, <2>6, <2>9, <2>10 DEF LedgerIsOpen
<1> QED
  BY <1>4, <1>7, <1>8, <1>9, <1>10, OneRunStep DEF RunIsSound

\* With no event set the drained run has every outcome; with the breaker
\* alone it has the outcomes it counts.
LEMMA FinalizeStep ==
  ASSUME TypeOK, RunsAreSound, NEW r \in Runs, Finalize(r)
  PROVE  RunsAreSound'
<1> USE DEF db, memory, labels, ledger, breaker
<1>0. RunIsSound(r) /\ exec[r] = "lanes" /\ InLanes(r) = {}
  BY DEF RunsAreSound, Finalize, Drained
<1>1. /\ status'[r] = FinalStatus(r) /\ exec'[r] = "none"
      /\ \A k \in Keys : work'[r][k] = "idle"
      /\ status[r] \notin Terminal => counts'[r] = tally[r]
      /\ \A q \in Runs \ {r} : status'[q] = status[q] /\ counts'[q] = counts[q] /\ exec'[q] = exec[q]
                     /\ work'[q] = work[q] /\ flags'[q] = flags[q] /\ tally'[q] = tally[q]
  BY DEF Finalize, TypeOK
<1>2. UNCHANGED <<snap, streak, tripped, op, ignored>>
  BY DEF Finalize
<1>3. Others(r)
  BY <1>1, <1>2 DEF Others, Same
<1>4. InLanes(r)' = {} /\ InFlight(r)' = {}
  BY <1>1 DEF InLanes, InFlight
<1>5. Cardinality(InLanes(r)') = 0 /\ Cardinality(InFlight(r)') = 0
  BY <1>4, Empty
<1>6. LanesHold(r)' /\ StreakIsBounded(r)'
  <2>1. streak[r] \in Nat /\ Cardinality(InFlight(r)) \in Nat
    BY LanesAreFinite DEF TypeOK
  <2> QED
    BY <1>0, <1>1, <1>2, <1>5, <2>1, WidthAssumption, ThresholdAssumption
      DEF RunIsSound, LanesHold, StreakIsBounded
<1>7. status[r] \in {"running", "canceling", "failed"}
  BY <1>0 DEF RunIsSound, EventsAreSet
<1>8. /\ FinalStatus(r) \in {"failed", "canceled", "paused", "completed"}
      /\ FinalStatus(r) = "completed" => status[r] = "running" /\ flags[r] = {}
      /\ FinalStatus(r) = "paused" => status[r] = "running" /\ flags[r] = {"breaker"}
      /\ status[r] = "canceling" => FinalStatus(r) \in {"failed", "canceled"}
      /\ status[r] = "failed" => FinalStatus(r) = "failed"
  BY <1>7 DEF FinalStatus, Terminal
<1>9. EventsAreSet(r)' /\ IgnoredAreDoomed(r)' /\ LedgerIsOpen(r)'
  BY <1>0, <1>1, <1>2, <1>7, <1>8 DEF RunIsSound, EventsAreSet, IgnoredAreDoomed, LedgerIsOpen
<1>10. LedgerIsClosed(r)'
  <2> SUFFICES ASSUME FinalStatus(r) \in {"completed", "paused"} PROVE LedgerIsClosed(r)'
    BY <1>1 DEF LedgerIsClosed
  <2>1. status[r] = "running" /\ flags[r] \subseteq {"breaker"}
    BY <1>8
  <2>2. tally[r] = Summary(r, snap[r].input) /\ counts'[r] = tally[r]
    BY <1>0, <1>1, <2>1 DEF RunIsSound, LedgerIsOpen, Terminal
  <2>3. Summary(r, snap[r].input)' = Summary(r, snap[r].input)
    BY <1>2 DEF Summary
  <2>4. FinalStatus(r) = "completed" =>
          \A k \in snap[r].input : op[r][k] \in Results /\ k \notin ignored[r]
    <3> SUFFICES ASSUME FinalStatus(r) = "completed", NEW k \in snap[r].input
                 PROVE  op[r][k] \in Results /\ k \notin ignored[r]
      OBVIOUS
    <3>1. flags[r] = {} /\ ignored[r] = {}
      BY <1>0, <1>8, <2>1 DEF RunIsSound, IgnoredAreDoomed
    <3>2. k \in Keys /\ work[r][k] \in {"idle", "todo", "held", "invoking"}
      BY DEF TypeOK, Snapshot
    <3>3. work[r][k] = "idle"
      BY <1>0, <3>1, <3>2 DEF Finalize, Drained, Halted, InLanes
    <3> QED
      BY <1>0, <2>1, <3>1, <3>3 DEF RunIsSound, LedgerIsOpen
  <2> QED
    BY <1>1, <1>2, <2>2, <2>3, <2>4 DEF LedgerIsClosed
<1> QED
  BY <1>3, <1>6, <1>9, <1>10, OneRunStep DEF RunIsSound

-----------------------------------------------------------------------------
(* The handlers, the edits and a crash.                                    *)

\* A run whose executor is not in its lanes, whatever the step makes of it
\* short of a final status it did not have.
LEMMA OutsideStaysSound ==
  ASSUME TypeOK, NEW r \in Runs, RunIsSound(r),
         \A k \in Keys : work'[r][k] = "idle",
         exec'[r] # "lanes",
         exec'[r] = "claimed" => status'[r] = "running",
         streak'[r] \in Nat /\ streak'[r] <= streak[r],
         ignored'[r] = ignored[r] /\ op'[r] = op[r],
         ignored[r] # {} => status'[r] \in {"canceling", "canceled", "failed"},
         status'[r] \in {"completed", "paused"} =>
           status'[r] = status[r] /\ counts'[r] = counts[r] /\ snap'[r] = snap[r]
  PROVE  RunIsSound(r)'
<1>1. InLanes(r)' = {} /\ InFlight(r)' = {}
  BY DEF InLanes, InFlight
<1>2. Cardinality(InLanes(r)') = 0 /\ Cardinality(InFlight(r)') = 0
  BY <1>1, Empty
<1>3. LanesHold(r)' /\ StreakIsBounded(r)'
  <2>1. streak[r] \in Nat /\ Cardinality(InFlight(r)) \in Nat
    BY LanesAreFinite DEF TypeOK
  <2>2. streak'[r] + 0 < Threshold + Width
    BY <2>1, WidthAssumption, ThresholdAssumption DEF RunIsSound, StreakIsBounded
  <2> QED
    BY <1>2, <2>2, WidthAssumption DEF LanesHold, StreakIsBounded
<1>4. EventsAreSet(r)' /\ IgnoredAreDoomed(r)' /\ LedgerIsOpen(r)'
  BY DEF EventsAreSet, IgnoredAreDoomed, LedgerIsOpen
<1>5. LedgerIsClosed(r)'
  <2> SUFFICES ASSUME status'[r] \in {"completed", "paused"} PROVE LedgerIsClosed(r)'
    BY DEF LedgerIsClosed
  <2>1. Summary(r, snap[r].input)' = Summary(r, snap[r].input)
    BY DEF Summary
  <2> QED
    BY <2>1 DEF RunIsSound, LedgerIsClosed
<1> QED
  BY <1>3, <1>4, <1>5 DEF RunIsSound

LEMMA ClaimStep ==
  ASSUME TypeOK, RunsAreSound, NEW r \in Runs, Claim(r)
  PROVE  RunsAreSound'
<1> USE DEF db, memory, labels, ledger, breaker
<1>0. RunIsSound(r) /\ exec[r] = "dispatched"
  BY DEF RunsAreSound, Claim
<1>1. /\ status'[r] = ClaimedStatus(r)
      /\ exec'[r] = IF ClaimedStatus(r) = "running" THEN "claimed" ELSE "none"
      /\ \A q \in Runs \ {r} : status'[q] = status[q] /\ exec'[q] = exec[q]
      /\ UNCHANGED <<snap, streak, tripped, counts, op, ignored, work, flags, tally>>
  BY DEF Claim, TypeOK
<1>2. Others(r)
  BY <1>1 DEF Others, Same
<1>3. \A k \in Keys : work'[r][k] = "idle"
  BY <1>0, <1>1 DEF RunIsSound, LanesHold
<1>4. /\ ignored[r] # {} => ClaimedStatus(r) \in {"canceling", "canceled", "failed"}
      /\ ClaimedStatus(r) \in {"completed", "paused"} => ClaimedStatus(r) = status[r]
  BY <1>0 DEF RunIsSound, IgnoredAreDoomed, ClaimedStatus
<1>5. streak'[r] \in Nat /\ streak'[r] <= streak[r]
  BY <1>1 DEF TypeOK
<1>6. RunIsSound(r)'
  BY <1>0, <1>1, <1>3, <1>4, <1>5, OutsideStaysSound
<1> QED
  BY <1>2, <1>6, OneRunStep

LEMMA ResumeStep ==
  ASSUME TypeOK, RunsAreSound, NEW r \in Runs, Resume(r)
  PROVE  RunsAreSound'
<1> USE DEF db, memory, labels, ledger, breaker
<1>0. RunIsSound(r) /\ status[r] = "paused"
  BY DEF RunsAreSound, Resume
<1>1. /\ status'[r] = "queued" /\ exec'[r] = "dispatched" /\ streak'[r] = 0
      /\ \A q \in Runs \ {r} : status'[q] = status[q] /\ exec'[q] = exec[q] /\ streak'[q] = streak[q]
                               /\ tripped'[q] = tripped[q]
      /\ UNCHANGED <<snap, counts, op, ignored, work, flags, tally>>
  BY DEF Resume, TypeOK
<1>2. Others(r)
  BY <1>1 DEF Others, Same
<1>3. \A k \in Keys : work'[r][k] = "idle"
  BY <1>0, <1>1 DEF RunIsSound, LanesHold, EventsAreSet
<1>4. ignored[r] = {}
  BY <1>0 DEF RunIsSound, IgnoredAreDoomed
<1>5. streak'[r] \in Nat /\ streak'[r] <= streak[r]
  BY <1>1 DEF TypeOK
<1>6. RunIsSound(r)'
  BY <1>0, <1>1, <1>3, <1>4, <1>5, OutsideStaysSound
<1> QED
  BY <1>2, <1>6, OneRunStep

LEMMA CancelStep ==
  ASSUME TypeOK, RunsAreSound, NEW r \in Runs, Cancel(r)
  PROVE  RunsAreSound'
<1> USE DEF db, memory, labels, ledger, breaker
<1>0. RunIsSound(r)
  BY DEF RunsAreSound
<1>1. UNCHANGED <<snap, streak, tripped, counts, op, ignored, exec, work, tally>>
  BY DEF Cancel
<1>2. InLanes(r)' = InLanes(r) /\ InFlight(r)' = InFlight(r)
  BY <1>1, LanesStay
<1>3. LanesHold(r)' /\ StreakIsBounded(r)'
  BY <1>0, <1>1, <1>2 DEF RunIsSound, LanesHold, StreakIsBounded
<1>4. CASE status[r] = "paused"
  <2>1. /\ status'[r] = "canceled" /\ flags' = flags
        /\ \A q \in Runs \ {r} : status'[q] = status[q]
    BY <1>4 DEF Cancel, TypeOK
  <2>2. exec[r] \notin {"claimed", "lanes"}
    BY <1>0, <1>4 DEF RunIsSound, EventsAreSet
  <2>3. Others(r)
    BY <1>1, <2>1 DEF Others, Same
  <2>4. EventsAreSet(r)' /\ IgnoredAreDoomed(r)' /\ LedgerIsOpen(r)' /\ LedgerIsClosed(r)'
    BY <1>1, <2>1, <2>2 DEF EventsAreSet, IgnoredAreDoomed, LedgerIsOpen, LedgerIsClosed
  <2> QED
    BY <1>3, <2>3, <2>4, OneRunStep DEF RunIsSound
<1>5. CASE status[r] # "paused"
  <2>1. /\ status'[r] = "canceling" /\ flags'[r] = Told(r)
        /\ \A q \in Runs \ {r} : status'[q] = status[q] /\ flags'[q] = flags[q]
    BY <1>5 DEF Cancel, TypeOK
  <2>2. Others(r)
    BY <1>1, <2>1 DEF Others, Same
  <2>3. EventsAreSet(r)' /\ IgnoredAreDoomed(r)' /\ LedgerIsOpen(r)' /\ LedgerIsClosed(r)'
    BY <1>0, <1>1, <2>1
      DEF RunIsSound, EventsAreSet, IgnoredAreDoomed, LedgerIsOpen, LedgerIsClosed, Told
  <2> QED
    BY <1>3, <2>2, <2>3, OneRunStep DEF RunIsSound
<1> QED
  BY <1>4, <1>5

LEMMA InsertStep ==
  ASSUME TypeOK, StartAlone, RunsAreSound, StartInsert
  PROVE  RunsAreSound'
<1> USE DEF db, memory, labels, ledger, breaker
<1>1. PICK s \in starting : /\ status' = [status EXCEPT ![s.run] = "queued"]
                            /\ snap' = [snap EXCEPT ![s.run] = s.snapshot]
                            /\ exec' = [exec EXCEPT ![s.run] = "dispatched"]
  BY DEF StartInsert
<1>2. PICK r \in Runs : r = s.run
  BY DEF TypeOK
<1>3. /\ status'[r] = "queued" /\ exec'[r] = "dispatched"
      /\ \A q \in Runs \ {r} : status'[q] = status[q] /\ exec'[q] = exec[q] /\ snap'[q] = snap[q]
      /\ UNCHANGED <<streak, tripped, counts, op, ignored, work, flags, tally>>
  BY <1>1, <1>2 DEF StartInsert, TypeOK
<1>4. RunIsSound(r) /\ status[r] = "none"
  BY <1>2 DEF RunsAreSound, StartAlone
<1>5. Others(r)
  BY <1>3 DEF Others, Same
<1>6. \A k \in Keys : work'[r][k] = "idle"
  BY <1>3, <1>4 DEF RunIsSound, LanesHold, EventsAreSet
<1>7. ignored[r] = {} /\ streak'[r] \in Nat /\ streak'[r] <= streak[r]
  BY <1>3, <1>4 DEF RunIsSound, IgnoredAreDoomed, TypeOK
<1>8. RunIsSound(r)'
  BY <1>3, <1>4, <1>6, <1>7, OutsideStaysSound
<1> QED
  BY <1>5, <1>8, OneRunStep

\* An edit fails a run under its executor, which finds out by its event.
LEMMA SweepStep ==
  ASSUME TypeOK, RunsAreSound, Sweep,
         UNCHANGED <<snap, streak, tripped, counts, op, ignored, exec, work, flags, tally>>
  PROVE  RunsAreSound'
<1>1. ASSUME NEW r \in Runs, r \notin Swept PROVE RunIsSound(r)'
  <2>1. Same(r)
    BY <1>1 DEF Sweep, Same
  <2> QED
    BY <2>1, SameStaysSound DEF RunsAreSound
<1>2. ASSUME NEW r \in Runs, r \in Swept PROVE RunIsSound(r)'
  <2>1. RunIsSound(r) /\ status'[r] = "failed"
    BY <1>2 DEF RunsAreSound, Sweep
  <2>2. InLanes(r)' = InLanes(r) /\ InFlight(r)' = InFlight(r)
    BY LanesStay
  <2>3. LanesHold(r)' /\ StreakIsBounded(r)'
    BY <2>1, <2>2 DEF RunIsSound, LanesHold, StreakIsBounded
  <2>4. EventsAreSet(r)' /\ IgnoredAreDoomed(r)' /\ LedgerIsOpen(r)' /\ LedgerIsClosed(r)'
    BY <2>1 DEF RunIsSound, EventsAreSet, IgnoredAreDoomed, LedgerIsOpen, LedgerIsClosed
  <2> QED
    BY <2>3, <2>4 DEF RunIsSound
<1> QED
  BY <1>1, <1>2 DEF RunsAreSound

LEMMA SignalStep ==
  ASSUME TypeOK, RunsAreSound, NEW r \in Runs, Signal(r)
  PROVE  RunsAreSound'
<1> USE DEF db, memory, labels, ledger, breaker
<1>1. flags[r] \subseteq flags'[r] /\ \A q \in Runs \ {r} : flags'[q] = flags[q]
  BY DEF Signal, Told, TypeOK
<1>2. UNCHANGED <<status, snap, streak, tripped, counts, op, ignored, exec, work, tally>>
  BY DEF Signal
<1>3. Others(r)
  BY <1>1, <1>2 DEF Others, Same
<1>4. RunIsSound(r)'
  BY <1>1, <1>2, EventsMayBeAdded DEF RunsAreSound
<1> QED
  BY <1>3, <1>4, OneRunStep

\* A restart loses the events with the lanes: no run is left in its lanes.
LEMMA CrashStep ==
  ASSUME TypeOK, RunsAreSound, CrashRestart
  PROVE  RunsAreSound'
<1> USE DEF db, memory, labels, ledger, breaker
<1>1. ASSUME NEW r \in Runs PROVE RunIsSound(r)'
  <2>1. RunIsSound(r)
    BY DEF RunsAreSound
  <2>2. /\ status'[r] = RecoveredStatus(r) /\ exec'[r] \in {"dispatched", "none"}
        /\ \A k \in Keys : work'[r][k] = "idle"
        /\ status[r] # "canceling" => counts'[r] = counts[r]
        /\ UNCHANGED <<snap, streak, op, ignored>>
    BY DEF CrashRestart
  <2>3. /\ ignored[r] # {} => RecoveredStatus(r) \in {"canceling", "canceled", "failed"}
        /\ RecoveredStatus(r) \in {"completed", "paused"} =>
             RecoveredStatus(r) = status[r] /\ status[r] # "canceling"
    BY <2>1 DEF RunIsSound, IgnoredAreDoomed, RecoveredStatus
  <2>4. streak'[r] \in Nat /\ streak'[r] <= streak[r]
    BY <2>2 DEF TypeOK
  <2> QED
    BY <2>1, <2>2, <2>3, <2>4, OutsideStaysSound
<1> QED
  BY <1>1 DEF RunsAreSound

\* What starts, saves, skips and restores concerns no run.
LEMMA RunFrame ==
  ASSUME [Next]_vars,
         ~(\E r \in Runs : Cancel(r) \/ Resume(r) \/ Executor(r) \/ Signal(r)),
         ~StartInsert, ~EditInPlace, ~EditSemantic, ~CrashRestart
  PROVE  UNCHANGED <<status, snap, streak, tripped, counts, op, ignored, exec, work, flags, tally>>
  BY DEF Next, Operator, Sme, vars, db, memory, labels, ledger, breaker, StartRead, SaveRead,
         SaveCommit, Skip, RestoreOmitted

LEMMA RunsStep ==
  ASSUME TypeOK, TypeOK', StartAlone, RunsAreSound, [Next]_vars
  PROVE  RunsAreSound'
<1>1. ASSUME NEW r \in Runs, Executor(r) PROVE RunsAreSound'
  <2>1. CASE Claim(r) \/ Reconcile(r) \/ Finalize(r)
    BY <2>1, ClaimStep, ReconcileStep, FinalizeStep
  <2>2. ASSUME NEW k \in Keys, LanePull(r, k) \/ LaneDispatch(r, k) PROVE RunsAreSound'
    BY <2>2, PullStep, DispatchStep
  <2>3. ASSUME NEW k \in Keys, LaneGivesUp(r, k) \/ LaneRaise(r, k) PROVE RunsAreSound'
    BY <2>3, GiveUpStep
  <2>4. ASSUME NEW k \in Keys, NEW a \in Answers, LaneReturn(r, k, a) PROVE RunsAreSound'
    BY <2>4, ReturnStep
  <2> QED
    BY <1>1, <2>1, <2>2, <2>3, <2>4 DEF Executor, Lanes
<1>2. ASSUME NEW r \in Runs, Cancel(r) \/ Resume(r) \/ Signal(r) PROVE RunsAreSound'
  BY <1>2, CancelStep, ResumeStep, SignalStep
<1>3. CASE StartInsert
  BY <1>3, InsertStep
<1>4. CASE EditInPlace \/ EditSemantic
  BY <1>4, SweepStep DEF EditInPlace, EditSemantic, breaker, ledger, memory
<1>5. CASE CrashRestart
  BY <1>5, CrashStep
<1>6. CASE UNCHANGED <<status, snap, streak, tripped, counts, op, ignored, exec, work, flags, tally>>
  <2>1. \A r \in Runs : Same(r)
    BY <1>6 DEF Same
  <2> QED
    BY <2>1, SameStaysSound DEF RunsAreSound
<1> QED
  BY <1>1, <1>2, <1>3, <1>4, <1>5, <1>6, RunFrame

-----------------------------------------------------------------------------
(* The theorems.                                                           *)

LEMMA RunsAreAlwaysSound == Spec => []RunsAreSound
<1>1. Init => RunsAreSound
  <2> SUFFICES ASSUME Init, NEW r \in Runs PROVE RunIsSound(r)
    BY DEF RunsAreSound
  <2>1. InLanes(r) = {} /\ InFlight(r) = {}
    BY DEF Init, InLanes, InFlight
  <2>2. Cardinality(InLanes(r)) = 0 /\ Cardinality(InFlight(r)) = 0
    BY <2>1, Empty
  <2>3. LanesHold(r) /\ StreakIsBounded(r)
    BY <2>2, WidthAssumption, ThresholdAssumption DEF Init, LanesHold, StreakIsBounded
  <2>4. EventsAreSet(r) /\ IgnoredAreDoomed(r) /\ LedgerIsOpen(r) /\ LedgerIsClosed(r)
    BY DEF Init, EventsAreSet, IgnoredAreDoomed, LedgerIsOpen, LedgerIsClosed
  <2> QED
    BY <2>3, <2>4 DEF RunIsSound
<1>2. IInv /\ IInv' /\ RunsAreSound /\ [Next]_vars => RunsAreSound'
  BY RunsStep DEF IInv
<1> QED
  BY <1>1, <1>2, Inductive, PTL DEF Spec

\* LedgerAccountsForRun: through pauses, resumes, torn successes and
\* restarts, a completed run has an outcome for each item it froze, and what
\* it or a paused run reports is what the ledger holds.
THEOREM LedgerCorrect == Spec => []LedgerAccountsForRun
<1>1. RunsAreSound => LedgerAccountsForRun
  BY DEF RunsAreSound, RunIsSound, LedgerIsClosed, LedgerAccountsForRun
<1> QED
  BY <1>1, RunsAreAlwaysSound, PTL

\* BreakerBoundsStreak: past the threshold only the requests already in
\* flight add to the streak, for lanes and a threshold of any number.
THEOREM BreakerCorrect == Spec => []BreakerBoundsStreak
<1>1. TypeOK /\ RunsAreSound => BreakerBoundsStreak
  <2> SUFFICES ASSUME TypeOK, RunsAreSound, NEW r \in Runs PROVE streak[r] < Threshold + Width
    BY DEF BreakerBoundsStreak
  <2>1. streak[r] \in Nat /\ Cardinality(InFlight(r)) \in Nat
    BY LanesAreFinite DEF TypeOK
  <2>2. streak[r] + Cardinality(InFlight(r)) < Threshold + Width
    BY DEF RunsAreSound, RunIsSound, StreakIsBounded
  <2> QED
    BY <2>1, <2>2, WidthAssumption, ThresholdAssumption
<1> QED
  BY <1>1, RunsAreAlwaysSound, TypeCorrect, PTL

\* DispatchOnlyWhileWanted: the event that the lane looks at after the gate
\* is never behind what the row says, resumed or restarted as the run may be.
THEOREM DispatchCorrect == Spec => DispatchOnlyWhileWanted
<1> DEFINE Wanted == \A r \in Runs, k \in Keys :
       work[r][k] # "invoking" /\ work'[r][k] = "invoking"
         => ~tripped[r] /\ status[r] # "canceling"
<1>1. TypeOK /\ RunsAreSound /\ [Next]_vars => [Wanted]_vars
  <2> SUFFICES ASSUME TypeOK, RunsAreSound, Next, NEW r \in Runs, NEW k \in Keys,
                      work[r][k] # "invoking", work'[r][k] = "invoking"
               PROVE  ~tripped[r] /\ status[r] # "canceling"
    OBVIOUS
  <2> USE DEF db, memory, labels, ledger, breaker
  <2>1. ASSUME NEW q \in Runs, NEW j \in Keys, LaneDispatch(q, j)
        PROVE  ~tripped[r] /\ status[r] # "canceling"
    <3>1. /\ \A i \in Keys : work'[q][i] = IF i = j THEN "invoking" ELSE work[q][i]
          /\ \A p \in Runs \ {q} : work'[p] = work[p]
      BY <2>1, WorkEntries DEF LaneDispatch
    <3>2. q = r
      BY <3>1
    <3> QED
      BY <2>1, <3>2, DispatchStep
  <2>2. ASSUME NEW q \in Runs, NEW j \in Keys, NEW x \in {"held", "idle"},
               work' = [work EXCEPT ![q][j] = x]
        PROVE  FALSE
    <3>1. /\ \A i \in Keys : work'[q][i] = IF i = j THEN x ELSE work[q][i]
          /\ \A p \in Runs \ {q} : work'[p] = work[p]
      BY <2>2, WorkEntries
    <3> QED
      BY <3>1
  <2>3. ASSUME NEW q \in Runs, Reconcile(q) \/ Finalize(q) PROVE FALSE
    <3>1. /\ \A i \in Keys : work'[q][i] \in {"todo", "idle"}
          /\ \A p \in Runs \ {q} : work'[p] = work[p]
      <4>1. CASE Reconcile(q)
        BY <4>1 DEF Reconcile, TypeOK
      <4>2. CASE Finalize(q)
        BY <4>2 DEF Finalize, TypeOK
      <4> QED
        BY <2>3, <4>1, <4>2
    <3> QED
      BY <3>1
  <2>4. CASE CrashRestart
    BY <2>4 DEF CrashRestart
  <2>5. work' # work
    OBVIOUS
  <2>6. ASSUME NEW q \in Runs, Lanes(q)
        PROVE  ~tripped[r] /\ status[r] # "canceling"
    BY <2>1, <2>2, <2>6 DEF Lanes, LanePull, LaneGivesUp, LaneReturn, LaneRaise
  <2>7. ASSUME NEW q \in Runs, Operator(q) \/ Claim(q) PROVE FALSE
    BY <2>5, <2>7 DEF Operator, StartRead, Cancel, Resume, Claim
  <2>8. CASE StartInsert \/ Sme
    BY <2>5, <2>8 DEF StartInsert, Sme, SaveRead, SaveCommit, Skip, RestoreOmitted, EditInPlace,
                      EditSemantic, Signal
  <2> QED
    BY <2>3, <2>4, <2>6, <2>7, <2>8 DEF Next, Executor
<1>2. Spec => [][Wanted]_vars
  BY <1>1, RunsAreAlwaysSound, TypeCorrect, PTL DEF Spec
<1> QED
  BY <1>2 DEF DispatchOnlyWhileWanted
=============================================================================
