----------------------- MODULE EvaluationRuns_proofs -----------------------
(* Proofs, for any examples, runs, settings, answers, edits and crashes,   *)
(* about the evaluation runs of one project.                               *)
EXTENDS EvaluationRuns, FiniteSetTheorems, TLAPS

-----------------------------------------------------------------------------
(* The invariant.                                                          *)

\* A run has an executor from its first moment, a claimed one is no longer
\* queued, and a published one has left.
StagesAgree(r) ==
  /\ status[r] = "none" => exec[r] = "none"
  /\ exec[r] \in {"claimed", "burst", "retry"} => status[r] \notin {"none", "queued"}
  /\ status[r] \in Published => exec[r] = "none"

\* An edit fails what runs under the version before.
RunningIsCurrent(r) == status[r] = "running" => frozen[r].guidance = active

\* What a run is scored against is what it froze, from the load to the end.
LoadedWhatItFroze(r) ==
  truth[r].guidance = frozen[r].guidance /\ frozen[r].members \subseteq truth[r].keys
TruthIsFrozen(r) ==
  (exec[r] \in {"burst", "retry"} /\ status[r] = "running") \/ status[r] \in Published
    => LoadedWhatItFroze(r)

\* The gather leaves no member without an outcome.
OutcomesAreKnown(r) == exec[r] = "retry" => \A k \in frozen[r].members : results[r][k] \in Outcomes

\* Each member is counted once.
MembersAreCounted(r) ==
  /\ status[r] \in Published =>
       counts[r]["success"] + counts[r]["schema_invalid"] + counts[r]["other"]
         = Cardinality(frozen[r].members)
  /\ status[r] = "completed" => counts[r]["success"] = Cardinality(frozen[r].members)

RunIsSound(r) ==
  StagesAgree(r) /\ RunningIsCurrent(r) /\ TruthIsFrozen(r) /\ OutcomesAreKnown(r)
    /\ MembersAreCounted(r)
RunsAreSound == \A r \in Runs : RunIsSound(r)

\* What was frozen under the active Guidance is still in the pool: only a
\* semantic edit takes examples out, and it makes a version of its own.
StillPooled(snapshot) ==
  /\ snapshot.guidance <= active
  /\ snapshot.guidance = active => snapshot.members \subseteq pool
FrozenArePooled == \A r \in Runs : StillPooled(frozen[r])
StartsArePooled == \A s \in starting : status[s.run] = "none" /\ StillPooled(s.snapshot)

\* Of the gate-basis runs only the newest is live; and there is a newest.
NewestIsLive ==
  \A r, q \in Runs : frozen[r].kind = "gate" /\ frozen[q].kind = "gate" /\ status[r] \in Live =>
    born[q] <= born[r]
SomeIsNewest == Runs # {} => \E r \in Runs : \A q \in Runs : born[q] <= born[r]

IInv ==
  TypeOK /\ RunsAreSound /\ FrozenArePooled /\ StartsArePooled /\ NewestIsLive /\ SomeIsNewest
-----------------------------------------------------------------------------
(* Counters, and who is newest.                                            *)

LEMMA CountsAreNaturals ==
  ASSUME NEW members \in SUBSET Keys, NEW outcomes
  PROVE  Tally(outcomes, members) \in [Counters -> Nat]
<1>1. ASSUME NEW kinds PROVE Of(outcomes, members, kinds) \in Nat
  <2> DEFINE S == {k \in members : outcomes[k] \in kinds}
  <2>1. IsFiniteSet(Keys) /\ S \in SUBSET Keys
    BY PoolAssumption
  <2>2. IsFiniteSet(S)
    BY <2>1, FS_Subset
  <2>3. Cardinality(S) \in Nat
    BY <2>2, FS_CardinalityType
  <2> QED
    BY <2>3 DEF Of
<1> QED
  BY <1>1 DEF Tally

\* One counter has each member, if all have an outcome.
LEMMA TallyPartitions ==
  ASSUME NEW members \in SUBSET Keys, NEW outcomes, \A k \in members : outcomes[k] \in Outcomes
  PROVE  LET t == Tally(outcomes, members) IN
         /\ t["success"] + t["schema_invalid"] + t["other"] = Cardinality(members)
         /\ (\A k \in members : outcomes[k] = "success") => t["success"] = Cardinality(members)
<1> DEFINE A == {k \in members : outcomes[k] \in {"success"}}
           B == {k \in members : outcomes[k] \in {"schema_invalid"}}
           C == {k \in members : outcomes[k] \in {"endpoint_error", "rate_limited"}}
<1>1. IsFiniteSet(A) /\ IsFiniteSet(B) /\ IsFiniteSet(C)
  <2>1. A \in SUBSET Keys /\ B \in SUBSET Keys /\ C \in SUBSET Keys /\ IsFiniteSet(Keys)
    BY PoolAssumption
  <2> QED
    BY <2>1, FS_Subset
<1>2. /\ (A \cup B) \cup C = members
      /\ A \cap B = {} /\ (A \cup B) \cap C = {}
  BY DEF Outcomes
<1>3. /\ Tally(outcomes, members)["success"] = Cardinality(A)
      /\ Tally(outcomes, members)["schema_invalid"] = Cardinality(B)
      /\ Tally(outcomes, members)["other"] = Cardinality(C)
  BY DEF Tally, Counters, Of
<1>4. (\A k \in members : outcomes[k] = "success") => A = members
  OBVIOUS
<1> HIDE DEF A, B, C
<1>5. Cardinality({}) = 0 /\ Cardinality(A) \in Nat /\ Cardinality(B) \in Nat
      /\ Cardinality(C) \in Nat
  BY <1>1, FS_EmptySet, FS_CardinalityType
<1>6. /\ IsFiniteSet(A \cup B)
      /\ Cardinality(A \cup B) = Cardinality(A) + Cardinality(B) - Cardinality(A \cap B)
  BY <1>1, FS_Union
<1>7. Cardinality((A \cup B) \cup C)
        = Cardinality(A \cup B) + Cardinality(C) - Cardinality((A \cup B) \cap C)
  BY <1>1, <1>6, FS_Union
<1>8. Cardinality(members) = Cardinality(A) + Cardinality(B) + Cardinality(C)
  <2>1. Cardinality(A \cap B) = 0 /\ Cardinality((A \cup B) \cap C) = 0
    BY <1>2, <1>5, Zenon
  <2>2. Cardinality((A \cup B) \cup C) = Cardinality(members)
    BY <1>2, Zenon
  <2> QED
    BY <1>5, <1>6, <1>7, <2>1, <2>2
<1> HIDE DEF Tally
<1> QED
  BY <1>3, <1>4, <1>8

LEMMA PersistedIsTally ==
  ASSUME TypeOK, NEW r \in Runs, NEW outcomes
  PROVE  /\ Persisted(r, outcomes) \in [Runs -> [Counters -> Nat]]
         /\ \A q \in Runs \ {r} : Persisted(r, outcomes)[q] = counts[q]
         /\ status[r] \in Terminal => Persisted(r, outcomes) = counts
         /\ status[r] \notin Terminal => Persisted(r, outcomes)[r] = Tally(outcomes, frozen[r].members)
<1>1. frozen[r].members \in SUBSET Keys
  BY DEF TypeOK, Snapshot
<1>2. Tally(outcomes, frozen[r].members) \in [Counters -> Nat]
  BY <1>1, CountsAreNaturals
<1> QED
  BY <1>2 DEF TypeOK, Persisted

LEMMA NewestIsMax ==
  ASSUME TypeOK, SomeIsNewest, Runs # {}
  PROVE  /\ Max({born[q] : q \in Runs}) \in Nat
         /\ \A q \in Runs : born[q] <= Max({born[p] : p \in Runs})
<1> DEFINE S == {born[q] : q \in Runs}
<1>1. PICK r \in Runs : \A q \in Runs : born[q] <= born[r]
  BY DEF SomeIsNewest
<1>2. S \subseteq Nat /\ born[r] \in S /\ \A y \in S : born[r] >= y
  BY <1>1 DEF TypeOK
<1>3. Max(S) \in S /\ \A y \in S : Max(S) >= y
  BY <1>2 DEF Max
<1>4. \A q \in Runs : born[q] \in S
  OBVIOUS
<1> HIDE DEF S
<1>5. Max(S) \in Nat /\ \A q \in Runs : born[q] \in Nat /\ Max(S) >= born[q]
  BY <1>2, <1>3, <1>4
<1>6. Max(S) \in Nat /\ \A q \in Runs : born[q] <= Max(S)
  BY <1>5
<1> QED
  BY <1>6 DEF S
-----------------------------------------------------------------------------
(* Types.                                                                  *)

\* What an executor leaves behind when it goes is in order.
LEMMA LeavesType ==
  ASSUME TypeOK, NEW r \in Runs, Leave(r)
  PROVE  /\ exec' \in [Runs -> {"none", "dispatched", "claimed", "burst", "retry"}]
         /\ work' \in [Runs -> [Keys -> {"idle", "todo", "invoking"}]]
         /\ results' \in [Runs -> [Keys -> {"none"} \cup Outcomes]]
         /\ retry' \in [Runs -> SUBSET Keys]
         /\ pass' \in [Runs -> 0 .. MaxPasses]
         /\ flags' \in [Runs -> SUBSET {"cancel", "rejected"}]
<1>1. 0 \in 0 .. MaxPasses
  BY ExecutionAssumption
<1> QED
  BY <1>1 DEF TypeOK, Leave, Untold

LEMMA ToldType ==
  ASSUME TypeOK, NEW r \in Runs
  PROVE  Told(r) \in SUBSET {"cancel", "rejected"}
         /\ \A a : Noted(r, a) \in SUBSET {"cancel", "rejected"}
  BY DEF TypeOK, Told, Noted

LEMMA CurrentType ==
  ASSUME TypeOK, NEW kind \in {"gate", "student"}
  PROVE  Current(kind) \in Snapshot /\ StillPooled(Current(kind))
  BY DEF TypeOK, Current, Snapshot, StillPooled, Guidances

\* One entry of a table of tables changed is a table of tables still.
LEMMA EntryType ==
  ASSUME NEW S, NEW f \in [Runs -> [Keys -> S]], NEW r \in Runs, NEW k \in Keys, NEW x \in S
  PROVE  /\ [f EXCEPT ![r][k] = x] \in [Runs -> [Keys -> S]]
         /\ [f EXCEPT ![r][k] = x][r][k] = x
         /\ \A q \in Runs, j \in Keys : q # r \/ j # k => [f EXCEPT ![r][k] = x][q][j] = f[q][j]
<1>1. [f[r] EXCEPT ![k] = x] \in [Keys -> S]
  OBVIOUS
<1> QED
  BY <1>1

LEMMA TypeOfExecutor ==
  ASSUME TypeOK, NEW r \in Runs, Executor(r)
  PROVE  TypeOK'
<1> USE DEF project, record, executor, request
<1>1. CASE Claim(r)
  BY <1>1 DEF TypeOK, Claim, ClaimedStatus, Live, Terminal
<1>2. CASE Load(r)
  BY <1>2 DEF TypeOK, Load
<1>3. CASE LoadRaises(r)
  BY <1>3, LeavesType DEF TypeOK, LoadRaises, Then, Terminal
<1>4. ASSUME NEW k \in Keys, BurstDispatch(r, k) \/ BurstSkip(r, k) \/ BurstRaise(r, k)
      PROVE  TypeOK'
  <2>1. PICK x \in {"idle", "todo", "invoking"} : work' = [work EXCEPT ![r][k] = x]
    BY <1>4 DEF BurstDispatch, BurstSkip, BurstRaise
  <2>2. work' \in [Runs -> [Keys -> {"idle", "todo", "invoking"}]]
    BY <2>1, EntryType DEF TypeOK
  <2> QED
    BY <1>4, <2>2 DEF TypeOK, BurstDispatch, BurstSkip, BurstRaise
<1>5. ASSUME NEW k \in Keys, RetryDispatch(r, k) PROVE TypeOK'
  BY <1>5 DEF TypeOK, RetryDispatch
<1>6. ASSUME NEW k \in Keys, NEW a \in Answers, BurstReturn(r, k, a) PROVE TypeOK'
  <2>1. Recorded(a) \in Outcomes
    BY <1>6, AnswersAssumption DEF BurstReturn, Recorded, Outcomes
  <2>2. results' = results \/ results' = [results EXCEPT ![r][k] = Recorded(a)]
    BY <1>6 DEF BurstReturn
  <2>5. results' \in [Runs -> [Keys -> {"none"} \cup Outcomes]]
    <3> DEFINE S == {"none"} \cup Outcomes
    <3>1. results \in [Runs -> [Keys -> S]]
      BY DEF TypeOK
    <3>2. PICK x \in S : results' = results \/ results' = [results EXCEPT ![r][k] = x]
      BY <2>1, <2>2
    <3> HIDE DEF S
    <3>3. [results EXCEPT ![r][k] = x] \in [Runs -> [Keys -> S]]
      BY <3>1, EntryType
    <3>4. results' \in [Runs -> [Keys -> S]]
      BY <3>1, <3>2, <3>3
    <3> QED
      BY <3>4 DEF S
  <2>3. counts' = counts \/ counts' = Persisted(r, results'[r])
    BY <1>6 DEF BurstReturn
  <2>4. counts' \in [Runs -> [Counters -> Nat]]
    BY <2>3, PersistedIsTally DEF TypeOK
  <2> QED
    BY <1>6, <2>5, <2>4, ToldType DEF TypeOK, BurstReturn
<1>7. ASSUME NEW k \in Keys, NEW a \in Answers, RetryReturn(r, k, a) PROVE TypeOK'
  <2> DEFINE o == IF a = "raise" THEN "endpoint_error" ELSE Recorded(a)
  <2>1. o \in Outcomes
    BY AnswersAssumption DEF Recorded, Outcomes
  <2>2. results' = results \/ results' = [results EXCEPT ![r][k] = o]
    BY <1>7 DEF RetryReturn
  <2> HIDE DEF o
  <2>3. results' \in [Runs -> [Keys -> {"none"} \cup Outcomes]]
    <3> DEFINE S == {"none"} \cup Outcomes
    <3>1. results \in [Runs -> [Keys -> S]]
      BY DEF TypeOK
    <3>2. PICK x \in S : results' = results \/ results' = [results EXCEPT ![r][k] = x]
      BY <2>1, <2>2
    <3> HIDE DEF S
    <3>3. [results EXCEPT ![r][k] = x] \in [Runs -> [Keys -> S]]
      BY <3>1, EntryType
    <3>4. results' \in [Runs -> [Keys -> S]]
      BY <3>1, <3>2, <3>3
    <3> QED
      BY <3>4 DEF S
  <2>4. counts' = counts \/ counts' = Persisted(r, results'[r])
    BY <1>7 DEF RetryReturn
  <2>5. counts' \in [Runs -> [Counters -> Nat]]
    BY <2>4, PersistedIsTally DEF TypeOK
  <2> QED
    BY <1>7, <2>3, <2>5, ToldType DEF TypeOK, RetryReturn
<1>8. CASE BurstEnd(r)
  <2>1. Gathered(r) \in [Keys -> {"none"} \cup Outcomes]
    BY DEF TypeOK, Gathered, Outcomes
  <2>2. {k \in frozen[r].members : Gathered(r)[k] \in Failing} \in SUBSET Keys
    BY DEF TypeOK, Snapshot
  <2> QED
    BY <1>8, <2>1, <2>2 DEF TypeOK, BurstEnd
<1>9. CASE NextPass(r)
  <2>1. RateLimited(r) \in SUBSET Keys
    BY DEF TypeOK, Snapshot, RateLimited
  <2>2. NextPassNumber(r) \in 0 .. MaxPasses
    BY <1>9, ExecutionAssumption DEF TypeOK, NextPass, NextPassNumber
  <2> QED
    BY <1>9, <2>1, <2>2 DEF TypeOK, NextPass
<1>10. CASE Publish(r)
  <2>1. counts' \in [Runs -> [Counters -> Nat]]
    BY <1>10, PersistedIsTally DEF TypeOK, Publish
  <2>2. FinalStatus(r) \in {"none", "canceling"} \cup Live \cup Terminal
    BY DEF TypeOK, FinalStatus, Then, Terminal, Published
  <2> QED
    BY <1>10, <2>1, <2>2, LeavesType DEF TypeOK, Publish
<1>11. CASE StopEarly(r)
  <2>1. counts' \in [Runs -> [Counters -> Nat]]
    BY <1>11, PersistedIsTally DEF TypeOK, StopEarly, Stop
  <2>2. status' \in [Runs -> {"none", "canceling"} \cup Live \cup Terminal]
    BY <1>11 DEF TypeOK, StopEarly, Stop, Then, Terminal
  <2> QED
    BY <1>11, <2>1, <2>2, LeavesType DEF TypeOK, StopEarly, Stop
<1> QED
  BY <1>1, <1>2, <1>3, <1>4, <1>5, <1>6, <1>7, <1>8, <1>9, <1>10, <1>11 DEF Executor, Attempts

LEMMA TypeOfInsert ==
  ASSUME TypeOK, SomeIsNewest, NEW r \in Runs, NEW snapshot \in Snapshot, Insert(r, snapshot)
  PROVE  /\ status' \in [Runs -> {"none", "canceling"} \cup Live \cup Terminal]
         /\ flags' \in [Runs -> SUBSET {"cancel", "rejected"}]
         /\ frozen' \in [Runs -> Snapshot] /\ born' \in [Runs -> Nat]
         /\ exec' \in [Runs -> {"none", "dispatched", "claimed", "burst", "retry"}]
<1>1. Max({born[q] : q \in Runs}) \in Nat
  BY NewestIsMax
<1>2. born' \in [Runs -> Nat]
  BY <1>1 DEF TypeOK, Insert
<1>3. flags' \in [Runs -> SUBSET {"cancel", "rejected"}]
  BY ToldType DEF TypeOK, Insert
<1> QED
  BY <1>2, <1>3 DEF TypeOK, Insert, Live

LEMMA TypeStep ==
  ASSUME TypeOK, SomeIsNewest, [Next]_vars
  PROVE  TypeOK'
<1> USE DEF project, record, executor, request
<1>1. ASSUME NEW r \in Runs, Executor(r) PROVE TypeOK'
  BY <1>1, TypeOfExecutor
<1>2. ASSUME NEW r \in Runs, StartRead(r) PROVE TypeOK'
  BY <1>2, CurrentType DEF TypeOK, StartRead
<1>3. ASSUME NEW r \in Runs, Cancel(r) PROVE TypeOK'
  BY <1>3, ToldType DEF TypeOK, Cancel
<1>4. ASSUME NEW r \in Runs, AutoStart(r) PROVE TypeOK'
  <2>1. Current("gate") \in Snapshot
    BY CurrentType
  <2> QED
    BY <1>4, <2>1, TypeOfInsert DEF TypeOK, AutoStart
<1>5. ASSUME NEW r \in Runs, Signal(r) PROVE TypeOK'
  BY <1>5, ToldType DEF TypeOK, Signal
<1>6. CASE StartInsert
  <2>1. PICK s \in starting : Insert(s.run, s.snapshot)
    BY <1>6 DEF StartInsert
  <2>2. s.run \in Runs /\ s.snapshot \in Snapshot
    BY DEF TypeOK
  <2> QED
    BY <1>6, <2>1, <2>2, TypeOfInsert DEF TypeOK, StartInsert
<1>7. CASE AutoDecline \/ SaveLabel \/ UpdateSettings
  BY <1>7 DEF TypeOK, AutoDecline, SaveLabel, UpdateSettings
<1>8. CASE EditInPlace \/ EditSemantic
  <2>1. active + 1 \in Guidances /\ active \in Nat
    BY <1>8, BoundsAssumption DEF EditInPlace, EditSemantic, Sweep, TypeOK, Guidances
  <2>2. era' \in 0 .. active' /\ active' \in Guidances
    BY <1>8, <2>1 DEF EditInPlace, EditSemantic, Sweep, TypeOK
  <2>3. status' \in [Runs -> {"none", "canceling"} \cup Live \cup Terminal] /\ signals' \subseteq Runs
    BY <1>8 DEF EditInPlace, EditSemantic, Sweep, Swept, TypeOK, Terminal
  <2> QED
    BY <1>8, <2>2, <2>3 DEF TypeOK, EditInPlace, EditSemantic, Sweep
<1>9. CASE CrashRestart
  <2>1. 0 \in 0 .. MaxPasses /\ crashes' \in 0 .. MaxCrashes
    BY <1>9, ExecutionAssumption, BoundsAssumption DEF CrashRestart, TypeOK
  <2> QED
    BY <1>9, <2>1 DEF TypeOK, CrashRestart, Interrupted, Terminal, Untold
<1>10. CASE UNCHANGED vars
  BY <1>10 DEF TypeOK, vars
<1> QED
  BY <1>1, <1>2, <1>3, <1>4, <1>5, <1>6, <1>7, <1>8, <1>9, <1>10 DEF Next
-----------------------------------------------------------------------------
(* The invariant is kept by an executor.                                   *)

\* What a step of one run may leave alone.
Alone(r) ==
  /\ \A q \in Runs \ {r} :
       /\ status'[q] = status[q] /\ exec'[q] = exec[q] /\ counts'[q] = counts[q]
       /\ results'[q] = results[q] /\ truth'[q] = truth[q]
  /\ active' = active /\ pool' = pool /\ frozen' = frozen /\ born' = born /\ starting' = starting

\* A step of one run keeps the invariant if that run stays sound.
LEMMA OneRunStep ==
  ASSUME IInv, TypeOK', NEW r \in Runs, Alone(r), RunIsSound(r)',
         status[r] # "none" \/ status' = status,
         status'[r] \in Live => status[r] \in Live
  PROVE  IInv'
<1>1. ASSUME NEW q \in Runs \ {r} PROVE RunIsSound(q)'
  BY DEF IInv, RunsAreSound, Alone, RunIsSound, StagesAgree, RunningIsCurrent, TruthIsFrozen,
         LoadedWhatItFroze, OutcomesAreKnown, MembersAreCounted
<1>2. RunsAreSound'
  BY <1>1 DEF RunsAreSound
<1>3. FrozenArePooled'
  BY DEF IInv, Alone, FrozenArePooled, StillPooled
<1>4. StartsArePooled'
  <2>1. \A s \in starting : s.run \in Runs
    BY DEF IInv, TypeOK
  <2>2. \A s \in starting : status'[s.run] = "none"
    BY <2>1 DEF IInv, StartsArePooled, Alone
  <2> QED
    BY <2>2 DEF IInv, Alone, StartsArePooled, StillPooled
<1>5. NewestIsLive'
  BY DEF IInv, Alone, NewestIsLive
<1>6. SomeIsNewest'
  BY DEF IInv, Alone, SomeIsNewest
<1> QED
  BY <1>2, <1>3, <1>4, <1>5, <1>6 DEF IInv

LEMMA Leaves ==
  ASSUME TypeOK, NEW r \in Runs, Leave(r)
  PROVE  /\ exec'[r] = "none"
         /\ \A q \in Runs \ {r} : exec'[q] = exec[q] /\ results'[q] = results[q]
  BY DEF TypeOK, Leave

\* Dispatches, skips, exceptions and passes change what no part is about.
LEMMA AttemptStep ==
  ASSUME IInv, TypeOK', NEW r \in Runs,
         UNCHANGED <<active, pool, status, frozen, born, counts, exec, results, truth, starting>>
  PROVE  IInv'
<1>1. Alone(r)
  BY DEF Alone
<1>2. RunIsSound(r)'
  BY DEF IInv, RunsAreSound, RunIsSound, StagesAgree, RunningIsCurrent, TruthIsFrozen,
         LoadedWhatItFroze, OutcomesAreKnown, MembersAreCounted
<1> QED
  BY <1>1, <1>2, OneRunStep

\* An answer: an outcome noted, and progress persisted while no status is final.
LEMMA AnswerStep ==
  ASSUME IInv, TypeOK', NEW r \in Runs, NEW k \in Keys, NEW o \in Outcomes,
         exec[r] # "none",
         results' = results \/ results' = [results EXCEPT ![r][k] = o],
         counts' = counts \/ counts' = Persisted(r, results'[r]),
         UNCHANGED <<active, pool, status, frozen, born, exec, truth, starting>>
  PROVE  IInv'
<1>1. /\ \A q \in Runs \ {r} : results'[q] = results[q]
      /\ \A j \in Keys : results'[r][j] = results[r][j] \/ results'[r][j] = o
  <2> DEFINE S == {"none"} \cup Outcomes
  <2>1. results \in [Runs -> [Keys -> S]] /\ o \in S
    BY DEF IInv, TypeOK
  <2> HIDE DEF S
  <2> QED
    BY <2>1
<1>2. \A q \in Runs \ {r} : counts'[q] = counts[q]
  BY PersistedIsTally DEF IInv
<1>3. status[r] # "none" /\ status[r] \notin Published
  BY DEF IInv, RunsAreSound, RunIsSound, StagesAgree
<1>4. Alone(r)
  BY <1>1, <1>2 DEF Alone
<1>5. OutcomesAreKnown(r)'
  <2>1. frozen[r].members \subseteq Keys
    BY DEF IInv, TypeOK, Snapshot
  <2> QED
    BY <1>1, <2>1 DEF IInv, RunsAreSound, RunIsSound, OutcomesAreKnown
<1>6. MembersAreCounted(r)'
  BY <1>3 DEF MembersAreCounted, Published
<1>7. RunIsSound(r)'
  BY <1>5, <1>6 DEF IInv, RunsAreSound, RunIsSound, StagesAgree, RunningIsCurrent, TruthIsFrozen,
                    LoadedWhatItFroze
<1> QED
  BY <1>4, <1>7, OneRunStep

\* A run that publishes was running, under the version and against the
\* examples it froze, and each example of its has an outcome to count.
LEMMA PublishStep ==
  ASSUME IInv, TypeOK', NEW r \in Runs, Publish(r)
  PROVE  IInv'
<1> USE DEF project, record, executor, request
<1>1. TypeOK /\ RunIsSound(r) /\ exec[r] = "retry"
  BY DEF IInv, RunsAreSound, Publish, PassOver
<1>2. status[r] \in {"running", "canceling", "canceled", "failed"}
  BY <1>1 DEF RunIsSound, StagesAgree, TypeOK, Live, Terminal, Published
<1>3. /\ FinalStatus(r) \in Published \cup {"canceled", "failed"}
      /\ FinalStatus(r) \in Published => status[r] = "running"
      /\ FinalStatus(r) = "completed" => Scored(r) = frozen[r].members
  BY <1>2 DEF FinalStatus, Then, Terminal, Published
<1>4. /\ status'[r] = FinalStatus(r) /\ exec'[r] = "none"
      /\ \A q \in Runs \ {r} : status'[q] = status[q]
  BY <1>1, Leaves DEF Publish, TypeOK
<1>5. Alone(r)
  <2>1. \A q \in Runs \ {r} : counts'[q] = counts[q]
    BY <1>1, PersistedIsTally DEF Publish
  <2> QED
    BY <1>1, <1>4, <2>1, Leaves DEF Alone, Publish
<1>6. TruthIsFrozen(r)'
  <2>1. FinalStatus(r) \in Published => LoadedWhatItFroze(r)
    BY <1>1, <1>3 DEF RunIsSound, TruthIsFrozen
  <2> QED
    BY <1>3, <1>4, <2>1 DEF Publish, TruthIsFrozen, LoadedWhatItFroze, Published
<1>7. MembersAreCounted(r)'
  <2>1. CASE FinalStatus(r) \notin Published
    BY <1>4, <2>1 DEF MembersAreCounted, Published
  <2>2. CASE FinalStatus(r) \in Published
    <3>1. counts'[r] = Tally(results[r], frozen[r].members)
      BY <1>1, <1>3, <2>2, PersistedIsTally DEF Publish, Terminal, Published
    <3>2. frozen[r].members \in SUBSET Keys /\ \A k \in frozen[r].members : results[r][k] \in Outcomes
      BY <1>1 DEF TypeOK, Snapshot, RunIsSound, OutcomesAreKnown
    <3>3. FinalStatus(r) = "completed" => \A k \in frozen[r].members : results[r][k] = "success"
      BY <1>3 DEF Scored
    <3>4. /\ counts'[r]["success"] + counts'[r]["schema_invalid"] + counts'[r]["other"]
               = Cardinality(frozen[r].members)
          /\ FinalStatus(r) = "completed" => counts'[r]["success"] = Cardinality(frozen[r].members)
      BY <3>1, <3>2, <3>3, TallyPartitions
    <3> QED
      BY <1>4, <3>4 DEF MembersAreCounted, Publish
  <2> QED
    BY <2>1, <2>2
<1>8. RunIsSound(r)'
  BY <1>3, <1>4, <1>6, <1>7 DEF RunIsSound, StagesAgree, RunningIsCurrent, OutcomesAreKnown,
                                Published
<1> QED
  BY <1>2, <1>3, <1>4, <1>5, <1>8, OneRunStep DEF Live, Published

LEMMA StopStep ==
  ASSUME IInv, TypeOK', NEW r \in Runs, StopEarly(r)
  PROVE  IInv'
<1> USE DEF project, record, executor, request
<1>1. TypeOK /\ RunIsSound(r) /\ exec[r] \in {"burst", "retry"}
  BY DEF IInv, RunsAreSound, StopEarly, PassOver, BurstOver
<1>2. status[r] \notin Published \cup {"none", "queued"}
  BY <1>1 DEF RunIsSound, StagesAgree
<1>3. /\ status'[r] \in {status[r], "failed", "canceled"}
      /\ \A q \in Runs \ {r} : status'[q] = status[q]
  BY <1>1 DEF StopEarly, Stop, Then, TypeOK
<1>4. exec'[r] = "none" /\ Alone(r)
  <2>1. \A q \in Runs \ {r} : counts'[q] = counts[q]
    BY <1>1, PersistedIsTally DEF StopEarly, Stop
  <2> QED
    BY <1>1, <1>3, <2>1, Leaves DEF Alone, StopEarly, Stop
<1>5. RunIsSound(r)'
  BY <1>1, <1>2, <1>3, <1>4 DEF Alone, RunIsSound, StagesAgree, RunningIsCurrent, TruthIsFrozen,
       OutcomesAreKnown, MembersAreCounted, Published
<1> QED
  BY <1>2, <1>3, <1>4, <1>5, OneRunStep DEF Live

LEMMA ExecutorStep ==
  ASSUME IInv, TypeOK', NEW r \in Runs, Executor(r)
  PROVE  IInv'
<1> USE DEF project, record, executor, request
<1>0. TypeOK /\ RunIsSound(r)
  BY DEF IInv, RunsAreSound
<1>1. CASE Claim(r)
  <2>1. Alone(r)
    BY <1>0, <1>1 DEF Alone, Claim, TypeOK
  <2>2. status[r] # "none" /\ status[r] \notin Published
    BY <1>0, <1>1 DEF RunIsSound, StagesAgree, Claim
  <2>3. /\ status'[r] = ClaimedStatus(r)
        /\ exec'[r] = IF ClaimedStatus(r) = "running" THEN "claimed" ELSE "none"
        /\ ClaimedStatus(r) \in {"canceled", "running", "failed", status[r]}
        /\ ClaimedStatus(r) = "running" => status[r] \in Live /\ frozen[r].guidance = active
    <3>1. status[r] = "running" => frozen[r].guidance = active
      BY <1>0 DEF RunIsSound, RunningIsCurrent
    <3> QED
      BY <1>0, <1>1, <3>1 DEF Claim, ClaimedStatus, TypeOK, Live
  <2>4. ClaimedStatus(r) \in Live => status[r] \in Live
    BY DEF ClaimedStatus, Live
  <2>5. RunIsSound(r)'
    BY <1>0, <1>1, <2>2, <2>3 DEF Claim, RunIsSound, StagesAgree, RunningIsCurrent, TruthIsFrozen,
         LoadedWhatItFroze, OutcomesAreKnown, MembersAreCounted, Published
  <2> QED
    BY <2>1, <2>2, <2>3, <2>4, <2>5, OneRunStep
<1>2. CASE Load(r)
  <2>1. Alone(r)
    BY <1>0, <1>2 DEF Alone, Load, TypeOK
  <2>2. status[r] \notin Published
    BY <1>0, <1>2 DEF RunIsSound, StagesAgree, Load
  <2>3. status[r] = "running" => LoadedWhatItFroze(r)'
    <3>1. status[r] = "running" => frozen[r].guidance = active /\ frozen[r].members \subseteq pool
      BY <1>0 DEF IInv, RunIsSound, RunningIsCurrent, FrozenArePooled, StillPooled
    <3>2. truth'[r] = [guidance |-> active, keys |-> pool \cap frozen[r].members]
      BY <1>0, <1>2 DEF Load, TypeOK
    <3> QED
      BY <1>2, <3>1, <3>2 DEF Load, LoadedWhatItFroze
  <2>4. RunIsSound(r)'
    BY <1>0, <1>2, <2>2, <2>3 DEF Load, TypeOK, RunIsSound, StagesAgree, RunningIsCurrent,
         TruthIsFrozen, OutcomesAreKnown, MembersAreCounted
  <2> QED
    BY <1>0, <1>2, <2>1, <2>4, OneRunStep DEF Load
<1>3. CASE LoadRaises(r)
  <2>1. status[r] \notin Published \cup {"none"}
    BY <1>0, <1>3 DEF RunIsSound, StagesAgree, LoadRaises
  <2>2. status'[r] = Then(r, "failed") /\ \A q \in Runs \ {r} : status'[q] = status[q]
    BY <1>0, <1>3 DEF LoadRaises, TypeOK
  <2>3. exec'[r] = "none" /\ Alone(r)
    BY <1>0, <1>3, <2>2, Leaves DEF Alone, LoadRaises
  <2>4. Then(r, "failed") \in {"failed", "canceled"}
    BY <2>1 DEF Then, Terminal
  <2>5. RunIsSound(r)'
    BY <2>2, <2>3, <2>4 DEF RunIsSound, StagesAgree, RunningIsCurrent, TruthIsFrozen,
         OutcomesAreKnown, MembersAreCounted, Published
  <2> QED
    BY <2>1, <2>2, <2>3, <2>4, <2>5, OneRunStep DEF Live
<1>4. ASSUME NEW k \in Keys,
             BurstDispatch(r, k) \/ BurstSkip(r, k) \/ BurstRaise(r, k) \/ RetryDispatch(r, k)
      PROVE  IInv'
  BY <1>4, AttemptStep DEF BurstDispatch, BurstSkip, BurstRaise, RetryDispatch
<1>5. CASE NextPass(r)
  BY <1>5, AttemptStep DEF NextPass
<1>6. ASSUME NEW k \in Keys, NEW a \in Answers, BurstReturn(r, k, a) PROVE IInv'
  <2>1. PICK o \in Outcomes : o = Recorded(a)
    BY <1>6, AnswersAssumption DEF BurstReturn, Recorded, Outcomes
  <2>2. /\ results' = results \/ results' = [results EXCEPT ![r][k] = o]
        /\ counts' = counts \/ counts' = Persisted(r, results'[r])
        /\ exec[r] # "none"
    BY <1>6, <2>1 DEF BurstReturn
  <2> QED
    BY <1>6, <2>2, AnswerStep DEF BurstReturn
<1>7. ASSUME NEW k \in Keys, NEW a \in Answers, RetryReturn(r, k, a) PROVE IInv'
  <2>1. PICK o \in Outcomes : o = IF a = "raise" THEN "endpoint_error" ELSE Recorded(a)
    BY AnswersAssumption DEF Recorded, Outcomes
  <2>2. /\ results' = results \/ results' = [results EXCEPT ![r][k] = o]
        /\ counts' = counts \/ counts' = Persisted(r, results'[r])
        /\ exec[r] # "none"
    BY <1>7, <2>1 DEF RetryReturn
  <2> QED
    BY <1>7, <2>2, AnswerStep DEF RetryReturn
<1>8. CASE BurstEnd(r)
  <2>1. exec[r] = "burst" /\ exec'[r] = "retry" /\ results'[r] = Gathered(r) /\ ~Canceled(r)
    BY <1>0, <1>8 DEF BurstEnd, BurstOver, TypeOK
  <2>2. Alone(r)
    BY <1>0, <1>8 DEF Alone, BurstEnd, TypeOK
  <2>3. \A k \in frozen[r].members : Gathered(r)[k] \in Outcomes
    <3>1. frozen[r].members \subseteq Keys /\ \A k \in Keys : results[r][k] \in {"none"} \cup Outcomes
      BY <1>0 DEF TypeOK, Snapshot
    <3> QED
      BY <2>1, <3>1 DEF Gathered, Outcomes
  <2>4. RunIsSound(r)'
    BY <1>0, <1>8, <2>1, <2>3 DEF BurstEnd, RunIsSound, StagesAgree, RunningIsCurrent,
         TruthIsFrozen, LoadedWhatItFroze, OutcomesAreKnown, MembersAreCounted
  <2> QED
    BY <1>8, <2>2, <2>4, OneRunStep DEF BurstEnd
<1>9. CASE Publish(r)
  BY <1>9, PublishStep
<1>10. CASE StopEarly(r)
  BY <1>10, StopStep
<1> QED
  BY <1>1, <1>2, <1>3, <1>4, <1>5, <1>6, <1>7, <1>8, <1>9, <1>10 DEF Executor, Attempts
-----------------------------------------------------------------------------
(* The invariant is kept by the handlers, by an edit and by a crash.       *)

\* A new run is the newest, and every other live run is superseded.
LEMMA InsertStep ==
  ASSUME IInv, TypeOK', NEW r \in Runs, NEW snapshot \in Snapshot, Insert(r, snapshot),
         status[r] = "none", StillPooled(snapshot),
         starting' = {},
         UNCHANGED <<active, pool, counts, results, truth>>
  PROVE  IInv'
<1>1. TypeOK /\ Runs # {}
  BY DEF IInv
<1>2. exec[r] = "none"
  BY DEF IInv, RunsAreSound, RunIsSound, StagesAgree
<1>3. /\ status'[r] = "queued" /\ exec'[r] = "dispatched" /\ frozen'[r] = snapshot
      /\ born'[r] = 1 + Max({born[q] : q \in Runs})
      /\ \A q \in Runs \ {r} :
           /\ exec'[q] = exec[q] /\ frozen'[q] = frozen[q] /\ born'[q] = born[q]
           /\ status'[q] = status[q] \/ (status[q] \in Live /\ status'[q] = "canceling")
           /\ snapshot.kind = "gate" /\ frozen[q].kind = "gate" => status'[q] \notin Live
  <2> DEFINE m == Max({born[q] : q \in Runs})
             S == Superseded(snapshot.kind)
  <2>1. \A q \in S : status[q] \in Live
    BY DEF Superseded
  <2>2. \A q \in Runs :
          snapshot.kind = "gate" /\ frozen[q].kind = "gate" /\ status[q] \in Live => q \in S
    BY DEF Superseded
  <2>3. /\ status' = [q \in Runs |-> IF q = r THEN "queued"
                                    ELSE IF q \in S THEN "canceling" ELSE status[q]]
        /\ exec' = [exec EXCEPT ![r] = "dispatched"] /\ frozen' = [frozen EXCEPT ![r] = snapshot]
        /\ born' = [born EXCEPT ![r] = 1 + m]
    BY DEF Insert
  <2>4. /\ exec'[r] = "dispatched" /\ frozen'[r] = snapshot /\ born'[r] = 1 + m
        /\ \A q \in Runs \ {r} : exec'[q] = exec[q] /\ frozen'[q] = frozen[q] /\ born'[q] = born[q]
    <3> HIDE DEF m, S
    <3> QED
      BY <1>1, <2>3 DEF TypeOK
  <2> HIDE DEF S
  <2>5. /\ status'[r] = "queued"
        /\ \A q \in Runs \ {r} :
             /\ status'[q] = status[q] \/ (status[q] \in Live /\ status'[q] = "canceling")
             /\ snapshot.kind = "gate" /\ frozen[q].kind = "gate" => status'[q] \notin Live
    <3>1. status'[r] = "queued" /\ \A q \in Runs \ {r} : status'[q] = IF q \in S THEN "canceling" ELSE status[q]
      BY <2>3
    <3> QED
      BY <2>1, <2>2, <3>1 DEF Live
  <2> QED
    BY <2>4, <2>5
<1>4. ASSUME NEW q \in Runs \ {r} PROVE RunIsSound(q)'
  <2>1. RunIsSound(q)
    BY DEF IInv, RunsAreSound
  <2>2. CASE status'[q] = status[q]
    BY <1>3, <2>1, <2>2 DEF RunIsSound, StagesAgree, RunningIsCurrent, TruthIsFrozen,
         LoadedWhatItFroze, OutcomesAreKnown, MembersAreCounted
  <2>3. CASE status[q] \in Live /\ status'[q] = "canceling"
    BY <1>3, <2>1, <2>3 DEF RunIsSound, StagesAgree, RunningIsCurrent, TruthIsFrozen,
         LoadedWhatItFroze, OutcomesAreKnown, MembersAreCounted, Published
  <2> QED
    BY <1>3, <2>2, <2>3
<1>5. RunIsSound(r)'
  BY <1>3 DEF RunIsSound, StagesAgree, RunningIsCurrent, TruthIsFrozen, OutcomesAreKnown,
              MembersAreCounted, Published
<1>6. RunsAreSound'
  BY <1>4, <1>5 DEF RunsAreSound
<1>7. FrozenArePooled'
  BY <1>3 DEF IInv, FrozenArePooled, StillPooled
<1>8. StartsArePooled'
  BY DEF StartsArePooled
<1>9. \A q \in Runs : born'[q] <= born'[r] /\ born'[q] \in Nat
  <2> DEFINE m == Max({born[q] : q \in Runs})
  <2>1. m \in Nat /\ \A q \in Runs : born[q] <= m
    BY <1>1, NewestIsMax DEF IInv
  <2>2. \A q \in Runs : born[q] \in Nat /\ born'[q] \in Nat
    BY <1>1 DEF TypeOK
  <2>3. born'[r] = 1 + m /\ \A q \in Runs \ {r} : born'[q] = born[q]
    BY <1>3
  <2> HIDE DEF m
  <2> QED
    BY <2>1, <2>2, <2>3
<1>10. NewestIsLive'
  BY <1>3, <1>9 DEF IInv, NewestIsLive
<1>11. SomeIsNewest'
  BY <1>9 DEF SomeIsNewest
<1> QED
  BY <1>6, <1>7, <1>8, <1>10, <1>11 DEF IInv

\* A step that lets some runs end and takes nothing from the executors but
\* what they held: what a published run has and who is live are as before.
LEMMA EndsStep ==
  ASSUME IInv, TypeOK', NEW S \in SUBSET Runs,
         \A r \in S : status[r] \notin Published \cup {"none"} /\ status'[r] = "failed",
         \A r \in Runs \ S : status'[r] = status[r],
         \A r \in Runs : exec'[r] = "none" \/ (exec'[r] = exec[r] /\ results'[r] = results[r]),
         \A r \in Runs : status'[r] # "running" \/ active' = active,
         FrozenArePooled', StartsArePooled',
         UNCHANGED <<frozen, born, counts, truth>>
  PROVE  IInv'
<1>1. ASSUME NEW r \in S PROVE RunIsSound(r)'
  BY DEF IInv, RunsAreSound, RunIsSound, StagesAgree, RunningIsCurrent, TruthIsFrozen,
         LoadedWhatItFroze, OutcomesAreKnown, MembersAreCounted, Published
<1>2. ASSUME NEW r \in Runs \ S PROVE RunIsSound(r)'
  BY DEF IInv, RunsAreSound, RunIsSound, StagesAgree, RunningIsCurrent, TruthIsFrozen,
         LoadedWhatItFroze, OutcomesAreKnown, MembersAreCounted
<1>3. RunsAreSound'
  BY <1>1, <1>2 DEF RunsAreSound
<1>4. NewestIsLive'
  <2>1. \A r \in Runs : status'[r] \in Live => status[r] \in Live
    BY DEF Live
  <2> QED
    BY <2>1 DEF IInv, NewestIsLive
<1>5. SomeIsNewest'
  BY DEF IInv, SomeIsNewest
<1> QED
  BY <1>3, <1>4, <1>5 DEF IInv

\* A Guidance edit: a new version, whose pool is the old one or empty, and no
\* run left live.
LEMMA SweepStep ==
  ASSUME IInv, TypeOK', Sweep, pool' = pool \/ pool' = {},
         UNCHANGED <<frozen, born, counts, exec, results, truth, starting>>
  PROVE  IInv'
<1>1. TypeOK /\ active \in Nat /\ active' = active + 1
  BY DEF IInv, TypeOK, Sweep, Guidances
<1>2. \A r \in Runs : frozen[r].guidance \in Nat /\ frozen[r].guidance <= active
  BY <1>1 DEF IInv, FrozenArePooled, StillPooled, TypeOK, Snapshot, Guidances
<1>3. \A s \in starting : s.snapshot.guidance \in Nat /\ s.snapshot.guidance <= active /\ s.run \in Runs
  BY <1>1 DEF IInv, StartsArePooled, StillPooled, TypeOK, Snapshot, Guidances
<1>4. FrozenArePooled'
  BY <1>1, <1>2 DEF FrozenArePooled, StillPooled
<1>5. /\ \A r \in Swept : status[r] \notin Published \cup {"none"} /\ status'[r] = "failed"
      /\ \A r \in Runs \ Swept : status'[r] = status[r] /\ status'[r] \notin Live
      /\ Swept \in SUBSET Runs
  BY <1>1 DEF Sweep, Swept, Live, TypeOK, Published
<1>6. StartsArePooled'
  <2>1. \A s \in starting : status'[s.run] = "none"
    BY <1>3, <1>5 DEF IInv, StartsArePooled
  <2> QED
    BY <1>1, <1>3, <2>1 DEF StartsArePooled, StillPooled
<1>7. \A r \in Runs : status'[r] # "running"
  BY <1>5 DEF Live
<1> DEFINE S == Swept
<1>8. /\ S \in SUBSET Runs
      /\ \A r \in S : status[r] \notin Published \cup {"none"} /\ status'[r] = "failed"
      /\ \A r \in Runs \ S : status'[r] = status[r]
  BY <1>5
<1> HIDE DEF S
<1> QED
  BY <1>4, <1>6, <1>7, <1>8, EndsStep

LEMMA CrashStep ==
  ASSUME IInv, TypeOK', CrashRestart
  PROVE  IInv'
<1> USE DEF project, record, executor, request
<1> DEFINE S == Interrupted
<1>1. /\ S \in SUBSET Runs
      /\ \A r \in S : status[r] \notin Published \cup {"none"} /\ status'[r] = "failed"
      /\ \A r \in Runs \ S : status'[r] = status[r] /\ status'[r] # "running"
  BY DEF CrashRestart, Interrupted, Live, Published
<1>2. FrozenArePooled' /\ StartsArePooled'
  BY DEF IInv, CrashRestart, FrozenArePooled, StillPooled, StartsArePooled
<1>3. /\ \A r \in Runs : exec'[r] = "none"
      /\ UNCHANGED <<active, frozen, born, counts, truth>>
  BY DEF CrashRestart
<1>4. \A r \in Runs : status'[r] # "running"
  BY <1>1
<1>5. /\ \A r \in S : status[r] \notin Published \cup {"none"} /\ status'[r] = "failed"
      /\ \A r \in Runs \ S : status'[r] = status[r]
      /\ \A r \in Runs : exec'[r] = "none" \/ (exec'[r] = exec[r] /\ results'[r] = results[r])
      /\ \A r \in Runs : status'[r] # "running" \/ active' = active
  BY <1>1, <1>3, <1>4
<1> HIDE DEF S
<1> QED
  BY <1>1, <1>2, <1>3, <1>5, EndsStep

LEMMA RequestStep ==
  ASSUME IInv, TypeOK', NEW r \in Runs,
         StartRead(r) \/ Cancel(r) \/ AutoStart(r) \/ Signal(r)
  PROVE  IInv'
<1> USE DEF project, record, executor, request
<1>0. TypeOK /\ RunIsSound(r)
  BY DEF IInv, RunsAreSound
<1>1. CASE StartRead(r)
  <2>1. PICK kind \in {"gate", "student"} : starting' = {[run |-> r, snapshot |-> Current(kind)]}
    BY <1>1 DEF StartRead
  <2>2. StillPooled(Current(kind)) /\ status[r] = "none"
    BY <1>0, <1>1, CurrentType DEF StartRead
  <2>3. StartsArePooled'
    BY <1>1, <2>1, <2>2 DEF StartRead, StartsArePooled, StillPooled
  <2>4. UNCHANGED <<active, pool, status, frozen, born, counts, exec, results, truth>>
    BY <1>1 DEF StartRead
  <2> QED
    BY <2>3, <2>4 DEF IInv, RunsAreSound, RunIsSound, StagesAgree, RunningIsCurrent,
         TruthIsFrozen, LoadedWhatItFroze, OutcomesAreKnown, MembersAreCounted, FrozenArePooled,
         StillPooled, NewestIsLive, SomeIsNewest
<1>2. CASE Cancel(r)
  <2>1. status'[r] = "canceling" /\ Alone(r)
    BY <1>0, <1>2 DEF Alone, Cancel, TypeOK
  <2>2. status[r] \notin Published \cup {"none"}
    BY <1>2 DEF Cancel, Live, Published
  <2>3. RunIsSound(r)'
    BY <1>0, <1>2, <2>1, <2>2 DEF Cancel, RunIsSound, StagesAgree, RunningIsCurrent, TruthIsFrozen,
         OutcomesAreKnown, MembersAreCounted, Published
  <2> QED
    BY <2>1, <2>2, <2>3, OneRunStep DEF Live
<1>3. CASE AutoStart(r)
  <2> DEFINE s == Current("gate")
  <2>1. s \in Snapshot /\ StillPooled(s) /\ Insert(r, s)
    BY <1>0, <1>3, CurrentType DEF AutoStart
  <2> HIDE DEF s
  <2>2. starting' = {}
    BY <1>3 DEF AutoStart, CheckDue, LoopFree
  <2> QED
    BY <1>3, <2>1, <2>2, InsertStep DEF AutoStart
<1>4. CASE Signal(r)
  BY <1>4, AttemptStep DEF Signal
<1> QED
  BY <1>1, <1>2, <1>3, <1>4

\* What the checks decline and the settings change concerns no run; a label
\* saved only adds to the pool.
LEMMA MutationStep ==
  ASSUME IInv, TypeOK', AutoDecline \/ SaveLabel \/ UpdateSettings \/ UNCHANGED vars
  PROVE  IInv'
<1> USE DEF project, record, executor, request, vars
<1>1. /\ pool \subseteq pool'
      /\ UNCHANGED <<active, status, frozen, born, counts, exec, results, truth, starting>>
  BY DEF AutoDecline, SaveLabel, UpdateSettings
<1>2. FrozenArePooled' /\ StartsArePooled'
  BY <1>1 DEF IInv, FrozenArePooled, StillPooled, StartsArePooled
<1>3. RunsAreSound'
  BY <1>1 DEF IInv, RunsAreSound, RunIsSound, StagesAgree, RunningIsCurrent, TruthIsFrozen,
              LoadedWhatItFroze, OutcomesAreKnown, MembersAreCounted
<1>4. NewestIsLive' /\ SomeIsNewest'
  BY <1>1 DEF IInv, NewestIsLive, SomeIsNewest
<1> QED
  BY <1>2, <1>3, <1>4 DEF IInv

-----------------------------------------------------------------------------
(* The theorems.                                                           *)

\* Whatever runs, is edited, canceled, superseded or crashes.
THEOREM InvariantHolds == Spec => []IInv
<1>1. Init => IInv
  <2> SUFFICES ASSUME Init PROVE IInv
    OBVIOUS
  <2>1. TypeOK
    <3>1. 1 \in Guidances /\ 0 \in 0 .. MaxPasses /\ 0 \in 0 .. MaxCrashes /\ 0 \in 0 .. 1
      BY ExecutionAssumption, BoundsAssumption DEF Guidances
    <3>2. [kind |-> "gate", guidance |-> 1, setting |-> setting, members |-> {}] \in Snapshot
      BY <3>1 DEF Init, Snapshot
    <3>3. /\ status \in [Runs -> {"none", "canceling"} \cup Live \cup Terminal]
          /\ frozen \in [Runs -> Snapshot] /\ born \in [Runs -> Nat]
          /\ counts \in [Runs -> [Counters -> Nat]]
          /\ truth \in [Runs -> [guidance : {0} \cup Guidances, keys : SUBSET Keys]]
      BY <3>2 DEF Init, Zero
    <3>4. /\ exec \in [Runs -> {"none", "dispatched", "claimed", "burst", "retry"}]
          /\ work \in [Runs -> [Keys -> {"idle", "todo", "invoking"}]]
          /\ results \in [Runs -> [Keys -> {"none"} \cup Outcomes]]
          /\ retry \in [Runs -> SUBSET Keys] /\ pass \in [Runs -> 0 .. MaxPasses]
          /\ flags \in [Runs -> SUBSET {"cancel", "rejected"}]
      BY <3>1 DEF Init, Untold
    <3> QED
      BY <3>1, <3>3, <3>4 DEF Init, TypeOK
  <2>2. \A r \in Runs : RunIsSound(r)
    BY DEF Init, RunIsSound, StagesAgree, RunningIsCurrent, TruthIsFrozen, OutcomesAreKnown,
           MembersAreCounted, Published
  <2> QED
    BY <2>1, <2>2 DEF Init, IInv, RunsAreSound, FrozenArePooled, StillPooled, StartsArePooled,
                      NewestIsLive, SomeIsNewest
<1>2. IInv /\ [Next]_vars => IInv'
  <2> SUFFICES ASSUME IInv, [Next]_vars PROVE IInv'
    OBVIOUS
  <2>0. TypeOK'
    BY TypeStep DEF IInv
  <2>1. ASSUME NEW r \in Runs, Executor(r) PROVE IInv'
    BY <2>0, <2>1, ExecutorStep
  <2>2. ASSUME NEW r \in Runs, StartRead(r) \/ Cancel(r) \/ AutoStart(r) \/ Signal(r) PROVE IInv'
    BY <2>0, <2>2, RequestStep
  <2>3. CASE StartInsert
    <3>1. PICK s \in starting : Insert(s.run, s.snapshot)
      BY <2>3 DEF StartInsert
    <3>2. PICK r \in Runs, x \in Snapshot : r = s.run /\ x = s.snapshot
      BY DEF IInv, TypeOK
    <3>3. status[r] = "none" /\ StillPooled(x) /\ Insert(r, x)
      BY <3>1, <3>2 DEF IInv, StartsArePooled
    <3>4. starting' = {} /\ UNCHANGED <<active, pool, counts, results, truth>>
      BY <2>3 DEF StartInsert, project
    <3> QED
      BY <2>0, <3>3, <3>4, InsertStep
  <2>4. CASE EditInPlace \/ EditSemantic
    BY <2>0, <2>4, SweepStep DEF EditInPlace, EditSemantic, executor
  <2>5. CASE CrashRestart
    BY <2>0, <2>5, CrashStep
  <2>6. CASE AutoDecline \/ SaveLabel \/ UpdateSettings \/ UNCHANGED vars
    BY <2>0, <2>6, MutationStep
  <2> QED
    BY <2>1, <2>2, <2>3, <2>4, <2>5, <2>6 DEF Next
<1> QED
  BY <1>1, <1>2, PTL DEF Spec

\* TypeOK: every variable stays in its type, the passes below their maximum.
THEOREM TypeCorrect == Spec => []TypeOK
<1>1. IInv => TypeOK
  BY DEF IInv
<1> QED
  BY <1>1, InvariantHolds, PTL

\* ScoredWhatItFroze: no interleaving of edits with a run's start, claim, load
\* and last UPDATE publishes a run scored against other labels than it froze.
THEOREM ScoredCorrect == Spec => []ScoredWhatItFroze
<1>1. IInv => ScoredWhatItFroze
  BY DEF IInv, RunsAreSound, RunIsSound, TruthIsFrozen, LoadedWhatItFroze, ScoredWhatItFroze
<1> QED
  BY <1>1, InvariantHolds, PTL

\* CountersPartitionPool: a published run counts each member of its pool once,
\* for a pool of any size, any burst and any number of retries.
THEOREM CountersCorrect == Spec => []CountersPartitionPool
<1>1. IInv => CountersPartitionPool
  BY DEF IInv, RunsAreSound, RunIsSound, MembersAreCounted, CountersPartitionPool
<1> QED
  BY <1>1, InvariantHolds, PTL

\* NewestRunWins: no gate-basis run publishes once a newer one exists.
THEOREM NewestCorrect == Spec => NewestRunWins
<1> DEFINE Kept == \A r, q \in Runs :
       frozen[r].kind = "gate" /\ frozen[q].kind = "gate" /\ born[q] > born[r]
         => ~(status[r] \notin Published /\ status'[r] \in Published)
<1>1. IInv /\ [Next]_vars => [Kept]_vars
  <2> SUFFICES ASSUME IInv, Next, NEW r \in Runs, status[r] \notin Published, status'[r] \in Published
               PROVE  status[r] = "running"
    <3>1. ASSUME NEW r \in Runs, NEW q \in Runs, IInv, status[r] = "running",
                 frozen[r].kind = "gate", frozen[q].kind = "gate"
          PROVE  ~(born[q] > born[r])
      <4>1. born[q] <= born[r] /\ born[q] \in Nat /\ born[r] \in Nat
        BY <3>1 DEF IInv, NewestIsLive, Live, TypeOK
      <4> QED
        BY <4>1
    <3> QED
      BY <3>1
  <2> USE DEF project, record, executor, request
  <2>0. TypeOK /\ RunIsSound(r)
    BY DEF IInv, RunsAreSound
  <2>1. ASSUME NEW q \in Runs, Executor(q) PROVE status[r] = "running"
    <3>1. status' # status
      OBVIOUS
    <3>2. CASE Claim(q) \/ LoadRaises(q) \/ StopEarly(q)
      BY <2>0, <3>2 DEF Claim, ClaimedStatus, LoadRaises, StopEarly, Stop, Then, TypeOK, Published
    <3>3. CASE Publish(q)
      <4>1. q = r /\ status'[r] = FinalStatus(r) /\ exec[r] = "retry"
        BY <2>0, <3>3 DEF Publish, PassOver, TypeOK
      <4> QED
        BY <2>0, <4>1 DEF FinalStatus, Then, RunIsSound, StagesAgree, TypeOK, Live, Terminal,
                          Published
    <3>4. CASE Load(q) \/ BurstEnd(q) \/ NextPass(q)
      BY <3>1, <3>4 DEF Load, BurstEnd, NextPass
    <3>5. CASE Attempts(q)
      BY <3>1, <3>5 DEF Attempts, BurstDispatch, BurstSkip, BurstRaise, RetryDispatch, BurstReturn,
                        RetryReturn
    <3> QED
      BY <2>1, <3>2, <3>3, <3>4, <3>5 DEF Executor
  <2>2. ASSUME NEW q \in Runs, StartRead(q) \/ Cancel(q) \/ AutoStart(q) \/ Signal(q)
        PROVE  status[r] = "running"
    BY <2>0, <2>2 DEF StartRead, Cancel, AutoStart, Insert, Signal, TypeOK, Published
  <2>3. CASE StartInsert
    BY <2>3 DEF StartInsert, Insert, Published
  <2>4. CASE EditInPlace \/ EditSemantic
    BY <2>4 DEF EditInPlace, EditSemantic, Sweep, Published
  <2>5. CASE CrashRestart
    BY <2>5 DEF CrashRestart, Published
  <2>6. CASE AutoDecline \/ SaveLabel \/ UpdateSettings
    BY <2>6 DEF AutoDecline, SaveLabel, UpdateSettings
  <2> QED
    BY <2>1, <2>2, <2>3, <2>4, <2>5, <2>6 DEF Next
<1>2. Spec => [][Kept]_vars
  BY <1>1, InvariantHolds, PTL DEF Spec
<1> QED
  BY <1>2 DEF NewestRunWins
=============================================================================
