------------------------- MODULE ProjectData_proofs -------------------------
(***************************************************************************)
(* Proofs about parts of a project that do not meet: who may see which     *)
(* verified example, for any examples, fractions, selection, edits and     *)
(* crashes; the requests to a hosted model, for any callers, ceiling,      *)
(* window, deadlines and answers; and the two drains of what is ingested,  *)
(* for any images, providers, archivings and crashes.                      *)
(***************************************************************************)
EXTENDS DataSplit, HostedCalls, IngestDrains, SequenceTheorems, FiniteSetTheorems, WellFoundedInduction, TLAPS

-----------------------------------------------------------------------------
(* Who may see which verified example.                                     *)


Labels == {"none", "auto", "Accept", "Edit"}
Evals == [step : {"off", "live"}, gid : Nat, frozen : SUBSET Examples, left : SUBSET Examples,
          shown : SUBSET Examples]
Suites == [step : {"off", "training", "evaluation", "upload", "committed", "failed"},
           task : BOOLEAN, gid : Nat, tier : {"verified_only", "combined"},
           train : SUBSET Examples, test : SUBSET Examples]
Builds == [status : {"none", "running", "completed", "failed"}, task : BOOLEAN,
           files : {"none", "some", "all"}]

SplitTypeOK ==
  /\ guidance \in Nat /\ wiped \in Nat
  /\ fraction \in Fractions
  /\ label \in [Examples -> Labels] /\ pool \subseteq Examples
  /\ frozenPools \subseteq [gid : Nat, members : SUBSET Examples]
  /\ eval \in Evals /\ datasets \in Suites /\ build \in Builds
  /\ splitCrashes \in Nat

-----------------------------------------------------------------------------
(* The invariant.                                                          *)

\* A member of the Test Pool has a label that somebody verified.
PoolIsVerified == pool \subseteq Verified

\* What was frozen since the labels were last wiped is still in the pool.
FrozenStayInPool ==
  \A p \in frozenPools : p.gid <= guidance /\ (p.gid >= wiped => p.members \subseteq pool)

\* A live evaluation under the active Guidance scores members of the pool, and
\* no exemplar was one of those it scores.
EvalIsHeldOut ==
  /\ eval.gid <= guidance
  /\ eval.gid = guidance => eval.frozen \subseteq pool
  /\ eval.frozen \cap eval.shown = {}

\* The files of an export are whole exactly if it completed.
FilesMatchStatus ==
  /\ build.status = "completed" => build.files = "all"
  /\ build.status = "failed" => build.files = "none"
  /\ build.task => build.status = "running"

\* The wipe was made by an edit of the past.
WipedBefore == wiped <= guidance

SplitInv ==
  /\ SplitTypeOK /\ PoolIsVerified /\ FrozenStayInPool /\ EvalIsHeldOut
  /\ FilesMatchStatus /\ WipedBefore

-----------------------------------------------------------------------------
(* The pool.                                                               *)

\* Routing keeps the members and takes new ones from the verified.
LEMMA RoutingTakesVerified ==
  ASSUME fraction \in Fractions, pool \subseteq Examples, NEW verified \in SUBSET Examples,
         NEW k \in verified
  PROVE  Routed(k, verified) \subseteq pool \cup verified /\ pool \subseteq Routed(k, verified)
<1> DEFINE target == Target(verified)
           direct == IF Cardinality(pool) < target THEN pool \cup {k} ELSE pool
           cands == verified \ (direct \cup {k})
           missing == target - Cardinality(direct)
<1>1. direct \subseteq pool \cup verified /\ pool \subseteq direct /\ direct \subseteq Examples
  OBVIOUS
<1>2. IsFiniteSet(verified) /\ IsFiniteSet(direct) /\ IsFiniteSet(cands)
  BY <1>1, SplitAssumption, FS_Subset
<1>3. /\ Cardinality(verified) \in Nat /\ Cardinality(direct) \in Nat /\ Cardinality(cands) \in Nat
      /\ Cardinality(Examples) \in Nat /\ Cardinality(cands) <= Cardinality(Examples)
  <2>1. IsFiniteSet(Examples) /\ cands \in SUBSET Examples
    BY SplitAssumption
  <2> QED
    BY <1>2, <2>1, FS_CardinalityType, FS_Subset
<1>4. target \in Int
  <2>1. fraction[1] \in Nat /\ fraction[2] \in Nat \ {0}
    BY SplitAssumption
  <2> DEFINE n == Cardinality(verified)
  <2>2. n \in Nat
    BY <1>3
  <2> HIDE DEF n
  <2>3. n * fraction[1] \in Nat
    BY <2>1, <2>2
  <2>4. (n * fraction[1]) \div fraction[2] \in Int
    BY <2>1, <2>3
  <2> QED
    BY <2>4 DEF n, Target
<1>5. cands \in SUBSET Examples /\ direct \in SUBSET Examples /\ cands \subseteq verified
  BY <1>1
<1>r. Routed(k, verified) = direct \cup Promoted(cands, direct, missing)
  BY DEF Routed
<1> HIDE DEF target, direct
<1>6. missing \in Int
  BY <1>3, <1>4
<1> HIDE DEF cands, missing
<1>7. Promoted(cands, direct, missing) \subseteq cands
  <2>1. CASE missing <= 0
    BY <2>1 DEF Promoted
  <2>2. CASE ~ (missing <= 0)
    <3> DEFINE n == IF missing < Cardinality(cands) THEN missing ELSE Cardinality(cands)
    <3>1. n \in 0 .. Cardinality(Examples)
      BY <2>2, <1>3, <1>6
    <3> HIDE DEF n
    <3>2. Select(cands, direct, n) \subseteq cands
      BY <3>1, <1>5, SplitAssumption
    <3> QED
      BY <2>2, <3>2 DEF Promoted, n
  <2> QED
    BY <2>1, <2>2
<1> QED
  BY <1>1, <1>5, <1>7, <1>r

-----------------------------------------------------------------------------
(* The invariant holds at the start, and each step keeps it.               *)

LEMMA SplitInitHolds == SplitInit => SplitInv
BY DEF SplitInit, SplitInv, SplitTypeOK, Labels, Evals, Suites, Builds, NoEval, NoDatasets, NoBuild,
   PoolIsVerified, FrozenStayInPool, EvalIsHeldOut, FilesMatchStatus, WipedBefore

\* A save adds to the pool what is verified, itself perhaps among it.
LEMMA SaveKeeps ==
  ASSUME SplitInv, NEW k \in Examples, NEW outcome \in {"Accept", "Edit"}, SaveLabel(k, outcome)
  PROVE  SplitInv'
<1>1. label' \in [Examples -> Labels] /\ Verified' = Verified \cup {k}
  BY DEF SplitInv, SplitTypeOK, SaveLabel, Verified, Labels
<1>2. /\ pool' = Routed(k, Verified \cup {k})
      /\ UNCHANGED <<guidance, fraction, wiped, evaluations, exports, splitCrashes>>
  BY DEF SaveLabel
<1> DEFINE V == Verified \cup {k}
<1>3. V \in SUBSET Examples /\ k \in V /\ pool \subseteq V
  BY DEF Verified, SplitInv, PoolIsVerified
<1> HIDE DEF V
<1>4. Routed(k, V) \subseteq pool \cup V /\ pool \subseteq Routed(k, V)
  BY <1>3, RoutingTakesVerified DEF SplitInv, SplitTypeOK
<1>5. pool \subseteq pool' /\ pool' \subseteq Verified' /\ pool' \subseteq Examples
  BY <1>1, <1>2, <1>3, <1>4 DEF V
<1>6. SplitTypeOK'
  BY <1>1, <1>2, <1>5 DEF SplitInv, SplitTypeOK, evaluations, exports
<1> QED
  BY <1>2, <1>5, <1>6 DEF SplitInv, PoolIsVerified, FrozenStayInPool, EvalIsHeldOut,
     FilesMatchStatus, WipedBefore, evaluations, exports

LEMMA LabelsKeep ==
  ASSUME SplitInv, LabelNext
  PROVE  SplitInv'
<1>1. ASSUME NEW k \in Examples, NEW outcome \in {"Accept", "Edit"}, SaveLabel(k, outcome)
      PROVE  SplitInv'
  BY <1>1, SaveKeeps
<1>2. ASSUME NEW k \in Examples, AutoLabel(k) PROVE SplitInv'
  <2>1. label' \in [Examples -> Labels] /\ Verified' = Verified
    BY <1>2 DEF SplitInv, SplitTypeOK, AutoLabel, Verified, Labels
  <2> QED
    BY <1>2, <2>1 DEF AutoLabel, SplitInv, SplitTypeOK, PoolIsVerified, FrozenStayInPool,
       EvalIsHeldOut, FilesMatchStatus, WipedBefore, evaluations, exports
<1>3. ASSUME NEW f \in Fractions, SetFraction(f) PROVE SplitInv'
  BY <1>3 DEF SetFraction, SplitInv, SplitTypeOK, PoolIsVerified, FrozenStayInPool, Verified,
     EvalIsHeldOut, FilesMatchStatus, WipedBefore, evaluations, exports
<1>4. CASE Edit(TRUE)
  <2>1. /\ guidance' = guidance + 1 /\ wiped' = guidance' /\ pool' = {}
        /\ label' = [k \in Examples |-> "none"]
        /\ UNCHANGED <<fraction, evaluations, exports, splitCrashes>>
    BY <1>4 DEF Edit
  <2>2. SplitTypeOK'
    BY <2>1 DEF SplitInv, SplitTypeOK, Labels, evaluations, exports
  <2>3. FrozenStayInPool' /\ EvalIsHeldOut'
    <3>1. /\ guidance \in Nat /\ eval.gid \in Nat
          /\ \A p \in frozenPools : p.gid \in Nat /\ p.gid <= guidance
      BY DEF SplitInv, SplitTypeOK, Evals, FrozenStayInPool
    <3> QED
      BY <3>1, <2>1 DEF SplitInv, FrozenStayInPool, EvalIsHeldOut, evaluations
  <2> QED
    BY <2>1, <2>2, <2>3 DEF SplitInv, SplitTypeOK, PoolIsVerified, FilesMatchStatus, WipedBefore, exports
<1>5. CASE Edit(FALSE)
  <2>1. guidance' = guidance + 1
        /\ UNCHANGED <<label, pool, wiped, fraction, evaluations, exports, splitCrashes>>
    BY <1>5 DEF Edit
  <2>2. /\ guidance \in Nat /\ eval.gid \in Nat /\ wiped \in Nat
        /\ \A p \in frozenPools : p.gid \in Nat /\ p.gid <= guidance
    BY DEF SplitInv, SplitTypeOK, Evals, FrozenStayInPool
  <2>3. SplitTypeOK' /\ PoolIsVerified' /\ FilesMatchStatus'
    BY <2>1 DEF SplitInv, SplitTypeOK, PoolIsVerified, Verified, FilesMatchStatus, evaluations, exports
  <2>4. FrozenStayInPool' /\ EvalIsHeldOut' /\ WipedBefore'
    BY <2>1, <2>2 DEF SplitInv, FrozenStayInPool, EvalIsHeldOut, WipedBefore, evaluations
  <2> QED
    BY <2>3, <2>4 DEF SplitInv
<1> QED
  BY <1>1, <1>2, <1>3, <1>4, <1>5 DEF LabelNext

\* An evaluation freezes the pool; its exemplars are of the rest.
LEMMA EvaluationsKeep ==
  ASSUME SplitInv, EvalNext
  PROVE  SplitInv'
<1>1. CASE EvalStart
  <2>1. frozenPools' \subseteq [gid : Nat, members : SUBSET Examples] /\ eval' \in Evals
    BY <1>1 DEF EvalStart, SplitInv, SplitTypeOK, Evals
  <2>2. FrozenStayInPool'
    BY <1>1 DEF EvalStart, SplitInv, SplitTypeOK, FrozenStayInPool, labels
  <2>3. EvalIsHeldOut'
    BY <1>1 DEF EvalStart, SplitInv, SplitTypeOK, EvalIsHeldOut, labels
  <2> QED
    BY <1>1, <2>1, <2>2, <2>3 DEF EvalStart, SplitInv, SplitTypeOK, PoolIsVerified, Verified,
       FilesMatchStatus, WipedBefore, labels, exports
<1>2. ASSUME NEW k \in Examples, EvalAsk(k) PROVE SplitInv'
  <2>1. IclCandidates(eval.gid) \subseteq Examples
    BY DEF IclCandidates
  <2>2. eval.frozen \cap IclCandidates(eval.gid) = {}
    BY DEF IclCandidates, SplitInv, EvalIsHeldOut
  <2> DEFINE C == IclCandidates(eval.gid)
  <2>3. eval' = [eval EXCEPT !.left = @ \ {k}, !.shown = @ \cup C]
        /\ UNCHANGED <<labels, frozenPools, exports, splitCrashes>>
    BY <1>2 DEF EvalAsk
  <2> HIDE DEF C
  <2>4. /\ eval' \in Evals /\ eval'.gid = eval.gid /\ eval'.frozen = eval.frozen
        /\ eval'.shown = eval.shown \cup C
    BY <2>1, <2>3 DEF SplitInv, SplitTypeOK, Evals, C
  <2>5. eval.frozen \cap C = {}
    BY <2>2 DEF C
  <2> QED
    BY <2>3, <2>4, <2>5 DEF SplitInv, SplitTypeOK, PoolIsVerified, Verified, FrozenStayInPool,
       EvalIsHeldOut, FilesMatchStatus, WipedBefore, labels, exports
<1>3. CASE EvalEnd
  <2>1. NoEval \in Evals /\ NoEval.frozen = {} /\ NoEval.gid = 0
    BY DEF NoEval, Evals
  <2> QED
    BY <1>3, <2>1 DEF EvalEnd, SplitInv, SplitTypeOK, PoolIsVerified, Verified, FrozenStayInPool,
       EvalIsHeldOut, FilesMatchStatus, WipedBefore, labels, exports
<1> QED
  BY <1>1, <1>2, <1>3 DEF EvalNext

\* A step that leaves the labels and the evaluations alone.
LEMMA ExportsKeep ==
  ASSUME SplitInv, UNCHANGED <<labels, evaluations>>, datasets' \in Suites, build' \in Builds,
         FilesMatchStatus', splitCrashes' \in Nat
  PROVE  SplitInv'
BY DEF SplitInv, SplitTypeOK, PoolIsVerified, Verified, FrozenStayInPool, EvalIsHeldOut,
   WipedBefore, labels, evaluations

LEMMA SuitesKeep ==
  ASSUME SplitInv, SuiteNext
  PROVE  SplitInv'
<1> USE DEF Suites
<1>1. UNCHANGED <<labels, evaluations, build, splitCrashes>>
  BY DEF SuiteNext, SuiteStart, SuiteTrain, SuiteTest, SuiteCommit, SuiteResume
<1>t. guidance \in Nat /\ datasets \in Suites /\ build \in Builds /\ splitCrashes \in Nat
  BY DEF SplitInv, SplitTypeOK
<1>s. \A intent \in {"training", "evaluation"}, tier \in {"verified_only", "combined"}, gid \in Nat :
        SelectLabels(intent, tier, gid) \subseteq Examples
  BY DEF SelectLabels, Verified, SplitInv, SplitTypeOK
<1>2. datasets' \in Suites
  <2>1. ASSUME NEW tier \in {"verified_only", "combined"}, SuiteStart(tier) PROVE datasets' \in Suites
    BY <2>1, <1>t DEF SuiteStart, NoDatasets
  <2>2. CASE SuiteTrain
    <3> DEFINE keys == SelectLabels("training", datasets.tier, datasets.gid)
    <3>1. keys \subseteq Examples
      BY <1>s, <1>t
    <3>2. datasets' = IF keys = {} THEN [datasets EXCEPT !.step = "failed", !.task = FALSE]
                      ELSE [datasets EXCEPT !.step = "evaluation", !.train = keys]
      BY <2>2 DEF SuiteTrain
    <3> HIDE DEF keys
    <3> QED
      BY <3>1, <3>2, <1>t
  <2>3. CASE SuiteTest
    <3> DEFINE keys == SelectLabels("evaluation", "verified_only", datasets.gid)
    <3>1. keys \subseteq Examples
      BY <1>s, <1>t
    <3>2. \/ datasets' = [datasets EXCEPT !.step = "failed", !.task = FALSE]
          \/ datasets' = [datasets EXCEPT !.step = "upload", !.test = keys]
      BY <2>3 DEF SuiteTest
    <3> HIDE DEF keys
    <3> QED
      BY <3>1, <3>2, <1>t
  <2>4. CASE SuiteCommit
    BY <2>4, <1>t DEF SuiteCommit
  <2>5. CASE SuiteResume
    BY <2>5, <1>t DEF SuiteResume
  <2> QED
    BY <2>1, <2>2, <2>3, <2>4, <2>5 DEF SuiteNext
<1>3. FilesMatchStatus'
  BY <1>1 DEF SplitInv, FilesMatchStatus
<1> QED
  BY <1>1, <1>2, <1>3, <1>t, ExportsKeep

LEMMA BuildsKeep ==
  ASSUME SplitInv, BuildNext
  PROVE  SplitInv'
<1>1. UNCHANGED <<labels, evaluations, datasets, splitCrashes>>
  BY DEF BuildNext, ExportStart, ExportWrite, ExportDone, ExportFail
<1>b. build \in Builds /\ FilesMatchStatus
  BY DEF SplitInv, SplitTypeOK
<1>2. build' \in Builds /\ FilesMatchStatus'
  <2>1. CASE ExportStart
    BY <2>1, <1>b DEF ExportStart, FilesMatchStatus, Builds
  <2>2. CASE ExportWrite
    <3>1. PICK files \in {"some", "all"} : build' = [build EXCEPT !.files = files]
      <4>1. CASE build.files = "none"
        BY <2>2, <4>1 DEF ExportWrite
      <4>2. CASE build.files # "none"
        BY <2>2, <4>2 DEF ExportWrite
      <4> QED
        BY <4>1, <4>2
    <3>2. build.task /\ build.status = "running"
      BY <2>2, <1>b DEF ExportWrite, FilesMatchStatus
    <3> QED
      BY <3>1, <3>2, <1>b DEF FilesMatchStatus, Builds
  <2>3. CASE ExportDone
    BY <2>3, <1>b DEF ExportDone, FilesMatchStatus, Builds
  <2>4. CASE ExportFail
    BY <2>4, <1>b DEF ExportFail, FilesMatchStatus, Builds
  <2> QED
    BY <2>1, <2>2, <2>3, <2>4 DEF BuildNext
<1>4. datasets \in Suites /\ splitCrashes \in Nat
  BY DEF SplitInv, SplitTypeOK
<1> QED
  BY <1>1, <1>2, <1>4, ExportsKeep

LEMMA CrashKeeps ==
  ASSUME SplitInv, SplitCrash
  PROVE  SplitInv'
<1>1. /\ UNCHANGED <<labels, frozenPools>> /\ eval' = NoEval
      /\ datasets' = CrashedSuite /\ build' = RecoveredBuild /\ splitCrashes' = splitCrashes + 1
  BY DEF SplitCrash
<1>2. CrashedSuite \in Suites
  BY DEF CrashedSuite, Suites, SplitInv, SplitTypeOK
<1>3. /\ RecoveredBuild \in Builds
      /\ RecoveredBuild.status = "completed" => RecoveredBuild.files = "all"
      /\ RecoveredBuild.status = "failed" => RecoveredBuild.files = "none"
      /\ RecoveredBuild.task => RecoveredBuild.status = "running"
  BY DEF RecoveredBuild, Builds, SplitInv, SplitTypeOK, FilesMatchStatus
<1>4. NoEval \in Evals /\ NoEval.frozen = {} /\ NoEval.gid = 0
  BY DEF NoEval, Evals
<1>5. SplitTypeOK'
  BY <1>1, <1>2, <1>3, <1>4 DEF SplitInv, SplitTypeOK, labels
<1>6. FilesMatchStatus'
  BY <1>1, <1>3 DEF FilesMatchStatus
<1> QED
  BY <1>1, <1>4, <1>5, <1>6 DEF SplitInv, SplitTypeOK, PoolIsVerified, Verified, FrozenStayInPool,
     EvalIsHeldOut, WipedBefore, labels

LEMMA SplitStepKeeps ==
  ASSUME SplitInv, [SplitNext]_splitVars
  PROVE  SplitInv'
<1>1. CASE UNCHANGED splitVars
  BY <1>1 DEF splitVars, labels, evaluations, exports, SplitInv, SplitTypeOK, PoolIsVerified, Verified,
     FrozenStayInPool, EvalIsHeldOut, FilesMatchStatus, WipedBefore
<1> QED
  BY <1>1, LabelsKeep, EvaluationsKeep, SuitesKeep, BuildsKeep, CrashKeeps DEF SplitNext

-----------------------------------------------------------------------------
(* The theorems.                                                           *)

\* The project's examples stay in their roles, whatever is saved, edited,
\* evaluated and exported meanwhile.
THEOREM SplitHolds == SplitSpec => []SplitInv
<1>1. SplitInit => SplitInv
  BY SplitInitHolds
<1>2. SplitInv /\ [SplitNext]_splitVars => SplitInv'
  BY SplitStepKeeps
<1> QED
  BY <1>1, <1>2, PTL DEF SplitSpec

\* Only verified examples are in the Test Pool (route_pool, save_label), and the
\* rest has its types.
THEOREM PoolCorrect == SplitSpec => [](SplitTypeOK /\ PoolIsVerified)
<1>1. SplitInv => SplitTypeOK /\ PoolIsVerified
  BY DEF SplitInv
<1> QED
  BY <1>1, SplitHolds, PTL

\* What an evaluation scores is never among its exemplars nor, while its labels
\* live, in training data (query_icl_candidates, _select_labels).
THEOREM HeldOutCorrect == SplitSpec => []EvaluatedStaysHeldOut
<1>1. SplitInv => EvaluatedStaysHeldOut
  BY DEF SplitInv, SplitTypeOK, EvaluatedStaysHeldOut, EvalIsHeldOut, FrozenStayInPool,
     PoolIsVerified, Verified, SelectLabels
<1> QED
  BY <1>1, SplitHolds, PTL

\* A completed export has its files, and a failed one none, after a crash too
\* (_execute_dataset_export, recover_dataset_exports): the safety half of
\* ExportsSettle.
THEOREM FilesCorrect == SplitSpec => []FilesMatchStatus
<1>1. SplitInv => FilesMatchStatus
  BY DEF SplitInv
<1> QED
  BY <1>1, SplitHolds, PTL

-----------------------------------------------------------------------------
(* Requests to a hosted model.                                             *)


Phases == {"none", "loop", "ceiling", "waiting", "pacing", "sent", "backoff", "done"}
Results == {"none", "ok", "error", "timeout", "exhausted", "canceled"}
Calls == [phase : Phases, deadline : Nat, attempts : Nat, wake : Nat, result : Results]

HostedTypeOK ==
  /\ now \in Nat /\ interval \in Nat /\ lastCall \in Nat
  /\ tokens \in Seq(Nat) /\ passed \in Seq(Nat)
  /\ holder \in Callers \cup {Nobody}
  /\ call \in [Callers -> Calls]

-----------------------------------------------------------------------------
(* The invariant.                                                          *)

\* What the limiter remembers is the end of what it let through; what it has
\* forgotten is a whole window old.
Forgotten == Len(passed) - Len(tokens)
MemoryIsTheEnd ==
  /\ Forgotten \in Nat
  /\ \A i \in 1 .. Len(tokens) : tokens[i] = passed[Forgotten + i]
  /\ \A i \in 1 .. Forgotten : passed[i] + Window <= now

\* Time goes on.
PassedInOrder ==
  /\ \A i \in 1 .. Len(passed) : passed[i] <= now
  /\ \A i, j \in 1 .. Len(passed) : i <= j => passed[i] <= passed[j]

\* The limiter never remembers more than the ceiling.
MemoryFits == Len(tokens) <= Rpm

\* Who sleeps in the limiter holds its lock and waits for the oldest of a full
\* window.
SleeperHoldsLock ==
  \A c \in Callers : Phase(c, "waiting") =>
    holder = c /\ Len(tokens) = Rpm /\ call[c].wake = tokens[1] + Window

\* Rpm requests later a whole window has gone by.
PassedAreSpaced ==
  \A i \in 1 .. Len(passed) : i + Rpm <= Len(passed) => passed[i] + Window <= passed[i + Rpm]

HostedInv ==
  /\ HostedTypeOK /\ MemoryIsTheEnd /\ PassedInOrder /\ MemoryFits
  /\ SleeperHoldsLock /\ PassedAreSpaced

-----------------------------------------------------------------------------
(* The memory of the limiter.                                              *)

LEMMA Smallest ==
  ASSUME NEW T, T \subseteq Nat, T # {}
  PROVE  \E x \in T : \A y \in T : x <= y
<1> DEFINE R == {ss \in Nat \X Nat : ss[1] < ss[2]}
<1>1. IsWellFoundedOn(R, Nat)
  BY NatLessThanWellFounded DEF OpToRel
<1>2. \A x, y \in Nat : x < y => <<x, y>> \in R
  OBVIOUS
<1> HIDE DEF R
<1>3. PICK x \in T : \A y \in T : ~ (<<y, x>> \in R)
  BY <1>1, WFMin
<1>4. ASSUME NEW y \in T PROVE x <= y
  <2>1. x \in Nat /\ y \in Nat /\ ~ (y < x)
    BY <1>2, <1>3
  <2> QED
    BY <2>1
<1> QED
  BY <1>4

\* What goes from the head is old, and what is then the head is not.
LEMMA HeadGoes ==
  ASSUME now \in Nat, NEW times \in Seq(Nat)
  PROVE  \E n \in 0 .. Len(times) :
           /\ InWindow(times) \in Seq(Nat)
           /\ Len(InWindow(times)) = Len(times) - n
           /\ \A i \in 1 .. Len(times) - n : InWindow(times)[i] = times[n + i]
           /\ \A i \in 1 .. n : times[i] + Window <= now
           /\ n = Len(times) \/ times[n + 1] + Window > now
<1> DEFINE stays(n) == n = Len(times) + 1 \/ times[n] > now - Window
           leads(n) == stays(n) /\ \A m \in 1 .. n - 1 : ~ stays(m)
           S == {n \in 1 .. Len(times) + 1 : stays(n)}
<1>1. Len(times) \in Nat /\ Window \in Nat /\ \A i \in 1 .. Len(times) : times[i] \in Nat
  BY HostedAssumption
<1>2. \E n \in 1 .. Len(times) + 1 : leads(n)
  <2>1. Len(times) + 1 \in S /\ S \subseteq Nat
    BY <1>1
  <2>2. PICK x \in S : \A y \in S : x <= y
    <3> HIDE DEF S
    <3> QED
      BY <2>1, Smallest
  <2>3. x \in 1 .. Len(times) + 1 /\ stays(x)
    BY <2>2
  <2>4. ASSUME NEW m \in 1 .. x - 1, stays(m) PROVE FALSE
    <3>1. m \in 1 .. Len(times) + 1 /\ m < x
      BY <2>3, <1>1
    <3>2. m \in S
      BY <3>1, <2>4
    <3> QED
      BY <3>1, <3>2, <2>2, <2>3, <1>1
  <2> QED
    BY <2>3, <2>4
<1> DEFINE first == CHOOSE n \in 1 .. Len(times) + 1 : leads(n)
<1>3. first \in 1 .. Len(times) + 1 /\ leads(first)
  BY <1>2
<1>4. InWindow(times) = SubSeq(times, first, Len(times))
  BY DEF InWindow
<1> HIDE DEF first
<1> DEFINE n == first - 1
<1>5. n \in 0 .. Len(times)
  BY <1>1, <1>3
<1>6. /\ InWindow(times) \in Seq(Nat)
      /\ Len(InWindow(times)) = Len(times) - n
      /\ \A i \in 1 .. Len(times) - n : InWindow(times)[i] = times[n + i]
  <2>1. first \in 1 .. Len(times) + 1 /\ Len(times) \in first - 1 .. Len(times)
    BY <1>1, <1>3
  <2>2. CASE first = Len(times) + 1
    <3>1. SubSeq(times, first, Len(times)) = <<>>
      BY <2>2, <1>1, SubSeqProperties
    <3> QED
      BY <3>1, <1>4, <2>2, <1>1
  <2>3. CASE first <= Len(times)
    <3>1. /\ SubSeq(times, first, Len(times)) \in Seq(Nat)
          /\ Len(SubSeq(times, first, Len(times))) = Len(times) - first + 1
          /\ \A i \in 1 .. Len(times) - first + 1 :
               SubSeq(times, first, Len(times))[i] = times[first + i - 1]
      BY <2>1, <2>3, <1>1, SubSeqProperties
    <3> QED
      BY <3>1, <1>4, <1>1, <1>3
  <2> QED
    BY <2>2, <2>3, <1>3, <1>1
<1>7. \A i \in 1 .. n : times[i] + Window <= now
  <2> TAKE i \in 1 .. n
  <2>1. ~ stays(i) /\ i \in 1 .. Len(times)
    BY <1>1, <1>3
  <2> QED
    BY <2>1, <1>1
<1>8. n = Len(times) \/ times[n + 1] + Window > now
  BY <1>1, <1>3
<1> HIDE DEF n
<1> QED
  BY <1>5, <1>6, <1>7, <1>8

\* What the invariant says of the memory.
MemoryIsSound ==
  /\ now \in Nat /\ tokens \in Seq(Nat) /\ passed \in Seq(Nat)
  /\ MemoryIsTheEnd /\ PassedInOrder /\ MemoryFits /\ PassedAreSpaced

LEMMA TimeKeepsMemory ==
  ASSUME MemoryIsSound, now' \in Nat, now' >= now, UNCHANGED <<tokens, passed>>
  PROVE  MemoryIsSound'
<1>1. Window \in Nat /\ Rpm \in Nat
  BY HostedAssumption
<1>2. Forgotten' = Forgotten
  BY DEF Forgotten
<1>3. /\ \A i \in 1 .. Len(passed) : passed[i] \in Nat
      /\ Len(passed) \in Nat /\ Len(tokens) \in Nat /\ Forgotten <= Len(passed)
  BY DEF MemoryIsSound, Forgotten
<1>4. MemoryIsTheEnd'
  BY <1>1, <1>2, <1>3 DEF MemoryIsSound, MemoryIsTheEnd
<1>5. PassedInOrder' /\ MemoryFits' /\ PassedAreSpaced'
  BY <1>1, <1>3 DEF MemoryIsSound, PassedInOrder, MemoryFits, PassedAreSpaced
<1> QED
  BY <1>4, <1>5 DEF MemoryIsSound

\* The window is the end of what was let through, and it has room once its
\* oldest has left.
LEMMA WindowIsTheEnd ==
  ASSUME MemoryIsSound, NEW kept, kept = InWindow(tokens)
  PROVE  /\ kept \in Seq(Nat) /\ Len(kept) <= Rpm
         /\ Len(passed) - Len(kept) \in Nat
         /\ \A i \in 1 .. Len(kept) : kept[i] = passed[Len(passed) - Len(kept) + i]
         /\ \A i \in 1 .. Len(passed) - Len(kept) : passed[i] + Window <= now
         /\ Len(tokens) = Rpm /\ tokens[1] + Window <= now => Len(kept) < Rpm
<1>1. Window \in Nat /\ Rpm \in Nat /\ Rpm > 0
  BY HostedAssumption
<1>2. PICK n \in 0 .. Len(tokens) :
           /\ InWindow(tokens) \in Seq(Nat)
           /\ Len(InWindow(tokens)) = Len(tokens) - n
           /\ \A i \in 1 .. Len(tokens) - n : InWindow(tokens)[i] = tokens[n + i]
           /\ \A i \in 1 .. n : tokens[i] + Window <= now
           /\ n = Len(tokens) \/ tokens[n + 1] + Window > now
  BY HeadGoes DEF MemoryIsSound
<1>3. /\ kept \in Seq(Nat) /\ Len(kept) = Len(tokens) - n
      /\ \A i \in 1 .. Len(tokens) - n : kept[i] = tokens[n + i]
  BY <1>2
<1>4. /\ Len(passed) \in Nat /\ Len(tokens) \in Nat /\ n \in Nat /\ n <= Len(tokens)
      /\ Forgotten \in Nat /\ Forgotten = Len(passed) - Len(tokens) /\ Len(tokens) <= Rpm
  BY <1>2 DEF MemoryIsSound, MemoryIsTheEnd, Forgotten, MemoryFits
<1> DEFINE f == Len(passed) - Len(kept)
<1>5. f = Forgotten + n
  BY <1>3, <1>4
<1> HIDE DEF f
<1>6. \A i \in 1 .. Len(kept) : kept[i] = passed[f + i]
  <2> TAKE i \in 1 .. Len(kept)
  <2>1. i \in 1 .. Len(tokens) - n /\ n + i \in 1 .. Len(tokens)
    BY <1>3, <1>4
  <2>2. kept[i] = tokens[n + i] /\ tokens[n + i] = passed[Forgotten + (n + i)]
    BY <2>1, <1>3 DEF MemoryIsSound, MemoryIsTheEnd
  <2>3. Forgotten + (n + i) = f + i
    BY <1>4, <1>5, <2>1
  <2> QED
    BY <2>2, <2>3
<1>7. \A i \in 1 .. f : passed[i] + Window <= now
  <2> TAKE i \in 1 .. f
  <2>1. CASE i \in 1 .. Forgotten
    BY <2>1 DEF MemoryIsSound, MemoryIsTheEnd
  <2>2. CASE i \notin 1 .. Forgotten
    <3>1. i - Forgotten \in 1 .. n /\ i - Forgotten \in 1 .. Len(tokens)
          /\ Forgotten + (i - Forgotten) = i
      BY <2>2, <1>4, <1>5
    <3>2. tokens[i - Forgotten] = passed[Forgotten + (i - Forgotten)]
      BY <3>1 DEF MemoryIsSound, MemoryIsTheEnd
    <3> QED
      BY <3>1, <3>2, <1>2
  <2> QED
    BY <2>1, <2>2
<1>8. Len(tokens) = Rpm /\ tokens[1] + Window <= now => Len(kept) < Rpm
  <2> SUFFICES ASSUME Len(tokens) = Rpm, tokens[1] + Window <= now PROVE n > 0
    BY <1>1, <1>3, <1>4
  <2>1. CASE n = 0
    <3>1. tokens[1] + Window > now
      BY <2>1, <1>1, <1>2
    <3>2. tokens[1] \in Nat /\ now \in Nat
      BY <1>1 DEF MemoryIsSound
    <3> QED
      BY <3>1, <3>2, <1>1
  <2> QED
    BY <2>1, <1>4
<1>9. f \in Nat /\ Len(kept) <= Rpm
  BY <1>1, <1>3, <1>4, <1>5
<1> QED
  BY <1>3, <1>6, <1>7, <1>8, <1>9 DEF f

LEMMA PruningKeepsMemory ==
  ASSUME MemoryIsSound, tokens' = InWindow(tokens), UNCHANGED <<now, passed>>
  PROVE  MemoryIsSound'
<1>1. /\ tokens' \in Seq(Nat) /\ Len(tokens') <= Rpm
      /\ Len(passed) - Len(tokens') \in Nat
      /\ \A i \in 1 .. Len(tokens') : tokens'[i] = passed[Len(passed) - Len(tokens') + i]
      /\ \A i \in 1 .. Len(passed) - Len(tokens') : passed[i] + Window <= now
  BY WindowIsTheEnd
<1>2. MemoryIsTheEnd' /\ MemoryFits'
  BY <1>1 DEF MemoryIsTheEnd, MemoryFits, Forgotten
<1>3. PassedInOrder' /\ PassedAreSpaced'
  BY DEF MemoryIsSound, PassedInOrder, PassedAreSpaced
<1> QED
  BY <1>1, <1>2, <1>3 DEF MemoryIsSound

\* One more is let through as long as the window has room: whoever came Rpm
\* requests before it has been forgotten.
LEMMA PassingKeepsMemory ==
  ASSUME MemoryIsSound, NEW kept \in Seq(Nat), Len(kept) < Rpm,
         Len(passed) - Len(kept) \in Nat,
         \A i \in 1 .. Len(kept) : kept[i] = passed[Len(passed) - Len(kept) + i],
         \A i \in 1 .. Len(passed) - Len(kept) : passed[i] + Window <= now,
         Passes(kept), now' = now
  PROVE  MemoryIsSound'
<1> DEFINE L == Len(passed)
           f == Len(passed) - Len(kept)
<1>1. Window \in Nat /\ Rpm \in Nat /\ now \in Nat
  BY HostedAssumption DEF MemoryIsSound
<1>2. /\ tokens' \in Seq(Nat) /\ Len(tokens') = Len(kept) + 1
      /\ tokens'[Len(kept) + 1] = now
      /\ \A i \in 1 .. Len(kept) : tokens'[i] = kept[i]
  BY <1>1, AppendProperties DEF Passes
<1>3. /\ passed' \in Seq(Nat) /\ Len(passed') = L + 1
      /\ passed'[L + 1] = now
      /\ \A i \in 1 .. L : passed'[i] = passed[i]
  BY <1>1, AppendProperties DEF Passes, MemoryIsSound
<1>4. /\ \A i \in 1 .. L : passed[i] \in Nat
      /\ L \in Nat /\ Len(kept) \in Nat /\ f \in Nat /\ f + Len(kept) = L
  BY DEF MemoryIsSound
<1>5. Forgotten' = f
  BY <1>2, <1>3, <1>4 DEF Forgotten
<1>p. /\ \A i \in 1 .. Len(kept) : kept[i] = passed[f + i]
      /\ \A i \in 1 .. f : passed[i] + Window <= now
  OBVIOUS
<1> HIDE DEF L, f
<1>6. \A i \in 1 .. Len(tokens') : tokens'[i] = passed'[Forgotten' + i]
  <2> TAKE i \in 1 .. Len(tokens')
  <2>1. CASE i = Len(kept) + 1
    BY <2>1, <1>2, <1>3, <1>4, <1>5
  <2>2. CASE i # Len(kept) + 1
    <3>1. i \in 1 .. Len(kept) /\ f + i \in 1 .. L
      BY <2>2, <1>2, <1>4
    <3> QED
      BY <3>1, <1>2, <1>3, <1>5, <1>p
  <2> QED
    BY <2>1, <2>2
<1>7. \A i \in 1 .. Forgotten' : passed'[i] + Window <= now'
  <2> TAKE i \in 1 .. Forgotten'
  <2>1. i \in 1 .. f /\ i \in 1 .. L
    BY <1>4, <1>5
  <2> QED
    BY <2>1, <1>3, <1>p
<1>8. MemoryIsTheEnd'
  BY <1>4, <1>5, <1>6, <1>7 DEF MemoryIsTheEnd
<1>9. PassedInOrder'
  <2>1. /\ \A i \in 1 .. L : passed[i] <= now
        /\ \A i, j \in 1 .. L : i <= j => passed[i] <= passed[j]
    BY DEF MemoryIsSound, PassedInOrder, L
  <2>2. \A i \in 1 .. L + 1 : i = L + 1 \/ i \in 1 .. L
    BY <1>4
  <2>3. \A i \in 1 .. L + 1 : passed'[i] <= now
    BY <2>1, <2>2, <1>1, <1>3
  <2>4. ASSUME NEW i \in 1 .. L + 1, NEW j \in 1 .. L + 1, i <= j
        PROVE  passed'[i] <= passed'[j]
    <3>1. CASE j = L + 1
      BY <3>1, <2>3, <1>3
    <3>2. CASE j # L + 1
      <4>1. i \in 1 .. L /\ j \in 1 .. L
        BY <3>2, <2>4, <1>4
      <4> QED
        BY <4>1, <2>1, <2>4, <1>3
    <3> QED
      BY <3>1, <3>2
  <2> QED
    BY <2>3, <2>4, <1>3 DEF PassedInOrder
<1>10. MemoryFits'
  BY <1>1, <1>2, <1>4 DEF MemoryFits
<1>11. PassedAreSpaced'
  <2> SUFFICES ASSUME NEW i \in 1 .. L + 1, i + Rpm <= L + 1
               PROVE  passed'[i] + Window <= passed'[i + Rpm]
    BY <1>3 DEF PassedAreSpaced
  <2>0. i \in 1 .. L /\ Rpm > 0
    BY <1>1, <1>4, HostedAssumption
  <2>1. CASE i + Rpm = L + 1
    <3>1. i \in 1 .. f
      BY <2>1, <2>0, <1>1, <1>4
    <3> QED
      BY <3>1, <2>0, <2>1, <1>3, <1>p
  <2>2. CASE i + Rpm # L + 1
    <3>1. i + Rpm <= L /\ i + Rpm \in 1 .. L
      BY <2>2, <2>0, <1>1, <1>4
    <3>2. passed[i] + Window <= passed[i + Rpm]
      BY <3>1, <2>0 DEF MemoryIsSound, PassedAreSpaced, L
    <3> QED
      BY <3>1, <3>2, <2>0, <1>3
  <2> QED
    BY <2>1, <2>2
<1> QED
  BY <1>1, <1>2, <1>3, <1>8, <1>9, <1>10, <1>11 DEF MemoryIsSound

-----------------------------------------------------------------------------
(* Steps.                                                                  *)

\* What the invariant says of the callers.
CallersAreTyped ==
  /\ interval \in Nat /\ lastCall \in Nat
  /\ holder \in Callers \cup {Nobody}
  /\ call \in [Callers -> Calls]

LEMMA InvariantHasTwoParts ==
  HostedInv <=> MemoryIsSound /\ CallersAreTyped /\ SleeperHoldsLock
BY DEF HostedInv, HostedTypeOK, MemoryIsSound, CallersAreTyped

LEMMA HostedInitHolds == HostedInit => HostedInv
<1> SUFFICES ASSUME HostedInit PROVE HostedInv
  OBVIOUS
<1>1. tokens = <<>> /\ passed = <<>> /\ now = 0
  BY DEF HostedInit
<1>2. Rpm \in Nat /\ <<>> \in Seq(Nat) /\ Len(<<>>) = 0
  BY HostedAssumption
<1>3. MemoryIsTheEnd /\ PassedInOrder /\ MemoryFits /\ PassedAreSpaced
  BY <1>1, <1>2 DEF MemoryIsTheEnd, Forgotten, PassedInOrder, MemoryFits, PassedAreSpaced
<1>4. NoCall \in Calls /\ NoCall.phase = "none"
  BY DEF NoCall, Calls, Phases, Results
<1>5. CallersAreTyped
  BY <1>4 DEF HostedInit, CallersAreTyped
<1>6. SleeperHoldsLock
  BY <1>4 DEF HostedInit, SleeperHoldsLock, Phase
<1> QED
  BY <1>1, <1>2, <1>3, <1>5, <1>6, InvariantHasTwoParts DEF MemoryIsSound

\* A caller's step that leaves it awake, and the memory and the others alone.
Awake(c, after) ==
  /\ after \in Calls /\ after.phase # "waiting"
  /\ call' = [call EXCEPT ![c] = after]

\* Another caller may sleep on.
LEMMA AwakeKeeps ==
  ASSUME CallersAreTyped, SleeperHoldsLock, NEW c \in Callers, NEW after, Awake(c, after),
         UNCHANGED tokens, holder' = holder \/ (holder = c /\ holder' = Nobody),
         interval' \in Nat, lastCall' \in Nat
  PROVE  CallersAreTyped' /\ SleeperHoldsLock'
<1>1. call' \in [Callers -> Calls]
  BY DEF CallersAreTyped, Awake
<1>2. \A d \in Callers : Phase(d, "waiting")' => d # c /\ call'[d] = call[d]
  BY DEF CallersAreTyped, Awake, Phase
<1>3. SleeperHoldsLock'
  BY <1>2 DEF SleeperHoldsLock, Phase
<1> QED
  BY <1>1, <1>3 DEF CallersAreTyped

\* Nobody sleeps in the limiter while its lock is free or is given back.
LEMMA NobodySleeps ==
  ASSUME CallersAreTyped, NEW c \in Callers, NEW after, Awake(c, after),
         \A d \in Callers \ {c} : ~ Phase(d, "waiting"),
         holder' \in {holder, Nobody}, interval' \in Nat, lastCall' \in Nat
  PROVE  CallersAreTyped' /\ SleeperHoldsLock'
<1>1. call' \in [Callers -> Calls]
  BY DEF CallersAreTyped, Awake
<1>2. \A d \in Callers : ~ Phase(d, "waiting")'
  BY DEF CallersAreTyped, Awake, Phase
<1> QED
  BY <1>1, <1>2 DEF CallersAreTyped, SleeperHoldsLock

\* The pace leaves the caller awake.
LEMMA ReservedIsAwake ==
  ASSUME MemoryIsSound, CallersAreTyped, NEW c \in Callers, Reserve(c)
  PROVE  \E after : Awake(c, after) /\ lastCall' \in Nat
<1>1. call[c] \in Calls /\ now \in Nat /\ interval \in Nat /\ lastCall \in Nat
  BY DEF CallersAreTyped, MemoryIsSound
<1>2. CASE interval = 0
  <2> DEFINE after == [call[c] EXCEPT !.phase = "sent"]
  <2>1. after \in Calls /\ after.phase = "sent"
    BY <1>1 DEF Calls, Phases
  <2>2. call' = [call EXCEPT ![c] = after] /\ lastCall' = lastCall
    BY <1>2 DEF Reserve, Moves
  <2> QED
    BY <1>1, <2>1, <2>2 DEF Awake
<1>3. CASE interval # 0
  <2> DEFINE phase == IF SendAt(c) > now THEN "pacing" ELSE "sent"
             after == [call[c] EXCEPT !.phase = phase, !.wake = SendAt(c)]
  <2>1. SendAt(c) \in Nat
    BY <1>1 DEF SendAt, Earlier, Later, Calls
  <2>2. phase \in {"pacing", "sent"}
    OBVIOUS
  <2>3. call' = [call EXCEPT ![c] = after] /\ lastCall' = SendAt(c)
    BY <1>3 DEF Reserve
  <2> HIDE DEF phase
  <2>4. after \in Calls /\ after.phase = phase
    BY <1>1, <2>1, <2>2 DEF Calls, Phases
  <2> HIDE DEF after
  <2> QED
    BY <2>1, <2>2, <2>3, <2>4 DEF Awake
<1> QED
  BY <1>2, <1>3

\* Whoever takes the free lock is let through, or sleeps on a full window.
LEMMA AcquireKeeps ==
  ASSUME HostedInv, NEW c \in Callers, Acquire(c)
  PROVE  HostedInv'
<1> DEFINE kept == InWindow(tokens)
<1>1. MemoryIsSound /\ CallersAreTyped /\ SleeperHoldsLock
  BY InvariantHasTwoParts
<1>2. \A d \in Callers : ~ Phase(d, "waiting")
  BY <1>1, HostedAssumption DEF Acquire, SleeperHoldsLock, Nobody
<1>3. /\ kept \in Seq(Nat) /\ Len(kept) <= Rpm
      /\ Len(passed) - Len(kept) \in Nat
      /\ \A i \in 1 .. Len(kept) : kept[i] = passed[Len(passed) - Len(kept) + i]
      /\ \A i \in 1 .. Len(passed) - Len(kept) : passed[i] + Window <= now
  BY <1>1, WindowIsTheEnd
<1>4. Rpm \in Nat /\ Rpm > 0 /\ Window \in Nat
  BY HostedAssumption
<1>5. UNCHANGED <<now, interval>>
  BY DEF Acquire
<1>6. CASE Len(kept) >= Rpm
  <2>1. /\ holder' = c /\ tokens' = kept /\ UNCHANGED <<lastCall, passed>>
        /\ call' = [call EXCEPT ![c].phase = "waiting", ![c].wake = kept[1] + Window]
    BY <1>6 DEF Acquire
  <2>2. MemoryIsSound'
    BY <2>1, <1>1, <1>5, PruningKeepsMemory
  <2> HIDE DEF kept
  <2>3. Len(kept) = Rpm /\ kept[1] + Window \in Nat
    BY <1>3, <1>4, <1>6
  <2> DEFINE wake == kept[1] + Window
             after == [call[c] EXCEPT !.phase = "waiting", !.wake = wake]
  <2>4. wake \in Nat /\ wake = tokens'[1] + Window /\ Len(tokens') = Rpm
    BY <2>1, <2>3
  <2>5. call' = [call EXCEPT ![c] = after]
    BY <2>1
  <2> HIDE DEF wake
  <2>6. after \in Calls /\ after.wake = wake
    BY <1>1, <2>4 DEF CallersAreTyped, Calls, Phases
  <2> HIDE DEF after
  <2>7. CallersAreTyped'
    BY <1>1, <1>5, <2>1, <2>5, <2>6 DEF CallersAreTyped
  <2>8. call'[c] = after /\ \A d \in Callers \ {c} : call'[d] = call[d]
    BY <1>1, <2>5 DEF CallersAreTyped
  <2>9. SleeperHoldsLock'
    BY <1>2, <2>1, <2>4, <2>6, <2>8 DEF SleeperHoldsLock, Phase
  <2> QED
    BY <2>2, <2>7, <2>9 DEF HostedInv, HostedTypeOK, MemoryIsSound, CallersAreTyped
<1>7. CASE ~ (Len(kept) >= Rpm)
  <2>1. Passes(kept) /\ Reserve(c) /\ UNCHANGED holder
    BY <1>7 DEF Acquire
  <2> HIDE DEF kept
  <2>2. Len(kept) < Rpm
    BY <1>3, <1>4, <1>7
  <2>3. MemoryIsSound'
    BY <1>1, <1>3, <1>5, <2>1, <2>2, PassingKeepsMemory
  <2>4. PICK after : Awake(c, after) /\ lastCall' \in Nat
    BY <1>1, <2>1, ReservedIsAwake
  <2>5. interval' \in Nat
    BY <1>1, <1>5 DEF CallersAreTyped
  <2>6. CallersAreTyped' /\ SleeperHoldsLock'
    BY <1>1, <1>2, <2>1, <2>4, <2>5, NobodySleeps
  <2> QED
    BY <2>3, <2>6 DEF HostedInv, HostedTypeOK, MemoryIsSound, CallersAreTyped
<1> QED
  BY <1>6, <1>7

\* When the sleeper wakes, the oldest has left the window it filled.
LEMMA LetThroughKeeps ==
  ASSUME HostedInv, NEW c \in Callers, LetThrough(c)
  PROVE  HostedInv'
<1> DEFINE kept == InWindow(tokens)
<1>1. MemoryIsSound /\ CallersAreTyped /\ SleeperHoldsLock
  BY InvariantHasTwoParts
<1>2. /\ holder = c /\ Len(tokens) = Rpm /\ call[c].wake = tokens[1] + Window
      /\ call[c].wake <= now
  <2>1. holder = c /\ Len(tokens) = Rpm /\ call[c].wake = tokens[1] + Window
    BY <1>1 DEF LetThrough, SleeperHoldsLock
  <2>2. call[c].wake \in Nat /\ now \in Nat /\ now >= call[c].wake
    BY <1>1 DEF CallersAreTyped, MemoryIsSound, Calls, LetThrough
  <2> QED
    BY <2>1, <2>2
<1>3. \A d \in Callers \ {c} : ~ Phase(d, "waiting")
  BY <1>1, <1>2 DEF SleeperHoldsLock
<1>4. /\ kept \in Seq(Nat) /\ Len(kept) < Rpm
      /\ Len(passed) - Len(kept) \in Nat
      /\ \A i \in 1 .. Len(kept) : kept[i] = passed[Len(passed) - Len(kept) + i]
      /\ \A i \in 1 .. Len(passed) - Len(kept) : passed[i] + Window <= now
  <2>1. tokens[1] + Window <= now
    BY <1>2
  <2> QED
    BY <2>1, <1>1, <1>2, WindowIsTheEnd
<1>5. Passes(kept) /\ holder' = Nobody /\ Reserve(c) /\ UNCHANGED <<now, interval>>
  BY DEF LetThrough
<1> HIDE DEF kept
<1>6. MemoryIsSound'
  BY <1>1, <1>4, <1>5, PassingKeepsMemory
<1>7. PICK after : Awake(c, after) /\ lastCall' \in Nat
  BY <1>1, <1>5, ReservedIsAwake
<1>8. interval' \in Nat
  BY <1>1, <1>5 DEF CallersAreTyped
<1>9. CallersAreTyped' /\ SleeperHoldsLock'
  BY <1>1, <1>3, <1>5, <1>7, <1>8, NobodySleeps
<1> QED
  BY <1>6, <1>9 DEF HostedInv, HostedTypeOK, MemoryIsSound, CallersAreTyped

\* All other steps of a caller leave the limiter alone, but that one who is
\* canceled gives its lock back.
OutsideTheLimiter(c) ==
  /\ UNCHANGED <<now, tokens, passed>>
  /\ holder' = holder \/ (holder = c /\ holder' = Nobody)
  /\ interval' \in Nat /\ lastCall' \in Nat
  /\ \E after : Awake(c, after)

LEMMA OutsideKeeps ==
  ASSUME HostedInv, NEW c \in Callers, OutsideTheLimiter(c)
  PROVE  HostedInv'
<1>1. MemoryIsSound /\ CallersAreTyped /\ SleeperHoldsLock
  BY InvariantHasTwoParts
<1>2. MemoryIsSound'
  BY <1>1, TimeKeepsMemory DEF OutsideTheLimiter, MemoryIsSound
<1>3. PICK after : Awake(c, after)
  BY DEF OutsideTheLimiter
<1>4. CallersAreTyped' /\ SleeperHoldsLock'
  BY <1>1, <1>3, AwakeKeeps DEF OutsideTheLimiter
<1> QED
  BY <1>2, <1>4 DEF HostedInv, HostedTypeOK, MemoryIsSound, CallersAreTyped

\* The callers' own steps.
LEMMA ReturningIsAwake ==
  ASSUME NEW c \in Callers, NEW result \in Results, CallReturns(c, result)
  PROVE  \E after : Awake(c, after)
<1> DEFINE after == [NoCall EXCEPT !.phase = "done", !.result = result]
<1>1. after \in Calls /\ after.phase = "done"
  BY DEF NoCall, Calls, Phases
<1> QED
  BY <1>1 DEF Awake, CallReturns

LEMMA MovingIsAwake ==
  ASSUME CallersAreTyped, NEW c \in Callers, NEW phase \in Phases \ {"waiting"}, Moves(c, phase)
  PROVE  \E after : Awake(c, after)
<1> DEFINE after == [call[c] EXCEPT !.phase = phase]
<1>1. after \in Calls /\ after.phase = phase
  BY DEF CallersAreTyped, Calls
<1> QED
  BY <1>1 DEF Awake, Moves

LEMMA CallersStepOutside ==
  ASSUME HostedInv, NEW c \in Callers,
         \/ \E d \in Deadlines : Request(c, d)
         \/ \E r \in Backoffs : RateLimited(c, r)
         \/ Attempt(c) \/ SlotReached(c) \/ Answered(c) \/ Refused(c) \/ TimesOut(c)
         \/ Fails(c) \/ BacksOff(c) \/ Canceled(c)
  PROVE  OutsideTheLimiter(c)
<1>1. /\ CallersAreTyped /\ call[c] \in Calls /\ now \in Nat
      /\ interval \in Nat /\ lastCall \in Nat
  BY DEF HostedInv, HostedTypeOK, CallersAreTyped
<1>2. Deadlines \subseteq Nat /\ Backoffs \subseteq Nat /\ MaxInterval \in Nat
  BY HostedAssumption
<1>3. ASSUME NEW d \in Deadlines, Request(c, d) PROVE OutsideTheLimiter(c)
  <2> DEFINE after == [NoCall EXCEPT !.phase = "loop", !.deadline = now + d]
  <2>1. now + d \in Nat
    BY <1>1, <1>2
  <2>2. after \in Calls /\ after.phase = "loop"
    BY <2>1 DEF NoCall, Calls, Phases, Results
  <2>3. call' = [call EXCEPT ![c] = after]
    BY <1>3 DEF Request
  <2> HIDE DEF after
  <2> QED
    BY <1>1, <1>3, <2>2, <2>3 DEF Request, OutsideTheLimiter, Awake
<1>4. ASSUME NEW r \in Backoffs, RateLimited(c, r) PROVE OutsideTheLimiter(c)
  <2>1. Moves(c, "loop") /\ UNCHANGED <<now, tokens, holder, lastCall, passed>>
    BY <1>4 DEF RateLimited
  <2>2. interval' \in Nat
    BY <1>1, <1>2, <1>4 DEF RateLimited, Earlier, Later
  <2> QED
    BY <1>1, <2>1, <2>2, MovingIsAwake DEF OutsideTheLimiter, Phases
<1>5. CASE Attempt(c)
  <2>1. UNCHANGED <<now, tokens, holder, interval, lastCall, passed>>
    BY <1>5 DEF Attempt
  <2>2. CASE CallReturns(c, "exhausted")
    BY <1>1, <2>1, <2>2, ReturningIsAwake DEF OutsideTheLimiter, Results
  <2>3. CASE call' = [call EXCEPT ![c].phase = "ceiling", ![c].attempts = @ + 1]
    <3> DEFINE after == [call[c] EXCEPT !.phase = "ceiling", !.attempts = @ + 1]
    <3>1. after \in Calls /\ after.phase = "ceiling"
      <4>1. call[c].attempts + 1 \in Nat
        BY <1>1 DEF Calls
      <4> QED
        BY <1>1, <4>1 DEF Calls, Phases
    <3>2. call' = [call EXCEPT ![c] = after]
      BY <2>3
    <3> HIDE DEF after
    <3> QED
      BY <1>1, <2>1, <3>1, <3>2 DEF OutsideTheLimiter, Awake
  <2> QED
    BY <1>5, <2>2, <2>3 DEF Attempt
<1>6. CASE SlotReached(c)
  BY <1>1, <1>6, MovingIsAwake DEF SlotReached, OutsideTheLimiter, Phases
<1>7. CASE Answered(c)
  <2>1. interval' \in Nat
    BY <1>1, <1>7 DEF Answered
  <2> QED
    BY <1>1, <1>7, <2>1, ReturningIsAwake DEF Answered, OutsideTheLimiter, Results
<1>8. CASE Refused(c)
  BY <1>1, <1>8, ReturningIsAwake DEF Refused, OutsideTheLimiter, Results
<1>9. CASE TimesOut(c)
  BY <1>1, <1>9, ReturningIsAwake DEF TimesOut, OutsideTheLimiter, Results
<1>10. CASE Fails(c)
  <2>1. UNCHANGED <<now, tokens, holder, interval, lastCall, passed>>
    BY <1>10 DEF Fails
  <2>2. CASE Moves(c, "loop")
    BY <1>1, <2>1, <2>2, MovingIsAwake DEF OutsideTheLimiter, Phases
  <2>3. CASE call' = [call EXCEPT ![c].phase = "backoff",
                               ![c].wake = Earlier(now + call[c].attempts, call[c].deadline)]
    <3> DEFINE wake == Earlier(now + call[c].attempts, call[c].deadline)
               after == [call[c] EXCEPT !.phase = "backoff", !.wake = wake]
    <3>1. wake \in Nat
      BY <1>1 DEF Earlier, Calls
    <3>2. call' = [call EXCEPT ![c] = after]
      BY <2>3
    <3> HIDE DEF wake
    <3>3. after \in Calls /\ after.phase = "backoff"
      BY <1>1, <3>1 DEF Calls, Phases
    <3> HIDE DEF after
    <3> QED
      BY <1>1, <2>1, <3>2, <3>3 DEF OutsideTheLimiter, Awake
  <2> QED
    BY <1>10, <2>2, <2>3 DEF Fails
<1>11. CASE BacksOff(c)
  BY <1>1, <1>11, MovingIsAwake DEF BacksOff, OutsideTheLimiter, Phases
<1>12. CASE Canceled(c)
  BY <1>1, <1>12, ReturningIsAwake DEF Canceled, OutsideTheLimiter, Results
<1> QED
  BY <1>3, <1>4, <1>5, <1>6, <1>7, <1>8, <1>9, <1>10, <1>11, <1>12

LEMMA HostedStepKeeps ==
  ASSUME HostedInv, [HostedNext]_hostedVars
  PROVE  HostedInv'
<1>1. CASE Tick
  <2>1. MemoryIsSound /\ CallersAreTyped /\ SleeperHoldsLock
    BY InvariantHasTwoParts
  <2>2. now' \in Nat /\ now' >= now
    BY <1>1, <2>1 DEF Tick, MemoryIsSound
  <2>3. MemoryIsSound'
    BY <1>1, <2>1, <2>2, TimeKeepsMemory DEF Tick
  <2>4. CallersAreTyped' /\ SleeperHoldsLock'
    BY <1>1, <2>1 DEF Tick, CallersAreTyped, SleeperHoldsLock, Phase
  <2> QED
    BY <2>3, <2>4 DEF HostedInv, HostedTypeOK, MemoryIsSound, CallersAreTyped
<1>2. ASSUME NEW c \in Callers,
             \/ \E d \in Deadlines : Request(c, d)
             \/ \E r \in Backoffs : RateLimited(c, r)
             \/ Attempt(c) \/ SlotReached(c) \/ Answered(c) \/ Refused(c) \/ TimesOut(c)
             \/ Fails(c) \/ BacksOff(c) \/ Canceled(c)
      PROVE  HostedInv'
  BY <1>2, CallersStepOutside, OutsideKeeps
<1>3. ASSUME NEW c \in Callers, Acquire(c) PROVE HostedInv'
  BY <1>3, AcquireKeeps
<1>4. ASSUME NEW c \in Callers, LetThrough(c) PROVE HostedInv'
  BY <1>4, LetThroughKeeps
<1>5. CASE UNCHANGED hostedVars
  BY <1>5 DEF hostedVars, HostedInv, HostedTypeOK, MemoryIsTheEnd, Forgotten, PassedInOrder,
     MemoryFits, SleeperHoldsLock, PassedAreSpaced, Phase
<1> QED
  BY <1>1, <1>2, <1>3, <1>4, <1>5 DEF HostedNext

-----------------------------------------------------------------------------
(* The theorems.                                                           *)

\* The requests that fall in one window are neighbours, and fewer than Rpm + 1.
LEMMA SpacedIsWithinCeiling ==
  ASSUME HostedInv
  PROVE  WithinCeiling
<1> SUFFICES ASSUME NEW t \in 0 .. now
             PROVE  Cardinality({i \in DOMAIN passed : t - Window < passed[i] /\ passed[i] <= t})
                      <= Rpm
  BY DEF WithinCeiling
<1> DEFINE S == {i \in DOMAIN passed : t - Window < passed[i] /\ passed[i] <= t}
<1>1. /\ now \in Nat /\ t \in Nat /\ Window \in Nat /\ Rpm \in Nat /\ Rpm > 0
      /\ passed \in Seq(Nat) /\ DOMAIN passed = 1 .. Len(passed) /\ Len(passed) \in Nat
      /\ \A i \in 1 .. Len(passed) : passed[i] \in Nat
  BY HostedAssumption DEF HostedInv, HostedTypeOK
<1>2. CASE S = {}
  <2>1. Cardinality(S) = 0
    BY <1>2, FS_EmptySet
  <2> QED
    BY <2>1, <1>1
<1>3. CASE S # {}
  <2>1. S \subseteq Nat
    BY <1>1
  <2>2. PICK a \in S : \A i \in S : a <= i
    <3> HIDE DEF S
    <3> QED
      BY <2>1, <1>3, Smallest
  <2> DEFINE I == a .. a + Rpm - 1
  <2>3. a \in 1 .. Len(passed) /\ passed[a] + Window > t
    BY <2>2, <1>1
  <2>4. S \subseteq I
    <3> SUFFICES ASSUME NEW i \in S, i > a + Rpm - 1 PROVE FALSE
      BY <2>1, <2>2, <1>1
    <3>1. i \in 1 .. Len(passed) /\ passed[i] <= t
      BY <1>1
    <3>2. a + Rpm \in 1 .. Len(passed) /\ a + Rpm <= i
      <4>1. i \in Nat /\ a \in Nat /\ a >= 1 /\ Rpm \in Nat /\ i <= Len(passed) /\ Len(passed) \in Nat
        BY <3>1, <2>3, <1>1
      <4>2. i > a + Rpm - 1
        OBVIOUS
      <4> HIDE DEF S
      <4> QED
        BY <4>1, <4>2
    <3>3. passed[a] + Window <= passed[a + Rpm]
      BY <3>2, <2>3 DEF HostedInv, PassedAreSpaced
    <3>4. passed[a + Rpm] <= passed[i]
      BY <3>1, <3>2 DEF HostedInv, PassedInOrder
    <3> QED
      BY <3>1, <3>2, <3>3, <3>4, <2>3, <1>1
  <2>5. a \in Int /\ a + Rpm - 1 \in Int /\ a <= a + Rpm - 1
    BY <2>3, <1>1
  <2>6. IsFiniteSet(I) /\ Cardinality(I) = Rpm
    <3>1. IsFiniteSet(I) /\ Cardinality(I) = IF a > a + Rpm - 1 THEN 0 ELSE (a + Rpm - 1) - a + 1
      BY <2>5, FS_Interval
    <3> QED
      BY <3>1, <2>3, <1>1
  <2> HIDE DEF S, I
  <2>7. Cardinality(S) <= Cardinality(I)
    BY <2>4, <2>6, FS_Subset
  <2> QED
    BY <2>6, <2>7 DEF S
<1> QED
  BY <1>2, <1>3

\* The limiter stays in its invariant, however its callers overlap.
THEOREM HostedInvariantHolds == HostedSpec => []HostedInv
<1>1. HostedInit => HostedInv
  BY HostedInitHolds
<1>2. HostedInv /\ [HostedNext]_hostedVars => HostedInv'
  BY HostedStepKeeps
<1> QED
  BY <1>1, <1>2, PTL DEF HostedSpec

\* Times, attempts and the learned pace are natural numbers, and each request is
\* in a phase it can be in (resilient_request).
THEOREM HostedTypeCorrect == HostedSpec => []HostedTypeOK
<1>1. HostedInv => HostedTypeOK
  BY DEF HostedInv
<1> QED
  BY <1>1, HostedInvariantHolds, PTL

\* No window of the process's life sees more requests let through than the
\* ceiling (SlidingWindowRpmLimiter.acquire), for any ceiling and window.
THEOREM CeilingCorrect == HostedSpec => []WithinCeiling
<1>1. HostedInv => WithinCeiling
  BY SpacedIsWithinCeiling
<1> QED
  BY <1>1, HostedInvariantHolds, PTL

-----------------------------------------------------------------------------
(* The drains of what is ingested.                                         *)

\* What the sweeper attempted has its pHash, or cannot be read.
AttemptsAreDone == sweep.tried \ unreadable \subseteq hashed

\* A sweeper that ended left no batch behind.
EndedIsOver == ~ sweep.on => sweep.left = {}

\* What the workers hold is in the database; what is sent to an endpoint could
\* be read.
BatchesAreIngested ==
  /\ sweep.left \subseteq ingested
  /\ embed.left \subseteq ingested /\ embed.at \subseteq ingested \ unreadable

\* Each request under way has its image in the database.
RequestsHaveImages == handlers \in 0 .. Cardinality(ingested)

DrainInv ==
  /\ DrainTypeOK /\ RequestsHaveImages /\ BatchesAreIngested
  /\ AttemptsAreDone /\ EndedIsOver /\ SweepMissesNothing

Sweeper   == [on : BOOLEAN, left : SUBSET Images, tried : SUBSET Images]
Embedder  == [step : {"off", "start", "probe", "reprobe", "drain"}, arm : BOOLEAN,
              provider : Providers, failed : BOOLEAN,
              left : SUBSET Images, tried : SUBSET Images, at : SUBSET Images]
-----------------------------------------------------------------------------
(* The counter of requests.                                                *)

LEMMA IngestedAreFinite ==
  ASSUME NEW S \in SUBSET Images
  PROVE  /\ IsFiniteSet(S) /\ Cardinality(S) \in Nat /\ Cardinality(Images) \in Nat
         /\ Cardinality(S) <= Cardinality(Images)
<1>1. IsFiniteSet(Images)
  BY DrainAssumption
<1>2. IsFiniteSet(S)
  BY <1>1, FS_Subset
<1> QED
  BY <1>1, <1>2, FS_Subset, FS_CardinalityType

\* A bound on the requests holds on as long as the images stay, and one more
\* image carries one more request.
LEMMA RequestsStayBounded ==
  ASSUME DrainTypeOK, RequestsHaveImages, ingested' = ingested,
         handlers' \in Nat, handlers' <= handlers
  PROVE  handlers' \in 0 .. Cardinality(Images) /\ RequestsHaveImages'
<1>1. Cardinality(ingested) \in Nat /\ Cardinality(Images) \in Nat
      /\ Cardinality(ingested) <= Cardinality(Images)
  BY IngestedAreFinite DEF DrainTypeOK
<1>2. Cardinality(ingested') = Cardinality(ingested)
  OBVIOUS
<1> QED
  BY <1>1, <1>2 DEF RequestsHaveImages

LEMMA IngestCounts ==
  ASSUME DrainTypeOK, RequestsHaveImages, NEW k \in Images, Ingest(k)
  PROVE  handlers' \in 0 .. Cardinality(Images) /\ RequestsHaveImages' /\ handlers' > 0
<1> DEFINE S == ingested \cup {k}
<1>1. ingested \in SUBSET Images /\ S \in SUBSET Images
  BY DEF DrainTypeOK
<1>2. Cardinality(ingested) \in Nat /\ IsFiniteSet(ingested)
  BY <1>1, IngestedAreFinite
<1>3. Cardinality(S) \in Nat /\ Cardinality(Images) \in Nat /\ Cardinality(S) <= Cardinality(Images)
  BY <1>1, IngestedAreFinite
<1>4. Cardinality(S) = Cardinality(ingested) + 1
  BY <1>2, FS_AddElement DEF Ingest
<1>5. Cardinality(ingested') = Cardinality(S)
  BY DEF Ingest
<1> HIDE DEF S
<1>6. handlers' = handlers + 1
  BY DEF Ingest
<1> QED
  BY <1>2, <1>3, <1>4, <1>5, <1>6 DEF RequestsHaveImages

-----------------------------------------------------------------------------
(* The invariant holds at the start, and each step keeps it.               *)

LEMMA DrainInitHolds == DrainInit => DrainInv
<1> SUFFICES ASSUME DrainInit PROVE DrainInv
  OBVIOUS
<1>1. Cardinality(Images) \in Nat /\ Cardinality(ingested) \in Nat
  BY IngestedAreFinite DEF DrainInit
<1>2. DrainTypeOK
  <2>1. sweep \in Sweeper /\ embed \in Embedder
    BY DEF DrainInit, NoSweep, NoEmbed, Providers, Sweeper, Embedder
  <2>2. unreadable \subseteq Damaged /\ up \subseteq Providers \ {"none"} /\ stamp \in Providers
    BY DEF DrainInit, Providers
  <2>3. handlers \in 0 .. Cardinality(Images) /\ drainEvents \in 0 .. MaxDrainEvents
    BY <1>1, DrainAssumption DEF DrainInit
  <2>4. ingested = {} /\ hashed = {} /\ embedded = {} /\ passedOver = {} /\ resweeps = {}
        /\ recorded = FALSE /\ marker = FALSE
    BY DEF DrainInit
  <2> QED
    BY <2>1, <2>2, <2>3, <2>4 DEF DrainTypeOK, Sweeper, Embedder
<1> QED
  BY <1>1, <1>2 DEF DrainInit, DrainInv, RequestsHaveImages, AttemptsAreDone, EndedIsOver,
     SweepMissesNothing, BatchesAreIngested, NoSweep, NoEmbed

\* A trigger starts a worker that is not running.
LEMMA SweeperStarts ==
  ASSUME NEW s \in Sweeper
  PROVE  /\ Swept(s) \in Sweeper /\ Swept(s).on
         /\ Swept(s) = s \/ (Swept(s).left = {} /\ Swept(s).tried = {})
BY DEF Swept, Sweeper, NoSweep

LEMMA EmbedderStarts ==
  ASSUME NEW e \in Embedder
  PROVE  /\ Embedded(e) \in Embedder
         /\ Embedded(e) = e \/ (Embedded(e).left = {} /\ Embedded(e).at = {})
BY DEF Embedded, Embedder, NoEmbed, Providers

\* A batch leaves the endpoint, with or without a failure.
LEMMA BatchLeaves ==
  ASSUME NEW e \in Embedder, NEW k, NEW f \in BOOLEAN
  PROVE  LET after == [e EXCEPT !.at = e.at \ {k}, !.failed = f] IN
         after \in Embedder /\ after.left = e.left /\ after.at \subseteq e.at
BY DEF Embedder

LEMMA IngestKeeps ==
  ASSUME DrainInv, NEW k \in Images, Ingest(k)
  PROVE  DrainInv'
<1>1. handlers' \in 0 .. Cardinality(Images) /\ RequestsHaveImages' /\ handlers' > 0
  BY IngestCounts DEF DrainInv
<1>2. DrainTypeOK'
  BY <1>1 DEF DrainInv, DrainTypeOK, Ingest, world
<1>3. AttemptsAreDone' /\ EndedIsOver' /\ BatchesAreIngested'
  BY DEF DrainInv, Ingest, AttemptsAreDone, EndedIsOver, BatchesAreIngested, world
<1>4. SweepMissesNothing'
  BY <1>1 DEF SweepMissesNothing, DrainTypeOK
<1> QED
  BY <1>1, <1>2, <1>3, <1>4 DEF DrainInv

LEMMA TriggerKeeps ==
  ASSUME DrainInv, Trigger
  PROVE  DrainInv'
<1>1. handlers' \in Nat /\ handlers' <= handlers
  BY IngestedAreFinite DEF DrainInv, DrainTypeOK, RequestsHaveImages, Trigger
<1>2. handlers' \in 0 .. Cardinality(Images) /\ RequestsHaveImages'
  BY <1>1, RequestsStayBounded DEF DrainInv, Trigger, examples
<1>3. /\ sweep' \in Sweeper /\ sweep'.on
      /\ sweep' = sweep \/ (sweep'.left = {} /\ sweep'.tried = {})
  BY SweeperStarts DEF DrainInv, DrainTypeOK, Sweeper, Trigger
<1>4. embed' \in Embedder /\ (embed' = embed \/ (embed'.left = {} /\ embed'.at = {}))
  BY EmbedderStarts DEF DrainInv, DrainTypeOK, Embedder, Trigger
<1>5. DrainTypeOK'
  BY <1>2, <1>3, <1>4 DEF DrainInv, DrainTypeOK, Trigger, examples, world, Sweeper, Embedder
<1>6. AttemptsAreDone' /\ EndedIsOver' /\ SweepMissesNothing'
  BY <1>3 DEF DrainInv, Trigger, examples, world, AttemptsAreDone, EndedIsOver, SweepMissesNothing
<1>7. BatchesAreIngested'
  BY <1>3, <1>4 DEF DrainInv, Trigger, examples, world, BatchesAreIngested
<1> QED
  BY <1>2, <1>5, <1>6, <1>7 DEF DrainInv

LEMMA SweepLookKeeps ==
  ASSUME DrainInv, SweepLook
  PROVE  DrainInv'
<1>1. handlers' \in 0 .. Cardinality(Images) /\ RequestsHaveImages'
  BY RequestsStayBounded, IngestedAreFinite DEF DrainInv, DrainTypeOK, SweepLook, examples
<1>2. CASE SweepLeft = {}
  <2>1. sweep' = NoSweep
    BY <1>2 DEF SweepLook
  <2>2. ingested \ unreadable \subseteq hashed
    BY <1>2 DEF SweepLeft, DrainInv, AttemptsAreDone
  <2>3. DrainTypeOK'
    BY <1>1, <2>1 DEF DrainInv, DrainTypeOK, SweepLook, examples, world, NoSweep
  <2>4. AttemptsAreDone' /\ EndedIsOver' /\ SweepMissesNothing' /\ BatchesAreIngested'
    BY <2>1, <2>2 DEF DrainInv, SweepLook, examples, world, AttemptsAreDone, EndedIsOver,
       SweepMissesNothing, BatchesAreIngested, NoSweep
  <2> QED
    BY <1>1, <2>3, <2>4 DEF DrainInv
<1>3. CASE SweepLeft # {}
  <2>1. sweep' = [sweep EXCEPT !.left = SweepLeft] /\ sweep.on
    BY <1>3 DEF SweepLook
  <2>2. SweepLeft \subseteq ingested /\ SweepLeft \subseteq Images
    BY DEF SweepLeft, DrainInv, DrainTypeOK
  <2>3. sweep' \in Sweeper /\ sweep'.on /\ sweep'.tried = sweep.tried /\ sweep'.left = SweepLeft
    BY <2>1, <2>2 DEF DrainInv, DrainTypeOK, Sweeper
  <2>4. DrainTypeOK'
    BY <1>1, <2>3 DEF DrainInv, DrainTypeOK, SweepLook, examples, world, Sweeper
  <2>5. AttemptsAreDone' /\ EndedIsOver' /\ SweepMissesNothing' /\ BatchesAreIngested'
    BY <2>2, <2>3 DEF DrainInv, SweepLook, examples, world, AttemptsAreDone, EndedIsOver,
       SweepMissesNothing, BatchesAreIngested
  <2> QED
    BY <1>1, <2>4, <2>5 DEF DrainInv
<1> QED
  BY <1>2, <1>3

LEMMA SweepBatchKeeps ==
  ASSUME DrainInv, NEW k \in Images, SweepBatch(k)
  PROVE  DrainInv'
<1>1. handlers' \in 0 .. Cardinality(Images) /\ RequestsHaveImages'
  BY RequestsStayBounded, IngestedAreFinite DEF DrainInv, DrainTypeOK, SweepBatch
<1>2. /\ sweep' \in Sweeper /\ sweep'.on = sweep.on
      /\ sweep'.tried = sweep.tried \cup {k} /\ sweep'.left = sweep.left \ {k}
  BY DEF SweepBatch, DrainInv, DrainTypeOK, Sweeper
<1>3. sweep.on /\ k \in ingested
  BY DEF SweepBatch, DrainInv, EndedIsOver, DrainTypeOK, BatchesAreIngested
<1>4. DrainTypeOK'
  BY <1>1, <1>2, <1>3 DEF DrainInv, DrainTypeOK, SweepBatch, world, Sweeper
<1>5. AttemptsAreDone' /\ EndedIsOver' /\ SweepMissesNothing' /\ BatchesAreIngested'
  BY <1>2, <1>3 DEF DrainInv, SweepBatch, world, AttemptsAreDone, EndedIsOver,
     SweepMissesNothing, BatchesAreIngested
<1> QED
  BY <1>1, <1>4, <1>5 DEF DrainInv

\* The steps that leave the images, the requests and the sweeper alone.
SweepStays ==
  UNCHANGED <<ingested, hashed, unreadable, handlers, sweep, passedOver>>

\* What such a step must show of the rest.
RestIsSound ==
  /\ embedded' \subseteq ingested \ unreadable
  /\ stamp' \in Providers /\ recorded' \in BOOLEAN /\ marker' \in BOOLEAN
  /\ up' \subseteq Providers \ {"none"} /\ resweeps' \subseteq BOOLEAN
  /\ drainEvents' \in 0 .. MaxDrainEvents
  /\ embed' \in Embedder
  /\ embed'.left \subseteq ingested /\ embed'.at \subseteq ingested \ unreadable

LEMMA OthersKeep ==
  ASSUME DrainInv, SweepStays, RestIsSound
  PROVE  DrainInv'
<1>1. handlers' \in 0 .. Cardinality(Images) /\ RequestsHaveImages'
  BY RequestsStayBounded, IngestedAreFinite DEF DrainInv, DrainTypeOK, SweepStays
<1>2. DrainTypeOK'
  BY <1>1 DEF DrainInv, DrainTypeOK, SweepStays, RestIsSound, Embedder
<1>3. AttemptsAreDone' /\ EndedIsOver' /\ SweepMissesNothing' /\ BatchesAreIngested'
  BY DEF DrainInv, SweepStays, RestIsSound, AttemptsAreDone, EndedIsOver,
     SweepMissesNothing, BatchesAreIngested
<1> QED
  BY <1>1, <1>2, <1>3 DEF DrainInv

LEMMA EmbeddingIsSound ==
  ASSUME DrainInv, Embedding
  PROVE  SweepStays /\ RestIsSound
<1> USE DEF DrainInv, DrainTypeOK, BatchesAreIngested, SweepStays, RestIsSound, Embedder,
    examples, world
<1>1. CASE EmbedStart
  BY <1>1 DEF EmbedStart
<1>2. CASE EmbedProbed
  <2>1. Probed(embed.arm) \in Providers
    BY DEF Probed, Providers
  <2>2. /\ AfterProbe(Probed(embed.arm)) \in Embedder
        /\ \/ AfterProbe(Probed(embed.arm)).left = {} /\ AfterProbe(Probed(embed.arm)).at = {}
           \/ /\ AfterProbe(Probed(embed.arm)).left = embed.left
              /\ AfterProbe(Probed(embed.arm)).at = embed.at
    BY <2>1 DEF AfterProbe, NoEmbed, Providers
  <2> QED
    BY <1>2, <2>1, <2>2 DEF EmbedProbed
<1>3. CASE EmbedLook
  BY <1>3 DEF EmbedLook, EmbedLeft, NoEmbed, Providers
<1>4. CASE EmbedSkip
  BY <1>4 DEF EmbedSkip
<1>5. ASSUME NEW k \in Images, EmbedTake(k) PROVE SweepStays /\ RestIsSound
  BY <1>5 DEF EmbedTake
<1>6. ASSUME NEW k \in Images, EmbedReturn(k) PROVE SweepStays /\ RestIsSound
  <2>1. /\ embed' \in Embedder /\ embed'.left = embed.left
        /\ embed'.at \subseteq embed.at
    <3>1. embed \in Embedder /\ embed.failed \in BOOLEAN
      BY DEF Embedder
    <3>2. \E f \in BOOLEAN : embed' = [embed EXCEPT !.at = embed.at \ {k}, !.failed = f]
      <4>1. CASE embed' = [embed EXCEPT !.at = embed.at \ {k}]
        <5>1. embed' = [embed EXCEPT !.at = embed.at \ {k}, !.failed = embed.failed]
          BY <4>1, <3>1 DEF Embedder
        <5> QED
          BY <5>1, <3>1
      <4>2. CASE embed' = [embed EXCEPT !.at = embed.at \ {k}, !.failed = TRUE]
        BY <4>2
      <4> QED
        BY <1>6, <4>1, <4>2 DEF EmbedReturn
    <3>3. PICK f \in BOOLEAN : embed' = [embed EXCEPT !.at = embed.at \ {k}, !.failed = f]
      BY <3>2
    <3> DEFINE after == [embed EXCEPT !.at = embed.at \ {k}, !.failed = f]
    <3>4. after \in Embedder /\ after.left = embed.left /\ after.at \subseteq embed.at
      BY <3>1, BatchLeaves
    <3>5. embed' = after
      BY <3>3
    <3> QED
      BY ONLY <3>4, <3>5
  <2>2. embedded' \subseteq embedded \cup {k} /\ k \in embed.at
    BY <1>6 DEF EmbedReturn
  <2>3. SweepStays
    BY <1>6 DEF EmbedReturn
  <2>4. UNCHANGED <<stamp, recorded, marker, up, resweeps, drainEvents>>
    BY <1>6 DEF EmbedReturn
  <2> QED
    BY <2>1, <2>2, <2>3, <2>4
<1>7. ASSUME NEW k \in Images, EmbedDrop(k) PROVE SweepStays /\ RestIsSound
  BY <1>7 DEF EmbedDrop
<1> QED
  BY <1>1, <1>2, <1>3, <1>4, <1>5, <1>6, <1>7 DEF Embedding

LEMMA ProvidersAreSound ==
  ASSUME DrainInv,
         \/ Poll \/ HostedChanges \/ LocalDies \/ LocalHealthy \/ LocalReset
         \/ \E arm \in BOOLEAN : ResweepEnds(arm)
         \/ Archive \/ Unarchive
  PROVE  SweepStays /\ RestIsSound
<1> USE DEF DrainInv, DrainTypeOK, BatchesAreIngested, SweepStays, RestIsSound,
    examples, world
<1>e. embed \in Embedder
  BY DEF Embedder
<1>s. /\ Embedded(embed) \in Embedder
      /\ Embedded(embed) = embed \/ (Embedded(embed).left = {} /\ Embedded(embed).at = {})
  BY <1>e, EmbedderStarts
<1>m. MaxDrainEvents \in Nat
  BY DrainAssumption
<1>1. CASE Poll
  BY <1>1, <1>s DEF Poll
<1>2. CASE HostedChanges
  BY <1>2, <1>e, <1>m DEF HostedChanges, DrainEvent, Providers
<1>3. CASE LocalDies
  BY <1>3, <1>e, <1>m DEF LocalDies, DrainEvent, Providers
<1>4. CASE LocalHealthy
  <2>1. up' \subseteq Providers \ {"none"} /\ resweeps' \subseteq BOOLEAN /\ recorded' \in BOOLEAN
    BY <1>4 DEF LocalHealthy, Providers
  <2>2. drainEvents' \in 0 .. MaxDrainEvents
    BY <1>4, <1>m DEF LocalHealthy, DrainEvent
  <2> QED
    BY <1>4, <1>e, <2>1, <2>2 DEF LocalHealthy
<1>5. CASE LocalReset
  BY <1>5, <1>e DEF LocalReset, Providers
<1>6. ASSUME NEW arm \in BOOLEAN, ResweepEnds(arm) PROVE SweepStays /\ RestIsSound
  <2>1. Probed(arm) \in Providers
    BY DEF Probed, Providers
  <2>2. stamp' \in Providers /\ (embed' = embed \/ embed' = Embedded(embed))
    BY <1>6, <2>1 DEF ResweepEnds, Restamped
  <2> QED
    BY <1>6, <2>2, <1>e, <1>s DEF ResweepEnds
<1>7. CASE Archive
  BY <1>7, <1>e, <1>m DEF Archive, DrainEvent
<1>8. CASE Unarchive
  BY <1>8, <1>e DEF Unarchive
<1> QED
  BY <1>1, <1>2, <1>3, <1>4, <1>5, <1>6, <1>7, <1>8

\* A startup that finds rows pending starts the sweeper, or passes them over.
LEMMA CrashKeepsDrains ==
  ASSUME DrainInv, DrainCrash
  PROVE  DrainInv'
<1>1. handlers' \in 0 .. Cardinality(Images) /\ RequestsHaveImages'
  <2>1. ingested' = ingested /\ handlers' = 0
    BY DEF DrainCrash, examples
  <2>2. Cardinality(ingested) \in Nat
    BY IngestedAreFinite DEF DrainInv, DrainTypeOK
  <2>3. handlers' <= handlers /\ handlers' \in Nat
    BY <2>1, <2>2 DEF DrainInv, RequestsHaveImages
  <2> QED
    BY <2>1, <2>3, RequestsStayBounded DEF DrainInv
<1>2. NoSweep \in Sweeper /\ NoEmbed \in Embedder
  BY DEF NoSweep, NoEmbed, Sweeper, Embedder, Providers
<1>3. /\ sweep' \in Sweeper /\ sweep'.left = {} /\ sweep'.tried = {}
      /\ sweep'.on \/ (marker \/ ingested \subseteq hashed)
  BY <1>2, SweeperStarts DEF DrainCrash, NoSweep
<1>4. embed' \in Embedder /\ embed'.left = {} /\ embed'.at = {}
  BY <1>2, EmbedderStarts DEF DrainCrash, NoEmbed
<1>5. DrainTypeOK'
  BY <1>1, <1>3, <1>4, DrainAssumption DEF DrainInv, DrainTypeOK, DrainCrash, DrainEvent, examples,
     world, Sweeper, Embedder
<1>6. AttemptsAreDone' /\ EndedIsOver' /\ BatchesAreIngested'
  BY <1>3, <1>4 DEF AttemptsAreDone, EndedIsOver, BatchesAreIngested
<1>7. SweepMissesNothing'
  BY <1>3 DEF SweepMissesNothing, DrainCrash, examples, world
<1> QED
  BY <1>1, <1>5, <1>6, <1>7 DEF DrainInv

LEMMA DrainStepKeeps ==
  ASSUME DrainInv, [DrainNext]_drainVars
  PROVE  DrainInv'
<1>1. ASSUME NEW k \in Images, Ingest(k) PROVE DrainInv'
  BY <1>1, IngestKeeps
<1>2. CASE Trigger
  BY <1>2, TriggerKeeps
<1>3. CASE Sweeping
  BY <1>3, SweepLookKeeps, SweepBatchKeeps DEF Sweeping
<1>4. CASE Embedding
  BY <1>4, EmbeddingIsSound, OthersKeep
<1>5. CASE \/ Poll \/ HostedChanges \/ LocalDies \/ LocalHealthy \/ LocalReset
           \/ \E arm \in BOOLEAN : ResweepEnds(arm)
           \/ Archive \/ Unarchive
  BY <1>5, ProvidersAreSound, OthersKeep
<1>6. CASE DrainCrash
  BY <1>6, CrashKeepsDrains
<1>7. CASE UNCHANGED drainVars
  <2>1. SweepStays /\ RestIsSound
    BY <1>7 DEF DrainInv, DrainTypeOK, BatchesAreIngested, SweepStays, RestIsSound, Embedder,
       drainVars, examples, world
  <2> QED
    BY <2>1, OthersKeep
<1> QED
  BY <1>1, <1>2, <1>3, <1>4, <1>5, <1>6, <1>7 DEF DrainNext

-----------------------------------------------------------------------------
(* The theorems.                                                           *)

\* The drains stay in their invariant, whatever comes and goes around them.
THEOREM DrainsHold == DrainSpec => []DrainInv
<1>1. DrainInit => DrainInv
  BY DrainInitHolds
<1>2. DrainInv /\ [DrainNext]_drainVars => DrainInv'
  BY DrainStepKeeps
<1> QED
  BY <1>1, <1>2, PTL DEF DrainSpec

\* Only what is ingested and readable has a pHash or an embedding, and no more
\* requests are under way than images (image_service, embedding_service).
THEOREM DrainTypeCorrect == DrainSpec => []DrainTypeOK
<1>1. DrainInv => DrainTypeOK
  BY DEF DrainInv
<1> QED
  BY <1>1, DrainsHold, PTL

\* No image is left without its pHash by an idle sweeper, whichever ingest came
\* while it ran (ingest worker, startup scan).
THEOREM SweepCorrect == DrainSpec => []SweepMissesNothing
<1>1. DrainInv => SweepMissesNothing
  BY DEF DrainInv
<1> QED
  BY <1>1, DrainsHold, PTL
=============================================================================
