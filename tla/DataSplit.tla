------------------------------ MODULE DataSplit ------------------------------
(***************************************************************************)
(* Who may see which verified example of a project: the Test Pool that     *)
(* measures, the exemplars shown to the Teacher, and the datasets exported *)
(* for training and for evaluation.                                        *)
(*                                                                         *)
(* A label save routes its example into the pool or leaves it out, and     *)
(* may promote older ones.  Evaluations freeze the pool and look for       *)
(* exemplars at each question; a Training Suite builds its two datasets in *)
(* two sessions, one after the other; the API builds datasets in the       *)
(* background.                                                             *)
(*                                                                         *)
(*  - Saves, settings and edits hold the project's write lock and each is  *)
(*    one transaction; BatchLabeling has their inner steps.                *)
(*  - All labels are under the active Guidance: an edit re-points them     *)
(*    (in place) or deletes them (semantic).                               *)
(*  - Of a suite only its datasets are here; SuiteSetup has the rest.      *)
(***************************************************************************)
EXTENDS Integers, FiniteSets

CONSTANTS
  Examples,         \* example keys, positive numbers
  Fractions,    \* values of test_pool_fraction, as <<numerator, denominator>>
  Required,     \* required_test_pool_count
  Select(_, _, _), \* greedy max-min: which of the candidates, given the members, and how many
  MaxVersions,  \* bound: Guidance versions
  MaxSplitCrashes \* bound: crashes

\* Of the selection, which Diversity models, only this matters here: it takes
\* from the candidates.
ASSUME SplitAssumption ==
  /\ IsFiniteSet(Examples)
  /\ \A f \in Fractions : f[1] \in Nat /\ f[2] \in Nat \ {0}
  /\ \A cands, members \in SUBSET Examples : \A n \in 0 .. Cardinality(Examples) :
       Select(cands, members, n) \subseteq cands
  /\ Required \in Nat /\ MaxVersions \in Nat \ {0} /\ MaxSplitCrashes \in Nat

VARIABLES
  guidance,      \* Project.active_guidance_id, as its version
  fraction,    \* Project.test_pool_fraction
  label,       \* per example: no label, auto, or the outcome of its verification
  pool,        \* examples whose label has pool_assignment = "test_pool"
  wiped,       \* the version that the last semantic edit made
  frozenPools, \* Pool rows of evaluations: version and members
  eval,        \* the live evaluation
  datasets,       \* the Training Suite's datasets
  build,       \* the newest dataset export of the API
  splitCrashes

labels      == <<guidance, fraction, label, pool, wiped>>
evaluations == <<frozenPools, eval>>
exports     == <<datasets, build>>
splitVars   == <<labels, evaluations, exports, splitCrashes>>

Verified == {k \in Examples : label[k] \in {"Accept", "Edit"}}
NoEval  == [step |-> "off", gid |-> 0, frozen |-> {}, left |-> {}, shown |-> {}]
NoDatasets == [step |-> "off", task |-> FALSE, gid |-> 0, tier |-> "verified_only", train |-> {}, test |-> {}]
NoBuild == [status |-> "none", task |-> FALSE, files |-> "none"]

SplitInit ==
  /\ guidance = 1 /\ wiped = 1
  /\ fraction \in Fractions
  /\ label = [k \in Examples |-> "none"] /\ pool = {}
  /\ frozenPools = {} /\ eval = NoEval
  /\ datasets = NoDatasets /\ build = NoBuild
  /\ splitCrashes = 0

-----------------------------------------------------------------------------
(* Labels.                                                                 *)

Target(verified) == (Cardinality(verified) * fraction[1]) \div fraction[2]

\* _rebalance_pool promotes what is missing, as far as there are candidates.
Promoted(cands, members, missing) ==
  IF missing <= 0 THEN {}
  ELSE Select(cands, members, IF missing < Cardinality(cands) THEN missing ELSE Cardinality(cands))

\* Mutant: after a cut of the fraction the pool is cut to its target.
RoutedToSize(k, verified) == Promoted(verified, {}, Target(verified))

\* route_pool: the saved example fills a gap; what is still missing is promoted
\* from the others, against every member including the new one.
Routed(k, verified) ==
  LET target == Target(verified)
      direct == IF Cardinality(pool) < target THEN pool \cup {k} ELSE pool
  IN direct \cup Promoted(verified \ (direct \cup {k}), direct, target - Cardinality(direct))

SaveLabel(k, outcome) ==
  /\ label[k] \in {"none", "auto"}
  /\ label' = [label EXCEPT ![k] = outcome]
  /\ pool' = Routed(k, Verified \cup {k})
  /\ UNCHANGED <<guidance, fraction, wiped, evaluations, exports, splitCrashes>>

\* An outcome of a batch run.
AutoLabel(k) ==
  /\ label[k] = "none"
  /\ label' = [label EXCEPT ![k] = "auto"]
  /\ UNCHANGED <<guidance, fraction, pool, wiped, evaluations, exports, splitCrashes>>

\* PATCH of the project; the pool waits for the next save.
SetFraction(f) ==
  /\ f # fraction
  /\ fraction' = f
  /\ UNCHANGED <<guidance, label, pool, wiped, evaluations, exports, splitCrashes>>

Edit(semantic) ==
  /\ guidance < MaxVersions
  /\ guidance' = guidance + 1
  /\ IF semantic
     THEN /\ label' = [k \in Examples |-> "none"]
          /\ pool' = {}
          /\ wiped' = guidance'
     ELSE UNCHANGED <<label, pool, wiped>>
  /\ UNCHANGED <<fraction, evaluations, exports, splitCrashes>>

-----------------------------------------------------------------------------
(* Evaluations.                                                            *)

\* query_icl_candidates.
IclCandidates(gid) ==
  IF gid = guidance THEN {k \in Examples \ pool : label[k] = "Edit"} ELSE {}

\* start_evaluation_run with create_pool_snapshot.
EvalStart ==
  /\ eval.step = "off"
  /\ pool # {}
  /\ frozenPools' = frozenPools \cup {[gid |-> guidance, members |-> pool]}
  /\ eval' = [step |-> "live", gid |-> guidance, frozen |-> pool, left |-> pool, shown |-> {}]
  /\ UNCHANGED <<labels, exports, splitCrashes>>

\* One question to the Teacher, with the exemplars of this moment.  An edit has
\* the run failed; what it still asks finds no exemplars.
EvalAsk(k) ==
  /\ eval.step = "live" /\ k \in eval.left
  /\ eval' = [eval EXCEPT !.left = @ \ {k}, !.shown = @ \cup IclCandidates(eval.gid)]
  /\ UNCHANGED <<labels, frozenPools, exports, splitCrashes>>

EvalEnd ==
  /\ eval.step = "live"
  /\ eval.left = {} \/ eval.gid # guidance
  /\ eval' = NoEval
  /\ UNCHANGED <<labels, frozenPools, exports, splitCrashes>>

-----------------------------------------------------------------------------
(* Datasets.                                                               *)

\* _select_labels, under the Guidance that the caller pinned.
SelectLabels(intent, tier, gid) ==
  LET verified == IF tier = "auto_labeled_only" THEN {}
                  ELSE IF intent = "training" THEN Verified \ pool ELSE pool
      auto == IF tier = "verified_only" THEN {} ELSE {k \in Examples : label[k] = "auto"}
  IN IF gid = guidance THEN verified \cup auto ELSE {}

\* The data checks of the preflight.
TrainingDataIsReady == Verified \ pool # {} /\ Cardinality(pool) >= Required

SuiteStart(tier) ==
  /\ datasets.step = "off"
  /\ TrainingDataIsReady
  /\ datasets' = [NoDatasets EXCEPT !.step = "training", !.task = TRUE, !.gid = guidance, !.tier = tier]
  /\ UNCHANGED <<labels, evaluations, build, splitCrashes>>

\* The first worker thread: build, store and link the training dataset.
SuiteTrain ==
  /\ datasets.task /\ datasets.step = "training"
  /\ LET keys == SelectLabels("training", datasets.tier, datasets.gid)
     IN datasets' = IF keys = {} THEN [datasets EXCEPT !.step = "failed", !.task = FALSE]
                 ELSE [datasets EXCEPT !.step = "evaluation", !.train = keys]
  /\ UNCHANGED <<labels, evaluations, build, splitCrashes>>

\* The second one.
SuiteTest ==
  /\ datasets.task /\ datasets.step = "evaluation"
  /\ LET keys == SelectLabels("evaluation", "verified_only", datasets.gid)
     IN datasets' = IF Cardinality(keys) < Required
                 THEN [datasets EXCEPT !.step = "failed", !.task = FALSE]
                 ELSE [datasets EXCEPT !.step = "upload", !.test = keys]
  /\ UNCHANGED <<labels, evaluations, build, splitCrashes>>

\* The commit of the suite's jobs looks at the Guidance once more.
SuiteCommit ==
  /\ datasets.task /\ datasets.step = "upload"
  /\ datasets' = [datasets EXCEPT !.task = FALSE, !.step = IF datasets.gid = guidance THEN "committed" ELSE "failed"]
  /\ UNCHANGED <<labels, evaluations, build, splitCrashes>>

\* A crash fails the setup; the same request takes it up again if both
\* datasets are linked.
CrashedSuite ==
  IF datasets.step \in {"training", "evaluation"} THEN [datasets EXCEPT !.step = "failed", !.task = FALSE]
  ELSE [datasets EXCEPT !.task = FALSE]

SuiteResume ==
  /\ ~datasets.task /\ datasets.step = "upload"
  /\ datasets.gid = guidance /\ TrainingDataIsReady
  /\ datasets' = [datasets EXCEPT !.task = TRUE]
  /\ UNCHANGED <<labels, evaluations, build, splitCrashes>>

-----------------------------------------------------------------------------
(* Datasets of the API.  Only one is built at a time.                      *)

ExportStart ==
  /\ build.status # "running"
  /\ build' = [status |-> "running", task |-> TRUE, files |-> "none"]
  /\ UNCHANGED <<labels, evaluations, datasets, splitCrashes>>

\* The worker thread, partly and at its end.
ExportWrite ==
  /\ build.task /\ build.files # "all"
  /\ build' = [build EXCEPT !.files = IF @ = "none" THEN "some" ELSE "all"]
  /\ UNCHANGED <<labels, evaluations, datasets, splitCrashes>>

ExportDone ==
  /\ build.task /\ build.files = "all"
  /\ build' = [build EXCEPT !.status = "completed", !.task = FALSE]
  /\ UNCHANGED <<labels, evaluations, datasets, splitCrashes>>

\* An image is gone or the disk is full: the files go, then the row fails.
ExportFail ==
  /\ build.task /\ build.files # "all"
  /\ build' = [status |-> "failed", task |-> FALSE, files |-> "none"]
  /\ UNCHANGED <<labels, evaluations, datasets, splitCrashes>>

\* Mutant: recovery looks only at exports that have written nothing.
BuildIfUntouched ==
  IF build.status = "running" /\ build.files = "none" THEN [status |-> "failed", task |-> FALSE, files |-> "none"]
  ELSE [build EXCEPT !.task = FALSE]

\* recover_dataset_exports.
RecoveredBuild ==
  IF build.status = "running" THEN [status |-> "failed", task |-> FALSE, files |-> "none"]
  ELSE build

SplitCrash ==
  /\ splitCrashes < MaxSplitCrashes
  /\ splitCrashes' = splitCrashes + 1
  /\ eval' = NoEval
  /\ datasets' = CrashedSuite
  /\ build' = RecoveredBuild
  /\ UNCHANGED <<labels, frozenPools>>

-----------------------------------------------------------------------------

LabelNext ==
  \/ \E k \in Examples, outcome \in {"Accept", "Edit"} : SaveLabel(k, outcome)
  \/ \E k \in Examples : AutoLabel(k)
  \/ \E f \in Fractions : SetFraction(f)
  \/ \E semantic \in BOOLEAN : Edit(semantic)

EvalNext == EvalStart \/ EvalEnd \/ \E k \in Examples : EvalAsk(k)

SuiteNext ==
  \/ \E tier \in {"verified_only", "combined"} : SuiteStart(tier)
  \/ SuiteTrain \/ SuiteTest \/ SuiteCommit \/ SuiteResume

BuildNext == ExportStart \/ ExportWrite \/ ExportDone \/ ExportFail

SplitNext == LabelNext \/ EvalNext \/ SuiteNext \/ BuildNext \/ SplitCrash

\* The loop and its threads go on with a build.
SplitFair == WF_build(ExportWrite \/ ExportDone)

SplitSpec == SplitInit /\ [][SplitNext]_splitVars /\ SplitFair

-----------------------------------------------------------------------------
(* Properties.                                                             *)

\* What an evaluation scores is never shown to the Teacher as an exemplar, and
\* stays out of training data for as long as its label lives, so that
\* evaluations of one era compare and none measures what was taught
\* (query_icl_candidates, _select_labels, create_pool_snapshot).
EvaluatedStaysHeldOut ==
  /\ eval.frozen \cap eval.shown = {}
  /\ \A p \in frozenPools : p.gid >= wiped =>
       p.members \cap SelectLabels("training", "combined", guidance) = {}

\* A dataset export ends, whatever fails or crashes, and has its files exactly
\* if it completed (_execute_dataset_export, recover_dataset_exports).
ExportsSettle ==
  /\ []<>(build.status # "running")
  /\ [](build.status = "completed" => build.files = "all")
  /\ [](build.status = "failed" => build.files = "none")

\* "Test Pool examples are always excluded from training" (docs/API.md): of the
\* datasets of one suite, none measures what the other teaches.
SplitsAreDisjoint == datasets.train \cap datasets.test = {}
=============================================================================
