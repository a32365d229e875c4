---------------------------- MODULE MCProjectData ----------------------------
(***************************************************************************)
(* Parts of a project's data that do not meet, checked by one run: the     *)
(* scene, chosen at the start, says which of them a behaviour is about.    *)
(* The others stay where they begin.                                       *)
(***************************************************************************)
EXTENDS DataSplit, Diversity, SuiteSetup, TeacherCapabilities, StudentRecords, Archiving, HostedCalls,
        MCLabelData, MCInvocation, MCHostReadiness, MCTrainingReadiness

VARIABLES
  scene,     \* the part this behaviour is about
  question   \* what the choices are asked for, and labels are asked of

dataVars == <<scene, question, splitVars, vars, teacherVars, studentVars, archiveVars, hostedVars>>

NoQuestion == [about |-> "nothing"]
HalfOrNone == {<<0, 1>>, <<2, 3>>}
NoneOrAll == {{}, Controls}

\* Three images that all carry the signal, two of them alike.
TwoAlike == [has |-> {1, 2, 3},
             dist |-> [a \in 1..3 |-> [b \in 1..3 |->
                        IF a = b THEN 0 ELSE IF {a, b} = {1, 2} THEN 1 ELSE 2]]]

\* The selection of Diversity among them.
ByLikeness(cands, members, n) == Range(PoolSelect(Ascending(cands), members, TwoAlike, n))

-----------------------------------------------------------------------------
(* Questions to the choices of Diversity: four images, at distance 1 or 2. *)

Pairs == {p \in SUBSET (1..4) : Cardinality(p) = 2}
Measures == {[has |-> has, dist |-> [a \in 1..4 |-> [b \in 1..4 |->
                IF a = b THEN 0 ELSE IF {a, b} \in far THEN 2 ELSE 1]]] :
              has \in {1..4, {1, 2, 4}, {2, 3}, {}}, far \in SUBSET Pairs}

PoolQuestions ==
  {[about |-> "pool", cands |-> cands, refs |-> refs, measure |-> measure, n |-> n] :
     cands \in {1..3, 2..3, {}}, refs \in {{}, {4}}, measure \in Measures, n \in {1, 2}}

ReviewQuestions ==
  {[about |-> "review", cands |-> {4}, prior |-> prior, corrected |-> {2}, context |-> context,
    refs |-> refs, measure |-> measure] :
     prior \in {{}, 1..3, 2..3}, context \in {NoKey, 3}, refs \in {{}, {4}},
     measure \in {m \in Measures : m.has # {}}}

IclQuestions ==
  {[about |-> "icl", cands |-> <<2, 1, 3>>, has |-> has, near |-> near, cost |-> <<1, 2, 1>>,
    knobs |-> [gap |-> gap, floor |-> floor, depth |-> depth], budget |-> budget, images |-> images] :
     has \in {1..3, {1, 3}, {}}, near \in [1..3 -> 0..2], gap \in {NoCap, 1},
     floor \in {NoCap, 1}, depth \in {NoCap, 2}, budget \in 0..3, images \in {0, 2, 3}}

-----------------------------------------------------------------------------

Scenes == {"setup", "pool", "training", "exports", "choices", "teacher", "students", "archiving",
           "hosted", "labels"}

\* What varies at the start does so in its scene only.  No base is there before
\* it was provisioned.
Quiet ==
  /\ scene \notin {"pool", "training", "exports"} => fraction = <<0, 1>>
  /\ pull = [b \in Bases |-> "absent"]
  /\ scene # "teacher" => refuses = [e \in Endpoints |-> {}] /\ bound = Unasked.at

DataInit ==
  /\ scene \in Scenes
  /\ SplitInit /\ Init /\ TeacherInit /\ StudentInit /\ ArchiveInit /\ HostedInit
  /\ Quiet
  /\ question \in CASE scene = "choices" -> PoolQuestions \cup ReviewQuestions \cup IclQuestions
                                              \cup RoomQuestions \cup ImageQuestions
                                              \cup ResponseQuestions \cup HostQuestions
                                              \cup ReadinessQuestions
                    [] scene = "labels" -> EditQuestions \cup AnswerQuestions
                                             \cup ScoreQuestions \cup GateQuestions
                    [] OTHER -> {NoQuestion}

SplitScene ==
  \/ scene \in {"pool", "training"} /\ LabelNext
  \/ scene = "pool" /\ EvalNext
  \/ scene = "training" /\ SuiteNext
  \/ scene = "exports" /\ BuildNext
  \/ scene \in {"pool", "training", "exports"} /\ SplitCrash

DataNext ==
  /\ UNCHANGED <<scene, question>>
  /\ \/ SplitScene /\ UNCHANGED <<vars, teacherVars, studentVars, archiveVars, hostedVars>>
     \/ /\ scene = "setup" /\ Next
        /\ UNCHANGED <<splitVars, teacherVars, studentVars, archiveVars, hostedVars>>
     \/ /\ scene = "teacher" /\ TeacherNext
        /\ UNCHANGED <<splitVars, vars, studentVars, archiveVars, hostedVars>>
     \/ /\ scene = "students" /\ StudentNext
        /\ UNCHANGED <<splitVars, vars, teacherVars, archiveVars, hostedVars>>
     \/ /\ scene = "archiving" /\ ArchiveNext
        /\ UNCHANGED <<splitVars, vars, teacherVars, studentVars, hostedVars>>
     \/ /\ scene = "hosted" /\ HostedNext
        /\ UNCHANGED <<splitVars, vars, teacherVars, studentVars, archiveVars>>

\* Nobody asks the Teacher where another part is played.
KeepsAsking == SF_teacherVars(scene = "teacher" /\ AsksUnthinking)

DataSpec ==
  /\ DataInit /\ [][DataNext]_dataVars
  /\ SplitFair /\ Fairness /\ TeacherFair /\ KeepsAsking /\ StudentFair /\ ArchiveFair

\* Each choice by likeness keeps its promises, for each question, and so does
\* each request that is made up of them (pool_service, review_selector_service,
\* icl_service, prompt_service), each choice of a GPU or of who runs on it
\* (environment, local_nim_service), and each launch of a suite with the bases it
\* lacks (training_preflight_service, tao_base_experiment_provisioning_service).
ChoicesKeepTheirPromises ==
  CASE question.about = "pool" -> PoolChoiceIsSound(question)
    [] question.about = "review" -> ReviewChoiceIsSound(question)
    [] question.about = "icl" -> ExemplarsAreTheMostRelevant(question)
    [] question.about = "invocation" -> InvocationIsSound(question)
    [] question.about = "host" -> HostKeepsItsWord(question)
    [] question.about = "bases" -> TrainingIsReady(question)
    [] OTHER -> TRUE

\* See MCLabelData.
LabelsKeepTheirMeaning == LabelsAreTakenAtTheirWord(question)
=============================================================================
