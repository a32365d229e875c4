-------------------------- MODULE MCEvaluationRuns --------------------------
(***************************************************************************)
(* Instances of EvaluationRuns for TLC, in two shapes: the lanes and       *)
(* passes of a single run over two examples, and two runs that rival over  *)
(* one example, with settings that change and Auto-Evaluate on.            *)
(***************************************************************************)
EXTENDS EvaluationRuns

CONSTANTS
  Shapes,                   \* which of the two are checked
  FirstRun, FirstKey, FirstSetting

VARIABLE shape

Lanes  == INSTANCE EvaluationRuns WITH AutoEvaluate <- FALSE, Settings <- {FirstSetting}
Rivals == INSTANCE EvaluationRuns WITH AutoEvaluate <- TRUE, Width <- 1, MaxPasses <- 0,
                                       Answers <- {"success"}

AllAnswers == {"success", "schema_invalid", "endpoint_error", "rate_limited", "rejected", "raise"}

Known == {s.run : s \in starting} \cup {r \in Runs : status[r] # "none"}

ShapedInit ==
  /\ shape \in Shapes
  /\ \/ shape = "lanes" /\ Lanes!Init
     \/ shape = "rivals" /\ Rivals!Init /\ pool \subseteq {FirstKey}

\* Runs are interchangeable: the first of them is the first to start.
ShapedNext ==
  /\ UNCHANGED shape
  /\ \/ shape = "lanes" /\ Lanes!Next /\ Known' \subseteq {FirstRun}
     \/ shape = "rivals" /\ Rivals!Next /\ pool' \subseteq {FirstKey}
  /\ Known' = {} \/ FirstRun \in Known'

ShapedExecutor(r) ==
  \/ shape = "lanes" /\ Lanes!Executor(r)
  \/ shape = "rivals" /\ Rivals!Executor(r)

ShapedHandler ==
  \/ shape = "lanes" /\ Lanes!Handler
  \/ shape = "rivals" /\ Rivals!Handler

ShapedFairness == WF_vars(\E r \in Runs : ShapedExecutor(r)) /\ WF_vars(ShapedHandler)

ShapedSpec == ShapedInit /\ [][ShapedNext]_<<vars, shape>> /\ ShapedFairness
=============================================================================
