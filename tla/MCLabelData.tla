---------------------------- MODULE MCLabelData ----------------------------
(***************************************************************************)
(* Questions to LabelSchema and LabelMetrics: edits of two schemas,        *)
(* answers of a model, and the results of evaluations.                     *)
(***************************************************************************)
EXTENDS LabelMetrics

Field(id, name, role, type, allowed, low, high, order) ==
  [id |-> id, name |-> name, role |-> role, type |-> type, allowed |-> allowed,
   low |-> low, high |-> high, order |-> order]

P(w) == Text(w, "plain")
Values == <<P(1), P(2)>>

Kind1 == Field(1, 1, "core", "enum", Values, NoLimit, NoLimit, 0)
Kinds2 == Field(2, 2, "core", "enum_set", Values, NoLimit, NoLimit, 1)
Number3 == Field(3, 3, "aux", "integer", <<>>, 0, 1, 1)
OldSchema == <<Kind1, Kinds2, Number3>>
OldLabels == LabelsUnder(OldSchema)

-----------------------------------------------------------------------------
(* Edits: any exchange of the names with what else may become of a field.  *)

Kind1Edits ==
  {[Kind1 EXCEPT !.allowed = a] :
     a \in {Values, <<P(2), P(1)>>, <<P(1), P(3)>>, <<Text(1, "upper"), P(2)>>,
            <<P(1), Text(1, "upper")>>, <<P(1), P(2), P(3)>>, <<P(3), P(0)>>}}
    \cup {[Kind1 EXCEPT !.role = "aux"], [Kind1 EXCEPT !.type = "boolean"],
          [Kind1 EXCEPT !.order = 2], [Kind1 EXCEPT !.id = 0]}
Kinds2Edits == {[Kinds2 EXCEPT !.allowed = a] : a \in {Values, <<P(3), P(2)>>, <<P(3), P(4)>>}}
Number3Edits == {Number3, [Number3 EXCEPT !.role = "core"], [Number3 EXCEPT !.high = -1],
                 [Number3 EXCEPT !.type = "string"], [Number3 EXCEPT !.low = 2]}
Added == {<<>>, <<Field(0, 3, "aux", "boolean", <<>>, NoLimit, NoLimit, 0)>>,
          <<Field(0, 4, "core", "boolean", <<>>, NoLimit, NoLimit, 3)>>}

EditQuestions ==
  {[about |-> "edit",
    new |-> SubSeq(<<[a EXCEPT !.name = n[1]], [b EXCEPT !.name = n[2]],
                     [c EXCEPT !.name = n[3]]>>, 1, kept) \o added] :
     a \in Kind1Edits, b \in Kinds2Edits, c \in Number3Edits, added \in Added,
     n \in {m \in [1..3 -> {0, 1, 2, 3}] : m[1] # 0 /\ m[2] # 0 /\ m[1] # m[2]}, kept \in {2, 3}}

-----------------------------------------------------------------------------
(* Answers, to a schema with a rationale and one with a field of each kind *)

Note == Field(4, RationaleNote, "aux", "string", <<>>, NoLimit, NoLimit, -1)
Flag == Field(5, 5, "core", "boolean", <<>>, NoLimit, NoLimit, 0)
Line == Field(6, 6, "core", "string", <<>>, 1, 2, 0)
Twin1 == [Kind1 EXCEPT !.allowed = <<P(1), Text(1, "upper"), Text(2, "padded")>>]
AnswerSchemas == {<<Kinds2, Note>>, <<Kind1, Number3>>, <<Twin1, Kinds2>>, <<Flag>>, <<Note, Line>>,
                  <<[Number3 EXCEPT !.role = "core"], Note>>}

Raw == {P(1), Text(1, "upper"), Text(2, "padded"), P(3), P(0), <<"bool", TRUE>>, <<"int", 1>>,
        <<"int", 2>>, <<"whole", 1>>, <<"fraction">>, <<"null">>}
         \cup {<<"list", S>> : S \in SUBSET {P(1), Text(1, "upper"), Text(2, "padded"), P(3)}}
Absent == <<"absent">>

\* The response says something of the two fields of the schema, or is no object.
Responses(fields) ==
  {<<"object", [n \in {m \in Names(fields) : j[m] # Absent} |-> j[n]]>> :
     j \in [Names(fields) -> Raw \cup {Absent}]} \cup {NoObject}

AnswerQuestions ==
  UNION {{[about |-> "answer", fields |-> s, raw |-> r] : r \in Responses(s)} : s \in AnswerSchemas}

-----------------------------------------------------------------------------
(* Evaluations of two images, and what the gate makes of them.             *)

ScoredSchemas == <<<<Kind1, Number3>>, <<Flag>>, <<Kinds2, Note>>, <<Line>>>>
Results(fields) ==
  LET labels == {l \in LabelsUnder(fields) : DOMAIN l = {f.name : f \in Core(fields)}}
  IN (labels \cup {<<>>}) \X labels

ScoreQuestions ==
  UNION {{[about |-> "score", schema |-> i, results |-> r] :
            r \in {<<>>} \cup (Results(ScoredSchemas[i]) \X Results(ScoredSchemas[i]))} :
         i \in DOMAIN ScoredSchemas}

Run(status, by, version, results) ==
  [status |-> status, by |-> by, version |-> version, results |-> results]
Half == [exact |-> <<1, 2>>, field |-> <<1, 2>>, f1 |-> <<1, 2>>, accepted |-> <<1, 2>>, pool |-> 2]

Right(r) == [i \in DOMAIN r |-> <<r[i][2], r[i][2]>>]

\* Asked in short, and in full.
GateQuestions ==
  UNION {{[about |-> "gate", schema |-> i, results |-> r, newer |-> newer, version |-> version,
           outcomes |-> outcomes] :
            r \in Results(ScoredSchemas[i]) \X Results(ScoredSchemas[i]),
            newer \in {"nothing", "failed", "student"}, version \in {1, 2},
            outcomes \in {"none", "few", "enough"}} : i \in DOMAIN ScoredSchemas}

Asked(q) ==
  [fields |-> ScoredSchemas[q.schema], floor |-> 2, needs |-> Half, window |-> 2, pool |-> 2,
   runs |-> CASE q.newer = "nothing" -> <<Run("completed", "teacher", q.version, q.results)>>
              [] q.newer = "failed" -> <<Run("failed", "teacher", 2, Right(q.results)),
                                         Run("completed", "teacher", q.version, q.results)>>
              [] q.newer = "student" -> <<Run("completed", "student", 2, Right(q.results)),
                                          Run("completed", "teacher", q.version, q.results)>>,
   outcomes |-> CASE q.outcomes = "none" -> <<>>
                  [] q.outcomes = "few" -> <<"Edit", "Edit", "Accept">>
                  [] q.outcomes = "enough" -> <<"Edit", "Accept", "Edit">>]

-----------------------------------------------------------------------------

\* Labels keep their meaning: through an edit of the schema, as the answer of a
\* model, and as the measure of one (schema_core, edit_classification,
\* schema_evolution_service, exact_match_evaluator, compute_scaleup_gate).
LabelsAreTakenAtTheirWord(q) ==
  CASE q.about = "edit" -> /\ LabelsSurviveEdit(OldSchema, q.new, OldLabels)
                           /\ SaveAllowed(q.new) => ServingAsksForCore(q.new)
    [] q.about = "answer" -> AcceptedStays(q.raw, q.fields)
    [] q.about = "score" -> MetricsAgree(q.results, ScoredSchemas[q.schema])
    [] q.about = "gate" -> ReadyMeansCovered(Asked(q))
    [] OTHER -> TRUE
=============================================================================
