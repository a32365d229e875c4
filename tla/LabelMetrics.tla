---------------------------- MODULE LabelMetrics ----------------------------
(***************************************************************************)
(* What an evaluation says of a Teacher's answers, and the Scale-Up gate   *)
(* that is computed from it: rates per Core field, precision, recall and   *)
(* F1 per categorical value, coverage of the schema's values, and the five *)
(* criteria.                                                               *)
(*                                                                         *)
(*  - A rate is a pair <<numerator, denominator>>; floats and their        *)
(*    rounding for display are left out.                                   *)
(*  - A result is a pair of normalized labels: predicted and true.  What   *)
(*    could not be used predicts nothing.                                  *)
(***************************************************************************)
EXTENDS LabelSchema

Zero == <<0, 1>>
Ratio(n, d) == IF d = 0 THEN Zero ELSE <<n, d>>
AtLeast(r, s) == r[1] * s[2] >= s[1] * r[2]
Plus(r, s) == <<r[1] * s[2] + s[1] * r[2], r[2] * s[2]>>
Mean(F) == IF DOMAIN F = {} THEN Zero
           ELSE LET sum == FoldSet(LAMBDA k, acc : Plus(F[k], acc), Zero, DOMAIN F)
                IN <<sum[1], sum[2] * Cardinality(DOMAIN F)>>
Count(seq, Test(_)) == Cardinality({i \in DOMAIN seq : Test(seq[i])})

-----------------------------------------------------------------------------
(* Aggregates: compute_aggregate_metrics.                                  *)

ExactMatchRate(results, fields) ==
  Ratio(Count(results, LAMBDA r : ExactMatch(r[1], r[2], fields)), Len(results))

FieldRate(results, f) == Ratio(Count(results, LAMBDA r : Matched(r[1], r[2], f)), Len(results))

\* The values of a categorical field, and those that a label carries.
ValuesOf(f) == IF f.type = "boolean" THEN BOOLEAN ELSE {Lowered(t) : t \in AllowedSet(f)}
ValuesIn(json, f) ==
  IF f.name \notin DOMAIN json THEN {}
  ELSE CASE f.type = "enum_set" -> {Lowered(t) : t \in json[f.name][2]}
         [] f.type = "enum" -> {Lowered(json[f.name])}
         [] f.type = "boolean" -> {json[f.name][2]}

F1(precision, recall) ==
  LET sum == Plus(precision, recall) IN
  IF sum[1] = 0 THEN Zero
  ELSE <<2 * precision[1] * recall[1] * sum[2], precision[2] * recall[2] * sum[1]>>

ValueMetrics(results, f, v) ==
  LET tp == Count(results, LAMBDA r : v \in ValuesIn(r[1], f) /\ v \in ValuesIn(r[2], f))
      fp == Count(results, LAMBDA r : v \in ValuesIn(r[1], f) /\ v \notin ValuesIn(r[2], f))
      fn == Count(results, LAMBDA r : v \notin ValuesIn(r[1], f) /\ v \in ValuesIn(r[2], f))
  IN [precision |-> Ratio(tp, tp + fp), recall |-> Ratio(tp, tp + fn),
      f1 |-> F1(Ratio(tp, tp + fp), Ratio(tp, tp + fn))]

CategoricalCore(fields) == {f \in Core(fields) : f.type \in Categorical}

Aggregate(results, fields) ==
  LET perValue(f) == [v \in ValuesOf(f) |-> ValueMetrics(results, f, v)]
      macro(f) == Mean([v \in ValuesOf(f) |-> perValue(f)[v].f1])
      categorical == IF Len(results) = 0 THEN {} ELSE CategoricalCore(fields)
  IN [exact    |-> ExactMatchRate(results, fields),
      perField |-> IF Len(results) = 0 THEN <<>>
                   ELSE [f \in Core(fields) |-> FieldRate(results, f)],
      perValue |-> [f \in categorical |-> perValue(f)],
      macro    |-> Mean([f \in categorical |-> macro(f)])]

\* _compute_coverage_gaps: values of the schema that no ground truth shows.
Gaps(truths, f) ==
  LET shown == UNION {ValuesIn(t, f) : t \in ToSet(truths)}
      numbers == {t[f.name][2] : t \in {u \in ToSet(truths) : f.name \in DOMAIN u}}
  IN CASE f.type \in Categorical -> ValuesOf(f) \ shown
       [] f.type = "integer" /\ NoLimit \notin {f.low, f.high} -> (f.low .. f.high) \ numbers
       [] OTHER -> {}

-----------------------------------------------------------------------------
(* The Scale-Up gate.                                                      *)

\* Completed runs of the Teacher under the current Core schema, newest first.
EraTeacherEvals(runs, floor) ==
  AtPositions(runs, {i \in DOMAIN runs : /\ runs[i].status = "completed" /\ runs[i].by = "teacher"
                                         /\ runs[i].version >= floor})

AcceptRate(outcomes, window) ==
  LET last == SubSeq(outcomes, 1, IF Len(outcomes) < window THEN Len(outcomes) ELSE window)
  IN Ratio(Count(last, LAMBDA o : o = "Accept"), Len(last))

QualityCriteria(metrics, needs, hasCategorical) ==
  /\ AtLeast(metrics.exact, needs.exact)
  /\ DOMAIN metrics.perField # {}
  /\ \A f \in DOMAIN metrics.perField : AtLeast(metrics.perField[f], needs.field)
  /\ IF DOMAIN metrics.perValue = {} THEN ~ hasCategorical
     ELSE \A f \in DOMAIN metrics.perValue : \A v \in DOMAIN metrics.perValue[f] :
            AtLeast(metrics.perValue[f][v].f1, needs.f1)

\* q: the project's runs newest first, the floor of its era, its fields, the
\* outcomes of its verified labels newest first, its pool and its thresholds.
Ready(q) ==
  LET evals == EraTeacherEvals(q.runs, q.floor) IN
  /\ evals # <<>>
  /\ QualityCriteria(Aggregate(evals[1].results, q.fields), q.needs, CategoricalCore(q.fields) # {})
  /\ AtLeast(AcceptRate(q.outcomes, q.window), q.needs.accepted) /\ q.outcomes # <<>>
  /\ q.pool >= q.needs.pool

-----------------------------------------------------------------------------
(* Promises.                                                               *)

\* Scale-Up is never offered on a schema value that nobody has tested: if the
\* gate is ready, the evaluation that says so was the Teacher's, of this era,
\* it got something right of every value of every categorical Core field, and
\* the coverage of its pool has no gap there (compute_scaleup_gate,
\* _compute_coverage_gaps).
ReadyMeansCovered(q) ==
  Ready(q) =>
    \E i \in DOMAIN q.runs :
      /\ q.runs[i].status = "completed" /\ q.runs[i].by = "teacher" /\ q.runs[i].version >= q.floor
      /\ \A j \in 1 .. i - 1 :
           q.runs[j].status # "completed" \/ q.runs[j].by # "teacher" \/ q.runs[j].version < q.floor
      /\ \A f \in CategoricalCore(q.fields) :
           /\ Gaps([k \in DOMAIN q.runs[i].results |-> q.runs[i].results[k][2]], f) = {}
           /\ \A v \in ValuesOf(f) : \E k \in DOMAIN q.runs[i].results :
                v \in ValuesIn(q.runs[i].results[k][1], f) \cap ValuesIn(q.runs[i].results[k][2], f)

\* The numbers agree with each other: an exact match is one in each field, a
\* field all of whose results match has F1 = 1 for the values it shows, and the
\* matches of a field with one value each are its true positives.
MetricsAgree(results, fields) ==
  LET all == Aggregate(results, fields) IN
  \A f \in DOMAIN all.perField :
    /\ AtLeast(all.perField[f], all.exact)
    /\ f \in CategoricalCore(fields) /\ AtLeast(all.perField[f], <<1, 1>>) =>
         \A v \in UNION {ValuesIn(r[2], f) : r \in ToSet(results)} :
           AtLeast(all.perValue[f][v].f1, <<1, 1>>)
=============================================================================
