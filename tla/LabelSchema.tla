---------------------------- MODULE LabelSchema ----------------------------
(***************************************************************************)
(* The schema of a Guidance: what makes it acceptable, what is derived     *)
(* from it, how an edit of it is classified and what becomes of the labels *)
(* saved under it, and when a value is valid.  Everything here is a pure   *)
(* function; BatchLabeling models when edits happen.                       *)
(*                                                                         *)
(*  - A field name is a number, in the order of the alphabet; a text is a  *)
(*    word, whose number is also its length, and the way it is written.    *)
(*  - A JSON value is a tuple that begins with its type.  The order of an  *)
(*    array, and what repeats in it, never matter: it is a set.            *)
(***************************************************************************)
EXTENDS Sequencing, FiniteSetsExt, SequencesExt, TLC

NoLimit   == -1  \* an absent minimum, maximum or length
Unusable  == -1  \* a name that is empty, too long or not an identifier
RationaleNote == 0   \* rationale_note

Text(w, how) == <<"text", w, how>>    \* how: "plain", "upper" or "padded"
Lowered(t) == t[2]
Stripped(t) == IF t[3] = "padded" THEN Text(t[2], "plain") ELSE t
Invalid == <<"invalid">>

Categorical == {"enum", "enum_set", "boolean"}
FieldTypes == Categorical \cup {"integer", "string"}

Core(fields) == {f \in ToSet(fields) : f.role = "core"}
Names(fields) == {f.name : f \in ToSet(fields)}

-----------------------------------------------------------------------------
(* Acceptable schemas.                                                     *)

Within(n, f) == (f.low = NoLimit \/ n >= f.low) /\ (f.high = NoLimit \/ n <= f.high)

ValuesAllowed(values) ==
  /\ Len(values) >= 2
  /\ \A i \in DOMAIN values : values[i][2] # 0
  /\ \A i, j \in DOMAIN values : Stripped(values[i]) = Stripped(values[j]) => i = j

ConstraintsAllowed(f) ==
  CASE f.type \in {"enum", "enum_set"} -> ValuesAllowed(f.allowed)
    [] f.type \in {"integer", "string"} -> NoLimit \in {f.low, f.high} \/ f.low <= f.high
    [] OTHER -> TRUE

\* The rationale is an Aux string, and comes before every other field.
RationaleAllowed(fields) ==
  \A f \in ToSet(fields) : f.name = RationaleNote => f.role = "aux" /\ f.type = "string"

RationaleFirst(fields) ==
  LET others == {f.order : f \in {g \in ToSet(fields) : g.name # RationaleNote}} IN
  [i \in DOMAIN fields |->
     IF fields[i].name = RationaleNote /\ others # {} /\ fields[i].order >= Min(others)
     THEN [fields[i] EXCEPT !.order = Min(others) - 1] ELSE fields[i]]

SaveAllowed(fields) ==
  /\ RationaleAllowed(fields)
  /\ \A i, j \in DOMAIN fields : fields[i].name = fields[j].name => i = j
  /\ \A f \in ToSet(fields) : f.name # Unusable /\ f.type \in FieldTypes /\ ConstraintsAllowed(f)
  /\ Core(fields) # {}

\* An edit keeps an id that the old schema knows; any other gets a new one.
IdsForEdit(old, new) ==
  LET known == {f.id : f \in ToSet(old)} IN
  [i \in DOMAIN new |->
     IF new[i].id \in known THEN new[i] ELSE [new[i] EXCEPT !.id = Max(known) + i]]

Processed(old, new) == RationaleFirst(IdsForEdit(old, new))

-----------------------------------------------------------------------------
(* What is derived: the order of generation, and the JSON Schema by it.    *)

InOrder(S) ==
  Sorted(S, LAMBDA f, g : f.order < g.order \/ (f.order = g.order /\ f.name < g.name))
NamesOf(seq) == [i \in DOMAIN seq |-> seq[i].name]

GenerationOrder(fields) ==
  LET others == {f \in ToSet(fields) : f.name # RationaleNote}
      rationale == IF RationaleNote \in Names(fields) THEN <<RationaleNote>> ELSE <<>>
  IN rationale \o NamesOf(InOrder({f \in others : f.role = "aux"}))
               \o NamesOf(InOrder({f \in others : f.role = "core"}))

PropertyOf(f) ==
  CASE f.type \in {"enum", "enum_set"} -> <<f.type, f.allowed>>
    [] f.type \in {"integer", "string"} -> <<f.type, f.low, f.high>>
    [] OTHER -> <<f.type>>

Derived(fields) ==
  LET order == GenerationOrder(fields)
      named(n) == CHOOSE f \in ToSet(fields) : f.name = n
  IN [order      |-> order,
      properties |-> [n \in Names(fields) |-> PropertyOf(named(n))],
      required   |-> Among(order, {n \in Names(fields) : named(n).role = "core"})]

\* The same for an Inference Contract that leaves fields out.
Serving(schema, mode, coreNames) ==
  LET kept == Among(schema.order, CASE mode = "all" -> ToSet(schema.order)
                                    [] mode = "aux_and_core" -> ToSet(schema.order) \ {RationaleNote}
                                    [] mode = "core_only" -> coreNames)
  IN [order      |-> kept,
      properties |-> [n \in ToSet(kept) |-> schema.properties[n]],
      required   |-> Among(schema.required, ToSet(kept))]

RationaleLast(schema) ==
  LET rest == Among(schema.order, ToSet(schema.order) \ {RationaleNote}) IN
  IF rest = schema.order THEN schema ELSE [schema EXCEPT !.order = Append(rest, RationaleNote)]

-----------------------------------------------------------------------------
(* Valid values.  A text is matched without regard to how it is written;   *)
(* of two allowed values that differ in this alone the last one wins.      *)

Spellings(f, w) == {i \in DOMAIN f.allowed : Lowered(f.allowed[i]) = w}
CanonicalText(f, w) == f.allowed[Max(Spellings(f, w))]
KnownText(f, v) == v[1] = "text" /\ Spellings(f, Lowered(v)) # {}

NormalizedEnum(v, f) == IF KnownText(f, v) THEN CanonicalText(f, Lowered(v)) ELSE Invalid

NormalizedSet(v, f) ==
  IF v[1] = "list" /\ \A e \in v[2] : KnownText(f, e)
  THEN <<"list", {CanonicalText(f, Lowered(e)) : e \in v[2]}>> ELSE Invalid

NormalizedBoolean(v) == IF v[1] = "bool" THEN v ELSE Invalid

\* A float that is whole is an integer, a boolean is not.
NormalizedInteger(v, f) ==
  IF v[1] \in {"int", "whole"} /\ Within(v[2], f) THEN <<"int", v[2]>> ELSE Invalid

NormalizedString(v, f) ==
  IF v[1] = "text" /\ Within(v[2], f) THEN Stripped(v) ELSE Invalid

Normalized(v, f) ==
  CASE f.type = "enum" -> NormalizedEnum(v, f)
    [] f.type = "enum_set" -> NormalizedSet(v, f)
    [] f.type = "boolean" -> NormalizedBoolean(v)
    [] f.type = "integer" -> NormalizedInteger(v, f)
    [] f.type = "string" -> NormalizedString(v, f)

ValidField(json, f) == f.name \in DOMAIN json /\ Normalized(json[f.name], f) # Invalid

\* A response that is no JSON object is not a function here.
NoObject == <<"no object">>

ValidateProposal(raw, fields) ==
  IF raw = NoObject \/ \E f \in Core(fields) : ~ ValidField(raw[2], f)
  THEN [valid |-> FALSE, json |-> <<>>]
  ELSE LET kept == {f \in ToSet(fields) : ValidField(raw[2], f)} IN
       [valid |-> TRUE,
        json  |-> [n \in {f.name : f \in kept} |->
                     Normalized(raw[2][n], CHOOSE f \in kept : f.name = n)]]

\* A stored label: what does not normalize is left as it is.
NormalizeGroundTruth(json, fields) ==
  [n \in DOMAIN json |->
     LET S == {f \in ToSet(fields) : f.name = n /\ ValidField(json, f)} IN
     IF S = {} THEN json[n] ELSE Normalized(json[n], CHOOSE f \in S : TRUE)]

-----------------------------------------------------------------------------
(* Edits.                                                                  *)

Change(what, f, from, to, semantic) ==
  [what |-> what, field |-> f.name, from |-> from, to |-> to, semantic |-> semantic]

CoreOnly(f) == f.role = "core"

AllowedSet(f) == ToSet(f.allowed)

ValueChanges(o, n) ==
  LET removed == AllowedSet(o) \ AllowedSet(n)
      added == AllowedSet(n) \ AllowedSet(o)
  IN IF removed = {} /\ added = {} THEN {}
     ELSE IF Len(o.allowed) = Len(n.allowed) /\ Cardinality(removed) = 1 /\ Cardinality(added) = 1
     THEN {Change("enum_value_rename", n, CHOOSE t \in removed : TRUE,
                  CHOOSE t \in added : TRUE, FALSE)}
     ELSE {Change("allowed_value_change", n, removed, added, CoreOnly(o))}

ConstraintChanges(o, n) ==
  IF o.type \notin {"integer", "string"} THEN {}
  ELSE {Change("constraint_change", n, pair[1], pair[2], CoreOnly(o)) :
          pair \in {p \in {<<o.low, n.low>>, <<o.high, n.high>>} : p[1] # p[2]}}

SameTypeChanges(o, n) ==
  ConstraintChanges(o, n)
    \cup (IF o.type \in {"enum", "enum_set"} THEN ValueChanges(o, n) ELSE {})
    \cup (IF o.order = n.order THEN {}
          ELSE {Change("display_order_change", n, o.order, n.order, FALSE)})

FieldChanges(o, n) ==
  IF o.role # n.role THEN {Change("role_change", n, o.role, n.role, TRUE)}
  ELSE (IF o.name = n.name THEN {} ELSE {Change("field_rename", n, o.name, n.name, FALSE)})
       \cup (IF o.type = n.type THEN SameTypeChanges(o, n)
             ELSE {Change("type_change", n, o.type, n.type, CoreOnly(o))})

\* classify_edits: fields are the same if their ids are.  That a submitted edit
\* repeats an id, of which the code would see the last field only, is left out.
ClassifyEdits(old, new) ==
  LET kept == {pair \in ToSet(old) \X ToSet(new) : pair[1].id = pair[2].id}
      gone == ToSet(old) \ {pair[1] : pair \in kept}
      come == ToSet(new) \ {pair[2] : pair \in kept}
  IN {Change("remove_field", f, 0, 0, CoreOnly(f)) : f \in gone}
       \cup {Change("add_field", f, 0, 0, CoreOnly(f)) : f \in come}
       \cup UNION {FieldChanges(pair[1], pair[2]) : pair \in kept}

EditType(changes) ==
  IF changes = {} THEN "no_change"
  ELSE IF \E c \in changes : c.semantic THEN "semantic" ELSE "in_place"

\* Mutant: one rename after the other, each against what the last one left.
RenamedInTurn(json, renames) ==
  FoldSet(LAMBDA c, j :
            IF c.from \notin DOMAIN j THEN j
            ELSE (c.to :> j[c.from]) @@ [n \in DOMAIN j \ {c.from} |-> j[n]],
          json, renames)

\* _propagate_field_renames: all renames against the label as it was, and the
\* renamed values win.
RenamedFields(json, renames) ==
  LET hit == {c \in renames : c.from \in DOMAIN json} IN
  IF hit = {} THEN json
  ELSE LET come == {c.to : c \in hit}
       IN [n \in come \cup (DOMAIN json \ {c.from : c \in renames}) |->
             IF n \in come THEN json[(CHOOSE c \in hit : c.to = n).from] ELSE json[n]]

\* _propagate_enum_value_renames: by the field's new name.
RenamedValue(v, c) ==
  CASE v = c.from -> c.to
    [] v[1] = "list" -> <<"list", {IF e = c.from THEN c.to ELSE e : e \in v[2]}>>
    [] OTHER -> v

RenamedValues(json, renames) ==
  [n \in DOMAIN json |->
     LET S == {c \in renames : c.field = n} IN
     IF S = {} THEN json[n] ELSE RenamedValue(json[n], CHOOSE c \in S : TRUE)]

Propagated(json, changes) ==
  RenamedValues(RenamedFields(json, {c \in changes : c.what = "field_rename"}),
                {c \in changes : c.what = "enum_value_rename"})

-----------------------------------------------------------------------------
(* Matching, which only compares Core fields.                              *)

Matched(p, t, f) ==
  \/ f.name \in DOMAIN p /\ f.name \in DOMAIN t /\ p[f.name] = t[f.name]
  \/ f.name \notin DOMAIN p \cup DOMAIN t

ExactMatch(p, t, fields) == \A f \in Core(fields) : Matched(p, t, f)

-----------------------------------------------------------------------------
(* Promises.                                                               *)

\* The canonical labels under a schema whose words are at most 2.
CanonicalValues(f) ==
  CASE f.type = "enum" -> AllowedSet(f)
    [] f.type = "enum_set" -> {<<"list", S>> : S \in SUBSET AllowedSet(f)}
    [] f.type = "boolean" -> {<<"bool", b>> : b \in BOOLEAN}
    [] f.type = "integer" -> {<<"int", n>> : n \in {m \in 0..2 : Within(m, f)}}
    [] f.type = "string" -> {Text(n, "plain") : n \in {m \in 0..2 : Within(m, f)}}

LabelsUnder(fields) ==
  LET named(n) == CHOOSE f \in ToSet(fields) : f.name = n
      values == UNION {CanonicalValues(f) : f \in ToSet(fields)}
  IN UNION {{l \in [N -> values] : \A n \in N : l[n] \in CanonicalValues(named(n))} :
              N \in {M \in SUBSET Names(fields) : {f.name : f \in Core(fields)} \subseteq M}}

Twins(fields) ==
  \E f \in ToSet(fields) : \E s, t \in AllowedSet(f) : s # t /\ Lowered(s) = Lowered(t)

\* An edit that is not classified semantic costs no label anything: each stays
\* valid and canonical on the Core fields, and two labels agree after it
\* exactly if they agreed before, whatever names and values were exchanged.
\* Allowed values must differ in more than how they are written
\* (classify_edits, _propagate_field_renames, _propagate_enum_value_renames).
LabelsSurviveEdit(old, submitted, labels) ==
  LET new == Processed(old, submitted)
      changes == ClassifyEdits(old, new)
      after == [l \in labels |-> Propagated(l, changes)]
  IN SaveAllowed(new) /\ EditType(changes) # "semantic" /\ ~ Twins(new) =>
       /\ \A l \in labels : \A f \in Core(new) :
            ValidField(after[l], f) /\ Normalized(after[l][f.name], f) = after[l][f.name]
       /\ \A l, m \in labels :
            ExactMatch(l, m, old) <=> ExactMatch(after[l], after[m], new)

\* No projection of a schema stops asking for a Core field, or puts one before
\* the rationale it was to follow (filter_output_schema_for_field_mode).
ServingAsksForCore(fields) ==
  LET schema == Derived(fields)
      coreNames == {f.name : f \in Core(fields)}
  IN \A mode \in {"all", "aux_and_core", "core_only"} :
       LET served == Serving(schema, mode, coreNames) IN
       /\ ToSet(served.required) = coreNames
       /\ \A i, j \in DOMAIN served.order :
            served.order[i] = RationaleNote /\ served.order[j] \in coreNames => i < j
       /\ Serving(RationaleLast(schema), mode, coreNames).required = served.required

\* What is accepted once is accepted again and stays as it is, and what could
\* not be used never counts as right, not even where nothing is to be said
\* (validate_proposal, normalize_ground_truth, match_fields).
AcceptedStays(raw, fields) ==
  LET report == ValidateProposal(raw, fields) IN
  IF report.valid
  THEN /\ NormalizeGroundTruth(report.json, fields) = report.json
       /\ ValidateProposal(<<"object", report.json>>, fields) = report
       /\ ExactMatch(report.json, NormalizeGroundTruth(raw[2], fields), fields)
  ELSE \A l \in LabelsUnder(fields) : ~ ExactMatch(<<>>, l, fields)
=============================================================================
