------------------------ MODULE MCTrainingReadiness ------------------------
(***************************************************************************)
(* Questions to TrainingReadiness: rows of two projects of which at most   *)
(* two are selected.                                                       *)
(***************************************************************************)
EXTENDS TrainingReadiness

BaseRow(project, name, exact, trainable, base, pull) ==
  [project |-> project, name |-> name, exact |-> exact, trainable |-> trainable, base |-> base, pull |-> pull]

\* 1 and 2 may be selected; 3 is of another project; 4 is spelled in its own way,
\* 5 has no path to the Hub, 6 is no Student base, 7 is not there.
BaseRows(nano, super, elsewhere) ==
  <<nano, super, elsewhere, BaseRow(1, "nano", FALSE, TRUE, NoBase, "none"),
    BaseRow(1, "unmapped", TRUE, TRUE, NoBase, "none"), BaseRow(1, "nano", TRUE, FALSE, NoBase, "none")>>

NanoRows == {BaseRow(1, "nano", TRUE, TRUE, NoBase, "pulling"), BaseRow(1, "nano", TRUE, TRUE, "nano", "failed"),
             BaseRow(1, "nano", TRUE, TRUE, "nano", "pull_complete")}
SuperRows == {BaseRow(1, Super, TRUE, TRUE, NoBase, "none"), BaseRow(1, Super, TRUE, TRUE, Super, "pull_complete")}
Elsewhere == BaseRow(2, "nano", TRUE, TRUE, NoBase, "none")

Selections == {<<1>>, <<2, 1>>, <<2>>, <<4>>, <<1, 5>>, <<6>>, <<1, 7>>, <<3>>}

AllReady ==
  [about |-> "bases", project |-> 1, rows |-> BaseRows(Elsewhere, Elsewhere, Elsewhere), ids |-> <<>>,
   up |-> TRUE, timeouts |-> TRUE, booted |-> TRUE, identity |-> TRUE, workspace |-> TRUE,
   lora |-> FALSE, tagRejectsLora |-> TRUE, schemes |-> {}, token |-> TRUE, data |-> TRUE,
   guidance |-> TRUE, resumes |-> FALSE, pythons |-> <<"none", "none", "none", "bare">>,
   has |-> {}, silent |-> {}, transfers |-> TRUE, appears |-> SelfServed]

\* A launch with bases to fetch, and one for which something is not ready.
Fetching(nano, super, ids, lora, schemes, has, silent, transfers, appears) ==
  [AllReady EXCEPT !.rows = BaseRows(nano, super, Elsewhere), !.ids = ids, !.lora = lora, !.schemes = schemes,
                   !.has = has, !.silent = silent, !.transfers = transfers, !.appears = appears,
                   !.pythons = <<"none", "complete", "none", "bare">>]
NotReadied(nano, lora, up, booted, identity, data, guidance, token, resumes, pythons) ==
  [AllReady EXCEPT !.rows = BaseRows(nano, BaseRow(1, Super, TRUE, TRUE, Super, "pull_complete"), Elsewhere),
                   !.ids = <<1>>, !.lora = lora, !.up = up, !.booted = booted, !.identity = identity,
                   !.data = data, !.guidance = guidance, !.token = token, !.resumes = resumes,
                   !.pythons = pythons]

ReadinessQuestions ==
  {Fetching(nano, super, ids, lora, schemes, has, silent, transfers, appears) :
     nano \in NanoRows, super \in SuperRows, ids \in Selections, lora \in BOOLEAN, schemes \in {{}, {"FP8"}},
     has \in {{}, {"nano"}, SelfServed}, silent \in {{}, {Super}}, transfers \in BOOLEAN,
     appears \in {SelfServed, {"nano"}}}
   \cup
  {NotReadied(nano, lora, up, booted, identity, data, guidance, token, resumes, pythons) :
     nano \in NanoRows, lora \in BOOLEAN, up \in BOOLEAN, booted \in BOOLEAN, identity \in BOOLEAN,
     data \in BOOLEAN, guidance \in BOOLEAN, token \in BOOLEAN, resumes \in BOOLEAN,
     pythons \in {<<"none", "none", "none", "bare">>, <<"gone", "complete", "none", "bare">>,
                  <<"none", "none", "complete", "bare">>}}
=============================================================================
