---------------------------- MODULE MCInvocation ----------------------------
(***************************************************************************)
(* Questions to Invocation: three exemplars at most, the settings as they  *)
(* are delivered or with the operator's override, and files of every kind  *)
(* that the code tells apart.                                              *)
(***************************************************************************)
EXTENDS Invocation

YesNo(role) == [kind |-> "boolean", role |-> role]
AmongThese(values) == [kind |-> "enum", role |-> "core", key |-> 4, values |-> values]
ManyOf(values) == [kind |-> "enum_set", role |-> "core", key |-> 4, values |-> values]
WordsUpTo(longest) == [kind |-> "string", role |-> "aux", key |-> 4, longest |-> longest]
WholeNumber == [kind |-> "integer", role |-> "aux"]
ReasonField == [kind |-> "rationale", role |-> "aux"]

AskedSchemas == {<<AmongThese(<<2, 30, 1>>), WordsUpTo(401), ReasonField>>,
                 <<ManyOf(<<380, 420>>), WordsUpTo(NoCap), WholeNumber>>}

FileOf(of, format, pages, edge, readable) ==
  [of |-> of, format |-> format, pages |-> pages, edge |-> edge, readable |-> readable]
PlainFiles == [k \in 0..3 |-> FileOf(k, "JPEG", 1, 2, TRUE)]

AnswerWith(error, cut, valid) == [error |-> error, cut |-> cut, valid |-> valid]
GoodAnswer == AnswerWith("none", FALSE, TRUE)
CutAnswer == AnswerWith("none", TRUE, FALSE)
WholeButCut == AnswerWith("none", TRUE, TRUE)
AnswerPairs == {<<GoodAnswer, GoodAnswer>>, <<CutAnswer, GoodAnswer>>, <<CutAnswer, CutAnswer>>,
                <<CutAnswer, WholeButCut>>, <<WholeButCut, AnswerWith("other", FALSE, FALSE)>>,
                <<CutAnswer, AnswerWith("timed_out", FALSE, FALSE)>>,
                <<AnswerWith("429", FALSE, FALSE), GoodAnswer>>, <<AnswerWith("other", FALSE, FALSE), GoodAnswer>>}

AskedPlainly ==
  [about |-> "invocation", s |-> Delivered, fields |-> <<YesNo("core")>>, mode |-> "all",
   iclMode |-> "core_only", toggle |-> "switch", listens |-> TRUE, thinking |-> TRUE, window |-> 32768,
   cands |-> <<2, 1, 3>>, has |-> 1..3, near |-> [k \in 1..3 |-> k], embedded |-> TRUE,
   labels |-> [k \in 1..3 |-> <<8, 90, 0>>], fixed |-> 300, depth |-> NoCap, modelDepth |-> NoCap,
   maxImages |-> 4, queried |-> TRUE, stored |-> 1..3, files |-> PlainFiles, limit |-> 3,
   answers |-> <<GoodAnswer, GoodAnswer>>, icl |-> "enabled"]

\* Room: from a window too small for the settings to one that never binds.
InRoom(o, f, m, t, w, fixed, size, i) ==
  [AskedPlainly EXCEPT !.s.override = o, !.fields = f, !.mode = m, !.toggle = t[1], !.listens = t[2],
                       !.thinking = t[3], !.window = w, !.fixed = fixed, !.answers = <<CutAnswer, GoodAnswer>>,
                       !.labels = [k \in 1..3 |-> <<size, 90, 40>>], !.iclMode = i]
RoomQuestions ==
  {InRoom(o, f, m, t, w, fixed, size, i) :
     o \in {NoCap, 300}, f \in AskedSchemas, m \in {"all", "core_only"},
     t \in {<<"none", FALSE, FALSE>>, <<"always", FALSE, FALSE>>, <<"switch", TRUE, TRUE>>,
            <<"switch", TRUE, FALSE>>, <<"switch", FALSE, FALSE>>},
     w \in {1024, 2304, 8192, 69632, 262144}, fixed \in {300, 6000}, size \in {100, 2500},
     i \in {"core_only", "aux_and_core"}}

\* Images: which there are, how many may go, and what becomes of them.
FileKinds == {FileOf(0, "JPEG", 1, 5, TRUE), FileOf(0, "PNG", 1, 2, TRUE), FileOf(0, "WEBP", 2, 4, TRUE),
              FileOf(0, "TIFF", 2, 3, TRUE), FileOf(0, "GIF", 2, 2, TRUE), FileOf(0, "JPEG", 1, 2, FALSE)}
OfImages(k, kind, n, d, stored, limit, has, queried) ==
  [AskedPlainly EXCEPT !.files = [PlainFiles EXCEPT ![k] = [kind EXCEPT !.of = k]], !.maxImages = n,
                       !.depth = d[1], !.modelDepth = d[2], !.stored = stored, !.has = has,
                       !.limit = limit, !.queried = queried]
ImageQuestions ==
  {OfImages(k, kind, n, d, stored, limit, has, queried) :
     k \in {0, 2}, kind \in FileKinds, n \in {1, 3, 4}, d \in {<<NoCap, NoCap>>, <<NoCap, 1>>, <<2, 1>>},
     stored \in {1..3, {1, 3}}, limit \in {NoCap, 3}, has \in {1..3, {1}}, queried \in BOOLEAN}

WithAnswers(a, w, icl) == [AskedPlainly EXCEPT !.answers = a, !.window = w, !.icl = icl]
ResponseQuestions ==
  {WithAnswers(a, w, icl) : a \in AnswerPairs, w \in {1024, 262144}, icl \in {"enabled", "disabled"}}
=============================================================================
