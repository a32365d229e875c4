------------------------------ MODULE Invocation ------------------------------
(***************************************************************************)
(* One request to the Teacher, as a function of what it is asked with: the *)
(* room for prompt and answer, the exemplars and images that go along, the *)
(* repetition of an answer that was cut off, and what the operation record *)
(* keeps.  A rationale is asked for in a shorter way.                      *)
(*                                                                         *)
(* A text is its number of tokens; a label the tokens of each field it     *)
(* has.  A fraction is <<numerator, denominator>>.  Wording, sampling and  *)
(* seeds are left out, and with them the refusal of a prompt whose text    *)
(* holds the mark of an image's place.                                     *)
(***************************************************************************)
EXTENDS Diversity

Greater(a, b) == IF a > b THEN a ELSE b
Part(fraction, n) == (fraction[1] * n) \div fraction[2]

\* The settings as they are delivered (_defaults.py).
Delivered == [floor |-> 256, overhead |-> 48, note |-> 160, unbounded |-> 200, headroom |-> 16384,
              fraction |-> <<1, 4>>, margin |-> <<17, 20>>, override |-> NoCap]

-----------------------------------------------------------------------------
(* Room.                                                                   *)

\* The most tokens an answer needs for a field; key: those of its name,
\* values: those of each allowed value.
FieldTokens(f, s) ==
  CASE f.kind = "rationale" -> s.note
    [] f.kind = "boolean"   -> 6
    [] f.kind = "integer"   -> 8
    [] f.kind = "enum"      -> f.key + Max({1} \cup Range(f.values)) + 6
    [] f.kind = "enum_set"  -> f.key + Total(f.values) + 4 + 2 * Greater(0, Len(f.values) - 1)
    [] f.kind = "string"    -> IF f.longest = NoCap THEN s.unbounded ELSE f.key + (f.longest + 3) \div 4

Admits(mode, f) ==
  CASE mode = "all"          -> TRUE
    [] mode = "aux_and_core" -> f.kind # "rationale"
    [] mode = "core_only"    -> f.role = "core"

SchemaTokens(q) ==
  q.s.overhead + Total([i \in DOMAIN q.fields |->
                          IF Admits(q.mode, q.fields[i]) THEN FieldTokens(q.fields[i], q.s) ELSE 0])

\* Switched off: by a request that says so, to a model that listens.
SwitchesOff(q) == q.toggle = "switch" /\ q.listens /\ ~q.thinking
Reasons(q) == q.toggle # "none" /\ ~SwitchesOff(q)

Base(q) == Greater(q.s.floor, 2 * SchemaTokens(q))
Headroom(q) == IF Reasons(q) THEN q.s.headroom ELSE 0
Ceiling(q) == Part(q.s.fraction, q.window)

OutputRoom(q) ==
  IF q.s.override # NoCap THEN q.s.override ELSE Least(Base(q) + Headroom(q), Ceiling(q))
InputRoom(q) == Part(q.s.margin, q.window - OutputRoom(q))

-----------------------------------------------------------------------------
(* Exemplars.                                                              *)

\* What is shown of an exemplar's label, and its marker.
ExemplarTokens(q, k) ==
  10 + Total([i \in DOMAIN q.fields |-> IF Admits(q.iclMode, q.fields[i]) THEN q.labels[k][i] ELSE 0])

\* An explicit depth wins over the model's own, in either direction.
Depth(q) == IF q.depth # NoCap THEN q.depth ELSE q.modelDepth

ImagesLeft(q) == q.maxImages - (IF q.queried THEN 1 ELSE 0)

\* Relevance first, then what fits, then what images may go along; only then
\* the order in which they are shown.
Exemplars(q) ==
  LET chosen == SelectIcl(q.cands, q.has, q.near, q.embedded,
                          [gap |-> NoCap, floor |-> NoCap, depth |-> Depth(q)])
      cost == [k \in Range(q.cands) |-> ExemplarTokens(q, k)]
  IN Bookend(PruneByImages(PruneByTokens(chosen, cost, Greater(0, InputRoom(q) - q.fixed)), ImagesLeft(q)))

-----------------------------------------------------------------------------
(* Images.                                                                 *)

NotSent == <<"failed">>

\* A file as it is read for the wire: JPEG and PNG as they are unless too
\* large; the others become PNG; of more than one page, only those are turned
\* away that the code looks for.
AsSent(file, limit) ==
  LET shrinks == limit # NoCap /\ file.edge > limit
      edge == IF shrinks THEN limit ELSE file.edge
  IN CASE ~file.readable -> NotSent
       [] file.readable /\ file.format \in {"GIF", "TIFF"} /\ file.pages > 1 -> NotSent
       [] file.readable /\ file.format = "JPEG" -> <<"JPEG", edge, file.of>>
       [] OTHER -> <<"PNG", edge, file.of>>

\* Text only, if any exemplar comes without a file.
ShowsImages(q, shown) == shown # <<>> /\ Range(shown) \subseteq q.stored

\* In one batch: the exemplars' in the order of the prompt, the query's last.
Batch(q, shown) ==
  LET keys == (IF ShowsImages(q, shown) THEN shown ELSE <<>>) \o (IF q.queried THEN <<NoKey>> ELSE <<>>)
  IN [i \in DOMAIN keys |-> AsSent(q.files[keys[i]], q.limit)]

\* The prompt, with a place for each image before its label.
Rendered(q, shown) ==
  FlattenSeq([i \in DOMAIN shown |->
                (IF ShowsImages(q, shown) THEN <<<<"place", i>>>> ELSE <<>>) \o <<<<"label", shown[i]>>>>])
    \o <<<<"place", NoKey>>>>

\* The user's turn: the images in their places, the last in the query's, which
\* is dropped if there is none.
Message(q, shown, images) ==
  LET filled(part) ==
        IF part[1] = "label" THEN <<part>>
        ELSE IF part[2] # NoKey THEN <<<<"image", images[part[2]]>>>>
        ELSE IF q.queried THEN <<<<"image", Last(images)>>>> ELSE <<>>
  IN FlattenSeq([i \in DOMAIN Rendered(q, shown) |-> filled(Rendered(q, shown)[i])])

-----------------------------------------------------------------------------
(* The request, and its repetition.                                        *)

\* From the formula, not from what was allowed before.
RoomAfterCut(q) == Least((3 * (Base(q) + Headroom(q))) \div 2, Ceiling(q))

RepeatsFor(q) == q.answers[1].cut /\ RoomAfterCut(q) > OutputRoom(q)

\* The max_tokens of each request that is sent: none, if an image is missing.
Sendings(q, images) ==
  IF NotSent \in Range(images) THEN <<>>
  ELSE <<OutputRoom(q)>> \o (IF RepeatsFor(q) THEN <<RoomAfterCut(q)>> ELSE <<>>)

\* Nothing sent counts as an error of the endpoint.
Answer(q, sent) ==
  IF sent = <<>> THEN [error |-> "images", cut |-> FALSE, valid |-> FALSE] ELSE q.answers[Len(sent)]

TransportStatus(answer) ==
  CASE answer.error = "none"      -> "success"
    [] answer.error = "timed_out" -> "timeout"
    [] OTHER                      -> "endpoint_error"

FinalStatus(answer) ==
  CASE answer.error = "429"                   -> "rate_limited"
    [] answer.error \notin {"none", "429"}    -> TransportStatus(answer)
    [] answer.error = "none" /\ answer.valid  -> "success"
    [] answer.error = "none" /\ ~answer.valid -> "schema_invalid"

\* The operation record.
Outcome(q, shown, sent) ==
  [status   |-> FinalStatus(Answer(q, sent)),
   room     |-> IF sent # <<>> THEN Last(sent) ELSE OutputRoom(q),
   headroom |-> IF Reasons(q) THEN Headroom(q) ELSE NoCap,
   used     |-> shown,
   attached |-> IF sent # <<>> /\ ShowsImages(q, shown) THEN Len(shown) ELSE 0,
   thinking |-> sent # <<>> /\ SwitchesOff(q)]

\* invoke_teacher, and what becomes of it.
Invoke(q) ==
  LET shown == Exemplars(q)
      images == Batch(q, shown)
      sent == Sendings(q, images)
  IN [shown |-> shown, message |-> Message(q, shown, images), sent |-> sent,
      outcome |-> Outcome(q, shown, sent)]

\* A batch run may be told to go without exemplars.
BatchResult(q) == Invoke(IF q.icl = "disabled" THEN [q EXCEPT !.cands = <<>>] ELSE q)

-----------------------------------------------------------------------------
(* A rationale: one image, free text, and no repetition.                   *)

RationaleRoom(q) == Least(Greater(q.s.floor, 2 * q.s.note) + Headroom(q), Ceiling(q))

RationaleSent(q) == AsSent(q.files[NoKey], q.limit) # NotSent

\* long: enough is left of the answer once the scaffolding is stripped.
RationaleStatus(q, long) ==
  CASE ~RationaleSent(q) -> "endpoint_error"
    [] RationaleSent(q) /\ q.answers[1].error = "none" /\ ~long -> "endpoint_error"
    [] OTHER -> TransportStatus(q.answers[1])

-----------------------------------------------------------------------------
(* What is promised of a call, q asked and r become of it.                 *)

\* As delivered, and if the prompt fits without exemplars, the prompt with
\* them and the answer fit the model's window, also when the answer is given
\* more room and asked for again; of the images the code counts no tokens
\* (derive_token_budget, prune_icl_by_budget, invoke_teacher).
StaysInTheWindow(q, r) ==
  q.s = Delivered /\ q.fixed <= InputRoom(q) =>
    LET prompt == q.fixed + Total([i \in DOMAIN r.shown |-> ExemplarTokens(q, r.shown[i])])
    IN \A i \in DOMAIN r.sent : prompt + r.sent[i] <= q.window

\* An answer that was cut off is asked for again, with more room, unless it had
\* all that the window or the operator grants; and a model that will reason has
\* room for it, whatever the user's switch says (resolve_thinking_fields,
\* derive_token_budget, regenerate_rationale).
GrantsRoom(q, r) ==
  LET forThought == Least(q.s.headroom, Ceiling(q)) IN
  /\ Len(r.sent) = 2 => q.answers[1].cut /\ r.sent[2] > r.sent[1]
  /\ Len(r.sent) = 1 /\ q.answers[1].cut /\ q.s.override = NoCap => r.sent[1] = Ceiling(q)
  /\ r.sent # <<>> /\ q.s.override = NoCap /\ q.toggle # "none" /\ ~r.outcome.thinking =>
       r.sent[1] >= forThought
  /\ q.toggle # "none" /\ ~SwitchesOff(q) => RationaleRoom(q) >= forThought

\* All images or no request; never more than the endpoint takes, each of a kind
\* and size it takes; and none beside the label of another (invoke_teacher,
\* prepare_images).
ImagesBelong(q, r) ==
  LET images == {i \in DOMAIN r.message : r.message[i][1] = "image"}
      labels == DOMAIN r.message \ images
      belongs(i) ==
        LET image == r.message[i][2] IN
        /\ image # NotSent
        /\ image[1] \in {"JPEG", "PNG"} /\ (q.limit # NoCap => image[2] <= q.limit)
        /\ IF image[3] = NoKey THEN i = Len(r.message) ELSE r.message[i + 1] = <<"label", image[3]>>
  IN IF r.sent = <<>> THEN r.outcome.status = "endpoint_error" /\ r.outcome.attached = 0
     ELSE /\ Cardinality(images) <= Greater(1, q.maxImages)
          /\ \A i \in images : belongs(i)
          /\ q.queried => Len(r.message) \in images
          /\ labels # {} /\ Range(r.shown) \subseteq q.stored => \A i \in labels : i - 1 \in images

\* The record tells what was sent last, and of a success only for an answer that
\* was asked for with every image and validates; a rationale counts only if its
\* image was seen (apply_invocation_outcome, regenerate_rationale).
RecordsWhatHappened(q, r) ==
  /\ r.sent # <<>> => r.outcome.room = Last(r.sent)
  /\ r.outcome.status = "success" =>
       r.sent # <<>> /\ q.answers[Len(r.sent)].error = "none" /\ q.answers[Len(r.sent)].valid
  /\ \A b \in {BatchResult(q)} :
       /\ b.outcome.status = "success" <=> Answer(q, b.sent).valid
       /\ q.icl = "disabled" => b.outcome.used = <<>> /\ b.outcome.attached = 0
  /\ \A long \in BOOLEAN : RationaleStatus(q, long) = "success" => long /\ q.files[NoKey].readable

InvocationIsSound(q) ==
  \A r \in {Invoke(q)} :
    StaysInTheWindow(q, r) /\ GrantsRoom(q, r) /\ ImagesBelong(q, r) /\ RecordsWhatHappened(q, r)
=============================================================================
