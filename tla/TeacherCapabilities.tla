------------------------ MODULE TeacherCapabilities ------------------------
(***************************************************************************)
(* What the Teacher's model configuration knows of the model it is bound   *)
(* to: which of the controls of a request are supported.  Probes find out, *)
(* a proposal that the model refuses at runtime asks again without the     *)
(* control and takes note, and the configuration may be bound to another   *)
(* endpoint meanwhile.                                                     *)
(*                                                                         *)
(*  - A probe of the three controls, and a call to the model, are awaited: *)
(*    whatever they were given was read before.  All between two awaits is *)
(*    one step.                                                            *)
(*  - The configuration has a mode for each control.  The toggle for the   *)
(*    thinking is sent only to switch it off.                              *)
(*  - A refusal names one control.  A call that is cut off for its length  *)
(*    and repeated, and a failure to prepare the images, answer as a call. *)
(***************************************************************************)
EXTENDS Naturals

CONSTANTS
  Tasks,            \* requests of the API that run at once
  Endpoints,        \* NimEndpoint rows of the project
  Refusals,         \* what a model may refuse: sets of controls
  MaxTeacherEvents  \* bound: bindings, probes asked for, runs, switches, failures, crashes

Controls == {"structured", "thinking", "visual"}

VARIABLES
  refuses,       \* what the model behind each endpoint refuses, for good
  bound,         \* ModelConfig.endpoint_id
  support,       \* the three columns *_support
  operational,   \* endpoints that are enabled and not known to be unhealthy
  inUse,         \* an evaluation or batch run with the configuration is active
  task,          \* what each request does
  teacherEvents  \* bound counter

teacherVars == <<refuses, bound, support, operational, inUse, task, teacherEvents>>

Unknown == [c \in Controls |-> "unknown"]
Unasked == [phase |-> "idle", at |-> CHOOSE e \in Endpoints : TRUE, off |-> FALSE, carries |-> {}, step |-> 0]

TeacherInit ==
  /\ refuses \in [Endpoints -> Refusals]
  /\ bound \in Endpoints
  /\ support = Unknown
  /\ operational = Endpoints
  /\ inUse = FALSE
  /\ task = [t \in Tasks |-> Unasked]
  /\ teacherEvents = 0

TeacherEvent == teacherEvents < MaxTeacherEvents /\ teacherEvents' = teacherEvents + 1

-----------------------------------------------------------------------------

Becomes(t, state) == task' = [task EXCEPT ![t] = state]
Finishes(t) == Becomes(t, Unasked)

\* The controls of a request (resolve_thinking_fields, resolve_visual_budget).
Carried(known, off) ==
  {c \in Controls : known[c] = "supported" /\ (c = "thinking" => off)}

Calls(t, endpoint, known, off) ==
  Becomes(t, [phase |-> "asking", at |-> endpoint, off |-> off,
              carries |-> Carried(known, off), step |-> 0])

\* reprobe_model_config up to its probes, for a proposal, or on its own.
Probes(t, endpoint, off, then) ==
  /\ support' = Unknown
  /\ Becomes(t, [Unasked EXCEPT !.phase = then, !.at = endpoint, !.off = off])

\* create_proposal: the endpoint is looked at here, and never again.
Propose(t, off) ==
  /\ task[t].phase = "idle"
  /\ bound \in operational
  /\ IF "unknown" \in {support[c] : c \in Controls} /\ ~inUse
     THEN Probes(t, bound, off, "probing for a proposal")
     ELSE Calls(t, bound, support, off) /\ UNCHANGED support
  /\ UNCHANGED <<refuses, bound, operational, inUse, teacherEvents>>

\* regenerate_rationale: no probe, no fallback, no look at the endpoint.
Rationale(t, off) ==
  /\ task[t].phase = "idle"
  /\ Becomes(t, [phase |-> "asking", at |-> bound, off |-> off,
                 carries |-> Carried(support, off) \ {"structured"}, step |-> 4])
  /\ UNCHANGED <<refuses, bound, support, operational, inUse, teacherEvents>>

Reprobe(t) ==
  /\ TeacherEvent
  /\ task[t].phase = "idle"
  /\ ~inUse
  /\ Probes(t, bound, FALSE, "probing")
  /\ UNCHANGED <<refuses, bound, operational, inUse>>

\* The model answers, the endpoint does not, or it turns the request away for
\* another reason, which counts as a refusal of the control.
Found(endpoint, answer) ==
  CASE answer = "model"   -> [c \in Controls |-> IF c \in refuses[endpoint] THEN "unsupported"
                                                ELSE "supported"]
    [] answer = "silence" -> Unknown
    [] answer = "other"   -> [c \in Controls |-> "unsupported"]

ProbeEnds(t, answer) ==
  LET found == Found(task[t].at, answer) IN
  /\ task[t].phase \in {"probing", "probing for a proposal"}
  /\ support' = found
  /\ IF task[t].phase = "probing" THEN Finishes(t)
     ELSE Calls(t, task[t].at, found, task[t].off)
  /\ UNCHANGED <<refuses, bound, operational, inUse, teacherEvents>>

-----------------------------------------------------------------------------
(* The answer to a proposal.                                               *)

\* Each fallback is tried once, in this order.
Rank(c) == CASE c = "structured" -> 1 [] c = "thinking" -> 2 [] c = "visual" -> 3

\* Mutant: the fallback forgets to tell the configuration.
Untold(c) == UNCHANGED support

\* _demote_capability_support; the structured output is not remembered.
Demote(c) ==
  support' = IF c = "structured" THEN support ELSE [support EXCEPT ![c] = "unsupported"]

ControlRefused(t, c) ==
  /\ task[t].phase = "asking"
  /\ c \in task[t].carries \cap refuses[task[t].at]
  /\ IF Rank(c) > task[t].step
     THEN /\ Becomes(t, [task[t] EXCEPT !.carries = @ \ {c}, !.step = Rank(c)])
          /\ Demote(c)
     ELSE Finishes(t) /\ UNCHANGED support
  /\ UNCHANGED <<refuses, bound, operational, inUse, teacherEvents>>

\* A label, an unusable answer, or another error: the record's outcome.
TeacherAnswers(t) ==
  /\ task[t].phase = "asking"
  /\ task[t].carries \cap refuses[task[t].at] = {}
  /\ Finishes(t)
  /\ UNCHANGED <<refuses, bound, support, operational, inUse, teacherEvents>>

\* No answer, or an error before any control is looked at.
TeacherTimesOut(t) ==
  /\ TeacherEvent
  /\ task[t].phase = "asking"
  /\ Finishes(t)
  /\ UNCHANGED <<refuses, bound, support, operational, inUse>>

-----------------------------------------------------------------------------
(* The registry.                                                           *)

\* configure_self_hosted_teacher: the endpoint is asked for its models ...
Configure(t, endpoint) ==
  /\ TeacherEvent
  /\ task[t].phase = "idle" /\ ~inUse
  /\ Becomes(t, [Unasked EXCEPT !.phase = "configuring", !.at = endpoint])
  /\ UNCHANGED <<refuses, bound, support, operational, inUse>>

\* ... then bound, if no run began meanwhile, and probed.
ConfigureBinds(t) ==
  /\ task[t].phase = "configuring" /\ ~inUse
  /\ bound' = task[t].at
  /\ operational' = operational \cup {task[t].at}
  /\ Probes(t, task[t].at, FALSE, "probing")
  /\ UNCHANGED <<refuses, inUse, teacherEvents>>

ConfigureFails(t) ==
  /\ task[t].phase = "configuring"
  /\ Finishes(t)
  /\ UNCHANGED <<refuses, bound, support, operational, inUse, teacherEvents>>

\* update_model_config: the columns stay.
Patch(endpoint) ==
  /\ TeacherEvent
  /\ bound' = endpoint
  /\ UNCHANGED <<refuses, support, operational, inUse, task>>

\* The deployment behind it stops or comes back, or a probe of it fails.
Switch(endpoint) ==
  /\ TeacherEvent
  /\ operational' = IF endpoint \in operational THEN operational \ {endpoint}
                    ELSE operational \cup {endpoint}
  /\ UNCHANGED <<refuses, bound, support, inUse, task>>

RunStartsOrEnds ==
  /\ IF inUse THEN UNCHANGED teacherEvents ELSE TeacherEvent
  /\ inUse' = ~inUse
  /\ UNCHANGED <<refuses, bound, support, operational, task>>

TeacherCrash ==
  /\ TeacherEvent
  /\ task' = [t \in Tasks |-> Unasked]
  /\ UNCHANGED <<refuses, bound, support, operational, inUse>>

-----------------------------------------------------------------------------

TaskGoesOn(t) ==
  \/ \E answer \in {"model", "silence", "other"} : ProbeEnds(t, answer)
  \/ \E c \in Controls : ControlRefused(t, c)
  \/ TeacherAnswers(t) \/ ConfigureBinds(t) \/ ConfigureFails(t)

TeacherNext ==
  \/ \E t \in Tasks :
       \/ \E off \in BOOLEAN : Propose(t, off) \/ Rationale(t, off)
       \/ \E e \in Endpoints : Configure(t, e)
       \/ TaskGoesOn(t) \/ Reprobe(t) \/ TeacherTimesOut(t)
  \/ \E e \in Endpoints : Patch(e) \/ Switch(e)
  \/ RunStartsOrEnds
  \/ TeacherCrash

\* What is awaited ends.  The property below also takes it that proposals keep
\* being asked for, now and then with the thinking off.
TeacherFair == \A t \in Tasks : WF_teacherVars(TaskGoesOn(t))
AsksUnthinking == \E t \in Tasks : Propose(t, TRUE)

-----------------------------------------------------------------------------
(* Properties.                                                             *)

\* However the configuration came to believe that the model takes a control
\* which it refuses (bound to another endpoint with its columns kept, or by a
\* probe of the former one that ended late): while proposals are asked for, it
\* comes to know better, for good (_demote_capability_support).
WrongSupportIsUnlearned ==
  <>[](bound \in operational =>
         \A c \in {"thinking", "visual"} \cap refuses[bound] : support[c] # "supported")

\* "Support learned from a previous hosted/local runtime is never carried
\* across silently" (configure_self_hosted_teacher).
NothingCarriedAcross ==
  [][\A t \in Tasks : task[t].at # bound /\ task'[t] # task[t] =>
       \A c \in Controls : support'[c] = "supported" => support[c] = "supported"]_teacherVars
=============================================================================
