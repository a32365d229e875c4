------------------------- MODULE TrainingReadiness -------------------------
(***************************************************************************)
(* What must hold before a suite is trained: the preflight of a launch,    *)
(* the provisioning of bases that TAO lacks, and the checks made again     *)
(* once these are there.  SuiteSetup has the order in which all this       *)
(* happens and what a crash leaves; here is what is decided.               *)
(*                                                                         *)
(* A row is a ModelConfig: its project, its name in lower case, whether it *)
(* is spelled so, whether it may be a Student base, the base experiment it *)
(* knows and how far the pull of that went.  A base experiment is called   *)
(* as the model it is for.                                                 *)
(***************************************************************************)
EXTENDS Diversity, Sequencing

CONSTANTS
  Super,       \* the model that knows neither LoRA nor quantization
  SelfServed   \* names with a path to the Hugging Face Hub

NoBase == "no_base"

ASSUME BasesAssumption == NoBase \notin SelfServed

HasBase(row) == row.base # NoBase /\ row.pull = "pull_complete"

\* A model is told from others by its exact name.
IsSuper(row) == row.exact /\ row.name = Super

Known(q, id) == id \in DOMAIN q.rows /\ q.rows[id].project = q.project
Selected(q) == {id \in Range(q.ids) : Known(q, id)}
Unready(q) == {id \in Selected(q) : ~HasBase(q.rows[id])}

\* The interpreters that may merge an adapter, in the order of preference; the
\* operator's is taken unseen, the last is the backend's own.
MergePython(pythons) ==
  IF pythons[1] # "none" THEN pythons[1]
  ELSE LET there == {i \in 2..Len(pythons) : pythons[i] # "none"}
       IN IF there = {} THEN "none" ELSE pythons[Min(there)]

MergeReady(pythons) == MergePython(pythons) = "complete"

-----------------------------------------------------------------------------
(* Preflight.                                                              *)

QuantizationFits(row, schemes) == schemes = {} \/ ~IsSuper(row)
ModeFits(row, q) == ~(q.lora /\ IsSuper(row) /\ q.tagRejectsLora)
TokenSuffices(q) == Unready(q) # {} \/ q.lora => q.token
WorkspaceReachable(q) == q.booted /\ q.identity /\ q.workspace

ForEach(ids, name, passing) == [i \in DOMAIN ids |-> <<name, ids[i] \in passing>>]

\* All are made; the first that fails is what the caller is told.  A base that is
\* missing fails nobody.
PreflightChecks(q) ==
  LET known == Among(q.ids, Selected(q))
  IN <<<<"tao", q.up>>, <<"timeout", q.up /\ q.timeouts>>, <<"workspace", WorkspaceReachable(q)>>>>
       \o ForEach(q.ids, "base", Selected(q))
       \o <<<<"token", TokenSuffices(q)>>, <<"merge", q.lora => MergeReady(q.pythons)>>>>
       \o ForEach(q.ids, "role", {id \in Selected(q) : q.rows[id].trainable})
       \o ForEach(known, "mode", {id \in Selected(q) : ModeFits(q.rows[id], q)})
       \o ForEach(known, "quantization", {id \in Selected(q) : QuantizationFits(q.rows[id], q.schemes)})
       \o <<<<"data", q.data>>>>

FailedChecks(q) ==
  AtPositions(PreflightChecks(q), {i \in DOMAIN PreflightChecks(q) : ~PreflightChecks(q)[i][2]})

BasesMayBeTrained(q) == \A id \in Range(q.ids) : Known(q, id) /\ q.rows[id].trainable

\* What a launch leads to; resumes says that it is for a suite whose transfer
\* failed.
Launched(q) ==
  LET failed == FailedChecks(q)
  IN CASE failed # <<>> -> IF Head(failed)[1] \in {"tao", "timeout", "workspace"} THEN "tao_unreachable"
                           ELSE "validation"
       [] failed = <<>> /\ ~(q.guidance /\ BasesMayBeTrained(q)) -> "validation"
       [] failed = <<>> /\ q.guidance /\ BasesMayBeTrained(q) ->
            IF Unready(q) = {} THEN "create" ELSE IF q.resumes THEN "conflict" ELSE "provision"

\* The same is asked again of whoever comes by another way, or late.
CreateAccepts(q) ==
  /\ q.guidance /\ BasesMayBeTrained(q)
  /\ \A id \in Range(q.ids) : QuantizationFits(q.rows[id], q.schemes)
  /\ q.data /\ q.booted

-----------------------------------------------------------------------------
(* Provisioning.  TAO has the bases q.has already, cannot be asked about   *)
(* those of q.silent, and comes to have those of q.appears if the transfer *)
(* succeeds (bucket, pull, upload and load alike).                         *)

Resolvable(q, id) == Known(q, id) /\ q.rows[id].trainable /\ q.rows[id].name \in SelfServed
Targets(q) == {id \in Range(q.ids) : Resolvable(q, id)}
Unanswered(q) == {id \in Targets(q) : q.rows[id].name \in q.silent}
Present(q) == {id \in Targets(q) \ Unanswered(q) : q.rows[id].name \in q.has}
ToPull(q) == Targets(q) \ (Unanswered(q) \cup Present(q))
Confirmed(q) == {id \in ToPull(q) : q.rows[id].name \in q.appears}

\* In every project, by exact name.
Patched(rows, names) ==
  [id \in DOMAIN rows |-> IF rows[id].exact /\ rows[id].name \in names
                          THEN [rows[id] EXCEPT !.base = rows[id].name, !.pull = "pull_complete"]
                          ELSE rows[id]]

NamesTold(q, ids) == {q.rows[id].name : id \in ids}
Provisioned(registered, already, failed, rows) ==
  [registered |-> registered, already |-> already, failed |-> failed, rows |-> rows]

Provision(q) ==
  LET unresolved == Range(q.ids) \ Targets(q)
      lost == unresolved \cup Unanswered(q)
  IN IF ~q.identity THEN Provisioned({}, {}, {"workspace"}, q.rows)
     ELSE IF ToPull(q) = {} THEN Provisioned({}, Present(q), lost, Patched(q.rows, NamesTold(q, Present(q))))
     ELSE IF ~q.transfers THEN Provisioned({}, Present(q), lost \cup ToPull(q), q.rows)
     ELSE Provisioned(Confirmed(q), Present(q), lost \cup (ToPull(q) \ Confirmed(q)),
                      Patched(q.rows, NamesTold(q, Present(q) \cup Confirmed(q))))

After(q) == [q EXCEPT !.rows = Provision(q).rows]

-----------------------------------------------------------------------------
(* What is promised.                                                       *)

\* The preflight of a launch lets nothing pass that the materialization of the
\* suite would then refuse, and neither does the time in between, for which
\* provisioning may have changed the rows (launch_training_suite,
\* create_training_suite, check_quantization_compatibility).
LaunchedIsCreated(q) ==
  /\ Launched(q) = "create" => CreateAccepts(q)
  /\ Launched(q) = "provision" => CreateAccepts(After(q))

\* A provisioning that fails nobody is enough for every row that is spelled as
\* the catalog spells it: what was launched and had to wait is then created (the
\* promise of _check_tao_base_experiment_ready).
ProvisioningSuffices(q) ==
  /\ Launched(q) = "provision" /\ Provision(q).failed = {}
  /\ \A id \in Range(q.ids) : q.rows[id].exact
  => Launched(After(q)) = "create"

\* Each selected row is reported once; none that was ready is less so after; and
\* a base that was registered serves every project's row of that name
\* (provision_base_experiments, patch_model_configs_across_projects).
EachIsAccountedFor(q) ==
  LET p == Provision(q) IN
  /\ q.identity => /\ p.registered \cup p.already \cup p.failed = Range(q.ids)
                   /\ p.registered \cap p.already = {} /\ (p.registered \cup p.already) \cap p.failed = {}
  /\ \A id \in DOMAIN q.rows : HasBase(q.rows[id]) => HasBase(p.rows[id])
  /\ \A id \in p.registered : \A other \in DOMAIN q.rows :
       q.rows[other].exact /\ q.rows[other].name = q.rows[id].name =>
         HasBase(p.rows[other]) /\ p.rows[other].base = q.rows[id].name

TrainingIsReady(q) == LaunchedIsCreated(q) /\ ProvisioningSuffices(q) /\ EachIsAccountedFor(q)
=============================================================================
