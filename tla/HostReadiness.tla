--------------------------- MODULE HostReadiness ---------------------------
(***************************************************************************)
(* What a host can run and what is said of it: the advice of the           *)
(* environment, the GPU of a deployment, the refusal and what a confirmed  *)
(* retry displaces, the preflight, the Teacher that runs already, and the  *)
(* check of what a container came to serve.                                *)
(*                                                                         *)
(* A host h has GPUs in the order of nvidia-smi (device 0 is the first),   *)
(* the deployment rows of its projects in the order in which these are     *)
(* scanned, and answers of its commands.  Memory is in hundredths of a GB; *)
(* cc is a compute capability, in tenths; runtime stands for image, size,  *)
(* profile and environment of a container, NoKey if there is none.         *)
(***************************************************************************)
EXTENDS Diversity

Tenths(mem) == ((mem + 5) \div 10) * 10
MeetsMemory(mem, floor) == 100 * mem >= 99 * floor
MeetsCapability(gpu, model) == model.cc = NoCap \/ (gpu.cc # NoCap /\ gpu.cc >= model.cc)
MeetsFloors(gpu, model) == MeetsMemory(Tenths(gpu.mem), model.floor) /\ MeetsCapability(gpu, model)

-----------------------------------------------------------------------------
(* What is there.                                                          *)

\* Of projects that are not archived, by device.
Residents(h) ==
  FlattenSeq([d \in DOMAIN h.gpus |->
                Filtered(h.rows, LAMBDA row : /\ row.device = d /\ row.status \in {"starting", "running"}
                                              /\ row.project \notin h.archived)])

Occupants(h, d) == Filtered(Residents(h), LAMBDA row : row.device = d)
RolesOn(h, d) == {row.role : row \in Range(Occupants(h, d))}
FreeDevices(h) == {d \in DOMAIN h.gpus : Occupants(h, d) = <<>>}

LocalModels(h) == {m \in h.catalog : m.runtime # NoKey}
LocalTeachers(h) == {m \in LocalModels(h) : "teacher" \in m.roles}

\* Whether a container is exactly what is asked for.
Serves(row, m) == row.role = "teacher" /\ row.name = m.name /\ row.runtime = m.runtime

Reusable(h, m) == Filtered(Residents(h), LAMBDA row : row.status = "running" /\ Serves(row, m))

-----------------------------------------------------------------------------
(* Advice.                                                                 *)

Fitting(h) == {m \in LocalModels(h) : \E d \in DOMAIN h.gpus : MeetsFloors(h.gpus[d], m)}

Precedes(m, n) ==
  \/ m.rank > n.rank
  \/ m.rank = n.rank /\ m.floor > n.floor
  \/ m.rank = n.rank /\ m.floor = n.floor /\ m.name >= n.name

\* At most one.
Recommended(h) ==
  LET eligible == Fitting(h) \cap LocalTeachers(h)
  IN {m \in eligible : \A n \in eligible : Precedes(m, n)}

\* The first that runs, whatever runs beside it.
RunningTeacher(h) ==
  LET known == Filtered(Residents(h), LAMBDA row : /\ row.status = "running"
                                                   /\ \E m \in LocalTeachers(h) : Serves(row, m))
  IN {m \in LocalTeachers(h) : known # <<>> /\ Serves(Head(known), m)}

\* Devices that are free, or run an embedding NIM; one of them may be kept for
\* a Teacher.
EmbeddingCandidates(h, reserve) ==
  LET open == {d \in DOMAIN h.gpus : RolesOn(h, d) \subseteq {"embedding"}}
  IN open \ (IF reserve /\ FreeDevices(h) # {} THEN {Min(FreeDevices(h))} ELSE {})

EmbeddingFits(h, devices) ==
  \E d \in devices : h.gpus[d].supported /\ Tenths(h.gpus[d].mem) >= h.embedding.floor

MissingHere(h) ==
  (IF h.docker THEN {} ELSE {"docker"})
    \cup (IF h.docker /\ ~h.toolkit THEN {"toolkit"} ELSE {})
    \cup (IF h.hostedKey \/ h.ngcKey THEN {} ELSE {"credentials"})

\* The toolkit is tried with a container only.
CanDeploy(h) == h.docker /\ h.toolkit /\ h.gpus # <<>>

Advice(h) ==
  LET best == IF CanDeploy(h) THEN Recommended(h) ELSE {}
      running == RunningTeacher(h) \cap best
      teacher == IF running # {} \/ (~h.hostedKey /\ best # {}) THEN "local" ELSE "hosted"
      reserve == teacher = "local" /\ running = {} /\ \A d \in DOMAIN h.gpus : "teacher" \notin RolesOn(h, d)
      room == CanDeploy(h) /\ EmbeddingFits(h, EmbeddingCandidates(h, reserve))
  IN [best |-> best, running |-> running, teacher |-> teacher,
      embedding |-> IF h.optedOut THEN "none" ELSE IF room THEN "local" ELSE "hosted"]

\* The Teacher that a new project adopts, at most one.
Adopted(h) ==
  LET suits(row) == /\ row.status = "running"
                    /\ \E m \in LocalTeachers(h) : Serves(row, m)
                    /\ \A m \in Recommended(h) : row.name = m.name
  IN Filtered(Residents(h), suits)

-----------------------------------------------------------------------------
(* A deployment r asks for a model, on a device or on any, and may replace *)
(* what runs there.                                                        *)

Lowest(devices) == IF devices = {} THEN NoCap ELSE Min(devices)
Qualifying(h, r) == {d \in DOMAIN h.gpus : MeetsFloors(h.gpus[d], r.model)}

\* A device that is asked for is taken as it is.
Placed(h, r) == IF r.device # NoCap THEN r.device ELSE Lowest(Qualifying(h, r) \cap FreeDevices(h))
ReplaceTarget(h, r) == Lowest(Qualifying(h, r))

\* Who is in the way; of all residents the first, if no device would do.
InTheWay(h, d) == IF d = NoCap THEN Residents(h) ELSE Occupants(h, d)

Refusal(h, r, d) ==
  LET rows == InTheWay(h, d)
      same == r.role = "teacher" /\ rows # <<>> /\ Serves(Head(rows), r.model)
  IN [answer |-> IF same /\ Head(rows).status = "starting" THEN "resident_starting" ELSE "refused",
      device |-> d, rows |-> rows, replaceable |-> rows # <<>> /\ ~same]

Accepted(answer, d, rows) == [answer |-> answer, device |-> d, rows |-> rows, replaceable |-> FALSE]

Deploy(h, r) ==
  LET reused == IF r.role = "teacher" /\ ~r.replace THEN Reusable(h, r.model) ELSE <<>>
      placed == Placed(h, r)
      device == IF placed = NoCap /\ r.replace THEN ReplaceTarget(h, r) ELSE placed
  IN CASE r.model.runtime = NoKey -> Accepted("invalid", NoCap, <<>>)
       [] r.model.runtime # NoKey /\ reused # <<>> -> Accepted("reused", Head(reused).device, reused)
       [] OTHER ->
            IF r.device = NoCap /\ h.gpus = <<>> THEN Accepted("invalid", NoCap, <<>>)
            ELSE IF device = NoCap
                 THEN IF r.replace THEN Accepted("refused", NoCap, <<>>) ELSE Refusal(h, r, ReplaceTarget(h, r))
            ELSE IF Occupants(h, device) # <<>> /\ ~r.replace THEN Refusal(h, r, device)
            ELSE Accepted("queued", device, Occupants(h, device))

-----------------------------------------------------------------------------
(* Preflight: the checks in their order, the first that fails ends them.   *)

\* A probe that takes too long says nothing; one that an image does not have
\* says nothing if the image holds one model only.
ProfileFits(h, r) ==
  \/ r.role = "embedding"
  \/ h.probe \in {"fits", "timed_out"}
  \/ h.probe = "absent" /\ ~r.model.shared

Checks(h, r, d) ==
  <<<<"docker", h.docker>>, <<"toolkit", h.toolkit>>,
    <<"gpu", MeetsMemory(h.gpus[d].mem, r.model.floor) /\ MeetsCapability(h.gpus[d], r.model)>>,
    <<"key", h.ngcKey>>, <<"login", h.ngcKey /\ h.login>>, <<"image", h.pulls>>,
    <<"profile", ProfileFits(h, r)>>>>

Preflight(h, r, d) ==
  LET failed == Filtered(Checks(h, r, d), LAMBDA check : ~check[2])
  IN IF failed = <<>> THEN "passed" ELSE Head(failed)[1]

DryRun(h, r) == IF Placed(h, r) = NoCap THEN "placement" ELSE Preflight(h, r, Placed(h, r))

-----------------------------------------------------------------------------
(* A Teacher is shared: projects follow it.  A project's selected Teacher  *)
(* is a model and an endpoint, of a row if mode is local.                  *)

\* Its container is gone.
StopRow(h, id) ==
  [h EXCEPT !.rows = [i \in DOMAIN h.rows |->
                        IF h.rows[i].id = id THEN [h.rows[i] EXCEPT !.status = "stopped"] ELSE h.rows[i]],
            !.projects = [p \in DOMAIN h.projects |->
                            IF h.projects[p].to = id /\ p \notin h.archived
                            THEN [h.projects[p] EXCEPT !.up = FALSE] ELSE h.projects[p]]]

\* A project is given the first container that serves its model.
Attach(h, p) ==
  LET found == Reusable(h, h.projects[p].model)
  IN IF found = <<>> THEN h.projects[p]
     ELSE [h.projects[p] EXCEPT !.to = Head(found).id, !.up = TRUE, !.mode = "local"]

\* A row came to run: whose local Teacher is down and is what it serves.
Followers(h, row) ==
  {p \in DOMAIN h.projects \ h.archived :
     LET t == h.projects[p] IN
     /\ "teacher" \in t.model.roles /\ t.model.runtime # NoKey
     /\ t.mode = "local" /\ ~t.up /\ row.status = "running" /\ Serves(row, t.model)}

StartRow(h, row) ==
  LET here == [h EXCEPT !.rows = Append(h.rows, row)]
  IN [here EXCEPT !.projects = [p \in DOMAIN h.projects |->
                                  IF p \in Followers(here, row) THEN Attach(here, p) ELSE h.projects[p]]]

-----------------------------------------------------------------------------
(* What is served: live is what the container says, NoKey if nothing.      *)

ServesWhatIsAsked(asked, live, cached) ==
  \/ asked = NoKey
  \/ ~(live # NoKey /\ live # asked) /\ asked \in cached

-----------------------------------------------------------------------------
(* What is promised of a host.                                             *)

Asks(role, model, device, replace) == [role |-> role, model |-> model, device |-> device, replace |-> replace]
EmbeddingAsked(h) == Asks("embedding", h.embedding, NoCap, FALSE)
Replacing(r) == [r EXCEPT !.replace = TRUE]

DeploymentsOf(h) ==
  {Asks("teacher", m, d, FALSE) : m \in {n \in h.catalog : "teacher" \in n.roles}, d \in DOMAIN h.gpus \cup {NoCap}}
    \cup {EmbeddingAsked(h)}

\* The preflight takes memory as it is, a placement to a tenth of a GB.
GpuSuffices(h, r, d) == \/ Preflight(h, r, d) # "gpu"
                        \/ h.gpus[d].mem < Tenths(h.gpus[d].mem)

\* A GPU that is chosen is free and large enough, and the dry run says the
\* same of it; with leave to replace, nobody is displaced while there is such a
\* GPU (resolve_gpu_placement, resolve_replace_target, run_preflight, deploy).
PlacementHolds(h, r) ==
  \A a \in {Deploy(h, r)}, b \in {Deploy(h, Replacing(r))} :
     r.device = NoCap =>
       /\ a.answer = "queued" =>
            /\ a.rows = <<>> /\ GpuSuffices(h, r, a.device)
            /\ \A d \in 1..(a.device - 1) : Occupants(h, d) = <<>> => ~MeetsFloors(h.gpus[d], r.model)
            /\ b = a /\ DryRun(h, r) # "placement"
       /\ b.answer = "queued" => GpuSuffices(h, r, b.device)
       /\ b.answer = "queued" /\ b.rows # <<>> => Placed(h, r) = NoCap

\* Who is refused is told whom a confirmed retry displaces (the comment of
\* routers/local_nim.py at 343); one that would be displaced by its own like is
\* not offered (_gpu_conflict_detail).
RefusalNamesTheDisplaced(h, r) ==
  \A a \in {Deploy(h, r)}, b \in {Deploy(h, Replacing(r))} :
     a.answer \in {"refused", "resident_starting"} =>
       /\ b.answer = "queued" => b.device = a.device /\ b.rows = a.rows /\ b.rows # <<>>
       /\ a.replaceable => ~Serves(Head(a.rows), r.model)

\* What is advised can be done: a Teacher that runs is reused and a new project
\* starts with it; one that is to run here finds its GPU on an idle host and
\* lacks nothing that the assessment would have named; and so does an embedding
\* NIM, beside the Teacher where one GPU is like the other
\* (_compose_environment, create_project).
AdviceCanBeFollowed(h) ==
  LET alike == \A d \in DOMAIN h.gpus : h.gpus[d] = h.gpus[1]
      beside(m, d) == [h EXCEPT !.rows = <<[id |-> 0, project |-> 0, device |-> d, role |-> "teacher",
                                            name |-> m.name, runtime |-> m.runtime, status |-> "running"]>>]
      room(k) == \E e \in {Deploy(k, EmbeddingAsked(k))} :
                   e.answer = "queued" /\ GpuSuffices(k, EmbeddingAsked(k), e.device)
  IN \A a \in {Advice(h)} :
     /\ \A m \in a.best \cup a.running :
          LET asked == Asks("teacher", m, NoCap, FALSE) IN
          \A first \in {Deploy(h, asked)} :
            /\ m \in a.running => /\ first.answer = "reused"
                                  /\ Adopted(h) # <<>> /\ Serves(Head(Adopted(h)), m)
            /\ a.teacher = "local" /\ a.running = {} /\ Residents(h) = <<>> /\ MissingHere(h) = {} =>
                 /\ first.answer = "queued"
                 /\ Preflight(h, asked, first.device) \notin {"docker", "toolkit", "key"}
                 /\ GpuSuffices(h, asked, first.device)
                 /\ a.embedding = "local" /\ alike => room(beside(m, first.device))
     /\ a.embedding = "local" /\ a.teacher = "hosted" =>
          room(h) \/ \E d \in DOMAIN h.gpus : "embedding" \in RolesOn(h, d)

\* When a Teacher's container is stopped and one of the same kind comes to run,
\* every project that sent its requests to the first and still asks for that
\* kind sends them to one that runs and is of that kind; a project whose Teacher
\* was up elsewhere is left alone (disable_teacher_resident_endpoints,
\* reattach_selected_teacher_consumers).
RestoredAreFollowed(h) ==
  \A i \in DOMAIN h.rows : LET row == h.rows[i] IN
    row.role = "teacher" /\ row.status = "running" /\ row.project \notin h.archived =>
      \A after \in {StartRow(StopRow(h, row.id), [row EXCEPT !.id = 1 + Max({k.id : k \in Range(h.rows)})])},
         p \in DOMAIN h.projects \ h.archived :
        LET t == h.projects[p]
            u == after.projects[p]
        IN /\ t.to = row.id /\ t.mode = "local" /\ Serves(row, t.model) /\ "teacher" \in t.model.roles =>
                u.up /\ \E k \in Range(Residents(after)) : k.id = u.to /\ k.status = "running" /\ Serves(k, t.model)
           /\ t.up /\ t.to # row.id => u = t

\* If a container serves what it is asked for whenever that is in its cache, and
\* something else from there otherwise, whatever it says of itself, then what is
\* marked healthy is what was asked for (verify_served_model).
WhatIsServedWasAsked(models) ==
  \A asked \in models, cached \in SUBSET models : \A served \in (IF asked \in cached THEN {asked} ELSE cached) :
    \A live \in {NoKey, served} : ServesWhatIsAsked(asked, live, cached) => served = asked

HostKeepsItsWord(h) ==
  /\ \A r \in DeploymentsOf(h) : PlacementHolds(h, r) /\ RefusalNamesTheDisplaced(h, r)
  /\ AdviceCanBeFollowed(h)
  /\ RestoredAreFollowed(h)
  /\ WhatIsServedWasAsked({m.name : m \in LocalModels(h)})
=============================================================================
