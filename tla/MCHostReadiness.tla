-------------------------- MODULE MCHostReadiness --------------------------
(***************************************************************************)
(* Questions to HostReadiness: hosts of no, one or two GPUs, with what may *)
(* run on them.                                                            *)
(***************************************************************************)
EXTENDS HostReadiness

GpuOf(mem, cc, supported) == [mem |-> mem, cc |-> cc, supported |-> supported]

\* At the floor but for rounding, at it, of unknown or old capability, small.
GpuKinds == {GpuOf(7916, 90, TRUE), GpuOf(7960, 90, TRUE), GpuOf(7960, NoCap, TRUE), GpuOf(7960, 80, FALSE),
             GpuOf(4610, 89, TRUE), GpuOf(2398, 86, TRUE), GpuOf(1600, 75, FALSE)}

LocalModelOf(name, rank, floor, cc, roles, runtime, shared) ==
  [name |-> name, rank |-> rank, floor |-> floor, cc |-> cc, roles |-> roles, runtime |-> runtime, shared |-> shared]

OmniModel  == LocalModelOf(1, 5, 8000, 90, {"teacher"}, 10, FALSE)
NanoModel  == LocalModelOf(2, 4, 5600, NoCap, {"teacher", "student_base"}, 20, TRUE)
SmallModel == LocalModelOf(3, 1, 3600, NoCap, {"teacher", "student_base"}, 30, FALSE)
HostedOnly == LocalModelOf(4, 0, 0, NoCap, {"teacher"}, NoKey, FALSE)
EmbedModel == LocalModelOf(5, 0, 2400, NoCap, {"embedding"}, 50, FALSE)

RowOf(id, project, device, role, model, status) ==
  [id |-> id, project |-> project, device |-> device, role |-> role, name |-> model.name,
   runtime |-> model.runtime, status |-> status]

\* A project that follows row 1, one that did, one that goes its own way.
FollowersOf(model) ==
  <<[model |-> model, mode |-> "local", to |-> 1, up |-> TRUE],
    [model |-> model, mode |-> "local", to |-> 1, up |-> FALSE],
    [model |-> model, mode |-> "user", to |-> NoKey, up |-> FALSE],
    [model |-> SmallModel, mode |-> "local", to |-> 2, up |-> TRUE]>>

IdleHost ==
  [about |-> "host", gpus |-> <<>>, catalog |-> {OmniModel, NanoModel, SmallModel, HostedOnly, EmbedModel},
   embedding |-> EmbedModel, rows |-> <<>>, projects |-> <<>>, archived |-> {},
   docker |-> TRUE, toolkit |-> TRUE, hostedKey |-> FALSE, ngcKey |-> TRUE, optedOut |-> FALSE,
   login |-> TRUE, pulls |-> TRUE, probe |-> "fits"]

GpuChoices == {<<>>} \cup {<<a>> : a \in GpuKinds} \cup {<<a, b>> : a, b \in GpuKinds}

\* What the first device runs, and the second.
RowChoices ==
  {<<>>, <<RowOf(1, 1, 1, "teacher", NanoModel, "running")>>, <<RowOf(1, 1, 1, "teacher", OmniModel, "starting")>>,
   <<RowOf(1, 1, 1, "embedding", EmbedModel, "running")>>,
   <<RowOf(1, 2, 2, "teacher", NanoModel, "running"), RowOf(2, 1, 1, "student", SmallModel, "running")>>,
   <<RowOf(1, 2, 2, "teacher", NanoModel, "running"), RowOf(2, 1, 1, "teacher", SmallModel, "running")>>,
   <<RowOf(1, 1, 2, "teacher", NanoModel, "running"), RowOf(2, 2, 1, "teacher", NanoModel, "running")>>}

\* A device may have been asked for by number, large enough or not.
OnDevices(rows, gpus) == \A row \in Range(rows) : row.device \in DOMAIN gpus

\* A host at work, and one that is asked what it is fit for.
BusyHost(gpus, rows, key, gone) ==
  [IdleHost EXCEPT !.gpus = gpus, !.rows = rows, !.hostedKey = key, !.projects = FollowersOf(NanoModel),
                   !.archived = gone]
HostWith(gpus, docker, toolkit, ngc, key, login, probe, out) ==
  [IdleHost EXCEPT !.gpus = gpus, !.docker = docker, !.toolkit = toolkit, !.ngcKey = ngc, !.hostedKey = key,
                   !.login = login, !.probe = probe, !.optedOut = out]

BusyHosts ==
  {BusyHost(gpus, rows, key, gone) :
     gpus \in GpuChoices, rows \in RowChoices, key \in BOOLEAN, gone \in {{}, {1}}}
ChosenHosts ==
  {HostWith(gpus, docker, toolkit, ngc, key, login, probe, out) :
     gpus \in {<<GpuOf(7960, 90, TRUE)>>, <<GpuOf(4610, 89, TRUE), GpuOf(4610, 89, TRUE)>>},
     docker \in BOOLEAN, toolkit \in BOOLEAN, ngc \in BOOLEAN, key \in BOOLEAN, login \in BOOLEAN,
     probe \in {"fits", "timed_out", "absent", "unfit"}, out \in BOOLEAN}

HostQuestions == {q \in BusyHosts : OnDevices(q.rows, q.gpus)} \cup ChosenHosts
=============================================================================
