------------------------------ MODULE LocalNim ------------------------------
(***************************************************************************)
(* The NIM containers the backend runs on its own host: at most one per    *)
(* GPU.  A deployment is a row of some project's database; its container   *)
(* lives in Docker and its host-wide reservation is the row being active,  *)
(* that is starting or running.                                            *)
(*                                                                         *)
(*  - A flow is what one coroutine, or one worker thread, still has to do; *)
(*    its step names the await, or the pause between two transactions, at  *)
(*    which it stands.  Every action below is the code from one of those   *)
(*    points to the next.                                                  *)
(*  - _GPU_DEPLOY_LOCK is held by the flows of HoldsLock.                  *)
(*  - A crash loses the flows.  Rows and containers survive it; startup    *)
(*    recovery takes the active rows of that moment one after the other.   *)
(*                                                                         *)
(* What a Student's lifecycle does with its deployment is in               *)
(* StudentServing, which extends this module.                              *)
(***************************************************************************)
EXTENDS Naturals, FiniteSets

CONSTANTS
  Projects,     \* projects of the workspace
  Gpus,         \* devices of the host
  Resident,     \* bound: roles of a NIM that may be here from earlier
  Requestable,  \* bound: roles that users deploy here
  MaxIds,       \* bound: deployment ids
  MaxRequests,  \* bound: what users ask for: deployments, stops, reuses
  MaxCrashes,   \* bound: backend crashes
  MaxFaults,    \* bound: what Docker refuses or leaves unanswered, stops that raise
  MaxEvents     \* bound: requests, crashes and faults together

ASSUME BoundsAssumption ==
  /\ Resident \cup Requestable \subseteq {"teacher", "embedding"}
  /\ MaxIds \in Nat \ {0}
  /\ {MaxRequests, MaxCrashes, MaxFaults, MaxEvents} \subseteq Nat

Ids == 1 .. MaxIds

\* What a deployment is of.  A "bare" one is a Student's without a
\* student_model_id; no request makes one, a restoration may.
Kind == [owner : Projects, role : {"teacher", "embedding", "student", "bare"}, gpu : Gpus]
Unused == [role |-> "unused"]

VARIABLES
  \* ---- SQLite: survives a crash
  what,      \* what a deployment is of (its row's, or its container's if it has no row)
  status,    \* LocalNimDeployment.status
  ided,      \* deployments whose container_id is on record
  by,        \* displaced_by_deployment_id, 0 if none
  bound,     \* <<p, d>>: project p has an enabled endpoint linked to Teacher d
  config,    \* the NIM that EmbeddingDeploymentConfig points to, 0 if none
  \* ---- Docker: survives a crash
  box,       \* the container: none, up, ready (answers), dead (exited, not removed)
  \* ---- process memory
  flows,     \* what each coroutine or thread has left to do
  todo,      \* rows that startup recovery has yet to look at
  \* ---- bookkeeping
  torn,      \* deployments whose clean-up was cut short
  left,      \* deployments whose container Docker kept, or was not asked to remove
  spared,    \* residents whose stop raised, and who stay
  requests, crashes, faults  \* bound counters

rows == <<what, status, ided, by>>
links == <<bound, config>>
marks == <<torn, left, spared>>
bounds == <<requests, crashes, faults>>
nimVars == <<rows, links, box, flows, todo, marks, bounds>>

Steps == {"lock", "evict", "stamp", "reserve", "preflight", "remove", "run", "undo", "poll",
          "verify", "register", "fail", "stop", "attach", "recheck", "inspect", "drop", "purge",
          "prepare", "watch", "stages", "quit", "close"}
\* place, replace: queued deployments; student, return: a lifecycle's own.
Modes == {"place", "replace", "student", "return", "task", "startup"}
Flow == [step : Steps, mode : Modes, d : Ids \cup {0}, kind : Kind,
         v : SUBSET Ids, named : SUBSET Ids]

NimTypeOK ==
  /\ what \in [Ids -> Kind \cup {Unused}]
  /\ status \in [Ids -> {"none", "starting", "running", "failed", "stopped"}]
  /\ ided \subseteq Ids
  /\ by \in [Ids -> Ids \cup {0}]
  /\ bound \subseteq Projects \X Ids
  /\ config \in Ids \cup {0}
  /\ box \in [Ids -> {"none", "up", "ready", "dead"}]
  /\ flows \subseteq Flow
  /\ todo \subseteq Ids
  /\ torn \subseteq Ids /\ left \subseteq Ids /\ spared \subseteq Ids
  /\ requests \in 0 .. MaxRequests /\ crashes \in 0 .. MaxCrashes /\ faults \in 0 .. MaxFaults

Active(d)   == status[d] \in {"starting", "running"}
Terminal(d) == status[d] \in {"stopped", "failed"}
IsStudent(k) == k.role \in {"student", "bare"}

\* A host with nothing on it, or with one resident that has been adopted.
Nothing == [d \in Ids |-> "none"]
NimInit ==
  /\ \/ /\ what = [d \in Ids |-> Unused]
        /\ status = Nothing /\ box = Nothing /\ ided = {} /\ bound = {} /\ config = 0
     \/ \E k \in Kind :
          /\ k.role \in Resident
          /\ what = [d \in Ids |-> IF d = 1 THEN k ELSE Unused]
          /\ status = [Nothing EXCEPT ![1] = "running"]
          /\ box = [Nothing EXCEPT ![1] = "ready"]
          /\ ided = {1}
          /\ bound = IF k.role = "teacher" THEN {<<k.owner, 1>>} ELSE {}
          /\ config = IF k.role = "embedding" THEN 1 ELSE 0
  /\ by = [d \in Ids |-> 0]
  /\ flows = {} /\ todo = {}
  /\ torn = {} /\ left = {} /\ spared = {}
  /\ requests = 0 /\ crashes = 0 /\ faults = 0

-----------------------------------------------------------------------------
(* Names, residents and flows.                                             *)

\* build_container_name: one name for all generations of a project and role.
SameName(k, l) == <<k.role, k.owner>> = <<l.role, l.owner>>
Exists(d) == box[d] # "none"
Live(d) == box[d] \in {"up", "ready"}
Named(k) == {b \in Ids : Exists(b) /\ SameName(what[b], k)}

\* scan_active_residents_by_device, of one device.
Residents(g) == {d \in Ids : Active(d) /\ what[d].gpu = g}

\* generate_uuid4: in the order they are made, for the least representation.
InUse == {d \in Ids : what[d] # Unused} \cup {by[e] : e \in Ids} \cup {f.d : f \in flows}
Fresh(d) == d - 1 \in InUse \cup {0} /\ \A e \in InUse : e < d

\* A lifecycle's deployment holds the lock until its row is there; a queued
\* one only until its reservation is.
Lifecycle(f) == f.mode \in {"student", "return"}
HoldsLock(f) == \/ f.step \in {"evict", "stamp", "reserve"}
                \/ f.step \in {"preflight", "remove", "run"} /\ Lifecycle(f)
LockFree == \A f \in flows : ~ HoldsLock(f)

\* Startup is over and the program serves.
Serving == todo = {} /\ \A f \in flows : f.mode # "startup"

At(s, d, m) == [step |-> s, mode |-> m, d |-> d, kind |-> what[d], v |-> {}, named |-> {}]
To(f, s) == [f EXCEPT !.step = s]
Then(f, F) == flows' = (flows \ {f}) \cup F

\* What a teardown is told to remove: the recorded id, or else the name.
ByName(d) == IF d \in ided THEN {} ELSE {d}
TearsDown(f, s) == [To(f, s) EXCEPT !.named = ByName(f.d)]
Hit(d, named) == IF d \in named THEN Named(what[d]) ELSE {d}
Removed(S) == box' = [b \in Ids |-> IF b \in S THEN "none" ELSE box[b]]

InBounds == requests + crashes + faults < MaxEvents
Fault == faults < MaxFaults /\ InBounds /\ faults' = faults + 1

\* docker stop and docker rm -f are best effort: what they do not remove stays
\* there, up or exited, and the caller goes on as if it were gone.
Kept(d) == left' = left \cup {b \in {d} : Exists(b)}
Refused(d, S) == (\E b \in S : Exists(b)) /\ Kept(d) /\ UNCHANGED box
TearDown(d, S) ==
  \/ Removed(S) /\ UNCHANGED <<left, faults>>
  \/ Refused(d, S) /\ Fault

\* disable_teacher_resident_endpoints, _reset_embedding_deployment_config
Detached(S) ==
  /\ bound' = {b \in bound : b[2] \notin S}
  /\ config' = IF config \in S THEN 0 ELSE config

Displaced(d) == {e \in Ids : by[e] = d}

Waiting(k, m, d) == [step |-> "lock", mode |-> m, d |-> 0, kind |-> k, v |-> {d}, named |-> {}]

\* restore_displaced_deployments: queued, and never at a resident's expense.
\* Mutant: the failed replacement keeps no promise.
NotRestored(d) == {}

Restored(d) == {Waiting(what[e], "place", d) : e \in {x \in Displaced(d) : ~ IsStudent(what[x])}}

\* _restore_all_displaced, when a lifecycle ends: whatever its role was, and
\* without the student_model_id.
Returned(d) ==
  {Waiting(IF IsStudent(what[e]) THEN [what[e] EXCEPT !.role = "bare"] ELSE what[e], "return", d)
     : e \in Displaced(d)}

-----------------------------------------------------------------------------
(* Deploying: deploy_local_nim and what it leaves to its task.             *)

Requested ==
  /\ Serving
  /\ requests < MaxRequests /\ InBounds
  /\ requests' = requests + 1

\* The deploy request: explicit device, or the placement's choice.  An
\* occupied one takes replace_resident.
RequestDeploy(k, m) ==
  /\ Requested
  /\ k.role \in Requestable
  /\ m = "place" => Residents(k.gpu) = {}
  /\ flows' = flows \cup {[step |-> "lock", mode |-> m, d |-> 0, kind |-> k,
                           v |-> {}, named |-> {}]}
  /\ UNCHANGED <<rows, links, box, todo, marks, crashes, faults>>

Replaces(f) == f.mode \in {"replace", "student"}

\* Mutant: what the caller found free is still free.
AdmissibleUnchecked(f) == TRUE

Admissible(f) == Replaces(f) \/ Residents(f.kind.gpu) = {}

\* A refused restoration is logged, a refused request answered with 409.
Refuse(f) ==
  /\ f.step = "lock" /\ LockFree
  /\ ~ Admissible(f)
  /\ Then(f, {})
  /\ UNCHANGED <<rows, links, box, todo, marks, bounds>>

\* One resident after the other, in the order of the scan.  A row that ended
\* meanwhile is only stamped.
Foremost(v) == CHOOSE d \in v : TRUE
EvictNext(f, v) ==
  IF v = {} THEN [To(f, "reserve") EXCEPT !.v = v, !.named = {}]
  ELSE [To(f, IF Active(Foremost(v)) THEN "evict" ELSE "stamp")
          EXCEPT !.v = v, !.named = ByName(Foremost(v))]

\* The lock is the flow's, and an id.
Acquire(f) ==
  /\ f.step = "lock" /\ LockFree
  /\ Admissible(f)
  /\ \E d \in Ids :
       LET g == [f EXCEPT !.d = d] IN
       /\ Fresh(d)
       /\ Then(f, {IF Replaces(f) THEN EvictNext(g, Residents(f.kind.gpu)) ELSE To(g, "reserve")})
  /\ UNCHANGED <<rows, links, box, todo, marks, bounds>>

\* stop_local_nim after its teardown: stopped, whatever the row says by now.
Stopped(d, named) ==
  /\ TearDown(d, Hit(d, named))
  /\ status' = [status EXCEPT ![d] = "stopped"]
  /\ Detached({d})

\* stop_gpu_residents: a resident is stopped.
Evict(f) ==
  /\ f.step = "evict"
  /\ Stopped(Foremost(f.v), f.named)
  /\ Then(f, {[To(f, "stamp") EXCEPT !.named = {}]})
  /\ UNCHANGED <<what, ided, by, todo, torn, spared, requests, crashes>>

\* The stop raised before its commit, its container gone or not.
Spared(d, named) ==
  /\ spared' = spared \cup {d}
  /\ UNCHANGED box \/ Removed(Hit(d, named))
  /\ UNCHANGED <<status, links, torn, left>>

\* It raised after its commit, in the reset of the configuration or the resweep.
HalfStopped(d, named) ==
  /\ what[d].role = "embedding"
  /\ Refused(d, Hit(d, named)) \/ (Removed(Hit(d, named)) /\ UNCHANGED left)
  /\ status' = [status EXCEPT ![d] = "stopped"]
  /\ \/ Detached({d}) /\ UNCHANGED torn
     \/ torn' = torn \cup {d} /\ UNCHANGED links
  /\ UNCHANGED spared

\* A stop that raises is logged: no stamp, and on to the next.
EvictRaises(f) ==
  /\ f.step = "evict" /\ Fault
  /\ LET d == Foremost(f.v) IN
       /\ Spared(d, f.named) \/ HalfStopped(d, f.named)
       /\ Then(f, {EvictNext(f, f.v \ {d})})
  /\ UNCHANGED <<what, ided, by, todo, requests, crashes>>

\* Who displaced it is recorded by a commit of its own.
Stamp(f) ==
  /\ f.step = "stamp"
  /\ by' = [by EXCEPT ![Foremost(f.v)] = f.d]
  /\ Then(f, {EvictNext(f, f.v \ {Foremost(f.v)})})
  /\ UNCHANGED <<what, status, ided, links, box, todo, marks, bounds>>

\* The GPU is the deployment's: a queued one reserves it with its row.
Queued(f) == f.mode \in {"place", "replace"}
Reserve(f) ==
  /\ f.step = "reserve"
  /\ what' = IF Queued(f) THEN [what EXCEPT ![f.d] = f.kind] ELSE what
  /\ status' = IF Queued(f) THEN [status EXCEPT ![f.d] = "starting"] ELSE status
  /\ Then(f, {To(f, "preflight")})
  /\ UNCHANGED <<ided, by, links, box, todo, marks, bounds>>

StillReserved(f) == Queued(f) => status[f.d] = "starting"

PreflightPasses(f) ==
  /\ f.step = "preflight"
  /\ Then(f, IF StillReserved(f) THEN {To(f, "remove")} ELSE {})
  /\ UNCHANGED <<rows, links, box, todo, marks, bounds>>

\* docker rm -f of the name, before the run.
Remove(f) ==
  /\ f.step = "remove"
  /\ TearDown(f.d, Named(f.kind))
  /\ Then(f, {To(f, "run")})
  /\ UNCHANGED <<rows, links, todo, torn, spared, requests, crashes>>

\* Preflight or docker run failed.  A lifecycle's deployment gets its row now.
\* A docker run that timed out may have started its container all the same.
DeployFails(f) ==
  /\ f.step \in {"preflight", "run"}
  /\ what' = [what EXCEPT ![f.d] = f.kind]
  /\ status' = IF StillReserved(f) THEN [status EXCEPT ![f.d] = "failed"] ELSE status
  /\ Then(f, IF f.mode = "student" THEN Returned(f.d)
             ELSE IF f.mode # "return" /\ StillReserved(f) THEN Restored(f.d) ELSE {})
  /\ \/ UNCHANGED <<box, left, faults>>
     \/ /\ f.step = "run" /\ Named(f.kind) = {} /\ Fault
        /\ box' = [box EXCEPT ![f.d] = "up"]
        /\ left' = left \cup {f.d}
  /\ UNCHANGED <<ided, by, links, todo, torn, spared, requests, crashes>>

\* Mutant: nobody removes what was started for a stopped deployment.
OnceStartedForgets(f) ==
  IF StillReserved(f) THEN {[At("poll", f.d, "task") EXCEPT !.kind = f.kind]} ELSE {}

\* The container runs: it is polled, and a lifecycle watches its row; or the
\* reservation was released, and the container must go again.
OnceStarted(f) ==
  IF ~ StillReserved(f) THEN {To(f, "undo")}
  ELSE {[At("poll", f.d, "task") EXCEPT !.kind = f.kind]}
         \cup (IF Lifecycle(f) THEN {To(f, "watch")} ELSE {})

Run(f) ==
  /\ f.step = "run"
  /\ Named(f.kind) = {}
  /\ box' = [box EXCEPT ![f.d] = "up"]
  /\ what' = [what EXCEPT ![f.d] = f.kind]
  /\ status' = IF Lifecycle(f) THEN [status EXCEPT ![f.d] = "starting"] ELSE status
  /\ ided' = IF StillReserved(f) THEN ided \cup {f.d} ELSE ided
  /\ Then(f, OnceStarted(f))
  /\ UNCHANGED <<by, links, todo, marks, bounds>>

Undo(f) ==
  /\ f.step = "undo"
  /\ TearDown(f.d, {f.d})
  /\ Then(f, {})
  /\ UNCHANGED <<rows, links, todo, torn, spared, requests, crashes>>

-----------------------------------------------------------------------------
(* Health: _poll_health, _on_healthy, _fail_active_deployment.             *)

Load(d) ==
  /\ box[d] = "up"
  /\ box' = [box EXCEPT ![d] = "ready"]
  /\ UNCHANGED <<rows, links, flows, todo, marks, bounds>>

Exit(d) ==
  /\ Live(d)
  /\ box' = [box EXCEPT ![d] = "dead"]
  /\ UNCHANGED <<rows, links, flows, todo, marks, bounds>>

\* _promote_or_adopt_running: only recovery may find the row running.
Promotable(f) ==
  status[f.d] = "starting" \/ (f.mode = "startup" /\ status[f.d] = "running")

\* The promotion, and for an embedding the stamp on the configuration.
Promoted(f) ==
  /\ status' = IF Promotable(f) THEN [status EXCEPT ![f.d] = "running"] ELSE status
  /\ config' = IF Promotable(f) /\ f.kind.role = "embedding" THEN f.d ELSE config

\* A Teacher's health is verified first.
Healthy(f) ==
  IF f.kind.role = "teacher"
  THEN Then(f, {To(f, "verify")}) /\ UNCHANGED <<status, config>>
  ELSE Then(f, {}) /\ Promoted(f)

PollHealthy(f) ==
  /\ f.step = "poll"
  /\ box[f.d] = "ready"
  /\ Healthy(f)
  /\ UNCHANGED <<what, ided, by, bound, box, todo, marks, bounds>>

\* Marked failed first; the teardown and the rest only if this did it.
MarkedFailed(f, from) ==
  IF status[f.d] \in from
  THEN /\ status' = [status EXCEPT ![f.d] = "failed"]
       /\ Then(f, {TearsDown(f, "fail")})
  ELSE Then(f, {}) /\ UNCHANGED status

\* The container exited or is missing, or the startup timeout passed.
PollGivesUp(f) ==
  /\ f.step = "poll"
  /\ MarkedFailed(f, {"starting"})
  /\ UNCHANGED <<what, ided, by, links, box, todo, marks, bounds>>

\* verify_served_model and _probe_inference_ready.  An endpoint that is there
\* already is only repaired.
VerifyPasses(f) ==
  /\ f.step = "verify"
  /\ Promoted(f)
  /\ Then(f, IF Promotable(f) /\ <<f.kind.owner, f.d>> \notin bound
             THEN {To(f, "register")} ELSE {})
  /\ UNCHANGED <<what, ided, by, bound, box, todo, marks, bounds>>

VerifyFails(f) ==
  /\ f.step = "verify"
  /\ MarkedFailed(f, {"starting", "running"})
  /\ UNCHANGED <<what, ided, by, links, box, todo, marks, bounds>>

\* Mutant: it was running before create_nim_endpoint.
StillRunsPresumably(d) == TRUE

StillRuns(d) == status[d] = "running"

\* create_nim_endpoint has returned.  Projects that still select this Teacher
\* are reattached (reattach_selected_teacher_consumers).
Register(f) ==
  /\ f.step = "register"
  /\ \E C \in SUBSET Projects :
       bound' = IF StillRuns(f.d) THEN bound \cup ((C \cup {f.kind.owner}) \X {f.d}) ELSE bound
  /\ Then(f, {})
  /\ UNCHANGED <<rows, config, box, todo, marks, bounds>>

\* The teardown of a failed deployment returns.
FailDone(f) ==
  /\ f.step = "fail"
  /\ TearDown(f.d, Hit(f.d, f.named))
  /\ Detached({f.d})
  /\ Then(f, Restored(f.d))
  /\ UNCHANGED <<rows, todo, torn, spared, requests, crashes>>

-----------------------------------------------------------------------------
(* Stop, and reuse by another project.                                     *)

RequestStop(d) ==
  /\ Requested /\ Active(d)
  /\ flows' = flows \cup {[At("stop", d, "task") EXCEPT !.named = ByName(d)]}
  /\ UNCHANGED <<rows, links, box, todo, marks, crashes, faults>>

StopDone(f) ==
  /\ f.step = "stop"
  /\ Stopped(f.d, f.named)
  /\ Then(f, {})
  /\ UNCHANGED <<what, ided, by, todo, torn, spared, requests, crashes>>

\* reuse_compatible_running_teacher, on a worker thread: find the resident and
\* its owner's row, attach in one's own database, read the owner's row again.
Reuse(p, d) ==
  /\ Requested
  /\ status[d] = "running" /\ what[d].role = "teacher"
  /\ flows' = flows \cup {[At("attach", d, "task") EXCEPT !.kind.owner = p]}
  /\ UNCHANGED <<rows, links, box, todo, marks, crashes, faults>>

Attach(f) ==
  /\ f.step = "attach"
  /\ bound' = bound \cup {<<f.kind.owner, f.d>>}
  /\ Then(f, {To(f, "recheck")})
  /\ UNCHANGED <<rows, config, box, todo, marks, bounds>>

Recheck(f) ==
  /\ f.step = "recheck"
  /\ IF StillRuns(f.d) THEN UNCHANGED links ELSE Detached({f.d})
  /\ Then(f, {})
  /\ UNCHANGED <<rows, box, todo, marks, bounds>>

-----------------------------------------------------------------------------
(* Crash, and recover_local_deployments before the program serves again.   *)

\* A docker run in flight may have started its container.
Crash ==
  /\ crashes < MaxCrashes /\ InBounds
  /\ crashes' = crashes + 1
  /\ \E F \in SUBSET {f \in flows : f.step = "run" /\ Named(f.kind) = {}} :
       /\ \A f, g \in F : f # g => ~ SameName(f.kind, g.kind)
       /\ box' = [d \in Ids |-> IF \E f \in F : f.d = d THEN "up" ELSE box[d]]
       /\ what' = [d \in Ids |-> IF \E f \in F : f.d = d
                                 THEN (CHOOSE f \in F : f.d = d).kind ELSE what[d]]
       /\ torn' = torn \cup {d \in Ids : ~ Active(d) /\ \E f \in flows : f.d = d \/ d \in f.v}
  /\ flows' = {}
  /\ todo' = {d \in Ids : Active(d)}
  /\ UNCHANGED <<status, ided, by, links, left, spared, requests, faults>>

RecoverNext(d) ==
  /\ d \in todo /\ \A f \in flows : f.mode # "startup"
  /\ todo' = todo \ {d}
  /\ flows' = flows \cup {[At(IF IsStudent(what[d]) THEN "purge" ELSE "inspect", d, "startup")
                             EXCEPT !.named = ByName(d)]}
  /\ UNCHANGED <<rows, links, box, marks, bounds>>

Alive(d) == \E b \in Named(what[d]) : Live(b)

InspectHealthy(f) ==
  /\ f.step = "inspect"
  /\ box[f.d] = "ready"
  /\ Healthy(f)
  /\ UNCHANGED <<what, ided, by, bound, box, todo, marks, bounds>>

\* A container that still starts is polled again.
Resumed(f) == {[f EXCEPT !.step = "poll", !.mode = "task", !.named = {}]}

InspectStarting(f) ==
  /\ f.step = "inspect"
  /\ Alive(f.d) /\ status[f.d] = "starting"
  /\ Then(f, Resumed(f))
  /\ UNCHANGED <<rows, links, box, todo, marks, bounds>>

InspectUnhealthy(f) ==
  /\ f.step = "inspect"
  /\ Alive(f.d) /\ status[f.d] = "running"
  /\ Then(f, {To(f, "drop")})
  /\ UNCHANGED <<rows, links, box, todo, marks, bounds>>

Drop(f) ==
  /\ f.step = "drop"
  /\ Stopped(f.d, f.named)
  /\ Then(f, Restored(f.d))
  /\ UNCHANGED <<what, ided, by, todo, torn, spared, requests, crashes>>

\* Nothing runs under its name, or docker inspect failed or did not answer: no
\* teardown either way.
InspectGone(f) ==
  /\ f.step = "inspect"
  /\ \/ ~ Alive(f.d) /\ UNCHANGED <<left, faults>>
     \/ Alive(f.d) /\ Kept(f.d) /\ Fault
  /\ status' = [status EXCEPT ![f.d] = "stopped"]
  /\ Detached({f.d})
  /\ Then(f, Restored(f.d))
  /\ UNCHANGED <<what, ided, by, box, todo, torn, spared, requests, crashes>>

\* _recover_student_deployment: never rebound.
Purge(f) ==
  /\ f.step = "purge"
  /\ Removed(Hit(f.d, f.named))
  /\ status' = [status EXCEPT ![f.d] = "stopped"]
  /\ Then(f, Restored(f.d))
  /\ UNCHANGED <<what, ided, by, links, todo, marks, bounds>>

\* Docker does not confirm the removal: the row keeps its GPU.
PurgeUnconfirmed(f) ==
  /\ f.step = "purge"
  /\ torn' = torn \cup {f.d}
  /\ Then(f, {})
  /\ UNCHANGED <<rows, links, box, todo, left, spared, bounds>>

-----------------------------------------------------------------------------
(* Properties.                                                             *)

\* One NIM per GPU: no interleaving of requests, replacements, restorations
\* and recovery lets two rows hold a device, although each asks what is free
\* before it waits for the lock (deploy_local_nim).  The way out that the code
\* leaves: a replacement goes on when the stop of the resident raised
\* (stop_gpu_residents).
OneActiveRowPerGpu ==
  \A d, e \in Ids \ spared : Active(d) /\ Active(e) /\ what[d].gpu = what[e].gpu => d = e

\* No container outlives its reservation unseen: a live one whose row is not
\* active is being removed, unless a crash cut that short or Docker kept it.  The
\* placement counts rows, not containers (_teardown_deployment_container).
ContainersAreManaged ==
  \A d \in Ids : Live(d) /\ ~ Active(d) =>
    d \in torn \cup left \/ \E f \in flows : f.d = d /\ f.step \in {"undo", "fail"}

\* Nobody is sent to a dead NIM: an enabled endpoint, or the embedding
\* configuration, belongs to a running deployment, or to one whose failure or
\* reuse is not done with yet (_on_healthy, reuse_compatible_running_teacher).
BoundToLiveNims ==
  \A d \in Ids : (config = d \/ \E p \in Projects : <<p, d>> \in bound) =>
    \/ status[d] = "running" \/ d \in torn
    \/ \E f \in flows : f.d = d /\ f.step \in {"fail", "recheck"}

\* A replacement that fails, and a Student that is done, hands the GPU on: the
\* resident it displaced is deployed again or about to be; or somebody else has
\* had the GPU, who is newer or whose stop raised; or a crash cut that short
\* (restore_displaced_deployments, _restore_all_displaced).
Ended(d) == status[d] = "failed" \/ (IsStudent(what[d]) /\ status[d] = "stopped")
HandedOn(d) ==
  \E n \in Ids \ {d} :
    (n > d \/ n \in spared) /\ status[n] # "none" /\ what[n].gpu = what[d].gpu
DisplacedAreOwed ==
  \A d, e \in Ids : by[e] = d /\ ~ IsStudent(what[e]) /\ status[d] # "none" /\ Ended(d) =>
    \/ d \in torn \/ HandedOn(d)
    \/ \E f \in flows : \/ f.d = d /\ f.step \notin {"stop", "attach", "recheck"}
                        \/ d \in f.v

\* "The container is removed via the standard stop_local_nim path so the GPU is
\* actually freed (not just marked stopped in the DB)" (stop_gpu_residents).
DisplacementFreesTheGpu ==
  \A d \in Ids : by[d] # 0 /\ Live(d) =>
    d \in torn \/ \E f \in flows : f.d = d /\ f.step \in {"run", "undo"}
=============================================================================
