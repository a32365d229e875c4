----------------------- MODULE StudentServing_proofs -----------------------
(* Proofs, for any projects, devices, deployments, requests, crashes and   *)
(* faults, about the NIMs of the backend's host.  Each part of the         *)
(* invariant rests on those before it: who has the lock and the GPU, what  *)
(* became of the containers, who is sent to a NIM, and who is owed one.    *)
EXTENDS StudentServing, TLAPS

-----------------------------------------------------------------------------
(* The lock, the rows and the devices.                                     *)

EvictSteps == {"evict", "stamp"}
DeploySteps == {"preflight", "remove", "run"}
StudentSteps == {"stages", "quit", "close"}

\* Which caller a flow can be at which step of.
ModesAgree ==
  \A f \in flows :
    /\ f.step \in {"lock", "reserve"} \cup EvictSteps \cup DeploySteps =>
         f.mode \in {"place", "replace", "student", "return"}
    /\ f.step \in EvictSteps => Replaces(f)
    /\ f.step = "undo" => Queued(f)
    /\ f.step = "watch" => Lifecycle(f)
    /\ f.step \in StudentSteps \cup {"prepare"} => f.mode = "student"

\* A row, like a container, is of something, and only rows are displaced.
RowsAreKnown ==
  \A d \in Ids :
    /\ status[d] # "none" \/ box[d] # "none" => what[d] \in Kind
    /\ by[d] # 0 => status[d] # "none"

\* A flow has an id once it has the lock, and the id a row once it lets go.
FlowsHaveRows ==
  /\ \A f \in flows : f.d = 0 <=> f.step \in {"lock", "prepare"}
  /\ \A f \in flows : f.d # 0 => (HoldsLock(f) <=> status[f.d] = "none")
  /\ \A d \in todo : status[d] # "none"

KindsAgree ==
  \A f \in flows : f.d # 0 /\ status[f.d] # "none" =>
    what[f.d].gpu = f.kind.gpu /\ what[f.d].role = f.kind.role

OneHolder == \A f, g \in flows : HoldsLock(f) /\ HoldsLock(g) => f = g

\* Who has the lock has the youngest id, and the GPU to itself but for those
\* it is about to evict and those whose stop raised.
Targets(f) == CASE f.step = "evict" -> f.v
                [] f.step = "stamp" -> f.v \ {Foremost(f.v)}
                [] OTHER            -> {}
HolderHasTheGpu ==
  \A f \in flows : HoldsLock(f) =>
    /\ \A d \in Ids : d > f.d => status[d] = "none"
    /\ Residents(f.kind.gpu) \subseteq spared \cup Targets(f)
    /\ f.step \in EvictSteps =>
         f.v # {} /\ \A e \in f.v : status[e] # "none" /\ what[e].gpu = f.kind.gpu

\* Ids are given in the order of the lock: of the deployments a GPU ever had,
\* only the youngest may be active, but for those whose stop raised.
YoungestHasTheGpu ==
  \A d, e \in Ids :
    d < e /\ d \notin spared /\ Active(d) /\ status[e] # "none" => what[d].gpu # what[e].gpu

LockInv ==
  /\ TypeOK
  /\ ModesAgree /\ RowsAreKnown /\ FlowsHaveRows /\ KindsAgree
  /\ OneHolder /\ HolderHasTheGpu /\ YoungestHasTheGpu

-----------------------------------------------------------------------------
(* The containers.                                                         *)

\* One flow deploys under an id, and has not run its container yet.
DeploymentsAreAlone ==
  \A f \in flows :
    /\ f.step \in {"reserve"} \cup EvictSteps \cup DeploySteps => box[f.d] = "none"
    /\ f.step \in DeploySteps \cup {"undo"} =>
         /\ \A g \in flows : g.d = f.d => g = f \/ g.step = "stop"
         /\ f.d \notin todo
         /\ Queued(f) => status[f.d] \in {"starting", "stopped"}
    /\ f.step = "undo" => status[f.d] = "stopped"

BoxInv == DeploymentsAreAlone /\ ContainersAreManaged

-----------------------------------------------------------------------------
(* Endpoints and the embedding configuration.                              *)

LinksHaveRoles ==
  \A d \in Ids :
    /\ \A p \in Projects : <<p, d>> \in bound => status[d] # "none" /\ what[d].role = "teacher"
    /\ config = d => status[d] # "none" /\ what[d].role = "embedding"

\* What the flows that promote, register and attach know of their deployment.
FlowsKnowTheirNim ==
  \A f \in flows :
    /\ f.step \in {"verify", "register", "attach", "recheck"} => f.kind.role = "teacher"
    /\ f.step \in {"attach", "recheck"} => status[f.d] \in {"running", "failed", "stopped"}
    /\ f.step = "fail" => Terminal(f.d)
    /\ f.step = "purge" => IsStudent(f.kind)

LinkInv == LinksHaveRoles /\ FlowsKnowTheirNim /\ BoundToLiveNims

-----------------------------------------------------------------------------
(* The displaced.                                                          *)

\* Startup recovery has yet to look at it, and nobody else does.
TodoIsQuiet == \A d \in todo : Active(d)
Undisturbed(f) == f.d \notin todo /\ (todo # {} => ~ Replaces(f))

RoleAgrees(f) ==
  /\ Queued(f) => ~ IsStudent(f.kind)
  /\ f.mode = "student" => f.kind.role = "student"

\* Who displaced a deployment has, or will have, its GPU; a restoration
\* displaces nobody.
DisplacersAgree == \A d, e \in Ids : by[e] = d /\ status[d] # "none" => what[d].gpu = what[e].gpu
DisplacerAgrees(f) ==
  f.d # 0 => \A e \in Ids : by[e] = f.d => what[e].gpu = f.kind.gpu /\ f.mode # "return"

\* Who waits to restore what d displaced waits for the GPU that d had, and
\* displaces nobody.
RestorerAgrees(f) ==
  f.step \notin EvictSteps =>
    /\ \A d \in f.v : Terminal(d) /\ what[d].gpu = f.kind.gpu /\ (f.d # 0 => f.d > d)
    /\ Replaces(f) => f.v = {}

Sound(f) == Undisturbed(f) /\ RoleAgrees(f) /\ DisplacerAgrees(f) /\ RestorerAgrees(f)
FlowsAreSound == \A f \in flows : Sound(f)

\* From the displacer's failure, or the Student's start, until they return.
Owes(d) == status[d] = "failed" \/ (status[d] # "none" /\ IsStudent(what[d]))
Ending(d) == IF IsStudent(what[d]) THEN {"watch", "purge"} \cup StudentSteps ELSE {"fail"}
Settles(f, d) == (f.d = d /\ f.step \in Ending(d)) \/ (d \in f.v /\ f.step \notin EvictSteps)

DisplacersArePursued ==
  \A d, e \in Ids : by[e] = d /\ ~ IsStudent(what[e]) /\ Owes(d) =>
    d \in torn \cup todo \/ HandedOn(d) \/ \E f \in flows : Settles(f, d)

OwedInv == TodoIsQuiet /\ FlowsAreSound /\ DisplacersAgree /\ DisplacersArePursued

-----------------------------------------------------------------------------
(* Flows: what becomes of one, and what it leaves.                         *)

LEMMA FlowFields ==
  ASSUME NEW f \in Flow
  PROVE  /\ f.step \in Steps /\ f.mode \in Modes /\ f.d \in Ids \cup {0}
         /\ f.kind \in Kind /\ f.v \subseteq Ids /\ f.named \subseteq Ids
  BY DEF Flow

LEMMA KindFields ==
  ASSUME NEW k \in Kind
  PROVE  /\ k.owner \in Projects /\ k.gpu \in Gpus
         /\ k.role \in {"teacher", "embedding", "student", "bare"}
         /\ [k EXCEPT !.role = "bare"] \in Kind /\ [k EXCEPT !.role = "bare"].gpu = k.gpu
         /\ [k EXCEPT !.role = "bare"].role = "bare"
         /\ \A p \in Projects : /\ [k EXCEPT !.owner = p] \in Kind
                                /\ [k EXCEPT !.owner = p].gpu = k.gpu
                                /\ [k EXCEPT !.owner = p].role = k.role
  BY DEF Kind

LEMMA Goes ==
  ASSUME NEW f \in Flow, NEW s \in Steps
  PROVE  /\ To(f, s) \in Flow /\ To(f, s).step = s /\ To(f, s).mode = f.mode
         /\ To(f, s).d = f.d /\ To(f, s).kind = f.kind /\ To(f, s).v = f.v
         /\ To(f, s).named = f.named
  BY DEF To, Flow

LEMMA GoesTearing ==
  ASSUME NEW f \in Flow, NEW s \in Steps, f.d \in Ids
  PROVE  /\ TearsDown(f, s) \in Flow /\ TearsDown(f, s).step = s
         /\ TearsDown(f, s).mode = f.mode /\ TearsDown(f, s).d = f.d
         /\ TearsDown(f, s).kind = f.kind /\ TearsDown(f, s).v = f.v
<1>1. ByName(f.d) \subseteq Ids
  BY DEF ByName
<1> QED
  BY <1>1 DEF TearsDown, To, Flow

LEMMA Resumes ==
  ASSUME NEW f \in Flow, NEW g \in Resumed(f)
  PROVE  /\ g \in Flow /\ g.step = "poll" /\ g.mode = "task"
         /\ g.d = f.d /\ g.kind = f.kind /\ g.v = f.v
  BY DEF Resumed, Flow, Steps, Modes

\* The restorations that wait when d ends: for whom it displaced, on the same GPU.
LEMMA Restores ==
  ASSUME TypeOK, RowsAreKnown, NEW d \in Ids
  PROVE  /\ \A g \in Restored(d) \cup Returned(d) :
              /\ g \in Flow /\ g.step = "lock" /\ g.d = 0 /\ g.v = {d}
              /\ \E e \in Ids : by[e] = d /\ g.kind.gpu = what[e].gpu
         /\ \A g \in Restored(d) : g.mode = "place" /\ ~ IsStudent(g.kind)
         /\ \A g \in Returned(d) : g.mode = "return"
         /\ \A e \in Ids : by[e] = d /\ ~ IsStudent(what[e]) => Restored(d) # {}
         /\ \A e \in Ids : by[e] = d => Returned(d) # {}
<1>1. ASSUME NEW e \in Displaced(d) PROVE e \in Ids /\ by[e] = d /\ what[e] \in Kind
  <2>1. e \in Ids /\ by[e] = d
    BY <1>1 DEF Displaced
  <2>2. by[e] # 0
    BY <2>1, BoundsAssumption DEF Ids
  <2>3. status[e] # "none"
    BY <2>1, <2>2 DEF RowsAreKnown
  <2> QED
    BY <2>1, <2>3 DEF RowsAreKnown
<1>2. ASSUME NEW k \in Kind, NEW m \in Modes
      PROVE  /\ Waiting(k, m, d) \in Flow /\ Waiting(k, m, d).step = "lock"
             /\ Waiting(k, m, d).d = 0 /\ Waiting(k, m, d).v = {d}
             /\ Waiting(k, m, d).kind = k /\ Waiting(k, m, d).mode = m
  BY DEF Waiting, Flow, Steps
<1>3. ASSUME NEW g \in Restored(d)
      PROVE  /\ g \in Flow /\ g.step = "lock" /\ g.d = 0 /\ g.v = {d}
             /\ g.mode = "place" /\ ~ IsStudent(g.kind)
             /\ \E e \in Ids : by[e] = d /\ g.kind.gpu = what[e].gpu
  <2>1. PICK e \in Displaced(d) : g = Waiting(what[e], "place", d) /\ ~ IsStudent(what[e])
    BY <1>3 DEF Restored
  <2> QED
    BY <1>1, <1>2, <2>1 DEF Modes
<1>4. ASSUME NEW g \in Returned(d)
      PROVE  /\ g \in Flow /\ g.step = "lock" /\ g.d = 0 /\ g.v = {d} /\ g.mode = "return"
             /\ \E e \in Ids : by[e] = d /\ g.kind.gpu = what[e].gpu
  <2> DEFINE K(e) == IF IsStudent(what[e]) THEN [what[e] EXCEPT !.role = "bare"] ELSE what[e]
  <2>1. PICK e \in Displaced(d) : g = Waiting(K(e), "return", d)
    BY <1>4 DEF Returned
  <2>2. K(e) \in Kind /\ K(e).gpu = what[e].gpu
    BY <1>1, KindFields
  <2> HIDE DEF K
  <2> QED
    BY <1>1, <1>2, <2>1, <2>2 DEF Modes
<1>5. ASSUME NEW e \in Ids, by[e] = d
      PROVE  /\ ~ IsStudent(what[e]) => Restored(d) # {}
             /\ Returned(d) # {}
  BY <1>5 DEF Restored, Returned, Displaced
<1> QED
  BY <1>3, <1>4, <1>5

\* Of those to evict, the next or nobody is left.
LEMMA EvictsNext ==
  ASSUME NEW f \in Flow, NEW v \in SUBSET Ids
  PROVE  /\ EvictNext(f, v) \in Flow /\ EvictNext(f, v).mode = f.mode
         /\ EvictNext(f, v).d = f.d /\ EvictNext(f, v).kind = f.kind /\ EvictNext(f, v).v = v
         /\ v = {} => EvictNext(f, v).step = "reserve"
         /\ v # {} => /\ Foremost(v) \in v
                      /\ \/ EvictNext(f, v).step = "evict"
                         \/ EvictNext(f, v).step = "stamp" /\ ~ Active(Foremost(v))
<1>1. v # {} => Foremost(v) \in v
  BY DEF Foremost
<1>2. v # {} => ByName(Foremost(v)) \subseteq Ids
  BY <1>1 DEF ByName
<1>3. CASE v = {}
  BY <1>3 DEF EvictNext, To, Flow, Steps
<1>4. CASE v # {}
  <2> DEFINE s == IF Active(Foremost(v)) THEN "evict" ELSE "stamp"
             N == ByName(Foremost(v))
  <2>1. EvictNext(f, v) = [f EXCEPT !.step = s, !.v = v, !.named = N]
    BY <1>4 DEF EvictNext, To, Flow
  <2>2. s \in Steps /\ N \subseteq Ids /\ (s = "evict" \/ (s = "stamp" /\ ~ Active(Foremost(v))))
    BY <1>2, <1>4 DEF Steps
  <2> HIDE DEF s, N
  <2> QED
    BY <1>1, <1>4, <2>1, <2>2 DEF Flow
<1> QED
  BY <1>3, <1>4

\* What a teardown does: a container of S goes or stays, and the one it is for
\* is on record if Docker kept it.
LEMMA TornDown ==
  ASSUME TypeOK, NEW d \in Ids, NEW S, TearDown(d, S)
  PROVE  /\ box' \in [Ids -> {"none", "up", "ready", "dead"}]
         /\ left \subseteq left' /\ left' \subseteq Ids /\ faults' \in 0 .. MaxFaults
         /\ \A b \in Ids : box'[b] = box[b] \/ (b \in S /\ box'[b] = "none")
         /\ d \in S => box'[d] = "none" \/ d \in left'
<1>1. CASE Removed(S) /\ UNCHANGED <<left, faults>>
  BY <1>1 DEF Removed, TypeOK, NimTypeOK
<1>2. CASE Refused(d, S) /\ Fault
  BY <1>2, BoundsAssumption DEF Refused, Kept, Exists, Fault, TypeOK, NimTypeOK
<1> QED
  BY <1>1, <1>2 DEF TearDown

\* By its id or by its name, a teardown is for the container of the deployment.
LEMMA HitsItsOwn ==
  ASSUME TypeOK, NEW d \in Ids, NEW N, TearDown(d, Hit(d, N))
  PROVE  box'[d] = "none" \/ d \in left'
<1>1. CASE box[d] = "none"
  BY <1>1, TornDown
<1>2. CASE box[d] # "none"
  <2>1. d \in Hit(d, N)
    BY <1>2 DEF Hit, Named, Exists, SameName
  <2> QED
    BY <2>1, TornDown
<1> QED
  BY <1>1, <1>2

-----------------------------------------------------------------------------
(* Steps that leave the lock alone.                                        *)

RestTypeOK ==
  /\ what \in [Ids -> Kind \cup {Unused}]
  /\ status \in [Ids -> {"none", "starting", "running", "failed", "stopped"}]
  /\ ided \subseteq Ids
  /\ by \in [Ids -> Ids \cup {0}]
  /\ bound \subseteq Projects \X Ids
  /\ config \in Ids \cup {0}
  /\ box \in [Ids -> {"none", "up", "ready", "dead"}]
  /\ todo \subseteq Ids /\ torn \subseteq Ids /\ left \subseteq Ids /\ spared \subseteq Ids
  /\ requests \in 0 .. MaxRequests /\ crashes \in 0 .. MaxCrashes /\ faults \in 0 .. MaxFaults
  /\ serving \in [Projects -> {"not_attempted", "pending", "validated", "failed"}]

\* Rows and containers end, or go on as they are; an owner may change.
Quietly ==
  /\ \A d \in Ids : what'[d] # what[d] =>
       /\ what[d] \in Kind /\ what'[d] \in Kind
       /\ what'[d].gpu = what[d].gpu /\ what'[d].role = what[d].role
  /\ \A d \in Ids : by'[d] # by[d] => status[d] # "none"
  /\ \A d \in Ids : status'[d] # status[d] =>
       status[d] # "none" /\ status'[d] # "none" /\ (Active(d)' => Active(d))
  /\ \A d \in Ids : box'[d] # "none" => box[d] # "none" \/ status[d] # "none"
  /\ todo' \subseteq todo /\ spared \subseteq spared'

\* What a flow may begin as, without the lock.
Joins(g) ==
  /\ g \in Flow
  /\ \/ g.step = "lock" /\ g.d = 0 /\ g.mode \in {"place", "replace", "student", "return"}
     \/ g.step = "prepare" /\ g.d = 0 /\ g.mode = "student"
     \/ /\ g.step \notin {"lock", "prepare", "reserve"} \cup EvictSteps \cup DeploySteps
        /\ g.d # 0 /\ status[g.d] # "none"
        /\ what[g.d].gpu = g.kind.gpu /\ what[g.d].role = g.kind.role
        /\ g.step = "undo" => Queued(g)
        /\ g.step = "watch" => Lifecycle(g)
        /\ g.step \in StudentSteps => g.mode = "student"

LEMMA QuietKeeps ==
  ASSUME LockInv, RestTypeOK', Quietly, \A g \in flows' : g \in flows \/ Joins(g)
  PROVE  LockInv'
<1>1. \A d \in Ids : (status'[d] = "none" <=> status[d] = "none") /\ (Active(d)' => Active(d))
  BY DEF Quietly, Active
<1>2. \A g \in flows' : g \in Flow /\ g.d \in Ids \cup {0} /\ g.kind \in Kind
  BY FlowFields DEF LockInv, TypeOK, NimTypeOK, Joins
<1>3. TypeOK'
  BY <1>2 DEF RestTypeOK, TypeOK, NimTypeOK
<1>4. \A g \in flows' : HoldsLock(g) => g \in flows
  BY DEF Joins, HoldsLock, DeploySteps, EvictSteps
<1>5. ModesAgree'
  BY DEF LockInv, ModesAgree, Joins, Replaces, Queued, Lifecycle, EvictSteps, DeploySteps,
         StudentSteps
<1>6. RowsAreKnown'
  BY <1>1 DEF LockInv, RowsAreKnown, Quietly
<1>7. FlowsHaveRows'
  <2>1. ASSUME NEW g \in flows' PROVE g.d = 0 <=> g.step \in {"lock", "prepare"}
    BY DEF LockInv, FlowsHaveRows, Joins
  <2>2. ASSUME NEW g \in flows', g.d # 0 PROVE HoldsLock(g) <=> status'[g.d] = "none"
    BY <1>1, <1>2, <2>2 DEF LockInv, FlowsHaveRows, Joins, HoldsLock, EvictSteps, DeploySteps
  <2> QED
    BY <1>1, <2>1, <2>2 DEF LockInv, TypeOK, NimTypeOK, FlowsHaveRows, HoldsLock, Lifecycle, Quietly
<1>8. KindsAgree'
  BY <1>1, <1>2 DEF LockInv, KindsAgree, Joins, Quietly
<1>9. OneHolder'
  BY <1>4 DEF LockInv, OneHolder, HoldsLock, Lifecycle
<1>11. \A g \in Gpus : Residents(g)' \subseteq Residents(g)
  BY <1>1 DEF Residents, Quietly
<1>12. HolderHasTheGpu'
  <2> SUFFICES ASSUME NEW f \in flows', HoldsLock(f)'
               PROVE  /\ \A d \in Ids : d > f.d => status'[d] = "none"
                      /\ Residents(f.kind.gpu)' \subseteq spared' \cup Targets(f)
                      /\ f.step \in EvictSteps =>
                           /\ f.v # {}
                           /\ \A e \in f.v : status'[e] # "none" /\ what'[e].gpu = f.kind.gpu
    BY DEF HolderHasTheGpu, Targets
  <2>1. f \in flows /\ HoldsLock(f) /\ f.kind.gpu \in Gpus /\ f.v \subseteq Ids
    BY <1>2, <1>4, KindFields, FlowFields DEF HoldsLock, Lifecycle
  <2>2. Residents(f.kind.gpu)' \subseteq spared' \cup Targets(f)
    BY <1>11, <2>1 DEF LockInv, HolderHasTheGpu, Quietly
  <2> QED
    BY <1>1, <2>1, <2>2 DEF LockInv, HolderHasTheGpu, Quietly
<1>13. YoungestHasTheGpu'
  BY <1>1 DEF LockInv, YoungestHasTheGpu, Quietly
<1> QED
  BY <1>3, <1>5, <1>6, <1>7, <1>8, <1>9, <1>12, <1>13 DEF LockInv

USE DEF EvictSteps, DeploySteps, StudentSteps

\* Requests: a deployment or a Student's lifecycle begins, a stop, a reuse.
LEMMA RequestKeeps ==
  ASSUME LockInv, Request \/ \E p \in Projects, g \in Gpus : DeployNim(p, g)
  PROVE  LockInv'
<1> USE DEF Requested
<1>1. ASSUME NEW k \in Kind, NEW m \in {"place", "replace"}, RequestDeploy(k, m), UNCHANGED serving
      PROVE  LockInv'
  <2> DEFINE n == [step |-> "lock", mode |-> m, d |-> 0, kind |-> k, v |-> {}, named |-> {}]
  <2>1. RestTypeOK' /\ Quietly
    BY <1>1, BoundsAssumption
    DEF RequestDeploy, LockInv, TypeOK, NimTypeOK, RestTypeOK, Quietly, rows, links, marks
  <2>2. n \in Flow
    BY DEF Flow, Steps, Modes
  <2>3. flows' = flows \cup {n} /\ n.step = "lock" /\ n.d = 0 /\ n.mode = m
    BY <1>1 DEF RequestDeploy
  <2> HIDE DEF n
  <2>4. \A g \in flows' : g \in flows \/ Joins(g)
    BY <2>2, <2>3 DEF Joins
  <2> QED
    BY <2>1, <2>4, QuietKeeps
<1>2. ASSUME NEW p \in Projects, NEW g \in Gpus, DeployNim(p, g) PROVE LockInv'
  <2> DEFINE k == [owner |-> p, role |-> "student", gpu |-> g]
             n == [step |-> "prepare", mode |-> "student", d |-> 0, kind |-> k, v |-> {},
                   named |-> {}]
  <2>1. RestTypeOK' /\ Quietly
    BY <1>2, BoundsAssumption
    DEF DeployNim, LockInv, TypeOK, NimTypeOK, RestTypeOK, Quietly, rows, links, marks
  <2>2. n \in Flow
    BY DEF Flow, Steps, Modes, Kind
  <2>3. flows' = flows \cup {n} /\ n.step = "prepare" /\ n.d = 0 /\ n.mode = "student"
    BY <1>2 DEF DeployNim
  <2> HIDE DEF n
  <2>4. \A h \in flows' : h \in flows \/ Joins(h)
    BY <2>2, <2>3 DEF Joins
  <2> QED
    BY <2>1, <2>4, QuietKeeps
<1>3. ASSUME NEW d \in Ids, RequestStop(d), UNCHANGED serving PROVE LockInv'
  <2> DEFINE n == [At("stop", d, "task") EXCEPT !.named = ByName(d)]
  <2>1. RestTypeOK' /\ Quietly
    BY <1>3, BoundsAssumption
    DEF RequestStop, LockInv, TypeOK, NimTypeOK, RestTypeOK, Quietly, rows, links, marks
  <2>2. flows' = flows \cup {n} /\ status[d] # "none" /\ what[d] \in Kind /\ d # 0
    BY <1>3, BoundsAssumption DEF RequestStop, Active, LockInv, RowsAreKnown, Ids
  <2>3. ByName(d) \subseteq Ids
    BY DEF ByName
  <2>4. n \in Flow /\ n.step = "stop" /\ n.d = d /\ n.kind = what[d]
    BY <2>2, <2>3 DEF At, Flow, Steps, Modes
  <2> HIDE DEF n
  <2>5. \A g \in flows' : g \in flows \/ Joins(g)
    BY <2>2, <2>4 DEF Joins
  <2> QED
    BY <2>1, <2>5, QuietKeeps
<1>4. ASSUME NEW p \in Projects, NEW d \in Ids, Reuse(p, d), UNCHANGED serving PROVE LockInv'
  <2> DEFINE n == [At("attach", d, "task") EXCEPT !.kind.owner = p]
  <2>1. RestTypeOK' /\ Quietly
    BY <1>4, BoundsAssumption
    DEF Reuse, LockInv, TypeOK, NimTypeOK, RestTypeOK, Quietly, rows, links, marks
  <2>2. flows' = flows \cup {n} /\ status[d] # "none" /\ what[d] \in Kind /\ d # 0
    BY <1>4, BoundsAssumption DEF Reuse, LockInv, RowsAreKnown, Ids
  <2>3. /\ n \in Flow /\ n.step = "attach" /\ n.d = d
        /\ n.kind.gpu = what[d].gpu /\ n.kind.role = what[d].role
    BY <2>2 DEF At, Flow, Kind, Steps, Modes
  <2> HIDE DEF n
  <2>4. \A g \in flows' : g \in flows \/ Joins(g)
    BY <2>2, <2>3 DEF Joins
  <2> QED
    BY <2>1, <2>4, QuietKeeps
<1> QED
  BY <1>1, <1>2, <1>3, <1>4 DEF Request

\* Docker loads and loses containers; startup recovery takes up a row.
LEMMA HostKeeps ==
  ASSUME LockInv, Docker \/ Recover
  PROVE  LockInv'
<1>1. CASE Docker
  <2>1. RestTypeOK' /\ Quietly
    BY <1>1, BoundsAssumption
    DEF Docker, Load, Exit, Live, LockInv, TypeOK, NimTypeOK, RestTypeOK, Quietly, rows, links,
        marks, bounds
  <2>2. \A g \in flows' : g \in flows
    BY <1>1 DEF Docker, Load, Exit
  <2> QED
    BY <2>1, <2>2, QuietKeeps
<1>2. ASSUME NEW d \in todo, RecoverNext(d), UNCHANGED serving PROVE LockInv'
  <2> DEFINE s == IF IsStudent(what[d]) THEN "purge" ELSE "inspect"
             n == [At(s, d, "startup") EXCEPT !.named = ByName(d)]
  <2>1. RestTypeOK' /\ Quietly
    BY <1>2, BoundsAssumption
    DEF RecoverNext, LockInv, TypeOK, NimTypeOK, RestTypeOK, Quietly, rows, links, marks, bounds
  <2>2. flows' = flows \cup {n} /\ d \in Ids /\ status[d] # "none" /\ what[d] \in Kind /\ d # 0
    BY <1>2, BoundsAssumption
    DEF RecoverNext, LockInv, TypeOK, NimTypeOK, RowsAreKnown, FlowsHaveRows, Ids
  <2>3. ByName(d) \subseteq Ids
    BY <2>2 DEF ByName
  <2>4. n \in Flow /\ n.step \in {"purge", "inspect"} /\ n.d = d /\ n.kind = what[d]
    BY <2>2, <2>3 DEF At, Flow, Steps, Modes
  <2> HIDE DEF n
  <2>5. \A g \in flows' : g \in flows \/ Joins(g)
    BY <2>2, <2>4 DEF Joins
  <2> QED
    BY <2>1, <2>5, QuietKeeps
<1> QED
  BY <1>1, <1>2 DEF Recover

\* Flows that wait, poll, stop, attach, inspect and drop.
LEMMA FlowKeeps ==
  ASSUME LockInv, NEW f \in flows,
         UNCHANGED serving,
         \/ Refuse(f) \/ Undo(f) \/ PollHealthy(f) \/ PollGivesUp(f) \/ VerifyPasses(f)
         \/ VerifyFails(f) \/ Register(f) \/ FailDone(f) \/ StopDone(f) \/ Attach(f)
         \/ Recheck(f) \/ InspectHealthy(f) \/ InspectStarting(f)
         \/ InspectUnhealthy(f) \/ Drop(f) \/ InspectGone(f)
  PROVE  LockInv'
<1>1. CASE Refuse(f) /\ UNCHANGED serving
  <2>1. RestTypeOK' /\ Quietly
    BY <1>1, FlowFields, BoundsAssumption
    DEF Refuse, Then, LockInv, TypeOK, NimTypeOK, FlowsHaveRows, RestTypeOK, Quietly, Active,
        HoldsLock, Lifecycle, rows, links, marks, bounds
  <2>2. \A g \in flows' : g \in flows \/ Joins(g)
    BY <1>1, FlowFields
    DEF Refuse, Then, LockInv, TypeOK, NimTypeOK, ModesAgree,
        RowsAreKnown, FlowsHaveRows, KindsAgree, Joins, Queued, Lifecycle, Replaces, HoldsLock,
        Steps, Modes
  <2> QED
    BY <2>1, <2>2, QuietKeeps
<1>2. CASE Undo(f) /\ UNCHANGED serving
  <2>1. RestTypeOK' /\ Quietly
    BY <1>2, FlowFields, BoundsAssumption, TornDown
    DEF Undo, Then, LockInv, TypeOK, NimTypeOK, FlowsHaveRows, RestTypeOK, Quietly, Active,
        HoldsLock, Lifecycle, rows, links, marks, bounds
  <2>2. \A g \in flows' : g \in flows \/ Joins(g)
    BY <1>2, FlowFields
    DEF Undo, Then, LockInv, TypeOK, NimTypeOK, ModesAgree,
        RowsAreKnown, FlowsHaveRows, KindsAgree, Joins, Queued, Lifecycle, Replaces, HoldsLock,
        Steps, Modes
  <2> QED
    BY <2>1, <2>2, QuietKeeps
<1>3. CASE PollHealthy(f) /\ UNCHANGED serving
  <2>1. RestTypeOK' /\ Quietly
    BY <1>3, FlowFields, BoundsAssumption
    DEF PollHealthy, Healthy, Promoted, Promotable, Then, LockInv, TypeOK, NimTypeOK, FlowsHaveRows,
        RestTypeOK, Quietly, Active, HoldsLock, Lifecycle, rows, links, marks, bounds
  <2>2. \A g \in flows' : g \in flows \/ Joins(g)
    BY <1>3, FlowFields, Goes
    DEF PollHealthy, Healthy, Then, LockInv, TypeOK, NimTypeOK,
        ModesAgree, RowsAreKnown, FlowsHaveRows, KindsAgree, Joins, Queued, Lifecycle, Replaces,
        HoldsLock, Steps, Modes
  <2> QED
    BY <2>1, <2>2, QuietKeeps
<1>4. CASE PollGivesUp(f) /\ UNCHANGED serving
  <2>1. RestTypeOK' /\ Quietly
    BY <1>4, FlowFields, BoundsAssumption
    DEF PollGivesUp, MarkedFailed, Then, LockInv, TypeOK, NimTypeOK, FlowsHaveRows, RestTypeOK,
        Quietly, Active, HoldsLock, Lifecycle, rows, links, marks, bounds
  <2>2. \A g \in flows' : g \in flows \/ Joins(g)
    BY <1>4, FlowFields, GoesTearing
    DEF PollGivesUp, MarkedFailed, Then, LockInv, TypeOK,
        NimTypeOK, ModesAgree, RowsAreKnown, FlowsHaveRows, KindsAgree, Joins, Queued,
        Lifecycle, Replaces, HoldsLock, Steps, Modes
  <2> QED
    BY <2>1, <2>2, QuietKeeps
<1>5. CASE VerifyPasses(f) /\ UNCHANGED serving
  <2>1. RestTypeOK' /\ Quietly
    BY <1>5, FlowFields, BoundsAssumption
    DEF VerifyPasses, Promoted, Promotable, Then, LockInv, TypeOK, NimTypeOK, FlowsHaveRows,
        RestTypeOK, Quietly, Active, HoldsLock, Lifecycle, rows, links, marks, bounds
  <2>2. \A g \in flows' : g \in flows \/ Joins(g)
    BY <1>5, FlowFields, Goes
    DEF VerifyPasses, Then, LockInv, TypeOK, NimTypeOK,
        ModesAgree, RowsAreKnown, FlowsHaveRows, KindsAgree, Joins, Queued, Lifecycle, Replaces,
        HoldsLock, Steps, Modes
  <2> QED
    BY <2>1, <2>2, QuietKeeps
<1>6. CASE VerifyFails(f) /\ UNCHANGED serving
  <2>1. RestTypeOK' /\ Quietly
    BY <1>6, FlowFields, BoundsAssumption
    DEF VerifyFails, MarkedFailed, Then, LockInv, TypeOK, NimTypeOK, FlowsHaveRows, RestTypeOK,
        Quietly, Active, HoldsLock, Lifecycle, rows, links, marks, bounds
  <2>2. \A g \in flows' : g \in flows \/ Joins(g)
    BY <1>6, FlowFields, GoesTearing
    DEF VerifyFails, MarkedFailed, Then, LockInv, TypeOK,
        NimTypeOK, ModesAgree, RowsAreKnown, FlowsHaveRows, KindsAgree, Joins, Queued,
        Lifecycle, Replaces, HoldsLock, Steps, Modes
  <2> QED
    BY <2>1, <2>2, QuietKeeps
<1>7. CASE Register(f) /\ UNCHANGED serving
  <2>1. RestTypeOK' /\ Quietly
    BY <1>7, FlowFields, KindFields, BoundsAssumption
    DEF Register, StillRuns, Then, LockInv, TypeOK, NimTypeOK, FlowsHaveRows, RestTypeOK, Quietly,
        Active, HoldsLock, Lifecycle, rows, links, marks, bounds
  <2>2. \A g \in flows' : g \in flows \/ Joins(g)
    BY <1>7, FlowFields
    DEF Register, Then, LockInv, TypeOK, NimTypeOK, ModesAgree,
        RowsAreKnown, FlowsHaveRows, KindsAgree, Joins, Queued, Lifecycle, Replaces, HoldsLock,
        Steps, Modes
  <2> QED
    BY <2>1, <2>2, QuietKeeps
<1>8. CASE FailDone(f) /\ UNCHANGED serving
  <2>1. RestTypeOK' /\ Quietly
    BY <1>8, FlowFields, BoundsAssumption, TornDown
    DEF FailDone, Detached, Then, LockInv, TypeOK, NimTypeOK, FlowsHaveRows, RestTypeOK, Quietly,
        Active, HoldsLock, Lifecycle, rows, links, marks, bounds
  <2>2. \A g \in flows' : g \in flows \/ Joins(g)
    BY <1>8, FlowFields, Restores
    DEF FailDone, Then, LockInv, TypeOK, NimTypeOK,
        ModesAgree, RowsAreKnown, FlowsHaveRows, KindsAgree, Joins, Queued, Lifecycle, Replaces,
        HoldsLock, Steps, Modes
  <2> QED
    BY <2>1, <2>2, QuietKeeps
<1>9. CASE StopDone(f) /\ UNCHANGED serving
  <2>1. RestTypeOK' /\ Quietly
    BY <1>9, FlowFields, BoundsAssumption, TornDown
    DEF StopDone, Stopped, Detached, Then, LockInv, TypeOK, NimTypeOK, FlowsHaveRows, RestTypeOK,
        Quietly, Active, HoldsLock, Lifecycle, rows, links, marks, bounds
  <2>2. \A g \in flows' : g \in flows \/ Joins(g)
    BY <1>9, FlowFields
    DEF StopDone, Then, LockInv, TypeOK, NimTypeOK, ModesAgree,
        RowsAreKnown, FlowsHaveRows, KindsAgree, Joins, Queued, Lifecycle, Replaces, HoldsLock,
        Steps, Modes
  <2> QED
    BY <2>1, <2>2, QuietKeeps
<1>10. CASE Attach(f) /\ UNCHANGED serving
  <2>1. f \in Flow /\ f.d \in Ids /\ f.kind.owner \in Projects
    BY <1>10, FlowFields, KindFields DEF Attach, LockInv, TypeOK, NimTypeOK, FlowsHaveRows
  <2>2. RestTypeOK' /\ Quietly
    BY <1>10, <2>1 DEF Attach, LockInv, TypeOK, NimTypeOK, RestTypeOK, Quietly, rows, marks, bounds
  <2>3. \A g \in flows' : g \in flows \/ Joins(g)
    BY <1>10, <2>1, Goes
    DEF Attach, Then, LockInv, TypeOK, NimTypeOK, ModesAgree, RowsAreKnown, FlowsHaveRows,
        KindsAgree, Joins, Queued, Lifecycle, Replaces, HoldsLock, Steps, Modes
  <2> QED
    BY <2>2, <2>3, QuietKeeps
<1>11. CASE Recheck(f) /\ UNCHANGED serving
  <2>1. RestTypeOK' /\ Quietly
    BY <1>11, FlowFields, BoundsAssumption
    DEF Recheck, StillRuns, Detached, Then, LockInv, TypeOK, NimTypeOK, FlowsHaveRows, RestTypeOK,
        Quietly, Active, HoldsLock, Lifecycle, rows, links, marks, bounds
  <2>2. \A g \in flows' : g \in flows \/ Joins(g)
    BY <1>11, FlowFields
    DEF Recheck, Then, LockInv, TypeOK, NimTypeOK, ModesAgree,
        RowsAreKnown, FlowsHaveRows, KindsAgree, Joins, Queued, Lifecycle, Replaces, HoldsLock,
        Steps, Modes
  <2> QED
    BY <2>1, <2>2, QuietKeeps
<1>12. CASE InspectHealthy(f) /\ UNCHANGED serving
  <2>1. RestTypeOK' /\ Quietly
    BY <1>12, FlowFields, BoundsAssumption
    DEF InspectHealthy, Healthy, Promoted, Promotable, Then, LockInv, TypeOK, NimTypeOK,
        FlowsHaveRows, RestTypeOK, Quietly, Active, HoldsLock, Lifecycle, rows, links, marks, bounds
  <2>2. \A g \in flows' : g \in flows \/ Joins(g)
    BY <1>12, FlowFields, Goes
    DEF InspectHealthy, Healthy, Then, LockInv, TypeOK,
        NimTypeOK, ModesAgree, RowsAreKnown, FlowsHaveRows, KindsAgree, Joins, Queued,
        Lifecycle, Replaces, HoldsLock, Steps, Modes
  <2> QED
    BY <2>1, <2>2, QuietKeeps
<1>13. CASE InspectStarting(f) /\ UNCHANGED serving
  <2>1. RestTypeOK' /\ Quietly
    BY <1>13, FlowFields, BoundsAssumption
    DEF InspectStarting, Then, LockInv, TypeOK, NimTypeOK, FlowsHaveRows, RestTypeOK, Quietly,
        Active, HoldsLock, Lifecycle, rows, links, marks, bounds
  <2>2. \A g \in flows' : g \in flows \/ Joins(g)
    BY <1>13, FlowFields, Resumes
    DEF InspectStarting, Then, LockInv, TypeOK, NimTypeOK,
        ModesAgree, RowsAreKnown, FlowsHaveRows, KindsAgree, Joins, Queued, Lifecycle, Replaces,
        HoldsLock, Steps, Modes
  <2> QED
    BY <2>1, <2>2, QuietKeeps
<1>14. CASE InspectUnhealthy(f) /\ UNCHANGED serving
  <2>1. RestTypeOK' /\ Quietly
    BY <1>14, FlowFields, BoundsAssumption
    DEF InspectUnhealthy, Then, LockInv, TypeOK, NimTypeOK, FlowsHaveRows, RestTypeOK, Quietly,
        Active, HoldsLock, Lifecycle, rows, links, marks, bounds
  <2>2. \A g \in flows' : g \in flows \/ Joins(g)
    BY <1>14, FlowFields, Goes
    DEF InspectUnhealthy, Then, LockInv, TypeOK, NimTypeOK,
        ModesAgree, RowsAreKnown, FlowsHaveRows, KindsAgree, Joins, Queued, Lifecycle, Replaces,
        HoldsLock, Steps, Modes
  <2> QED
    BY <2>1, <2>2, QuietKeeps
<1>15. CASE Drop(f) /\ UNCHANGED serving
  <2>1. RestTypeOK' /\ Quietly
    BY <1>15, FlowFields, BoundsAssumption, TornDown
    DEF Drop, Stopped, Detached, Then, LockInv, TypeOK, NimTypeOK, FlowsHaveRows, RestTypeOK,
        Quietly, Active, HoldsLock, Lifecycle, rows, links, marks, bounds
  <2>2. \A g \in flows' : g \in flows \/ Joins(g)
    BY <1>15, FlowFields, Restores
    DEF Drop, Then, LockInv, TypeOK, NimTypeOK, ModesAgree,
        RowsAreKnown, FlowsHaveRows, KindsAgree, Joins, Queued, Lifecycle, Replaces, HoldsLock,
        Steps, Modes
  <2> QED
    BY <2>1, <2>2, QuietKeeps
<1>16. CASE InspectGone(f) /\ UNCHANGED serving
  <2>1. RestTypeOK' /\ Quietly
    BY <1>16, FlowFields, BoundsAssumption
    DEF InspectGone, Kept, Fault, Detached, Then, LockInv, TypeOK, NimTypeOK, FlowsHaveRows,
        RestTypeOK, Quietly, Active, HoldsLock, Lifecycle, rows, links, marks, bounds
  <2>2. \A g \in flows' : g \in flows \/ Joins(g)
    BY <1>16, FlowFields, Restores
    DEF InspectGone, Alive, Then, LockInv, TypeOK, NimTypeOK,
        ModesAgree, RowsAreKnown, FlowsHaveRows, KindsAgree, Joins, Queued, Lifecycle, Replaces,
        HoldsLock, Steps, Modes
  <2> QED
    BY <2>1, <2>2, QuietKeeps
<1> QED
  BY <1>1, <1>2, <1>3, <1>4, <1>5, <1>6, <1>7, <1>8, <1>9, <1>10, <1>11, <1>12, <1>13, <1>14,
     <1>15, <1>16

\* A Student's lifecycle, but for its deployment.
LEMMA StudentKeeps ==
  ASSUME LockInv, NEW f \in flows,
         \/ Prepare(f) \/ WatchRuns(f) \/ WatchEnds(f) \/ StageFails(f)
         \/ StagesPass(f) \/ Close(f) \/ Quit(f) \/ Interrupted(f)
  PROVE  LockInv'
<1>1. CASE Prepare(f)
  <2>1. RestTypeOK' /\ Quietly
    BY <1>1, FlowFields, BoundsAssumption
    DEF Prepare, Verdict, Then, LockInv, TypeOK, NimTypeOK, FlowsHaveRows, RestTypeOK, Quietly,
        Active, HoldsLock, Lifecycle, rows, links, marks, bounds
  <2>2. \A g \in flows' : g \in flows \/ Joins(g)
    BY <1>1, FlowFields, Goes
    DEF Prepare, Then, LockInv, TypeOK, NimTypeOK, ModesAgree,
        RowsAreKnown, FlowsHaveRows, KindsAgree, Joins, Queued, Lifecycle, Replaces, HoldsLock,
        Steps, Modes
  <2> QED
    BY <2>1, <2>2, QuietKeeps
<1>2. CASE WatchRuns(f)
  <2>1. RestTypeOK' /\ Quietly
    BY <1>2, FlowFields, BoundsAssumption
    DEF WatchRuns, Then, LockInv, TypeOK, NimTypeOK, FlowsHaveRows, RestTypeOK, Quietly, Active,
        HoldsLock, Lifecycle, rows, links, marks, bounds
  <2>2. \A g \in flows' : g \in flows \/ Joins(g)
    BY <1>2, FlowFields, Goes
    DEF WatchRuns, Then, LockInv, TypeOK, NimTypeOK, ModesAgree,
        RowsAreKnown, FlowsHaveRows, KindsAgree, Joins, Queued, Lifecycle, Replaces, HoldsLock,
        Steps, Modes
  <2> QED
    BY <2>1, <2>2, QuietKeeps
<1>3. CASE WatchEnds(f)
  <2>1. RestTypeOK' /\ Quietly
    BY <1>3, FlowFields, BoundsAssumption
    DEF WatchEnds, Verdict, Then, LockInv, TypeOK, NimTypeOK, FlowsHaveRows, RestTypeOK, Quietly,
        Active, HoldsLock, Lifecycle, rows, links, marks, bounds
  <2>2. \A g \in flows' : g \in flows \/ Joins(g)
    BY <1>3, FlowFields, GoesTearing, Restores
    DEF WatchEnds, Leave, Active, Then, LockInv,
        TypeOK, NimTypeOK, ModesAgree, RowsAreKnown, FlowsHaveRows, KindsAgree, Joins, Queued,
        Lifecycle, Replaces, HoldsLock, Steps, Modes
  <2> QED
    BY <2>1, <2>2, QuietKeeps
<1>4. CASE StageFails(f)
  <2>1. RestTypeOK' /\ Quietly
    BY <1>4, FlowFields, BoundsAssumption
    DEF StageFails, Verdict, Then, LockInv, TypeOK, NimTypeOK, FlowsHaveRows, RestTypeOK, Quietly,
        Active, HoldsLock, Lifecycle, rows, links, marks, bounds
  <2>2. \A g \in flows' : g \in flows \/ Joins(g)
    BY <1>4, FlowFields, GoesTearing, Restores
    DEF StageFails, Leave, Active, Then, LockInv,
        TypeOK, NimTypeOK, ModesAgree, RowsAreKnown, FlowsHaveRows, KindsAgree, Joins, Queued,
        Lifecycle, Replaces, HoldsLock, Steps, Modes
  <2> QED
    BY <2>1, <2>2, QuietKeeps
<1>5. CASE StagesPass(f)
  <2>1. RestTypeOK' /\ Quietly
    BY <1>5, FlowFields, BoundsAssumption
    DEF StagesPass, Then, LockInv, TypeOK, NimTypeOK, FlowsHaveRows, RestTypeOK, Quietly, Active,
        HoldsLock, Lifecycle, rows, links, marks, bounds
  <2>2. \A g \in flows' : g \in flows \/ Joins(g)
    <3>1. /\ f \in Flow /\ f.step = "stages" /\ f.mode = "student"
          /\ f.d \in Ids \cup {0} /\ f.d # 0
      BY <1>5, FlowFields
      DEF StagesPass, LockInv, TypeOK, NimTypeOK, ModesAgree, FlowsHaveRows, StudentSteps
    <3>2. status[f.d] # "none"
      BY <1>5 DEF StagesPass, Active
    <3>3. what[f.d].gpu = f.kind.gpu /\ what[f.d].role = f.kind.role
      BY <3>1, <3>2 DEF LockInv, KindsAgree
    <3>4. "close" \in Steps /\ f.d \in Ids
      BY <3>1 DEF Steps
    <3> DEFINE h == TearsDown(f, "close")
    <3>5. /\ h \in Flow /\ h.step = "close" /\ h.mode = "student" /\ h.d = f.d
          /\ h.kind = f.kind
      BY <3>1, <3>4, GoesTearing
    <3>6. flows' \subseteq flows \cup {h}
      BY <1>5 DEF StagesPass, Then
    <3> HIDE DEF h
    <3>7. Joins(h)
      BY <3>1, <3>2, <3>3, <3>5 DEF Joins, DeploySteps
    <3> QED
      BY <3>6, <3>7
  <2> QED
    BY <2>1, <2>2, QuietKeeps
<1>6. CASE Close(f)
  <2>1. RestTypeOK' /\ Quietly
    BY <1>6, FlowFields, BoundsAssumption, TornDown
    DEF Close, Stopped, Detached, Verdict, Then, LockInv, TypeOK, NimTypeOK, FlowsHaveRows,
        RestTypeOK, Quietly, Active, HoldsLock, Lifecycle, rows, links, marks, bounds
  <2>2. \A g \in flows' : g \in flows \/ Joins(g)
    BY <1>6, FlowFields, Restores
    DEF Close, Then, LockInv, TypeOK, NimTypeOK, ModesAgree,
        RowsAreKnown, FlowsHaveRows, KindsAgree, Joins, Queued, Lifecycle, Replaces, HoldsLock,
        Steps, Modes
  <2> QED
    BY <2>1, <2>2, QuietKeeps
<1>7. CASE Quit(f)
  <2>1. RestTypeOK' /\ Quietly
    BY <1>7, FlowFields, BoundsAssumption, TornDown
    DEF Quit, Stopped, Detached, Then, LockInv, TypeOK, NimTypeOK, FlowsHaveRows, RestTypeOK,
        Quietly, Active, HoldsLock, Lifecycle, rows, links, marks, bounds
  <2>2. \A g \in flows' : g \in flows \/ Joins(g)
    BY <1>7, FlowFields, Restores
    DEF Quit, Then, LockInv, TypeOK, NimTypeOK, ModesAgree,
        RowsAreKnown, FlowsHaveRows, KindsAgree, Joins, Queued, Lifecycle, Replaces, HoldsLock,
        Steps, Modes
  <2> QED
    BY <2>1, <2>2, QuietKeeps
<1>8. CASE Interrupted(f)
  <2>1. RestTypeOK' /\ Quietly
    BY <1>8, FlowFields, BoundsAssumption
    DEF Interrupted, Purge, PurgeUnconfirmed, Removed, Hit, Named, Verdict, Then, LockInv, TypeOK,
        NimTypeOK, FlowsHaveRows, RestTypeOK, Quietly, Active, HoldsLock, Lifecycle, rows, links,
        marks, bounds
  <2>2. \A g \in flows' : g \in flows \/ Joins(g)
    BY <1>8, FlowFields, Restores
    DEF Interrupted, Purge, PurgeUnconfirmed, Then, LockInv,
        TypeOK, NimTypeOK, ModesAgree, RowsAreKnown, FlowsHaveRows, KindsAgree, Joins, Queued,
        Lifecycle, Replaces, HoldsLock, Steps, Modes
  <2> QED
    BY <2>1, <2>2, QuietKeeps
<1> QED
  BY <1>1, <1>2, <1>3, <1>4, <1>5, <1>6, <1>7, <1>8

-----------------------------------------------------------------------------
(* Steps with the lock.                                                    *)

\* An id that nobody has used, and none above it.
LEMMA FreshIds ==
  ASSUME LockInv, NEW n \in Ids, Fresh(n)
  PROVE  /\ \A e \in Ids : e >= n => status[e] = "none" /\ box[e] = "none" /\ what[e] = Unused
         /\ \A e \in Ids : by[e] < n
         /\ \A g \in flows : g.d < n
<1>1. /\ \A e \in Ids : what[e] # Unused => e < n
      /\ \A e \in Ids : by[e] < n
      /\ \A g \in flows : g.d < n
  BY DEF Fresh, InUse
<1>2. Unused \notin Kind
  BY DEF Unused, Kind
<1> QED
  BY <1>1, <1>2 DEF LockInv, RowsAreKnown, Ids

\* The flow g has the lock of f, under a fresh id n: the GPU is free, or it
\* begins to evict who has it.
Acquired(f, n, g) ==
  /\ f.step = "lock" /\ f.d = 0 /\ LockFree
  /\ f.mode \in {"place", "replace", "student", "return"}
  /\ g \in Flow /\ g.d = n /\ g.mode = f.mode /\ g.kind = f.kind
  /\ flows' = (flows \ {f}) \cup {g}
  /\ UNCHANGED <<rows, links, box, todo, marks, bounds>>
  /\ \A e \in Ids : e >= n => status[e] = "none" /\ box[e] = "none" /\ what[e] = Unused
  /\ \A e \in Ids : by[e] < n
  /\ \A h \in flows : h.d < n
  /\ \/ /\ g.step = "reserve" /\ Residents(f.kind.gpu) = {}
        /\ g.v = (IF Replaces(f) THEN {} ELSE f.v)
     \/ /\ g.step \in EvictSteps /\ Replaces(f) /\ g.v = Residents(f.kind.gpu) /\ g.v # {}
        /\ g.step = "stamp" => ~ Active(Foremost(g.v))

LEMMA Acquires ==
  ASSUME LockInv, NEW f \in flows, Acquire(f)
  PROVE  \E n \in Ids, g \in Flow : Acquired(f, n, g)
<1>1. /\ f \in Flow /\ f.step = "lock" /\ f.d = 0 /\ LockFree /\ Admissible(f)
      /\ f.mode \in {"place", "replace", "student", "return"}
      /\ f.kind \in Kind /\ f.v \subseteq Ids /\ f.named \subseteq Ids
  BY FlowFields DEF Acquire, LockInv, TypeOK, NimTypeOK, ModesAgree, FlowsHaveRows
<1> DEFINE R == Residents(f.kind.gpu)
           o(n) == [f EXCEPT !.d = n]
           h(n) == IF Replaces(f) THEN EvictNext(o(n), R) ELSE To(o(n), "reserve")
<1>2. PICK n \in Ids : Fresh(n) /\ flows' = (flows \ {f}) \cup {h(n)}
  BY DEF Acquire, Then
<1>3. /\ \A e \in Ids : e >= n => status[e] = "none" /\ box[e] = "none" /\ what[e] = Unused
      /\ \A e \in Ids : by[e] < n
      /\ \A g \in flows : g.d < n
  BY <1>2, FreshIds
<1>4. UNCHANGED <<rows, links, box, todo, marks, bounds>> /\ R \in SUBSET Ids
  BY DEF Acquire, Residents
<1>5. o(n) \in Flow /\ o(n).d = n /\ o(n).mode = f.mode /\ o(n).kind = f.kind /\ o(n).v = f.v
  BY <1>1 DEF Flow
<1> HIDE DEF o
<1>6. CASE Replaces(f)
  <2>1. h(n) = EvictNext(o(n), R)
    BY <1>6
  <2>2. /\ h(n) \in Flow /\ h(n).d = n /\ h(n).mode = f.mode /\ h(n).kind = f.kind /\ h(n).v = R
        /\ R = {} => h(n).step = "reserve"
        /\ R # {} => \/ h(n).step = "evict"
                     \/ h(n).step = "stamp" /\ ~ Active(Foremost(R))
    BY <1>4, <1>5, <2>1, EvictsNext
  <2> HIDE DEF h
  <2>3. Acquired(f, n, h(n))
    BY <1>1, <1>2, <1>3, <1>4, <1>6, <2>2 DEF Acquired
  <2> QED
    BY <2>2, <2>3
<1>7. CASE ~ Replaces(f)
  <2>1. h(n) = To(o(n), "reserve") /\ R = {}
    BY <1>1, <1>7 DEF Admissible
  <2>2. /\ h(n) \in Flow /\ h(n).d = n /\ h(n).mode = f.mode /\ h(n).kind = f.kind /\ h(n).v = f.v
        /\ h(n).step = "reserve"
    BY <1>5, <2>1, Goes DEF Steps
  <2> HIDE DEF h
  <2>3. Acquired(f, n, h(n))
    BY <1>1, <1>2, <1>3, <1>4, <1>7, <2>1, <2>2 DEF Acquired
  <2> QED
    BY <2>2, <2>3
<1> QED
  BY <1>6, <1>7

LEMMA AcquireKeeps ==
  ASSUME LockInv, NEW f \in flows, Acquire(f), UNCHANGED serving
  PROVE  LockInv'
<1>1. PICK n \in Ids, g \in Flow : Acquired(f, n, g)
  BY Acquires
<1> USE <1>1
<1>2. f \in Flow /\ f.kind \in Kind /\ f.kind.gpu \in Gpus /\ n # 0
      /\ \A h \in flows : h \in Flow /\ h.d \in Ids \cup {0} /\ h.d # n /\ ~ HoldsLock(h)
  <2>1. \A h \in flows : h \in Flow /\ h.d \in Ids \cup {0} /\ h.kind \in Kind
    BY FlowFields DEF LockInv, TypeOK, NimTypeOK
  <2>2. \A h \in flows : h.d < n /\ ~ HoldsLock(h)
    BY DEF Acquired, LockFree
  <2>3. n # 0 /\ ~ (n < n)
    BY BoundsAssumption DEF Ids
  <2>4. \A h \in flows : h.d # n
    BY <2>2, <2>3
  <2> QED
    BY <2>1, <2>2, <2>3, <2>4, KindFields
<1>3. /\ status[n] = "none" /\ HoldsLock(g) /\ flows' = (flows \ {f}) \cup {g} /\ f.step = "lock"
      /\ g.d = n /\ g.mode = f.mode /\ g.kind = f.kind
      /\ UNCHANGED <<what, status, ided, by, links, box, todo, marks, bounds>>
  BY BoundsAssumption DEF Acquired, HoldsLock, Ids, rows
<1>4. TypeOK'
  BY <1>3 DEF LockInv, TypeOK, NimTypeOK, links, marks, bounds
<1>5. ModesAgree'
  BY <1>3 DEF LockInv, ModesAgree, Replaces, Queued, Lifecycle, Acquired
<1>6. RowsAreKnown'
  BY <1>3 DEF LockInv, RowsAreKnown
<1>7. FlowsHaveRows'
  <2>1. \A h \in flows' : h.d = 0 <=> h.step \in {"lock", "prepare"}
    BY <1>2, <1>3 DEF LockInv, FlowsHaveRows, Acquired
  <2>2. \A h \in flows' : h.d # 0 => (HoldsLock(h) <=> status'[h.d] = "none")
    BY <1>2, <1>3 DEF LockInv, FlowsHaveRows
  <2> QED
    BY <1>3, <2>1, <2>2 DEF LockInv, FlowsHaveRows, HoldsLock, Lifecycle
<1>8. KindsAgree'
  BY <1>2, <1>3 DEF LockInv, KindsAgree
<1>9. OneHolder'
  BY <1>2, <1>3 DEF OneHolder, HoldsLock, Lifecycle
<1>10. HolderHasTheGpu'
  <2> SUFFICES /\ \A d \in Ids : d > n => status[d] = "none"
               /\ Residents(f.kind.gpu) \subseteq spared \cup Targets(g)
               /\ g.step \in EvictSteps =>
                    g.v # {} /\ \A e \in g.v : status[e] # "none" /\ what[e].gpu = f.kind.gpu
    BY <1>2, <1>3
    DEF HolderHasTheGpu, HoldsLock, Lifecycle, Targets, Residents, Active, marks
  <2>1. \A d \in Ids : d > n => status[d] = "none"
    BY DEF Acquired, Ids
  <2>2. Residents(f.kind.gpu) \subseteq spared \cup Targets(g)
    BY DEF Acquired, Targets, Residents
  <2> QED
    BY <2>1, <2>2 DEF Acquired, Residents, Active
<1>11. YoungestHasTheGpu'
  BY <1>3 DEF LockInv, YoungestHasTheGpu, Active, marks
<1> QED
  BY <1>4, <1>5, <1>6, <1>7, <1>8, <1>9, <1>10, <1>11 DEF LockInv

\* Who holds the lock for a deployment has no row yet, and is alone with its id.
LEMMA HoldersAreAlone ==
  ASSUME LockInv, NEW f \in flows, HoldsLock(f)
  PROVE  /\ f.d \in Ids /\ status[f.d] = "none"
         /\ \A g \in flows : g.d = f.d => g = f
         /\ \A e \in Ids : e > f.d => status[e] = "none"
<1>1. f.d \in Ids /\ status[f.d] = "none"
  BY FlowFields DEF LockInv, TypeOK, NimTypeOK, FlowsHaveRows, HoldsLock, Lifecycle
<1>2. \A g \in flows : g.d = f.d => g = f
  BY <1>1, BoundsAssumption DEF LockInv, FlowsHaveRows, OneHolder, Ids
<1>3. \A e \in Ids : e > f.d => status[e] = "none"
  BY DEF LockInv, HolderHasTheGpu
<1> QED
  BY <1>1, <1>2, <1>3

\* A row begins under the id of the flow that has the lock, and is all there
\* is on the GPU.
Grants(f) ==
  /\ f.d \in Ids /\ status[f.d] = "none" /\ status'[f.d] # "none" /\ what'[f.d] = f.kind
  /\ \A d \in Ids \ {f.d} :
       /\ what'[d] = what[d] /\ (status'[d] = "none" <=> status[d] = "none")
       /\ Active(d)' => Active(d)
  /\ \A d \in Ids \ {f.d} : Active(d)' => d \in spared \/ what[d].gpu # f.kind.gpu
  /\ \A d \in Ids : by'[d] # by[d] => status[d] # "none"
  /\ \A d \in Ids : box'[d] # "none" => box[d] # "none" \/ d = f.d
  /\ UNCHANGED <<todo, spared>>

\* The flows that one with a row goes on with: it needs the lock no more.
GoesOn(f, G) ==
  /\ flows' = (flows \ {f}) \cup G
  /\ \A g \in G :
       /\ g \in Flow /\ ~ HoldsLock(g) /\ g.step # "undo"
       /\ \/ g.step = "lock" /\ g.d = 0 /\ g.mode \in {"place", "replace", "student", "return"}
          \/ /\ g.step \notin {"lock", "prepare"} /\ g.d = f.d /\ g.kind = f.kind
             /\ g.step \in DeploySteps => Queued(g)
             /\ g.step = "watch" => Lifecycle(g)
             /\ g.step \notin StudentSteps \cup EvictSteps \cup {"reserve"}

LEMMA GrantKeeps ==
  ASSUME LockInv, RestTypeOK', NEW f \in flows, NEW G, HoldsLock(f), Grants(f), GoesOn(f, G)
  PROVE  LockInv'
<1>1. /\ f \in Flow /\ f.kind \in Kind /\ f.kind.gpu \in Gpus /\ f.d \in Ids /\ f.d # 0
      /\ \A g \in flows \ {f} : g.d # f.d /\ ~ HoldsLock(g)
      /\ \A e \in Ids : e > f.d => status[e] = "none"
  <2>1. f \in Flow /\ f.kind \in Kind /\ f.kind.gpu \in Gpus
    BY FlowFields, KindFields DEF LockInv, TypeOK, NimTypeOK
  <2>2. /\ f.d \in Ids /\ \A g \in flows : g.d = f.d => g = f
        /\ \A e \in Ids : e > f.d => status[e] = "none"
    BY HoldersAreAlone
  <2>3. \A g \in flows \ {f} : ~ HoldsLock(g)
    BY DEF LockInv, OneHolder
  <2> QED
    BY <2>1, <2>2, <2>3, BoundsAssumption DEF Ids
<1>2. \A h \in flows' : ~ HoldsLock(h)
  BY <1>1 DEF GoesOn
<1>3. TypeOK'
  BY DEF LockInv, TypeOK, NimTypeOK, RestTypeOK, GoesOn
<1>4. ModesAgree'
  BY DEF LockInv, ModesAgree, GoesOn, Replaces, Queued, Lifecycle
<1>5. RowsAreKnown'
  BY <1>1 DEF LockInv, RowsAreKnown, Grants
<1>6. FlowsHaveRows'
  <2>1. ASSUME NEW h \in flows' PROVE (h.d = 0 <=> h.step \in {"lock", "prepare"}) /\ h \in Flow
    BY <1>1 DEF LockInv, TypeOK, NimTypeOK, FlowsHaveRows, GoesOn
  <2>2. ASSUME NEW h \in flows', h.d # 0 PROVE status'[h.d] # "none"
    <3>1. h.d \in Ids
      BY <2>1, <2>2, FlowFields
    <3>2. h.d # f.d => h \in flows /\ ~ HoldsLock(h)
      BY <1>1, <2>2 DEF GoesOn
    <3> QED
      BY <2>2, <3>1, <3>2 DEF LockInv, FlowsHaveRows, Grants
  <2> QED
    BY <1>2, <2>1, <2>2 DEF LockInv, TypeOK, NimTypeOK, FlowsHaveRows, Grants, HoldsLock, Lifecycle
<1>7. KindsAgree'
  <2> SUFFICES ASSUME NEW h \in flows', h.d # 0, status'[h.d] # "none"
               PROVE  what'[h.d].gpu = h.kind.gpu /\ what'[h.d].role = h.kind.role
    BY DEF KindsAgree
  <2>1. CASE h.d = f.d
    BY <1>1, <2>1 DEF Grants, GoesOn
  <2>2. CASE h.d # f.d
    BY <1>1, <2>2, FlowFields DEF LockInv, TypeOK, NimTypeOK, KindsAgree, Grants, GoesOn
  <2> QED
    BY <2>1, <2>2
<1>8. OneHolder' /\ HolderHasTheGpu'
  BY <1>2 DEF OneHolder, HolderHasTheGpu, HoldsLock, Lifecycle
<1>9. YoungestHasTheGpu'
  <2> SUFFICES ASSUME NEW d \in Ids, NEW e \in Ids, d < e, d \notin spared', Active(d)',
                      status'[e] # "none"
               PROVE  what'[d].gpu # what'[e].gpu
    BY DEF YoungestHasTheGpu
  <2>1. CASE e = f.d
    BY <2>1 DEF Grants, Ids
  <2>2. CASE e # f.d
    <3>1. d # f.d
      BY <1>1, <2>2 DEF Grants
    <3> QED
      BY <2>2, <3>1 DEF Grants, LockInv, YoungestHasTheGpu
  <2> QED
    BY <2>1, <2>2
<1> QED
  BY <1>3, <1>4, <1>5, <1>6, <1>7, <1>8, <1>9 DEF LockInv

\* A deployment goes on without the lock, or as it held it; rows may end.
LEMMA MovesKeep ==
  ASSUME LockInv, RestTypeOK', Quietly, NEW f \in flows, NEW G, flows' = (flows \ {f}) \cup G,
         f.step \in {"reserve"} \cup EvictSteps \cup DeploySteps,
         \A g \in G : /\ g \in Flow /\ g.d = f.d /\ g.kind = f.kind /\ g.mode = f.mode
                      /\ g.step \in {"reserve"} \cup EvictSteps \cup DeploySteps
                      /\ HoldsLock(g) <=> HoldsLock(f)
                      /\ g.step \in EvictSteps =>
                           f.step \in EvictSteps /\ g.v # {} /\ g.v \subseteq f.v,
         HoldsLock(f) => /\ \A g \in G : Residents(f.kind.gpu)' \subseteq spared' \cup Targets(g)
                         /\ \A g, h \in G : g = h
  PROVE  LockInv'
<1>1. f \in Flow /\ f.d \in Ids /\ f.kind.gpu \in Gpus
  BY FlowFields, KindFields DEF LockInv, TypeOK, NimTypeOK, FlowsHaveRows, HoldsLock, Lifecycle
<1>2. \A d \in Ids : (status'[d] = "none" <=> status[d] = "none") /\ (Active(d)' => Active(d))
  BY DEF Quietly, Active
<1>3. TypeOK'
  BY <1>1 DEF LockInv, TypeOK, NimTypeOK, RestTypeOK
<1>4. ModesAgree'
  BY DEF LockInv, ModesAgree, Queued, Lifecycle, Replaces
<1>5. RowsAreKnown'
  BY <1>2 DEF LockInv, RowsAreKnown, Quietly
<1>6. FlowsHaveRows'
  <2>1. ASSUME NEW h \in flows' PROVE (h.d = 0 <=> h.step \in {"lock", "prepare"}) /\ h \in Flow
    BY <1>1 DEF LockInv, TypeOK, NimTypeOK, FlowsHaveRows
  <2>2. ASSUME NEW h \in flows', h.d # 0 PROVE HoldsLock(h) <=> status'[h.d] = "none"
    <3>1. h.d \in Ids
      BY <2>1, <2>2, FlowFields
    <3> QED
      BY <1>1, <1>2, <2>2, <3>1 DEF LockInv, FlowsHaveRows
  <2> QED
    BY <1>2, <2>1, <2>2
    DEF LockInv, TypeOK, NimTypeOK, FlowsHaveRows, Quietly, HoldsLock, Lifecycle
<1>7. KindsAgree'
  <2> SUFFICES ASSUME NEW h \in flows', h.d # 0, status'[h.d] # "none"
               PROVE  what'[h.d].gpu = h.kind.gpu /\ what'[h.d].role = h.kind.role
    BY DEF KindsAgree
  <2>1. h.d \in Ids
    BY <1>1, FlowFields DEF LockInv, TypeOK, NimTypeOK
  <2> QED
    BY <1>2, <2>1 DEF LockInv, KindsAgree, Quietly
<1>8. OneHolder'
  BY <1>1 DEF LockInv, OneHolder, HoldsLock, Lifecycle
<1>9. \A g \in Gpus : Residents(g)' \subseteq Residents(g)
  BY <1>2 DEF Residents, Quietly
<1>10. HolderHasTheGpu'
  <2> SUFFICES ASSUME NEW h \in flows', HoldsLock(h)'
               PROVE  /\ \A d \in Ids : d > h.d => status'[d] = "none"
                      /\ Residents(h.kind.gpu)' \subseteq spared' \cup Targets(h)
                      /\ h.step \in EvictSteps =>
                           /\ h.v # {}
                           /\ \A e \in h.v : status'[e] # "none" /\ what'[e].gpu = h.kind.gpu
    BY DEF HolderHasTheGpu, Targets
  <2>1. HoldsLock(h)
    BY DEF HoldsLock, Lifecycle
  <2>2. CASE h \in G
    <3>1. HoldsLock(f) /\ h.d = f.d /\ h.kind = f.kind /\ f.v \subseteq Ids
      BY <1>1, <2>1, <2>2, FlowFields
    <3>2. Residents(h.kind.gpu)' \subseteq spared' \cup Targets(h)
      BY <2>2, <3>1
    <3>3. \A e \in Ids : e > h.d => status'[e] = "none"
      BY <1>2, <3>1 DEF LockInv, HolderHasTheGpu
    <3>4. h.step \in EvictSteps => h.v # {} /\ h.v \subseteq f.v /\ f.step \in EvictSteps
      BY <2>2
    <3>5. ASSUME f.step \in EvictSteps, NEW e \in f.v
          PROVE  status'[e] # "none" /\ what'[e].gpu = f.kind.gpu
      BY <1>2, <3>1, <3>5 DEF LockInv, HolderHasTheGpu, Quietly
    <3> QED
      BY <3>1, <3>2, <3>3, <3>4, <3>5
  <2>3. CASE h \in flows
    <3>1. h.kind.gpu \in Gpus /\ h.v \subseteq Ids
      BY <2>3, FlowFields, KindFields DEF LockInv, TypeOK, NimTypeOK
    <3>2. Residents(h.kind.gpu)' \subseteq spared' \cup Targets(h)
      BY <1>9, <2>1, <2>3, <3>1 DEF LockInv, HolderHasTheGpu, Quietly
    <3> QED
      BY <1>2, <2>1, <2>3, <3>1, <3>2 DEF LockInv, HolderHasTheGpu, Quietly
  <2> QED
    BY <2>2, <2>3
<1>11. YoungestHasTheGpu'
  BY <1>2 DEF LockInv, YoungestHasTheGpu, Quietly
<1> QED
  BY <1>3, <1>4, <1>5, <1>6, <1>7, <1>8, <1>10, <1>11 DEF LockInv

\* What every flow with an id knows of it.
LEMMA FlowWithId ==
  ASSUME LockInv, NEW f \in flows, f.step \notin {"lock", "prepare"}
  PROVE  /\ f \in Flow /\ f.kind \in Kind /\ f.kind.gpu \in Gpus
         /\ f.d \in Ids /\ f.d # 0 /\ f.v \subseteq Ids /\ f.named \subseteq Ids
         /\ HoldsLock(f) <=> status[f.d] = "none"
         /\ status[f.d] # "none" =>
              what[f.d] \in Kind /\ what[f.d].gpu = f.kind.gpu /\ what[f.d].role = f.kind.role
  BY FlowFields, KindFields
  DEF LockInv, TypeOK, NimTypeOK, FlowsHaveRows, RowsAreKnown, KindsAgree

\* Who evicts has a target, and the lock; its next step needs no more than that
\* the target has ended or stays for good.
LEMMA Evicting ==
  ASSUME LockInv, NEW f \in flows, f.step \in EvictSteps
  PROVE  /\ HoldsLock(f) /\ Foremost(f.v) \in f.v /\ Foremost(f.v) \in Ids
         /\ status[Foremost(f.v)] # "none" /\ what[Foremost(f.v)] \in Kind
         /\ what[Foremost(f.v)].gpu = f.kind.gpu
         /\ f.step = "stamp" => (Active(Foremost(f.v)) => Foremost(f.v) \in spared)
<1>1. HoldsLock(f) /\ f.v # {} /\ f.v \subseteq Ids
  BY FlowWithId DEF HoldsLock, LockInv, HolderHasTheGpu
<1>2. Foremost(f.v) \in f.v
  BY <1>1 DEF Foremost
<1>3. status[Foremost(f.v)] # "none" /\ what[Foremost(f.v)].gpu = f.kind.gpu
  BY <1>1, <1>2 DEF LockInv, HolderHasTheGpu
<1>4. ASSUME f.step = "stamp", Active(Foremost(f.v)) PROVE Foremost(f.v) \in spared
  <2>1. Foremost(f.v) \in Residents(f.kind.gpu)
    BY <1>1, <1>2, <1>3, <1>4 DEF Residents
  <2>2. Residents(f.kind.gpu) \subseteq spared \cup Targets(f)
    BY <1>1 DEF LockInv, HolderHasTheGpu
  <2> QED
    BY <1>4, <2>1, <2>2 DEF Targets
<1> QED
  BY <1>1, <1>2, <1>3, <1>4 DEF LockInv, RowsAreKnown

LEMMA EvictsOn ==
  ASSUME LockInv, RestTypeOK', Quietly, NEW f \in flows, f.step \in EvictSteps,
         flows' = (flows \ {f}) \cup {EvictNext(f, f.v \ {Foremost(f.v)})},
         Active(Foremost(f.v))' => Foremost(f.v) \in spared'
  PROVE  LockInv'
<1> DEFINE t == Foremost(f.v)
           w == f.v \ {t}
           n == EvictNext(f, w)
           G == {n}
<1>1. f \in Flow /\ f.v \subseteq Ids /\ f.kind.gpu \in Gpus /\ w \in SUBSET Ids
  BY FlowWithId
<1>2. HoldsLock(f) /\ Residents(f.kind.gpu) \subseteq spared \cup f.v
  BY Evicting DEF LockInv, HolderHasTheGpu, Targets
<1> HIDE DEF t, w
<1>3. /\ n \in Flow /\ n.mode = f.mode /\ n.d = f.d /\ n.kind = f.kind /\ n.v = w
      /\ w = {} => n.step = "reserve"
      /\ w # {} => /\ Foremost(w) \in w
                   /\ n.step = "evict" \/ (n.step = "stamp" /\ ~ Active(Foremost(w)))
  BY <1>1, EvictsNext
<1>4. flows' = (flows \ {f}) \cup G /\ (Active(t)' => t \in spared')
  BY DEF t, w
<1> HIDE DEF n
<1>5. \A g \in G : /\ g \in Flow /\ g.d = f.d /\ g.kind = f.kind /\ g.mode = f.mode
                   /\ g.step \in {"reserve"} \cup EvictSteps \cup DeploySteps
                   /\ HoldsLock(g) <=> HoldsLock(f)
                   /\ g.step \in EvictSteps =>
                        f.step \in EvictSteps /\ g.v # {} /\ g.v \subseteq f.v
  BY <1>2, <1>3 DEF HoldsLock, w
<1>6. Residents(f.kind.gpu)' \subseteq spared' \cup Targets(n)
  <2> SUFFICES ASSUME NEW e \in Ids, Active(e)', what'[e].gpu = f.kind.gpu, e \notin spared'
               PROVE  e \in Targets(n)
    BY DEF Residents
  <2>1. e # t /\ Active(e) /\ what[e].gpu = f.kind.gpu /\ e \notin spared
    BY <1>4 DEF Quietly, Active
  <2>2. e \in w
    BY <1>2, <2>1 DEF Residents, w
  <2> QED
    BY <1>3, <2>1, <2>2 DEF Targets
<1>7. \A g \in G : Residents(f.kind.gpu)' \subseteq spared' \cup Targets(g)
  BY <1>6
<1>8. \A g, h \in G : g = h
  OBVIOUS
<1> HIDE DEF G
<1> QED
  BY <1>4, <1>5, <1>7, <1>8, MovesKeep

\* A resident is stopped, or its stop raises, and it is stamped.
LEMMA EvictKeeps ==
  ASSUME LockInv, NEW f \in flows, UNCHANGED serving,
         Evict(f) \/ EvictRaises(f) \/ Stamp(f)
  PROVE  LockInv'
<1> DEFINE t == Foremost(f.v)
<1>1. f.step \in EvictSteps
  BY DEF Evict, EvictRaises, Stamp
<1>2. /\ f \in Flow /\ f.kind.gpu \in Gpus /\ f.d \in Ids /\ f.v \subseteq Ids
      /\ f.named \subseteq Ids
  BY <1>1, FlowWithId
<1>3. /\ HoldsLock(f) /\ t \in f.v /\ t \in Ids /\ status[t] # "none"
      /\ f.step = "stamp" => (Active(t) => t \in spared)
  BY <1>1, Evicting
<1> HIDE DEF t
<1>4. CASE Evict(f)
  <2> DEFINE n == [To(f, "stamp") EXCEPT !.named = {}]
             G == {n}
  <2>1. TearDown(t, Hit(t, f.named)) /\ status' = [status EXCEPT ![t] = "stopped"] /\ Detached({t})
    BY <1>4 DEF Evict, Stopped, t
  <2>2. RestTypeOK' /\ Quietly
    BY <1>2, <1>3, <1>4, <2>1, TornDown
    DEF Evict, Detached, LockInv, TypeOK, NimTypeOK, RestTypeOK, Quietly, Active
  <2>3. /\ n \in Flow /\ n.step = "stamp" /\ n.d = f.d /\ n.kind = f.kind /\ n.mode = f.mode
        /\ n.v = f.v
    BY <1>2 DEF To, Flow, Steps
  <2>4. flows' = (flows \ {f}) \cup G /\ f.step = "evict" /\ UNCHANGED <<what, spared>>
    BY <1>4 DEF Evict, Then
  <2> HIDE DEF n
  <2>5. Residents(f.kind.gpu)' \subseteq spared' \cup Targets(n)
    <3>1. Residents(f.kind.gpu) \subseteq spared \cup f.v
      BY <1>3, <2>4 DEF LockInv, HolderHasTheGpu, Targets
    <3>2. \A d \in Ids : Active(d)' => Active(d) /\ d # t
      BY <1>3, <2>1 DEF Active, LockInv, TypeOK, NimTypeOK
    <3> QED
      BY <2>3, <2>4, <3>1, <3>2 DEF Residents, Targets, t
  <2>6. \A g \in G : /\ g \in Flow /\ g.d = f.d /\ g.kind = f.kind /\ g.mode = f.mode
                     /\ g.step \in {"reserve"} \cup EvictSteps \cup DeploySteps
                     /\ HoldsLock(g) <=> HoldsLock(f)
                     /\ g.step \in EvictSteps =>
                          f.step \in EvictSteps /\ g.v # {} /\ g.v \subseteq f.v
    BY <1>1, <1>3, <2>3 DEF HoldsLock
  <2>7. /\ \A g \in G : Residents(f.kind.gpu)' \subseteq spared' \cup Targets(g)
        /\ \A g, h \in G : g = h
    BY <2>5
  <2> HIDE DEF G
  <2> QED
    BY <1>1, <2>2, <2>4, <2>6, <2>7, MovesKeep
<1>5. CASE EvictRaises(f)
  <2>1. /\ Fault /\ UNCHANGED <<what, ided, by, todo, requests, crashes>>
        /\ Spared(t, f.named) \/ HalfStopped(t, f.named)
        /\ flows' = (flows \ {f}) \cup {EvictNext(f, f.v \ {t})}
    BY <1>5 DEF EvictRaises, Then, t
  <2>2. faults' \in 0 .. MaxFaults
    BY <2>1, BoundsAssumption DEF Fault, LockInv, TypeOK, NimTypeOK
  <2>3. CASE Spared(t, f.named)
    <3>1. RestTypeOK' /\ Quietly
      BY <1>3, <2>1, <2>2, <2>3
      DEF Spared, Removed, links, LockInv, TypeOK, NimTypeOK, RestTypeOK, Quietly, Active
    <3> QED
      BY <1>1, <2>1, <2>3, <3>1, EvictsOn DEF Spared, t
  <2>4. CASE HalfStopped(t, f.named)
    <3>1. /\ status' = [status EXCEPT ![t] = "stopped"] /\ UNCHANGED spared
          /\ torn' \subseteq torn \cup {t} /\ left' \subseteq left \cup {t}
          /\ UNCHANGED box \/ Removed(Hit(t, f.named))
          /\ Detached({t}) \/ UNCHANGED links
      BY <2>4 DEF HalfStopped, Refused, Kept
    <3>2. RestTypeOK' /\ Quietly
      BY <1>3, <2>1, <2>2, <3>1
      DEF Removed, Detached, links, LockInv, TypeOK, NimTypeOK, RestTypeOK, Quietly, Active
    <3>3. ~ Active(t)'
      BY <1>3, <3>1 DEF Active, LockInv, TypeOK, NimTypeOK
    <3> QED
      BY <1>1, <2>1, <3>2, <3>3, EvictsOn DEF t
  <2> QED
    BY <2>1, <2>3, <2>4
<1>6. CASE Stamp(f)
  <2>1. /\ f.step = "stamp" /\ by' = [by EXCEPT ![t] = f.d]
        /\ flows' = (flows \ {f}) \cup {EvictNext(f, f.v \ {t})}
        /\ UNCHANGED <<what, status, ided, links, box, todo, marks, bounds>>
    BY <1>6 DEF Stamp, Then, t
  <2>2. RestTypeOK' /\ Quietly
    BY <1>2, <1>3, <2>1
    DEF links, marks, bounds, LockInv, TypeOK, NimTypeOK, RestTypeOK, Quietly, Active
  <2>3. Active(t)' => t \in spared'
    BY <1>3, <2>1 DEF Active, marks
  <2> QED
    BY <1>1, <2>1, <2>2, <2>3, EvictsOn DEF t
<1> QED
  BY <1>4, <1>5, <1>6

LEMMA DeployKeeps ==
  ASSUME LockInv, NEW f \in flows, UNCHANGED serving,
         Reserve(f) \/ PreflightPasses(f) \/ Remove(f) \/ Run(f)
  PROVE  LockInv'
<1>1. f.step \in {"reserve"} \cup DeploySteps
  BY DEF Reserve, PreflightPasses, Remove, Run
<1>2. /\ f \in Flow /\ f.kind \in Kind /\ f.kind.gpu \in Gpus
      /\ f.d \in Ids /\ f.d # 0 /\ f.v \subseteq Ids
      /\ HoldsLock(f) <=> status[f.d] = "none"
      /\ status[f.d] # "none" =>
           what[f.d] \in Kind /\ what[f.d].gpu = f.kind.gpu /\ what[f.d].role = f.kind.role
  BY <1>1, FlowWithId
<1>3. f.mode \in {"place", "replace", "student", "return"} /\ (Queued(f) <=> ~ Lifecycle(f))
  BY <1>1 DEF LockInv, ModesAgree, Queued, Lifecycle
<1>4. HoldsLock(f) => Residents(f.kind.gpu) \subseteq spared
  BY <1>1 DEF LockInv, HolderHasTheGpu, Targets
<1>5. CASE Reserve(f)
  <2> DEFINE n == To(f, "preflight")
             G == {n}
  <2>1. /\ n \in Flow /\ n.step = "preflight" /\ n.d = f.d /\ n.kind = f.kind /\ n.mode = f.mode
    BY <1>2, Goes DEF Steps
  <2>2. /\ flows' = (flows \ {f}) \cup G /\ f.step = "reserve" /\ HoldsLock(f)
        /\ what' = IF Queued(f) THEN [what EXCEPT ![f.d] = f.kind] ELSE what
        /\ status' = IF Queued(f) THEN [status EXCEPT ![f.d] = "starting"] ELSE status
        /\ UNCHANGED <<ided, by, links, box, todo, marks, bounds>>
    BY <1>5 DEF Reserve, Then, HoldsLock
  <2> HIDE DEF n
  <2>3. RestTypeOK'
    BY <1>2, <2>2 DEF LockInv, TypeOK, NimTypeOK, RestTypeOK, links, marks, bounds
  <2>4. CASE Queued(f)
    <3>1. Grants(f)
      BY <1>2, <1>4, <2>2, <2>4
      DEF Grants, LockInv, TypeOK, NimTypeOK, Residents, Active, marks
    <3>2. GoesOn(f, G)
      BY <2>1, <2>2, <2>4 DEF GoesOn, HoldsLock, Lifecycle, Queued
    <3> HIDE DEF G
    <3> QED
      BY <2>2, <2>3, <3>1, <3>2, GrantKeeps
  <2>5. CASE ~ Queued(f)
    <3>1. Quietly /\ UNCHANGED <<what, status, spared>>
      BY <2>2, <2>5 DEF Quietly, Active, marks
    <3>2. Residents(f.kind.gpu)' \subseteq spared'
      BY <1>4, <2>2, <3>1 DEF Residents, Active
    <3>3. \A g \in G : /\ g \in Flow /\ g.d = f.d /\ g.kind = f.kind /\ g.mode = f.mode
                       /\ g.step = "preflight" /\ (HoldsLock(g) <=> HoldsLock(f))
      BY <1>3, <2>1, <2>2, <2>5 DEF HoldsLock, Lifecycle
    <3>4. \A g, h \in G : g = h
      OBVIOUS
    <3> HIDE DEF G
    <3> QED
      BY <1>1, <2>2, <2>3, <3>1, <3>2, <3>3, <3>4, MovesKeep
  <2> QED
    BY <2>4, <2>5
<1>6. CASE PreflightPasses(f)
  <2> DEFINE G == IF StillReserved(f) THEN {To(f, "remove")} ELSE {}
  <2>1. \A g \in G : /\ g \in Flow /\ g.d = f.d /\ g.kind = f.kind /\ g.mode = f.mode
                     /\ g.step = "remove"
    BY <1>2, Goes DEF Steps
  <2>2. /\ RestTypeOK' /\ Quietly /\ flows' = (flows \ {f}) \cup G
        /\ UNCHANGED <<what, status, spared>> /\ f.step = "preflight"
    BY <1>6, BoundsAssumption
    DEF PreflightPasses, Then, LockInv, TypeOK, NimTypeOK, RestTypeOK, Quietly, rows, links, marks,
        bounds
  <2>3. HoldsLock(f) => Residents(f.kind.gpu)' \subseteq spared'
    BY <1>4, <2>2 DEF Residents, Active
  <2>4. \A g \in G : HoldsLock(g) <=> HoldsLock(f)
    BY <2>1, <2>2 DEF HoldsLock, Lifecycle
  <2>5. \A g, h \in G : g = h
    OBVIOUS
  <2> HIDE DEF G
  <2> QED
    BY <1>1, <2>1, <2>2, <2>3, <2>4, <2>5, MovesKeep
<1>7. CASE Remove(f)
  <2> DEFINE n == To(f, "run")
             G == {n}
  <2>1. n \in Flow /\ n.step = "run" /\ n.d = f.d /\ n.kind = f.kind /\ n.mode = f.mode
    BY <1>2, Goes DEF Steps
  <2>2. /\ TearDown(f.d, Named(f.kind)) /\ flows' = (flows \ {f}) \cup G
        /\ UNCHANGED <<what, status, ided, by, links, todo, torn, spared, requests, crashes>>
        /\ f.step = "remove"
    BY <1>7 DEF Remove, Then, rows
  <2>3. RestTypeOK' /\ Quietly
    BY <1>2, <2>2, TornDown
    DEF LockInv, TypeOK, NimTypeOK, RestTypeOK, Quietly, links
  <2>4. HoldsLock(f) => Residents(f.kind.gpu)' \subseteq spared'
    BY <1>4, <2>2 DEF Residents, Active
  <2> HIDE DEF n
  <2>5. \A g \in G : /\ g \in Flow /\ g.d = f.d /\ g.kind = f.kind /\ g.mode = f.mode
                     /\ g.step = "run" /\ (HoldsLock(g) <=> HoldsLock(f))
    BY <2>1, <2>2 DEF HoldsLock, Lifecycle
  <2>6. \A g, h \in G : g = h
    OBVIOUS
  <2> HIDE DEF G
  <2> QED
    BY <1>1, <2>2, <2>3, <2>4, <2>5, <2>6, MovesKeep
<1>8. CASE Run(f)
  <2> DEFINE p == [At("poll", f.d, "task") EXCEPT !.kind = f.kind]
  <2>1. /\ p \in Flow /\ p.step = "poll" /\ p.d = f.d /\ p.kind = f.kind
        /\ To(f, "undo") \in Flow /\ To(f, "undo").step = "undo" /\ To(f, "undo").d = f.d
        /\ To(f, "undo").kind = f.kind /\ To(f, "undo").mode = f.mode
        /\ To(f, "watch") \in Flow /\ To(f, "watch").step = "watch" /\ To(f, "watch").d = f.d
        /\ To(f, "watch").kind = f.kind /\ To(f, "watch").mode = f.mode
    BY <1>2, Goes DEF At, Flow, Steps, Modes
  <2>2. /\ flows' = (flows \ {f}) \cup OnceStarted(f) /\ f.step = "run"
        /\ UNCHANGED <<by, todo, spared>> /\ what' = [what EXCEPT ![f.d] = f.kind]
        /\ status' = IF Lifecycle(f) THEN [status EXCEPT ![f.d] = "starting"] ELSE status
        /\ box' = [box EXCEPT ![f.d] = "up"]
    BY <1>8 DEF Run, Then, marks
  <2>3. RestTypeOK'
    BY <1>2, <1>8 DEF Run, LockInv, TypeOK, NimTypeOK, RestTypeOK, links, marks, bounds
  <2>4. OnceStarted(f) = IF ~ StillReserved(f) THEN {To(f, "undo")}
                         ELSE {p} \cup (IF Lifecycle(f) THEN {To(f, "watch")} ELSE {})
    BY DEF OnceStarted
  <2> HIDE DEF p
  <2>5. CASE Lifecycle(f)
    <3>1. HoldsLock(f) /\ StillReserved(f)
      BY <1>3, <2>2, <2>5 DEF HoldsLock, StillReserved
    <3>2. Residents(f.kind.gpu) \subseteq spared
      BY <1>4, <3>1
    <3>3. Grants(f)
      BY <1>2, <2>2, <2>5, <3>1, <3>2 DEF Grants, LockInv, TypeOK, NimTypeOK, Residents, Active
    <3>4. GoesOn(f, {p, To(f, "watch")})
      BY <2>1, <2>2, <2>4, <2>5, <3>1 DEF GoesOn, HoldsLock, Lifecycle
    <3> QED
      BY <2>3, <3>1, <3>3, <3>4, GrantKeeps
  <2>6. CASE ~ Lifecycle(f)
    <3>1. status[f.d] # "none" /\ UNCHANGED status
      BY <1>2, <2>2, <2>6 DEF HoldsLock
    <3>2. Quietly
      BY <1>2, <2>2, <3>1 DEF Quietly, LockInv, TypeOK, NimTypeOK
    <3>3. \A g \in flows' : g \in flows \/ Joins(g)
      BY <1>2, <1>3, <2>1, <2>2, <2>4, <2>6, <3>1 DEF Joins, Queued, Lifecycle
    <3> QED
      BY <2>3, <3>2, <3>3, QuietKeeps
  <2> QED
    BY <2>5, <2>6
<1> QED
  BY <1>5, <1>6, <1>7, <1>8

LEMMA DeployFailsKeeps ==
  ASSUME LockInv, NEW f \in flows, StudentDeployFails(f)
  PROVE  LockInv'
<1> DEFINE G == IF f.mode = "student" THEN Returned(f.d)
                ELSE IF f.mode # "return" /\ StillReserved(f) THEN Restored(f.d) ELSE {}
<1>1. /\ DeployFails(f) /\ f.step \in {"preflight", "run"} /\ flows' = (flows \ {f}) \cup G
      /\ what' = [what EXCEPT ![f.d] = f.kind]
      /\ status' = IF StillReserved(f) THEN [status EXCEPT ![f.d] = "failed"] ELSE status
      /\ UNCHANGED <<ided, by, links, todo, torn, spared, requests, crashes>>
  BY DEF StudentDeployFails, DeployFails, Then
<1>2. /\ f \in Flow /\ f.kind \in Kind /\ f.d \in Ids /\ f.d # 0
      /\ HoldsLock(f) <=> status[f.d] = "none"
      /\ status[f.d] # "none" =>
           what[f.d] \in Kind /\ what[f.d].gpu = f.kind.gpu /\ what[f.d].role = f.kind.role
  BY <1>1, FlowWithId
<1>3. f.mode \in {"place", "replace", "student", "return"} /\ (Queued(f) <=> ~ Lifecycle(f))
  BY <1>1 DEF LockInv, ModesAgree, Queued, Lifecycle
<1>4. \A g \in G : /\ g \in Flow /\ g.step = "lock" /\ g.d = 0
                   /\ g.mode \in {"place", "replace", "student", "return"}
  BY <1>2, Restores DEF LockInv
<1>5. /\ box' \in [Ids -> {"none", "up", "ready", "dead"}]
      /\ \A d \in Ids : d # f.d => box'[d] = box[d]
      /\ left' \subseteq Ids /\ faults' \in 0 .. MaxFaults
  BY <1>1, <1>2, BoundsAssumption DEF DeployFails, Fault, LockInv, TypeOK, NimTypeOK
<1>6. RestTypeOK'
  BY <1>1, <1>2, <1>5
  DEF StudentDeployFails, Verdict, LockInv, TypeOK, NimTypeOK, RestTypeOK, links
<1> HIDE DEF G
<1>7. CASE Lifecycle(f)
  <2>1. HoldsLock(f) /\ StillReserved(f)
    BY <1>1, <1>3, <1>7 DEF HoldsLock, StillReserved
  <2>2. Residents(f.kind.gpu) \subseteq spared
    BY <1>1, <2>1 DEF LockInv, HolderHasTheGpu, Targets
  <2>3. Grants(f)
    BY <1>1, <1>2, <1>5, <2>1, <2>2 DEF Grants, LockInv, TypeOK, NimTypeOK, Residents, Active
  <2>4. GoesOn(f, G)
    BY <1>1, <1>4 DEF GoesOn, HoldsLock
  <2> QED
    BY <1>6, <2>1, <2>3, <2>4, GrantKeeps
<1>8. CASE ~ Lifecycle(f)
  <2>1. status[f.d] # "none"
    BY <1>1, <1>2, <1>8 DEF HoldsLock
  <2>2. Quietly
    BY <1>1, <1>2, <1>5, <2>1 DEF Quietly, Active, LockInv, TypeOK, NimTypeOK
  <2>3. \A g \in flows' : g \in flows \/ Joins(g)
    BY <1>1, <1>4 DEF Joins
  <2> QED
    BY <1>6, <2>2, <2>3, QuietKeeps
<1> QED
  BY <1>7, <1>8

\* A crash loses the flows; a container may have been started under an id that
\* has no row yet.
LEMMA CrashKeeps ==
  ASSUME LockInv, CrashRestart
  PROVE  LockInv'
<1>1. PICK F \in SUBSET flows :
        /\ \A f \in F : f.step = "run"
        /\ box' = [d \in Ids |-> IF \E f \in F : f.d = d THEN "up" ELSE box[d]]
        /\ what' = [d \in Ids |-> IF \E f \in F : f.d = d
                                  THEN (CHOOSE f \in F : f.d = d).kind ELSE what[d]]
        /\ torn' = torn \cup {d \in Ids : ~ Active(d) /\ \E f \in flows : f.d = d \/ d \in f.v}
  BY DEF CrashRestart, Crash
<1>2. /\ flows' = {} /\ todo' = {d \in Ids : Active(d)}
      /\ UNCHANGED <<status, ided, by, links, left, spared, requests, faults, serving>>
      /\ crashes < MaxCrashes /\ crashes' = crashes + 1
  BY DEF CrashRestart, Crash
<1>3. ASSUME NEW d \in Ids, \E f \in F : f.d = d
      PROVE  /\ what'[d] \in Kind
             /\ status[d] # "none" => what'[d].gpu = what[d].gpu /\ what'[d].role = what[d].role
  <2>1. PICK f \in F : f = (CHOOSE g \in F : g.d = d) /\ f.d = d
    BY <1>3
  <2>2. what'[d] = f.kind
    BY <1>1, <1>3, <2>1
  <2> QED
    BY <1>1, <2>1, <2>2, FlowWithId
<1>4. \A d \in Ids : ~ (\E f \in F : f.d = d) => what'[d] = what[d] /\ box'[d] = box[d]
  BY <1>1 DEF LockInv, TypeOK, NimTypeOK
<1>5. TypeOK'
  <2>1. what' \in [Ids -> Kind \cup {Unused}] /\ box' \in [Ids -> {"none", "up", "ready", "dead"}]
    BY <1>1, <1>3, <1>4 DEF LockInv, TypeOK, NimTypeOK
  <2>2. torn' \subseteq Ids /\ crashes' \in 0 .. MaxCrashes
    BY <1>1, <1>2, BoundsAssumption DEF LockInv, TypeOK, NimTypeOK
  <2> QED
    BY <1>2, <2>1, <2>2 DEF LockInv, TypeOK, NimTypeOK, links, marks
<1>6. RowsAreKnown'
  BY <1>2, <1>3, <1>4 DEF LockInv, RowsAreKnown
<1>7. YoungestHasTheGpu'
  <2> SUFFICES ASSUME NEW d \in Ids, NEW e \in Ids, d < e, d \notin spared', Active(d)',
                      status'[e] # "none"
               PROVE  what'[d].gpu # what'[e].gpu
    BY DEF YoungestHasTheGpu
  <2>1. Active(d) /\ status[d] # "none" /\ status[e] # "none"
    BY <1>2 DEF Active
  <2>2. what'[d].gpu = what[d].gpu /\ what'[e].gpu = what[e].gpu
    BY <1>3, <1>4, <2>1
  <2> QED
    BY <1>2, <2>1, <2>2 DEF LockInv, YoungestHasTheGpu
<1>8. /\ ModesAgree' /\ FlowsHaveRows' /\ KindsAgree' /\ OneHolder' /\ HolderHasTheGpu'
  BY <1>2 DEF ModesAgree, FlowsHaveRows, KindsAgree, OneHolder, HolderHasTheGpu, Active
<1> QED
  BY <1>5, <1>6, <1>7, <1>8 DEF LockInv

-----------------------------------------------------------------------------
(* The lock.                                                               *)

LEMMA LockInit == Init => LockInv
<1> SUFFICES ASSUME Init PROVE LockInv
  OBVIOUS
<1>1. 1 \in Ids /\ 0 \notin Ids /\ 0 \in 0 .. MaxRequests /\ 0 \in 0 .. MaxCrashes
      /\ 0 \in 0 .. MaxFaults
  BY BoundsAssumption DEF Ids
<1>2. /\ flows = {} /\ todo = {} /\ torn = {} /\ left = {} /\ spared = {}
      /\ by = [d \in Ids |-> 0]
  BY DEF Init, NimInit
<1>3. CASE /\ what = [d \in Ids |-> Unused]
           /\ status = Nothing /\ box = Nothing /\ ided = {} /\ bound = {} /\ config = 0
  BY <1>1, <1>2, <1>3
  DEF Init, NimInit, Nothing, LockInv, TypeOK, NimTypeOK, ModesAgree, RowsAreKnown, FlowsHaveRows,
      KindsAgree, OneHolder, HolderHasTheGpu, YoungestHasTheGpu, Active
<1>4. ASSUME NEW k \in Kind,
             /\ what = [d \in Ids |-> IF d = 1 THEN k ELSE Unused]
             /\ status = [Nothing EXCEPT ![1] = "running"]
             /\ box = [Nothing EXCEPT ![1] = "ready"]
             /\ ided = {1}
             /\ bound = IF k.role = "teacher" THEN {<<k.owner, 1>>} ELSE {}
             /\ config = IF k.role = "embedding" THEN 1 ELSE 0
      PROVE  LockInv
  <2>1. TypeOK
    <3>1. k.owner \in Projects
      BY KindFields
    <3>2. status \in [Ids -> {"none", "starting", "running", "failed", "stopped"}]
          /\ box \in [Ids -> {"none", "up", "ready", "dead"}]
      BY <1>1, <1>4 DEF Nothing
    <3> QED
      BY <1>1, <1>2, <1>4, <3>1, <3>2 DEF Init, NimInit, TypeOK, NimTypeOK
  <2>2. \A d \in Ids : d # 1 => status[d] = "none" /\ box[d] = "none"
    BY <1>4 DEF Nothing
  <2>3. RowsAreKnown /\ YoungestHasTheGpu
    BY <1>1, <1>2, <1>4, <2>2 DEF RowsAreKnown, YoungestHasTheGpu, Ids, Active
  <2> QED
    BY <1>2, <2>1, <2>3
    DEF LockInv, ModesAgree, FlowsHaveRows, KindsAgree, OneHolder, HolderHasTheGpu
<1> QED
  BY <1>3, <1>4 DEF Init, NimInit

LEMMA LockStep == LockInv /\ [Next]_vars => LockInv'
<1> SUFFICES ASSUME LockInv, [Next]_vars PROVE LockInv'
  OBVIOUS
<1>1. CASE Request \/ \E p \in Projects, g \in Gpus : DeployNim(p, g)
  BY <1>1, RequestKeeps
<1>2. CASE Docker \/ Recover
  BY <1>2, HostKeeps
<1>3. ASSUME NEW f \in flows, NimFlow(f) PROVE LockInv'
  BY <1>3, FlowKeeps, AcquireKeeps, EvictKeeps, DeployKeeps DEF NimFlow
<1>4. ASSUME NEW f \in flows, StudentFlow(f) PROVE LockInv'
  BY <1>4, StudentKeeps, DeployFailsKeeps DEF StudentFlow
<1>5. CASE CrashRestart
  BY <1>5, CrashKeeps
<1>6. CASE UNCHANGED vars
  BY <1>6
  DEF vars, nimVars, rows, links, marks, bounds, LockInv, TypeOK, NimTypeOK, ModesAgree,
      RowsAreKnown, FlowsHaveRows, KindsAgree, OneHolder, HolderHasTheGpu, YoungestHasTheGpu,
      Active, Residents, HoldsLock, Lifecycle, Replaces, Queued
<1> QED
  BY <1>1, <1>2, <1>3, <1>4, <1>5, <1>6 DEF Next

\* What every part of the invariant rests on: the lock has one holder, who has
\* the youngest id and the GPU but for those it is about to evict or had to
\* spare, and a flow's row is there once it lets go (_GPU_DEPLOY_LOCK).
THEOREM LockInvariant == Spec => []LockInv
  BY LockInit, LockStep, PTL DEF Spec

\* Every variable keeps its type.
THEOREM TypeCorrect == Spec => []TypeOK
<1>1. LockInv => TypeOK
  BY DEF LockInv
<1> QED
  BY <1>1, LockInvariant, PTL

\* The reservation of a GPU, whoever asked for it, is for one: the free device
\* that a caller read before it waited for the lock is looked at again behind
\* it, and ids are given in the order of the lock (deploy_local_nim).  Only a
\* resident whose stop raised may be there besides (stop_gpu_residents).
THEOREM OneRowCorrect == Spec => []OneActiveRowPerGpu
<1>1. LockInv => OneActiveRowPerGpu
  BY DEF LockInv, YoungestHasTheGpu, OneActiveRowPerGpu, Active, Ids
<1> QED
  BY <1>1, LockInvariant, PTL

-----------------------------------------------------------------------------
(* What no step does to a row: a row stays, with its GPU and its role, and *)
(* only goes from starting to running, or ends.  Who is spared stays it.   *)

RowStays(d) ==
  /\ status'[d] # "none" /\ what'[d].gpu = what[d].gpu /\ what'[d].role = what[d].role
  /\ status'[d] # status[d] =>
       status'[d] \in {"running", "failed", "stopped"} /\ (Active(d)' => Active(d))
RowsStay ==
  /\ spared \subseteq spared'
  /\ \A d \in Ids : status[d] # "none" => RowStays(d)

LEMMA SparedStay == [Next]_vars => spared \subseteq spared'
<1> SUFFICES ASSUME [Next]_vars PROVE spared \subseteq spared'
  OBVIOUS
<1> USE DEF marks
<1>1. CASE \/ Request \/ Docker \/ Recover \/ CrashRestart \/ UNCHANGED vars
           \/ \E p \in Projects, g \in Gpus : DeployNim(p, g)
  BY <1>1
  DEF Request, RequestDeploy, RequestStop, Reuse, DeployNim, Docker, Load, Exit, Recover,
      RecoverNext, CrashRestart, Crash, vars, nimVars
<1>2. ASSUME NEW f \in flows, NimFlow(f) PROVE spared \subseteq spared'
  <2>1. CASE EvictRaises(f)
    BY <2>1 DEF EvictRaises, Spared, HalfStopped
  <2> QED
    BY <1>2, <2>1
    DEF NimFlow, Refuse, Acquire, Evict, Stamp, Reserve, PreflightPasses, Remove, Run, Undo,
        PollHealthy, PollGivesUp, VerifyPasses, VerifyFails, Register, FailDone, StopDone,
        Attach, Recheck, InspectHealthy, InspectStarting, InspectUnhealthy, Drop, InspectGone
<1>3. ASSUME NEW f \in flows, StudentFlow(f) PROVE spared \subseteq spared'
  BY <1>3
  DEF StudentFlow, Prepare, StudentDeployFails, DeployFails, WatchRuns, WatchEnds, StageFails,
      StagesPass, Close, Quit, Interrupted, Purge, PurgeUnconfirmed
<1> QED
  BY <1>1, <1>2, <1>3 DEF Next

LEMMA RowsOnlyEnd == LockInv /\ [Next]_vars => RowsStay
<1> DEFINE Stay == \A d \in Ids : status[d] # "none" => RowStays(d)
<1> SUFFICES ASSUME LockInv, [Next]_vars PROVE Stay
  BY SparedStay DEF RowsStay
<1> USE DEF RowStays
<1>1. CASE UNCHANGED <<what, status>>
  BY <1>1
<1>2. CASE \/ Request \/ Docker \/ Recover \/ UNCHANGED vars
           \/ \E p \in Projects, g \in Gpus : DeployNim(p, g)
  BY <1>1, <1>2
  DEF Request, RequestDeploy, RequestStop, Reuse, DeployNim, Docker, Load, Exit, Recover,
      RecoverNext, vars, nimVars, rows, marks
<1>3. CASE CrashRestart
  BY <1>3, FlowWithId DEF CrashRestart, Crash
<1>4. ASSUME NEW f \in flows, NimFlow(f) PROVE Stay
  <2>1. CASE \/ Refuse(f) \/ Acquire(f) \/ Stamp(f) \/ PreflightPasses(f) \/ Remove(f) \/ Undo(f)
             \/ Register(f) \/ FailDone(f) \/ Attach(f) \/ Recheck(f) \/ InspectStarting(f)
             \/ InspectUnhealthy(f)
    BY <1>1, <2>1
    DEF Refuse, Acquire, Stamp, PreflightPasses, Remove, Undo, Register, FailDone, Attach, Recheck,
        InspectStarting, InspectUnhealthy, rows
  <2>2. CASE Evict(f) \/ EvictRaises(f)
    <3>1. /\ UNCHANGED what
          /\ UNCHANGED status \/ status' = [status EXCEPT ![Foremost(f.v)] = "stopped"]
      BY <2>2 DEF Evict, EvictRaises, Stopped, Spared, HalfStopped
    <3> QED
      BY <3>1 DEF Active, LockInv, TypeOK, NimTypeOK
  <2>3. CASE Reserve(f)
    BY <2>3, FlowWithId DEF Reserve, HoldsLock, LockInv, TypeOK, NimTypeOK
  <2>4. CASE Run(f)
    BY <2>4, FlowWithId DEF Run, HoldsLock
  <2>5. CASE PollHealthy(f) \/ VerifyPasses(f) \/ InspectHealthy(f)
    BY <2>5 DEF PollHealthy, VerifyPasses, InspectHealthy, Healthy, Promoted, Promotable, Active,
                LockInv, TypeOK, NimTypeOK
  <2>6. CASE PollGivesUp(f) \/ VerifyFails(f)
    BY <2>6 DEF PollGivesUp, VerifyFails, MarkedFailed, Active, LockInv, TypeOK, NimTypeOK
  <2>7. CASE StopDone(f) \/ Drop(f) \/ InspectGone(f)
    <3>1. UNCHANGED what /\ status' = [status EXCEPT ![f.d] = "stopped"]
      BY <2>7 DEF StopDone, Drop, InspectGone, Stopped
    <3> QED
      BY <3>1 DEF Active
  <2> QED
    BY <1>4, <2>1, <2>2, <2>3, <2>4, <2>5, <2>6, <2>7 DEF NimFlow
<1>5. ASSUME NEW f \in flows, StudentFlow(f) PROVE Stay
  <2>1. CASE Prepare(f) \/ WatchRuns(f) \/ WatchEnds(f) \/ StageFails(f) \/ StagesPass(f)
    BY <1>1, <2>1 DEF Prepare, WatchRuns, WatchEnds, StageFails, StagesPass, rows, marks
  <2>2. CASE StudentDeployFails(f)
    BY <2>2, FlowWithId DEF StudentDeployFails, DeployFails, Active
  <2>3. CASE Close(f) \/ Quit(f)
    <3>1. UNCHANGED what /\ status' = [status EXCEPT ![f.d] = "stopped"]
      BY <2>3 DEF Close, Quit, Stopped
    <3> QED
      BY <3>1 DEF Active
  <2>4. CASE Interrupted(f)
    BY <2>4
    DEF Interrupted, Purge, PurgeUnconfirmed, Active, rows, LockInv, TypeOK, NimTypeOK, marks
  <2> QED
    BY <1>5, <2>1, <2>2, <2>3, <2>4 DEF StudentFlow
<1> QED
  BY <1>2, <1>3, <1>4, <1>5 DEF Next

-----------------------------------------------------------------------------
(* The containers.                                                         *)

\* No flow but a stop joins a deployment that is under way.
LEMMA Alone ==
  ASSUME LockInv, BoxInv, NEW f \in flows, f.step \in DeploySteps \cup {"undo"}
  PROVE  /\ \A g \in flows : g.d = f.d => g = f \/ g.step = "stop"
         /\ f.d \in Ids /\ f.d \notin todo /\ status[f.d] # "running"
         /\ f.step \in DeploySteps => box[f.d] = "none"
<1>1. f.d \in Ids /\ (HoldsLock(f) <=> status[f.d] = "none")
  BY FlowWithId
<1>2. f.step = "undo" => status[f.d] = "stopped"
  BY DEF BoxInv, DeploymentsAreAlone
<1>3. f.step \in DeploySteps => Queued(f) \/ HoldsLock(f)
  BY DEF LockInv, ModesAgree, Queued, HoldsLock, Lifecycle
<1> QED
  BY <1>1, <1>2, <1>3 DEF BoxInv, DeploymentsAreAlone

LEMMA BoxOfRequests ==
  ASSUME LockInv, BoxInv, Request \/ Recover
  PROVE  BoxInv'
<1>1. ASSUME NEW d \in Ids, RequestStop(d) PROVE BoxInv'
  <2> DEFINE n == [At("stop", d, "task") EXCEPT !.named = ByName(d)]
  <2>1. n.step = "stop" /\ n.d = d
    BY DEF At
  <2>2. flows' = flows \cup {n} /\ UNCHANGED <<status, box, todo, torn, left>>
    BY <1>1 DEF RequestStop, rows, marks
  <2> HIDE DEF n
  <2> QED
    BY <2>1, <2>2
    DEF BoxInv, DeploymentsAreAlone, ContainersAreManaged, Live, Active, Queued
<1>2. ASSUME NEW p \in Projects, NEW d \in Ids, Reuse(p, d) PROVE BoxInv'
  <2> DEFINE n == [At("attach", d, "task") EXCEPT !.kind.owner = p]
  <2>1. n.step = "attach" /\ n.d = d
    BY DEF At
  <2>2. /\ flows' = flows \cup {n} /\ UNCHANGED <<status, box, todo, torn, left>>
        /\ status[d] = "running"
    BY <1>2 DEF Reuse, rows, marks
  <2> HIDE DEF n
  <2>3. \A f \in flows : f.step \in DeploySteps \cup {"undo"} => f.d # d
    BY <2>2, Alone
  <2> QED
    BY <2>1, <2>2, <2>3
    DEF BoxInv, DeploymentsAreAlone, ContainersAreManaged, Live, Active, Queued
<1>3. ASSUME NEW d \in todo, RecoverNext(d) PROVE BoxInv'
  <2> DEFINE s == IF IsStudent(what[d]) THEN "purge" ELSE "inspect"
             n == [At(s, d, "startup") EXCEPT !.named = ByName(d)]
  <2>1. n.step \in {"purge", "inspect"} /\ n.d = d
    BY DEF At
  <2>2. flows' = flows \cup {n} /\ todo' = todo \ {d} /\ UNCHANGED <<status, box, torn, left>>
    BY <1>3 DEF RecoverNext, rows, marks
  <2> HIDE DEF n
  <2>3. \A f \in flows : f.step \in DeploySteps \cup {"undo"} => f.d # d
    BY Alone
  <2> QED
    BY <2>1, <2>2, <2>3
    DEF BoxInv, DeploymentsAreAlone, ContainersAreManaged, Live, Active, Queued
<1>4. ASSUME NEW k \in Kind, NEW m \in {"place", "replace"}, RequestDeploy(k, m) PROVE BoxInv'
  <2> DEFINE n == [step |-> "lock", mode |-> m, d |-> 0, kind |-> k, v |-> {}, named |-> {}]
  <2>1. /\ flows' = flows \cup {n} /\ UNCHANGED <<status, box, todo, torn, left>>
        /\ n.step = "lock" /\ n.d = 0
    BY <1>4 DEF RequestDeploy, rows, marks
  <2> HIDE DEF n
  <2>2. \A f \in flows : f.step \in DeploySteps \cup {"undo"} => f.d # 0
    BY Alone, BoundsAssumption DEF Ids
  <2> QED
    BY <2>1, <2>2
    DEF BoxInv, DeploymentsAreAlone, ContainersAreManaged, Live, Active, Queued
<1> QED
  BY <1>1, <1>2, <1>3, <1>4 DEF Request, Recover

\* Before its docker run, a deployment ends others: their containers go, or are
\* on record as left.
LEMMA BoxOfEvicters ==
  ASSUME LockInv, BoxInv, NEW f \in flows, f.step \in {"reserve"} \cup EvictSteps, NEW n,
         flows' = (flows \ {f}) \cup {n}, n.d = f.d, n.mode = f.mode,
         n.step \in {"reserve", "preflight"} \cup EvictSteps,
         n.step = "preflight" /\ Queued(f) => status'[f.d] = "starting",
         UNCHANGED todo, torn \subseteq torn', left \subseteq left',
         \A d \in Ids : box'[d] = box[d] \/ box'[d] = "none",
         \A d \in Ids \ {f.d} :
           \/ status'[d] = status[d]
           \/ status'[d] = "stopped" /\ (box'[d] = "none" \/ d \in left')
  PROVE  BoxInv'
<1>1. HoldsLock(f) /\ f.d \in Ids /\ f.d # 0 /\ status[f.d] = "none" /\ box[f.d] = "none"
  BY FlowWithId DEF HoldsLock, BoxInv, DeploymentsAreAlone
<1>2. f.d \notin todo /\ \A h \in flows : h.d = f.d => h = f
  BY <1>1, HoldersAreAlone DEF LockInv, FlowsHaveRows
<1>3. DeploymentsAreAlone'
  <2> SUFFICES ASSUME NEW h \in flows'
               PROVE  /\ h.step \in {"reserve"} \cup EvictSteps \cup DeploySteps =>
                           box'[h.d] = "none"
                      /\ h.step \in DeploySteps \cup {"undo"} =>
                           /\ \A k \in flows' : k.d = h.d => k = h \/ k.step = "stop"
                           /\ h.d \notin todo'
                           /\ Queued(h) => status'[h.d] \in {"starting", "stopped"}
                      /\ h.step = "undo" => status'[h.d] = "stopped"
    BY DEF DeploymentsAreAlone, Queued
  <2>1. CASE h = n
    BY <1>1, <1>2, <2>1 DEF Queued
  <2>2. CASE h \in flows /\ h # f
    <3>1. h.d # f.d
          /\ (h.step \in {"reserve", "undo"} \cup EvictSteps \cup DeploySteps => h.d \in Ids)
      BY <1>2, <2>2, FlowWithId
    <3> QED
      BY <2>2, <3>1 DEF BoxInv, DeploymentsAreAlone
  <2> QED
    BY <2>1, <2>2
<1>4. ContainersAreManaged'
  <2> SUFFICES ASSUME NEW d \in Ids, Live(d)', ~ Active(d)'
               PROVE  \/ d \in torn' \cup left'
                      \/ \E h \in flows' : h.d = d /\ h.step \in {"undo", "fail"}
    BY DEF ContainersAreManaged
  <2>1. d # f.d /\ Live(d) /\ (d \in left' \/ ~ Active(d))
    BY <1>1 DEF Live, Active
  <2> QED
    BY <2>1 DEF BoxInv, ContainersAreManaged
<1> QED
  BY <1>3, <1>4 DEF BoxInv

LEMMA BoxOfDeployments ==
  ASSUME LockInv, BoxInv, RowsStay, NEW f \in flows,
         Acquire(f) \/ Evict(f) \/ EvictRaises(f) \/ Stamp(f) \/ Reserve(f) \/ PreflightPasses(f)
         \/ Remove(f) \/ Run(f) \/ Undo(f) \/ StudentDeployFails(f)
  PROVE  BoxInv'
<1>1. CASE Acquire(f)
  <2>1. PICK n \in Ids, g \in Flow : Acquired(f, n, g)
    BY <1>1, Acquires
  <2>2. status[n] = "none" /\ box[n] = "none" /\ n \notin todo
        /\ \A h \in flows : h.d # n
    <3>1. ~ (n < n) /\ n >= n
      BY BoundsAssumption DEF Ids
    <3>2. status[n] = "none" /\ box[n] = "none" /\ \A h \in flows : h.d # n
      BY <2>1, <3>1 DEF Acquired
    <3> QED
      BY <3>2 DEF LockInv, FlowsHaveRows
  <2>3. /\ UNCHANGED <<status, box, todo, torn, left>> /\ flows' = (flows \ {f}) \cup {g}
        /\ f.step = "lock" /\ g.d = n /\ g.step \in {"reserve"} \cup EvictSteps
    BY <2>1 DEF Acquired, rows, marks
  <2>4. DeploymentsAreAlone'
    BY <2>2, <2>3, Alone DEF BoxInv, DeploymentsAreAlone, Queued
  <2>5. ContainersAreManaged'
    BY <2>3 DEF BoxInv, ContainersAreManaged, Live, Active
  <2> QED
    BY <2>4, <2>5 DEF BoxInv
<1>2. CASE Evict(f) \/ EvictRaises(f) \/ Stamp(f) \/ Reserve(f)
  <2> DEFINE t == Foremost(f.v)
             w == f.v \ {t}
             r == [To(f, "stamp") EXCEPT !.named = {}]
  <2>1. /\ f \in Flow /\ f.d \in Ids /\ f.v \subseteq Ids /\ f.named \subseteq Ids
        /\ f.step \in {"reserve"} \cup EvictSteps
        /\ f.step # "reserve" => t \in Ids /\ status[t] # "none"
    BY <1>2, FlowWithId, Evicting DEF Evict, EvictRaises, Stamp, Reserve
  <2>2. CASE Evict(f)
    <3>1. /\ TearDown(t, Hit(t, f.named)) /\ status' = [status EXCEPT ![t] = "stopped"]
          /\ flows' = (flows \ {f}) \cup {r} /\ UNCHANGED <<todo, torn>> /\ f.step = "evict"
      BY <2>2 DEF Evict, Stopped, Then
    <3>2. r.d = f.d /\ r.mode = f.mode /\ r.step = "stamp"
      BY <2>1 DEF To, Flow
    <3>3. /\ left \subseteq left' /\ \A d \in Ids : box'[d] = box[d] \/ box'[d] = "none"
          /\ box'[t] = "none" \/ t \in left'
      BY <2>1, <3>1, TornDown, HitsItsOwn DEF LockInv
    <3>4. \A d \in Ids : status'[d] = status[d] \/ (d = t /\ status'[d] = "stopped")
      BY <2>1, <3>1 DEF LockInv, TypeOK, NimTypeOK
    <3> HIDE DEF r, t
    <3> QED
      BY <2>1, <3>1, <3>2, <3>3, <3>4, BoxOfEvicters
  <2>3. CASE EvictRaises(f) \/ Stamp(f)
    <3> DEFINE n == EvictNext(f, w)
    <3>1. /\ n.d = f.d /\ n.mode = f.mode /\ n.step \in {"reserve"} \cup EvictSteps
      BY <2>1, EvictsNext
    <3>2. /\ flows' = (flows \ {f}) \cup {n} /\ UNCHANGED todo /\ f.step \in EvictSteps
      BY <2>3 DEF EvictRaises, Stamp, Then, rows
    <3> HIDE DEF n
    <3>3. CASE Spared(t, f.named) \/ Stamp(f)
      <4>1. UNCHANGED <<status, torn, left>> /\ (UNCHANGED box \/ Removed(Hit(t, f.named)))
        BY <3>3 DEF Stamp, Spared, marks
      <4>2. \A d \in Ids : box'[d] = box[d] \/ box'[d] = "none"
        BY <4>1 DEF Removed
      <4> QED
        BY <2>1, <3>1, <3>2, <4>1, <4>2, BoxOfEvicters
    <3>4. CASE HalfStopped(t, f.named)
      <4>1. HalfStopped(t, f.named)
        BY <3>4
      <4>2. /\ torn \subseteq torn' /\ left \subseteq left'
            /\ (Refused(t, Hit(t, f.named)) /\ UNCHANGED box) \/ Removed(Hit(t, f.named))
        BY <4>1 DEF HalfStopped, Refused, Kept
      <4>3. \A d \in Ids : box'[d] = box[d] \/ box'[d] = "none"
        BY <4>2 DEF Removed
      <4>4. box'[t] = "none" \/ t \in left'
        BY <2>1, <4>2, <3>2 DEF Refused, Kept, Removed, Hit, Named, Exists, SameName
      <4>5. \A d \in Ids : status'[d] = status[d] \/ (d = t /\ status'[d] = "stopped")
        BY <2>1, <3>2, <4>1 DEF HalfStopped, LockInv, TypeOK, NimTypeOK
      <4> HIDE DEF t
      <4> QED
        BY <2>1, <3>1, <3>2, <4>2, <4>3, <4>4, <4>5, BoxOfEvicters
    <3> QED
      BY <2>3, <3>3, <3>4 DEF EvictRaises
  <2>4. CASE Reserve(f)
    <3> DEFINE n == To(f, "preflight")
    <3>1. n.d = f.d /\ n.mode = f.mode /\ n.step = "preflight"
      BY <2>1, Goes DEF Steps
    <3>2. /\ flows' = (flows \ {f}) \cup {n} /\ f.step = "reserve"
          /\ UNCHANGED <<box, todo, torn, left>>
          /\ \A d \in Ids \ {f.d} : status'[d] = status[d]
          /\ Queued(f) => status'[f.d] = "starting"
      BY <2>1, <2>4 DEF Reserve, Then, marks, LockInv, TypeOK, NimTypeOK
    <3> HIDE DEF n
    <3> QED
      BY <3>1, <3>2, BoxOfEvicters
  <2> QED
    BY <1>2, <2>2, <2>3, <2>4
<1>3. CASE Run(f)
  <2> DEFINE p == [At("poll", f.d, "task") EXCEPT !.kind = f.kind]
  <2>1. /\ f \in Flow /\ f.step = "run" /\ f.d \in Ids /\ (HoldsLock(f) <=> status[f.d] = "none")
        /\ (Queued(f) <=> ~ Lifecycle(f))
    BY <1>3, FlowWithId DEF Run, LockInv, ModesAgree, Queued, Lifecycle
  <2>2. /\ p.step = "poll" /\ p.d = f.d /\ To(f, "undo").step = "undo" /\ To(f, "undo").d = f.d
        /\ To(f, "watch").step = "watch" /\ To(f, "watch").d = f.d
    BY <2>1, Goes DEF At, Steps
  <2>3. /\ flows' = (flows \ {f}) \cup OnceStarted(f) /\ UNCHANGED <<todo, torn, left>>
        /\ status' = IF Lifecycle(f) THEN [status EXCEPT ![f.d] = "starting"] ELSE status
        /\ box' = [box EXCEPT ![f.d] = "up"]
    BY <1>3 DEF Run, Then, marks
  <2>4. OnceStarted(f) = IF ~ StillReserved(f) THEN {To(f, "undo")}
                         ELSE {p} \cup (IF Lifecycle(f) THEN {To(f, "watch")} ELSE {})
    BY DEF OnceStarted
  <2> HIDE DEF p
  <2>5. /\ \A h \in flows : h.d = f.d => h = f \/ h.step = "stop"
        /\ f.d \notin todo /\ (Queued(f) => status[f.d] \in {"starting", "stopped"})
    BY <2>1, Alone DEF BoxInv, DeploymentsAreAlone
  <2>6. StillReserved(f) => status'[f.d] = "starting"
    BY <2>1, <2>3 DEF StillReserved, LockInv, TypeOK, NimTypeOK
  <2>7. ~ StillReserved(f) => status'[f.d] = "stopped" /\ OnceStarted(f) = {To(f, "undo")}
    BY <2>1, <2>3, <2>4, <2>5 DEF StillReserved
  <2>8. \A d \in Ids \ {f.d} : status'[d] = status[d] /\ box'[d] = box[d]
    BY <2>3 DEF LockInv, TypeOK, NimTypeOK
  <2>9. DeploymentsAreAlone'
    <3> SUFFICES ASSUME NEW h \in flows'
                 PROVE  /\ h.step \in {"reserve"} \cup EvictSteps \cup DeploySteps =>
                             box'[h.d] = "none"
                        /\ h.step \in DeploySteps \cup {"undo"} =>
                             /\ \A k \in flows' : k.d = h.d => k = h \/ k.step = "stop"
                             /\ h.d \notin todo'
                             /\ Queued(h) => status'[h.d] \in {"starting", "stopped"}
                        /\ h.step = "undo" => status'[h.d] = "stopped"
      BY DEF DeploymentsAreAlone, Queued
    <3>1. CASE h \in OnceStarted(f)
      BY <2>2, <2>3, <2>4, <2>5, <2>7, <3>1
    <3>2. CASE h \in flows /\ h # f
      <4>1. h.step \in {"reserve", "undo"} \cup EvictSteps \cup DeploySteps =>
              h.d \in Ids \ {f.d}
        BY <2>5, <3>2, FlowWithId
      <4>2. \A k \in OnceStarted(f) : k.d = f.d
        BY <2>2, <2>4
      <4> QED
        BY <2>3, <2>8, <3>2, <4>1, <4>2 DEF BoxInv, DeploymentsAreAlone
    <3> QED
      BY <2>3, <3>1, <3>2
  <2>10. ContainersAreManaged'
    <3> SUFFICES ASSUME NEW d \in Ids, Live(d)', ~ Active(d)'
                 PROVE  \/ d \in torn \cup left
                        \/ \E h \in flows' : h.d = d /\ h.step \in {"undo", "fail"}
      BY <2>3 DEF ContainersAreManaged
    <3>1. CASE d = f.d
      BY <2>2, <2>3, <2>6, <2>7, <3>1 DEF Active
    <3>2. CASE d # f.d
      BY <2>1, <2>3, <2>8, <3>2 DEF BoxInv, ContainersAreManaged, Live, Active
    <3> QED
      BY <3>1, <3>2
  <2> QED
    BY <2>9, <2>10 DEF BoxInv
<1>4. CASE StudentDeployFails(f)
  <2> DEFINE G == IF f.mode = "student" THEN Returned(f.d)
                  ELSE IF f.mode # "return" /\ StillReserved(f) THEN Restored(f.d) ELSE {}
  <2>1. /\ f.step \in {"preflight", "run"} /\ flows' = (flows \ {f}) \cup G
        /\ status' = IF StillReserved(f) THEN [status EXCEPT ![f.d] = "failed"] ELSE status
        /\ UNCHANGED <<todo, torn>> /\ left \subseteq left'
        /\ box' = box \/ (f.d \in left' /\ box' = [box EXCEPT ![f.d] = "up"])
    BY <1>4 DEF StudentDeployFails, DeployFails, Then
  <2>2. f.d \in Ids /\ box[f.d] = "none" /\ \A h \in flows : h.d = f.d => h = f \/ h.step = "stop"
    BY <2>1, Alone
  <2>3. \A g \in G : g.step = "lock" /\ g.d = 0
    BY <2>2, Restores DEF LockInv
  <2> HIDE DEF G
  <2>4. \A d \in Ids \ {f.d} : status'[d] = status[d] /\ box'[d] = box[d]
    BY <2>1 DEF LockInv, TypeOK, NimTypeOK
  <2>5. ASSUME NEW h \in flows', h.step \in {"reserve", "undo"} \cup EvictSteps \cup DeploySteps
        PROVE  h \in flows /\ h.d \in Ids \ {f.d}
    BY <2>1, <2>2, <2>3, <2>5, FlowWithId
  <2>6. DeploymentsAreAlone'
    <3>1. \A h \in flows' : h.d # 0 => h \in flows
      BY <2>1, <2>3
    <3> QED
      BY <2>1, <2>4, <2>5, <3>1, BoundsAssumption DEF BoxInv, DeploymentsAreAlone, Queued, Ids
  <2>7. ContainersAreManaged'
    BY <2>1, <2>2, <2>4 DEF BoxInv, ContainersAreManaged, Live, Active
  <2> QED
    BY <2>6, <2>7 DEF BoxInv
<1>5. CASE PreflightPasses(f)
  BY <1>5, FlowWithId, Goes
  DEF PreflightPasses, StillReserved, Then, Steps, rows, BoxInv, DeploymentsAreAlone,
      ContainersAreManaged, Live, Active, Queued, LockInv, TypeOK, NimTypeOK, FlowsHaveRows,
      HoldsLock, Lifecycle, marks
<1>6. CASE Remove(f) \/ Undo(f)
  <2>1. /\ f.step \in {"remove", "undo"} /\ f.d \in Ids /\ f \in Flow
        /\ UNCHANGED <<status, todo, torn>>
        /\ \E S \in SUBSET Ids : TearDown(f.d, S) /\ (f.step = "undo" => f.d \in S)
        /\ \/ flows' = flows \ {f}
           \/ flows' = (flows \ {f}) \cup {To(f, "run")} /\ f.step = "remove"
    BY <1>6, FlowWithId DEF Remove, Undo, Then, rows, Named
  <2>2. /\ left \subseteq left' /\ \A b \in Ids : box'[b] = box[b] \/ box'[b] = "none"
        /\ f.step = "undo" => box'[f.d] = "none" \/ f.d \in left'
    BY <2>1, TornDown DEF LockInv
  <2>3. /\ To(f, "run").step = "run" /\ To(f, "run").d = f.d /\ To(f, "run").mode = f.mode
    BY <2>1, Goes DEF Steps
  <2>4. DeploymentsAreAlone'
    <3> SUFFICES ASSUME NEW h \in flows'
                 PROVE  /\ h.step \in {"reserve"} \cup EvictSteps \cup DeploySteps =>
                             box'[h.d] = "none"
                        /\ h.step \in DeploySteps \cup {"undo"} =>
                             /\ \A k \in flows' : k.d = h.d => k = h \/ k.step = "stop"
                             /\ h.d \notin todo'
                             /\ Queued(h) => status'[h.d] \in {"starting", "stopped"}
                        /\ h.step = "undo" => status'[h.d] = "stopped"
      BY DEF DeploymentsAreAlone, Queued
    <3>1. CASE h \in flows
      <4>1. h.step \in {"reserve"} \cup EvictSteps \cup DeploySteps => h.d \in Ids
        BY <3>1, FlowWithId
      <4> QED
        BY <2>1, <2>2, <2>3, <3>1, <4>1 DEF BoxInv, DeploymentsAreAlone
    <3>2. CASE h = To(f, "run") /\ f.step = "remove" /\ flows' = (flows \ {f}) \cup {To(f, "run")}
      BY <2>1, <2>2, <2>3, <3>2 DEF BoxInv, DeploymentsAreAlone, Queued
    <3> QED
      BY <2>1, <3>1, <3>2
  <2>5. ContainersAreManaged'
    BY <2>1, <2>2 DEF BoxInv, ContainersAreManaged, Live, Active
  <2> QED
    BY <2>4, <2>5 DEF BoxInv
<1> QED
  BY <1>1, <1>2, <1>3, <1>4, <1>5, <1>6

\* The teardown of a failed deployment.
LEMMA BoxOfFailures ==
  ASSUME LockInv, BoxInv, NEW f \in flows, FailDone(f)
  PROVE  BoxInv'
<1>1. /\ f.step = "fail" /\ f.d \in Ids /\ UNCHANGED <<status, todo, torn>>
      /\ TearDown(f.d, Hit(f.d, f.named)) /\ flows' = (flows \ {f}) \cup Restored(f.d)
  BY FlowWithId DEF FailDone, Then, rows
<1>2. /\ left \subseteq left' /\ (box'[f.d] = "none" \/ f.d \in left')
      /\ \A b \in Ids : box'[b] = box[b] \/ box'[b] = "none"
  BY <1>1, TornDown, HitsItsOwn DEF LockInv
<1>3. \A g \in Restored(f.d) : g.step = "lock" /\ g.d = 0
  BY <1>1, Restores DEF LockInv
<1>4. \A g \in flows : g.step \in DeploySteps \cup EvictSteps \cup {"reserve", "undo"} =>
        g.d \in Ids /\ g.d # 0
  BY FlowWithId
<1>5. DeploymentsAreAlone'
  BY <1>1, <1>2, <1>3, <1>4 DEF BoxInv, DeploymentsAreAlone, Queued
<1>6. ContainersAreManaged'
  <2> SUFFICES ASSUME NEW d \in Ids, Live(d)', ~ Active(d)'
               PROVE  \/ d \in torn' \cup left'
                      \/ \E h \in flows' : h.d = d /\ h.step \in {"undo", "fail"}
    BY DEF ContainersAreManaged
  <2>1. CASE d = f.d
    BY <1>2, <2>1 DEF Live
  <2>2. CASE d # f.d
    <3>1. Live(d) /\ ~ Active(d)
      BY <1>1, <1>2 DEF Live, Active
    <3>2. d \in torn \cup left \/ \E h \in flows : h.d = d /\ h.step \in {"undo", "fail"}
      BY <3>1 DEF BoxInv, ContainersAreManaged
    <3> QED
      BY <1>1, <1>2, <2>2, <3>2
  <2> QED
    BY <2>1, <2>2
<1> QED
  BY <1>5, <1>6 DEF BoxInv

LEMMA BoxOfFlows ==
  ASSUME LockInv, BoxInv, NEW f \in flows,
         \/ Refuse(f) \/ PollHealthy(f) \/ PollGivesUp(f) \/ VerifyPasses(f)
         \/ VerifyFails(f) \/ Register(f) \/ FailDone(f) \/ StopDone(f) \/ Attach(f)
         \/ Recheck(f) \/ InspectHealthy(f) \/ InspectStarting(f)
         \/ InspectUnhealthy(f) \/ Drop(f) \/ InspectGone(f)
  PROVE  BoxInv'
<1> USE DEF BoxInv, DeploymentsAreAlone, ContainersAreManaged, Live, Active, Queued, marks
<1>1. CASE Refuse(f)
  BY <1>1 DEF Refuse, Then, rows, marks
<1>2. CASE PollHealthy(f)
  <2>1. /\ f.step = "poll" /\ f.d \in Ids /\ UNCHANGED <<box, todo, marks>>
        /\ flows' = flows \ {f} \/ flows' = (flows \ {f}) \cup {To(f, "verify")}
        /\ status' = status \/ status' = [status EXCEPT ![f.d] = "running"]
        /\ To(f, "verify").step = "verify" /\ To(f, "verify").d = f.d
    BY <1>2, FlowWithId, Goes DEF PollHealthy, Healthy, Promoted, Then, Steps
  <2>2. \A g \in flows : g.step \in DeploySteps \cup {"undo"} => g.d # f.d
    BY <2>1, Alone
  <2> QED
    BY <2>1, <2>2, FlowWithId DEF LockInv, TypeOK, NimTypeOK
<1>3. CASE PollGivesUp(f)
  <2>1. /\ f.step = "poll" /\ f.d \in Ids /\ UNCHANGED <<box, todo, marks>>
        /\ \/ flows' = flows \ {f} /\ status' = status
           \/ /\ flows' = (flows \ {f}) \cup {TearsDown(f, "fail")}
              /\ status' = [status EXCEPT ![f.d] = "failed"]
        /\ TearsDown(f, "fail").step = "fail" /\ TearsDown(f, "fail").d = f.d
    BY <1>3, FlowWithId, GoesTearing DEF PollGivesUp, MarkedFailed, Then, Steps
  <2>2. \A g \in flows : g.step \in DeploySteps \cup {"undo"} => g.d # f.d
    BY <2>1, Alone
  <2> QED
    BY <2>1, <2>2, FlowWithId DEF LockInv, TypeOK, NimTypeOK
<1>4. CASE VerifyPasses(f)
  BY <1>4, FlowWithId, Goes
  DEF VerifyPasses, Promoted, Promotable, Then, LockInv, TypeOK,
      NimTypeOK, FlowsHaveRows, HoldsLock, Lifecycle, Steps
<1>5. CASE VerifyFails(f)
  <2>1. /\ f.step = "verify" /\ f.d \in Ids /\ UNCHANGED <<box, todo, marks>>
        /\ \/ flows' = flows \ {f} /\ status' = status
           \/ /\ flows' = (flows \ {f}) \cup {TearsDown(f, "fail")}
              /\ status' = [status EXCEPT ![f.d] = "failed"]
        /\ TearsDown(f, "fail").step = "fail" /\ TearsDown(f, "fail").d = f.d
    BY <1>5, FlowWithId, GoesTearing DEF VerifyFails, MarkedFailed, Then, Steps
  <2>2. \A g \in flows : g.step \in DeploySteps \cup {"undo"} => g.d # f.d
    BY <2>1, Alone
  <2> QED
    BY <2>1, <2>2, FlowWithId DEF LockInv, TypeOK, NimTypeOK
<1>6. CASE Register(f)
  BY <1>6 DEF Register, Then, rows, marks
<1>7. CASE FailDone(f)
  BY <1>7, BoxOfFailures
<1>8. CASE StopDone(f)
  <2>1. /\ f.step = "stop" /\ f.d \in Ids /\ flows' = flows \ {f} /\ UNCHANGED <<todo, torn>>
        /\ status' = [status EXCEPT ![f.d] = "stopped"] /\ TearDown(f.d, Hit(f.d, f.named))
    BY <1>8, FlowWithId DEF StopDone, Stopped, Then
  <2>2. /\ left \subseteq left' /\ (box'[f.d] = "none" \/ f.d \in left')
        /\ \A b \in Ids : box'[b] = box[b] \/ box'[b] = "none"
    BY <2>1, TornDown, HitsItsOwn DEF LockInv
  <2> QED
    BY <2>1, <2>2, FlowWithId
<1>9. CASE Attach(f)
  BY <1>9, FlowWithId, Goes
  DEF Attach, Then, rows, LockInv, TypeOK, NimTypeOK, FlowsHaveRows, HoldsLock, Lifecycle, Steps,
      marks
<1>10. CASE Recheck(f)
  BY <1>10 DEF Recheck, Then, rows, marks
<1>11. CASE InspectHealthy(f)
  <2>1. /\ f.step = "inspect" /\ f.d \in Ids /\ UNCHANGED <<box, todo, marks>>
        /\ flows' = flows \ {f} \/ flows' = (flows \ {f}) \cup {To(f, "verify")}
        /\ status' = status \/ status' = [status EXCEPT ![f.d] = "running"]
        /\ To(f, "verify").step = "verify" /\ To(f, "verify").d = f.d
    BY <1>11, FlowWithId, Goes DEF InspectHealthy, Healthy, Promoted, Then, Steps
  <2>2. \A g \in flows : g.step \in DeploySteps \cup {"undo"} => g.d # f.d
    BY <2>1, Alone
  <2> QED
    BY <2>1, <2>2, FlowWithId DEF LockInv, TypeOK, NimTypeOK
<1>12. CASE InspectStarting(f)
  BY <1>12, FlowWithId, Resumes
  DEF InspectStarting, Then, rows, LockInv, TypeOK, NimTypeOK, FlowsHaveRows, HoldsLock, Lifecycle,
      marks
<1>13. CASE InspectUnhealthy(f)
  BY <1>13, FlowWithId, Goes
  DEF InspectUnhealthy, Then, rows, LockInv, TypeOK, NimTypeOK, FlowsHaveRows, HoldsLock, Lifecycle,
      Steps, marks
<1>14. CASE Drop(f)
  BY <1>14, FlowWithId, Restores, TornDown, HitsItsOwn
  DEF Drop, Stopped, Detached, Then, LockInv, FlowsHaveRows, HoldsLock, Lifecycle
<1>15. CASE InspectGone(f)
  BY <1>15, FlowWithId, Restores
  DEF InspectGone, Alive, Kept, Named, Exists, SameName, Detached,
      Then, LockInv, FlowsHaveRows, HoldsLock, Lifecycle
<1> QED
  BY <1>1, <1>2, <1>3, <1>4, <1>5, <1>6, <1>7, <1>8, <1>9, <1>10, <1>11, <1>12, <1>13, <1>14, <1>15

LEMMA BoxOfStudents ==
  ASSUME LockInv, BoxInv, NEW f \in flows,
         \/ Prepare(f) \/ WatchRuns(f) \/ WatchEnds(f) \/ StageFails(f)
         \/ StagesPass(f) \/ Close(f) \/ Quit(f) \/ Interrupted(f)
  PROVE  BoxInv'
<1> USE DEF BoxInv, DeploymentsAreAlone, ContainersAreManaged, Live, Active, Queued, marks
<1>1. CASE Prepare(f)
  BY <1>1, Goes DEF Prepare, Then, rows, LockInv, TypeOK, NimTypeOK, Steps, marks
<1>2. CASE WatchRuns(f)
  BY <1>2, FlowWithId, Goes
  DEF WatchRuns, Then, rows, LockInv, TypeOK, NimTypeOK, FlowsHaveRows, HoldsLock, Lifecycle, Steps,
      marks
<1>3. CASE WatchEnds(f)
  <2>1. /\ f.step = "watch" /\ f.d \in Ids /\ UNCHANGED <<status, box, todo, torn, left>>
        /\ \/ flows' = flows \ {f}
           \/ flows' = (flows \ {f}) \cup {TearsDown(f, "quit")}
           \/ flows' = (flows \ {f}) \cup Returned(f.d)
    BY <1>3, FlowWithId DEF WatchEnds, Leave, Then, rows
  <2>2. /\ TearsDown(f, "quit").step = "quit" /\ TearsDown(f, "quit").d = f.d
        /\ \A g \in Returned(f.d) : g.step = "lock" /\ g.d = 0
    BY <2>1, FlowWithId, GoesTearing, Restores DEF LockInv, Steps
  <2>3. \A g \in flows : g.step \in DeploySteps \cup {"undo"} => g.d # 0 /\ g.d # f.d
    BY <2>1, FlowWithId, Alone
  <2> QED
    BY <2>1, <2>2, <2>3
<1>4. CASE StageFails(f)
  <2>1. /\ f.step = "stages" /\ f.d \in Ids /\ UNCHANGED <<status, box, todo, torn, left>>
        /\ \/ flows' = flows \ {f}
           \/ flows' = (flows \ {f}) \cup {TearsDown(f, "quit")}
           \/ flows' = (flows \ {f}) \cup Returned(f.d)
    BY <1>4, FlowWithId DEF StageFails, Leave, Then, rows
  <2>2. /\ TearsDown(f, "quit").step = "quit" /\ TearsDown(f, "quit").d = f.d
        /\ \A g \in Returned(f.d) : g.step = "lock" /\ g.d = 0
    BY <2>1, FlowWithId, GoesTearing, Restores DEF LockInv, Steps
  <2>3. \A g \in flows : g.step \in DeploySteps \cup {"undo"} => g.d # 0 /\ g.d # f.d
    BY <2>1, FlowWithId, Alone
  <2> QED
    BY <2>1, <2>2, <2>3
<1>5. CASE StagesPass(f)
  BY <1>5, FlowWithId, GoesTearing DEF StagesPass, Then, rows, Steps, marks
<1>6. CASE Close(f)
  BY <1>6, FlowWithId, Restores, TornDown, HitsItsOwn
  DEF Close, Stopped, Detached, Then, LockInv, FlowsHaveRows, HoldsLock, Lifecycle
<1>7. CASE Quit(f)
  BY <1>7, FlowWithId, Restores, TornDown, HitsItsOwn
  DEF Quit, Stopped, Detached, Then, LockInv, FlowsHaveRows, HoldsLock, Lifecycle
<1>8. CASE Interrupted(f)
  <2>1. f.step = "purge" /\ f.d \in Ids
    BY <1>8, FlowWithId DEF Interrupted, Purge, PurgeUnconfirmed
  <2>2. CASE Purge(f)
    <3>1. /\ flows' = (flows \ {f}) \cup Restored(f.d) /\ UNCHANGED <<todo, torn, left>>
          /\ status' = [status EXCEPT ![f.d] = "stopped"]
          /\ \A d \in Ids : box'[d] # "none" => box'[d] = box[d] /\ d # f.d
      BY <2>1, <2>2
      DEF Purge, Then, Removed, Hit, Named, Exists, SameName, LockInv, TypeOK, NimTypeOK
    <3>2. \A g \in Restored(f.d) : g.step = "lock" /\ g.d = 0
      BY <2>1, Restores DEF LockInv
    <3>3. \A g \in flows :
            g.step \in DeploySteps \cup EvictSteps \cup {"reserve", "undo"} => g.d # 0
      BY FlowWithId
    <3> QED
      BY <2>1, <3>1, <3>2, <3>3, FlowWithId DEF LockInv, TypeOK, NimTypeOK
  <2>3. CASE PurgeUnconfirmed(f)
    BY <2>1, <2>3 DEF PurgeUnconfirmed, Then, rows, marks
  <2> QED
    BY <1>8, <2>2, <2>3 DEF Interrupted
<1> QED
  BY <1>1, <1>2, <1>3, <1>4, <1>5, <1>6, <1>7, <1>8

LEMMA BoxInit == Init => BoxInv
<1> SUFFICES ASSUME Init PROVE BoxInv
  OBVIOUS
<1>1. DeploymentsAreAlone
  BY DEF Init, NimInit, DeploymentsAreAlone
<1>2. \A d \in Ids : Live(d) => Active(d)
  BY DEF Init, NimInit, Nothing, Live, Active
<1> QED
  BY <1>1, <1>2 DEF BoxInv, ContainersAreManaged

LEMMA BoxStep == LockInv /\ BoxInv /\ [Next]_vars => BoxInv'
<1> SUFFICES ASSUME LockInv, BoxInv, [Next]_vars PROVE BoxInv'
  OBVIOUS
<1>1. RowsStay
  BY RowsOnlyEnd
<1>2. CASE Request \/ Recover
  BY <1>2, BoxOfRequests
<1>3. ASSUME NEW p \in Projects, NEW g \in Gpus, DeployNim(p, g) PROVE BoxInv'
  <2> DEFINE n == [step |-> "prepare", mode |-> "student", d |-> 0,
                   kind |-> [owner |-> p, role |-> "student", gpu |-> g],
                   v |-> {}, named |-> {}]
  <2>1. /\ flows' = flows \cup {n} /\ UNCHANGED <<status, box, todo, torn, left>>
        /\ n.step = "prepare" /\ n.d = 0
    BY <1>3 DEF DeployNim, rows, marks
  <2> HIDE DEF n
  <2>2. \A f \in flows : f.step \in {"undo"} \cup DeploySteps => f.d # 0
    BY Alone, BoundsAssumption DEF Ids
  <2> QED
    BY <2>1, <2>2
    DEF BoxInv, DeploymentsAreAlone, ContainersAreManaged, Live, Active, Queued
<1>4. ASSUME NEW d \in Ids, Load(d) \/ Exit(d) PROVE BoxInv'
  <2>1. /\ UNCHANGED <<status, flows, todo, torn, left>>
        /\ \A e \in Ids : (Live(e)' => Live(e)) /\ (box[e] = "none" => box'[e] = "none")
    BY <1>4 DEF Load, Exit, Live, rows, LockInv, TypeOK, NimTypeOK, marks
  <2>2. \A f \in flows : f.step \in {"reserve"} \cup EvictSteps \cup DeploySteps => f.d \in Ids
    BY FlowWithId
  <2> QED
    BY <2>1, <2>2 DEF BoxInv, DeploymentsAreAlone, ContainersAreManaged, Active, Queued
<1>5. ASSUME NEW f \in flows, NimFlow(f) PROVE BoxInv'
  BY <1>1, <1>5, BoxOfDeployments, BoxOfFlows DEF NimFlow
<1>6. ASSUME NEW f \in flows, StudentFlow(f) PROVE BoxInv'
  BY <1>1, <1>6, BoxOfDeployments, BoxOfStudents DEF StudentFlow
<1>7. CASE CrashRestart
  <2>1. PICK F \in SUBSET flows :
          /\ box' = [d \in Ids |-> IF \E f \in F : f.d = d THEN "up" ELSE box[d]]
          /\ torn' = torn \cup {d \in Ids : ~ Active(d) /\ \E f \in flows : f.d = d \/ d \in f.v}
    BY <1>7 DEF CrashRestart, Crash
  <2>2. flows' = {} /\ UNCHANGED <<status, left>>
    BY <1>7 DEF CrashRestart, Crash
  <2> QED
    BY <2>1, <2>2
    DEF BoxInv, DeploymentsAreAlone, ContainersAreManaged, Live, Active, LockInv, TypeOK, NimTypeOK
<1>8. CASE UNCHANGED vars
  BY <1>8
  DEF vars, nimVars, rows, BoxInv, DeploymentsAreAlone, ContainersAreManaged, Live, Active, Queued,
      marks
<1> QED
  BY <1>2, <1>3, <1>4, <1>5, <1>6, <1>7, <1>8 DEF Next, Docker

\* What runs on the host is known to it: whoever marks a row ended, however the
\* steps of stops, failures, evictions and crashes fall, a container that still
\* lives has somebody to remove it, or lost that one in a crash, or is one that
\* Docker kept or was not asked to remove.
THEOREM ContainersCorrect == Spec => []ContainersAreManaged
<1>1. Init => LockInv /\ BoxInv
  BY LockInit, BoxInit
<1>2. LockInv /\ BoxInv /\ [Next]_vars => (LockInv /\ BoxInv)'
  BY LockStep, BoxStep
<1>3. LockInv /\ BoxInv => ContainersAreManaged
  BY DEF BoxInv
<1> QED
  BY <1>1, <1>2, <1>3, PTL DEF Spec

-----------------------------------------------------------------------------
(* Endpoints and the embedding configuration.                              *)

\* What a flow begins with, or goes on with, when it promotes, attaches or ends.
Knows(g) ==
  /\ g.step \in {"verify", "register", "attach", "recheck"} => g.kind.role = "teacher"
  /\ g.step \in {"attach", "recheck"} => status'[g.d] \in {"running", "failed", "stopped"}
  /\ g.step = "fail" => status'[g.d] \in {"failed", "stopped"}
  /\ g.step = "purge" => IsStudent(g.kind)

\* Nobody new is sent to a NIM, and nobody is left with those of S.
NoneLinked(S) ==
  /\ \A d \in Ids, p \in Projects : <<p, d>> \in bound' => <<p, d>> \in bound /\ d \notin S
  /\ \A d \in Ids : config' = d => config = d /\ d \notin S

Linked(d) == config = d \/ \E p \in Projects : <<p, d>> \in bound

LEMMA Detaches ==
  ASSUME NEW S \in SUBSET Ids, Detached(S)
  PROVE  NoneLinked(S)
<1>1. ASSUME NEW d \in Ids, NEW p \in Projects, <<p, d>> \in bound'
      PROVE  <<p, d>> \in bound /\ d \notin S
  <2>1. <<p, d>> \in bound /\ <<p, d>>[2] \notin S
    BY <1>1 DEF Detached
  <2> QED
    BY <2>1
<1>2. ASSUME NEW d \in Ids, config' = d PROVE config = d /\ d \notin S
  <2>1. d # 0
    BY BoundsAssumption DEF Ids
  <2> QED
    BY <1>2, <2>1 DEF Detached
<1> QED
  BY <1>1, <1>2 DEF NoneLinked

\* Of a flow that was there, RowsStay keeps what it knows.
LEMMA KnowsOn ==
  ASSUME LockInv, LinkInv, RowsStay, \A g \in flows' : g \in flows \/ Knows(g)
  PROVE  FlowsKnowTheirNim'
<1> SUFFICES ASSUME NEW g \in flows' PROVE Knows(g)
  BY DEF FlowsKnowTheirNim, Knows, Terminal, IsStudent
<1>1. CASE g \in flows /\ g.step \in {"attach", "recheck", "fail"}
  <2>1. g.d \in Ids /\ status[g.d] \in {"running", "failed", "stopped"}
        /\ (g.step = "fail" => Terminal(g.d)) /\ status[g.d] # "none"
    BY <1>1, FlowWithId DEF LinkInv, FlowsKnowTheirNim, Terminal
  <2>2. RowStays(g.d)
    BY <2>1 DEF RowsStay
  <2> QED
    BY <1>1, <2>1, <2>2 DEF RowStays, Active, Terminal, Knows, LinkInv, FlowsKnowTheirNim
<1>2. CASE g \in flows /\ g.step \notin {"attach", "recheck", "fail"}
  BY <1>2 DEF LinkInv, FlowsKnowTheirNim, Knows
<1> QED
  BY <1>1, <1>2

\* Nor does a NIM that somebody is sent to end, but for those of S, without a
\* flow that sees to it.
LinksStand(S) ==
  /\ NoneLinked(S) /\ torn \subseteq torn'
  /\ \A d \in Ids \ S : status[d] = "running" /\ Linked(d) =>
       \/ status'[d] = "running" \/ d \in torn'
       \/ \E f \in flows' : f.d = d /\ f.step \in {"fail", "recheck"}
  /\ \A f \in flows : f.step \in {"fail", "recheck"} => f \in flows' \/ f.d \in S

LEMMA LinkKeeps ==
  ASSUME LockInv, LinkInv, RowsStay, NEW S \in SUBSET Ids, LinksStand(S),
         \A g \in flows' : g \in flows \/ Knows(g)
  PROVE  LinkInv'
<1> USE DEF LinksStand
<1>1. LinksHaveRoles'
  BY DEF LinksHaveRoles, LinkInv, NoneLinked, RowsStay, RowStays
<1>2. BoundToLiveNims'
  <2> SUFFICES ASSUME NEW d \in Ids, config' = d \/ \E p \in Projects : <<p, d>> \in bound'
               PROVE  \/ status'[d] = "running" \/ d \in torn'
                      \/ \E f \in flows' : f.d = d /\ f.step \in {"fail", "recheck"}
    BY DEF BoundToLiveNims
  <2>1. Linked(d) /\ d \notin S
    BY DEF NoneLinked, Linked
  <2> QED
    BY <2>1 DEF LinkInv, BoundToLiveNims, Linked
<1> QED
  BY <1>1, <1>2, KnowsOn DEF LinkInv


\* A NIM that a running Teacher's health, an attachment or a stamp links to.
LEMMA LinksGrow ==
  ASSUME LockInv, LinkInv, RowsStay, NEW d \in Ids,
         \A e \in Ids, p \in Projects : <<p, e>> \in bound' /\ e # d => <<p, e>> \in bound,
         \A p \in Projects : <<p, d>> \in bound' =>
           <<p, d>> \in bound \/ (status[d] # "none" /\ what[d].role = "teacher"),
         config' = config \/ (config' = d /\ status[d] # "none" /\ what[d].role = "embedding"),
         \A e \in Ids \ {d} : status[e] = "running" => status'[e] = "running",
         \/ status'[d] = "running"
         \/ \E f \in flows' : f.d = d /\ f.step = "recheck"
         \/ ~ Linked(d)',
         \A f \in flows : f.step \in {"fail", "recheck"} => f \in flows',
         torn \subseteq torn', \A g \in flows' : g \in flows \/ Knows(g)
  PROVE  LinkInv'
<1>1. LinksHaveRoles'
  BY DEF LinksHaveRoles, LinkInv, RowsStay, RowStays
<1>2. BoundToLiveNims'
  <2> SUFFICES ASSUME NEW e \in Ids, config' = e \/ \E p \in Projects : <<p, e>> \in bound'
               PROVE  \/ status'[e] = "running" \/ e \in torn'
                      \/ \E f \in flows' : f.d = e /\ f.step \in {"fail", "recheck"}
    BY DEF BoundToLiveNims
  <2>1. CASE e = d
    BY <2>1 DEF Linked
  <2>2. CASE e # d
    <3>1. config = e \/ \E p \in Projects : <<p, e>> \in bound
      BY <2>2
    <3> QED
      BY <2>2, <3>1 DEF LinkInv, BoundToLiveNims
  <2> QED
    BY <2>1, <2>2
<1> QED
  BY <1>1, <1>2, KnowsOn DEF LinkInv

LEMMA LinksOfRequests ==
  ASSUME LockInv, LinkInv, RowsStay, Request \/ Recover
  PROVE  LinkInv'
<1> SUFFICES ASSUME NEW n,
                    flows' = flows \cup {n}, UNCHANGED <<status, links, torn>>, Knows(n)
             PROVE  LinkInv'
  <2>1. ASSUME NEW d \in Ids, RequestStop(d) PROVE LinkInv'
    <3> DEFINE n == [At("stop", d, "task") EXCEPT !.named = ByName(d)]
    <3>1. n.step = "stop"
      BY DEF At
    <3>2. flows' = flows \cup {n} /\ UNCHANGED <<status, links, torn>>
      BY <2>1 DEF RequestStop, rows, marks
    <3> HIDE DEF n
    <3> QED
      BY <3>1, <3>2 DEF Knows
  <2>2. ASSUME NEW p \in Projects, NEW d \in Ids, Reuse(p, d) PROVE LinkInv'
    <3> DEFINE n == [At("attach", d, "task") EXCEPT !.kind.owner = p]
    <3>1. status[d] = "running" /\ what[d].role = "teacher" /\ what[d] \in Kind
      BY <2>2 DEF Reuse, LockInv, RowsAreKnown
    <3>2. n.step = "attach" /\ n.d = d /\ n.kind.role = "teacher"
      BY <3>1 DEF At, Kind
    <3>3. flows' = flows \cup {n} /\ UNCHANGED <<status, links, torn>>
      BY <2>2 DEF Reuse, rows, marks
    <3> HIDE DEF n
    <3> QED
      BY <3>1, <3>2, <3>3 DEF Knows
  <2>3. ASSUME NEW d \in todo, RecoverNext(d) PROVE LinkInv'
    <3> DEFINE s == IF IsStudent(what[d]) THEN "purge" ELSE "inspect"
               n == [At(s, d, "startup") EXCEPT !.named = ByName(d)]
    <3>1. n.kind = what[d] /\ n.step = (IF IsStudent(what[d]) THEN "purge" ELSE "inspect")
      BY DEF At
    <3>2. flows' = flows \cup {n} /\ UNCHANGED <<status, links, torn>>
      BY <2>3 DEF RecoverNext, rows, marks
    <3> HIDE DEF n
    <3> QED
      BY <3>1, <3>2 DEF Knows
  <2>4. ASSUME NEW k \in Kind, NEW m \in {"place", "replace"}, RequestDeploy(k, m) PROVE LinkInv'
    <3> DEFINE n == [step |-> "lock", mode |-> m, d |-> 0, kind |-> k, v |-> {}, named |-> {}]
    <3>1. /\ flows' = flows \cup {n} /\ UNCHANGED <<status, links, torn>> /\ n.step = "lock"
      BY <2>4 DEF RequestDeploy, rows, marks
    <3> HIDE DEF n
    <3> QED
      BY <3>1 DEF Knows
  <2> QED
    BY <2>1, <2>2, <2>3, <2>4 DEF Request, Recover
<1>1. LinksStand({})
  BY DEF LinksStand, NoneLinked, links, marks
<1> QED
  BY <1>1, LinkKeeps

LEMMA LinksOfDeployments ==
  ASSUME LockInv, LinkInv, RowsStay, NEW f \in flows,
         Acquire(f) \/ Evict(f) \/ EvictRaises(f) \/ Stamp(f) \/ Reserve(f) \/ Run(f)
  PROVE  LinkInv'
<1>1. CASE Acquire(f)
  <2>1. PICK n \in Ids, g \in Flow : Acquired(f, n, g)
    BY <1>1, Acquires
  <2>2. LinksStand({})
    BY <2>1 DEF Acquired, LinksStand, NoneLinked, rows, links, marks
  <2>3. \A h \in flows' : h \in flows \/ Knows(h)
    BY <2>1 DEF Acquired, Knows
  <2> QED
    BY <2>2, <2>3, LinkKeeps
<1>2. CASE Evict(f) \/ EvictRaises(f) \/ Stamp(f) \/ Reserve(f)
  <2> DEFINE t == Foremost(f.v)
             w == f.v \ {t}
             e == [To(f, "stamp") EXCEPT !.named = {}]
  <2>1. /\ f \in Flow /\ f.d \in Ids /\ f.v \subseteq Ids /\ f.named \subseteq Ids
        /\ HoldsLock(f) /\ f.step \in {"reserve"} \cup EvictSteps
        /\ f.step # "reserve" => t \in Ids
    BY <1>2, FlowWithId, Evicting DEF Evict, EvictRaises, Stamp, Reserve, HoldsLock
  <2>2. PICK n : flows' = (flows \ {f}) \cup {n} /\ n \in {e, EvictNext(f, w), To(f, "preflight")}
    BY <1>2 DEF Evict, EvictRaises, Stamp, Reserve, Then
  <2>3. n.step \in {"reserve", "preflight"} \cup EvictSteps
    <3>1. e.step = "stamp" /\ To(f, "preflight").step = "preflight"
      BY <2>1 DEF To, Flow
    <3>2. EvictNext(f, w).step \in {"reserve"} \cup EvictSteps
      BY <2>1, EvictsNext
    <3> QED
      BY <2>2, <3>1, <3>2
  <2>4. \A h \in flows' : h \in flows \/ Knows(h)
    BY <2>2, <2>3 DEF Knows
  <2> HIDE DEF t
  <2>5. CASE /\ f.step # "reserve" /\ status' = [status EXCEPT ![t] = "stopped"]
             /\ Detached({t}) /\ UNCHANGED torn
    <3>1. NoneLinked({t})
      BY <2>1, <2>5, Detaches
    <3>2. LinksStand({t})
      BY <2>1, <2>2, <2>5, <3>1 DEF LinksStand, LockInv, TypeOK, NimTypeOK
    <3> QED
      BY <2>1, <2>4, <2>5, <3>2, LinkKeeps
  <2>6. CASE /\ UNCHANGED links /\ torn \subseteq torn'
             /\ \A d \in Ids : status[d] = "running" => status'[d] = "running" \/ d \in torn'
    <3>1. LinksStand({})
      BY <2>1, <2>2, <2>6 DEF LinksStand, NoneLinked, links
    <3> QED
      BY <2>4, <3>1, LinkKeeps
  <2>7. CASE Evict(f)
    BY <2>5, <2>7 DEF Evict, Stopped, t
  <2>8. CASE EvictRaises(f)
    <3>1. f.step = "evict" /\ (Spared(t, f.named) \/ HalfStopped(t, f.named))
      BY <2>8 DEF EvictRaises, t
    <3>2. CASE Spared(t, f.named)
      BY <2>6, <3>2 DEF Spared
    <3>3. CASE HalfStopped(t, f.named)
      <4>1. /\ status' = [status EXCEPT ![t] = "stopped"]
            /\ \/ Detached({t}) /\ UNCHANGED torn
               \/ torn' = torn \cup {t} /\ UNCHANGED links
        BY <3>3 DEF HalfStopped
      <4> QED
        BY <2>5, <2>6, <3>1, <4>1 DEF LockInv, TypeOK, NimTypeOK
    <3> QED
      BY <3>1, <3>2, <3>3
  <2>9. CASE Stamp(f)
    BY <2>6, <2>9 DEF Stamp, marks
  <2>10. CASE Reserve(f)
    <3>1. status[f.d] = "none"
      BY <2>1, HoldersAreAlone
    <3> QED
      BY <2>6, <2>10, <3>1 DEF Reserve, marks, LockInv, TypeOK, NimTypeOK
  <2> QED
    BY <1>2, <2>7, <2>8, <2>9, <2>10
<1>3. CASE Run(f)
  <2>1. f \in Flow /\ f.d \in Ids /\ (HoldsLock(f) <=> status[f.d] = "none") /\ f.step = "run"
    BY <1>3, FlowWithId DEF Run
  <2>2. /\ flows' = (flows \ {f}) \cup OnceStarted(f) /\ UNCHANGED <<links, torn>>
        /\ status' = IF Lifecycle(f) THEN [status EXCEPT ![f.d] = "starting"] ELSE status
    BY <1>3 DEF Run, Then, marks
  <2>3. \A h \in OnceStarted(f) : h.step \in {"undo", "poll", "watch"}
    BY <2>1, Goes DEF OnceStarted, At, Steps
  <2>4. LinksStand({})
    BY <2>1, <2>2 DEF LinksStand, NoneLinked, links, HoldsLock, LockInv, TypeOK, NimTypeOK, marks
  <2>5. \A h \in flows' : h \in flows \/ Knows(h)
    BY <2>2, <2>3 DEF Knows
  <2> QED
    BY <2>4, <2>5, LinkKeeps
<1> QED
  BY <1>1, <1>2, <1>3

LEMMA LinksOfPromotions ==
  ASSUME LockInv, LinkInv, RowsStay, NEW f \in flows,
         PollHealthy(f) \/ InspectHealthy(f) \/ VerifyPasses(f) \/ Register(f) \/ Attach(f)
  PROVE  LinkInv'
<1>1. /\ f.step \in {"poll", "inspect", "verify", "register", "attach"}
      /\ f \in Flow /\ f.kind \in Kind /\ f.kind.owner \in Projects /\ f.d \in Ids /\ f.d # 0
      /\ status[f.d] # "none" /\ what[f.d].role = f.kind.role
      /\ f.step \in {"verify", "register", "attach"} => f.kind.role = "teacher"
      /\ f.step = "attach" => status[f.d] \in {"running", "failed", "stopped"}
  <2>1. f.step \in {"poll", "inspect", "verify", "register", "attach"}
    BY DEF PollHealthy, InspectHealthy, VerifyPasses, Register, Attach
  <2>2. /\ f \in Flow /\ f.kind \in Kind /\ f.d \in Ids /\ f.d # 0
        /\ status[f.d] # "none" /\ what[f.d].role = f.kind.role
    BY <2>1, FlowWithId DEF HoldsLock
  <2> QED
    BY <2>1, <2>2, KindFields DEF LinkInv, FlowsKnowTheirNim
<1>2. /\ To(f, "verify").step = "verify" /\ To(f, "verify").kind = f.kind
      /\ To(f, "register").step = "register" /\ To(f, "register").kind = f.kind
      /\ To(f, "recheck").step = "recheck" /\ To(f, "recheck").kind = f.kind
      /\ To(f, "recheck").d = f.d
  BY <1>1, Goes DEF Steps
<1>3. CASE /\ f.kind.role = "teacher" /\ UNCHANGED <<status, links, torn>>
           /\ flows' = (flows \ {f}) \cup {To(f, "verify")}
           /\ f.step \in {"poll", "inspect"}
  <2>1. LinksStand({})
    BY <1>3 DEF LinksStand, NoneLinked, links, marks
  <2>2. \A h \in flows' : h \in flows \/ Knows(h)
    BY <1>2, <1>3 DEF Knows
  <2> QED
    BY <2>1, <2>2, LinkKeeps
<1>4. CASE /\ Promoted(f) /\ UNCHANGED <<bound, torn>>
           /\ flows' = flows \ {f} \/ flows' = (flows \ {f}) \cup {To(f, "register")}
           /\ f.kind.role # "teacher" => flows' = flows \ {f}
           /\ f.step \in {"poll", "inspect", "verify"}
  <2>1. \A h \in flows' : h \in flows \/ Knows(h)
    BY <1>2, <1>4 DEF Knows
  <2>2. \A e \in Ids : status[e] = "running" => status'[e] = "running"
    BY <1>4 DEF Promoted
  <2>3. CASE Promotable(f) /\ f.kind.role = "embedding"
    <3>1. config' = f.d /\ status'[f.d] = "running"
      BY <1>1, <1>4, <2>3 DEF Promoted, LockInv, TypeOK, NimTypeOK
    <3> QED
      BY <1>1, <1>4, <2>1, <2>2, <2>3, <3>1, LinksGrow
  <2>4. CASE ~ (Promotable(f) /\ f.kind.role = "embedding")
    <3>1. config' = config
      BY <1>4, <2>4 DEF Promoted
    <3>2. LinksStand({})
      BY <1>4, <2>2, <3>1 DEF LinksStand, NoneLinked
    <3> QED
      BY <2>1, <3>2, LinkKeeps
  <2> QED
    BY <2>3, <2>4
<1>5. CASE PollHealthy(f) \/ InspectHealthy(f)
  <2>1. CASE f.kind.role = "teacher"
    BY <1>3, <1>5, <2>1 DEF PollHealthy, InspectHealthy, Healthy, Then, links, marks
  <2>2. CASE f.kind.role # "teacher"
    BY <1>4, <1>5, <2>2 DEF PollHealthy, InspectHealthy, Healthy, Then, marks
  <2> QED
    BY <2>1, <2>2
<1>6. CASE VerifyPasses(f)
  <2>1. f.kind.role = "teacher" /\ f.step = "verify"
    BY <1>1, <1>6 DEF VerifyPasses
  <2> QED
    BY <1>4, <1>6, <2>1 DEF VerifyPasses, Then, marks
<1>7. CASE Register(f)
  <2>1. /\ flows' = flows \ {f} /\ UNCHANGED <<status, config, torn>> /\ f.step = "register"
    BY <1>7 DEF Register, Then, rows, marks
  <2>2. PICK C \in SUBSET Projects :
          bound' = IF StillRuns(f.d) THEN bound \cup ((C \cup {f.kind.owner}) \X {f.d}) ELSE bound
    BY <1>7 DEF Register
  <2>3. CASE StillRuns(f.d)
    <3>1. \A e \in Ids, p \in Projects : <<p, e>> \in bound' /\ e # f.d => <<p, e>> \in bound
      BY <2>2
    <3>2. status'[f.d] = "running" /\ what[f.d].role = "teacher"
      BY <1>1, <2>1, <2>3 DEF StillRuns
    <3> QED
      BY <1>1, <2>1, <3>1, <3>2, LinksGrow
  <2>4. CASE ~ StillRuns(f.d)
    <3>1. LinksStand({})
      BY <2>1, <2>2, <2>4 DEF LinksStand, NoneLinked
    <3> QED
      BY <2>1, <3>1, LinkKeeps
  <2> QED
    BY <2>3, <2>4
<1>8. CASE Attach(f)
  <2>1. /\ flows' = (flows \ {f}) \cup {To(f, "recheck")} /\ UNCHANGED <<status, config, torn>>
        /\ bound' = bound \cup {<<f.kind.owner, f.d>>} /\ f.step = "attach"
    BY <1>8 DEF Attach, Then, rows, marks
  <2>2. \A h \in flows' : h \in flows \/ Knows(h)
    BY <1>1, <1>2, <2>1 DEF Knows
  <2>3. \A e \in Ids, p \in Projects : <<p, e>> \in bound' /\ e # f.d => <<p, e>> \in bound
    BY <2>1
  <2> QED
    BY <1>1, <1>2, <2>1, <2>2, <2>3, LinksGrow
<1> QED
  BY <1>5, <1>6, <1>7, <1>8


\* A flow goes on, or leaves, and the links are as they were.
LEMMA LinksUntouched ==
  ASSUME LockInv, LinkInv, RowsStay, NEW f \in flows, NEW G,
         flows' = (flows \ {f}) \cup G, UNCHANGED links, torn \subseteq torn',
         f.step \notin {"fail", "recheck"}, \A g \in G : Knows(g),
         \A d \in Ids : status[d] = "running" =>
           \/ status'[d] = "running" \/ ~ Linked(d)
           \/ \E g \in G : g.d = d /\ g.step = "fail"
  PROVE  LinkInv'
<1>1. LinksStand({})
  BY DEF LinksStand, NoneLinked, links, marks
<1> QED
  BY <1>1, LinkKeeps

\* A flow ends its deployment and cuts the links.
LEMMA LinksCut ==
  ASSUME LockInv, LinkInv, RowsStay, NEW f \in flows, NEW G, f.d \in Ids,
         flows' = (flows \ {f}) \cup G, Detached({f.d}), UNCHANGED torn,
         \A g \in G : g.step = "lock",
         \A d \in Ids \ {f.d} : status'[d] = status[d]
  PROVE  LinkInv'
<1>1. NoneLinked({f.d})
  BY Detaches
<1>2. LinksStand({f.d})
  BY <1>1 DEF LinksStand
<1>3. \A g \in flows' : g \in flows \/ Knows(g)
  BY DEF Knows
<1> QED
  BY <1>2, <1>3, LinkKeeps

LEMMA LinksOfFlows ==
  ASSUME LockInv, LinkInv, RowsStay, NEW f \in flows,
         \/ Refuse(f) \/ PreflightPasses(f) \/ Remove(f) \/ Undo(f) \/ PollGivesUp(f)
         \/ VerifyFails(f) \/ FailDone(f) \/ StopDone(f) \/ Recheck(f) \/ InspectStarting(f)
         \/ InspectUnhealthy(f) \/ Drop(f) \/ InspectGone(f)
  PROVE  LinkInv'
<1>1. CASE Refuse(f)
  <2> DEFINE G == {}
  <2>1. /\ flows' = (flows \ {f}) \cup G /\ UNCHANGED <<status, links, torn>>
        /\ f.step \notin {"fail", "recheck"}
    BY <1>1 DEF Refuse, Then, rows, marks
  <2>2. \A g \in G : Knows(g)
    OBVIOUS
  <2> HIDE DEF G
  <2> QED
    BY <2>1, <2>2, LinksUntouched
<1>2. CASE PreflightPasses(f)
  <2> DEFINE G == IF StillReserved(f) THEN {To(f, "remove")} ELSE {}
  <2>1. /\ flows' = (flows \ {f}) \cup G /\ UNCHANGED <<status, links, torn>>
        /\ f.step \notin {"fail", "recheck"}
    BY <1>2 DEF PreflightPasses, Then, rows, marks
  <2>2. \A g \in G : Knows(g)
    BY <1>2, FlowWithId, Goes DEF PreflightPasses, Knows, Steps
  <2> HIDE DEF G
  <2> QED
    BY <2>1, <2>2, LinksUntouched
<1>3. CASE Remove(f)
  <2> DEFINE G == {To(f, "run")}
  <2>1. /\ flows' = (flows \ {f}) \cup G /\ UNCHANGED <<status, links, torn>>
        /\ f.step \notin {"fail", "recheck"}
    BY <1>3 DEF Remove, Then, rows, marks
  <2>2. \A g \in G : Knows(g)
    BY <1>3, FlowWithId, Goes DEF Remove, Knows, Steps
  <2> HIDE DEF G
  <2> QED
    BY <2>1, <2>2, LinksUntouched
<1>4. CASE Undo(f)
  <2> DEFINE G == {}
  <2>1. /\ flows' = (flows \ {f}) \cup G /\ UNCHANGED <<status, links, torn>>
        /\ f.step \notin {"fail", "recheck"}
    BY <1>4 DEF Undo, Then, rows, marks
  <2>2. \A g \in G : Knows(g)
    OBVIOUS
  <2> HIDE DEF G
  <2> QED
    BY <2>1, <2>2, LinksUntouched
<1>5. CASE InspectStarting(f)
  <2> DEFINE G == Resumed(f)
  <2>1. /\ flows' = (flows \ {f}) \cup G /\ UNCHANGED <<status, links, torn>>
        /\ f.step \notin {"fail", "recheck"}
    BY <1>5 DEF InspectStarting, Then, rows, marks
  <2>2. \A g \in G : Knows(g)
    BY <1>5, FlowWithId, Resumes DEF InspectStarting, Knows, Steps
  <2> HIDE DEF G
  <2> QED
    BY <2>1, <2>2, LinksUntouched
<1>6. CASE InspectUnhealthy(f)
  <2> DEFINE G == {To(f, "drop")}
  <2>1. /\ flows' = (flows \ {f}) \cup G /\ UNCHANGED <<status, links, torn>>
        /\ f.step \notin {"fail", "recheck"}
    BY <1>6 DEF InspectUnhealthy, Then, rows, marks
  <2>2. \A g \in G : Knows(g)
    BY <1>6, FlowWithId, Goes DEF InspectUnhealthy, Knows, Steps
  <2> HIDE DEF G
  <2> QED
    BY <2>1, <2>2, LinksUntouched
<1>7. CASE PollGivesUp(f)
  <2> DEFINE G == IF status' = status THEN {} ELSE {TearsDown(f, "fail")}
  <2>1. /\ f.step \notin {"fail", "recheck"} /\ f.d \in Ids /\ UNCHANGED <<links, torn>>
        /\ TearsDown(f, "fail").step = "fail" /\ TearsDown(f, "fail").d = f.d
    BY <1>7, FlowWithId, GoesTearing DEF PollGivesUp, Steps, marks
  <2>2. /\ flows' = (flows \ {f}) \cup G
        /\ status' = status \/ status' = [status EXCEPT ![f.d] = "failed"]
    BY <1>7, <2>1 DEF PollGivesUp, MarkedFailed, Then, LockInv, TypeOK, NimTypeOK
  <2>3. \A g \in G : Knows(g)
    BY <2>1, <2>2 DEF Knows, LockInv, TypeOK, NimTypeOK
  <2>4. \A d \in Ids : status[d] = "running" =>
          status'[d] = "running" \/ \E g \in G : g.d = d /\ g.step = "fail"
    <3>1. CASE status' = status
      BY <3>1
    <3>2. CASE status' # status
      BY <2>1, <2>2, <3>2 DEF LockInv, TypeOK, NimTypeOK
    <3> QED
      BY <3>1, <3>2
  <2> HIDE DEF G
  <2> QED
    BY <2>1, <2>2, <2>3, <2>4, LinksUntouched
<1>8. CASE VerifyFails(f)
  <2> DEFINE G == IF status' = status THEN {} ELSE {TearsDown(f, "fail")}
  <2>1. /\ f.step \notin {"fail", "recheck"} /\ f.d \in Ids /\ UNCHANGED <<links, torn>>
        /\ TearsDown(f, "fail").step = "fail" /\ TearsDown(f, "fail").d = f.d
    BY <1>8, FlowWithId, GoesTearing DEF VerifyFails, Steps, marks
  <2>2. /\ flows' = (flows \ {f}) \cup G
        /\ status' = status \/ status' = [status EXCEPT ![f.d] = "failed"]
    BY <1>8, <2>1 DEF VerifyFails, MarkedFailed, Then, LockInv, TypeOK, NimTypeOK
  <2>3. \A g \in G : Knows(g)
    BY <2>1, <2>2 DEF Knows, LockInv, TypeOK, NimTypeOK
  <2>4. \A d \in Ids : status[d] = "running" =>
          status'[d] = "running" \/ \E g \in G : g.d = d /\ g.step = "fail"
    <3>1. CASE status' = status
      BY <3>1
    <3>2. CASE status' # status
      BY <2>1, <2>2, <3>2 DEF LockInv, TypeOK, NimTypeOK
    <3> QED
      BY <3>1, <3>2
  <2> HIDE DEF G
  <2> QED
    BY <2>1, <2>2, <2>3, <2>4, LinksUntouched
<1>9. CASE FailDone(f)
  <2> DEFINE G == Restored(f.d)
  <2>1. /\ f.d \in Ids /\ flows' = (flows \ {f}) \cup G /\ Detached({f.d}) /\ UNCHANGED torn
        /\ \A d \in Ids \ {f.d} : status'[d] = status[d]
    BY <1>9, FlowWithId DEF FailDone, rows, Then, LockInv, TypeOK, NimTypeOK, marks
  <2>2. \A g \in G : g.step = "lock"
    BY <2>1, Restores DEF LockInv
  <2> HIDE DEF G
  <2> QED
    BY <2>1, <2>2, LinksCut
<1>10. CASE StopDone(f)
  <2> DEFINE G == {}
  <2>1. /\ f.d \in Ids /\ flows' = (flows \ {f}) \cup G /\ Detached({f.d}) /\ UNCHANGED torn
        /\ \A d \in Ids \ {f.d} : status'[d] = status[d]
    BY <1>10, FlowWithId DEF StopDone, Stopped, Then, LockInv, TypeOK, NimTypeOK
  <2>2. \A g \in G : g.step = "lock"
    OBVIOUS
  <2> HIDE DEF G
  <2> QED
    BY <2>1, <2>2, LinksCut
<1>11. CASE Recheck(f)
  <2>1. /\ f.d \in Ids /\ flows' = (flows \ {f}) \cup {} /\ UNCHANGED <<status, torn>>
        /\ f.step = "recheck"
    BY <1>11, FlowWithId DEF Recheck, Then, rows, marks
  <2>2. CASE StillRuns(f.d)
    <3>1. UNCHANGED links /\ status'[f.d] = "running"
      BY <1>11, <2>1, <2>2 DEF Recheck, StillRuns
    <3>2. /\ config' = config
          /\ \A e \in Ids, p \in Projects : <<p, e>> \in bound' <=> <<p, e>> \in bound
      BY <3>1 DEF links, marks
    <3>3. LinksHaveRoles'
      BY <3>2, <2>1 DEF LinkInv, LinksHaveRoles, RowsStay, RowStays
    <3>4. FlowsKnowTheirNim'
      BY <2>1, KnowsOn
    <3>5. BoundToLiveNims'
      BY <2>1, <3>1, <3>2 DEF LinkInv, BoundToLiveNims
    <3> QED
      BY <3>3, <3>4, <3>5 DEF LinkInv
  <2>3. CASE ~ StillRuns(f.d)
    BY <1>11, <2>1, <2>3, LinksCut DEF Recheck
  <2> QED
    BY <2>2, <2>3
<1>12. CASE Drop(f)
  <2> DEFINE G == Restored(f.d)
  <2>1. /\ f.d \in Ids /\ flows' = (flows \ {f}) \cup G /\ Detached({f.d}) /\ UNCHANGED torn
        /\ \A d \in Ids \ {f.d} : status'[d] = status[d]
    BY <1>12, FlowWithId DEF Drop, Stopped, Then, LockInv, TypeOK, NimTypeOK
  <2>2. \A g \in G : g.step = "lock"
    BY <2>1, Restores DEF LockInv
  <2> HIDE DEF G
  <2> QED
    BY <2>1, <2>2, LinksCut
<1>13. CASE InspectGone(f)
  <2> DEFINE G == Restored(f.d)
  <2>1. /\ f.d \in Ids /\ flows' = (flows \ {f}) \cup G /\ Detached({f.d}) /\ UNCHANGED torn
        /\ \A d \in Ids \ {f.d} : status'[d] = status[d]
    BY <1>13, FlowWithId DEF InspectGone, Then, LockInv, TypeOK, NimTypeOK
  <2>2. \A g \in G : g.step = "lock"
    BY <2>1, Restores DEF LockInv
  <2> HIDE DEF G
  <2> QED
    BY <2>1, <2>2, LinksCut
<1> QED
  BY <1>1, <1>2, <1>3, <1>4, <1>5, <1>6, <1>7, <1>8, <1>9, <1>10, <1>11, <1>12, <1>13

LEMMA LinksOfStudents ==
  ASSUME LockInv, LinkInv, RowsStay, NEW f \in flows, StudentFlow(f)
  PROVE  LinkInv'
<1>1. CASE Prepare(f)
  <2>1. PICK G \in SUBSET {To(f, "lock")} : flows' = (flows \ {f}) \cup G
    BY <1>1 DEF Prepare, Then
  <2>2. UNCHANGED <<status, links, torn>> /\ f.step \notin {"fail", "recheck"}
    BY <1>1 DEF Prepare, rows, marks
  <2>3. \A g \in G : Knows(g)
    BY FlowFields, Goes DEF Knows, Steps, LockInv, TypeOK, NimTypeOK
  <2> QED
    BY <2>1, <2>2, <2>3, LinksUntouched
<1>2. CASE StudentDeployFails(f)
  <2> DEFINE G == IF f.mode = "student" THEN Returned(f.d)
                  ELSE IF f.mode # "return" /\ StillReserved(f) THEN Restored(f.d) ELSE {}
  <2>1. /\ f.step \in {"preflight", "run"} /\ flows' = (flows \ {f}) \cup G
        /\ status' = IF StillReserved(f) THEN [status EXCEPT ![f.d] = "failed"] ELSE status
        /\ UNCHANGED <<links, torn>>
    BY <1>2 DEF StudentDeployFails, DeployFails, Then
  <2>2. f.d \in Ids /\ (HoldsLock(f) <=> status[f.d] = "none")
    BY <2>1, FlowWithId
  <2>3. \A g \in G : Knows(g)
    BY <2>2, Restores DEF LockInv, Knows
  <2>4. StillReserved(f) => status[f.d] # "running"
    BY <2>1, <2>2 DEF StillReserved, HoldsLock, Lifecycle, Queued, LockInv, ModesAgree
  <2>5. \A d \in Ids : status[d] = "running" => status'[d] = "running"
    BY <2>1, <2>4
  <2> HIDE DEF G
  <2> QED
    BY <2>1, <2>3, <2>5, LinksUntouched
<1>3. CASE WatchRuns(f) \/ WatchEnds(f) \/ StageFails(f) \/ StagesPass(f)
  <2> DEFINE T == {To(f, "stages"), TearsDown(f, "quit"), TearsDown(f, "close")}
  <2>1. PICK G \in SUBSET (T \cup Returned(f.d)) : flows' = (flows \ {f}) \cup G
    BY <1>3 DEF WatchRuns, WatchEnds, StageFails, StagesPass, Leave, Then
  <2>2. UNCHANGED <<status, links, torn>> /\ f.step \in {"watch", "stages"}
    BY <1>3 DEF WatchRuns, WatchEnds, StageFails, StagesPass, rows, marks
  <2>3. f \in Flow /\ f.d \in Ids
    BY <2>2, FlowWithId
  <2>4. \A g \in T : g.step \in {"stages", "quit", "close"}
    BY <2>3, Goes, GoesTearing DEF Steps
  <2>5. \A g \in Returned(f.d) : g.step = "lock"
    BY <2>3, Restores DEF LockInv
  <2>6. \A g \in G : Knows(g)
    BY <2>4, <2>5 DEF Knows
  <2> QED
    BY <2>1, <2>2, <2>6, LinksUntouched
<1>4. CASE Close(f)
  <2> DEFINE G == Returned(f.d)
  <2>1. /\ f.d \in Ids /\ flows' = (flows \ {f}) \cup G /\ Detached({f.d}) /\ UNCHANGED torn
        /\ \A d \in Ids \ {f.d} : status'[d] = status[d]
    BY <1>4, FlowWithId DEF Close, Stopped, Then, LockInv, TypeOK, NimTypeOK
  <2>2. \A g \in G : g.step = "lock"
    BY <2>1, Restores DEF LockInv
  <2> HIDE DEF G
  <2> QED
    BY <2>1, <2>2, LinksCut
<1>5. CASE Quit(f)
  <2> DEFINE G == Returned(f.d)
  <2>1. /\ f.d \in Ids /\ flows' = (flows \ {f}) \cup G /\ Detached({f.d}) /\ UNCHANGED torn
        /\ \A d \in Ids \ {f.d} : status'[d] = status[d]
    BY <1>5, FlowWithId DEF Quit, Stopped, Then, LockInv, TypeOK, NimTypeOK
  <2>2. \A g \in G : g.step = "lock"
    BY <2>1, Restores DEF LockInv
  <2> HIDE DEF G
  <2> QED
    BY <2>1, <2>2, LinksCut
<1>6. CASE Interrupted(f)
  <2>1. f.step = "purge" /\ f.d \in Ids /\ UNCHANGED links /\ torn \subseteq torn'
    BY <1>6, FlowWithId DEF Interrupted, Purge, PurgeUnconfirmed, marks
  <2>2. PICK G \in SUBSET Restored(f.d) : flows' = (flows \ {f}) \cup G
    BY <1>6 DEF Interrupted, Purge, PurgeUnconfirmed, Then
  <2>3. \A g \in G : Knows(g)
    BY <2>1, Restores DEF LockInv, Knows
  <2>4. ~ Linked(f.d)
    BY <2>1, FlowWithId DEF LinkInv, LinksHaveRoles, FlowsKnowTheirNim, IsStudent, Linked
  <2>5. \A d \in Ids \ {f.d} : status'[d] = status[d]
    BY <1>6 DEF Interrupted, Purge, PurgeUnconfirmed, rows, LockInv, TypeOK, NimTypeOK, marks
  <2> QED
    BY <2>1, <2>2, <2>3, <2>4, <2>5, LinksUntouched
<1> QED
  BY <1>1, <1>2, <1>3, <1>4, <1>5, <1>6 DEF StudentFlow

LEMMA LinkInit == Init => LinkInv
<1> SUFFICES ASSUME Init PROVE LinkInv
  OBVIOUS
<1>1. 1 \in Ids /\ 0 \notin Ids
  BY BoundsAssumption DEF Ids
<1>2. LinksHaveRoles /\ BoundToLiveNims
  <2>1. CASE bound = {} /\ config = 0
    BY <1>1, <2>1 DEF LinksHaveRoles, BoundToLiveNims
  <2>2. ASSUME NEW k \in Kind,
               /\ what = [d \in Ids |-> IF d = 1 THEN k ELSE Unused]
               /\ status = [Nothing EXCEPT ![1] = "running"]
               /\ bound = IF k.role = "teacher" THEN {<<k.owner, 1>>} ELSE {}
               /\ config = IF k.role = "embedding" THEN 1 ELSE 0
        PROVE  LinksHaveRoles /\ BoundToLiveNims
    <3>1. what[1] = k /\ status[1] = "running"
      BY <1>1, <2>2 DEF Nothing
    <3>2. /\ config = 1 => k.role = "embedding"
          /\ config \in {0, 1}
          /\ \A d \in Ids, p \in Projects : <<p, d>> \in bound => d = 1 /\ k.role = "teacher"
      BY <2>2
    <3> QED
      BY <1>1, <3>1, <3>2 DEF LinksHaveRoles, BoundToLiveNims
  <2> QED
    BY <2>1, <2>2 DEF Init, NimInit
<1> QED
  BY <1>2 DEF LinkInv, FlowsKnowTheirNim, Init, NimInit

LEMMA LinkStep == LockInv /\ LinkInv /\ [Next]_vars => LinkInv'
<1> SUFFICES ASSUME LockInv, LinkInv, [Next]_vars PROVE LinkInv'
  OBVIOUS
<1>1. RowsStay
  BY RowsOnlyEnd
<1>2. CASE Request \/ Recover
  BY <1>1, <1>2, LinksOfRequests
<1>3. CASE \/ Docker \/ UNCHANGED vars
           \/ \E p \in Projects, g \in Gpus : DeployNim(p, g)
  <2>1. LinksStand({})
    BY <1>3
    DEF Docker, Load, Exit, DeployNim, vars, nimVars, LinksStand, NoneLinked, rows, links, marks
  <2>2. \A g \in flows' : g \in flows \/ g.step = "prepare"
    BY <1>3 DEF Docker, Load, Exit, DeployNim, vars, nimVars
  <2> QED
    BY <1>1, <2>1, <2>2, LinkKeeps DEF Knows
<1>4. ASSUME NEW f \in flows, NimFlow(f) PROVE LinkInv'
  BY <1>1, <1>4, LinksOfFlows, LinksOfDeployments, LinksOfPromotions DEF NimFlow
<1>5. ASSUME NEW f \in flows, StudentFlow(f) PROVE LinkInv'
  BY <1>1, <1>5, LinksOfStudents
<1>6. CASE CrashRestart
  <2>1. /\ flows' = {} /\ UNCHANGED <<status, links>>
        /\ \A f \in flows : f.d \in Ids /\ ~ Active(f.d) => f.d \in torn'
    BY <1>6 DEF CrashRestart, Crash
  <2>2. torn \subseteq torn'
    BY <1>6 DEF CrashRestart, Crash
  <2>3. LinksHaveRoles'
    BY <1>1, <2>1 DEF LinkInv, LinksHaveRoles, RowsStay, RowStays, links, marks
  <2>4. ASSUME NEW f \in flows, f.step \in {"fail", "recheck"}, status[f.d] # "running"
        PROVE  f.d \in torn'
    BY <2>1, <2>4, FlowWithId DEF LinkInv, FlowsKnowTheirNim, Active, Terminal
  <2>5. BoundToLiveNims'
    BY <2>1, <2>2, <2>4 DEF LinkInv, BoundToLiveNims, links, marks
  <2> QED
    BY <2>1, <2>3, <2>5 DEF LinkInv, FlowsKnowTheirNim
<1> QED
  BY <1>2, <1>3, <1>4, <1>5, <1>6 DEF Next

\* Nobody is sent to a dead NIM, or somebody is about to put that right: an
\* endpoint created, reattached or reused, and the stamp on the embedding
\* configuration, race with failure, stop, eviction and recovery, each of which
\* reads the row at another moment than it writes (_on_healthy,
\* reuse_compatible_running_teacher).
THEOREM LinksCorrect == Spec => []BoundToLiveNims
<1>1. Init => LockInv /\ LinkInv
  BY LockInit, LinkInit
<1>2. LockInv /\ LinkInv /\ [Next]_vars => (LockInv /\ LinkInv)'
  BY LockStep, LinkStep
<1>3. LockInv /\ LinkInv => BoundToLiveNims
  BY DEF LinkInv
<1> QED
  BY <1>1, <1>2, <1>3, PTL DEF Spec

-----------------------------------------------------------------------------
(* The displaced.                                                          *)

\* A row, once there, is what it was to who displaced it and who waits for it.
LEMMA RowsRemain ==
  ASSUME LockInv, RowsStay, NEW d \in Ids, status[d] # "none"
  PROVE  /\ status'[d] # "none" /\ what'[d].gpu = what[d].gpu /\ what'[d].role = what[d].role
         /\ IsStudent(what'[d]) <=> IsStudent(what[d])
         /\ Terminal(d) => Terminal(d)'
         /\ HandedOn(d) => HandedOn(d)'
<1>1. RowStays(d)
  BY DEF RowsStay
<1>2. ASSUME HandedOn(d) PROVE HandedOn(d)'
  <2>1. PICK n \in Ids \ {d} : /\ n > d \/ n \in spared
                              /\ status[n] # "none" /\ what[n].gpu = what[d].gpu
    BY <1>2 DEF HandedOn
  <2>2. RowStays(n)
    BY <2>1 DEF RowsStay
  <2> QED
    BY <1>1, <2>1, <2>2 DEF HandedOn, RowsStay, RowStays
<1>3. Terminal(d) => Terminal(d)'
  BY <1>1 DEF RowStays, Terminal, Active
<1> QED
  BY <1>1, <1>2, <1>3 DEF RowStays, IsStudent

LEMMA DisplacedHaveRows ==
  ASSUME LockInv, NEW d \in Ids, NEW e \in Ids, by[e] = d
  PROVE  status[e] # "none"
<1>1. by[e] # 0
  BY BoundsAssumption DEF Ids
<1> QED
  BY <1>1 DEF LockInv, RowsAreKnown

\* A flow that was there is as sound as it was.
LEMMA SoundStays ==
  ASSUME LockInv, RowsStay, NEW f \in flows, Sound(f), todo' \subseteq todo,
         \A e \in Ids : by'[e] = f.d => by[e] = f.d
  PROVE  Sound(f)'
<1>1. f \in Flow /\ f.d \in Ids \cup {0} /\ f.v \subseteq Ids
  BY FlowFields DEF LockInv, TypeOK, NimTypeOK
<1>2. Undisturbed(f)' /\ RoleAgrees(f)'
  BY DEF Sound, Undisturbed, RoleAgrees, Replaces, Queued, IsStudent
<1>3. DisplacerAgrees(f)'
  <2> SUFFICES ASSUME f.d # 0, NEW e \in Ids, by'[e] = f.d
               PROVE  what'[e].gpu = f.kind.gpu /\ f.mode # "return"
    BY DEF DisplacerAgrees
  <2>1. what[e].gpu = f.kind.gpu /\ f.mode # "return"
    BY DEF Sound, DisplacerAgrees
  <2>2. status[e] # "none"
    BY <1>1, DisplacedHaveRows
  <2> QED
    BY <2>1, <2>2, RowsRemain
<1>4. RestorerAgrees(f)'
  <2> SUFFICES ASSUME f.step \notin EvictSteps
               PROVE  /\ \A d \in f.v : Terminal(d)' /\ what'[d].gpu = f.kind.gpu
                                        /\ (f.d # 0 => f.d > d)
                      /\ Replaces(f) => f.v = {}
    BY DEF RestorerAgrees, Replaces
  <2>1. \A d \in f.v : Terminal(d) /\ what[d].gpu = f.kind.gpu /\ (f.d # 0 => f.d > d)
    BY DEF Sound, RestorerAgrees
  <2>2. \A d \in f.v : d \in Ids /\ status[d] # "none"
    BY <1>1, <2>1 DEF Terminal
  <2> QED
    BY <2>1, <2>2, RowsRemain DEF Sound, RestorerAgrees
<1> QED
  BY <1>2, <1>3, <1>4 DEF Sound

\* A flow that goes on is sound as well.
Continues(f, g) ==
  /\ g.d = f.d /\ g.kind = f.kind /\ g.mode \in {f.mode, "task"} /\ g.v \in {f.v, {}}
  /\ f.step \notin EvictSteps /\ g.step \notin EvictSteps

LEMMA SoundOn ==
  ASSUME LockInv, RowsStay, NEW f \in flows, Sound(f), UNCHANGED by, todo' \subseteq todo,
         NEW g, Continues(f, g)
  PROVE  Sound(g)'
<1>1. Sound(f)'
  BY SoundStays
<1>2. g.d = f.d /\ g.kind = f.kind /\ (g.mode = f.mode \/ g.mode = "task")
      /\ (g.v = f.v \/ g.v = {}) /\ f.step \notin EvictSteps /\ g.step \notin EvictSteps
  BY DEF Continues
<1>3. Undisturbed(g)' /\ RoleAgrees(g)'
  BY <1>1, <1>2 DEF Sound, Undisturbed, RoleAgrees, Replaces, Queued
<1>4. DisplacerAgrees(g)'
  BY <1>1, <1>2 DEF Sound, DisplacerAgrees
<1>5. RestorerAgrees(g)'
  BY <1>1, <1>2 DEF Sound, RestorerAgrees, Replaces, Terminal
<1> QED
  BY <1>3, <1>4, <1>5 DEF Sound

\* So are the restorations that wait for one that has ended.
LEMMA SoundRestorers ==
  ASSUME LockInv, RowsStay, NEW d \in Ids, Terminal(d)',
         \A e \in Ids : by[e] = d => what'[d].gpu = what[e].gpu,
         NEW g \in Restored(d) \cup Returned(d), todo' \subseteq todo
  PROVE  Sound(g)'
<1>1. /\ g.step = "lock" /\ g.d = 0 /\ g.v = {d}
      /\ \E e \in Ids : by[e] = d /\ g.kind.gpu = what[e].gpu
      /\ (g.mode = "place" /\ ~ IsStudent(g.kind)) \/ g.mode = "return"
  BY Restores DEF LockInv
<1>2. 0 \notin todo'
  BY BoundsAssumption DEF LockInv, TypeOK, NimTypeOK, Ids
<1>3. Undisturbed(g)' /\ RoleAgrees(g)' /\ DisplacerAgrees(g)'
  BY <1>1, <1>2 DEF Undisturbed, RoleAgrees, DisplacerAgrees, Replaces, Queued, IsStudent
<1>4. RestorerAgrees(g)'
  BY <1>1 DEF RestorerAgrees, Replaces
<1> QED
  BY <1>3, <1>4 DEF Sound

\* What a flow that goes on, or ends, leaves of the rows.
Moves(f, G) ==
  /\ f.step \notin EvictSteps /\ flows' = (flows \ {f}) \cup G
  /\ UNCHANGED <<by, todo>> /\ torn \subseteq torn'
  /\ \A d \in Ids : d # f.d => status'[d] = status[d] /\ what'[d] = what[d]
  /\ f.d \in Ids /\ status[f.d] = "none" /\ status'[f.d] # "none" => what'[f.d] = f.kind

\* What a flow was to see to is seen to.
SeesTo(f, G) ==
  f.d \in Ids =>
    \A e \in Ids : by[e] = f.d /\ ~ IsStudent(what[e]) /\ Owes(f.d)'
                   /\ (Owes(f.d) => f.step \in Ending(f.d)) =>
      f.d \in torn' \/ \E g \in G : Settles(g, f.d)'

HandsOver(f, G) ==
  \A d \in f.v : HandedOn(d)' \/ \E g \in G : d \in g.v /\ g.step \notin EvictSteps

LEMMA OwedKeeps ==
  ASSUME LockInv, OwedInv, RowsStay, NEW f \in flows, NEW G, Moves(f, G),
         \A g \in G : Sound(g)', SeesTo(f, G), HandsOver(f, G)
  PROVE  OwedInv'
<1>1. /\ Sound(f) /\ f.d \in Ids \cup {0} /\ f.v \subseteq Ids /\ f.step \notin EvictSteps
      /\ flows' = (flows \ {f}) \cup G /\ UNCHANGED <<by, todo>> /\ torn \subseteq torn'
      /\ \A d \in Ids : d # f.d => status'[d] = status[d] /\ what'[d] = what[d]
  BY FlowFields DEF OwedInv, FlowsAreSound, LockInv, TypeOK, NimTypeOK, Moves
<1>2. TodoIsQuiet'
  <2>1. f.d \notin todo
    BY <1>1 DEF Sound, Undisturbed
  <2> QED
    BY <1>1, <2>1 DEF OwedInv, TodoIsQuiet, Active, LockInv, TypeOK, NimTypeOK
<1>3. FlowsAreSound'
  BY <1>1, SoundStays DEF OwedInv, FlowsAreSound
<1>4. DisplacersAgree'
  <2> SUFFICES ASSUME NEW d \in Ids, NEW e \in Ids, by[e] = d, status'[d] # "none"
               PROVE  what'[d].gpu = what'[e].gpu
    BY <1>1 DEF DisplacersAgree
  <2>1. what'[e].gpu = what[e].gpu
    BY DisplacedHaveRows, RowsRemain
  <2>2. CASE status[d] # "none"
    BY <2>1, <2>2, RowsRemain DEF OwedInv, DisplacersAgree
  <2>3. CASE status[d] = "none"
    <3>1. d = f.d /\ d # 0
      BY <1>1, <2>3, BoundsAssumption DEF Ids
    <3>2. what'[d] = f.kind
      BY <2>3, <3>1 DEF Moves
    <3> QED
      BY <1>1, <2>1, <3>1, <3>2 DEF Sound, DisplacerAgrees
  <2> QED
    BY <2>2, <2>3
<1>5. DisplacersArePursued'
  <2> SUFFICES ASSUME NEW d \in Ids, NEW e \in Ids, by[e] = d, ~ IsStudent(what'[e]), Owes(d)'
               PROVE  d \in torn' \cup todo' \/ HandedOn(d)' \/ \E g \in flows' : Settles(g, d)'
    BY <1>1 DEF DisplacersArePursued, IsStudent
  <2>1. ~ IsStudent(what[e])
    BY DisplacedHaveRows, RowsRemain
  <2>2. CASE ~ Owes(d) \/ (d = f.d /\ f.step \in Ending(d))
    <3>1. d = f.d
      BY <1>1, <2>2 DEF Owes, IsStudent
    <3> QED
      BY <1>1, <2>1, <2>2, <3>1 DEF SeesTo
  <2>3. CASE Owes(d) /\ ~ (d = f.d /\ f.step \in Ending(d))
    <3>1. status[d] # "none"
      BY <2>3 DEF Owes
    <3>2. d \in torn \cup todo \/ HandedOn(d) \/ \E h \in flows : Settles(h, d)
      BY <2>1, <2>3 DEF OwedInv, DisplacersArePursued
    <3>3. ASSUME NEW h \in flows, Settles(h, d)
          PROVE  HandedOn(d)' \/ \E g \in flows' : Settles(g, d)'
      <4>1. CASE h = f
        BY <1>1, <2>3, <3>3, <4>1 DEF Settles, HandsOver
      <4>2. CASE h # f
        <5>1. Ending(d)' = Ending(d)
          BY <3>1, RowsRemain DEF Ending, IsStudent
        <5> QED
          BY <1>1, <3>3, <4>2, <5>1 DEF Settles
      <4> QED
        BY <4>1, <4>2
    <3> QED
      BY <1>1, <3>1, <3>2, <3>3, RowsRemain
  <2> QED
    BY <2>2, <2>3
<1> QED
  BY <1>2, <1>3, <1>4, <1>5 DEF OwedInv

\* The flows of a deployment that has its row: who displaced before it has
\* handed on already.
LEMMA HandsOverRow ==
  ASSUME LockInv, RowsStay, NEW f \in flows, NEW G, Sound(f),
         f.step \notin EvictSteps, f.d \in Ids, status'[f.d] # "none",
         what'[f.d].gpu = f.kind.gpu
  PROVE  HandsOver(f, G)
<1>1. f.d # 0 /\ f.v \subseteq Ids
  BY FlowFields, BoundsAssumption DEF LockInv, TypeOK, NimTypeOK, Ids
<1>2. ASSUME NEW d \in f.v PROVE HandedOn(d)'
  <2>1. d \in Ids /\ Terminal(d) /\ what[d].gpu = f.kind.gpu /\ f.d > d
    BY <1>1 DEF Sound, RestorerAgrees
  <2>2. what'[d].gpu = what[d].gpu
    BY <2>1, RowsRemain DEF Terminal
  <2> QED
    BY <2>1, <2>2, BoundsAssumption DEF HandedOn, Ids
<1> QED
  BY <1>2 DEF HandsOver

\* Before its end a flow is nobody's settlement; only a failure, of which it
\* tells, makes its deployment owe.
LEMMA SeesToFailure ==
  ASSUME LockInv, RowsStay, NEW f \in flows, NEW G, f.d \in Ids, status[f.d] # "none",
         f.step \notin {"watch", "purge", "fail"} \cup StudentSteps,
         status'[f.d] = "failed" =>
           status[f.d] = "failed" \/ \E g \in G : g.d = f.d /\ g.step = "fail"
  PROVE  SeesTo(f, G)
<1> SUFFICES ASSUME Owes(f.d)', Owes(f.d) => f.step \in Ending(f.d)
             PROVE  \E g \in G : Settles(g, f.d)'
  BY DEF SeesTo
<1>1. ~ Owes(f.d)
  BY DEF Ending
<1>2. ~ IsStudent(what'[f.d])
  BY <1>1, RowsRemain DEF Owes
<1>3. \E g \in G : g.d = f.d /\ g.step = "fail"
  BY <1>1, <1>2 DEF Owes, IsStudent
<1> QED
  BY <1>2, <1>3 DEF Settles, Ending, IsStudent

\* What a flow with a row goes on with, or leaves to wait, is sound.
Follows(f, g) ==
  \/ Continues(f, g)
  \/ g \in Restored(f.d) \cup Returned(f.d) /\ Terminal(f.d)'

LEMMA OwedOfRows ==
  ASSUME LockInv, OwedInv, RowsStay, NEW f \in flows, NEW G, f.d \in Ids, status[f.d] # "none",
         Moves(f, G), \A g \in G : Follows(f, g), SeesTo(f, G)
  PROVE  OwedInv'
<1>1. Sound(f) /\ f.step \notin EvictSteps /\ f.d # 0 /\ UNCHANGED <<by, todo>>
  BY BoundsAssumption DEF OwedInv, FlowsAreSound, Moves, Ids
<1>2. \A e \in Ids : by[e] = f.d => what'[f.d].gpu = what[e].gpu
  BY RowsRemain DEF OwedInv, DisplacersAgree
<1>3. \A g \in G : Sound(g)'
  BY <1>1, <1>2, SoundOn, SoundRestorers DEF Follows
<1>4. what'[f.d].gpu = f.kind.gpu /\ status'[f.d] # "none"
  BY <1>1, RowsRemain DEF LockInv, KindsAgree
<1>5. HandsOver(f, G)
  BY <1>1, <1>4, HandsOverRow
<1> QED
  BY <1>3, <1>5, OwedKeeps

\* A Student that was deployed to displace is watched to its end.
LEMMA OwedOfEnds ==
  ASSUME LockInv, OwedInv, RowsStay, NEW f \in flows, NEW G,
         f.step \in {"watch", "purge", "fail"} \cup StudentSteps,
         Moves(f, G), \A g \in G : Follows(f, g),
         ASSUME NEW e \in Ids, by[e] = f.d, ~ IsStudent(what[e]), f.mode # "return"
         PROVE  f.d \in torn' \/ \E g \in G : \/ g.v = {f.d} /\ g.step = "lock"
                                              \/ /\ g.d = f.d /\ IsStudent(f.kind)
                                                 /\ g.step \in StudentSteps
  PROVE  OwedInv'
<1>1. f.d \in Ids /\ f.d # 0 /\ status[f.d] # "none" /\ what[f.d].role = f.kind.role
  BY FlowWithId DEF HoldsLock
<1>2. \A e \in Ids : by[e] = f.d => f.mode # "return"
  BY <1>1 DEF OwedInv, FlowsAreSound, Sound, DisplacerAgrees
<1>3. IsStudent(f.kind) <=> IsStudent(what'[f.d])
  BY <1>1, RowsRemain DEF IsStudent
<1>4. SeesTo(f, G)
  <2> SUFFICES ASSUME NEW e \in Ids, by[e] = f.d, ~ IsStudent(what[e])
               PROVE  f.d \in torn' \/ \E g \in G : Settles(g, f.d)'
    BY DEF SeesTo
  <2>1. f.d \in torn' \/ \E g \in G : \/ g.v = {f.d} /\ g.step = "lock"
                                      \/ /\ g.d = f.d /\ IsStudent(f.kind)
                                         /\ g.step \in StudentSteps
    BY <1>2
  <2> QED
    BY <1>3, <2>1 DEF Settles, Ending, IsStudent
<1> QED
  BY <1>1, <1>4, OwedOfRows

\* Polls, verifications and registrations; stops, reuses and what startup
\* recovery finds; a deployment undone.
LEMMA OwedOfFlows ==
  ASSUME LockInv, OwedInv, RowsStay, NEW f \in flows,
         \/ Undo(f) \/ PollHealthy(f) \/ PollGivesUp(f) \/ VerifyPasses(f) \/ VerifyFails(f)
         \/ Register(f) \/ StopDone(f) \/ Attach(f) \/ Recheck(f) \/ InspectHealthy(f)
         \/ InspectStarting(f) \/ InspectUnhealthy(f) \/ Drop(f) \/ InspectGone(f)
  PROVE  OwedInv'
<1>1. f.step \in {"undo", "poll", "verify", "register", "stop", "attach", "recheck", "inspect",
                  "drop"}
  BY DEF Undo, PollHealthy, PollGivesUp, VerifyPasses, VerifyFails, Register, StopDone, Attach,
         Recheck, InspectHealthy, InspectStarting, InspectUnhealthy, Drop, InspectGone
<1>2. f \in Flow /\ f.d \in Ids /\ status[f.d] # "none"
  BY <1>1, FlowWithId DEF HoldsLock
<1>3. /\ \A s \in Steps \ EvictSteps :
           Continues(f, To(f, s)) /\ Continues(f, TearsDown(f, s)) /\ TearsDown(f, s).step = s
      /\ \A g \in Resumed(f) : Continues(f, g)
  <2>1. ASSUME NEW s \in Steps \ EvictSteps
        PROVE  /\ Continues(f, To(f, s)) /\ Continues(f, TearsDown(f, s))
               /\ TearsDown(f, s).step = s
    BY <1>1, <1>2, Goes, GoesTearing DEF Continues
  <2>2. ASSUME NEW g \in Resumed(f) PROVE Continues(f, g)
    BY <1>1, <1>2, <2>2, Resumes DEF Continues
  <2> QED
    BY <2>1, <2>2
<1>4. {"verify", "register", "recheck", "drop", "fail"} \subseteq Steps \ EvictSteps
  BY DEF Steps
<1>5. ASSUME NEW G, flows' = (flows \ {f}) \cup G, \A g \in G : Follows(f, g),
             UNCHANGED <<what, by, todo, torn>>,
             \A d \in Ids : d # f.d => status'[d] = status[d],
             status'[f.d] = "failed" =>
               status[f.d] = "failed" \/ \E g \in G : g.d = f.d /\ g.step = "fail"
      PROVE  OwedInv'
  <2>1. Moves(f, G)
    BY <1>1, <1>2, <1>5 DEF Moves
  <2>2. SeesTo(f, G)
    BY <1>1, <1>2, <1>5, SeesToFailure
  <2> QED
    BY <1>2, <1>5, <2>1, <2>2, OwedOfRows
<1>6. CASE Undo(f) \/ Register(f) \/ Recheck(f)
  <2> DEFINE G == {}
  <2>1. flows' = (flows \ {f}) \cup G /\ UNCHANGED <<what, status, by, todo, torn>>
    BY <1>6 DEF Undo, Register, Recheck, Then, rows, marks
  <2>2. \A g \in G : Follows(f, g)
    OBVIOUS
  <2> HIDE DEF G
  <2> QED
    BY <1>5, <2>1, <2>2
<1>7. CASE PollHealthy(f) \/ InspectHealthy(f) \/ VerifyPasses(f)
  <2>1. PICK G \in SUBSET {To(f, "verify"), To(f, "register")} : flows' = (flows \ {f}) \cup G
    <3>1. \/ flows' = (flows \ {f}) \cup {To(f, "verify")}
          \/ flows' = (flows \ {f}) \cup {To(f, "register")}
          \/ flows' = (flows \ {f}) \cup {}
      BY <1>7 DEF PollHealthy, InspectHealthy, Healthy, VerifyPasses, Then
    <3> QED
      BY <3>1
  <2>2. UNCHANGED <<what, by, todo, torn>>
    BY <1>7 DEF PollHealthy, InspectHealthy, VerifyPasses, marks
  <2>3. /\ \A d \in Ids : d # f.d => status'[d] = status[d]
        /\ status'[f.d] = "failed" => status[f.d] = "failed"
    BY <1>2, <1>7
    DEF PollHealthy, InspectHealthy, Healthy, Promoted, VerifyPasses, LockInv, TypeOK, NimTypeOK
  <2>4. \A g \in G : Follows(f, g)
    BY <1>3, <1>4 DEF Follows
  <2> QED
    BY <1>5, <2>1, <2>2, <2>3, <2>4
<1>8. CASE PollGivesUp(f) \/ VerifyFails(f)
  <2>1. UNCHANGED <<what, by, todo, torn>>
    BY <1>8 DEF PollGivesUp, VerifyFails, marks
  <2>2. CASE UNCHANGED status /\ Then(f, {})
    <3> DEFINE G == {}
    <3>1. flows' = (flows \ {f}) \cup G /\ \A g \in G : Follows(f, g)
      BY <2>2 DEF Then
    <3> HIDE DEF G
    <3> QED
      BY <1>5, <2>1, <2>2, <3>1
  <2>3. CASE status' = [status EXCEPT ![f.d] = "failed"] /\ Then(f, {TearsDown(f, "fail")})
    <3> DEFINE G == {TearsDown(f, "fail")}
    <3>1. \A g \in G : Follows(f, g) /\ g.d = f.d /\ g.step = "fail"
      BY <1>3, <1>4 DEF Follows, Continues
    <3>2. flows' = (flows \ {f}) \cup G /\ \E g \in G : TRUE
      BY <2>3 DEF Then
    <3>3. \A d \in Ids : d # f.d => status'[d] = status[d]
      BY <2>3 DEF LockInv, TypeOK, NimTypeOK
    <3> HIDE DEF G
    <3> QED
      BY <1>5, <2>1, <3>1, <3>2, <3>3
  <2> QED
    BY <1>8, <2>2, <2>3 DEF PollGivesUp, VerifyFails, MarkedFailed
<1>9. CASE StopDone(f)
  <2> DEFINE G == {}
  <2>1. /\ flows' = (flows \ {f}) \cup G /\ UNCHANGED <<what, by, todo, torn>>
        /\ status' = [status EXCEPT ![f.d] = "stopped"]
    BY <1>9 DEF StopDone, Stopped, Then
  <2>2. status'[f.d] = "stopped" /\ \A d \in Ids : d # f.d => status'[d] = status[d]
    BY <1>2, <2>1 DEF LockInv, TypeOK, NimTypeOK
  <2>3. \A g \in G : Follows(f, g)
    OBVIOUS
  <2> HIDE DEF G
  <2> QED
    BY <1>5, <2>1, <2>2, <2>3
<1>10. CASE Attach(f) \/ InspectUnhealthy(f)
  <2>1. PICK s \in {"recheck", "drop"} : flows' = (flows \ {f}) \cup {To(f, s)}
    BY <1>10 DEF Attach, InspectUnhealthy, Then
  <2> DEFINE G == {To(f, s)}
  <2>2. UNCHANGED <<what, status, by, todo, torn>>
    BY <1>10 DEF Attach, InspectUnhealthy, rows, marks
  <2>3. \A g \in G : Follows(f, g)
    BY <1>3, <1>4 DEF Follows
  <2>4. flows' = (flows \ {f}) \cup G
    BY <2>1
  <2> HIDE DEF G
  <2> QED
    BY <1>5, <2>2, <2>3, <2>4
<1>11. CASE InspectStarting(f)
  <2>1. flows' = (flows \ {f}) \cup Resumed(f) /\ UNCHANGED <<what, status, by, todo, torn>>
    BY <1>11 DEF InspectStarting, Then, rows, marks
  <2> QED
    BY <1>3, <1>5, <2>1 DEF Follows
<1>12. CASE Drop(f) \/ InspectGone(f)
  <2>1. /\ flows' = (flows \ {f}) \cup Restored(f.d) /\ UNCHANGED <<what, by, todo, torn>>
        /\ status' = [status EXCEPT ![f.d] = "stopped"]
    BY <1>12 DEF Drop, InspectGone, Stopped, Then
  <2>2. status'[f.d] = "stopped" /\ \A d \in Ids : d # f.d => status'[d] = status[d]
    BY <1>2, <2>1 DEF LockInv, TypeOK, NimTypeOK
  <2>3. \A g \in Restored(f.d) : Follows(f, g)
    BY <2>2 DEF Follows, Terminal
  <2> QED
    BY <1>5, <2>1, <2>2, <2>3
<1> QED
  BY <1>6, <1>7, <1>8, <1>9, <1>10, <1>11, <1>12

\* The ends: of a failed deployment, of a Student's lifecycle, of a Student
\* that a crash interrupted.
LEMMA OwedOfLasts ==
  ASSUME LockInv, LinkInv, OwedInv, RowsStay, NEW f \in flows,
         \/ FailDone(f) \/ WatchRuns(f) \/ WatchEnds(f) \/ StageFails(f) \/ StagesPass(f)
         \/ Close(f) \/ Quit(f) \/ Interrupted(f)
  PROVE  OwedInv'
<1>1. f.step \in {"watch", "purge", "fail"} \cup StudentSteps
  BY DEF FailDone, WatchRuns, WatchEnds, StageFails, StagesPass, Close, Quit, Interrupted, Purge,
         PurgeUnconfirmed
<1>2. f \in Flow /\ f.d \in Ids /\ status[f.d] # "none"
  BY <1>1, FlowWithId DEF HoldsLock
<1>3. \A s \in {"stages", "quit", "close"} :
        /\ Continues(f, To(f, s)) /\ To(f, s).step = s /\ To(f, s).d = f.d
        /\ Continues(f, TearsDown(f, s)) /\ TearsDown(f, s).step = s /\ TearsDown(f, s).d = f.d
  <2>1. ASSUME NEW s \in Steps \ EvictSteps
        PROVE  /\ Continues(f, To(f, s)) /\ To(f, s).step = s /\ To(f, s).d = f.d
               /\ Continues(f, TearsDown(f, s)) /\ TearsDown(f, s).step = s
               /\ TearsDown(f, s).d = f.d
    BY <1>1, <1>2, Goes, GoesTearing DEF Continues
  <2> QED
    BY <2>1 DEF Steps
<1>4. /\ f.mode = "student" => IsStudent(f.kind)
      /\ f.step \in StudentSteps => f.mode = "student"
      /\ f.step = "watch" => f.mode \in {"student", "return"}
      /\ f.step = "fail" => Terminal(f.d)
  BY <1>1
  DEF OwedInv, FlowsAreSound, Sound, RoleAgrees, IsStudent, LockInv, ModesAgree, Lifecycle,
      LinkInv, FlowsKnowTheirNim
<1>5. /\ \A g \in Restored(f.d) \cup Returned(f.d) : g.step = "lock" /\ g.v = {f.d}
      /\ \A e \in Ids : by[e] = f.d /\ ~ IsStudent(what[e]) => Restored(f.d) # {}
      /\ \A e \in Ids : by[e] = f.d => Returned(f.d) # {}
  BY <1>2, Restores DEF LockInv
<1>6. ASSUME NEW G, flows' = (flows \ {f}) \cup G, \A g \in G : Follows(f, g),
             UNCHANGED <<what, by, todo>>, torn \subseteq torn',
             \A d \in Ids : d # f.d => status'[d] = status[d],
             ASSUME NEW e \in Ids, by[e] = f.d, ~ IsStudent(what[e]), f.mode # "return"
             PROVE  f.d \in torn' \/ \E g \in G : \/ g.v = {f.d} /\ g.step = "lock"
                                                  \/ /\ g.d = f.d /\ IsStudent(f.kind)
                                                     /\ g.step \in StudentSteps
      PROVE  OwedInv'
  <2>1. Moves(f, G)
    BY <1>1, <1>2, <1>6 DEF Moves
  <2> QED
    BY <1>1, <1>6, <2>1, OwedOfEnds
<1>7. CASE FailDone(f)
  <2>1. /\ flows' = (flows \ {f}) \cup Restored(f.d) /\ UNCHANGED <<what, status, by, todo, torn>>
        /\ f.step = "fail"
    BY <1>7 DEF FailDone, Then, rows, marks
  <2>2. \A g \in Restored(f.d) : Follows(f, g)
    BY <1>4, <2>1 DEF Follows, Terminal
  <2> QED
    BY <1>5, <1>6, <2>1, <2>2
<1>8. CASE WatchRuns(f) \/ WatchEnds(f) \/ StageFails(f) \/ StagesPass(f)
  <2>1. UNCHANGED <<what, status, by, todo, torn>>
    BY <1>8 DEF WatchRuns, WatchEnds, StageFails, StagesPass, rows, marks
  <2>2. CASE f.mode = "return"
    <3> DEFINE G == {}
    <3>1. flows' = (flows \ {f}) \cup G /\ \A g \in G : Follows(f, g)
      BY <1>4, <1>8, <2>2 DEF WatchRuns, WatchEnds, StageFails, StagesPass, Then
    <3> HIDE DEF G
    <3> QED
      BY <1>6, <2>1, <2>2, <3>1
  <2>3. CASE f.mode = "student"
    <3>1. \/ ~ Active(f.d) /\ flows' = (flows \ {f}) \cup Returned(f.d)
          \/ flows' = (flows \ {f}) \cup {To(f, "stages")}
          \/ \E s \in {"quit", "close"} : flows' = (flows \ {f}) \cup {TearsDown(f, s)}
      BY <1>8, <2>3 DEF WatchRuns, WatchEnds, StageFails, StagesPass, Leave, Then
    <3>2. CASE ~ Active(f.d) /\ flows' = (flows \ {f}) \cup Returned(f.d)
      <4>1. Terminal(f.d)'
        BY <1>2, <2>1, <3>2 DEF Active, Terminal, LockInv, TypeOK, NimTypeOK
      <4>2. \A g \in Returned(f.d) : Follows(f, g)
        BY <4>1 DEF Follows
      <4> QED
        BY <1>5, <1>6, <2>1, <3>2, <4>2
    <3>3. ASSUME NEW h, flows' = (flows \ {f}) \cup {h}, Continues(f, h), h.d = f.d,
                 h.step \in StudentSteps
          PROVE  OwedInv'
      <4> DEFINE G == {h}
      <4>1. /\ \A g \in G : Follows(f, g)
            /\ \E g \in G : g.d = f.d /\ IsStudent(f.kind) /\ g.step \in StudentSteps
        BY <1>4, <2>3, <3>3 DEF Follows
      <4>2. flows' = (flows \ {f}) \cup G
        BY <3>3
      <4> HIDE DEF G
      <4> QED
        BY <1>6, <2>1, <4>1, <4>2
    <3> QED
      BY <1>3, <3>1, <3>2, <3>3
  <2> QED
    BY <1>4, <1>8, <2>2, <2>3 DEF WatchRuns, WatchEnds, StageFails, StagesPass
<1>9. CASE Close(f) \/ Quit(f)
  <2>1. /\ flows' = (flows \ {f}) \cup Returned(f.d) /\ UNCHANGED <<what, by, todo, torn>>
        /\ status' = [status EXCEPT ![f.d] = "stopped"]
    BY <1>9 DEF Close, Quit, Stopped, Then
  <2>2. status'[f.d] = "stopped" /\ \A d \in Ids : d # f.d => status'[d] = status[d]
    BY <1>2, <2>1 DEF LockInv, TypeOK, NimTypeOK
  <2>3. \A g \in Returned(f.d) : Follows(f, g)
    BY <2>2 DEF Follows, Terminal
  <2> QED
    BY <1>5, <1>6, <2>1, <2>2, <2>3
<1>10. CASE Purge(f)
  <2>1. /\ flows' = (flows \ {f}) \cup Restored(f.d) /\ UNCHANGED <<what, by, todo, torn>>
        /\ status' = [status EXCEPT ![f.d] = "stopped"]
    BY <1>10 DEF Purge, Then, marks
  <2>2. status'[f.d] = "stopped" /\ \A d \in Ids : d # f.d => status'[d] = status[d]
    BY <1>2, <2>1 DEF LockInv, TypeOK, NimTypeOK
  <2>3. \A g \in Restored(f.d) : Follows(f, g)
    BY <2>2 DEF Follows, Terminal
  <2> QED
    BY <1>5, <1>6, <2>1, <2>2, <2>3
<1>11. CASE PurgeUnconfirmed(f)
  <2> DEFINE G == {}
  <2>1. /\ flows' = (flows \ {f}) \cup G /\ UNCHANGED <<what, status, by, todo>>
        /\ torn' = torn \cup {f.d} /\ \A g \in G : Follows(f, g)
    BY <1>11 DEF PurgeUnconfirmed, Then, rows, marks
  <2> HIDE DEF G
  <2> QED
    BY <1>6, <2>1
<1> QED
  BY <1>7, <1>8, <1>9, <1>10, <1>11 DEF Interrupted

\* Who finds the GPU taken gives up what it was to restore: somebody newer, or
\* spared, has had the GPU.
LEMMA OwedOfRefusals ==
  ASSUME LockInv, OwedInv, RowsStay, NEW f \in flows, Refuse(f) \/ Prepare(f)
  PROVE  OwedInv'
<1>1. /\ f.step \in {"lock", "prepare"} /\ f.d = 0 /\ Sound(f)
      /\ f \in Flow /\ f.v \subseteq Ids /\ f.kind \in Kind
  BY FlowFields
  DEF Refuse, Prepare, LockInv, TypeOK, NimTypeOK, FlowsHaveRows, OwedInv, FlowsAreSound
<1>2. UNCHANGED <<what, status, by, todo, torn>> /\ 0 \notin Ids
  BY BoundsAssumption DEF Refuse, Prepare, rows, Ids, marks
<1>3. ASSUME NEW G, flows' = (flows \ {f}) \cup G, \A g \in G : Continues(f, g), HandsOver(f, G)
      PROVE  OwedInv'
  <2>1. Moves(f, G) /\ SeesTo(f, G)
    BY <1>1, <1>2, <1>3 DEF Moves, SeesTo
  <2>2. \A g \in G : Sound(g)'
    BY <1>1, <1>2, <1>3, SoundOn
  <2> QED
    BY <1>3, <2>1, <2>2, OwedKeeps
<1>4. CASE Refuse(f)
  <2> DEFINE G == {}
  <2>1. flows' = (flows \ {f}) \cup G /\ \A g \in G : Continues(f, g)
    BY <1>4 DEF Refuse, Then
  <2>2. PICK e \in Ids : Active(e) /\ what[e].gpu = f.kind.gpu
    BY <1>4 DEF Refuse, Admissible, Residents
  <2>3. ASSUME NEW d \in f.v PROVE HandedOn(d)'
    <3>1. d \in Ids /\ Terminal(d) /\ what[d].gpu = f.kind.gpu
      BY <1>1 DEF Sound, RestorerAgrees
    <3>2. (~ (e < d) \/ e \in spared) /\ e # d /\ status[e] # "none"
      BY <2>2, <3>1 DEF LockInv, YoungestHasTheGpu, Active, Terminal
    <3>3. HandedOn(d)
      BY <2>2, <3>1, <3>2, BoundsAssumption DEF HandedOn, Ids
    <3> QED
      BY <3>1, <3>3, RowsRemain DEF Terminal
  <2>4. HandsOver(f, G)
    BY <2>3 DEF HandsOver
  <2> HIDE DEF G
  <2> QED
    BY <1>3, <2>1, <2>4
<1>5. CASE Prepare(f)
  <2>1. PICK G \in SUBSET {To(f, "lock")} : flows' = (flows \ {f}) \cup G
    <3>1. flows' = (flows \ {f}) \cup {To(f, "lock")} \/ flows' = (flows \ {f}) \cup {}
      BY <1>5 DEF Prepare, Then
    <3> QED
      BY <3>1
  <2>2. \A g \in G : Continues(f, g)
    BY <1>1, <1>5, Goes DEF Prepare, Continues, Steps
  <2>3. f.v = {}
    BY <1>1, <1>5 DEF Prepare, LockInv, ModesAgree, Sound, RestorerAgrees, Replaces
  <2>4. HandsOver(f, G)
    BY <2>3 DEF HandsOver
  <2> QED
    BY <1>3, <2>1, <2>2, <2>4
<1> QED
  BY <1>4, <1>5

\* A deployment on its way to its container, or given up.
LEMMA OwedOfDeployments ==
  ASSUME LockInv, OwedInv, RowsStay, NEW f \in flows,
         PreflightPasses(f) \/ Remove(f) \/ Run(f) \/ DeployFails(f)
  PROVE  OwedInv'
<1>1. f.step \in DeploySteps
  BY DEF PreflightPasses, Remove, Run, DeployFails
<1>2. /\ f \in Flow /\ f.d \in Ids /\ f.v \subseteq Ids /\ Sound(f)
      /\ HoldsLock(f) <=> status[f.d] = "none"
      /\ HoldsLock(f) <=> ~ Queued(f)
      /\ f.mode \in {"place", "replace", "student", "return"}
      /\ status[f.d] # "none" =>
           (IsStudent(what[f.d]) <=> IsStudent(f.kind)) /\ what[f.d].gpu = f.kind.gpu
  BY <1>1, FlowWithId
  DEF OwedInv, FlowsAreSound, HoldsLock, Queued, Lifecycle, LockInv, ModesAgree, IsStudent
<1>3. \A s \in {"remove", "run", "undo", "watch"} : Continues(f, To(f, s)) /\ To(f, s).v = f.v
  BY <1>1, <1>2, Goes DEF Continues, Steps
<1>4. ~ \E s \in DeploySteps : s \in Ending(f.d)
  BY DEF Ending
<1>5. CASE PreflightPasses(f) \/ Remove(f)
  <2>1. PICK G : /\ flows' = (flows \ {f}) \cup G
                 /\ \/ G = {} /\ Queued(f)
                    \/ \E s \in {"remove", "run"} : G = {To(f, s)}
    BY <1>5 DEF PreflightPasses, Remove, Then, StillReserved
  <2>2. UNCHANGED <<what, status, by, todo, torn>>
    BY <1>5 DEF PreflightPasses, Remove, rows, marks
  <2>3. Moves(f, G)
    BY <1>1, <2>1, <2>2 DEF Moves
  <2>4. \A g \in G : Sound(g)'
    BY <1>2, <1>3, <2>1, <2>2, SoundOn
  <2>5. SeesTo(f, G)
    BY <1>1, <1>4, <2>2 DEF SeesTo, Owes, IsStudent
  <2>6. HandsOver(f, G)
    <3>1. CASE G = {}
      <4>1. status'[f.d] # "none" /\ what'[f.d].gpu = f.kind.gpu
        BY <1>2, <2>1, <2>2, <3>1
      <4> QED
        BY <1>1, <1>2, <4>1, HandsOverRow
    <3>2. CASE G # {}
      <4>1. \E g \in G : g.v = f.v /\ g.step \notin EvictSteps
        BY <1>3, <2>1, <3>2 DEF Continues
      <4> QED
        BY <4>1 DEF HandsOver
    <3> QED
      BY <3>1, <3>2
  <2> QED
    BY <2>1, <2>3, <2>4, <2>5, <2>6, OwedKeeps
<1>6. ASSUME NEW G, flows' = (flows \ {f}) \cup G, \A g \in G : Sound(g)',
             what' = [what EXCEPT ![f.d] = f.kind], status'[f.d] # "none",
             \A d \in Ids : d # f.d => status'[d] = status[d],
             UNCHANGED <<by, todo, torn>>, SeesTo(f, G)
      PROVE  OwedInv'
  <2>1. what'[f.d] = f.kind /\ \A d \in Ids : d # f.d => what'[d] = what[d]
    BY <1>2, <1>6 DEF LockInv, TypeOK, NimTypeOK
  <2>2. Moves(f, G)
    BY <1>1, <1>6, <2>1 DEF Moves
  <2>3. HandsOver(f, G)
    BY <1>1, <1>2, <1>6, <2>1, HandsOverRow
  <2> QED
    BY <1>6, <2>2, <2>3, OwedKeeps
<1>7. what' = [what EXCEPT ![f.d] = f.kind] => what'[f.d] = f.kind
  BY <1>2 DEF LockInv, TypeOK, NimTypeOK
<1>8. CASE Run(f)
  <2> DEFINE n == [At("poll", f.d, "task") EXCEPT !.kind = f.kind]
  <2>1. PICK G \in SUBSET {n, To(f, "watch"), To(f, "undo")} :
          flows' = (flows \ {f}) \cup G /\ (Lifecycle(f) => To(f, "watch") \in G)
    BY <1>8 DEF Run, OnceStarted, Then, StillReserved, Lifecycle, Queued
  <2>2. /\ what' = [what EXCEPT ![f.d] = f.kind] /\ UNCHANGED <<by, todo, torn>>
        /\ status' = IF Lifecycle(f) THEN [status EXCEPT ![f.d] = "starting"] ELSE status
    BY <1>8 DEF Run, marks
  <2>3. Continues(f, n)
    BY <1>1 DEF Continues, At
  <2> HIDE DEF n
  <2>4. \A g \in G : Sound(g)'
    BY <1>2, <1>3, <2>1, <2>2, <2>3, SoundOn
  <2>5. /\ status'[f.d] # "none" /\ \A d \in Ids : d # f.d => status'[d] = status[d]
        /\ Lifecycle(f) => status'[f.d] = "starting"
        /\ ~ Lifecycle(f) => status' = status
    BY <1>2, <2>2 DEF HoldsLock, Lifecycle, Queued, LockInv, TypeOK, NimTypeOK
  <2>6. SeesTo(f, G)
    <3> SUFFICES ASSUME NEW e \in Ids, by[e] = f.d, Owes(f.d)', ~ Owes(f.d)
                 PROVE  \E g \in G : Settles(g, f.d)'
      BY <1>1, <1>4 DEF SeesTo
    <3>1. f.mode # "return" /\ f.d # 0
      BY <1>2, BoundsAssumption DEF Sound, DisplacerAgrees, Ids
    <3>2. Lifecycle(f)
      BY <1>2, <1>7, <2>2, <2>5 DEF Owes, HoldsLock, Queued, Lifecycle
    <3>3. IsStudent(what'[f.d])
      BY <1>7, <2>2, <2>5, <3>2 DEF Owes, IsStudent
    <3>4. To(f, "watch") \in G /\ To(f, "watch").d = f.d /\ To(f, "watch").step = "watch"
      BY <1>2, <2>1, <3>2, Goes DEF Steps
    <3> QED
      BY <3>3, <3>4 DEF Settles, Ending, IsStudent
  <2> QED
    BY <1>6, <2>1, <2>2, <2>4, <2>5, <2>6
<1>9. CASE DeployFails(f)
  <2> DEFINE G == IF f.mode = "student" THEN Returned(f.d)
                  ELSE IF f.mode # "return" /\ StillReserved(f) THEN Restored(f.d) ELSE {}
  <2>1. /\ what' = [what EXCEPT ![f.d] = f.kind] /\ UNCHANGED <<by, todo, torn>>
        /\ status' = IF StillReserved(f) THEN [status EXCEPT ![f.d] = "failed"] ELSE status
        /\ flows' = (flows \ {f}) \cup G
    BY <1>9 DEF DeployFails, Then
  <2>2. /\ status'[f.d] # "none" /\ \A d \in Ids : d # f.d => status'[d] = status[d]
        /\ StillReserved(f) => status'[f.d] = "failed"
        /\ ~ StillReserved(f) => status' = status /\ status[f.d] # "none" /\ Queued(f)
    BY <1>2, <2>1 DEF StillReserved, LockInv, TypeOK, NimTypeOK
  <2>3. \A e \in Ids : by[e] = f.d => what'[f.d].gpu = what[e].gpu /\ f.mode # "return"
    BY <1>2, <1>7, <2>1, BoundsAssumption DEF Sound, DisplacerAgrees, Ids
  <2>4. ASSUME NEW g \in G PROVE Sound(g)' /\ Settles(g, f.d)'
    <3>1. g \in Restored(f.d) \cup Returned(f.d) /\ StillReserved(f)
      BY <2>4 DEF StillReserved, Queued
    <3>2. Sound(g)'
      BY <1>2, <2>1, <2>2, <2>3, <3>1, SoundRestorers DEF Terminal
    <3>3. g.v = {f.d} /\ g.step = "lock"
      BY <1>2, <3>1, Restores DEF LockInv
    <3> QED
      BY <3>2, <3>3 DEF Settles
  <2>5. SeesTo(f, G)
    <3> SUFFICES ASSUME NEW e \in Ids, by[e] = f.d, ~ IsStudent(what[e]), Owes(f.d)', ~ Owes(f.d)
                 PROVE  \E g \in G : Settles(g, f.d)'
      BY <1>1, <1>4 DEF SeesTo
    <3>1. StillReserved(f)
      BY <1>2, <1>7, <2>1, <2>2 DEF Owes
    <3>2. Restored(f.d) # {} /\ Returned(f.d) # {} /\ f.mode # "return"
      BY <1>2, <2>3, Restores DEF LockInv
    <3>3. G # {}
      BY <3>1, <3>2
    <3> QED
      BY <2>4, <3>3
  <2> HIDE DEF G
  <2> QED
    BY <1>6, <2>1, <2>2, <2>4, <2>5
<1> QED
  BY <1>5, <1>8, <1>9

\* A deployment that reserves its GPU.
LEMMA OwedOfReserve ==
  ASSUME LockInv, OwedInv, RowsStay, NEW f \in flows, Reserve(f)
  PROVE  OwedInv'
<1> DEFINE g == To(f, "preflight")
           G == {g}
<1>1. /\ f.step = "reserve" /\ f \in Flow /\ f.d \in Ids /\ Sound(f)
      /\ status[f.d] = "none" /\ flows' = (flows \ {f}) \cup G /\ UNCHANGED <<by, todo, torn>>
  BY FlowWithId DEF Reserve, HoldsLock, Then, marks, OwedInv, FlowsAreSound
<1>2. /\ \A d \in Ids : d # f.d => status'[d] = status[d] /\ what'[d] = what[d]
      /\ Queued(f) => status'[f.d] = "starting" /\ what'[f.d] = f.kind
      /\ ~ Queued(f) => status'[f.d] = "none"
  BY <1>1 DEF Reserve, LockInv, TypeOK, NimTypeOK
<1>3. Continues(f, g) /\ g.v = f.v
  BY <1>1, Goes DEF Continues, Steps
<1>4. Sound(g)'
  BY <1>1, <1>3, SoundOn
<1>5. /\ Moves(f, G) /\ HandsOver(f, G)
      /\ \A h \in G : Sound(h)'
  BY <1>1, <1>2, <1>3, <1>4 DEF Moves, HandsOver, Continues
<1>6. ~ Owes(f.d)'
  BY <1>1, <1>2 DEF Owes, IsStudent, Sound, RoleAgrees
<1>7. SeesTo(f, G)
  BY <1>6 DEF SeesTo
<1> HIDE DEF G
<1> QED
  BY <1>5, <1>7, OwedKeeps

\* Flows that join those that are there.
LEMMA OwedJoins ==
  ASSUME LockInv, OwedInv, RowsStay, UNCHANGED <<status, what, by, torn>>, flows \subseteq flows',
         \A g \in flows' \ flows : Sound(g)', todo' \subseteq todo,
         \A d \in todo \ todo' : Owes(d) => \E g \in flows' : Settles(g, d)
  PROVE  OwedInv'
<1>1. TodoIsQuiet'
  BY DEF OwedInv, TodoIsQuiet, Active
<1>2. FlowsAreSound'
  BY SoundStays DEF OwedInv, FlowsAreSound
<1>3. DisplacersAgree'
  BY DEF OwedInv, DisplacersAgree
<1>4. DisplacersArePursued'
  <2>1. \A g, d : Settles(g, d)' <=> Settles(g, d)
    BY DEF Settles, Ending, IsStudent
  <2>2. \A d \in Ids : HandedOn(d) => HandedOn(d)'
    BY DEF HandedOn, RowsStay
  <2> QED
    BY <2>1, <2>2 DEF OwedInv, DisplacersArePursued, Owes, IsStudent
<1> QED
  BY <1>1, <1>2, <1>3, <1>4 DEF OwedInv

\* One that is to look after a row.
LEMMA SoundAt ==
  ASSUME LockInv, OwedInv, UNCHANGED <<status, what, by>>, NEW g, g.d \in Ids,
         status[g.d] # "none", g.kind.gpu = what[g.d].gpu, g.v = {}, g.mode \in {"task", "startup"},
         g.d \notin todo'
  PROVE  Sound(g)'
BY DEF Sound, Undisturbed, RoleAgrees, Replaces, Queued, DisplacerAgrees, RestorerAgrees, OwedInv,
       DisplacersAgree

\* Requests, and startup recovery that takes up a row.
LEMMA OwedOfRequests ==
  ASSUME LockInv, OwedInv, RowsStay,
         Request \/ Recover \/ \E p \in Projects, g \in Gpus : DeployNim(p, g)
  PROVE  OwedInv'
<1>1. ASSUME NEW n, flows' = flows \cup {n}, UNCHANGED <<rows, marks, todo>>, todo = {}, Sound(n)'
      PROVE  OwedInv'
  BY <1>1, OwedJoins DEF rows, marks
<1>2. ASSUME NEW n, todo' = {}, n.d = 0, n.v = {}, RoleAgrees(n) PROVE Sound(n)'
  BY <1>2 DEF Sound, Undisturbed, RoleAgrees, Queued, IsStudent, DisplacerAgrees, RestorerAgrees
<1>3. ASSUME NEW k \in Kind, NEW m \in {"place", "replace"}, RequestDeploy(k, m) PROVE OwedInv'
  <2> DEFINE n == [step |-> "lock", mode |-> m, d |-> 0, kind |-> k, v |-> {}, named |-> {}]
  <2>1. flows' = flows \cup {n} /\ UNCHANGED <<rows, marks, todo>> /\ todo = {}
    BY <1>3 DEF RequestDeploy, Requested, Serving
  <2>2. n.d = 0 /\ n.v = {} /\ RoleAgrees(n)
    BY <1>3, BoundsAssumption DEF RequestDeploy, RoleAgrees, Queued, IsStudent
  <2> HIDE DEF n
  <2> QED
    BY <1>1, <1>2, <2>1, <2>2
<1>4. ASSUME NEW p \in Projects, NEW g \in Gpus, DeployNim(p, g) PROVE OwedInv'
  <2> DEFINE k == [owner |-> p, role |-> "student", gpu |-> g]
             n == [step |-> "prepare", mode |-> "student", d |-> 0, kind |-> k, v |-> {},
                   named |-> {}]
  <2>1. flows' = flows \cup {n} /\ UNCHANGED <<rows, marks, todo>> /\ todo = {}
    BY <1>4 DEF DeployNim, Requested, Serving
  <2>2. n.d = 0 /\ n.v = {} /\ RoleAgrees(n)
    BY DEF RoleAgrees, Queued
  <2> HIDE DEF n
  <2> QED
    BY <1>1, <1>2, <2>1, <2>2
<1>5. ASSUME NEW d \in Ids, RequestStop(d) PROVE OwedInv'
  <2>0. PICK n : n = [At("stop", d, "task") EXCEPT !.named = ByName(d)]
    OBVIOUS
  <2>1. /\ flows' = flows \cup {n} /\ UNCHANGED <<rows, marks, todo>> /\ todo = {}
        /\ status[d] # "none"
    BY <1>5, <2>0 DEF RequestStop, Requested, Serving, Active
  <2>2. n.d = d /\ n.kind = what[d] /\ n.v = {} /\ n.mode = "task"
    BY <2>0 DEF At
  <2>3. Sound(n)'
    BY <2>1, <2>2, SoundAt DEF rows, marks
  <2> QED
    BY <1>1, <2>1, <2>3
<1>6. ASSUME NEW p \in Projects, NEW d \in Ids, Reuse(p, d) PROVE OwedInv'
  <2>0. PICK n : n = [At("attach", d, "task") EXCEPT !.kind.owner = p]
    OBVIOUS
  <2>1. /\ flows' = flows \cup {n} /\ UNCHANGED <<rows, marks, todo>> /\ todo = {}
        /\ status[d] # "none" /\ what[d] \in Kind
    BY <1>6, <2>0 DEF Reuse, Requested, Serving, LockInv, RowsAreKnown
  <2>2. n.d = d /\ n.kind.gpu = what[d].gpu /\ n.v = {} /\ n.mode = "task"
    BY <2>0, <2>1 DEF At, Kind
  <2>3. Sound(n)'
    BY <2>1, <2>2, SoundAt DEF rows, marks
  <2> QED
    BY <1>1, <2>1, <2>3
<1>7. ASSUME NEW d \in todo, RecoverNext(d) PROVE OwedInv'
  <2> DEFINE s == IF IsStudent(what[d]) THEN "purge" ELSE "inspect"
  <2>0. PICK n : n = [At(s, d, "startup") EXCEPT !.named = ByName(d)]
    OBVIOUS
  <2>1. /\ flows' = flows \cup {n} /\ UNCHANGED <<status, what, by, torn>> /\ todo' = todo \ {d}
        /\ d \in Ids /\ Active(d)
    BY <1>7, <2>0 DEF RecoverNext, rows, OwedInv, TodoIsQuiet, LockInv, TypeOK, NimTypeOK, marks
  <2>2. n.d = d /\ n.kind = what[d] /\ n.v = {} /\ n.mode = "startup" /\ n.step = s
    BY <2>0 DEF At
  <2>3. Sound(n)'
    BY <2>1, <2>2, SoundAt DEF Active
  <2>4. Owes(d) => Settles(n, d)
    BY <2>1, <2>2 DEF Owes, Active, Settles, Ending
  <2> QED
    BY <2>1, <2>3, <2>4, OwedJoins
<1> QED
  BY <1>3, <1>4, <1>5, <1>6, <1>7 DEF Request, Recover

\* Who gets the lock sees to what it waited to restore, or displaces anew.
LEMMA OwedOfAcquire ==
  ASSUME LockInv, OwedInv, RowsStay, NEW f \in flows, Acquire(f)
  PROVE  OwedInv'
<1>1. PICK n \in Ids, g \in Flow : Acquired(f, n, g)
  BY Acquires
<1>2. /\ flows' = (flows \ {f}) \cup {g} /\ UNCHANGED <<by, todo, torn>>
      /\ f.d = 0 /\ f.step = "lock" /\ g.d = n /\ g.mode = f.mode /\ g.kind = f.kind /\ Sound(f)
      /\ \A d \in Ids \ {n} : status'[d] = status[d] /\ what'[d] = what[d]
      /\ \A e \in Ids : e >= n => status[e] = "none"
      /\ \A e \in Ids : by[e] < n
  BY <1>1 DEF Acquired, OwedInv, FlowsAreSound, rows, marks
<1>3. status[n] = "none" /\ (\A e \in Ids : by[e] # n) /\ n \notin todo /\ 0 \notin Ids
      /\ \A d \in Ids : status[d] # "none" => n > d
  <2>1. n >= n /\ ~ (n < n) /\ 0 \notin Ids /\ \A d \in Ids : n > d \/ d >= n
    BY BoundsAssumption DEF Ids
  <2>2. status[n] = "none" /\ \A e \in Ids : by[e] # n
    BY <1>2, <2>1
  <2> QED
    BY <1>2, <2>1, <2>2 DEF OwedInv, TodoIsQuiet, Active
<1>4. TodoIsQuiet'
  BY <1>2, <1>3 DEF OwedInv, TodoIsQuiet, Active, LockInv, TypeOK, NimTypeOK
<1>5. Sound(g)'
  <2>1. Undisturbed(g)' /\ RoleAgrees(g)' /\ DisplacerAgrees(g)'
    BY <1>2, <1>3
    DEF Sound, Undisturbed, RoleAgrees, Replaces, Queued, IsStudent, DisplacerAgrees
  <2>2. RestorerAgrees(g)'
    <3> SUFFICES ASSUME g.step \notin EvictSteps
                 PROVE  /\ \A d \in g.v : Terminal(d)' /\ what'[d].gpu = g.kind.gpu /\ g.d > d
                        /\ Replaces(g) => g.v = {}
      BY DEF RestorerAgrees, Replaces
    <3>1. g.v = f.v /\ f.v \subseteq Ids
      BY <1>1, <1>2, FlowFields
      DEF Acquired, LockInv, TypeOK, NimTypeOK, Sound, RestorerAgrees, EvictSteps
    <3>2. \A d \in f.v : Terminal(d) /\ what[d].gpu = f.kind.gpu
      BY <1>2 DEF Sound, RestorerAgrees
    <3> QED
      BY <1>2, <1>3, <3>1, <3>2, RowsRemain DEF Sound, RestorerAgrees, Replaces, Terminal
  <2> QED
    BY <2>1, <2>2 DEF Sound
<1>6. FlowsAreSound'
  BY <1>2, <1>5, SoundStays DEF OwedInv, FlowsAreSound
<1>7. DisplacersAgree'
  <2> SUFFICES ASSUME NEW d \in Ids, NEW e \in Ids, by[e] = d, status'[d] # "none"
               PROVE  what'[d].gpu = what'[e].gpu
    BY <1>2 DEF DisplacersAgree
  <2>1. status[d] # "none" /\ status[e] # "none"
    BY <1>2, <1>3, DisplacedHaveRows
  <2> QED
    BY <2>1, RowsRemain DEF OwedInv, DisplacersAgree
<1>8. DisplacersArePursued'
  <2> SUFFICES ASSUME NEW d \in Ids, NEW e \in Ids, by[e] = d, ~ IsStudent(what'[e]), Owes(d)'
               PROVE  d \in torn' \cup todo' \/ HandedOn(d)' \/ \E h \in flows' : Settles(h, d)'
    BY <1>2 DEF DisplacersArePursued, IsStudent
  <2>1. d # n /\ ~ IsStudent(what[e]) /\ Owes(d) /\ status[d] # "none"
    BY <1>2, <1>3, DisplacedHaveRows, RowsRemain DEF Owes, IsStudent
  <2>2. d \in torn \cup todo \/ HandedOn(d) \/ \E h \in flows : Settles(h, d)
    BY <2>1 DEF OwedInv, DisplacersArePursued
  <2>3. Settles(f, d) => Settles(g, d)'
    <3>1. Replaces(f) => f.v = {}
      BY <1>2 DEF Sound, RestorerAgrees
    <3> QED
      BY <1>1, <1>2, <1>3, <3>1 DEF Settles, Acquired
  <2>4. \A h \in flows : Settles(h, d) => Settles(h, d)'
    BY <1>2, <2>1 DEF Settles, Ending, IsStudent
  <2> QED
    BY <1>2, <2>1, <2>2, <2>3, <2>4, RowsRemain
<1> QED
  BY <1>4, <1>6, <1>7, <1>8 DEF OwedInv

\* Who evicts will have the GPU, and answers for those it displaced only once
\* it has a row.
LEMMA OwedOfEvict ==
  ASSUME LockInv, OwedInv, RowsStay, NEW f \in flows,
         Evict(f) \/ EvictRaises(f) \/ Stamp(f)
  PROVE  OwedInv'
<1> DEFINE t == Foremost(f.v)
<1>1. /\ f.step \in EvictSteps /\ Replaces(f) /\ f.d \in Ids /\ f.d # 0 /\ f \in Flow
      /\ f.v \subseteq Ids /\ Sound(f) /\ todo = {}
  BY FlowWithId
  DEF Evict, EvictRaises, Stamp, LockInv, ModesAgree, OwedInv, FlowsAreSound, Sound, Undisturbed
<1>2. /\ status[f.d] = "none" /\ \A h \in flows : h.d = f.d => h = f
      /\ t \in Ids /\ status[t] # "none" /\ what[t].gpu = f.kind.gpu
  BY <1>1, Evicting, HoldersAreAlone
<1> HIDE DEF t
<1>3. PICK g : /\ flows' = (flows \ {f}) \cup {g}
               /\ g.mode = f.mode /\ g.d = f.d /\ g.kind = f.kind
               /\ g.step \in EvictSteps \/ g.v = {}
  <2>1. CASE Evict(f)
    <3> DEFINE g == [To(f, "stamp") EXCEPT !.named = {}]
    <3>1. g.mode = f.mode /\ g.d = f.d /\ g.kind = f.kind /\ g.step \in EvictSteps
      BY <1>1 DEF To, Flow
    <3>2. flows' = (flows \ {f}) \cup {g}
      BY <2>1 DEF Evict, Then
    <3> QED
      BY <3>1, <3>2
  <2>2. CASE EvictRaises(f) \/ Stamp(f)
    <3> DEFINE w == f.v \ {t}
               g == EvictNext(f, w)
    <3>1. flows' = (flows \ {f}) \cup {g} /\ w \in SUBSET Ids
      BY <1>1, <2>2 DEF EvictRaises, Stamp, Then, t
    <3> HIDE DEF w
    <3>2. /\ g.mode = f.mode /\ g.d = f.d /\ g.kind = f.kind
          /\ g.step \in EvictSteps \/ g.v = {}
      BY <1>1, <3>1, EvictsNext
    <3> QED
      BY <3>1, <3>2
  <2> QED
    BY <2>1, <2>2
<1>4. /\ UNCHANGED <<what, todo>> /\ torn \subseteq torn'
      /\ status' = status \/ status' = [status EXCEPT ![t] = "stopped"]
      /\ by' = by \/ by' = [by EXCEPT ![t] = f.d]
  BY DEF Evict, EvictRaises, Stamp, Stopped, Spared, HalfStopped, marks, t
<1>5. /\ t # f.d /\ status'[f.d] = "none"
      /\ \A d \in Ids \ {t} : status'[d] = status[d] /\ by'[d] = by[d]
      /\ status'[t] \in {status[t], "stopped"} /\ by'[t] \in {by[t], f.d}
  BY <1>1, <1>2, <1>4 DEF LockInv, TypeOK, NimTypeOK
<1>6. TodoIsQuiet'
  BY <1>1, <1>4 DEF TodoIsQuiet
<1>7. FlowsAreSound'
  <2>1. ASSUME NEW h \in flows \ {f} PROVE Sound(h)'
    <3>1. \A e \in Ids : by'[e] = h.d => by[e] = h.d
      BY <1>2, <1>5
    <3> QED
      BY <1>4, <3>1, SoundStays DEF OwedInv, FlowsAreSound
  <2>2. Sound(g)'
    <3>1. Undisturbed(g)' /\ RoleAgrees(g)' /\ RestorerAgrees(g)'
      BY <1>1, <1>3, <1>4
      DEF Sound, Undisturbed, RoleAgrees, Replaces, Queued, IsStudent, RestorerAgrees
    <3>2. DisplacerAgrees(g)'
      <4> SUFFICES ASSUME NEW e \in Ids, by'[e] = f.d
                   PROVE  what'[e].gpu = f.kind.gpu /\ f.mode # "return"
        BY <1>3 DEF DisplacerAgrees
      <4>1. CASE e = t
        BY <1>1, <1>2, <1>4, <4>1 DEF Replaces
      <4>2. CASE e # t
        BY <1>1, <1>4, <1>5, <4>2 DEF Sound, DisplacerAgrees
      <4> QED
        BY <4>1, <4>2
    <3> QED
      BY <3>1, <3>2 DEF Sound
  <2> QED
    BY <1>3, <2>1, <2>2 DEF FlowsAreSound
<1>8. ASSUME NEW d \in Ids, NEW e \in Ids, by'[e] = d, status'[d] # "none"
      PROVE  by[e] = d /\ status[d] # "none" /\ status[e] # "none"
  <2>1. d # f.d
    BY <1>5, <1>8
  <2>2. by[e] = d
    BY <1>5, <1>8, <2>1
  <2> QED
    BY <1>2, <1>5, <1>8, <2>2, DisplacedHaveRows
<1>9. DisplacersAgree'
  BY <1>4, <1>8 DEF OwedInv, DisplacersAgree
<1>10. DisplacersArePursued'
  <2> SUFFICES ASSUME NEW d \in Ids, NEW e \in Ids, by'[e] = d, ~ IsStudent(what'[e]), Owes(d)'
               PROVE  d \in torn' \cup todo' \/ HandedOn(d)' \/ \E h \in flows' : Settles(h, d)'
    BY DEF DisplacersArePursued, IsStudent
  <2>1. by[e] = d /\ status[d] # "none" /\ ~ IsStudent(what[e]) /\ Owes(d)
    BY <1>4, <1>5, <1>8 DEF Owes, IsStudent
  <2>2. d \in torn \cup todo \/ HandedOn(d) \/ \E h \in flows : Settles(h, d)
    BY <2>1 DEF OwedInv, DisplacersArePursued
  <2>3. ~ Settles(f, d)
    BY <1>1 DEF Settles, Ending
  <2>4. \A h \in flows : Settles(h, d) => Settles(h, d)'
    BY <1>4 DEF Settles, Ending, IsStudent
  <2> QED
    BY <1>3, <1>4, <2>1, <2>2, <2>3, <2>4, RowsRemain
<1> QED
  BY <1>6, <1>7, <1>9, <1>10 DEF OwedInv

\* What a crash cuts short is torn, or active and looked at by the recovery.
LEMMA OwedOfCrash ==
  ASSUME LockInv, OwedInv, RowsStay, Crash
  PROVE  OwedInv'
<1>1. /\ flows' = {} /\ todo' = {d \in Ids : Active(d)} /\ UNCHANGED <<status, by>>
      /\ torn \subseteq torn'
      /\ \A d \in Ids, f \in flows : ~ Active(d) /\ (f.d = d \/ d \in f.v) => d \in torn'
  BY DEF Crash
<1>2. TodoIsQuiet' /\ FlowsAreSound'
  BY <1>1 DEF TodoIsQuiet, Active, FlowsAreSound
<1>3. DisplacersAgree'
  BY <1>1, DisplacedHaveRows, RowsRemain DEF OwedInv, DisplacersAgree
<1>4. DisplacersArePursued'
  <2> SUFFICES ASSUME NEW d \in Ids, NEW e \in Ids, by[e] = d, ~ IsStudent(what'[e]), Owes(d)'
               PROVE  d \in torn' \cup todo' \/ HandedOn(d)'
    BY <1>1 DEF DisplacersArePursued, IsStudent
  <2>1. status[d] # "none" /\ status[e] # "none"
    BY <1>1, DisplacedHaveRows DEF Owes
  <2>2. Owes(d) /\ ~ IsStudent(what[e])
    BY <1>1, <2>1, RowsRemain DEF Owes, IsStudent
  <2>3. d \in torn \cup todo \/ HandedOn(d) \/ \E h \in flows : Settles(h, d)
    BY <2>2 DEF OwedInv, DisplacersArePursued
  <2> QED
    BY <1>1, <2>1, <2>3, RowsRemain DEF Settles, OwedInv, TodoIsQuiet
<1> QED
  BY <1>2, <1>3, <1>4 DEF OwedInv

LEMMA OwedInit == Init => OwedInv
<1> SUFFICES ASSUME Init PROVE OwedInv
  OBVIOUS
<1>1. flows = {} /\ todo = {} /\ \A d, e \in Ids : by[e] # d
  BY BoundsAssumption DEF Init, NimInit, Ids
<1> QED
  BY <1>1
  DEF OwedInv, TodoIsQuiet, FlowsAreSound, DisplacersAgree, DisplacersArePursued

LEMMA OwedStep == LockInv /\ LinkInv /\ OwedInv /\ [Next]_vars => OwedInv'
<1> SUFFICES ASSUME LockInv, LinkInv, OwedInv, [Next]_vars PROVE OwedInv'
  OBVIOUS
<1>1. RowsStay
  BY RowsOnlyEnd
<1>2. CASE Request \/ Recover \/ \E p \in Projects, g \in Gpus : DeployNim(p, g)
  BY <1>1, <1>2, OwedOfRequests
<1>3. CASE Docker \/ UNCHANGED vars
  <2>1. UNCHANGED <<status, what, by, torn, todo, flows>>
    BY <1>3 DEF Docker, Load, Exit, vars, nimVars, rows, marks
  <2> QED
    BY <1>1, <2>1, OwedJoins
<1>4. ASSUME NEW f \in flows, NimFlow(f) PROVE OwedInv'
  BY <1>1, <1>4, OwedOfFlows, OwedOfLasts, OwedOfRefusals, OwedOfAcquire, OwedOfEvict,
     OwedOfDeployments, OwedOfReserve
  DEF NimFlow
<1>5. ASSUME NEW f \in flows, StudentFlow(f) PROVE OwedInv'
  BY <1>1, <1>5, OwedOfLasts, OwedOfRefusals, OwedOfDeployments
  DEF StudentFlow, StudentDeployFails
<1>6. CASE CrashRestart
  BY <1>1, <1>6, OwedOfCrash DEF CrashRestart
<1> QED
  BY <1>2, <1>3, <1>4, <1>5, <1>6 DEF Next

\* Whoever was displaced by a deployment that failed, or by a Student that is
\* done, is deployed again or about to be: unless somebody newer, or one whose
\* stop raised, has had the GPU, or a crash or an unconfirmed removal cut that
\* short (restore_displaced_deployments, _restore_all_displaced).
THEOREM DisplacedCorrect == Spec => []DisplacedAreOwed
<1>1. Init => LockInv /\ LinkInv /\ OwedInv
  BY LockInit, LinkInit, OwedInit
<1>2. LockInv /\ LinkInv /\ OwedInv /\ [Next]_vars => (LockInv /\ LinkInv /\ OwedInv)'
  BY LockStep, LinkStep, OwedStep
<1>3. LockInv /\ LinkInv /\ OwedInv => DisplacedAreOwed
  <2> SUFFICES ASSUME OwedInv, NEW d \in Ids, NEW e \in Ids, by[e] = d, ~ IsStudent(what[e]),
                      status[d] # "none", Ended(d)
               PROVE  \/ d \in torn \/ HandedOn(d)
                      \/ \E f \in flows : \/ f.d = d /\ f.step \notin {"stop", "attach", "recheck"}
                                          \/ d \in f.v
    BY DEF DisplacedAreOwed
  <2>1. d \in torn \cup todo \/ HandedOn(d) \/ \E f \in flows : Settles(f, d)
    BY DEF OwedInv, DisplacersArePursued, Ended, Owes
  <2>2. d \notin todo
    BY DEF OwedInv, TodoIsQuiet, Ended, Active
  <2> QED
    BY <2>1, <2>2 DEF Settles, Ending
<1> QED
  BY <1>1, <1>2, <1>3, PTL DEF Spec

=============================================================================
