-------------------------- MODULE SuiteSetup_proofs --------------------------
(* Proofs, for any idempotency keys, bases, Guidance versions and numbers  *)
(* of requests and crashes, about how a Training Suite comes to be.        *)
EXTENDS SuiteSetup, FiniteSetTheorems, TLAPS

-----------------------------------------------------------------------------
(* The inductive invariant.                                                *)

OwnerSteps == {"wait", "train", "eval", "upload_train", "upload_eval"}
Building   == {"train", "eval", "upload_train", "upload_eval"}
Starting   == {"kickoff", "post"}
PullSteps  == {"pull", "record"}

\* A flow that creates a suite works on the one its request was about, and at
\* most one flow has it in hand (_request_matches_suite, the claims of a key).
FlowsKnowTheirSuite ==
  \A f \in flows : f.step \in OwnerSteps \cup Starting => Exists(f.key) /\ suite[f.key].base = f.base

\* A suite's setup stands where its owner stands, unless an SME canceled it.
OwnersAgree ==
  \A f \in flows :
    /\ f.step = "wait" => suite[f.key].status \in {"provisioning", "canceled"}
    /\ f.step \in Building => suite[f.key].status \in {"preparing", "canceled"}
    /\ f.step \in Starting => suite[f.key].status \notin Setup /\ suite[f.key].chains
    /\ f.step = "kickoff" => suite[f.key].status = "initialized"

OneOwner ==
  \A f, g \in flows :
    /\ f.step \in OwnerSteps /\ g.step \in OwnerSteps /\ f.key = g.key => f = g
    /\ f.step \in PullSteps /\ g.step \in PullSteps /\ f.run = g.run => f = g

SetupsAreOwned ==
  \A k \in Keys : suite[k].status \in Setup => \E f \in flows : f.key = k /\ f.step \in OwnerSteps

CancelsFollowCancel ==
  \A f \in flows : f.step = "cancel_setup" => suite[f.key].status = "canceled"

\* The exports linked so far are of the Guidance the setup froze.
LinksAgree ==
  /\ \A k \in Keys : /\ suite[k].training \in {0, suite[k].guidance}
                     /\ suite[k].evaluation \in {0, suite[k].guidance}
                     /\ suite[k].status \in {"none", "provisioning"} =>
                          suite[k].training = 0 /\ suite[k].evaluation = 0
                     /\ Exists(k) => suite[k].guidance # 0
  /\ \A f \in flows :
       f.step \in Building /\ suite[f.key].status = "preparing" =>
         /\ f.g = suite[f.key].guidance
         /\ f.step # "train" => suite[f.key].training = f.g
         /\ f.step \in {"upload_train", "upload_eval"} => suite[f.key].evaluation = f.g

\* Provisioning runs: who has one knows its base, and an active one is pulled.
RunsAgree ==
  /\ \A f \in flows : f.run # 0 => run[f.run].status # "none" /\ run[f.run].base = f.base
  /\ \A k \in Keys : suite[k].run # 0 =>
       run[suite[k].run].status # "none" /\ run[suite[k].run].base = suite[k].base
  /\ \A f \in flows : f.step \in PullSteps => f.run \in ActiveRun
  /\ \A f \in flows : f.step = "record" => ~ Missing(f.base)
  /\ \A f \in flows : f.step \in {"wait", "pull", "record", "cancel_run"} => f.run # 0

PullsArePursued ==
  /\ \A b \in Bases : pull[b] = "pulling" => Shared(b) # {}
  /\ \A r \in ActiveRun : PullTasks(r) # {}

IInv ==
  /\ TypeOK
  /\ AnswersStand
  /\ FlowsKnowTheirSuite /\ OwnersAgree /\ OneOwner /\ SetupsAreOwned
  /\ CancelsFollowCancel
  /\ LinksAgree
  /\ RunsAgree /\ PullsArePursued

-----------------------------------------------------------------------------
(* Types.                                                                  *)

Steps == OwnerSteps \cup Starting \cup PullSteps \cup {"preflight", "cancel_setup", "cancel_run"}

\* A flow that goes on keeps what it began with.
LEMMA FlowGoes ==
  ASSUME NEW f \in Flow, NEW s \in Steps
  PROVE  /\ To(f, s) \in Flow /\ To(f, s).step = s
         /\ To(f, s).key = f.key /\ To(f, s).base = f.base /\ To(f, s).g = f.g
         /\ To(f, s).run = f.run /\ To(f, s).task = f.task
  BY DEF To, Flow, Steps, OwnerSteps, Starting, PullSteps

\* A suite of which one thing changes is well typed.
LEMMA SuiteUpdates ==
  ASSUME NEW s \in SuiteRecord
  PROVE  /\ \A x \in Setup \cup {"none", "initialized", "running", "failed", "canceled"} :
              [s EXCEPT !.status = x] \in SuiteRecord
         /\ \A v \in Versions \cup {0} :
              [s EXCEPT !.training = v] \in SuiteRecord /\ [s EXCEPT !.evaluation = v] \in SuiteRecord
         /\ \A b \in BOOLEAN :
              /\ [s EXCEPT !.status = "failed", !.transfer = b] \in SuiteRecord
              /\ [s EXCEPT !.status = "preparing", !.transfer = b] \in SuiteRecord
              /\ [s EXCEPT !.asked = b] \in SuiteRecord
         /\ \A v \in Versions :
              [s EXCEPT !.status = "initialized", !.guidance = v, !.chains = TRUE] \in SuiteRecord
  BY DEF SuiteRecord, Setup

\* What no suite is, and what a failed one becomes, is well typed.
LEMMA SuiteTypes ==
  /\ NoSuite.base \in Bases
  /\ NoSuite \in SuiteRecord /\ NoSuite.status = "none"
  /\ \A s \in SuiteRecord, token \in BOOLEAN :
       Failed(s, token) \in SuiteRecord /\ Failed(s, token).base = s.base
  /\ \A s \in SuiteRecord : Interrupted(s) \in SuiteRecord
<1>1. NoSuite.base \in Bases
  BY SetupBoundsAssumption DEF NoSuite
<1>2. NoSuite \in SuiteRecord
  BY SetupBoundsAssumption DEF NoSuite, SuiteRecord, Setup
<1>3. \A s \in SuiteRecord, token \in BOOLEAN :
        Failed(s, token) \in SuiteRecord /\ Failed(s, token).base = s.base
  <2> SUFFICES ASSUME NEW s \in SuiteRecord, NEW token \in BOOLEAN
               PROVE  Failed(s, token) \in SuiteRecord /\ Failed(s, token).base = s.base
    OBVIOUS
  <2>1. [s EXCEPT !.status = "failed", !.transfer = token] \in SuiteRecord
    BY SuiteUpdates
  <2>2. [s EXCEPT !.status = "failed", !.transfer = token].base = s.base
    BY DEF SuiteRecord
  <2> QED
    BY <2>1, <2>2 DEF Failed
<1>4. ASSUME NEW s \in SuiteRecord PROVE Interrupted(s) \in SuiteRecord
  <2>1. (s.status = "preparing" /\ ~ s.chains /\ s.training # 0 /\ s.evaluation # 0) \in BOOLEAN
    OBVIOUS
  <2> QED
    BY <1>3, <2>1, Zenon DEF Interrupted
<1> QED
  BY <1>1, <1>2, <1>3, <1>4 DEF NoSuite

\* So are the suite that owns a run and the flow that waits for it.
LEMMA OwnerTypes ==
  ASSUME NEW f \in Flow, NEW r \in Runs, active \in Versions
  PROVE  Provisional(f, r) \in SuiteRecord /\ Owned(f, r) \in Flow
<1>1. Owned(f, r) \in Flow
  BY DEF Owned, Flow
<1> DEFINE v == active
<1>2. f.base \in Bases /\ v \in Versions
  BY DEF Flow
<1> HIDE DEF v
<1> DEFINE s == [NoSuite EXCEPT !.status = "provisioning", !.base = f.base, !.guidance = v, !.run = r]
<1>3. s \in SuiteRecord
  BY <1>2, SuiteTypes DEF SuiteRecord, Setup
<1> HIDE DEF s
<1>4. Provisional(f, r) = s
  BY DEF s, v, Provisional
<1> QED
  BY <1>1, <1>3, <1>4

LEMMA TypeInit == Init => TypeOK
<1> SUFFICES ASSUME Init PROVE TypeOK
  OBVIOUS
<1>1. suite \in [Keys -> SuiteRecord]
  BY SuiteTypes DEF Init
<1>2. run \in [Runs -> [status : {"none", "queued", "running", "succeeded", "failed"}, base : Bases]]
  BY SuiteTypes DEF Init
<1> QED
  BY <1>1, <1>2, SetupBoundsAssumption DEF Init, TypeOK, Versions

\* No step leaves the types: one case per action.
LEMMA TypeStep == TypeOK /\ [Next]_vars => TypeOK'
<1> SUFFICES ASSUME TypeOK, [Next]_vars PROVE TypeOK'
  OBVIOUS
<1>0. \A f \in flows : /\ f \in Flow /\ f.key \in Keys /\ f.base \in Bases /\ f.run \in Runs \cup {0}
                       /\ f.g \in Versions \cup {0} /\ flows \ {f} \subseteq Flow
  BY DEF TypeOK, Flow
<1>r. Requested => requests' \in 0 .. MaxRequests
  BY SetupBoundsAssumption DEF TypeOK, Requested
<1>1. ASSUME NEW k \in Keys, NEW b \in Bases, Launch(k, b) PROVE TypeOK'
  <2>1. given' \subseteq Keys \X Bases
    BY <1>1 DEF TypeOK, Launch, Replay
  <2>2. [step |-> "preflight", key |-> k, base |-> b, g |-> 0, run |-> 0, task |-> FALSE] \in Flow
    BY DEF Flow
  <2>3. flows' \subseteq Flow
    BY <1>1, <2>2 DEF TypeOK, Launch
  <2> QED
    BY <1>1, <1>r, <2>1, <2>3 DEF TypeOK, Launch
<1>2. ASSUME NEW k \in Keys, Cancel(k) PROVE TypeOK'
  <2>1. suite' \in [Keys -> SuiteRecord]
    BY <1>2, SuiteUpdates DEF TypeOK, Cancel
  <2>2. suite[k].base \in Bases /\ suite[k].run \in Runs \cup {0}
    BY DEF TypeOK, SuiteRecord
  <2>3. flows' \subseteq Flow
    <3>1. [step |-> "cancel_setup", key |-> k, base |-> suite[k].base, g |-> 0,
           run |-> suite[k].run, task |-> FALSE] \in Flow
      BY <2>2 DEF Flow
    <3> QED
      BY <1>2, <3>1 DEF TypeOK, Cancel
  <2> QED
    BY <1>2, <1>r, <2>1, <2>3 DEF TypeOK, Cancel
<1>3. ASSUME NEW k \in Keys, RolledUp(k) PROVE TypeOK'
  <2>1. PICK s \in {"running", "failed"} : suite' = [suite EXCEPT ![k].status = s]
    BY <1>3 DEF RolledUp
  <2>2. suite' \in [Keys -> SuiteRecord]
    BY <2>1, SuiteUpdates DEF TypeOK
  <2> QED
    BY <1>3, <2>2 DEF TypeOK, RolledUp, bounds
<1>4. ASSUME NEW f \in flows, PreflightFails(f) PROVE TypeOK'
  BY <1>4 DEF TypeOK, PreflightFails, Ends, Then, bounds
<1>5. ASSUME NEW f \in flows, LaunchLoses(f) PROVE TypeOK'
  BY <1>0, <1>5 DEF TypeOK, LaunchLoses, Replay, Ends, Then, bounds
<1>6. ASSUME NEW f \in flows, ProvisioningRefused(f) PROVE TypeOK'
  BY <1>6 DEF TypeOK, ProvisioningRefused, Ends, Then, bounds
<1>7. ASSUME NEW f \in flows, ProvisioningJoined(f) PROVE TypeOK'
  <2>1. PICK r \in Shared(f.base) : /\ suite' = [suite EXCEPT ![f.key] = Provisional(f, r)]
                                    /\ Then(f, {Owned(f, r)})
    BY <1>7 DEF ProvisioningJoined
  <2>2. r \in Runs
    BY DEF Shared, ActiveRun
  <2>3. Provisional(f, r) \in SuiteRecord /\ Owned(f, r) \in Flow
    BY <1>0, <2>2, OwnerTypes DEF TypeOK
  <2> QED
    BY <1>0, <1>7, <2>1, <2>3 DEF TypeOK, ProvisioningJoined, Then, bounds
<1>8. ASSUME NEW f \in flows, ProvisioningStarted(f) PROVE TypeOK'
  <2>1. PICK r \in NewRun :
          /\ run' = [run EXCEPT ![r] = [status |-> "queued", base |-> f.base]]
          /\ suite' = [suite EXCEPT ![f.key] = Provisional(f, r)]
          /\ Then(f, {Owned(f, r), [To(f, "pull") EXCEPT !.run = r, !.task = TRUE]})
    BY <1>8 DEF ProvisioningStarted
  <2>2. r \in Runs
    BY DEF NewRun
  <2>3. Provisional(f, r) \in SuiteRecord /\ Owned(f, r) \in Flow
    BY <1>0, <2>2, OwnerTypes DEF TypeOK
  <2>4. [To(f, "pull") EXCEPT !.run = r, !.task = TRUE] \in Flow
    BY <1>0, <2>2 DEF To, Flow
  <2>5. suite' \in [Keys -> SuiteRecord] /\ flows' \subseteq Flow
    BY <1>0, <2>1, <2>3, <2>4 DEF TypeOK, Then
  <2>6. run' \in [Runs -> [status : {"none", "queued", "running", "succeeded", "failed"}, base : Bases]]
    BY <1>0, <2>1, <2>2 DEF TypeOK
  <2> QED
    BY <1>0, <1>8, <2>5, <2>6 DEF TypeOK, ProvisioningStarted, bounds
<1>9. ASSUME NEW f \in flows, Pulled(f) PROVE TypeOK'
  <2>1. flows' \subseteq Flow
    BY <1>0, <1>9, FlowGoes DEF Pulled, Then, Steps, PullSteps
  <2>2. run' \in [Runs -> [status : {"none", "queued", "running", "succeeded", "failed"}, base : Bases]]
    BY <1>0, <1>9 DEF TypeOK, Pulled
  <2> QED
    BY <1>0, <1>9, <2>1, <2>2 DEF TypeOK, Pulled, bounds
<1>10. ASSUME NEW f \in flows, Recorded(f) PROVE TypeOK'
  BY <1>0, <1>10 DEF TypeOK, Recorded, Ends, Then, bounds
<1>11. ASSUME NEW f \in flows, PullFails(f) PROVE TypeOK'
  BY <1>0, <1>11 DEF TypeOK, PullFails, Unpulled, Ends, Then, bounds
<1>f. ASSUME NEW f \in flows, NEW token \in BOOLEAN, Fail(f, token)
      PROVE  suite' \in [Keys -> SuiteRecord] /\ flows' \subseteq Flow
  BY <1>0, <1>f, SuiteTypes DEF TypeOK, Fail, Ends, Then
<1>12. ASSUME NEW f \in flows, WaitFails(f) PROVE TypeOK'
  BY <1>f, <1>12 DEF TypeOK, WaitFails, bounds
<1>13. ASSUME NEW f \in flows, CreateReplays(f) PROVE TypeOK'
  BY <1>0, <1>13 DEF TypeOK, CreateReplays, Replay, Ends, Then, bounds
<1>14. ASSUME NEW f \in flows, CreateRefused(f) PROVE TypeOK'
  <2>1. CASE f.step = "wait"
    BY <1>f, <1>14, <2>1 DEF TypeOK, CreateRefused, bounds
  <2>2. CASE f.step # "wait"
    BY <1>14, <2>2 DEF TypeOK, CreateRefused, Ends, Then, bounds
  <2> QED
    BY <2>1, <2>2
<1>15. ASSUME NEW f \in flows, Create(f) PROVE TypeOK'
  <2> DEFINE s == Claimed(f)
  <2>1. s \in SuiteRecord
    <3>1. CASE Exists(f.key)
      BY <1>0, <3>1, SuiteUpdates DEF TypeOK, Claimed
    <3>2. CASE ~ Exists(f.key)
      BY <1>0, <3>2, SuiteTypes DEF TypeOK, Claimed, SuiteRecord, Setup
    <3> QED
      BY <3>1, <3>2
  <2>2. [To(f, NextStep(s)) EXCEPT !.g = active] \in Flow
    BY <1>0 DEF TypeOK, To, NextStep, Flow
  <2>3. suite' \in [Keys -> SuiteRecord] /\ flows' \subseteq Flow
    BY <1>0, <1>15, <2>1, <2>2 DEF TypeOK, Create, Then
  <2> QED
    BY <1>15, <2>3 DEF TypeOK, Create, bounds
<1>16. ASSUME NEW f \in flows, Build(f) PROVE TypeOK'
  <2>1. suite' \in [Keys -> SuiteRecord]
    BY <1>0, <1>16, SuiteUpdates DEF TypeOK, Build
  <2>2. flows' \subseteq Flow
    BY <1>0, <1>16, FlowGoes DEF TypeOK, Build, Then, Steps, OwnerSteps
  <2> QED
    BY <1>16, <2>1, <2>2 DEF TypeOK, Build, bounds
<1>17. ASSUME NEW f \in flows, BuildFails(f) PROVE TypeOK'
  <2>1. CASE Fail(f, FALSE)
    BY <1>f, <1>17, <2>1 DEF TypeOK, BuildFails, bounds
  <2>2. CASE ~ Fail(f, FALSE)
    <3> DEFINE s == suite[f.key]
               t == [s EXCEPT !.training = f.g]
               e == [s EXCEPT !.evaluation = f.g]
    <3>1. t \in SuiteRecord /\ e \in SuiteRecord
      BY <1>0, SuiteUpdates DEF TypeOK
    <3>2. Failed(t, FALSE) \in SuiteRecord /\ Failed(e, FALSE) \in SuiteRecord
      BY <1>0, <3>1, SuiteTypes
    <3>3. suite' \in [Keys -> SuiteRecord] /\ flows' \subseteq Flow
      BY <1>0, <1>17, <2>2, <3>2 DEF TypeOK, BuildFails, Ends, Then
    <3> QED
      BY <1>17, <2>2, <3>3 DEF TypeOK, BuildFails, bounds
  <2> QED
    BY <2>1, <2>2
<1>18. ASSUME NEW f \in flows, Uploaded(f) PROVE TypeOK'
  <2>1. CASE suite[f.key].status = "preparing"
    BY <1>0, <1>18, <2>1, FlowGoes DEF TypeOK, Uploaded, Then, Steps, OwnerSteps, bounds
  <2>2. CASE suite[f.key].status # "preparing"
    BY <1>f, <1>18, <2>2 DEF TypeOK, Uploaded, bounds
  <2> QED
    BY <2>1, <2>2
<1>19. ASSUME NEW f \in flows, UploadFails(f) PROVE TypeOK'
  BY <1>f, <1>19 DEF TypeOK, UploadFails, bounds
<1>20. ASSUME NEW f \in flows, Commit(f) PROVE TypeOK'
  <2>1. suite' \in [Keys -> SuiteRecord]
    BY <1>0, <1>20, SuiteUpdates DEF TypeOK, Commit, StillActive
  <2> QED
    BY <1>0, <1>20, <2>1, FlowGoes DEF TypeOK, Commit, Then, Steps, Starting, bounds
<1>21. ASSUME NEW f \in flows, Abandon(f) PROVE TypeOK'
  BY <1>f, <1>21 DEF TypeOK, Abandon, bounds
<1>22. ASSUME NEW f \in flows, Kickoff(f) PROVE TypeOK'
  <2>1. suite' \in [Keys -> SuiteRecord]
    BY <1>0, <1>22, SuiteUpdates DEF TypeOK, Kickoff
  <2> QED
    BY <1>0, <1>22, <2>1, FlowGoes DEF TypeOK, Kickoff, Then, Steps, Starting, bounds
<1>23. ASSUME NEW f \in flows, Posted(f) PROVE TypeOK'
  <2>1. suite' \in [Keys -> SuiteRecord]
    <3>1. PICK s \in {"running", "failed"} :
            suite' = [suite EXCEPT ![f.key].status = IF @ = "canceled" THEN @ ELSE s]
      BY <1>23 DEF Posted
    <3> QED
      BY <1>0, <3>1, SuiteUpdates DEF TypeOK
  <2> QED
    BY <1>0, <1>23, <2>1 DEF TypeOK, Posted, Ends, Then, bounds
<1>24. ASSUME NEW f \in flows, CancelSetup(f) PROVE TypeOK'
  BY <1>0, <1>24, FlowGoes DEF TypeOK, CancelSetup, Steps, bounds
<1>25. ASSUME NEW f \in flows, CancelRun(f) PROVE TypeOK'
  BY <1>0, <1>25 DEF TypeOK, CancelRun, Unpulled, bounds
<1>26. ASSUME EditGuidance PROVE TypeOK'
  BY <1>26, SetupBoundsAssumption DEF TypeOK, EditGuidance, Versions, bounds
<1>27. ASSUME CrashRestart PROVE TypeOK'
  <2>1. suite' \in [Keys -> SuiteRecord]
    <3> SUFFICES ASSUME NEW k \in Keys PROVE Interrupted(suite[k]) \in SuiteRecord
      BY <1>27 DEF CrashRestart
    <3> QED
      BY SuiteTypes DEF TypeOK, SuiteRecord
  <2>2. run' \in [Runs -> [status : {"none", "queued", "running", "succeeded", "failed"}, base : Bases]]
    BY <1>27 DEF TypeOK, CrashRestart, ActiveRun
  <2> QED
    BY <1>27, <2>1, <2>2, SetupBoundsAssumption DEF TypeOK, CrashRestart, Missing
<1>28. ASSUME UNCHANGED vars PROVE TypeOK'
  BY <1>28 DEF TypeOK, vars, bounds
<1> QED
  BY <1>1, <1>2, <1>3, <1>4, <1>5, <1>6, <1>7, <1>8, <1>9, <1>10, <1>11, <1>12, <1>13, <1>14,
     <1>15, <1>16, <1>17, <1>18, <1>19, <1>20, <1>21, <1>22, <1>23, <1>24, <1>25, <1>26, <1>27, <1>28
  DEF Next, Setting, Provisioning
-----------------------------------------------------------------------------
(* The invariant is inductive: what holds of a suite, its owner and its    *)
(* run, step by step.                                                      *)

USE DEF OwnerSteps, Building, Starting, PullSteps, Setup, Pursued, Exists

LEMMA InvInit == Init => IInv
<1> SUFFICES ASSUME Init PROVE IInv
  OBVIOUS
<1>1. TypeOK
  BY TypeInit
<1>2. \A k \in Keys : suite[k].status = "none" /\ suite[k].training = 0 /\ suite[k].evaluation = 0
                      /\ suite[k].run = 0
  BY DEF Init, NoSuite
<1>3. flows = {} /\ given = {} /\ ActiveRun = {} /\ \A b \in Bases : pull[b] # "pulling"
  BY DEF Init, ActiveRun
<1>4. AnswersStand /\ FlowsKnowTheirSuite /\ OwnersAgree /\ OneOwner /\ SetupsAreOwned
      /\ CancelsFollowCancel
  BY <1>2, <1>3 DEF AnswersStand, FlowsKnowTheirSuite, OwnersAgree, OneOwner, SetupsAreOwned,
     CancelsFollowCancel
<1>5. LinksAgree /\ RunsAgree /\ PullsArePursued
  BY <1>2, <1>3 DEF LinksAgree, RunsAgree, PullsArePursued
<1> QED
  BY <1>1, <1>4, <1>5 DEF IInv

\* A flow ends that is nobody's owner and pulls nothing.
LEMMA EndKeeps ==
  ASSUME IInv, TypeOK', NEW f \in flows, Ends(f), f.step \notin PullSteps,
         f.step \in OwnerSteps => suite[f.key].status \notin Setup,
         UNCHANGED <<suite, run, pull>>,
         \A a \in given' \ given : Exists(a[1]) /\ suite[a[1]].base = a[2]
  PROVE  IInv'
<1> USE DEF Ends, Then
<1>1. AnswersStand' /\ FlowsKnowTheirSuite' /\ CancelsFollowCancel'
  BY DEF IInv, AnswersStand, FlowsKnowTheirSuite, CancelsFollowCancel
<1>2. OwnersAgree' /\ OneOwner' /\ SetupsAreOwned'
  BY DEF IInv, OwnersAgree, OneOwner, SetupsAreOwned
<1>3. LinksAgree' /\ RunsAgree' /\ PullsArePursued'
  BY DEF IInv, LinksAgree, RunsAgree, PullsArePursued, ActiveRun, Shared, PullTasks, Missing
<1> QED
  BY <1>1, <1>2, <1>3 DEF IInv

\* The owner of a setup ends, its suite ended as s: failed, or still canceled.
Gone(f, s) ==
  /\ suite' = [suite EXCEPT ![f.key] = s]
  /\ flows' = flows \ {f}
  /\ s.status = IF suite[f.key].status = "canceled" THEN "canceled" ELSE "failed"
  /\ s.base = suite[f.key].base /\ s.guidance = suite[f.key].guidance
  /\ s.run = suite[f.key].run /\ s.chains = suite[f.key].chains
  /\ s.training \in {0, s.guidance} /\ s.evaluation \in {0, s.guidance}
  /\ UNCHANGED <<run, pull, given>>

LEMMA GoneKeeps ==
  ASSUME IInv, TypeOK', NEW f \in flows, f.step \in OwnerSteps, NEW s, Gone(f, s)
  PROVE  IInv'
<1> USE DEF Gone
<1>1. f.key \in Keys /\ Exists(f.key) /\ \A h \in flows : h.key \in Keys
  BY DEF IInv, TypeOK, Flow, FlowsKnowTheirSuite
<1>2. suite'[f.key] = s /\ \A k \in Keys : k # f.key => suite'[k] = suite[k]
  BY <1>1 DEF IInv, TypeOK
<1>3. AnswersStand' /\ FlowsKnowTheirSuite' /\ CancelsFollowCancel'
  BY <1>1, <1>2
  DEF IInv, TypeOK, AnswersStand, FlowsKnowTheirSuite, CancelsFollowCancel
<1>4. OwnersAgree' /\ OneOwner' /\ SetupsAreOwned'
  BY <1>1, <1>2 DEF IInv, OwnersAgree, OneOwner, SetupsAreOwned
<1>5. LinksAgree'
  BY <1>1, <1>2 DEF IInv, LinksAgree, OneOwner
<1>6. RunsAgree' /\ PullsArePursued'
  BY <1>1, <1>2
  DEF IInv, RunsAgree, PullsArePursued, ActiveRun, Shared, PullTasks, Missing
<1> QED
  BY <1>3, <1>4, <1>5, <1>6 DEF IInv

\* What a failure leaves of a suite that is set up.
LEMMA FailedFields ==
  ASSUME NEW s \in SuiteRecord, NEW token \in BOOLEAN
  PROVE  /\ Failed(s, token).status = IF s.status = "canceled" THEN "canceled" ELSE "failed"
         /\ Failed(s, token).base = s.base /\ Failed(s, token).guidance = s.guidance
         /\ Failed(s, token).training = s.training /\ Failed(s, token).evaluation = s.evaluation
         /\ Failed(s, token).run = s.run /\ Failed(s, token).chains = s.chains
  BY DEF Failed, SuiteRecord

LEMMA FailKeeps ==
  ASSUME IInv, TypeOK', NEW f \in flows, f.step \in OwnerSteps, NEW token \in BOOLEAN,
         Fail(f, token), UNCHANGED <<run, pull, given>>
  PROVE  IInv'
<1> DEFINE s == suite[f.key]
<1>1. f.key \in Keys /\ s \in SuiteRecord
  BY DEF IInv, TypeOK, Flow
<1>2. suite' = [suite EXCEPT ![f.key] = Failed(s, token)] /\ flows' = flows \ {f}
  BY DEF Fail, Ends, Then
<1>3. s.training \in {0, s.guidance} /\ s.evaluation \in {0, s.guidance}
  BY <1>1 DEF IInv, LinksAgree
<1> HIDE DEF s
<1>4. Gone(f, Failed(s, token))
  BY <1>1, <1>2, <1>3, FailedFields DEF Gone, s
<1> QED
  BY <1>4, GoneKeeps

\* Requests: a launch that begins or is answered, a cancel.
LEMMA RequestKeeps ==
  ASSUME IInv, TypeOK', NEW k \in Keys, NEW b \in Bases, Launch(k, b) \/ Cancel(k)
  PROVE  IInv'
<1>1. CASE Launch(k, b)
  <2> USE <1>1 DEF Launch, Requested, Replay
  <2>1. AnswersStand' /\ FlowsKnowTheirSuite' /\ CancelsFollowCancel'
    BY DEF IInv, AnswersStand, FlowsKnowTheirSuite, CancelsFollowCancel, Matches
  <2>2. OwnersAgree' /\ OneOwner' /\ SetupsAreOwned'
    BY DEF IInv, OwnersAgree, OneOwner, SetupsAreOwned
  <2>3. LinksAgree'
    BY DEF IInv, LinksAgree
  <2>4. RunsAgree' /\ PullsArePursued'
    BY DEF IInv, RunsAgree, PullsArePursued, ActiveRun, Shared, PullTasks, Missing
  <2> QED
    BY <2>1, <2>2, <2>3, <2>4 DEF IInv
<1>2. CASE Cancel(k)
  <2> USE <1>2 DEF Cancel, Requested
  <2>1. AnswersStand' /\ FlowsKnowTheirSuite' /\ CancelsFollowCancel'
    BY DEF IInv, TypeOK, Flow, SuiteRecord, AnswersStand, FlowsKnowTheirSuite, CancelsFollowCancel
  <2>2. OwnersAgree' /\ OneOwner' /\ SetupsAreOwned'
    BY DEF IInv, TypeOK, Flow, SuiteRecord, Idle, OwnersAgree, OneOwner, SetupsAreOwned
  <2>3. LinksAgree'
    BY DEF IInv, TypeOK, Flow, SuiteRecord, LinksAgree, OwnersAgree
  <2>4. RunsAgree' /\ PullsArePursued'
    BY DEF IInv, TypeOK, Flow, SuiteRecord, RunsAgree, PullsArePursued, ActiveRun, Shared,
       PullTasks, Missing
  <2> QED
    BY <2>1, <2>2, <2>3, <2>4 DEF IInv
<1> QED
  BY <1>1, <1>2

\* A request takes a key nobody has, for a suite that waits for run r of its
\* base: one under way, or a new one that the flows of P pull.
Claims(f, r, P) ==
  /\ f.step = "preflight" /\ ~ Exists(f.key) /\ Missing(f.base)
  /\ suite' = [suite EXCEPT ![f.key] = Provisional(f, r)]
  /\ flows' = (flows \ {f}) \cup {Owned(f, r)} \cup P
  /\ given' = given \cup {<<f.key, f.base>>}
  /\ \A p \in P : p.step = "pull" /\ p.run = r /\ p.base = f.base
  /\ \A p, q \in P : p = q
  /\ P # {} => PullTasks(r) = {}
  /\ r \in ActiveRun \/ P # {}
  /\ ActiveRun' = ActiveRun \cup {r}
  /\ run'[r].base = f.base
  /\ run[r].status # "none" => run[r].base = f.base
  /\ \A q \in Runs : q # r => run'[q] = run[q]
  /\ \A b \in Bases : b # f.base => pull'[b] = pull[b]

LEMMA ClaimKeeps ==
  ASSUME IInv, TypeOK', NEW f \in flows, NEW r \in Runs, NEW P \in SUBSET Flow, Claims(f, r, P)
  PROVE  IInv'
<1> USE DEF Claims
<1> DEFINE w == Owned(f, r)
           s == Provisional(f, r)
<1>1. /\ f \in Flow /\ f.key \in Keys /\ f.base \in Bases
      /\ \A h \in flows : h.key \in Keys /\ h.base \in Bases
  BY DEF IInv, TypeOK, Flow
<1>2. /\ w.step = "wait" /\ w.key = f.key /\ w.base = f.base /\ w.run = r
      /\ w.key \in Keys
  BY <1>1 DEF Owned, Flow
<1>3. /\ s.status = "provisioning" /\ s.base = f.base /\ s.guidance = active /\ s.run = r
      /\ s.training = 0 /\ s.evaluation = 0
  BY SuiteTypes DEF Provisional, NoSuite
<1>4. suite'[f.key] = s /\ \A k \in Keys : k # f.key => suite'[k] = suite[k]
  BY <1>1 DEF IInv, TypeOK
<1>5. \A h \in flows : h.key = f.key =>
        h.step \notin OwnerSteps \cup Starting \cup {"cancel_setup"}
  BY DEF IInv, FlowsKnowTheirSuite, CancelsFollowCancel
<1>6. active # 0 /\ 0 \notin Runs
  BY SetupBoundsAssumption DEF IInv, TypeOK, Versions, Runs
<1>7. flows' = (flows \ {f}) \cup {w} \cup P
  OBVIOUS
<1>8. \A a \in given : Exists(a[1]) /\ suite[a[1]].base = a[2] /\ a[1] \in Keys
  BY DEF IInv, TypeOK, AnswersStand
<1> HIDE DEF s, w
<1>9. AnswersStand'
  BY <1>1, <1>3, <1>4, <1>8 DEF AnswersStand
<1>10. FlowsKnowTheirSuite' /\ CancelsFollowCancel' /\ OwnersAgree'
  BY <1>1, <1>2, <1>3, <1>4, <1>5, <1>7
  DEF IInv, FlowsKnowTheirSuite, CancelsFollowCancel, OwnersAgree
<1>11. OneOwner'
  BY <1>1, <1>2, <1>5, <1>7 DEF IInv, OneOwner, PullTasks
<1>12. SetupsAreOwned'
  BY <1>1, <1>2, <1>3, <1>4, <1>7 DEF IInv, SetupsAreOwned
<1>13. LinksAgree'
  BY <1>1, <1>2, <1>3, <1>4, <1>5, <1>6, <1>7 DEF IInv, LinksAgree
<1>14. RunsAgree'
  <2>1. \A q \in Runs : run[q].status # "none" =>
          run'[q].status # "none" /\ run'[q].base = run[q].base
    BY DEF ActiveRun
  <2>2. run'[r].status # "none"
    BY DEF ActiveRun
  <2>3. \A h \in flows : h.run \in Runs \cup {0}
    BY DEF IInv, TypeOK, Flow
  <2>4. \A k \in Keys : suite[k].run \in Runs \cup {0}
    BY DEF IInv, TypeOK, SuiteRecord
  <2>5. \A h \in flows : h.step = "record" => pull'[h.base] = "pull_complete"
    BY <1>1 DEF IInv, RunsAgree, Missing
  <2>6. \A h \in flows' : h.run # 0 => run'[h.run].status # "none" /\ run'[h.run].base = h.base
    BY <1>2, <1>7, <2>1, <2>2, <2>3 DEF IInv, RunsAgree
  <2>7. \A k \in Keys : suite'[k].run # 0 => run'[suite'[k].run].status # "none"
                                            /\ run'[suite'[k].run].base = suite'[k].base
    BY <1>3, <1>4, <2>1, <2>2, <2>4 DEF IInv, RunsAgree
  <2> QED
    BY <1>2, <1>6, <1>7, <2>5, <2>6, <2>7 DEF IInv, RunsAgree, Missing
<1>15. PullsArePursued'
  <2>1. r \in Shared(f.base)'
    BY DEF Shared
  <2>2. \A b \in Bases : Shared(b) \subseteq Shared(b)'
    BY DEF Shared, ActiveRun
  <2>3. \A q \in ActiveRun : PullTasks(q) # {}
    BY DEF IInv, PullsArePursued
  <2>4. \A q \in ActiveRun' : q \in ActiveRun \/ (q = r /\ P # {})
    BY DEF ActiveRun
  <2>5. \A q \in Runs : PullTasks(q) \subseteq PullTasks(q)'
    BY <1>7 DEF PullTasks
  <2>6. P # {} => PullTasks(r)' # {}
    BY <1>7 DEF PullTasks
  <2>7. ActiveRun' \subseteq Runs
    BY DEF ActiveRun
  <2> QED
    BY <2>1, <2>2, <2>3, <2>4, <2>5, <2>6, <2>7 DEF IInv, PullsArePursued
<1> QED
  BY <1>9, <1>10, <1>11, <1>12, <1>13, <1>14, <1>15 DEF IInv

\* Provisioning: joined or started, pulled, recorded, failed.
LEMMA ProvisioningKeeps ==
  ASSUME IInv, TypeOK', NEW f \in flows,
         ProvisioningJoined(f) \/ ProvisioningStarted(f) \/ Provisioning(f)
  PROVE  IInv'
<1>0. /\ f \in Flow /\ f.key \in Keys /\ f.base \in Bases /\ f.run \in Runs \cup {0}
      /\ \A r \in Runs : run[r].base \in Bases
      /\ ActiveRun \subseteq Runs
  BY DEF IInv, TypeOK, Flow, ActiveRun
<1>1. CASE ProvisioningJoined(f)
  <2>1. PICK r \in Shared(f.base) : /\ suite' = [suite EXCEPT ![f.key] = Provisional(f, r)]
                                    /\ Then(f, {Owned(f, r)})
    BY <1>1 DEF ProvisioningJoined
  <2>2. r \in Runs /\ r \in ActiveRun /\ run[r].base = f.base /\ ActiveRun' = ActiveRun
    BY <1>1 DEF ProvisioningJoined, Shared, ActiveRun
  <2>3. Claims(f, r, {})
    BY <1>1, <2>1, <2>2 DEF ProvisioningJoined, Claims, Then
  <2> QED
    BY <2>2, <2>3, ClaimKeeps
<1>2. CASE ProvisioningStarted(f)
  <2>1. PICK r \in NewRun :
          /\ run' = [run EXCEPT ![r] = [status |-> "queued", base |-> f.base]]
          /\ suite' = [suite EXCEPT ![f.key] = Provisional(f, r)]
          /\ Then(f, {Owned(f, r), [To(f, "pull") EXCEPT !.run = r, !.task = TRUE]})
    BY <1>2 DEF ProvisioningStarted
  <2> DEFINE p == [To(f, "pull") EXCEPT !.run = r, !.task = TRUE]
  <2>2. r \in Runs /\ run[r].status = "none"
    BY DEF NewRun
  <2>3. p \in Flow /\ p.step = "pull" /\ p.run = r /\ p.base = f.base
    BY <1>0, <2>2 DEF To, Flow
  <2>4. /\ run'[r] = [status |-> "queued", base |-> f.base]
        /\ \A q \in Runs : q # r => run'[q] = run[q]
    BY <2>1, <2>2 DEF IInv, TypeOK
  <2>5. ActiveRun' = ActiveRun \cup {r}
    BY <2>2, <2>4 DEF ActiveRun
  <2>6. PullTasks(r) = {}
    BY <2>2 DEF IInv, RunsAgree, PullTasks, ActiveRun
  <2>7. \A b \in Bases : b # f.base => pull'[b] = pull[b]
    BY <1>2 DEF ProvisioningStarted, IInv, TypeOK
  <2>8. flows' = (flows \ {f}) \cup {Owned(f, r)} \cup {p}
    BY <2>1 DEF Then
  <2> HIDE DEF p
  <2>9. Claims(f, r, {p})
    <3>1. suite' = [suite EXCEPT ![f.key] = Provisional(f, r)]
      BY <2>1
    <3>2. run'[r].base = f.base
      BY <2>4
    <3> QED
      BY <1>2, <2>2, <2>3, <2>4, <2>5, <2>6, <2>7, <2>8, <3>1, <3>2
      DEF ProvisioningStarted, Claims
  <2> QED
    BY <2>2, <2>3, <2>9, ClaimKeeps
<1>3. CASE Pulled(f)
  <2>1. /\ To(f, "record") \in Flow /\ To(f, "record").step = "record"
        /\ To(f, "record").key = f.key /\ To(f, "record").base = f.base
        /\ To(f, "record").run = f.run
    BY <1>0, FlowGoes DEF Steps
  <2>2. f.step = "pull" /\ f.run \in ActiveRun /\ run[f.run].base = f.base /\ f.run # 0
    BY <1>3 DEF Pulled, IInv, RunsAgree
  <2>3. flows' = (flows \ {f}) \cup {To(f, "record")} /\ UNCHANGED <<suite, given>>
    BY <1>3 DEF Pulled, Then
  <2>4. \A q \in Runs : /\ run'[q].base = run[q].base
                        /\ run'[q].status = IF q = f.run THEN "running" ELSE run[q].status
    BY <1>0, <1>3, <2>2 DEF Pulled, IInv, TypeOK
  <2>5. \A b \in Bases : pull'[b] = IF b = f.base THEN "pull_complete" ELSE pull[b]
    BY <1>3 DEF Pulled, IInv, TypeOK
  <2>6. ActiveRun' = ActiveRun
    BY <1>0, <2>2, <2>4 DEF ActiveRun
  <2>7. AnswersStand' /\ FlowsKnowTheirSuite' /\ OwnersAgree' /\ CancelsFollowCancel'
    BY <2>1, <2>3
    DEF IInv, AnswersStand, FlowsKnowTheirSuite, OwnersAgree, CancelsFollowCancel
  <2>8. OneOwner' /\ SetupsAreOwned' /\ LinksAgree'
    BY <2>1, <2>2, <2>3 DEF IInv, OneOwner, SetupsAreOwned, LinksAgree
  <2>9. RunsAgree'
    <3>1. \A h \in flows' : h.run \in Runs \cup {0} /\ h.base \in Bases
      BY DEF TypeOK, Flow
    <3>2. \A k \in Keys : suite[k].run \in Runs \cup {0}
      BY DEF IInv, TypeOK, SuiteRecord
    <3> QED
      BY <1>0, <2>1, <2>2, <2>3, <2>4, <2>5, <2>6, <3>1, <3>2 DEF IInv, RunsAgree, Missing
  <2>10. PullsArePursued'
    <3>1. \A b \in Bases : Shared(b)' = Shared(b)
      BY <1>0, <2>4, <2>6 DEF Shared
    <3>2. \A r \in ActiveRun : r # f.run => PullTasks(r) \subseteq PullTasks(r)'
      BY <2>3 DEF PullTasks
    <3>3. To(f, "record") \in PullTasks(f.run)'
      BY <2>1, <2>3 DEF PullTasks
    <3> QED
      BY <2>5, <2>6, <3>1, <3>2, <3>3 DEF IInv, PullsArePursued
  <2> QED
    BY <2>7, <2>8, <2>9, <2>10 DEF IInv
<1>4. CASE Recorded(f) \/ PullFails(f)
  <2>1. f.step \in PullSteps /\ f.run \in ActiveRun /\ run[f.run].base = f.base /\ f.run # 0
    BY <1>4 DEF Recorded, PullFails, IInv, RunsAgree
  <2>2. flows' = flows \ {f} /\ UNCHANGED <<suite, given>>
    BY <1>4 DEF Recorded, PullFails, Ends, Then
  <2>3. \A q \in Runs : /\ run'[q].base = run[q].base
                        /\ q # f.run => run'[q] = run[q]
                        /\ q = f.run => run'[q].status \in {"succeeded", "failed"}
    BY <1>0, <1>4, <2>1 DEF Recorded, PullFails, IInv, TypeOK
  <2>4. \A b \in Bases : /\ Missing(b)' = Missing(b)
                         /\ b # f.base => pull'[b] = pull[b]
                         /\ b = f.base => pull'[b] # "pulling"
    BY <1>4, <2>1
    DEF Recorded, PullFails, Unpulled, Missing, IInv, TypeOK, RunsAgree
  <2>5. ActiveRun' = ActiveRun \ {f.run}
    BY <1>0, <2>3 DEF ActiveRun
  <2>6. \A h \in flows : h.step \in PullSteps /\ h.run = f.run => h = f
    BY <2>1 DEF IInv, OneOwner
  <2>7. AnswersStand' /\ FlowsKnowTheirSuite' /\ OwnersAgree' /\ CancelsFollowCancel'
    BY <2>1, <2>2 DEF IInv, AnswersStand, FlowsKnowTheirSuite, OwnersAgree, CancelsFollowCancel
  <2>8. OneOwner' /\ SetupsAreOwned' /\ LinksAgree'
    BY <2>1, <2>2 DEF IInv, OneOwner, SetupsAreOwned, LinksAgree
  <2>9. RunsAgree'
    <3>1. \A h \in flows : h.run \in Runs \cup {0} /\ h.base \in Bases
      BY DEF IInv, TypeOK, Flow
    <3>2. \A k \in Keys : suite[k].run \in Runs \cup {0}
      BY DEF IInv, TypeOK, SuiteRecord
    <3>3. \A q \in Runs : run[q].status # "none" =>
            run'[q].status # "none" /\ run'[q].base = run[q].base
      BY <2>3
    <3> QED
      BY <2>2, <2>4, <2>5, <2>6, <3>1, <3>2, <3>3 DEF IInv, RunsAgree
  <2>10. PullsArePursued'
    <3>1. \A b \in Bases : b # f.base => Shared(b)' = Shared(b)
      BY <1>0, <2>1, <2>3, <2>5 DEF Shared
    <3>2. \A r \in ActiveRun : r # f.run => PullTasks(r)' = PullTasks(r)
      BY <2>2 DEF PullTasks
    <3> QED
      BY <2>4, <2>5, <3>1, <3>2 DEF IInv, PullsArePursued
  <2> QED
    BY <2>7, <2>8, <2>9, <2>10 DEF IInv
<1> QED
  BY <1>1, <1>2, <1>3, <1>4 DEF Provisioning

\* The owner of suite k's setup goes on as g, its suite becoming s.
GoesOn(f, g, s) ==
  /\ suite' = [suite EXCEPT ![f.key] = s]
  /\ flows' = (flows \ {f}) \cup {g}
  /\ g.key = f.key /\ g.base = f.base /\ g.run = f.run
  /\ s.base = f.base
  /\ s.run # 0 => Exists(f.key) /\ s.run = suite[f.key].run
  /\ s.guidance # 0
  /\ UNCHANGED <<run, pull>>

\* Nobody but f has the suite of f in hand, or is about to cancel its setup.
AloneWith(f) ==
  \A h \in flows : h # f /\ h.key = f.key => h.step \notin OwnerSteps \cup Starting

\* A setup goes on, or begins, with the exports of the Guidance it froze.
LEMMA SetupKeeps ==
  ASSUME IInv, TypeOK', NEW f \in flows, NEW g \in Flow, NEW s \in SuiteRecord,
         GoesOn(f, g, s), AloneWith(f), UNCHANGED given,
         f.step \notin PullSteps, g.step \in Building,
         s.status = "preparing", g.g = s.guidance,
         s.training \in {0, s.guidance}, s.evaluation \in {0, s.guidance},
         g.step # "train" => s.training = s.guidance,
         g.step \in {"upload_train", "upload_eval"} => s.evaluation = s.guidance,
         suite[f.key].status # "canceled",
         Exists(f.key) => suite[f.key].base = f.base
  PROVE  IInv'
<1> USE DEF GoesOn
<1>1. f.key \in Keys /\ \A h \in flows : h.key \in Keys
  BY DEF IInv, TypeOK, Flow
<1>2. suite'[f.key] = s /\ \A k \in Keys : k # f.key => suite'[k] = suite[k]
  BY <1>1 DEF IInv, TypeOK
<1>3. AnswersStand' /\ FlowsKnowTheirSuite' /\ CancelsFollowCancel'
  BY <1>1, <1>2
  DEF IInv, TypeOK, AnswersStand, FlowsKnowTheirSuite, CancelsFollowCancel
<1>4. OwnersAgree'
  BY <1>1, <1>2 DEF IInv, OwnersAgree, AloneWith
<1>5. OneOwner' /\ SetupsAreOwned'
  BY <1>1, <1>2 DEF IInv, OneOwner, SetupsAreOwned, AloneWith
<1>6. LinksAgree'
  BY <1>1, <1>2 DEF IInv, LinksAgree, AloneWith
<1>7. RunsAgree'
  BY <1>1, <1>2 DEF IInv, FlowsKnowTheirSuite, RunsAgree, ActiveRun, Missing
<1>8. PullsArePursued'
  BY <1>1 DEF IInv, PullsArePursued, ActiveRun, Shared, PullTasks
<1> QED
  BY <1>3, <1>4, <1>5, <1>6, <1>7, <1>8 DEF IInv

\* create_training_suite: the key taken, the request refused, the setup begun.
LEMMA CreateKeeps ==
  ASSUME IInv, TypeOK', NEW f \in flows, CreateReplays(f) \/ CreateRefused(f) \/ Create(f)
  PROVE  IInv'
<1>0. /\ f \in Flow /\ f.key \in Keys /\ f.base \in Bases
      /\ suite[f.key] \in SuiteRecord
  BY DEF IInv, TypeOK, Flow
<1>m. ASSUME MayCreate(f) PROVE f.step \in {"preflight", "wait"}
  BY <1>m DEF MayCreate
<1>1. CASE CreateReplays(f)
  <2>1. Ends(f) /\ UNCHANGED <<suite, run, pull>> /\ f.step \in {"preflight", "wait"}
    BY <1>1, <1>m DEF CreateReplays
  <2>2. f.step = "wait" => suite[f.key].status \notin Setup
    BY <1>1 DEF CreateReplays, Adopts, Matches, IInv, FlowsKnowTheirSuite
  <2>3. \A a \in given' \ given : Exists(a[1]) /\ suite[a[1]].base = a[2]
    BY <1>1 DEF CreateReplays, Replay, Matches
  <2> QED
    BY <2>1, <2>2, <2>3, EndKeeps
<1>2. CASE CreateRefused(f)
  <2>1. CASE f.step = "wait"
    <3>1. Fail(f, FALSE) /\ UNCHANGED <<run, pull, given>> /\ f.step \in OwnerSteps
      BY <1>2, <2>1 DEF CreateRefused
    <3> QED
      BY <3>1, FailKeeps
  <2>2. CASE f.step # "wait"
    <3>1. Ends(f) /\ UNCHANGED <<suite, run, pull, given>> /\ f.step = "preflight"
      BY <1>2, <1>m, <2>2 DEF CreateRefused
    <3> QED
      BY <3>1, EndKeeps
  <2> QED
    BY <2>1, <2>2
<1>3. CASE Create(f)
  <2> DEFINE s == Claimed(f)
             g == [To(f, NextStep(s)) EXCEPT !.g = active]
  <2>1. /\ f.step \in {"preflight", "wait"}
        /\ suite' = [suite EXCEPT ![f.key] = s] /\ flows' = (flows \ {f}) \cup {g}
        /\ UNCHANGED <<run, pull, given>>
        /\ Exists(f.key) => Adopts(f) /\ suite[f.key].guidance = active
    BY <1>3, <1>m DEF Create, Then
  <2>2. active \in Versions /\ active # 0
    BY DEF IInv, TypeOK, Versions
  <2>3. Exists(f.key) => suite[f.key].base = f.base /\ suite[f.key].status # "canceled"
    BY <2>1 DEF Adopts, Matches, Retryable
  <2>4. /\ s.status = "preparing" /\ s.base = f.base /\ s.guidance = active
        /\ s.run # 0 => Exists(f.key) /\ s.run = suite[f.key].run
        /\ s.training \in {0, active} /\ s.evaluation \in {0, active}
        /\ s \in SuiteRecord
    <3>1. CASE Exists(f.key)
      <4>1. s = [suite[f.key] EXCEPT !.status = "preparing", !.transfer = FALSE]
        BY <3>1 DEF Claimed
      <4>2. s \in SuiteRecord
        BY <1>0, <4>1, SuiteUpdates
      <4>3. /\ suite[f.key].training \in {0, suite[f.key].guidance}
            /\ suite[f.key].evaluation \in {0, suite[f.key].guidance}
        BY <1>0 DEF IInv, LinksAgree
      <4>4. /\ s.status = "preparing" /\ s.base = suite[f.key].base
            /\ s.guidance = suite[f.key].guidance /\ s.run = suite[f.key].run
            /\ s.training = suite[f.key].training /\ s.evaluation = suite[f.key].evaluation
        BY <1>0, <4>1 DEF SuiteRecord
      <4> QED
        BY <2>1, <2>3, <3>1, <4>2, <4>3, <4>4
    <3>2. CASE ~ Exists(f.key)
      <4>1. s = [NoSuite EXCEPT !.status = "preparing", !.base = f.base, !.guidance = active]
        BY <3>2 DEF Claimed
      <4>2. s \in SuiteRecord
        BY <1>0, <2>2, <4>1, SuiteTypes DEF SuiteRecord
      <4>3. /\ s.status = "preparing" /\ s.base = f.base /\ s.guidance = active
            /\ s.run = 0 /\ s.training = 0 /\ s.evaluation = 0
        BY <4>1 DEF NoSuite
      <4> QED
        BY <4>2, <4>3
    <3> QED
      BY <3>1, <3>2
  <2>5. /\ NextStep(s) \in {"train", "eval", "upload_train"}
        /\ NextStep(s) # "train" => s.training # 0
        /\ NextStep(s) = "upload_train" => s.evaluation # 0
    BY DEF NextStep
  <2>6. /\ g \in Flow /\ g.step = NextStep(s) /\ g.g = active
        /\ g.key = f.key /\ g.base = f.base /\ g.run = f.run
    BY <1>0, <2>2, <2>5 DEF To, Flow
  <2>7. AloneWith(f)
    <3>1. CASE ~ Exists(f.key)
      BY <3>1 DEF AloneWith, IInv, FlowsKnowTheirSuite
    <3>2. CASE Exists(f.key) /\ f.step = "wait"
      <4>1. suite[f.key].status = "provisioning"
        BY <2>1, <3>2 DEF Adopts, IInv, OwnersAgree
      <4> QED
        BY <3>2, <4>1 DEF AloneWith, IInv, OneOwner, OwnersAgree
    <3>3. CASE Exists(f.key) /\ f.step # "wait"
      <4>1. suite[f.key].status = "failed" /\ ~ suite[f.key].chains
        BY <2>1, <3>3 DEF Adopts, Retryable
      <4> QED
        BY <4>1 DEF AloneWith, IInv, OwnersAgree
    <3> QED
      BY <3>1, <3>2, <3>3
  <2> HIDE DEF s, g
  <2>8. GoesOn(f, g, s)
    BY <2>1, <2>2, <2>4, <2>6 DEF GoesOn
  <2> QED
    BY <2>1, <2>2, <2>3, <2>4, <2>5, <2>6, <2>7, <2>8, SetupKeeps
<1> QED
  BY <1>1, <1>2, <1>3

\* The exports and uploads of a setup, one after the other, or its failure.
LEMMA BuildKeeps ==
  ASSUME IInv, TypeOK', NEW f \in flows,
         Build(f) \/ BuildFails(f) \/ Uploaded(f) \/ UploadFails(f) \/ Abandon(f) \/ WaitFails(f)
  PROVE  IInv'
<1> DEFINE s == suite[f.key]
           t == [s EXCEPT !.training = f.g]
           e == [s EXCEPT !.evaluation = f.g]
<1>1. /\ f \in Flow /\ f.key \in Keys /\ s \in SuiteRecord
      /\ f.g \in Versions \cup {0} /\ suite = [suite EXCEPT ![f.key] = s]
  BY DEF IInv, TypeOK, Flow
<1>2. /\ s.training \in {0, s.guidance} /\ s.evaluation \in {0, s.guidance}
      /\ s.status = "preparing" => s.guidance # 0
  BY <1>1 DEF IInv, LinksAgree
<1>3. f.step \in OwnerSteps => s.base = f.base /\ Exists(f.key)
  BY DEF IInv, FlowsKnowTheirSuite
<1>4. ASSUME f.step \in Building, s.status = "preparing"
      PROVE  /\ AloneWith(f) /\ f.g = s.guidance
             /\ f.step # "train" => s.training = f.g
             /\ f.step \in {"upload_train", "upload_eval"} => s.evaluation = f.g
  BY <1>4 DEF IInv, LinksAgree, OneOwner, OwnersAgree, AloneWith
<1>5. /\ t \in SuiteRecord /\ t.training = f.g /\ t.evaluation = s.evaluation
      /\ t.status = s.status /\ t.base = s.base /\ t.guidance = s.guidance
      /\ t.run = s.run /\ t.chains = s.chains
      /\ e \in SuiteRecord /\ e.evaluation = f.g /\ e.training = s.training
      /\ e.status = s.status /\ e.base = s.base /\ e.guidance = s.guidance
      /\ e.run = s.run /\ e.chains = s.chains
  BY <1>1 DEF SuiteRecord
<1>6. ASSUME NEW x \in Building
      PROVE  /\ To(f, x) \in Flow /\ To(f, x).step = x /\ To(f, x).g = f.g
             /\ To(f, x).key = f.key /\ To(f, x).base = f.base /\ To(f, x).run = f.run
  BY <1>1, FlowGoes DEF Steps
<1> HIDE DEF s, t, e
<1>7. CASE Build(f)
  <2>1. s.status = "preparing" /\ f.step \in {"train", "eval"} /\ UNCHANGED <<run, pull, given>>
    BY <1>7 DEF Build, Links, s
  <2>2. CASE f.step = "train"
    <3>1. GoesOn(f, To(f, "eval"), t)
      BY <1>2, <1>3, <1>5, <1>6, <1>7, <2>1, <2>2 DEF Build, GoesOn, Then, s, t
    <3> QED
      BY <1>2, <1>3, <1>4, <1>5, <1>6, <2>1, <2>2, <3>1, SetupKeeps DEF s
  <2>3. CASE f.step = "eval"
    <3>1. GoesOn(f, To(f, "upload_train"), e)
      BY <1>2, <1>3, <1>5, <1>6, <1>7, <2>1, <2>3 DEF Build, GoesOn, Then, s, e
    <3> QED
      BY <1>2, <1>3, <1>4, <1>5, <1>6, <2>1, <2>3, <3>1, SetupKeeps DEF s
  <2> QED
    BY <2>1, <2>2, <2>3
<1>8. CASE BuildFails(f)
  <2>1. f.step \in {"train", "eval"} /\ UNCHANGED <<run, pull, given>>
    BY <1>8 DEF BuildFails
  <2>2. CASE Fail(f, FALSE)
    BY <2>1, <2>2, FailKeeps
  <2>3. CASE ~ Fail(f, FALSE)
    <3> DEFINE x == IF f.step = "train" THEN t ELSE e
    <3>1. s.status = "preparing" /\ flows' = flows \ {f}
          /\ suite' = [suite EXCEPT ![f.key] = Failed(x, FALSE)]
      BY <1>8, <2>3 DEF BuildFails, Links, Ends, Then, s, t, e
    <3>2. x \in SuiteRecord /\ x.status = s.status /\ x.base = s.base /\ x.guidance = s.guidance
          /\ x.run = s.run /\ x.chains = s.chains
          /\ x.training \in {0, s.guidance} /\ x.evaluation \in {0, s.guidance}
      BY <1>2, <1>4, <1>5, <2>1, <3>1
    <3> HIDE DEF x
    <3>3. Gone(f, Failed(x, FALSE))
      BY <2>1, <3>1, <3>2, FailedFields DEF Gone, s
    <3> QED
      BY <2>1, <3>3, GoneKeeps
  <2> QED
    BY <2>2, <2>3
<1>9. CASE Uploaded(f)
  <2>1. f.step = "upload_train" /\ UNCHANGED <<run, pull, given>>
    BY <1>9 DEF Uploaded
  <2>2. CASE s.status = "preparing"
    <3>1. GoesOn(f, To(f, "upload_eval"), s)
      BY <1>1, <1>2, <1>3, <1>6, <1>9, <2>1, <2>2 DEF Uploaded, GoesOn, Then, s
    <3> QED
      BY <1>1, <1>2, <1>3, <1>4, <1>6, <2>1, <2>2, <3>1, SetupKeeps DEF s
  <2>3. CASE s.status # "preparing"
    BY <1>9, <2>1, <2>3, FailKeeps DEF Uploaded, s
  <2> QED
    BY <2>2, <2>3
<1>10. CASE UploadFails(f)
  BY <1>10, FailKeeps DEF UploadFails
<1>11. CASE Abandon(f)
  BY <1>11, FailKeeps DEF Abandon
<1>12. CASE WaitFails(f)
  BY <1>12, FailKeeps DEF WaitFails
<1> QED
  BY <1>7, <1>8, <1>9, <1>10, <1>11, <1>12

\* The chains are created, their first job is asked for, and the suite rolls up.
LEMMA SubmitKeeps ==
  ASSUME IInv, TypeOK',
         \/ \E f \in flows : Commit(f) \/ Kickoff(f) \/ (Idle /\ Posted(f))
         \/ \E k \in Keys : RolledUp(k)
  PROVE  IInv'
<1>1. CASE \E f \in flows : Commit(f)
  <2>1. PICK f \in flows : Commit(f)
    BY <1>1
  <2> DEFINE k == f.key
             s == [suite[k] EXCEPT !.status = "initialized", !.guidance = f.g, !.chains = TRUE]
             g == To(f, "kickoff")
  <2>2. /\ f.step = "upload_eval" /\ suite[k].status = "preparing" /\ f.g = active
        /\ suite' = [suite EXCEPT ![k] = s] /\ flows' = (flows \ {f}) \cup {g}
        /\ UNCHANGED <<run, pull, given>>
    BY <2>1 DEF Commit, StillPreparing, StillActive, Then
  <2>3. f \in Flow /\ k \in Keys /\ \A h \in flows : h.key \in Keys
    BY DEF IInv, TypeOK, Flow
  <2>4. suite[k].training = f.g /\ suite[k].evaluation = f.g /\ f.g # 0
    BY <2>2 DEF IInv, LinksAgree, TypeOK, Versions
  <2>5. /\ s.status = "initialized" /\ s.guidance = f.g /\ s.chains /\ s.base = suite[k].base
        /\ s.run = suite[k].run /\ s.training = f.g /\ s.evaluation = f.g
    BY <2>3, <2>4 DEF IInv, TypeOK, SuiteRecord
  <2>6. g.step = "kickoff" /\ g.key = k /\ g.base = f.base /\ g.run = f.run
    BY <2>3, FlowGoes DEF Steps
  <2>7. suite'[k] = s /\ \A j \in Keys : j # k => suite'[j] = suite[j]
    BY <2>2, <2>3 DEF IInv, TypeOK
  <2> HIDE DEF s, g
  <2>8. AnswersStand' /\ FlowsKnowTheirSuite' /\ CancelsFollowCancel'
    BY <2>2, <2>3, <2>5, <2>6, <2>7
    DEF IInv, TypeOK, AnswersStand, FlowsKnowTheirSuite, CancelsFollowCancel
  <2>9. OwnersAgree' /\ OneOwner' /\ SetupsAreOwned'
    BY <2>2, <2>3, <2>5, <2>6, <2>7 DEF IInv, OwnersAgree, OneOwner, SetupsAreOwned
  <2>10. LinksAgree'
    BY <2>2, <2>3, <2>4, <2>5, <2>6, <2>7 DEF IInv, LinksAgree, OneOwner
  <2>11. RunsAgree' /\ PullsArePursued'
    BY <2>2, <2>3, <2>5, <2>6, <2>7
    DEF IInv, RunsAgree, PullsArePursued, ActiveRun, Shared, PullTasks, Missing
  <2> QED
    BY <2>8, <2>9, <2>10, <2>11 DEF IInv
<1>2. CASE \E f \in flows : Kickoff(f)
  <2>1. PICK f \in flows : Kickoff(f)
    BY <1>2
  <2> USE <2>1 DEF Kickoff, Then, To
  <2>2. AnswersStand' /\ FlowsKnowTheirSuite' /\ CancelsFollowCancel'
    BY DEF IInv, TypeOK, Flow, SuiteRecord, AnswersStand, FlowsKnowTheirSuite, CancelsFollowCancel
  <2>3. OwnersAgree' /\ OneOwner' /\ SetupsAreOwned'
    BY DEF IInv, TypeOK, Flow, SuiteRecord, OwnersAgree, OneOwner, SetupsAreOwned
  <2>4. LinksAgree'
    BY DEF IInv, TypeOK, Flow, SuiteRecord, LinksAgree
  <2>5. RunsAgree' /\ PullsArePursued'
    BY DEF IInv, TypeOK, Flow, SuiteRecord, RunsAgree, PullsArePursued, ActiveRun, Shared,
       PullTasks, Missing
  <2> QED
    BY <2>2, <2>3, <2>4, <2>5 DEF IInv
<1>3. CASE \E f \in flows : Idle /\ Posted(f)
  <2>1. PICK f \in flows : Idle /\ Posted(f)
    BY <1>3
  <2>2. PICK s \in {"running", "failed"} :
          suite' = [suite EXCEPT ![f.key].status = IF @ = "canceled" THEN @ ELSE s]
    BY <2>1 DEF Posted
  <2>3. f.step = "post" /\ flows' = flows \ {f} /\ UNCHANGED <<run, pull>>
        /\ given' \subseteq given \cup {<<f.key, f.base>>}
    BY <2>1 DEF Posted, Ends, Then
  <2>4. AnswersStand' /\ FlowsKnowTheirSuite' /\ CancelsFollowCancel'
    BY <2>2, <2>3
    DEF IInv, TypeOK, Flow, SuiteRecord, AnswersStand, FlowsKnowTheirSuite, CancelsFollowCancel
  <2>5. OwnersAgree' /\ OneOwner' /\ SetupsAreOwned'
    BY <2>1, <2>2, <2>3
    DEF IInv, TypeOK, Flow, SuiteRecord, Idle, OwnersAgree, OneOwner, SetupsAreOwned
  <2>6. LinksAgree'
    BY <2>2, <2>3 DEF IInv, TypeOK, Flow, SuiteRecord, LinksAgree, OwnersAgree, FlowsKnowTheirSuite
  <2>7. RunsAgree' /\ PullsArePursued'
    BY <2>2, <2>3
    DEF IInv, TypeOK, Flow, SuiteRecord, RunsAgree, PullsArePursued, ActiveRun, Shared, PullTasks,
        Missing
  <2> QED
    BY <2>4, <2>5, <2>6, <2>7 DEF IInv
<1>4. CASE \E k \in Keys : RolledUp(k)
  <2>1. PICK k \in Keys : RolledUp(k)
    BY <1>4
  <2> USE <2>1 DEF RolledUp
  <2>2. AnswersStand' /\ FlowsKnowTheirSuite' /\ CancelsFollowCancel'
    BY DEF IInv, TypeOK, Flow, SuiteRecord, AnswersStand, FlowsKnowTheirSuite, CancelsFollowCancel
  <2>3. OwnersAgree' /\ OneOwner' /\ SetupsAreOwned'
    BY DEF IInv, TypeOK, Flow, SuiteRecord, Idle, OwnersAgree, OneOwner, SetupsAreOwned
  <2>4. LinksAgree'
    BY DEF IInv, TypeOK, Flow, SuiteRecord, LinksAgree
  <2>5. RunsAgree' /\ PullsArePursued'
    BY DEF IInv, TypeOK, Flow, SuiteRecord, RunsAgree, PullsArePursued, ActiveRun, Shared,
       PullTasks, Missing
  <2> QED
    BY <2>2, <2>3, <2>4, <2>5 DEF IInv
<1> QED
  BY <1>1, <1>2, <1>3, <1>4

\* A cancel reaches the setup's flow, then its provisioning run.
LEMMA CancelKeeps ==
  ASSUME IInv, TypeOK', Idle, NEW f \in flows, CancelSetup(f) \/ CancelRun(f)
  PROVE  IInv'
<1>1. /\ f \in Flow /\ f.key \in Keys /\ f.base \in Bases /\ f.run \in Runs \cup {0}
      /\ ActiveRun \subseteq Runs /\ flows \subseteq Flow
  BY DEF IInv, TypeOK, Flow, ActiveRun
<1>2. CASE CancelSetup(f)
  <2> DEFINE G == IF f.run # 0 THEN {To(f, "cancel_run")} ELSE {}
             H == {h \in flows : h.task /\ h.key = f.key /\ h.step \notin PullSteps}
  <2>1. /\ f.step = "cancel_setup" /\ UNCHANGED <<suite, run, pull, given>>
        /\ flows' = (flows \ ({f} \cup H)) \cup G
    BY <1>2 DEF CancelSetup
  <2>2. suite[f.key].status = "canceled"
    BY <2>1 DEF IInv, CancelsFollowCancel
  <2>3. \A g \in G : /\ g.step = "cancel_run" /\ g.run = f.run /\ g.run # 0 /\ g.base = f.base
    BY <1>1, FlowGoes DEF Steps
  <2>4. \A h \in H : h \in flows /\ h.key = f.key /\ h.step \notin PullSteps
    OBVIOUS
  <2> HIDE DEF G, H
  <2>5. AnswersStand' /\ FlowsKnowTheirSuite' /\ CancelsFollowCancel'
    BY <2>1, <2>3 DEF IInv, AnswersStand, FlowsKnowTheirSuite, CancelsFollowCancel
  <2>6. OwnersAgree' /\ OneOwner' /\ SetupsAreOwned'
    BY <2>1, <2>2, <2>3, <2>4 DEF IInv, OwnersAgree, OneOwner, SetupsAreOwned
  <2>7. LinksAgree' /\ RunsAgree'
    BY <2>1, <2>3 DEF IInv, LinksAgree, RunsAgree, ActiveRun, Missing
  <2>8. PullsArePursued'
    <3>1. \A r \in Runs : PullTasks(r)' = PullTasks(r)
      BY <2>1, <2>3, <2>4 DEF PullTasks
    <3> QED
      BY <1>1, <2>1, <3>1 DEF IInv, PullsArePursued, ActiveRun, Shared
  <2> QED
    BY <2>5, <2>6, <2>7, <2>8 DEF IInv
<1>3. CASE CancelRun(f)
  <2> DEFINE P == {h \in flows : h.step \in PullSteps /\ h.run = f.run}
  <2>1. /\ f.step = "cancel_run" /\ UNCHANGED <<suite, given>> /\ flows' = flows \ ({f} \cup P)
        /\ IF P = {} THEN UNCHANGED <<run, pull>>
           ELSE run' = [run EXCEPT ![f.run].status = "failed"] /\ Unpulled(f.base)
    BY <1>3 DEF CancelRun
  <2>2. f.run # 0 /\ run[f.run].status # "none" /\ run[f.run].base = f.base
    BY <2>1 DEF IInv, RunsAgree
  <2>3. /\ \A h \in flows' : h \in flows /\ h # f /\ ~ (h.step \in PullSteps /\ h.run = f.run)
        /\ \A h \in flows : h.step \in OwnerSteps \cup Starting => h \in flows'
    BY <2>1
  <2>4. AnswersStand' /\ FlowsKnowTheirSuite' /\ CancelsFollowCancel'
    BY <2>1, <2>3 DEF IInv, AnswersStand, FlowsKnowTheirSuite, CancelsFollowCancel
  <2>5. OwnersAgree' /\ OneOwner' /\ SetupsAreOwned' /\ LinksAgree'
    BY <2>1, <2>3 DEF IInv, OwnersAgree, OneOwner, SetupsAreOwned, LinksAgree
  <2>6. CASE P = {}
    <3>1. UNCHANGED <<run, pull>> /\ \A r \in Runs : PullTasks(r)' = PullTasks(r)
      BY <2>1, <2>6 DEF PullTasks
    <3>2. RunsAgree' /\ PullsArePursued'
      BY <1>1, <2>1, <2>3, <3>1 DEF IInv, RunsAgree, PullsArePursued, ActiveRun, Shared, Missing
    <3> QED
      BY <2>4, <2>5, <3>2 DEF IInv
  <2>7. CASE P # {}
    <3>1. /\ \A q \in Runs : run'[q].base = run[q].base
          /\ \A q \in Runs : q # f.run => run'[q] = run[q]
          /\ run'[f.run].status = "failed"
      BY <1>1, <2>1, <2>2, <2>7 DEF IInv, TypeOK
    <3>2. ActiveRun' = ActiveRun \ {f.run}
      BY <1>1, <2>2, <3>1 DEF ActiveRun
    <3>3. \A b \in Bases : /\ Missing(b)' = Missing(b)
                           /\ b # f.base => pull'[b] = pull[b]
                           /\ b = f.base => pull'[b] # "pulling"
      BY <1>1, <2>1, <2>7 DEF Unpulled, Missing, IInv, TypeOK
    <3>4. RunsAgree'
      <4>1. \A h \in flows : h.run \in Runs \cup {0} /\ h.base \in Bases
        BY DEF IInv, TypeOK, Flow
      <4>2. \A k \in Keys : suite[k].run \in Runs \cup {0}
        BY DEF IInv, TypeOK, SuiteRecord
      <4>3. \A q \in Runs : run[q].status # "none" =>
              run'[q].status # "none" /\ run'[q].base = run[q].base
        BY <3>1
      <4> QED
        BY <2>1, <2>3, <3>2, <3>3, <4>1, <4>2, <4>3 DEF IInv, RunsAgree
    <3>5. PullsArePursued'
      <4>1. \A b \in Bases : b # f.base => Shared(b)' = Shared(b)
        BY <1>1, <2>2, <3>1, <3>2 DEF Shared
      <4>2. \A r \in ActiveRun : r # f.run => PullTasks(r)' = PullTasks(r)
        BY <2>1 DEF PullTasks
      <4> QED
        BY <3>2, <3>3, <4>1, <4>2 DEF IInv, PullsArePursued
    <3> QED
      BY <2>4, <2>5, <3>4, <3>5 DEF IInv
  <2> QED
    BY <2>6, <2>7
<1> QED
  BY <1>2, <1>3

\* What a restart leaves: no flow, no setup and no active run.
LEMMA CrashKeeps == ASSUME IInv, TypeOK', CrashRestart PROVE IInv'
<1>1. flows' = {} /\ given' = given
  BY DEF CrashRestart
<1>2. ASSUME NEW k \in Keys
      PROVE  /\ suite'[k].status \notin Setup /\ suite'[k].base = suite[k].base
             /\ suite'[k].status = "none" <=> suite[k].status = "none"
             /\ suite'[k].guidance = suite[k].guidance /\ suite'[k].run = suite[k].run
             /\ suite'[k].training = suite[k].training
             /\ suite'[k].evaluation = suite[k].evaluation
  <2> DEFINE s == suite[k]
             token == s.status = "preparing" /\ ~ s.chains /\ s.training # 0 /\ s.evaluation # 0
  <2>1. suite'[k] = Interrupted(s) /\ s \in SuiteRecord /\ token \in BOOLEAN
    BY DEF CrashRestart, IInv, TypeOK
  <2>2. Interrupted(s) = IF s.status \in Setup THEN Failed(s, token) ELSE s
    BY DEF Interrupted
  <2> HIDE DEF s, token
  <2>3. CASE s.status \in Setup
    BY <2>1, <2>2, <2>3, FailedFields DEF s
  <2>4. CASE s.status \notin Setup
    BY <2>1, <2>2, <2>4 DEF s
  <2> QED
    BY <2>3, <2>4
<1>3. \A r \in Runs : /\ run'[r].status \notin Pursued /\ run'[r].base = run[r].base
                      /\ run[r].status # "none" => run'[r].status # "none"
  BY DEF CrashRestart, IInv, TypeOK, ActiveRun
<1>4. AnswersStand'
  BY <1>1, <1>2 DEF IInv, TypeOK, AnswersStand
<1>5. FlowsKnowTheirSuite' /\ CancelsFollowCancel' /\ OwnersAgree' /\ OneOwner' /\ SetupsAreOwned'
  BY <1>1, <1>2
  DEF FlowsKnowTheirSuite, CancelsFollowCancel, OwnersAgree, OneOwner, SetupsAreOwned
<1>6. LinksAgree'
  <2>1. \A k \in Keys : suite'[k].status = "none" =>
          suite'[k].training = 0 /\ suite'[k].evaluation = 0
    BY <1>2 DEF IInv, LinksAgree
  <2> QED
    BY <1>1, <1>2, <2>1 DEF IInv, LinksAgree
<1>7. RunsAgree'
  <2>1. \A k \in Keys : suite[k].run \in Runs \cup {0}
    BY DEF IInv, TypeOK, SuiteRecord
  <2> QED
    BY <1>1, <1>2, <1>3, <2>1 DEF IInv, RunsAgree
<1>8. PullsArePursued'
  <2>1. \A b \in Bases : pull[b] = "pulling" => Shared(b) # {}
    BY DEF IInv, PullsArePursued
  <2>2. \A b \in Bases : pull'[b] # "pulling"
    BY <2>1 DEF CrashRestart, Missing
  <2>3. ActiveRun' = {}
    BY <1>3 DEF ActiveRun
  <2> QED
    BY <2>2, <2>3 DEF PullsArePursued
<1> QED
  BY <1>4, <1>5, <1>6, <1>7, <1>8 DEF IInv

LEMMA InvStep == IInv /\ [Next]_vars => IInv'
<1> SUFFICES ASSUME IInv, [Next]_vars PROVE IInv'
  OBVIOUS
<1>1. TypeOK'
  BY TypeStep DEF IInv
<1>2. ASSUME NEW k \in Keys, NEW b \in Bases, Launch(k, b) \/ Cancel(k) PROVE IInv'
  BY <1>1, <1>2, RequestKeeps
<1>3. ASSUME NEW k \in Keys, RolledUp(k) PROVE IInv'
  BY <1>1, <1>3, SubmitKeeps
<1>4. ASSUME NEW f \in flows, Kickoff(f) PROVE IInv'
  BY <1>1, <1>4, SubmitKeeps
<1>5. ASSUME NEW f \in flows, Idle, Provisioning(f) PROVE IInv'
  BY <1>1, <1>5, ProvisioningKeeps
<1>6. ASSUME NEW f \in flows, Idle, Setting(f) PROVE IInv'
  <2>1. CASE PreflightFails(f)
    BY <1>1, <2>1, EndKeeps DEF PreflightFails
  <2>2. CASE LaunchLoses(f)
    BY <1>1, <2>2, EndKeeps DEF LaunchLoses, Replay, Matches
  <2>3. CASE ProvisioningRefused(f)
    BY <1>1, <2>3, EndKeeps DEF ProvisioningRefused
  <2>4. CASE ProvisioningJoined(f) \/ ProvisioningStarted(f)
    BY <1>1, <2>4, ProvisioningKeeps
  <2>5. CASE CreateReplays(f) \/ CreateRefused(f) \/ Create(f)
    BY <1>1, <2>5, CreateKeeps
  <2>6. CASE \/ Build(f) \/ BuildFails(f) \/ Uploaded(f) \/ UploadFails(f) \/ Abandon(f)
             \/ WaitFails(f)
    BY <1>1, <2>6, BuildKeeps
  <2>7. CASE Commit(f) \/ Posted(f)
    BY <1>1, <1>6, <2>7, SubmitKeeps
  <2>8. CASE CancelSetup(f) \/ CancelRun(f)
    BY <1>1, <1>6, <2>8, CancelKeeps
  <2> QED
    BY <1>6, <2>1, <2>2, <2>3, <2>4, <2>5, <2>6, <2>7, <2>8 DEF Setting
<1>7. ASSUME EditGuidance \/ UNCHANGED vars PROVE IInv'
  <2>1. UNCHANGED <<suite, run, pull, flows, given>>
    BY <1>7 DEF EditGuidance, vars
  <2> QED
    BY <1>1, <2>1
    DEF IInv, AnswersStand, FlowsKnowTheirSuite, OwnersAgree, OneOwner, SetupsAreOwned,
        CancelsFollowCancel, LinksAgree, RunsAgree, PullsArePursued, ActiveRun, Shared, PullTasks,
        Missing
<1>8. ASSUME CrashRestart PROVE IInv'
  BY <1>1, <1>8, CrashKeeps
<1>9. Bases # {}
  BY SetupBoundsAssumption
<1> QED
  BY <1>2, <1>3, <1>4, <1>5, <1>6, <1>7, <1>8, <1>9 DEF Next

-----------------------------------------------------------------------------
(* What the invariant implies.                                             *)

\* The inductive invariant holds of every behaviour, whatever the bounds.
THEOREM InvariantHolds == Spec => []IInv
  BY InvInit, InvStep, PTL DEF Spec

\* Every variable keeps its type.
THEOREM TypeCorrect == Spec => []TypeOK
<1>1. IInv => TypeOK
  BY DEF IInv
<1> QED
  BY <1>1, InvariantHolds, PTL

\* A launch that was answered with a suite has its suite for good: the key
\* never becomes another request's (launch_training_suite).
THEOREM AnswersCorrect == Spec => []AnswersStand
<1>1. IInv => AnswersStand
  BY DEF IInv
<1> QED
  BY <1>1, InvariantHolds, PTL

\* A suite in setup is exactly one flow's work, and a base that is being pulled
\* has a run whose task pulls it, through retries, replays, cancels and
\* restarts (create_training_suite, execute_provisioning_run).
THEOREM PursuitCorrect == Spec => []SetupIsPursued
<1>1. IInv => SetupIsPursued
  <2> SUFFICES ASSUME IInv, NEW k \in Keys, suite[k].status \in Setup
               PROVE  Cardinality(Owners(k)) = 1
    BY DEF IInv, PullsArePursued, SetupIsPursued
  <2>1. PICK f \in flows : f.key = k /\ f.step \in OwnerSteps
    BY DEF IInv, SetupsAreOwned
  <2>2. Owners(k) = {f}
    BY <2>1 DEF IInv, OneOwner, Owners
  <2> QED
    BY <2>2, FS_Singleton
<1> QED
  BY <1>1, InvariantHolds, PTL

\* What happens to a suite otherwise than by the commit of its chains: it gets
\* no chains, and once canceled nothing at all.
LEMMA OtherSteps ==
  ASSUME IInv, [Next]_vars, \A f \in flows : ~ Commit(f), NEW k \in Keys
  PROVE  /\ suite'[k].chains => suite[k].chains
         /\ suite[k].status = "canceled" => suite'[k] = suite[k]
<1> DEFINE Goal == /\ suite'[k].chains => suite[k].chains
                   /\ suite[k].status = "canceled" => suite'[k] = suite[k]
<1>1. suite[k] \in SuiteRecord /\ \A f \in flows : f.key \in Keys /\ f.g \in Versions \cup {0}
  BY DEF IInv, TypeOK, Flow
<1>3. ASSUME NEW f \in flows, NEW token \in BOOLEAN, Fail(f, token) PROVE Goal
  <2>1. suite' = [suite EXCEPT ![f.key] = Failed(suite[f.key], token)]
    BY <1>3 DEF Fail
  <2>2. suite'[k] = IF k = f.key THEN Failed(suite[k], token) ELSE suite[k]
    BY <1>1, <2>1 DEF IInv, TypeOK
  <2>3. suite[k].status = "canceled" => Failed(suite[k], token) = suite[k]
    BY DEF Failed
  <2> QED
    BY <1>1, <2>2, <2>3, FailedFields
<1>4. ASSUME NEW j \in Keys, Cancel(j) PROVE Goal
  <2>1. suite'[k] = IF k = j THEN [suite[k] EXCEPT !.status = "canceled"] ELSE suite[k]
    BY <1>4 DEF Cancel, IInv, TypeOK
  <2>2. suite[k].status = "canceled" => [suite[k] EXCEPT !.status = "canceled"] = suite[k]
    BY <1>1 DEF SuiteRecord
  <2> QED
    BY <1>1, <2>1, <2>2 DEF SuiteRecord
<1>5. ASSUME NEW j \in Keys, RolledUp(j) PROVE Goal
  BY <1>1, <1>5 DEF RolledUp, IInv, TypeOK, SuiteRecord
<1>6. ASSUME NEW f \in flows, Kickoff(f) PROVE Goal
  BY <1>1, <1>6 DEF Kickoff, IInv, TypeOK, OwnersAgree, SuiteRecord
<1>7. ASSUME NEW f \in flows, ProvisioningJoined(f) \/ ProvisioningStarted(f) PROVE Goal
  <2>1. PICK r : suite' = [suite EXCEPT ![f.key] = Provisional(f, r)] /\ ~ Exists(f.key)
    BY <1>7 DEF ProvisioningJoined, ProvisioningStarted
  <2>2. ~ Provisional(f, r).chains
    BY DEF Provisional, NoSuite
  <2> QED
    BY <1>1, <2>1, <2>2 DEF IInv, TypeOK
<1>8. ASSUME NEW f \in flows, Create(f) PROVE Goal
  <2>1. suite' = [suite EXCEPT ![f.key] = Claimed(f)] /\ (Exists(f.key) => Adopts(f))
    BY <1>8 DEF Create
  <2>2. suite[f.key].status # "canceled"
    BY <2>1 DEF Adopts, Retryable
  <2>3. Exists(f.key) => Claimed(f).chains = suite[f.key].chains
    BY <1>1 DEF Claimed, IInv, TypeOK, SuiteRecord
  <2>4. ~ Exists(f.key) => ~ Claimed(f).chains
    BY DEF Claimed, NoSuite
  <2> QED
    BY <1>1, <2>1, <2>2, <2>3, <2>4 DEF IInv, TypeOK
<1>9. ASSUME NEW f \in flows, Build(f) PROVE Goal
  BY <1>1, <1>9 DEF Build, Links, IInv, TypeOK, SuiteRecord
<1>10. ASSUME NEW f \in flows, BuildFails(f) PROVE Goal
  <2>1. CASE Fail(f, FALSE)
    BY <1>3, <2>1
  <2>2. CASE ~ Fail(f, FALSE)
    <3> DEFINE s == suite[f.key]
               x == IF f.step = "train" THEN [s EXCEPT !.training = f.g]
                                        ELSE [s EXCEPT !.evaluation = f.g]
    <3>1. s.status = "preparing" /\ suite' = [suite EXCEPT ![f.key] = Failed(x, FALSE)]
      BY <1>10, <2>2 DEF BuildFails, Links
    <3>2. x \in SuiteRecord /\ x.chains = s.chains
      BY <1>1 DEF IInv, TypeOK, SuiteRecord
    <3> HIDE DEF x
    <3> QED
      BY <1>1, <3>1, <3>2, FailedFields DEF IInv, TypeOK
  <2> QED
    BY <2>1, <2>2
<1>11. ASSUME NEW f \in flows, Posted(f) PROVE Goal
  <2>1. PICK s \in {"running", "failed"} :
          suite' = [suite EXCEPT ![f.key].status = IF @ = "canceled" THEN @ ELSE s]
    BY <1>11 DEF Posted
  <2>2. suite'[k] = IF k = f.key
                    THEN [suite[k] EXCEPT !.status = IF @ = "canceled" THEN @ ELSE s]
                    ELSE suite[k]
    BY <1>1, <2>1 DEF IInv, TypeOK
  <2> QED
    BY <1>1, <2>2 DEF SuiteRecord
<1>12. ASSUME CrashRestart PROVE Goal
  <2>1. suite'[k] = Interrupted(suite[k])
    BY <1>12 DEF CrashRestart
  <2>2. CASE suite[k].status \notin Setup
    BY <2>1, <2>2 DEF Interrupted
  <2>3. CASE suite[k].status \in Setup
    <3> DEFINE token == /\ suite[k].status = "preparing" /\ ~ suite[k].chains
                        /\ suite[k].training # 0 /\ suite[k].evaluation # 0
    <3>1. suite'[k] = Failed(suite[k], token) /\ token \in BOOLEAN
      BY <2>1, <2>3 DEF Interrupted
    <3> HIDE DEF token
    <3> QED
      BY <1>1, <2>3, <3>1, FailedFields
  <2> QED
    BY <2>2, <2>3
<1>13. ASSUME NEW f \in flows,
              WaitFails(f) \/ CreateRefused(f) \/ Uploaded(f) \/ UploadFails(f) \/ Abandon(f),
              suite' # suite
       PROVE  Goal
  <2>1. \E token \in BOOLEAN : Fail(f, token)
    BY <1>13 DEF WaitFails, CreateRefused, Uploaded, UploadFails, Abandon
  <2> QED
    BY <1>3, <2>1
<1>14. CASE UNCHANGED suite
  BY <1>14
<1>15. CASE suite' # suite
  <2>1. \/ \E j \in Keys : Cancel(j) \/ RolledUp(j)
        \/ CrashRestart
        \/ \E f \in flows :
             \/ Kickoff(f) \/ ProvisioningJoined(f) \/ ProvisioningStarted(f) \/ Create(f)
             \/ Build(f) \/ BuildFails(f) \/ Posted(f)
             \/ WaitFails(f) \/ CreateRefused(f) \/ Uploaded(f) \/ UploadFails(f) \/ Abandon(f)
    BY <1>15 DEF Next, Setting, Provisioning, Launch, EditGuidance, vars, PreflightFails,
       LaunchLoses, ProvisioningRefused, CreateReplays, CancelSetup, CancelRun, Pulled, Recorded,
       PullFails
  <2> QED
    BY <1>4, <1>5, <1>6, <1>7, <1>8, <1>9, <1>10, <1>11, <1>12, <1>13, <1>15, <2>1
<1> QED
  BY <1>14, <1>15

\* Whatever the exports and uploads took and however often they were retried,
\* chains are created under the one Guidance that is active then, that the
\* suite froze and that both its exports were built under.
THEOREM GuidanceCorrect == Spec => TrainsUnderActiveGuidance
<1> DEFINE Created(k) == suite'[k].chains /\ ~ suite[k].chains =>
                           active = suite'[k].guidance /\ active = suite'[k].training
                           /\ active = suite'[k].evaluation
<1>1. ASSUME IInv, [Next]_vars, NEW k \in Keys PROVE Created(k)
  <2>1. CASE \A f \in flows : ~ Commit(f)
    BY <1>1, <2>1, OtherSteps
  <2>2. CASE \E f \in flows : Commit(f)
    <3>1. PICK f \in flows : Commit(f)
      BY <2>2
    <3>2. f.key \in Keys /\ suite[f.key] \in SuiteRecord
      BY <1>1 DEF IInv, TypeOK, Flow
    <3>3. suite[f.key].training = active /\ suite[f.key].evaluation = active /\ f.g = active
      BY <1>1, <3>1 DEF Commit, StillPreparing, StillActive, IInv, LinksAgree
    <3>4. suite'[k] = IF k = f.key
                      THEN [suite[k] EXCEPT !.status = "initialized", !.guidance = f.g,
                                            !.chains = TRUE]
                      ELSE suite[k]
      BY <1>1, <3>1, <3>2 DEF Commit, IInv, TypeOK
    <3> QED
      BY <3>2, <3>3, <3>4 DEF SuiteRecord
  <2> QED
    BY <2>1, <2>2
<1>2. IInv /\ [Next]_vars => [\A k \in Keys : Created(k)]_vars
  BY <1>1
<1> QED
  BY <1>2, InvariantHolds, PTL DEF Spec, TrainsUnderActiveGuidance

\* A canceled suite stays as it was canceled, whatever was under way for it: no
\* export is linked, no chain created, no job started (cancel_training_suite).
THEOREM CanceledStaysQuiet == Spec => CanceledSetupStaysQuiet
<1> DEFINE Quiet(k) == suite[k].status = "canceled" => suite'[k] = suite[k]
<1>1. ASSUME IInv, [Next]_vars, NEW k \in Keys PROVE Quiet(k)
  <2>1. CASE \A f \in flows : ~ Commit(f)
    BY <1>1, <2>1, OtherSteps
  <2>2. CASE \E f \in flows : Commit(f)
    BY <1>1, <2>2 DEF Commit, StillPreparing, IInv, TypeOK
  <2> QED
    BY <2>1, <2>2
<1>2. IInv /\ [Next]_vars => [\A k \in Keys : Quiet(k)]_vars
  BY <1>1
<1> QED
  BY <1>2, InvariantHolds, PTL DEF Spec, CanceledSetupStaysQuiet
=============================================================================
