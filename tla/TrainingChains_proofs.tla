------------------------ MODULE TrainingChains_proofs ------------------------
(* Proofs, for every number of chains and quantization schemes, every      *)
(* report of TAO, and every number of cancels and crashes, about the jobs  *)
(* of one training suite.                                                  *)
EXTENDS TrainingChains, TLAPS

-----------------------------------------------------------------------------
(* The shape of a chain.                                                   *)

\* A train job heads its chain and waits for nothing
\* (_create_chain_rows_in_session).
LEMMA RootShape ==
  ASSUME NEW c \in 1 .. Chains
  PROVE  Root(c) \in Jobs /\ \A i \in Jobs : ~IsParent(i, Root(c))
<1>1. Root(c) \in Jobs
  BY ShapeAssumption DEF Root, Jobs
<1>2. ASSUME NEW i \in Jobs PROVE ~IsParent(i, Root(c))
  BY DEF Root, Jobs, IsParent, ParentSeq
<1> QED
  BY <1>1, <1>2

\* The evaluation of the baseline, which may run locally, has no child.
LEMMA BaselineIsLeaf ==
  ASSUME NEW i \in Jobs, NEW j \in Jobs, IsParent(i, j)
  PROVE  i.seq # 2
<1> DEFINE n == j.seq
<1>1. n \in Nat /\ i.seq \in Nat
  BY ShapeAssumption DEF Jobs
<1>2. SUFFICES ASSUME ParentSeq(n) = 2 PROVE FALSE
  BY DEF IsParent
<1>3. n # 1 /\ n # 2 /\ n % 2 # 1 /\ n - 1 = 2
  BY <1>1, <1>2 DEF ParentSeq
<1>4. n = 3
  BY <1>1, <1>3
<1> QED
  BY <1>3, <1>4

\* A flow that goes on keeps who runs it and what it began with.
LEMMA FlowShape ==
  ASSUME NEW f \in Flow, NEW s \in Urgent \cup Awaiting, NEW j \in Jobs
  PROVE  LET g == [f EXCEPT !.step = s, !.job = j]
         IN  g \in Flow /\ g.step = s /\ g.job = j /\ g.by = f.by /\ g.from = f.from
  BY DEF Flow

\* What is planned is a job, or nothing.
LEMMA PlannedType ==
  ASSUME NEW st, NEW c \in 1 .. Chains
  PROVE  Planned(st, c) \subseteq Jobs
  BY RootShape DEF Planned, Eligible, Lowest, NextChain, Chain

\* Submitting keeps the flows well typed.
LEMMA SubmitsType ==
  ASSUME TypeOK, NEW f \in flows, NEW planned \in SUBSET Jobs
  PROVE  Submits(f, planned) \subseteq Flow
<1>1. f \in Flow
  BY DEF TypeOK
<1>2. \A j \in planned : [f EXCEPT !.step = "submit", !.job = j] \in Flow
  BY <1>1 DEF Flow, Urgent
<1> QED
  BY <1>2 DEF TypeOK, Submits, Ends

\* So does going on.
LEMMA GoesType ==
  ASSUME TypeOK, NEW f \in flows, NEW s \in Urgent \cup Awaiting, NEW j \in Jobs
  PROVE  Goes(f, s, j) \subseteq Flow
  BY FlowShape DEF TypeOK, Goes

\* The roll-up yields a status that a suite has.
LEMMA RolledUpType ==
  ASSUME TypeOK, NEW st, NEW ht
  PROVE  RolledUp(st, ht) \in {"initialized", "running", "completed", "failed", "canceled"}
  BY DEF TypeOK, RolledUp

-----------------------------------------------------------------------------
(* Types.                                                                  *)

\* Suites begin well typed.
LEMMA TypeInit == Init => TypeOK
<1> SUFFICES ASSUME Init PROVE TypeOK
  OBVIOUS
<1>1. Root(1) \in Jobs
  BY RootShape, ShapeAssumption
<1>2. flows \subseteq Flow
  BY <1>1 DEF Init, Flow, Urgent
<1>3. cancels \in 0 .. MaxCancels /\ crashes \in 0 .. MaxCrashes
  BY BoundsAssumption DEF Init
<1>4. /\ state \in [Jobs -> Statuses] /\ fetch \in [Jobs -> {"pending", "completed", "failed"}]
      /\ halted \in [Jobs -> {"none", "failure", "cancel", "skipped", "suite"}]
      /\ asked \in [Jobs -> Nat]
  BY DEF Init, Statuses
<1> QED
  BY <1>2, <1>3, <1>4 DEF Init, TypeOK

\* No step leaves the types: one case per action.
LEMMA TypeStep == TypeOK /\ [Next]_vars => TypeOK'
<1> SUFFICES ASSUME TypeOK, [Next]_vars PROVE TypeOK'
  OBVIOUS
<1> USE DEF rows, bounds
<1>0. \A f \in flows : f \in Flow /\ f.job \in Jobs /\ f.job.chain \in 1 .. Chains
  BY DEF TypeOK, Flow, Jobs
<1>1. ASSUME NEW f \in flows, Submit(f) PROVE TypeOK'
  <2>1. CASE state[f.job] = "not_started"
    <3>1. flows' \subseteq Flow
      BY <1>0, <1>1, <2>1, GoesType DEF Submit, Awaiting
    <3>2. asked' \in [Jobs -> Nat]
      BY <1>0, <1>1, <2>1 DEF TypeOK, Submit
    <3>3. state' \in [Jobs -> Statuses]
      BY <1>0, <1>1, <2>1 DEF TypeOK, Submit, Statuses, InFlight
    <3> QED
      BY <1>1, <3>1, <3>2, <3>3 DEF TypeOK, Submit
  <2>2. CASE state[f.job] # "not_started"
    BY <1>1, <2>2 DEF TypeOK, Submit, Ends
  <2> QED
    BY <2>1, <2>2
<1>2. ASSUME NEW f \in flows, NEW yes \in BOOLEAN, Submitted(f, yes) PROVE TypeOK'
  <2>1. flows' \subseteq Flow
    <3>1. /\ Goes(f, "settle", f.job) \subseteq Flow /\ Goes(f, "halt", f.job) \subseteq Flow
          /\ Goes(f, "recall", f.job) \subseteq Flow /\ Ends(f) \subseteq Flow
      BY <1>0, GoesType DEF TypeOK, Ends, Urgent, Awaiting
    <3> QED
      BY <1>2, <3>1 DEF Submitted
  <2>2. state' \in [Jobs -> Statuses]
    BY <1>0, <1>2 DEF TypeOK, Submitted, Statuses, InFlight, Pollable, Terminal
  <2> QED
    BY <1>2, <2>1, <2>2 DEF TypeOK, Submitted
<1>3. ASSUME NEW f \in flows, Recalled(f) PROVE TypeOK'
  <2>1. Goes(f, "settle", f.job) \subseteq Flow /\ Ends(f) \subseteq Flow
    BY <1>0, GoesType DEF TypeOK, Ends, Urgent
  <2> QED
    BY <1>3, <2>1 DEF TypeOK, Recalled
<1>4. ASSUME NEW f \in flows, Settle(f) PROVE TypeOK'
  BY <1>4 DEF TypeOK, Settle, SettledAs, Ends
<1>5. ASSUME NEW j \in Jobs, NEW report \in Reports, Poll(j, report) PROVE TypeOK'
  <2>1. state' \in [Jobs -> Statuses]
    BY <1>5, ReportsAssumption DEF TypeOK, Poll, Statuses, InFlight, Pollable, Terminal
  <2>2. flows' \subseteq Flow
    BY <1>5 DEF TypeOK, Poll, Flow, Urgent, Awaiting
  <2> QED
    BY <1>5, <2>1, <2>2 DEF TypeOK, Poll
<1>6. ASSUME NEW j \in Jobs, NEW report \in Reports, Refresh(j, report) PROVE TypeOK'
  BY <1>6, ReportsAssumption DEF TypeOK, Refresh, Statuses, InFlight, Pollable, Terminal
<1>7. ASSUME NEW f \in flows, NEW outcome \in {"completed", "failed"}, Fetched(f, outcome)
      PROVE  TypeOK'
  <2>1. Goes(f, "advance", f.job) \subseteq Flow
    BY <1>0, GoesType DEF Urgent
  <2> QED
    BY <1>0, <1>7, <2>1 DEF TypeOK, Fetched
<1>8. ASSUME NEW f \in flows, Advance(f) PROVE TypeOK'
  <2> DEFINE c       == f.job.chain
             open    == Eligible(state, c)
             next    == Lowest({j \in open : ~Doomed(j)})
             skipped == {j \in open : Doomed(j) /\ \A i \in next : j.seq < i.seq}
             here    == {j \in next : Local(j)}
             st      == [j \in Jobs |-> IF j \in skipped THEN "canceled"
                                        ELSE IF j \in here THEN "running" ELSE state[j]]
  <2>1. CASE suite = "canceled"
    BY <1>8, <2>1 DEF TypeOK, Advance, Ends
  <2>2. CASE suite # "canceled"
    <3>1. state' = st /\ suite' = RolledUp(state', halted')
      BY <1>8, <2>2 DEF Advance
    <3>2. st \in [Jobs -> Statuses]
      BY DEF TypeOK, Statuses, InFlight, Pollable, Terminal
    <3>3. halted' \in [Jobs -> {"none", "failure", "cancel", "skipped", "suite"}]
      BY <1>8, <2>2 DEF TypeOK, Advance
    <3>4. flows' \subseteq Flow
      <4>1. next \subseteq Jobs /\ here \subseteq Jobs /\ NextChain(st) \subseteq Jobs
        BY RootShape DEF Eligible, Lowest, Chain, NextChain
      <4>2. \A j \in here : [f EXCEPT !.step = "local", !.job = j] \in Flow
        BY <1>0, <4>1, FlowShape DEF Awaiting
      <4>3. Ends(f) \cup {[f EXCEPT !.step = "local", !.job = j] : j \in here} \subseteq Flow
        BY <4>2 DEF TypeOK, Ends
      <4>4. Submits(f, next) \subseteq Flow /\ Submits(f, {}) \subseteq Flow
            /\ Submits(f, NextChain(st)) \subseteq Flow
        BY <4>1, SubmitsType
      <4> HIDE DEF next, here, st
      <4>5. \/ flows' = Ends(f) \cup {[f EXCEPT !.step = "local", !.job = j] : j \in here}
            \/ flows' \in {Submits(f, next), Submits(f, {}), Submits(f, NextChain(st))}
        BY <1>8, <2>2 DEF Advance, next, here, st
      <4> QED
        BY <4>3, <4>4, <4>5
    <3> QED
      BY <1>8, <2>2, <3>1, <3>2, <3>3, <3>4, RolledUpType DEF TypeOK, Advance
  <2> QED
    BY <2>1, <2>2
<1>9. ASSUME NEW f \in flows, NEW outcome \in {"succeeded", "failed"}, LocalEnds(f, outcome)
      PROVE  TypeOK'
  <2>1. Goes(f, "advance", f.job) \subseteq Flow /\ Goes(f, "halt", f.job) \subseteq Flow
    BY <1>0, GoesType DEF Urgent
  <2> QED
    BY <1>0, <1>9, <2>1 DEF TypeOK, LocalEnds, Statuses, Terminal
<1>10. ASSUME NEW f \in flows, LocalRaises(f) PROVE TypeOK'
  BY <1>10 DEF TypeOK, LocalRaises, Ends
<1>11. ASSUME NEW f \in flows, LogsFetched(f) PROVE TypeOK'
  <2>1. Goes(f, "halt", f.job) \subseteq Flow
    BY <1>0, GoesType DEF Urgent
  <2> QED
    BY <1>11, <2>1 DEF TypeOK, LogsFetched
<1>12. ASSUME NEW f \in flows, Halt(f) PROVE TypeOK'
  <2>1. flows' \subseteq Flow
    BY <1>0, <1>12, PlannedType, SubmitsType DEF Halt
  <2>2. /\ state' \in [Jobs -> Statuses]
        /\ halted' \in [Jobs -> {"none", "failure", "cancel", "skipped", "suite"}]
    BY <1>12 DEF TypeOK, Halt, Statuses, Terminal
  <2> QED
    BY <1>12, <2>1, <2>2, RolledUpType DEF TypeOK, Halt
<1>13. ASSUME NEW j \in Jobs, RecoverFetch(j) PROVE TypeOK'
  BY <1>13 DEF TypeOK, RecoverFetch, Flow, Awaiting
<1>14. ASSUME NEW c \in 1 .. Chains, Reconcile(c) PROVE TypeOK'
  <2>1. flows' \subseteq Flow
    BY <1>14 DEF TypeOK, Reconcile, Unhalted, Lowest, Chain, Resumable, Flow, Urgent, Awaiting
  <2> QED
    BY <1>14, <2>1 DEF TypeOK, Reconcile
<1>15. ASSUME NEW j \in Jobs, NEW forced \in BOOLEAN, CancelJob(j, forced) PROVE TypeOK'
  <2>1. flows' \subseteq Flow
    BY <1>15 DEF TypeOK, CancelJob, Flow, Urgent, Awaiting
  <2>2. cancels' \in 0 .. MaxCancels
    BY <1>15, BoundsAssumption DEF TypeOK, CancelJob
  <2> QED
    BY <1>15, <2>1, <2>2 DEF TypeOK, CancelJob
<1>16. ASSUME NEW f \in flows, NEW yes \in BOOLEAN, CancelAnswered(f, yes) PROVE TypeOK'
  <2>1. Goes(f, "commit", f.job) \subseteq Flow /\ Ends(f) \subseteq Flow
    BY <1>0, GoesType DEF TypeOK, Ends, Urgent
  <2> QED
    BY <1>16, <2>1 DEF TypeOK, CancelAnswered
<1>17. ASSUME NEW f \in flows, Commit(f) PROVE TypeOK'
  <2>1. Goes(f, "plan", f.job) \subseteq Flow /\ Ends(f) \subseteq Flow
    BY <1>0, GoesType DEF TypeOK, Ends, Urgent
  <2>2. /\ state' \in [Jobs -> Statuses]
        /\ halted' \in [Jobs -> {"none", "failure", "cancel", "skipped", "suite"}]
    BY <1>17 DEF TypeOK, Commit, Statuses, Terminal
  <2> QED
    BY <1>17, <2>1, <2>2 DEF TypeOK, Commit
<1>18. ASSUME NEW f \in flows, Plan(f) PROVE TypeOK'
  <2>1. flows' \subseteq Flow
    BY <1>0, <1>18, PlannedType, SubmitsType DEF Plan
  <2> QED
    BY <1>18, <2>1, RolledUpType DEF TypeOK, Plan
<1>19. ASSUME CancelSuite PROVE TypeOK'
  <2>1. flows' \subseteq Flow
    <3>1. Root(1) \in Jobs
      BY RootShape, ShapeAssumption
    <3> QED
      BY <1>19, <3>1 DEF TypeOK, CancelSuite, Flow, Urgent, Awaiting
  <2>2. cancels' \in 0 .. MaxCancels
    BY <1>19, BoundsAssumption DEF TypeOK, CancelSuite
  <2> QED
    BY <1>19, <2>1, <2>2 DEF TypeOK, CancelSuite
<1>20. ASSUME NEW f \in flows, Withdrawn(f) PROVE TypeOK'
  <2>1. Goes(f, "sweep", f.job) \subseteq Flow
    BY <1>0, GoesType DEF Urgent
  <2> QED
    BY <1>20, <2>1 DEF TypeOK, Withdrawn
<1>21. ASSUME NEW f \in flows, Sweep(f) PROVE TypeOK'
  <2>1. /\ state' \in [Jobs -> Statuses]
        /\ halted' \in [Jobs -> {"none", "failure", "cancel", "skipped", "suite"}]
    BY <1>21 DEF TypeOK, Sweep, Statuses, Terminal
  <2> QED
    BY <1>21, <2>1 DEF TypeOK, Sweep, Ends
<1>22. ASSUME CrashRestart PROVE TypeOK'
  <2>1. flows' \subseteq Flow
    BY <1>22 DEF CrashRestart, Interrupted, Flow, Awaiting
  <2>2. state' \in [Jobs -> Statuses]
    BY <1>22 DEF TypeOK, CrashRestart, Recovered, Statuses, Terminal
  <2>3. crashes' \in 0 .. MaxCrashes
    BY <1>22, BoundsAssumption DEF TypeOK, CrashRestart
  <2> QED
    BY <1>22, <2>1, <2>2, <2>3 DEF TypeOK, CrashRestart
<1>23. ASSUME NEW f \in flows, Recover(f) PROVE TypeOK'
  <2>1. Goes(f, "halt", f.job) \subseteq Flow
    BY <1>0, GoesType DEF Urgent
  <2> QED
    BY <1>23, <2>1 DEF TypeOK, Recover
<1>24. CASE UNCHANGED vars
  BY <1>24 DEF TypeOK, vars
<1> QED
  BY <1>1, <1>2, <1>3, <1>4, <1>5, <1>6, <1>7, <1>8, <1>9, <1>10, <1>11, <1>12, <1>13,
     <1>14, <1>15, <1>16, <1>17, <1>18, <1>19, <1>20, <1>21, <1>22, <1>23, <1>24
     DEF Next, Step

\* Every reachable state of the suite, its jobs and the flows that serve them
\* is well typed: the suite takes no status that it does not have.
THEOREM TypeCorrect == Spec => []TypeOK
<1> QED
  BY TypeInit, TypeStep, PTL DEF Spec

-----------------------------------------------------------------------------
(* What the coroutines rely on across their awaits.                        *)

\* A job that was not started was never asked for.
Unasked == \A j \in Jobs : state[j] = "not_started" => asked[j] = 0

\* A POST under way owns its row: only a cancel of the suite changes it.
PostsOpen ==
  \A f \in flows : f.step = "post" =>
    /\ asked[f.job] # 0
    /\ state[f.job] \in {"submitting", "canceled"}
    /\ \A g \in flows : g.step = "post" /\ g.job = f.job => g = f

\* A local evaluation is one that TAO never heard of, and its row says that
\* it runs unless a cancel reached it.
LocalsOpen ==
  \A f \in flows : f.step = "local" =>
    /\ Local(f.job) /\ asked[f.job] = 0
    /\ state[f.job] \in {"running", "canceled"} /\ halted[f.job] # "skipped"
    /\ \A g \in flows : g.step = "local" /\ g.job = f.job => g = f

\* What is about to be submitted, or runs here, has its checkpoint.
Ready ==
  \A f \in flows, i \in Jobs :
    f.step \in {"submit", "local"} /\ IsParent(i, f.job) => state[i] = "succeeded"

\* A canceled suite plans nothing, and only its cancel sweeps its rows.
Quiet ==
  \A f \in flows : /\ suite = "canceled" => f.step # "submit"
                   /\ f.step \in {"withdraw", "sweep"} => suite = "canceled"

\* The launch settles its suite without giving up the loop.
KickoffAlone ==
  \A f, g \in flows : f.step = "settle" /\ g.step \in Urgent => g = f

\* A failure is handled after it was committed, and while it stands.
Reported ==
  \A f \in flows : f.step \in {"logs", "halt", "recovered"} /\ f.job.seq # 2
                     => state[f.job] \in {"failed", "canceled"}

-----------------------------------------------------------------------------
(* What a step does to one row.                                            *)

\* The transitions of a row, with what holds of the flows around them.
Move(j) ==
  \/ state'[j] = state[j] /\ asked'[j] = asked[j]
  \/ /\ state[j] = "not_started" /\ state'[j] = "submitting" /\ asked'[j] = asked[j] + 1
     /\ \E f \in flows : f.step = "submit" /\ f.job = j
  \/ state[j] = "not_started" /\ state'[j] \in {"failed", "canceled"} /\ asked'[j] = asked[j]
  \/ /\ state[j] = "not_started" /\ state'[j] = "running" /\ asked'[j] = asked[j]
     /\ \A i \in Jobs : IsParent(i, j) => state[i] = "succeeded"
  \/ /\ state[j] = "submitting" /\ state'[j] \in {"submitted", "failed"} /\ asked'[j] = asked[j]
     /\ \A g \in flows' : g.step = "post" => g.job # j
  \/ state[j] \in InFlight /\ state'[j] = "canceled" /\ asked'[j] = asked[j]
  \/ /\ state[j] \in Pollable /\ state'[j] \in Pollable \cup Terminal /\ asked'[j] = asked[j]
     /\ asked[j] > 0
  \/ /\ \E f \in flows : f.step = "local" /\ f.job = j
     /\ state'[j] \in {"succeeded", "failed"} /\ asked'[j] = asked[j]
     /\ \A g \in flows' : g.step = "local" => g.job # j

\* Whatever the step, each row makes one of the moves above (the
\* handlers that write TAOJob.status).
LEMMA RowStep ==
  ASSUME TypeOK, PostsOpen, LocalsOpen, [Next]_vars, NEW j \in Jobs
  PROVE  Move(j)
<1> USE DEF rows, bounds, Move
<1>0. \A f \in flows : f \in Flow /\ f.job \in Jobs
  BY DEF TypeOK, Flow
<1>1. state[j] \in Statuses /\ state \in [Jobs -> Statuses] /\ asked \in [Jobs -> Nat]
  BY DEF TypeOK
<1>2. ASSUME NEW f \in flows, Submit(f) PROVE Move(j)
  <2>1. CASE state[f.job] = "not_started"
    <3>1. /\ state' = [state EXCEPT ![f.job] = "submitting"]
          /\ asked' = [asked EXCEPT ![f.job] = @ + 1] /\ f.step = "submit"
      BY <1>2, <2>1 DEF Submit, At
    <3>2. CASE j = f.job
      BY <1>0, <1>1, <2>1, <3>1, <3>2
    <3>3. CASE j # f.job
      BY <1>0, <1>1, <3>1, <3>3
    <3> QED
      BY <3>2, <3>3
  <2>2. CASE state[f.job] # "not_started"
    BY <1>2, <2>2 DEF Submit
  <2> QED
    BY <2>1, <2>2
<1>3. ASSUME NEW f \in flows, NEW yes \in BOOLEAN, Submitted(f, yes) PROVE Move(j)
  <2>1. CASE state[f.job] = "canceled"
    BY <1>3, <2>1 DEF Submitted, ReachedByCancel
  <2>2. CASE state[f.job] # "canceled"
    <3>1. /\ f.step = "post" /\ state[f.job] = "submitting" /\ asked' = asked
          /\ state' = [state EXCEPT ![f.job] = IF yes THEN "submitted" ELSE "failed"]
      BY <1>3, <2>2 DEF Submitted, At, ReachedByCancel, PostsOpen
    <3>2. \A g \in flows' : g.step = "post" => g \in flows \ {f}
      <4>1. \A s \in {"settle", "halt"} : [f EXCEPT !.step = s, !.job = f.job].step = s
        BY <1>0 DEF Flow
      <4> QED
        BY <1>3, <2>2, <4>1 DEF Submitted, ReachedByCancel, Goes, Ends
    <3>3. \A g \in flows' : g.step = "post" => g.job # f.job
      BY <3>1, <3>2 DEF PostsOpen
    <3> QED
      BY <1>0, <1>1, <3>1, <3>3
  <2> QED
    BY <2>1, <2>2
<1>4. ASSUME NEW i \in Jobs, NEW report \in Reports, Poll(i, report) \/ Refresh(i, report)
      PROVE  Move(j)
  <2>1. state[i] \in Pollable /\ asked[i] > 0 /\ state' = [state EXCEPT ![i] = report] /\ asked' = asked
    BY <1>4 DEF Poll, Refresh, AtTao
  <2>2. report \in Pollable \cup Terminal
    BY <1>4, <2>1 DEF Poll, Refresh, Applied, CanTransition, Pollable, Terminal
  <2> QED
    BY <1>1, <2>1, <2>2
<1>5. ASSUME NEW f \in flows, Advance(f) PROVE Move(j)
  <2>1. /\ asked' = asked
        /\ \/ state'[j] = state[j]
           \/ j \in Eligible(state, f.job.chain) /\ state'[j] \in {"canceled", "running"}
    BY <1>1, <1>5 DEF Advance, Lowest
  <2> QED
    BY <2>1 DEF Eligible
<1>6. ASSUME NEW f \in flows, NEW outcome \in {"succeeded", "failed"}, LocalEnds(f, outcome)
      PROVE  Move(j)
  <2>1. f.step = "local" /\ state' = [state EXCEPT ![f.job] = outcome] /\ asked' = asked
    BY <1>6 DEF LocalEnds, At
  <2>2. \A g \in flows' : g.step = "local" => g \in flows \ {f}
    <3>1. \A s \in {"advance", "halt"} : [f EXCEPT !.step = s, !.job = f.job].step = s
      BY <1>0 DEF Flow
    <3> QED
      BY <1>6, <3>1 DEF LocalEnds, Goes
  <2>3. \A g \in flows' : g.step = "local" => g.job # f.job
    BY <2>1, <2>2 DEF LocalsOpen
  <2> QED
    BY <1>0, <1>1, <2>1, <2>3
<1>7. ASSUME NEW f \in flows, Halt(f) PROVE Move(j)
  BY <1>1, <1>7 DEF Halt, HaltedBy
<1>8. ASSUME NEW f \in flows, Commit(f) PROVE Move(j)
  <2>1. CASE Overtaken(f.job)
    BY <1>8, <2>1 DEF Commit
  <2>2. CASE ~Overtaken(f.job)
    <3>1. /\ asked' = asked
          /\ \/ state'[j] = state[j]
             \/ j = f.job /\ state'[j] = "canceled"
             \/ state[j] = "not_started" /\ state'[j] = "failed"
      BY <1>1, <1>8, <2>2 DEF Commit
    <3>2. state[f.job] \in {"not_started"} \cup InFlight
      BY <1>0, <1>1, <2>2 DEF Overtaken, Statuses
    <3> QED
      BY <3>1, <3>2
  <2> QED
    BY <2>1, <2>2
<1>9. ASSUME NEW f \in flows, Sweep(f) PROVE Move(j)
  BY <1>1, <1>9 DEF Sweep, Statuses
<1>10. ASSUME CrashRestart PROVE Move(j)
  BY <1>1, <1>10 DEF CrashRestart, Recovered, Interrupted
<1>11. CASE UNCHANGED <<state, asked>>
  BY <1>11
<1> QED
  BY <1>2, <1>3, <1>4, <1>5, <1>6, <1>7, <1>8, <1>9, <1>10, <1>11
     DEF Next, Step, vars, Recalled, Settle, LocalRaises, LogsFetched, Plan, Withdrawn, Recover,
         CancelAnswered, Fetched, RecoverFetch, CancelJob, Reconcile, CancelSuite

\* The reason of a row changes only before it starts, or when the suite's
\* cancel takes it; and what it says is so.
Reason(j) ==
  \/ halted'[j] = halted[j]
  \/ state[j] = "not_started" /\ halted'[j] = "none"
  \/ state[j] = "not_started" /\ state'[j] = "canceled" /\ halted'[j] = "skipped"
  \/ /\ state[j] = "not_started" /\ halted'[j] = "failure"
     /\ \E i \in Jobs : j \in Dependents(i) /\ state'[i] \in {"failed", "canceled"}
  \/ /\ state[j] = "not_started" /\ halted'[j] = "cancel"
     /\ \E i \in Chain(j.chain) : i.seq < j.seq /\ state'[i] = "canceled"
  \/ state[j] \notin Terminal /\ halted'[j] = "suite"

\* Every halt is entered with a reason that holds when it is entered.
LEMMA ReasonStep ==
  ASSUME TypeOK, Reported, [Next]_vars, NEW j \in Jobs
  PROVE  Reason(j)
<1> USE DEF rows, bounds, Reason
<1>0. \A f \in flows : f.job \in Jobs
  BY DEF TypeOK, Flow
<1>1. state \in [Jobs -> Statuses] /\ halted \in [Jobs -> {"none", "failure", "cancel", "skipped", "suite"}]
  BY DEF TypeOK
<1>2. ASSUME NEW f \in flows, Advance(f) PROVE Reason(j)
  <2>1. \/ halted'[j] = halted[j]
        \/ /\ j \in Eligible(state, f.job.chain)
           /\ \/ halted'[j] = "none"
              \/ halted'[j] = "skipped" /\ state'[j] = "canceled"
    BY <1>1, <1>2 DEF Advance, Lowest
  <2> QED
    BY <2>1 DEF Eligible
<1>3. ASSUME NEW f \in flows, Halt(f) PROVE Reason(j)
  <2>1. CASE j \notin HaltedBy(f.job)
    BY <1>1, <1>3, <2>1 DEF Halt
  <2>2. CASE j \in HaltedBy(f.job)
    <3>1. state[j] = "not_started" /\ halted'[j] = "failure" /\ j \in Dependents(f.job)
      BY <1>1, <1>3, <2>2 DEF Halt, HaltedBy
    <3>2. f.job.seq # 2
      BY <1>0, <3>1, BaselineIsLeaf DEF Dependents
    <3>3. state[f.job] \in {"failed", "canceled"}
      BY <1>3, <3>2 DEF Halt, At, Reported
    <3>4. state'[f.job] = state[f.job]
      BY <1>0, <1>1, <1>3, <3>3 DEF Halt, HaltedBy
    <3> QED
      BY <1>0, <3>1, <3>3, <3>4
  <2> QED
    BY <2>1, <2>2
<1>4. ASSUME NEW f \in flows, Commit(f) PROVE Reason(j)
  <2>1. CASE Overtaken(f.job)
    BY <1>4, <2>1 DEF Commit
  <2>2. CASE ~Overtaken(f.job)
    <3>1. state'[f.job] = "canceled"
      BY <1>0, <1>1, <1>4, <2>2 DEF Commit
    <3>2. \/ halted'[j] = halted[j]
          \/ /\ j \in Chain(f.job.chain) /\ j.seq > f.job.seq
             /\ state[j] = "not_started" /\ halted'[j] = "cancel"
      BY <1>1, <1>4, <2>2 DEF Commit
    <3>3. ASSUME j \in Chain(f.job.chain), j.seq > f.job.seq
          PROVE  f.job \in Chain(j.chain) /\ f.job.seq < j.seq
      BY <1>0, <3>3, ShapeAssumption DEF Chain, Jobs
    <3> QED
      BY <3>1, <3>2, <3>3
  <2> QED
    BY <2>1, <2>2
<1>5. ASSUME NEW f \in flows, Sweep(f) PROVE Reason(j)
  BY <1>1, <1>5 DEF Sweep
<1>6. CASE UNCHANGED halted
  BY <1>6
<1> QED
  BY <1>2, <1>3, <1>4, <1>5, <1>6
     DEF Next, Step, vars, Submit, Submitted, Recalled, Settle, LocalEnds, LocalRaises, LogsFetched,
         Plan, Withdrawn, Recover, CancelAnswered, Fetched, Poll, Refresh, RecoverFetch, CancelJob,
         Reconcile, CancelSuite, CrashRestart

\* A canceled suite stays canceled, and completion is only ever the roll-up's.
LEMMA SuiteStep ==
  ASSUME TypeOK, [Next]_vars
  PROVE  /\ suite = "canceled" => suite' = "canceled"
         /\ suite' = "completed" => suite = "completed" \/ Good(state', halted') = Jobs
<1> USE DEF rows, bounds
<1>1. ASSUME NEW f \in flows, Settle(f)
      PROVE  /\ suite = "canceled" => suite' = "canceled"
             /\ suite' = "completed" => suite = "completed" \/ Good(state', halted') = Jobs
  BY <1>1 DEF Settle, SettledAs
<1>2. ASSUME NEW st, NEW ht, suite' = RolledUp(st, ht)
      PROVE  /\ suite = "canceled" => suite' = "canceled"
             /\ suite' = "completed" => suite = "completed" \/ Good(st, ht) = Jobs
  BY <1>2 DEF RolledUp
<1>3. ASSUME NEW f \in flows, Advance(f)
      PROVE  suite' = suite \/ suite' = RolledUp(state', halted')
  BY <1>3 DEF Advance
<1>4. ASSUME NEW f \in flows, Halt(f) PROVE suite' = RolledUp(state', halted')
  BY <1>4 DEF Halt
<1>5. ASSUME NEW f \in flows, Plan(f) PROVE suite' = RolledUp(state', halted')
  BY <1>5 DEF Plan
<1>6. CASE suite' \in {suite, "canceled"}
  BY <1>6
<1> QED
  BY <1>1, <1>2, <1>3, <1>4, <1>5, <1>6
     DEF Next, Step, vars, Submit, Submitted, Recalled, LocalEnds, LocalRaises, LogsFetched,
         Withdrawn, Sweep, Commit, Recover, CancelAnswered, Fetched, Poll, Refresh, RecoverFetch,
         CancelJob, Reconcile, CancelSuite, CrashRestart

-----------------------------------------------------------------------------
(* What is so when a flow takes a step.                                    *)

Begins(g) ==
  /\ g.step = "submit" =>
       suite # "canceled" /\ \A i \in Jobs : IsParent(i, g.job) => state'[i] = "succeeded"
  /\ g.step = "local" =>
       /\ Local(g.job) /\ state[g.job] = "not_started" /\ state'[g.job] = "running"
       /\ halted'[g.job] = "none" /\ asked' = asked
       /\ \A i \in Jobs : IsParent(i, g.job) => state'[i] = "succeeded"
       /\ \A h \in flows' : h.step = "local" /\ h.job = g.job => h \in flows \cup {g}
  /\ g.step = "post" =>
       /\ state[g.job] = "not_started" /\ state'[g.job] = "submitting" /\ asked'[g.job] > 0
       /\ \A h \in flows' : h.step = "post" => h \in flows \cup {g}
  /\ g.step \in {"logs", "halt", "recovered"} =>
       g.job.seq = 2 \/ state'[g.job] \in {"failed", "canceled"}
  /\ g.step \in {"withdraw", "sweep"} => suite' = "canceled"

\* A flow that is given a job to submit is the only new one.
LEMMA SubmitsBegin ==
  ASSUME TypeOK, NEW f \in flows, NEW planned \in SUBSET Jobs, suite # "canceled",
         \A j \in planned, i \in Jobs : IsParent(i, j) => state'[i] = "succeeded"
  PROVE  \A g \in Submits(f, planned) : g \in flows \/ Begins(g)
<1>1. f \in Flow
  BY DEF TypeOK
<1>2. ASSUME NEW j \in planned
      PROVE  LET g == [f EXCEPT !.step = "submit", !.job = j] IN g.step = "submit" /\ g.job = j
  BY <1>1 DEF Flow
<1>3. ASSUME NEW j \in planned PROVE Begins([f EXCEPT !.step = "submit", !.job = j])
  BY <1>2 DEF Begins
<1> QED
  BY <1>3 DEF Submits, Ends

\* What is planned after a failure or a cancel has its parents.
LEMMA PlannedReady ==
  ASSUME NEW st, NEW c \in 1 .. Chains, NEW j \in Planned(st, c), NEW i \in Jobs, IsParent(i, j)
  PROVE  st[i] = "succeeded"
<1>1. j \notin NextChain(st)
  BY RootShape DEF NextChain
<1> QED
  BY <1>1 DEF Planned, Lowest, Eligible

\* Whatever the step, each new flow begins one of the ways above.
LEMMA FlowStep ==
  ASSUME TypeOK, Unasked, PostsOpen, LocalsOpen, Quiet, Reported, [Next]_vars, NEW g \in flows'
  PROVE  g \in flows \/ Begins(g)
<1> USE DEF rows, bounds
<1> DEFINE Fine == g \in flows \/ Begins(g)
<1>0. \A f \in flows : f \in Flow /\ f.job \in Jobs /\ f.job.chain \in 1 .. Chains
  BY DEF TypeOK, Flow, Jobs
<1>1. /\ state \in [Jobs -> Statuses] /\ asked \in [Jobs -> Nat]
      /\ halted \in [Jobs -> {"none", "failure", "cancel", "skipped", "suite"}]
  BY DEF TypeOK
<1>2. ASSUME NEW f \in flows, NEW s \in Urgent \cup Awaiting, flows' = Goes(f, s, f.job)
      PROVE  g \in flows \/ (g.step = s /\ g.job = f.job)
  <2>1. LET h == [f EXCEPT !.step = s, !.job = f.job] IN h.step = s /\ h.job = f.job
    BY <1>0 DEF Flow
  <2> QED
    BY <1>2, <2>1 DEF Goes
<1>3. ASSUME NEW f \in flows, Submit(f) PROVE Fine
  <2>1. CASE state[f.job] = "not_started"
    <3>1. /\ flows' = Goes(f, "post", f.job) /\ state'[f.job] = "submitting"
          /\ asked'[f.job] = asked[f.job] + 1
      BY <1>0, <1>1, <1>3, <2>1 DEF Submit
    <3>2. g \in flows \/ (g.step = "post" /\ g.job = f.job)
      BY <1>2, <3>1 DEF Awaiting
    <3>3. \A h \in flows' : h \in flows \/ h = [f EXCEPT !.step = "post", !.job = f.job]
      BY <3>1 DEF Goes
    <3>4. asked'[f.job] > 0
      BY <1>0, <1>1, <3>1
    <3> QED
      BY <2>1, <3>1, <3>2, <3>3, <3>4 DEF Begins
  <2>2. CASE state[f.job] # "not_started"
    BY <1>3, <2>2 DEF Submit, Ends
  <2> QED
    BY <2>1, <2>2
<1>4. ASSUME NEW f \in flows, NEW yes \in BOOLEAN, Submitted(f, yes) PROVE Fine
  <2>1. \/ flows' = Ends(f) \/ flows' = Goes(f, "settle", f.job) \/ flows' = Goes(f, "recall", f.job)
        \/ flows' = Goes(f, "halt", f.job) /\ ~yes /\ state[f.job] # "canceled"
    BY <1>4 DEF Submitted, ReachedByCancel
  <2>2. state[f.job] # "canceled" /\ ~yes => state'[f.job] = "failed"
    BY <1>0, <1>1, <1>4 DEF Submitted, ReachedByCancel
  <2>3. g \in flows \/ g.step \in {"settle", "recall"} \/ (g.step = "halt" /\ state'[g.job] = "failed")
    BY <1>2, <2>1, <2>2 DEF Ends, Urgent, Awaiting
  <2> QED
    BY <2>3 DEF Begins
<1>5. ASSUME NEW f \in flows, Recalled(f) PROVE Fine
  <2>1. g \in flows \/ g.step = "settle"
    BY <1>2, <1>5 DEF Recalled, Ends, Urgent
  <2> QED
    BY <2>1 DEF Begins
<1>6. ASSUME NEW f \in flows, Settle(f) \/ LocalRaises(f) PROVE Fine
  BY <1>6 DEF Settle, LocalRaises, Ends
<1>7. ASSUME NEW j \in Jobs, NEW report \in Reports, Poll(j, report) PROVE Fine
  <2>1. state'[j] = report
    BY <1>1, <1>7 DEF Poll
  <2>2. \/ g \in flows \/ g.step = "fetch"
        \/ g.step \in {"logs", "halt"} /\ g.job = j /\ report \in {"failed", "canceled"}
    BY <1>7 DEF Poll
  <2> QED
    BY <2>1, <2>2 DEF Begins
<1>8. ASSUME NEW f \in flows, NEW outcome \in {"completed", "failed"}, Fetched(f, outcome) PROVE Fine
  <2>1. g \in flows \/ g.step = "advance"
    BY <1>2, <1>8 DEF Fetched, Urgent
  <2> QED
    BY <2>1 DEF Begins
<1>9. ASSUME NEW f \in flows, Advance(f) PROVE Fine
  <2> DEFINE c       == f.job.chain
             open    == Eligible(state, c)
             next    == Lowest({j \in open : ~Doomed(j)})
             skipped == {j \in open : Doomed(j) /\ \A i \in next : j.seq < i.seq}
             here    == {j \in next : Local(j)}
             st      == [j \in Jobs |-> IF j \in skipped THEN "canceled"
                                        ELSE IF j \in here THEN "running" ELSE state[j]]
  <2>1. CASE suite = "canceled"
    BY <1>9, <2>1 DEF Advance, Ends
  <2>2. CASE suite # "canceled"
    <3>1. /\ state' = st /\ asked' = asked
          /\ halted' = [j \in Jobs |-> IF j \in skipped THEN "skipped"
                                       ELSE IF j \in here THEN "none" ELSE halted[j]]
      BY <1>9, <2>2 DEF Advance
    <3>2. \A j \in open : j \in Jobs /\ state[j] = "not_started"
      BY DEF Eligible, Chain
    <3>3. next \subseteq open /\ here \subseteq open /\ here \cap skipped = {}
      <4>1. \A j \in next : j \in open /\ ~Doomed(j)
        BY DEF Lowest
      <4> HIDE DEF next
      <4> QED
        BY <4>1
    <3>4. ASSUME NEW j \in next, NEW i \in Jobs, IsParent(i, j) PROVE state'[i] = "succeeded"
      <4>1. state[i] = "succeeded"
        BY <3>3, <3>4 DEF Eligible
      <4>2. i \notin skipped /\ i \notin here
        BY <3>2, <3>3, <4>1
      <4> HIDE DEF here, skipped
      <4> QED
        BY <3>1, <4>1, <4>2
    <3>5. CASE g \in Ends(f) \cup {[f EXCEPT !.step = "local", !.job = j] : j \in here}
               /\ flows' = Ends(f) \cup {[f EXCEPT !.step = "local", !.job = j] : j \in here}
      <4>1. \A j \in here : LET h == [f EXCEPT !.step = "local", !.job = j]
                            IN  h.step = "local" /\ h.job = j
        BY <1>0 DEF Flow
      <4>2. \A j \in here : j \in Jobs /\ j \notin skipped /\ j \in next /\ Local(j)
        BY <3>2, <3>3
      <4> HIDE DEF here, next, skipped
      <4>3. ASSUME NEW j \in here, g = [f EXCEPT !.step = "local", !.job = j] PROVE Begins(g)
        <5>1. g.step = "local" /\ g.job = j
          BY <4>1, <4>3
        <5>2. \A h \in flows' : h \in flows \/ \E k \in here : h = [f EXCEPT !.step = "local", !.job = k]
          BY <3>5 DEF Ends
        <5>3. \A h \in flows' : h.step = "local" /\ h.job = j => h \in flows \cup {g}
          BY <4>1, <4>3, <5>2
        <5>4. state[j] = "not_started" /\ state'[j] = "running" /\ halted'[j] = "none"
          BY <3>1, <3>2, <3>3, <4>2
        <5> QED
          BY <3>1, <3>4, <4>2, <5>1, <5>3, <5>4 DEF Begins
      <4> QED
        BY <3>5, <4>3 DEF Ends
    <3>6. ASSUME NEW planned \in {next, {}, NextChain(st)}, flows' = Submits(f, planned) PROVE Fine
      <4>1. next \subseteq Jobs
        BY <3>2, <3>3
      <4>2. /\ NextChain(st) \subseteq Jobs
            /\ \A j \in NextChain(st), i \in Jobs : ~IsParent(i, j)
        <5> HIDE DEF st
        <5> QED
          BY RootShape DEF NextChain
      <4> HIDE DEF next, st
      <4>3. planned \in SUBSET Jobs
        BY <4>1, <4>2
      <4>4. \A j \in planned, i \in Jobs : IsParent(i, j) => state'[i] = "succeeded"
        BY <3>4, <4>2
      <4> QED
        BY <2>2, <3>6, <4>3, <4>4, SubmitsBegin
    <3> HIDE DEF next, here, st
    <3>7. \/ flows' = Ends(f) \cup {[f EXCEPT !.step = "local", !.job = j] : j \in here}
          \/ \E planned \in {next, {}, NextChain(st)} : flows' = Submits(f, planned)
      BY <1>9, <2>2 DEF Advance, next, here, st
    <3> QED
      BY <3>5, <3>6, <3>7
  <2> QED
    BY <2>1, <2>2
<1>10. ASSUME NEW f \in flows, NEW outcome \in {"succeeded", "failed"}, LocalEnds(f, outcome) PROVE Fine
  <2>1. f.job.seq = 2
    BY <1>10 DEF LocalEnds, At, LocalsOpen, Local
  <2>2. g \in flows \/ g.step = "advance" \/ (g.step = "halt" /\ g.job = f.job)
    BY <1>2, <1>10 DEF LocalEnds, Urgent
  <2> QED
    BY <2>1, <2>2 DEF Begins
<1>11. ASSUME NEW f \in flows, LogsFetched(f) \/ Recover(f) PROVE Fine
  <2>1. f.job.seq = 2 \/ state'[f.job] \in {"failed", "canceled"}
    BY <1>11 DEF LogsFetched, Recover, At, Reported
  <2>2. g \in flows \/ (g.step = "halt" /\ g.job = f.job)
    BY <1>2, <1>11 DEF LogsFetched, Recover, Urgent
  <2> QED
    BY <2>1, <2>2 DEF Begins
<1>12. ASSUME NEW f \in flows, Halt(f) \/ Plan(f) PROVE Fine
  <2> DEFINE planned == Planned(state', f.job.chain)
  <2>1. flows' = Submits(f, planned)
    BY <1>12 DEF Halt, Plan
  <2>2. CASE suite = "canceled"
    BY <2>1, <2>2 DEF Planned, Submits, Ends
  <2>3. CASE suite # "canceled"
    <3>1. planned \subseteq Jobs
      BY <1>0, PlannedType
    <3>2. \A j \in planned, i \in Jobs : IsParent(i, j) => state'[i] = "succeeded"
      BY <1>0, PlannedReady
    <3> HIDE DEF planned
    <3> QED
      BY <2>1, <2>3, <3>1, <3>2, SubmitsBegin
  <2> QED
    BY <2>2, <2>3
<1>13. ASSUME NEW j \in Jobs, RecoverFetch(j) PROVE Fine
  BY <1>13 DEF RecoverFetch, Begins
<1>14. ASSUME NEW c \in 1 .. Chains, Reconcile(c) PROVE Fine
  <2>1. \A j \in Unhalted(c) : state[j] \in {"failed", "canceled"}
    BY DEF Unhalted, Lowest
  <2>2. g \in flows \/ g.step = "advance" \/ (g.step \in {"logs", "halt"} /\ g.job \in Unhalted(c))
    BY <1>14 DEF Reconcile
  <2>3. state' = state
    BY <1>14 DEF Reconcile
  <2> QED
    BY <2>1, <2>2, <2>3 DEF Begins
<1>15. ASSUME NEW j \in Jobs, NEW forced \in BOOLEAN, CancelJob(j, forced) PROVE Fine
  <2>1. g \in flows \/ g.step \in {"cancel", "commit"}
    BY <1>15 DEF CancelJob
  <2> QED
    BY <2>1 DEF Begins
<1>16. ASSUME NEW f \in flows, NEW yes \in BOOLEAN, CancelAnswered(f, yes) PROVE Fine
  <2>1. g \in flows \/ g.step = "commit"
    BY <1>2, <1>16 DEF CancelAnswered, Ends, Urgent
  <2> QED
    BY <2>1 DEF Begins
<1>17. ASSUME NEW f \in flows, Commit(f) PROVE Fine
  <2>1. g \in flows \/ g.step = "plan"
    BY <1>2, <1>17 DEF Commit, Ends, Urgent
  <2> QED
    BY <2>1 DEF Begins
<1>18. ASSUME CancelSuite PROVE Fine
  <2>1. g \in flows \/ g.step \in {"withdraw", "sweep"}
    BY <1>18 DEF CancelSuite
  <2>2. suite' = "canceled"
    BY <1>18 DEF CancelSuite
  <2> QED
    BY <2>1, <2>2 DEF Begins
<1>19. ASSUME NEW f \in flows, Withdrawn(f) PROVE Fine
  <2>1. g \in flows \/ g.step = "sweep"
    BY <1>2, <1>19 DEF Withdrawn, Urgent
  <2>2. suite' = "canceled"
    BY <1>19 DEF Withdrawn, At, Quiet
  <2> QED
    BY <2>1, <2>2 DEF Begins
<1>20. ASSUME NEW f \in flows, Sweep(f) PROVE Fine
  BY <1>20 DEF Sweep, Ends
<1>21. ASSUME CrashRestart PROVE Fine
  <2>1. g.step = "recovered" /\ g.job \in Interrupted
    BY <1>21 DEF CrashRestart
  <2>2. state'[g.job] = "failed"
    BY <1>21, <2>1 DEF CrashRestart, Recovered, Interrupted
  <2> QED
    BY <2>1, <2>2 DEF Begins
<1>22. ASSUME NEW j \in Jobs, NEW report \in Reports, Refresh(j, report) PROVE Fine
  BY <1>22 DEF Refresh
<1>23. CASE UNCHANGED vars
  BY <1>23 DEF vars
<1> QED
  BY <1>3, <1>4, <1>5, <1>6, <1>7, <1>8, <1>9, <1>10, <1>11, <1>12, <1>13, <1>14, <1>15, <1>16,
     <1>17, <1>18, <1>19, <1>20, <1>21, <1>22, <1>23 DEF Next, Step

\* The configuration of the jobs is written once.
LEMMA LoraStands ==
  ASSUME [Next]_vars
  PROVE  lora' = lora
  BY DEF Next, Step, vars, rows, bounds, Submit, Submitted, Recalled, Settle, Advance, LocalEnds,
         LocalRaises, LogsFetched, Halt, Commit, Plan, Withdrawn, Sweep, Recover, CancelAnswered,
         Fetched, Poll, Refresh, RecoverFetch, CancelJob, Reconcile, CancelSuite, CrashRestart

\* A flow that has the loop and is not settling its suite leaves none that is.
LEMMA NoSettleFromUrgent ==
  ASSUME TypeOK, NEW f \in flows, Step(f), f.step \in Urgent, f.step # "settle"
  PROVE  \A g \in flows' : g \in flows \/ g.step # "settle"
<1>1. f \in Flow /\ f.job \in Jobs
  BY DEF TypeOK, Flow
<1>2. \A s \in Urgent \cup Awaiting : [f EXCEPT !.step = s, !.job = f.job].step = s
  BY <1>1 DEF Flow
<1>3. \A s \in {"post", "plan"} : \A g \in Goes(f, s, f.job) : g \in flows \/ g.step = s
  BY <1>2 DEF Goes, Urgent, Awaiting
<1>4. \A planned : \A g \in Submits(f, planned) : g \in flows \/ g.step = "submit"
  <2>1. \A j : [f EXCEPT !.step = "submit", !.job = j].step = "submit"
    BY <1>1 DEF Flow
  <2> QED
    BY <2>1 DEF Submits, Ends
<1>5. \A S : \A g \in Ends(f) \cup {[f EXCEPT !.step = "local", !.job = j] : j \in S} :
        g \in flows \/ g.step = "local"
  <2>1. \A j : [f EXCEPT !.step = "local", !.job = j].step = "local"
    BY <1>1 DEF Flow
  <2> QED
    BY <2>1 DEF Ends
<1>6. ASSUME Advance(f) PROVE \/ flows' = Ends(f)
                              \/ \E planned : flows' = Submits(f, planned)
                              \/ \E S : flows' = Ends(f) \cup {[f EXCEPT !.step = "local", !.job = j] : j \in S}
  BY <1>6 DEF Advance
<1>7. ASSUME Halt(f) \/ Plan(f) PROVE \E planned : flows' = Submits(f, planned)
  BY <1>7 DEF Halt, Plan
<1>8. ASSUME Submit(f) \/ Commit(f) \/ Sweep(f) \/ Settle(f)
      PROVE  flows' = Ends(f) \/ \E s \in {"post", "plan"} : flows' = Goes(f, s, f.job)
  BY <1>8 DEF Submit, Commit, Sweep, Settle
<1>9. \A g \in Ends(f) : g \in flows
  BY DEF Ends
<1>10. Advance(f) \/ Halt(f) \/ Plan(f) \/ Submit(f) \/ Commit(f) \/ Sweep(f) \/ Settle(f)
  BY DEF Step, At, Urgent, Recalled, LocalRaises, LogsFetched, Withdrawn, Recover, Submitted,
         CancelAnswered, Fetched, LocalEnds
<1> QED
  BY <1>3, <1>4, <1>5, <1>6, <1>7, <1>8, <1>9, <1>10

\* While the launch settles its suite, it has the loop.
LEMMA KickoffStep ==
  ASSUME TypeOK, KickoffAlone, [Next]_vars
  PROVE  KickoffAlone'
<1> USE DEF rows, bounds
<1>0. \A f \in flows : f \in Flow /\ f.job \in Jobs
  BY DEF TypeOK, Flow
<1>1. CASE LoopFree
  <2>1. ASSUME NEW f \in flows,
               \/ \E yes \in BOOLEAN : Submitted(f, yes)
               \/ Recalled(f)
        PROVE  KickoffAlone'
    <3>1. flows' = Ends(f) \/ \E s \in {"settle", "halt", "recall"} : flows' = Goes(f, s, f.job)
      BY <2>1 DEF Submitted, Recalled
    <3>2. \A g, h \in flows' : g \notin flows /\ h \notin flows => g = h
      BY <3>1 DEF Ends, Goes
    <3>3. \A g \in flows : g.step \notin Urgent
      BY <1>1 DEF LoopFree
    <3> QED
      BY <3>2, <3>3 DEF KickoffAlone, Urgent
  <2>2. ASSUME \A g \in flows' : g \in flows \/ g.step # "settle" PROVE KickoffAlone'
    BY <1>1, <2>2 DEF KickoffAlone, LoopFree, Urgent
  <2>3. ASSUME NEW f \in flows, NEW s \in Urgent \cup Awaiting, s # "settle",
               flows' = Goes(f, s, f.job) \/ flows' = Ends(f)
        PROVE  \A g \in flows' : g \in flows \/ g.step # "settle"
    <3>1. [f EXCEPT !.step = s, !.job = f.job].step = s
      BY <1>0 DEF Flow
    <3> QED
      BY <2>3, <3>1 DEF Goes, Ends
  <2>4. ASSUME NEW f \in flows, f.step \in Urgent PROVE FALSE
    BY <1>1, <2>4 DEF LoopFree
  <2>5. ASSUME NEW f \in flows, Step(f), ~Recalled(f), \A yes \in BOOLEAN : ~Submitted(f, yes)
        PROVE  \A g \in flows' : g \in flows \/ g.step # "settle"
    <3>1. \E s \in {"advance", "halt", "commit", "sweep"} :
            flows' = Goes(f, s, f.job) \/ flows' = Ends(f)
      BY <2>4, <2>5 DEF Step, At, Submit, Settle, Advance, LocalRaises, LogsFetched, Halt, Commit,
                        Plan, Withdrawn, Sweep, Recover, CancelAnswered, Fetched, LocalEnds, Urgent
    <3> QED
      BY <2>3, <3>1 DEF Urgent
  <2>6. CASE ~\E f \in flows : Step(f)
    <3>1. \A g \in flows' : g \in flows \/ g.step # "settle"
      BY <2>6 DEF Next, vars, Poll, Refresh, RecoverFetch, CancelJob, Reconcile, CancelSuite, CrashRestart
    <3> QED
      BY <2>2, <3>1
  <2> QED
    BY <2>1, <2>2, <2>5, <2>6
<1>2. CASE ~LoopFree
  <2>1. CASE CrashRestart
    BY <2>1 DEF CrashRestart, KickoffAlone
  <2>2. CASE UNCHANGED vars
    BY <2>2 DEF KickoffAlone, vars
  <2>3. ASSUME NEW f \in flows, Step(f), f.step \in Urgent PROVE KickoffAlone'
    <3>1. CASE f.step = "settle"
      <4>1. flows' = Ends(f)
        BY <2>3, <3>1 DEF Step, At, Submit, Recalled, Settle, Advance, LocalRaises, LogsFetched,
                          Halt, Commit, Plan, Withdrawn, Sweep, Recover, Submitted, CancelAnswered,
                          Fetched, LocalEnds
      <4> QED
        BY <3>1, <4>1 DEF KickoffAlone, Ends
    <3>2. CASE f.step # "settle"
      <4>1. \A g \in flows : g.step # "settle"
        BY <2>3, <3>2 DEF KickoffAlone
      <4>2. \A g \in flows' : g \in flows \/ g.step # "settle"
        BY <2>3, <3>2, NoSettleFromUrgent
      <4> QED
        BY <4>1, <4>2 DEF KickoffAlone
    <3> QED
      BY <3>1, <3>2
  <2>4. ASSUME NEW f \in flows, Recover(f) PROVE FALSE
    BY <1>2, <2>4 DEF Recover, LoopFree, Urgent
  <2>5. ASSUME NEW f \in flows, Step(f) PROVE f.step \in Urgent
    BY <1>2, <2>4, <2>5
       DEF Step, At, Urgent, Submit, Recalled, Settle, Advance, LocalRaises, LogsFetched, Halt,
           Commit, Plan, Withdrawn, Sweep, Submitted, CancelAnswered, Fetched, LocalEnds
  <2>6. ASSUME \E j \in Jobs : \/ \E report \in Reports : Poll(j, report) \/ Refresh(j, report)
                               \/ RecoverFetch(j)
                               \/ \E forced \in BOOLEAN : CancelJob(j, forced)
        PROVE  FALSE
    BY <1>2, <2>6 DEF Poll, Refresh, RecoverFetch, CancelJob
  <2>7. ASSUME CancelSuite \/ \E c \in 1 .. Chains : Reconcile(c) PROVE FALSE
    BY <1>2, <2>7 DEF CancelSuite, Reconcile
  <2> QED
    BY <2>1, <2>2, <2>3, <2>5, <2>6, <2>7 DEF Next
<1> QED
  BY <1>1, <1>2

\* A suite becomes canceled while no flow is about to submit.
LEMMA CancelIsAlone ==
  ASSUME TypeOK, Quiet, KickoffAlone, [Next]_vars, suite # "canceled", suite' = "canceled"
  PROVE  \A f \in flows' : f.step # "submit"
<1> USE DEF rows, bounds
<1>1. CASE CancelSuite
  BY <1>1 DEF CancelSuite, LoopFree, Urgent
<1>2. ASSUME NEW f \in flows, Settle(f) PROVE \A g \in flows' : g.step # "submit"
  BY <1>2 DEF Settle, At, Ends, KickoffAlone, Urgent
<1>3. ASSUME NEW f \in flows, Sweep(f) PROVE FALSE
  BY <1>3 DEF Sweep, At, Quiet
<1>4. ASSUME NEW st, NEW ht, suite' = RolledUp(st, ht) PROVE FALSE
  BY <1>4 DEF RolledUp
<1>5. ASSUME NEW f \in flows, Advance(f) \/ Halt(f) \/ Plan(f) PROVE FALSE
  <2>1. suite' = suite \/ suite' = RolledUp(state', halted') \/ suite' = RolledUp(state, halted)
    BY <1>5 DEF Advance, Halt, Plan
  <2> QED
    BY <1>4, <2>1
<1>6. CASE UNCHANGED suite
  BY <1>6
<1> QED
  BY <1>1, <1>2, <1>3, <1>5, <1>6
     DEF Next, Step, vars, Submit, Submitted, Recalled, LocalEnds, LocalRaises, LogsFetched,
         Withdrawn, Commit, Recover, CancelAnswered, Fetched, Poll, Refresh, RecoverFetch,
         CancelJob, Reconcile, CrashRestart

-----------------------------------------------------------------------------
(* The inductive invariant.                                                *)

IInv ==
  /\ TypeOK /\ AskedOnce /\ Unasked
  /\ PostsOpen /\ LocalsOpen /\ Ready /\ Quiet /\ KickoffAlone /\ Reported
  /\ ParentFirst /\ HaltsAreExplained /\ CompletedMeansDone

\* A suite just launched satisfies the invariant.
LEMMA InitIInv == Init => IInv
<1> SUFFICES ASSUME Init PROVE IInv
  OBVIOUS
<1>1. TypeOK
  BY TypeInit
<1>2. AskedOnce /\ Unasked
  BY DEF Init, AskedOnce, Unasked
<1>3. \A f \in flows : f.step = "submit" /\ f.job = Root(1)
  BY DEF Init
<1>4. \A i \in Jobs : ~IsParent(i, Root(1))
  BY RootShape, ShapeAssumption
<1>5. PostsOpen /\ LocalsOpen /\ Ready /\ Reported /\ KickoffAlone
  BY <1>3, <1>4 DEF PostsOpen, LocalsOpen, Ready, Reported, KickoffAlone
<1>6. Quiet /\ CompletedMeansDone
  BY <1>3 DEF Init, Quiet, CompletedMeansDone
<1>7. ParentFirst /\ HaltsAreExplained
  BY DEF Init, ParentFirst, HaltsAreExplained, InFlight, Pollable
<1> QED
  BY <1>1, <1>2, <1>5, <1>6, <1>7 DEF IInv

\* What ended stands, but for a local evaluation.
LEMMA EndedStep ==
  ASSUME TypeOK, PostsOpen, LocalsOpen, [Next]_vars, NEW j \in Jobs, state[j] \in Terminal,
         \A f \in flows : f.step = "local" => f.job # j
  PROVE  state'[j] = state[j]
  BY RowStep DEF Move, Terminal, InFlight, Pollable

\* A parent's success stands: a local evaluation is nobody's parent.
LEMMA SuccessStands ==
  ASSUME TypeOK, PostsOpen, LocalsOpen, [Next]_vars,
         NEW i \in Jobs, NEW j \in Jobs, IsParent(i, j), state[i] = "succeeded"
  PROVE  state'[i] = "succeeded"
<1>1. \A f \in flows : f.step = "local" => f.job # i
  BY BaselineIsLeaf DEF LocalsOpen, Local
<1> QED
  BY <1>1, EndedStep DEF Terminal

\* TAO is asked only for a job not started, and a started job does not come back.
LEMMA AskedStep ==
  ASSUME IInv, [Next]_vars
  PROVE  AskedOnce' /\ Unasked'
<1> SUFFICES ASSUME NEW j \in Jobs
             PROVE  asked'[j] <= 1 /\ (state'[j] = "not_started" => asked'[j] = 0)
  BY DEF AskedOnce, Unasked
<1>1. Move(j)
  BY RowStep DEF IInv
<1>2. asked[j] \in Nat /\ asked[j] <= 1 /\ (state[j] = "not_started" => asked[j] = 0)
  BY DEF IInv, TypeOK, AskedOnce, Unasked
<1> QED
  BY <1>1, <1>2 DEF Move, Pollable, Terminal

\* Two submissions never share a row, because the second finds it submitting.
LEMMA PostsStep ==
  ASSUME IInv, [Next]_vars
  PROVE  PostsOpen'
<1> SUFFICES ASSUME NEW f \in flows', f.step = "post"
             PROVE  /\ asked'[f.job] # 0
                    /\ state'[f.job] \in {"submitting", "canceled"}
                    /\ \A g \in flows' : g.step = "post" /\ g.job = f.job => g = f
  BY DEF PostsOpen
<1>1. \A g \in flows' : g \in flows \/ Begins(g)
  BY FlowStep DEF IInv
<1>2. \A g \in flows : g.step = "post" => state[g.job] # "not_started"
  BY DEF IInv, PostsOpen
<1>3. CASE f \in flows
  <2>1. f.job \in Jobs /\ asked[f.job] \in Nat
    BY <1>3 DEF IInv, TypeOK, Flow
  <2>2. asked[f.job] # 0 /\ state[f.job] \in {"submitting", "canceled"}
    BY <1>3 DEF IInv, PostsOpen
  <2>3. \A g \in flows : g.step = "local" => g.job # f.job
    BY <2>2 DEF IInv, LocalsOpen
  <2>4. Move(f.job)
    BY <2>1, RowStep DEF IInv
  <2>5. asked'[f.job] # 0 /\ state'[f.job] \in {"submitting", "canceled"}
    BY <2>1, <2>2, <2>3, <2>4 DEF Move, Pollable
  <2>6. ASSUME NEW g \in flows', g.step = "post", g.job = f.job PROVE g = f
    <3>1. g \in flows
      BY <1>1, <1>2, <1>3, <2>6 DEF Begins
    <3> QED
      BY <1>3, <2>6, <3>1 DEF IInv, PostsOpen
  <2> QED
    BY <2>5, <2>6
<1>4. CASE f \notin flows
  <2>1. /\ state[f.job] = "not_started" /\ state'[f.job] = "submitting" /\ asked'[f.job] > 0
        /\ \A h \in flows' : h.step = "post" => h \in flows \cup {f}
    BY <1>1, <1>4 DEF Begins
  <2> QED
    BY <1>2, <2>1
<1> QED
  BY <1>3, <1>4

\* A local evaluation begins on a row not started, and nothing submits it.
LEMMA LocalsStep ==
  ASSUME IInv, [Next]_vars
  PROVE  LocalsOpen'
<1> SUFFICES ASSUME NEW f \in flows', f.step = "local"
             PROVE  /\ Local(f.job)' /\ asked'[f.job] = 0
                    /\ state'[f.job] \in {"running", "canceled"} /\ halted'[f.job] # "skipped"
                    /\ \A g \in flows' : g.step = "local" /\ g.job = f.job => g = f
  BY DEF LocalsOpen
<1>1. \A g \in flows' : g \in flows \/ Begins(g)
  BY FlowStep DEF IInv
<1>2. \A g \in flows : g.step = "local" => state[g.job] # "not_started"
  BY DEF IInv, LocalsOpen
<1>3. f.job \in Jobs
  BY TypeStep DEF IInv, TypeOK, Flow
<1>4. Local(f.job)' <=> Local(f.job)
  BY LoraStands DEF Local
<1>5. CASE f \in flows
  <2>1. /\ Local(f.job) /\ asked[f.job] = 0
        /\ state[f.job] \in {"running", "canceled"} /\ halted[f.job] # "skipped"
    BY <1>5 DEF IInv, LocalsOpen
  <2>2. Move(f.job) /\ Reason(f.job)
    BY <1>3, RowStep, ReasonStep DEF IInv
  <2>3. asked'[f.job] = 0 /\ state'[f.job] \in {"running", "canceled"}
    BY <1>5, <2>1, <2>2 DEF Move
  <2>4. halted'[f.job] # "skipped"
    BY <2>1, <2>2 DEF Reason
  <2>5. ASSUME NEW g \in flows', g.step = "local", g.job = f.job PROVE g = f
    <3>1. g \in flows
      BY <1>1, <1>2, <1>5, <2>5 DEF Begins
    <3> QED
      BY <1>5, <2>5, <3>1 DEF IInv, LocalsOpen
  <2> QED
    BY <1>4, <2>1, <2>3, <2>4, <2>5
<1>6. CASE f \notin flows
  <2>1. Begins(f)
    BY <1>1, <1>6
  <2>2. asked'[f.job] = 0
    BY <1>3, <2>1 DEF Begins, IInv, Unasked
  <2>3. \A g \in flows' : g.step = "local" /\ g.job = f.job => g = f
    BY <1>2, <2>1 DEF Begins
  <2> QED
    BY <1>4, <2>1, <2>2, <2>3 DEF Begins
<1> QED
  BY <1>5, <1>6

\* What was planned stays ready: a parent's success stands.
LEMMA ReadyStep ==
  ASSUME IInv, [Next]_vars
  PROVE  Ready'
<1> SUFFICES ASSUME NEW f \in flows', NEW i \in Jobs, f.step \in {"submit", "local"},
                    IsParent(i, f.job)
             PROVE  state'[i] = "succeeded"
  BY DEF Ready
<1>1. f \in flows \/ Begins(f)
  BY FlowStep DEF IInv
<1>2. CASE f \in flows
  <2>1. f.job \in Jobs /\ state[i] = "succeeded"
    BY <1>2 DEF IInv, TypeOK, Flow, Ready
  <2> QED
    BY <2>1, SuccessStands DEF IInv
<1> QED
  BY <1>1, <1>2 DEF Begins

\* The suite is not canceled between planning a job and asking for it.
LEMMA QuietStep ==
  ASSUME IInv, [Next]_vars
  PROVE  Quiet'
<1> SUFFICES ASSUME NEW f \in flows'
             PROVE  /\ suite' = "canceled" => f.step # "submit"
                    /\ f.step \in {"withdraw", "sweep"} => suite' = "canceled"
  BY DEF Quiet
<1>1. f \in flows \/ Begins(f)
  BY FlowStep DEF IInv
<1>2. suite = "canceled" => suite' = "canceled"
  BY SuiteStep DEF IInv
<1>3. suite' = "canceled" /\ f.step = "submit" => suite = "canceled"
  BY CancelIsAlone DEF IInv
<1> QED
  BY <1>1, <1>2, <1>3 DEF Begins, IInv, Quiet

\* A failure that is to be handled does not turn into anything else.
LEMMA ReportedStep ==
  ASSUME IInv, [Next]_vars
  PROVE  Reported'
<1> SUFFICES ASSUME NEW f \in flows', f.step \in {"logs", "halt", "recovered"}, f.job.seq # 2
             PROVE  state'[f.job] \in {"failed", "canceled"}
  BY DEF Reported
<1>1. f \in flows \/ Begins(f)
  BY FlowStep DEF IInv
<1>2. CASE f \in flows
  <2>1. f.job \in Jobs /\ state[f.job] \in {"failed", "canceled"}
    BY <1>2 DEF IInv, TypeOK, Flow, Reported
  <2>2. \A g \in flows : g.step = "local" => g.job # f.job
    BY DEF IInv, LocalsOpen, Local
  <2> QED
    BY <2>1, <2>2, EndedStep DEF IInv, Terminal
<1> QED
  BY <1>1, <1>2 DEF Begins

\* A row starts only from a flow that is ready, and its parent's success stands.
LEMMA ParentStep ==
  ASSUME IInv, [Next]_vars
  PROVE  ParentFirst'
<1> SUFFICES ASSUME NEW i \in Jobs, NEW j \in Jobs, IsParent(i, j),
                    state'[j] \in InFlight \cup {"succeeded"}
             PROVE  state'[i] = "succeeded"
  BY DEF ParentFirst
<1>1. Move(j)
  BY RowStep DEF IInv
<1>2. CASE state[j] \in InFlight \cup {"succeeded"}
  BY <1>2, SuccessStands DEF IInv, ParentFirst
<1>3. CASE state[j] \notin InFlight \cup {"succeeded"}
  <2>1. state[i] = "succeeded"
    <3>1. \/ \E f \in flows : f.step \in {"submit", "local"} /\ f.job = j
          \/ \A k \in Jobs : IsParent(k, j) => state[k] = "succeeded"
      BY <1>1, <1>3 DEF Move, InFlight, Pollable
    <3> QED
      BY <3>1 DEF IInv, Ready
  <2> QED
    BY <2>1, SuccessStands DEF IInv
<1> QED
  BY <1>2, <1>3

\* The reason of a halt stands as long as the job it names stays ended.
LEMMA HaltsStep ==
  ASSUME IInv, [Next]_vars
  PROVE  HaltsAreExplained'
<1> SUFFICES ASSUME NEW j \in Jobs
             PROVE  /\ halted'[j] = "failure" =>
                         \E i \in Jobs : j \in Dependents(i) /\ state'[i] \in {"failed", "canceled"}
                    /\ halted'[j] = "cancel" =>
                         \E i \in Chain(j.chain) :
                           i.seq < j.seq /\ (state'[i] = "canceled" \/ Local(i)')
  BY DEF HaltsAreExplained
<1>1. Reason(j)
  BY ReasonStep DEF IInv
<1>2. \A i \in Jobs : Local(i)' <=> Local(i)
  BY LoraStands DEF Local
<1>3. ASSUME halted[j] = "failure", halted'[j] = "failure"
      PROVE  \E i \in Jobs : j \in Dependents(i) /\ state'[i] \in {"failed", "canceled"}
  <2>1. PICK i \in Jobs : j \in Dependents(i) /\ state[i] \in {"failed", "canceled"}
    BY <1>3 DEF IInv, HaltsAreExplained
  <2>2. i.seq # 2
    BY <2>1, BaselineIsLeaf DEF Dependents
  <2>3. \A f \in flows : f.step = "local" => f.job # i
    BY <2>2 DEF IInv, LocalsOpen, Local
  <2>4. state'[i] = state[i]
    BY <2>1, <2>3, EndedStep DEF IInv, Terminal
  <2> QED
    BY <2>1, <2>4
<1>4. ASSUME halted[j] = "cancel", halted'[j] = "cancel"
      PROVE  \E i \in Chain(j.chain) : i.seq < j.seq /\ (state'[i] = "canceled" \/ Local(i)')
  <2>1. PICK i \in Chain(j.chain) : i.seq < j.seq /\ (state[i] = "canceled" \/ Local(i))
    BY <1>4 DEF IInv, HaltsAreExplained
  <2>2. i \in Jobs
    BY DEF Chain
  <2>3. ASSUME ~Local(i) PROVE state'[i] = "canceled"
    <3>1. \A f \in flows : f.step = "local" => f.job # i
      BY <2>3 DEF IInv, LocalsOpen
    <3> QED
      BY <2>1, <2>2, <2>3, <3>1, EndedStep DEF IInv, Terminal
  <2> QED
    BY <1>2, <2>1, <2>2, <2>3
<1> QED
  BY <1>1, <1>3, <1>4 DEF Reason

\* After completion no row moves.
LEMMA CompletedStep ==
  ASSUME IInv, [Next]_vars
  PROVE  CompletedMeansDone'
<1> SUFFICES ASSUME suite' = "completed", NEW j \in Jobs
             PROVE  state'[j] = "succeeded" \/ (state'[j] = "canceled" /\ halted'[j] = "skipped")
  BY DEF CompletedMeansDone
<1>1. CASE Good(state', halted') = Jobs
  BY <1>1 DEF Good
<1>2. CASE suite = "completed"
  <2>1. state[j] = "succeeded" \/ (state[j] = "canceled" /\ halted[j] = "skipped")
    BY <1>2 DEF IInv, CompletedMeansDone
  <2>2. \A f \in flows : f.step = "local" => f.job # j
    BY <2>1 DEF IInv, LocalsOpen
  <2>3. state'[j] = state[j]
    BY <2>1, <2>2, EndedStep DEF IInv, Terminal
  <2>4. Reason(j)
    BY ReasonStep DEF IInv
  <2>5. halted'[j] = halted[j]
    BY <2>1, <2>4 DEF Reason, Terminal
  <2> QED
    BY <2>1, <2>3, <2>5
<1> QED
  BY <1>1, <1>2, SuiteStep DEF IInv

\* The invariant holds of every reachable state.
LEMMA Inductive == Spec => []IInv
<1>1. IInv /\ [Next]_vars => IInv'
  <2> SUFFICES ASSUME IInv, [Next]_vars PROVE IInv'
    OBVIOUS
  <2>1. TypeOK'
    BY TypeStep DEF IInv
  <2> QED
    BY <2>1, AskedStep, PostsStep, LocalsStep, ReadyStep, QuietStep, KickoffStep, ReportedStep, ParentStep,
       HaltsStep, CompletedStep DEF IInv
<1> QED
  BY <1>1, InitIInv, PTL DEF Spec

-----------------------------------------------------------------------------
(* What follows.                                                           *)

\* TAO is asked for each job at most once, however many flows plan it and
\* whatever crashes (submit_chain_job, recover_interrupted_tao_jobs).
THEOREM AskedOnceCorrect == Spec => []AskedOnce
<1>1. IInv => AskedOnce
  BY DEF IInv
<1> QED
  BY <1>1, Inductive, PTL

\* No job is at TAO, or done, before the parent whose checkpoint it loads
\* (_find_next_eligible_in_session and its callers).
THEOREM ParentsCorrect == Spec => []ParentFirst
<1>1. IInv => ParentFirst
  BY DEF IInv
<1> QED
  BY <1>1, Inductive, PTL

\* Failure isolation: a job is halted for a failure it depends on, or for a
\* cancel it follows (_halt_chain_in_session, cancel_tao_job).
THEOREM IsolationCorrect == Spec => []HaltsAreExplained
<1>1. IInv => HaltsAreExplained
  BY DEF IInv
<1> QED
  BY <1>1, Inductive, PTL

\* A suite reported completed has every job done or deliberately skipped
\* (_roll_up_suite_status).
THEOREM CompletionCorrect == Spec => []CompletedMeansDone
<1>1. IInv => CompletedMeansDone
  BY DEF IInv
<1> QED
  BY <1>1, Inductive, PTL

\* A canceled suite stays canceled and asks TAO for nothing more
\* (cancel_training_suite against every flow under way).
THEOREM CancelIsFinal == Spec => CanceledSuiteStaysQuiet
<1>1. IInv /\ [Next]_vars => [suite = "canceled" => suite' = "canceled" /\ asked' = asked]_vars
  <2> SUFFICES ASSUME IInv, [Next]_vars, suite = "canceled"
               PROVE  suite' = "canceled" /\ asked' = asked
    OBVIOUS
  <2>1. \A j \in Jobs : asked'[j] = asked[j]
    <3> SUFFICES ASSUME NEW j \in Jobs PROVE asked'[j] = asked[j]
      OBVIOUS
    <3>1. Move(j)
      BY RowStep DEF IInv
    <3>2. \A f \in flows : f.step # "submit"
      BY DEF IInv, Quiet
    <3> QED
      BY <3>1, <3>2 DEF Move
  <2>2. asked \in [Jobs -> Nat] /\ asked' \in [Jobs -> Nat]
    BY TypeStep DEF IInv, TypeOK
  <2>3. asked' = asked
    BY <2>1, <2>2
  <2> QED
    BY <2>3, SuiteStep DEF IInv
<1> QED
  BY <1>1, Inductive, PTL DEF Spec, CanceledSuiteStaysQuiet

\* No answer of TAO, cancel, halt, sweep or recovery changes a job that ended
\* (apply_poll_result, cancel_tao_job, _submit_and_persist_outcome).
THEOREM EndedStands == Spec => EndedJobsStand
<1>1. IInv /\ [Next]_vars =>
        [\A j \in Jobs :
           state[j] \in Terminal /\ (\A f \in flows : f.step = "local" => f.job # j)
             => state'[j] = state[j]]_vars
  BY EndedStep DEF IInv
<1> QED
  BY <1>1, Inductive, PTL DEF Spec, EndedJobsStand
=============================================================================
