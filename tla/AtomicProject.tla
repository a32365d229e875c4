--------------------------- MODULE AtomicProject ---------------------------
(***************************************************************************)
(* What one labeling project promises its users, with every handler of the *)
(* backend taken to be one indivisible step: the dispositions of its       *)
(* examples, its Guidance version and the phases of its batch-label runs.  *)
(* No process memory, no requests in flight, no locks.                     *)
(***************************************************************************)
EXTENDS Naturals

CONSTANTS Keys, Runs

VARIABLES version, disposition, phase

vars == <<version, disposition, phase>>

Unsettled == {"queued", "running", "canceling"}

Init ==
  /\ version = 1
  /\ disposition = [k \in Keys |-> "Unlabeled"]
  /\ phase = [r \in Runs |-> "none"]

SoleRun(r) == \A q \in Runs \ {r} : phase[q] \notin Unsettled

Move(r, from, to) ==
  /\ phase[r] \in from
  /\ phase' = [phase EXCEPT ![r] = to]
  /\ UNCHANGED <<version, disposition>>

\* A run is created, or resumed, only while no other is unsettled.
Create(r) == SoleRun(r) /\ Move(r, {"none", "paused"}, "queued")

RequestCancel(r) == Move(r, Unsettled, "canceling") \/ Move(r, {"paused"}, "canceled")

\* What its executor makes of a run.
Advance(r) ==
  \/ Move(r, {"queued"}, "running")
  \/ Move(r, {"running"}, "paused")
  \/ Move(r, {"running"}, "completed")
  \/ Move(r, {"canceling"}, "canceled")
  \/ Move(r, Unsettled, "failed")

Dispose(k, to) ==
  /\ disposition[k] \in {"Unlabeled", "Auto-Labeled"}
  /\ disposition' = [disposition EXCEPT ![k] = to]
  /\ UNCHANGED <<version, phase>>

\* Only a running run labels, and only what no human has decided.
MachineLabel(k) == (\E r \in Runs : phase[r] = "running") /\ Dispose(k, "Auto-Labeled")

HumanDecide(k) == Dispose(k, "Verified") \/ Dispose(k, "Omitted")

Restore ==
  /\ disposition' = [k \in Keys |-> IF disposition[k] = "Omitted" THEN "Unlabeled"
                                    ELSE disposition[k]]
  /\ UNCHANGED <<version, phase>>

\* A Guidance edit fails every run that could still label under the old
\* version; a semantic one also takes the labels back.
Edit ==
  /\ version' = version + 1
  /\ phase' = [r \in Runs |-> IF phase[r] \in Unsettled \cup {"paused"} THEN "failed"
                              ELSE phase[r]]
  /\ \/ disposition' = disposition
     \/ disposition' = [k \in Keys |-> IF disposition[k] = "Omitted" THEN "Omitted"
                                       ELSE "Unlabeled"]

\* A restart takes up what was running and ends what was being canceled.
Restart ==
  /\ phase' = [r \in Runs |-> CASE phase[r] = "running"   -> "queued"
                                [] phase[r] = "canceling" -> "canceled"
                                [] OTHER                  -> phase[r]]
  /\ UNCHANGED <<version, disposition>>

Next ==
  \/ \E r \in Runs : Create(r) \/ RequestCancel(r) \/ Advance(r)
  \/ \E k \in Keys : MachineLabel(k) \/ HumanDecide(k)
  \/ Restore \/ Edit \/ Restart

Spec == Init /\ [][Next]_vars
=============================================================================
