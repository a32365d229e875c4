----------------------------- MODULE MCServing -----------------------------
(***************************************************************************)
(* The NIMs of this host, and the drains that ask one of them for          *)
(* embeddings, checked by one run: the scene, chosen at the start, says    *)
(* which of them a behaviour is about.  The other stays where it begins.   *)
(*                                                                         *)
(*  - serving: everything that NIMs and Students do, in few events;        *)
(*  - deployments: one event more, without Students, for what Docker       *)
(*    refuses of what an earlier refusal or crash left;                    *)
(*  - drains.                                                              *)
(***************************************************************************)
EXTENDS StudentServing, IngestDrains

CONSTANT MaxServingEvents  \* bound: as MaxEvents, where Students are served

VARIABLE scene  \* the part this behaviour is about

servingVars == <<scene, vars, drainVars>>

ServingInit ==
  /\ scene \in {"serving", "deployments", "drains"}
  /\ Init /\ DrainInit
  /\ up = {}
  /\ scene # "drains" => unreadable = {}
  /\ scene = "drains" => ided = {}
  /\ scene = "serving" => config = 0

ServingNext ==
  /\ UNCHANGED scene
  /\ \/ /\ scene = "serving" /\ Next /\ UNCHANGED drainVars
        /\ requests' + crashes' + faults' <= MaxServingEvents
     \/ scene = "deployments" /\ Next /\ UNCHANGED <<serving, drainVars>>
     \/ scene = "drains" /\ DrainNext /\ UNCHANGED vars

ServingSpec == ServingInit /\ [][ServingNext]_servingVars /\ Fairness /\ DrainFair
=============================================================================
