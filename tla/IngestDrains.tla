---------------------------- MODULE IngestDrains ----------------------------
(***************************************************************************)
(* What happens to an image after it is ingested: two background workers   *)
(* drain the rows that lack a pHash and the rows that lack an embedding.   *)
(* Each worker is one task with a fixed id, so a trigger that finds it     *)
(* running does nothing, and a drain has to see for itself what arrived    *)
(* meanwhile.  The embedding drain also has to follow its provider, a      *)
(* local NIM or the hosted endpoint, which comes and goes.                 *)
(*                                                                         *)
(*  - A batch is one image.  Shutdown is a crash that the workers notice.  *)
(*  - SSEManager.emit does not suspend, so the look that finds nothing     *)
(*    pending and the end of the task are one step.                        *)
(*  - EMBEDDINGS_AUTO_COMPUTE is on and EMBEDDING_PROVIDER is "auto".      *)
(***************************************************************************)
EXTENDS Naturals, FiniteSets

CONSTANTS
  Images,        \* images
  Damaged,     \* those whose file may turn out unreadable
  Width,       \* EMBEDDING_CONCURRENCY
  MaxDrainEvents    \* bound: comings and goings of the two providers, archivings and crashes

ASSUME DrainAssumption ==
  /\ IsFiniteSet(Images) /\ Damaged \subseteq Images
  /\ Width \in Nat \ {0} /\ MaxDrainEvents \in Nat

Providers == {"none", "local", "hosted"}

VARIABLES
  \* ---- the databases and the project's directory
  ingested,    \* Example
  hashed,      \* those with a phash
  embedded,    \* ClipEmbedding
  stamp,       \* Project.embedding_provider
  recorded,    \* EmbeddingDeploymentConfig names a healthy local NIM
  marker,      \* the .archived file of an archived project
  \* ---- the world
  unreadable,  \* images whose file cannot be decoded
  up,          \* which endpoints answer
  \* ---- the process
  handlers,    \* :ingest requests between their commit and their triggers
  sweep,       \* _ingest_worker
  embed,       \* _embedding_worker
  resweeps,    \* resweep_embedding_tasks, by what they read of the configuration
  \* ---- bookkeeping
  passedOver,  \* rows the last startup left, for the project was archived
  drainEvents  \* bound counter

examples == <<ingested, hashed, embedded>>
world == <<recorded, unreadable, up>>
drainVars == <<examples, stamp, world, marker, handlers, sweep, embed, resweeps, passedOver, drainEvents>>

\* left: of this pass, not attempted; tried: attempted_keys; at: in flight.
NoSweep == [on |-> FALSE, left |-> {}, tried |-> {}]
NoEmbed == [step |-> "off", arm |-> FALSE, provider |-> "none", failed |-> FALSE,
            left |-> {}, tried |-> {}, at |-> {}]

DrainInit ==
  /\ ingested = {} /\ hashed = {} /\ embedded = {}
  /\ stamp = "none" /\ recorded = FALSE
  /\ marker = FALSE
  /\ unreadable \in SUBSET Damaged /\ up \in SUBSET {"hosted"}
  /\ handlers = 0 /\ sweep = NoSweep /\ embed = NoEmbed /\ resweeps = {}
  /\ passedOver = {}
  /\ drainEvents = 0

DrainEvent == drainEvents < MaxDrainEvents /\ drainEvents' = drainEvents + 1

-----------------------------------------------------------------------------
(* Ingest.                                                                 *)

\* try_register: a task that is not done keeps its id.
Swept(s)    == IF s.on THEN s ELSE [NoSweep EXCEPT !.on = TRUE]
Embedded(e) == IF e.step # "off" THEN e ELSE [NoEmbed EXCEPT !.step = "start"]

Ingest(k) ==
  /\ k \notin ingested
  /\ ingested' = ingested \cup {k}
  /\ handlers' = handlers + 1
  /\ UNCHANGED <<hashed, embedded, stamp, world, marker, sweep, embed, resweeps, passedOver, drainEvents>>

\* The request goes on from the thread that inserted, and triggers both.
Trigger ==
  /\ handlers > 0
  /\ handlers' = handlers - 1
  /\ sweep' = Swept(sweep)
  /\ embed' = Embedded(embed)
  /\ UNCHANGED <<examples, stamp, world, marker, resweeps, passedOver, drainEvents>>

-----------------------------------------------------------------------------
(* The pHash drain.                                                        *)

\* Mutant: what arrives while the sweeper runs is the next trigger's.
SweepLeftAtFirst == IF sweep.tried = {} THEN ingested \ hashed ELSE {}

\* Nothing is attempted twice by one worker.
SweepLeft == (ingested \ hashed) \ sweep.tried

\* The look at the top of the loop; the task ends when it finds nothing.
SweepLook ==
  /\ sweep.on /\ sweep.left = {}
  /\ sweep' = IF SweepLeft = {} THEN NoSweep ELSE [sweep EXCEPT !.left = SweepLeft]
  /\ UNCHANGED <<examples, stamp, world, marker, handlers, embed, resweeps, passedOver, drainEvents>>

\* A batch is marked attempted, decoded in a thread and committed.  An ingest
\* that comes while it is decoded finds the sweeper running, as before it.
SweepBatch(k) ==
  /\ k \in sweep.left
  /\ hashed' = hashed \cup ({k} \ unreadable)
  /\ sweep' = [sweep EXCEPT !.left = @ \ {k}, !.tried = @ \cup {k}]
  /\ UNCHANGED <<ingested, embedded, stamp, world, marker, handlers, embed, resweeps,
                 passedOver, drainEvents>>

-----------------------------------------------------------------------------
(* The embedding provider.                                                 *)

\* Mutant: a stamped provider is taken as it is.
ServeableIfStamped(p) == p # "none"

\* _resolve_embedding_endpoint finds an endpoint, and the configuration still
\* vouches for it.  The hosted key is present.
Serveable(p) == p = "hosted" \/ (p = "local" /\ recorded)

\* probe_nvclip, begun when the configuration was as arm says: the local NIM
\* if it is recorded and answers, else the hosted endpoint if that does.
Probed(arm) ==
  IF arm /\ "local" \in up THEN "local"
  ELSE IF "hosted" \in up THEN "hosted" ELSE "none"

\* The first steps of a worker: it takes the project's stamp, or probes again
\* if there is none or it can no longer be served.
EmbedStart ==
  /\ embed.step = "start"
  /\ embed' = IF Serveable(stamp)
              THEN [embed EXCEPT !.step = "drain", !.provider = stamp]
              ELSE [embed EXCEPT !.step = IF stamp = "none" THEN "probe" ELSE "reprobe",
                                 !.arm = recorded]
  /\ UNCHANGED <<examples, stamp, world, marker, handlers, sweep, resweeps, passedOver, drainEvents>>

\* The probe's answer is stamped on the project.  What the first probe found
\* may by now be unserveable too; after the second the worker gives up.
AfterProbe(p) ==
  IF p = "none" THEN NoEmbed
  ELSE IF Serveable(p) THEN [embed EXCEPT !.step = "drain", !.provider = p]
  ELSE IF embed.step = "probe" THEN [embed EXCEPT !.step = "reprobe", !.arm = recorded]
  ELSE NoEmbed

EmbedProbed ==
  /\ embed.step \in {"probe", "reprobe"}
  /\ stamp' = Probed(embed.arm)
  /\ embed' = AfterProbe(Probed(embed.arm))
  /\ UNCHANGED <<examples, world, marker, handlers, sweep, resweeps, passedOver, drainEvents>>

-----------------------------------------------------------------------------
(* The embedding drain.                                                    *)

EmbedLeft == (ingested \ embedded) \ embed.tried

\* One failed call ends the worker; otherwise it looks again until it finds
\* nothing that it has not attempted.
EmbedLook ==
  /\ embed.step = "drain" /\ embed.left = {} /\ embed.at = {}
  /\ embed' = IF embed.failed \/ EmbedLeft = {} THEN NoEmbed
              ELSE [embed EXCEPT !.left = EmbedLeft]
  /\ UNCHANGED <<examples, stamp, world, marker, handlers, sweep, resweeps, passedOver, drainEvents>>

\* A batch enters the semaphore; a file that cannot be read asks for nothing.
EmbedTake(k) ==
  /\ k \in embed.left /\ ~ embed.failed /\ Cardinality(embed.at) < Width
  /\ embed' = [embed EXCEPT !.left = @ \ {k}, !.tried = @ \cup {k},
                            !.at = @ \cup ({k} \ unreadable)]
  /\ UNCHANGED <<examples, stamp, world, marker, handlers, sweep, resweeps, passedOver, drainEvents>>

\* Batches that waited on the semaphore while another failed return.
EmbedSkip ==
  /\ embed.left # {} /\ embed.failed
  /\ embed' = [embed EXCEPT !.left = {}]
  /\ UNCHANGED <<examples, stamp, world, marker, handlers, sweep, resweeps, passedOver, drainEvents>>

\* A batch that was reading its file, or held at the priority gate, while
\* another failed never asks.
EmbedDrop(k) ==
  /\ k \in embed.at /\ embed.failed
  /\ embed' = [embed EXCEPT !.at = @ \ {k}]
  /\ UNCHANGED <<examples, stamp, world, marker, handlers, sweep, resweeps, passedOver, drainEvents>>

EmbedReturn(k) ==
  /\ k \in embed.at
  /\ \/ /\ embed.provider \in up
        /\ embedded' = embedded \cup {k}
        /\ embed' = [embed EXCEPT !.at = @ \ {k}]
     \/ /\ embed.provider \notin up
        /\ embed' = [embed EXCEPT !.at = @ \ {k}, !.failed = TRUE]
        /\ UNCHANGED embedded
  /\ UNCHANGED <<ingested, hashed, stamp, world, marker, handlers, sweep, resweeps,
                 passedOver, drainEvents>>

\* A poll of :embedding_status restarts a drain that died.  The cooldown
\* delays a restart and never denies it.
Poll ==
  /\ ingested \ embedded # {} /\ embed.step = "off"
  /\ embed' = Embedded(embed)
  /\ UNCHANGED <<examples, stamp, world, marker, handlers, sweep, resweeps, passedOver, drainEvents>>

-----------------------------------------------------------------------------
(* The providers come and go.                                              *)

HostedChanges ==
  /\ DrainEvent
  /\ up' = IF "hosted" \in up THEN up \ {"hosted"} ELSE up \cup {"hosted"}
  /\ UNCHANGED <<examples, stamp, recorded, unreadable, marker, handlers, sweep, embed, resweeps, passedOver>>

LocalDies ==
  /\ DrainEvent /\ "local" \in up
  /\ up' = up \ {"local"}
  /\ UNCHANGED <<examples, stamp, recorded, unreadable, marker, handlers, sweep, embed, resweeps, passedOver>>

\* The local NIM turns healthy, or is stopped or given up: the configuration
\* changes first, and the resweep starts with a probe under it.
LocalHealthy ==
  /\ DrainEvent /\ "local" \notin up
  /\ up' = up \cup {"local"} /\ recorded' = TRUE
  /\ resweeps' = resweeps \cup {TRUE}
  /\ UNCHANGED <<examples, stamp, unreadable, marker, handlers, sweep, embed, passedOver>>

LocalReset ==
  /\ recorded
  /\ up' = up \ {"local"} /\ recorded' = FALSE
  /\ resweeps' = resweeps \cup {FALSE}
  /\ UNCHANGED <<examples, stamp, unreadable, marker, handlers, sweep, embed, passedOver, drainEvents>>

\* The probe answered: the project is stamped anew, if it is not archived, and
\* a drain is triggered for what is pending.
Restamped(p) ==
  /\ stamp' = p
  /\ embed' = IF p # "none" /\ ingested \ embedded # {} THEN Embedded(embed) ELSE embed

ResweepEnds(arm) ==
  /\ arm \in resweeps
  /\ resweeps' = resweeps \ {arm}
  /\ IF marker THEN UNCHANGED <<stamp, embed>> ELSE Restamped(Probed(arm))
  /\ UNCHANGED <<examples, world, marker, handlers, sweep, passedOver, drainEvents>>

-----------------------------------------------------------------------------
(* Archiving, which the startup scans and the resweep see by its marker    *)
(* file alone.  No drain keeps a project from being archived, and an       *)
(* archived project still takes images.                                    *)

Archive ==
  /\ DrainEvent
  /\ ~ marker /\ marker' = TRUE
  /\ UNCHANGED <<examples, stamp, world, handlers, sweep, embed, resweeps, passedOver>>

Unarchive ==
  /\ marker /\ marker' = FALSE
  /\ UNCHANGED <<examples, stamp, world, handlers, sweep, embed, resweeps, passedOver, drainEvents>>

-----------------------------------------------------------------------------

\* The process dies and starts again; the startup scans pass over a project
\* with a marker, and start a drain where something is pending.
DrainCrash ==
  /\ DrainEvent
  /\ handlers' = 0 /\ resweeps' = {}
  /\ sweep' = IF ~ marker /\ ingested \ hashed # {} THEN Swept(NoSweep) ELSE NoSweep
  /\ embed' = IF ~ marker /\ ingested \ embedded # {} THEN Embedded(NoEmbed) ELSE NoEmbed
  /\ passedOver' = IF marker THEN ingested \ hashed ELSE {}
  /\ UNCHANGED <<examples, stamp, world, marker>>

Sweeping  == SweepLook \/ \E k \in Images : SweepBatch(k)
Embedding == EmbedStart \/ EmbedProbed \/ EmbedLook \/ EmbedSkip
             \/ \E k \in Images : EmbedTake(k) \/ EmbedReturn(k) \/ EmbedDrop(k)

DrainNext ==
  \/ \E k \in Images : Ingest(k)
  \/ Trigger \/ Poll
  \/ Sweeping \/ Embedding
  \/ HostedChanges \/ LocalDies \/ LocalHealthy \/ LocalReset
  \/ \E arm \in BOOLEAN : ResweepEnds(arm)
  \/ Archive \/ Unarchive
  \/ DrainCrash

\* Every await of a worker returns, and somebody polls the status.
DrainFair ==
  /\ WF_drainVars(Trigger) /\ WF_drainVars(Sweeping)
  /\ WF_drainVars(Embedding) /\ WF_drainVars(Poll)

DrainSpec == DrainInit /\ [][DrainNext]_drainVars /\ DrainFair

-----------------------------------------------------------------------------
(* Properties.                                                             *)

DrainTypeOK ==
  /\ ingested \subseteq Images /\ hashed \subseteq ingested \ unreadable
  /\ embedded \subseteq ingested \ unreadable
  /\ stamp \in Providers /\ recorded \in BOOLEAN
  /\ marker \in BOOLEAN
  /\ unreadable \subseteq Damaged /\ up \subseteq Providers \ {"none"}
  /\ handlers \in 0 .. Cardinality(Images)
  /\ sweep \in [on : BOOLEAN, left : SUBSET Images, tried : SUBSET Images]
  /\ embed \in [step : {"off", "start", "probe", "reprobe", "drain"}, arm : BOOLEAN,
                provider : Providers, failed : BOOLEAN,
                left : SUBSET Images, tried : SUBSET Images, at : SUBSET Images]
  /\ resweeps \subseteq BOOLEAN
  /\ passedOver \subseteq ingested
  /\ drainEvents \in 0 .. MaxDrainEvents

\* An image that is ingested while the sweeper runs is not missed, although
\* its trigger does nothing: once the sweeper is idle every readable image has
\* its pHash, but for what a startup passed over in an archived project.
SweepMissesNothing ==
  handlers = 0 /\ ~ sweep.on => ingested \ (unreadable \cup passedOver) \subseteq hashed

\* Once an endpoint the configuration selects answers for good, every readable
\* image gets its embedding, whatever stamp, probe or drain that failed
\* before, a stale resweep, an archived project or a restart left behind.
Served == "hosted" \in up /\ (recorded => "local" \in up)
EmbeddingsCatchUp ==
  <>[]Served => []<>(ingested \ unreadable \subseteq embedded)
=============================================================================
