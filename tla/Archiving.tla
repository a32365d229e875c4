----------------------------- MODULE Archiving -----------------------------
(***************************************************************************)
(* Archiving a project: the column archived_at, which is what counts, the  *)
(* marker file beside the database, which the scans look at, the gate that *)
(* refuses to archive a busy project, and the guard that refuses work on   *)
(* an archived one.                                                        *)
(*                                                                         *)
(*  - The guard runs in a thread before its handler; archiving and         *)
(*    unarchiving are one step of the event loop, but the file may not get *)
(*    written or removed.                                                  *)
(*  - Of the work only what a restart must settle is here: the rows that   *)
(*    are not terminal, and the tasks of the process.  A TAO job has no    *)
(*    task; the poll asks for it.                                          *)
(***************************************************************************)
EXTENDS Naturals

CONSTANT MaxArchiveEvents  \* bound: archive and unarchive requests, crashes

VARIABLES
  archivedAt,    \* Project.archived_at is set
  dotfile,       \* {project_dir}/.archived exists
  busy,          \* kinds of work with a row that is not terminal
  working,       \* kinds of work with a task
  admitted,      \* requests that passed the guard
  archiveEvents  \* bound counter

archiveVars == <<archivedAt, dotfile, busy, working, admitted, archiveEvents>>

Kinds   == {"run", "export", "suite", "job"}
Guarded == {"run", "suite"}   \* evaluations and batch runs, suites

ArchiveInit ==
  /\ archivedAt = FALSE /\ dotfile = FALSE
  /\ busy = {} /\ working = {} /\ admitted = {}
  /\ archiveEvents = 0

ArchiveEvent == archiveEvents < MaxArchiveEvents /\ archiveEvents' = archiveEvents + 1

-----------------------------------------------------------------------------
(* Work.                                                                   *)

\* is_project_archived: no marker, no question to the database.
RequestRefused == dotfile /\ archivedAt

Admit(kind) ==
  /\ ~RequestRefused
  /\ admitted' = admitted \cup {kind}
  /\ UNCHANGED <<archivedAt, dotfile, busy, working, archiveEvents>>

Begin(kind) ==
  /\ busy' = busy \cup {kind}
  /\ working' = working \cup {kind}

\* The handler; of each kind one is active at most.
LaunchAdmitted(kind) ==
  /\ kind \in admitted
  /\ admitted' = admitted \ {kind}
  /\ IF kind \in busy THEN UNCHANGED <<busy, working>> ELSE Begin(kind)
  /\ UNCHANGED <<archivedAt, dotfile, archiveEvents>>

\* A label save or a Guidance edit may start an evaluation, and a dataset
\* export is started: neither route has the guard.
LaunchUnguarded(kind) ==
  /\ kind \in {"run", "export"} \ busy
  /\ Begin(kind)
  /\ UNCHANGED <<archivedAt, dotfile, admitted, archiveEvents>>

KindEnds(kind) ==
  /\ kind \in working
  /\ working' = working \ {kind}
  /\ busy' \in IF kind = "suite" THEN {busy \ {kind}, (busy \ {kind}) \cup {"job"}}
               ELSE {busy \ {kind}}
  /\ UNCHANGED <<archivedAt, dotfile, admitted, archiveEvents>>

PollJob ==
  /\ ~dotfile /\ "job" \in busy
  /\ busy' = busy \ {"job"}
  /\ UNCHANGED <<archivedAt, dotfile, working, admitted, archiveEvents>>

-----------------------------------------------------------------------------
(* Archiving.                                                              *)

\* _is_project_busy: a suite in setup has no job yet.
ProjectBusy == busy \cap {"run", "export", "job"} # {}

ArchiveProject(written) ==
  /\ ArchiveEvent
  /\ ~archivedAt /\ ~ProjectBusy
  /\ archivedAt' = TRUE
  /\ dotfile' = (written \/ dotfile)
  /\ UNCHANGED <<busy, working, admitted>>

UnarchiveProject(removed) ==
  /\ ArchiveEvent
  /\ archivedAt
  /\ archivedAt' = FALSE
  /\ dotfile' = (dotfile /\ ~removed)
  /\ UNCHANGED <<busy, working, admitted>>

\* Mutant: a marker is only ever added.
ReconciledUp == dotfile \/ archivedAt

\* The scan of list_projects rewrites a marker that is not what the column says.
Reconciled == archivedAt

List(all) ==
  /\ all \/ ~dotfile
  /\ dotfile' = Reconciled
  /\ UNCHANGED <<archivedAt, busy, working, admitted, archiveEvents>>

\* Every recovery passes over a project with the marker.  Of the others an
\* evaluation, an export and a suite in setup are failed; a batch run goes on.
Restart ==
  /\ ArchiveEvent
  /\ admitted' = {}
  /\ IF dotfile THEN working' = {} /\ UNCHANGED busy
     ELSE \E resumed \in SUBSET (busy \cap {"run"}) :
            /\ working' = resumed
            /\ busy' = resumed \cup (busy \cap {"job"})
  /\ UNCHANGED <<archivedAt, dotfile>>

-----------------------------------------------------------------------------

ArchiveNext ==
  \/ \E kind \in Guarded : Admit(kind) \/ LaunchAdmitted(kind)
  \/ \E kind \in Kinds : LaunchUnguarded(kind) \/ KindEnds(kind)
  \/ PollJob
  \/ \E done \in BOOLEAN : ArchiveProject(done) \/ UnarchiveProject(done)
  \/ \E all \in BOOLEAN : List(all)
  \/ Restart

\* Somebody looks at the archived projects, too.
ArchiveFair == WF_archiveVars(List(TRUE))

-----------------------------------------------------------------------------
(* Properties.                                                             *)

\* Whatever writing or removing of the file failed, in whatever order, and
\* whatever crashed: once the requests are over the marker comes to say what
\* the column says, so that no project in use stays hidden and passed over by
\* the recoveries, and none archived goes on (list_projects).
MarkerFollowsColumn == <>[](dotfile = archivedAt)

\* A restart "prevents ... leaving the run wedged in a non-terminal state"
\* (_recover_interrupted_runs), "running exports are marked failed": what says
\* it is under way is somebody's work.
RestartEndsInterrupted == busy \ {"job"} \subseteq working
=============================================================================
