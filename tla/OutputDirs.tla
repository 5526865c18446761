----------------------------- MODULE OutputDirs -----------------------------
(***************************************************************************)
(* How a pipeline stage replaces its output directory: frames/,            *)
(* screenshots/ and audio/ of one meeting, each written by one stage.      *)
(* The directory and the rows naming its files live in different stores,   *)
(* so the stage moves the old directory aside, puts the new one in place,  *)
(* writes the rows, and retires the old one only after the commit.         *)
(*                                                                         *)
(* One action is one file-system call or one database commit; the process  *)
(* may die between any two of them and inside every recursive deletion.    *)
(* A directory is known by the run of the stage that wrote it and by       *)
(* whether any of its files has been deleted since.                        *)
(***************************************************************************)
EXTENDS Naturals

CONSTANTS Runs,          \* identities of runs of the stage
          Downgrades,    \* may a retry drop the recording (a race in IngestJobs)
          MaxDeaths,     \* bound: deaths of the worker
          MaxBroken,     \* bound: lost connections and jammed restores or clean-ups
          MaxLeftovers,  \* bound: other deletions that fail half way
          None           \* no directory / no rows

Dir == [run : Runs, whole : BOOLEAN]

ASSUME RunsAssumption == None \notin Runs /\ None \notin Dir
ASSUME FaultsAssumption == MaxDeaths \in Nat /\ MaxBroken \in Nat /\ MaxLeftovers \in Nat

Files(r) == [run |-> r, whole |-> TRUE]
Damaged(d) == [d EXCEPT !.whole = FALSE]

VARIABLES target,      \* meetings/<id>/<subdir>
          backup,      \* meetings/<id>/.<subdir>-previous
          staging,     \* this run's .<subdir>-XXXXXX
          strays       \* staging directories of dead runs are left

VARIABLES rows,        \* the run whose rows are committed
          checkpoint,  \* the stage's job_stage.status
          recording    \* the job's drop carries a recording

VARIABLES pc,          \* the next call of the worker
          run,         \* the run of the stage in progress
          bare,        \* _published_without_backup
          lost,        \* the database connection is gone
          deaths, broken, leftovers

disk == <<target, backup, staging, strays>>
database == <<rows, checkpoint, recording>>
process == <<pc, run, bare, lost>>
bounds == <<deaths, broken, leftovers>>
vars == <<target, backup, staging, strays, rows, checkpoint, recording,
          pc, run, bare, lost, deaths, broken, leftovers>>

Init ==
  /\ target = None /\ backup = None /\ staging = None /\ strays = FALSE
  /\ rows = None /\ checkpoint = "queued" /\ recording \in BOOLEAN
  /\ pc = "idle" /\ run = None /\ bare = FALSE /\ lost = FALSE
  /\ deaths = 0 /\ broken = 0 /\ leftovers = 0

-----------------------------------------------------------------------------
(* A recursive deletion ends with nothing, or stops half way.              *)

Tidy(gone) == /\ gone \/ leftovers < MaxLeftovers
              /\ leftovers' = IF gone THEN leftovers ELSE leftovers + 1
Remains(d, gone) == IF gone \/ d = None THEN None ELSE Damaged(d)

\* The api re-queues the stage, for the same drop or a replacement.
Rearm ==
  /\ pc = "idle"
  /\ checkpoint' = "queued"
  /\ recording' \in IF recording /\ ~Downgrades THEN {TRUE} ELSE BOOLEAN
  /\ UNCHANGED <<disk, rows, process, bounds>>

-----------------------------------------------------------------------------
(* OutputDirSwap.open_staging                                              *)

Unused == {r \in Runs : \A d \in {target, backup} \ {None} : d.run # r} \ {rows}

Start(r) ==
  /\ pc = "idle" /\ recording
  /\ checkpoint \in {"queued", "running"}
  /\ r \in Unused
  /\ checkpoint' = "running"
  /\ pc' = "recover" /\ run' = r /\ bare' = FALSE
  /\ UNCHANGED <<disk, rows, recording, lost, bounds>>

\* An orphaned backup and no target: put it back.
Orphaned == backup # None /\ target = None

RecoverBackup ==
  /\ pc = "recover"
  /\ target' = IF Orphaned THEN backup ELSE target
  /\ backup' = IF Orphaned THEN None ELSE backup
  /\ pc' = "sweep"
  /\ UNCHANGED <<staging, strays, database, run, bare, lost, bounds>>

\* Staging directories of dead runs are swept, never the backup.
Swept(gone) == strays /\ ~gone

OpenStaging(gone) ==
  /\ pc = "sweep"
  /\ Tidy(gone)
  /\ strays' = Swept(gone)
  /\ staging' = Files(run)
  /\ pc' = "build"
  /\ UNCHANGED <<target, backup, database, run, bare, lost, deaths, broken>>

\* The directory is unusable, or ffmpeg fails and the staging is discarded.
BuildFails(gone) ==
  /\ pc \in {"recover", "sweep", "build"}
  /\ gone \/ staging # None
  /\ Tidy(gone)
  /\ strays' = (strays \/ (staging # None /\ ~gone))
  /\ staging' = None
  /\ pc' = "failing"
  /\ UNCHANGED <<target, backup, database, run, bare, lost, deaths, broken>>

-----------------------------------------------------------------------------
(* OutputDirSwap.publish                                                   *)

\* What the publish keeps of an older backup before it moves the target aside.
ClearBackup ==
  /\ pc = "build"
  /\ backup' = None
  /\ pc' = "aside"
  /\ UNCHANGED <<target, staging, strays, database, run, bare, lost, bounds>>

DeletedFirst == None                                  \* mutant of the next
SetAside == IF target = None THEN backup ELSE target

MoveAside ==
  /\ pc = "aside"
  /\ backup' = SetAside
  /\ target' = None
  /\ pc' = "replace"
  /\ UNCHANGED <<staging, strays, database, run, bare, lost, bounds>>

Replace ==
  /\ pc = "replace"
  /\ target' = staging /\ staging' = None
  /\ bare' = (backup = None)
  /\ pc' = "rows"
  /\ UNCHANGED <<backup, strays, database, run, lost, bounds>>

Swallowed == "rows"                                   \* mutant of the next
AfterOSError == "failing"

\* An OSError in publish: the staging goes, a displaced target comes back.
PublishFails(gone) ==
  /\ pc \in {"build", "aside", "replace"}
  /\ Tidy(gone)
  /\ strays' = (strays \/ ~gone)
  /\ staging' = None
  /\ \E cut \in BOOLEAN :
       LET left == IF pc = "build" /\ cut /\ backup # None THEN Damaged(backup) ELSE backup
           back == left # None /\ target = None
       IN /\ target' = IF back THEN left ELSE target
          /\ backup' = IF back THEN None ELSE left
  /\ pc' = AfterOSError
  /\ UNCHANGED <<database, run, bare, lost, deaths, broken>>

-----------------------------------------------------------------------------
(* The rows, the runner's commit and the hooks.                            *)

\* The rows cannot be written: restore(), and the stage fails unarmed.
RowsFail ==
  /\ pc = "rows"
  /\ pc' = "restore"
  /\ UNCHANGED <<disk, database, run, bare, lost, bounds>>

\* The rows are written and the transaction commits.
Commit ==
  /\ pc = "rows"
  /\ rows' = run
  /\ pc' = "retire"
  /\ UNCHANGED <<disk, checkpoint, recording, run, bare, lost, bounds>>

\* The connection breaks in the commit: refused, or committed unheard.
CommitLost ==
  /\ pc = "rows" /\ broken < MaxBroken
  /\ broken' = broken + 1
  /\ rows' \in {rows, run}
  /\ pc' = "restore" /\ lost' = TRUE
  /\ UNCHANGED <<disk, checkpoint, recording, run, bare, deaths, leftovers>>

\* restore(): the published directory is deleted, whatever stays behind ...
RestoreDelete(gone) ==
  /\ pc = "restore"
  /\ gone \/ broken < MaxBroken
  /\ broken' = IF gone THEN broken ELSE broken + 1
  /\ target' = IF backup # None \/ bare THEN Remains(target, gone) ELSE target
  /\ pc' = "putback"
  /\ UNCHANGED <<backup, staging, strays, database, run, bare, lost, deaths, leftovers>>

\* ... and the backup is put back, unless something did stay behind.
NeverPutBack == FALSE                                 \* mutant of the next
CanPutBack == backup # None /\ target = None

RestorePutBack ==
  /\ pc = "putback"
  /\ target' = IF CanPutBack THEN backup ELSE target
  /\ backup' = IF CanPutBack THEN None ELSE backup
  /\ bare' = FALSE
  /\ pc' = "failing"
  /\ UNCHANGED <<staging, strays, database, run, lost, bounds>>

\* _fail_job: roll back and record the failure, if the connection is there.
FailStage ==
  /\ pc = "failing"
  /\ checkpoint' = IF lost THEN checkpoint ELSE "failed"
  /\ pc' = "idle" /\ run' = None /\ bare' = FALSE /\ lost' = FALSE
  /\ UNCHANGED <<disk, rows, recording, bounds>>

\* The commit hook: only now may the previous files go.  A hook that fails is
\* logged and the stage still settles.
AfterHook(gone) == "checkpoint"

RetireBackup(gone) ==
  /\ pc = "retire"
  /\ Tidy(gone)
  /\ backup' = Remains(backup, gone)
  /\ bare' = FALSE
  /\ pc' = AfterHook(gone)
  /\ UNCHANGED <<target, staging, strays, database, run, lost, deaths, broken>>

Checkpoint ==
  /\ pc = "checkpoint"
  /\ checkpoint' = "done"
  /\ pc' = "idle" /\ run' = None
  /\ UNCHANGED <<disk, rows, recording, bare, lost, bounds>>

-----------------------------------------------------------------------------
(* remove_meeting_subdir: a recording without sound, a drop without one.   *)

\* transcribe finds no audio stream: the row goes, and after the commit the
\* directory with its siblings.
CommitSilence ==
  /\ pc = "recover"
  /\ rows' = None
  /\ pc' = "silence"
  /\ UNCHANGED <<disk, checkpoint, recording, run, bare, lost, bounds>>

Siblings(gone) == IF gone THEN None ELSE backup

RemoveSilent(gone) ==
  /\ pc = "silence"
  /\ Tidy(gone)
  /\ target' = Remains(target, gone)
  /\ backup' = Siblings(gone)
  /\ strays' = (strays /\ ~gone)
  /\ pc' = AfterHook(gone)
  /\ UNCHANGED <<staging, database, run, bare, lost, deaths, broken>>

\* The drop has no recording: the runner deletes the rows, then the
\* directory, then its siblings, and commits all of it as skipped.
ClearTarget ==
  /\ pc = "idle" /\ ~recording
  /\ checkpoint # "skipped"
  /\ target' = None
  /\ pc' = "siblings"
  /\ UNCHANGED <<backup, staging, strays, database, run, bare, lost, bounds>>

\* The deletion raises: everything but the files is rolled back.
ClearFails ==
  /\ pc = "idle" /\ ~recording /\ target # None
  /\ checkpoint # "skipped" /\ broken < MaxBroken
  /\ broken' = broken + 1
  /\ target' = Damaged(target)
  /\ UNCHANGED <<backup, staging, strays, database, process, deaths, leftovers>>

ClearSiblings(gone) ==
  /\ pc = "siblings"
  /\ Tidy(gone)
  /\ backup' = Siblings(gone)
  /\ strays' = (strays /\ ~gone)
  /\ pc' = "skip"
  /\ UNCHANGED <<target, staging, database, run, bare, lost, deaths, broken>>

CommitSkip ==
  /\ pc = "skip"
  /\ rows' = None /\ checkpoint' = "skipped"
  /\ pc' = "idle"
  /\ UNCHANGED <<disk, recording, run, bare, lost, bounds>>

-----------------------------------------------------------------------------
\* The worker dies; a deletion it was inside may have begun.
Crash ==
  /\ pc # "idle" /\ deaths < MaxDeaths
  /\ deaths' = deaths + 1
  /\ \E cut \in BOOLEAN :
       /\ backup' = IF cut /\ pc \in {"build", "retire", "siblings", "silence"} /\ backup # None
                    THEN Damaged(backup) ELSE backup
       /\ target' = IF cut /\ pc \in {"restore", "silence"} /\ target # None
                    THEN Damaged(target) ELSE target
  /\ strays' = (strays \/ staging # None)
  /\ staging' = None
  /\ pc' = "idle" /\ run' = None /\ bare' = FALSE /\ lost' = FALSE
  /\ UNCHANGED <<database, broken, leftovers>>

Next ==
  \/ Rearm \/ \E r \in Runs : Start(r)
  \/ RecoverBackup \/ ClearBackup \/ MoveAside \/ Replace
  \/ RowsFail \/ Commit \/ CommitLost \/ RestorePutBack \/ FailStage \/ Checkpoint
  \/ CommitSilence \/ ClearTarget \/ ClearFails \/ CommitSkip \/ Crash
  \/ \E gone \in BOOLEAN :
       \/ OpenStaging(gone) \/ BuildFails(gone) \/ PublishFails(gone)
       \/ RestoreDelete(gone) \/ RetireBackup(gone)
       \/ RemoveSilent(gone) \/ ClearSiblings(gone)

Spec == Init /\ [][Next]_vars
-----------------------------------------------------------------------------
(* Properties.                                                             *)

Steps == {"idle", "recover", "sweep", "build", "aside", "replace", "rows",
          "restore", "putback", "failing", "retire", "checkpoint",
          "silence", "siblings", "skip"}

\* The shape of the disk, the database and the worker's memory.
TypeOK ==
  /\ target \in Dir \union {None} /\ backup \in Dir \union {None}
  /\ staging \in Dir \union {None}
  /\ strays \in BOOLEAN
  /\ rows \in Runs \union {None}
  /\ checkpoint \in {"queued", "running", "done", "failed", "skipped"}
  /\ recording \in BOOLEAN
  /\ pc \in Steps
  /\ run \in Runs \union {None}
  /\ bare \in BOOLEAN /\ lost \in BOOLEAN
  /\ deaths \in 0..MaxDeaths /\ broken \in 0..MaxBroken /\ leftovers \in 0..MaxLeftovers

\* A settled stage serves exactly the files its committed rows name, all of
\* them, whatever died, broke or was retried before it settled; a skipped one
\* serves nothing.
SettledFilesMatch ==
  /\ checkpoint = "done" /\ rows # None => target = Files(rows)
  /\ checkpoint = "skipped" => rows = None /\ target = None

\* Once a stage has settled no previous output and no abandoned staging is
\* left to be restored or served by mistake, unless a deletion failed.
NothingLeftBehind ==
  checkpoint \in {"done", "skipped"} /\ leftovers = 0 => backup = None /\ ~strays

\* Nothing the swap cannot answer for has happened yet: no worker died, no
\* connection broke in a commit, no restore or clean-up jammed.
Unbroken == deaths = 0 /\ broken = 0

\* The swap's first promise: a rerun that fails at any call leaves the previous
\* files and the rows that name them intact.
FailedRerunKeepsPrevious ==
  Unbroken /\ pc = "idle" /\ checkpoint = "failed" /\ rows # None => target = Files(rows)

\* Replacing an output directory without ever losing the previous one, as the
\* module states it: the files the committed rows name are on disk at every
\* moment, as the target or as its backup.
PreviousNeverLost == recording /\ rows # None => Files(rows) \in {target, backup}

\* The same while nothing but file-system calls of the run has failed.
PreviousKept == Unbroken => PreviousNeverLost
-----------------------------------------------------------------------------
(* The inductive invariants, by the next call of the worker.               *)

InRun == {"recover", "sweep", "build", "aside", "replace", "rows", "retire"}

\* What a run in progress has put where.
RunShape ==
  /\ pc \in InRun => run \in Runs
  /\ pc \notin {"idle", "siblings", "skip"} => recording
  /\ pc \in {"build", "aside", "replace"} => staging = Files(run)
  /\ pc = "rows" => target = Files(run)
  /\ pc = "retire" => rows = run /\ target = Files(run)
  /\ pc = "checkpoint" /\ rows # None => target = Files(rows)
  /\ pc = "silence" => rows = None
  /\ pc \in {"siblings", "skip"} => target = None /\ ~recording
  /\ checkpoint = "done" => pc = "idle" /\ recording
  /\ checkpoint = "skipped" => pc = "idle"

\* What is already tidied up, when no deletion has failed.
TidySoFar ==
  leftovers = 0 =>
    /\ pc \in {"build", "aside", "replace", "rows", "retire", "checkpoint", "skip"} => ~strays
    /\ pc \in {"checkpoint", "skip"} => backup = None

SettledInv == TypeOK /\ RunShape /\ TidySoFar /\ SettledFilesMatch /\ NothingLeftBehind

\* Where the previous files are, at each call of a run.
PreviousAt ==
  Unbroken /\ rows # None =>
    /\ pc \in {"idle", "recover", "sweep", "build", "aside", "failing", "retire", "checkpoint"}
         => target = Files(rows)
    /\ pc \in {"replace", "rows", "restore", "putback"} => backup = Files(rows)
    /\ pc \in {"replace", "putback"} => target = None
=============================================================================
