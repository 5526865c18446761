----------------------------- MODULE IngestJobs -----------------------------
(***************************************************************************)
(* The ingest queue of MeetingMiner: the job and job_stage tables, the two *)
(* api routes that arm them (POST /ingests and the speaker assignment) and *)
(* the single worker that claims a job and walks its stages.               *)
(*                                                                         *)
(* Every action is one database commit, or one read the code later acts    *)
(* on, so an api call, a crash or a lost connection may fall between any   *)
(* two of the worker's commits.  A drop is abstracted to the two questions *)
(* intake asks of it: does it carry a recording, and does it carry the     *)
(* participant graph.  What a stage wrote is abstracted to the inputs it   *)
(* was computed from.                                                      *)
(***************************************************************************)
EXTENDS Naturals

CONSTANTS Jobs,            \* one job row per occurrence (sourceId)
          Posts,           \* the POST /ingests calls of a behaviour, one shot each
          MaxAssignments,  \* bound: speaker assignments per meeting
          MaxFaults,       \* bound: worker crashes and lost connections, together
          NoJob,           \* the worker holds nothing / a call has read nothing
          NoRows           \* a stage's table holds no rows for the meeting

ASSUME JobsAssumption == NoJob \notin Jobs
ASSUME BoundsAssumption == MaxAssignments \in Nat /\ MaxFaults \in Nat

STAGE_NAMES == << "probe", "frames", "ocr", "screens",
                  "transcribe", "align", "moments", "extract" >>
Stages == {STAGE_NAMES[i] : i \in 1..8}
VIDEO_ONLY_STAGES == {"probe", "frames", "ocr", "screens", "transcribe"}
EVIDENCE_STAGES == Stages \ {"extract"}
AUGMENTATION_STAGES == VIDEO_ONLY_STAGES \union {"align", "moments"}
AlignNotRerun == {"moments"}                          \* mutant of the next
PARTICIPANT_AUGMENTATION_STAGES == {"align", "moments"}
SPEAKER_ASSIGNMENT_STAGES == {"align", "moments", "extract"}

Settled == {"done", "skipped"}
\* The runner's own copy of that set decides which stages a claim resumes past.
SettledOrStarted == Settled \union {"running"}         \* mutant of the next
SETTLED_STAGE_STATUSES == {"done", "skipped"}
StageStatus == {"queued", "running", "failed"} \union Settled
JobStatus == {"absent", "queued", "running", "done", "failed"}

Drop == [rec : BOOLEAN, graph : BOOLEAN]
EmptyDrop == [rec |-> FALSE, graph |-> FALSE]

\* What the aligned transcript was computed from: the STT lane, the drop's
\* participant graph, and how many speaker assignments it has read.
Segments == [stt : BOOLEAN, graph : BOOLEAN, names : 0..MaxAssignments]
\* What the moments were computed from.
MomentRows == [segments : Segments \union {NoRows}, screens : BOOLEAN]

VARIABLES status,       \* job.status, "absent" before the row exists
          earlier,      \* job.created_at: the jobs inserted before this one
          drop,         \* what job.drop_relative_path names (a write-once drop)
          stage,        \* job_stage.status
          minted,       \* the jobs that own a meeting row
          recorded,     \* ... whose meeting.has_recording is true
          names,        \* speaker aliases written for the meeting (a version)
          videoRows,    \* the video stages whose rows and files are stored
          segments,     \* transcript_segment rows
          moments,      \* moment rows
          artifacts     \* artifact drafts: the alias version they quote

tables == <<status, earlier, drop, stage, minted, recorded, names,
            videoRows, segments, moments, artifacts>>
evidence == <<videoRows, segments, moments, artifacts>>

VARIABLES pc,       \* where the worker process stands
          held,     \* the ClaimedJob it is running
          heldDrop, \* the drop that claim named, read once
          memory,   \* `statuses`, the worker's own copy of the stage rows
          at        \* index of the loop over STAGE_NAMES

worker == <<pc, held, heldDrop, memory, at>>

VARIABLES post      \* where each POST of a replacement drop stands

VARIABLES faults,   \* faults so far
          seeded,   \* history: jobs whose stages only ever settled in order
          stranded, \* history: jobs a lost connection left running
          raced     \* history: jobs the api re-armed on a premise that no longer
                    \* held: the worker was inside, or a retry's check was stale

vars == <<status, earlier, drop, stage, minted, recorded, names,
          videoRows, segments, moments, artifacts,
          pc, held, heldDrop, memory, at, post, faults, seeded, stranded, raced>>

-----------------------------------------------------------------------------
(* The vocabulary api and worker share.                                    *)

\* Every evidence stage has settled: the meeting is safe to open.
EvidenceComplete(st) == \A s \in EVIDENCE_STAGES : st[s] \in Settled

\* A done checkpoint after an unsettled evidence stage, in pipeline order.
AugmentationInFlight(st) ==
  \E i, k \in 1..8 : /\ i < k
                     /\ STAGE_NAMES[i] \in EVIDENCE_STAGES
                     /\ st[STAGE_NAMES[i]] \notin Settled
                     /\ st[STAGE_NAMES[k]] = "done"

AllQueued == [s \in Stages |-> "queued"]
Requeue(st, which) == [s \in Stages |-> IF s \in which THEN "queued" ELSE st[s]]

AnyReplacement(j, d) == TRUE                          \* mutant of the next
\* A replacement drop may not drop the recording of a meeting that has one,
\* nor the participant graph of the drop it replaces.
PreservesMeeting(j, d) == /\ j \in recorded => d.rec
                          /\ drop[j].graph => d.graph

\* A plain POST may take over this occurrence's job.
RetryAllowed(j, d) == /\ status[j] = "failed"
                      /\ j \in minted => PreservesMeeting(j, d)

RacedIf(j, condition) == IF condition THEN raced \union {j} ELSE raced

-----------------------------------------------------------------------------
Init ==
  /\ status = [j \in Jobs |-> "absent"]
  /\ earlier = [j \in Jobs |-> {}]
  /\ drop = [j \in Jobs |-> EmptyDrop]
  /\ stage = [j \in Jobs |-> AllQueued]
  /\ minted = {} /\ recorded = {}
  /\ names = [j \in Jobs |-> 0]
  /\ videoRows = [j \in Jobs |-> {}]
  /\ segments = [j \in Jobs |-> NoRows]
  /\ moments = [j \in Jobs |-> NoRows]
  /\ artifacts = [j \in Jobs |-> NoRows]
  /\ pc = "down" /\ held = NoJob /\ heldDrop = EmptyDrop
  /\ memory = AllQueued /\ at = 1
  /\ post = [p \in Posts |-> [at |-> "ready", job |-> NoJob, drop |-> EmptyDrop]]
  /\ faults = 0 /\ seeded = {} /\ stranded = {} /\ raced = {}

-----------------------------------------------------------------------------
(* The api: POST /ingests and PUT /meetings/{id}/speakers/{tag}.           *)

Answered(p) == post' = [post EXCEPT ![p].at = "answered"]

\* No job carries this sourceId: insert the job and seed its stages.
CreateJob(p, j, d) ==
  /\ post[p].at = "ready"
  /\ status[j] = "absent"
  /\ status' = [status EXCEPT ![j] = "queued"]
  /\ earlier' = [earlier EXCEPT ![j] = {k \in Jobs : status[k] # "absent"}]
  /\ drop' = [drop EXCEPT ![j] = d]
  /\ stage' = [stage EXCEPT ![j] = AllQueued]
  /\ seeded' = seeded \union {j}
  /\ Answered(p)
  /\ UNCHANGED <<minted, recorded, names, evidence, worker, faults, stranded, raced>>

\* Every job of this sourceId failed: read it and validate the replacement.
\* Nothing is locked, so what is read here may be stale at RetryCommit.
RetryCheck(p, j, d) ==
  /\ post[p].at = "ready"
  /\ RetryAllowed(j, d)
  /\ post' = [post EXCEPT ![p] = [at |-> "checked", job |-> j, drop |-> d]]
  /\ UNCHANGED <<tables, worker, faults, seeded, stranded, raced>>

\* UPDATE job ... WHERE id, then delete and re-seed its stages: by id alone.
RetryCommit(p) ==
  LET j == post[p].job IN
  /\ post[p].at = "checked"
  /\ status' = [status EXCEPT ![j] = "queued"]
  /\ drop' = [drop EXCEPT ![j] = post[p].drop]
  /\ stage' = [stage EXCEPT ![j] = AllQueued]
  /\ seeded' = seeded \union {j}
  /\ raced' = RacedIf(j, held = j \/ ~RetryAllowed(j, post[p].drop))
  /\ Answered(p)
  /\ UNCHANGED <<earlier, minted, recorded, names, evidence, worker, faults, stranded>>

\* A declared augmentation names a minted occurrence that has not failed, whose
\* evidence is complete, and brings it a recording or a graph it has not got.
AddsRecording(j, d) == d.rec /\ j \notin recorded
AddsGraph(j, d) == d.graph /\ ~drop[j].graph
Augmentable(j, d) ==
  /\ j \in minted
  /\ status[j] \in {"queued", "running", "done"}
  /\ EvidenceComplete(stage[j])
  /\ AddsRecording(j, d) \/ AddsGraph(j, d)
  /\ PreservesMeeting(j, d)

\* The target row is locked for the whole call; it may be running.
Augment(p, j, d) ==
  LET rearmed == IF AddsRecording(j, d) THEN AUGMENTATION_STAGES
                                        ELSE PARTICIPANT_AUGMENTATION_STAGES
  IN
  /\ post[p].at = "ready"
  /\ Augmentable(j, d)
  /\ status' = [status EXCEPT ![j] = "queued"]
  /\ drop' = [drop EXCEPT ![j] = d]
  /\ stage' = [stage EXCEPT ![j] = Requeue(@, rearmed)]
  /\ seeded' = seeded \ {j}
  /\ raced' = RacedIf(j, held = j)
  /\ Answered(p)
  /\ UNCHANGED <<earlier, minted, recorded, names, evidence, worker, faults, stranded>>

NeverRefused(j) == FALSE                              \* mutant of the next
AssignmentRefused(j) == status[j] = "running"

\* A curator names a voice: the alias is written and the job re-armed in one
\* transaction that holds the job row and refuses a running job.
AssignSpeaker(j) ==
  /\ j \in minted
  /\ ~AssignmentRefused(j)
  /\ segments[j] # NoRows
  /\ names[j] < MaxAssignments
  /\ names' = [names EXCEPT ![j] = @ + 1]
  /\ status' = [status EXCEPT ![j] = "queued"]
  /\ stage' = [stage EXCEPT ![j] = Requeue(@, SPEAKER_ASSIGNMENT_STAGES)]
  /\ seeded' = seeded \ {j}
  /\ UNCHANGED <<earlier, drop, minted, recorded, evidence, worker, post, faults, stranded, raced>>

-----------------------------------------------------------------------------
(* The worker: startup, claim, the stage loop.                             *)

OrphansLeft == status                                 \* mutant of the next
RequeuedOrphans ==
  [j \in Jobs |-> IF status[j] = "running" THEN "queued" ELSE status[j]]

\* Startup under the advisory lock: jobs a crash left running are re-queued,
\* their stage checkpoints kept.
WorkerStart ==
  /\ pc = "down"
  /\ pc' = "idle"
  /\ status' = RequeuedOrphans
  /\ stranded' = {}
  /\ UNCHANGED <<earlier, drop, stage, minted, recorded, names, evidence,
                 held, heldDrop, memory, at, post, faults, seeded, raced>>

\* The oldest queued job becomes running; its drop path is read with it.
ClaimJob(j) ==
  /\ pc = "idle"
  /\ status[j] = "queued"
  /\ \A k \in earlier[j] : status[k] # "queued"
  /\ status' = [status EXCEPT ![j] = "running"]
  /\ pc' = "claimed" /\ held' = j /\ heldDrop' = drop[j]
  /\ UNCHANGED <<earlier, drop, stage, minted, recorded, names, evidence,
                 memory, at, post, faults, seeded, stranded, raced>>

\* An empty queue: the worker sleeps and polls again.
IdlePoll ==
  /\ pc = "idle"
  /\ \A j \in Jobs : status[j] # "queued"
  /\ UNCHANGED vars

Release == /\ pc' = "idle" /\ held' = NoJob /\ heldDrop' = EmptyDrop
           /\ memory' = AllQueued /\ at' = 1

\* The drops root, the drop path or the drop itself is unusable, or the mint
\* or the clean-up raises: the job fails with no stage implicated.
FailClaim ==
  /\ pc = "claimed" \/ (pc = "minted" /\ ~heldDrop.rec)
  /\ status' = [status EXCEPT ![held] = "failed"]
  /\ Release
  /\ UNCHANGED <<earlier, drop, stage, minted, recorded, names, evidence,
                 post, faults, seeded, stranded, raced>>

\* Upsert the meeting row; the recording flag follows the drop being read.
MintMeeting ==
  /\ pc = "claimed"
  /\ minted' = minted \union {held}
  /\ recorded' = IF heldDrop.rec THEN recorded \union {held} ELSE recorded \ {held}
  /\ pc' = "minted"
  /\ UNCHANGED <<status, earlier, drop, stage, names, evidence,
                 held, heldDrop, memory, at, post, faults, seeded, stranded, raced>>

\* A drop without a recording removes whatever video evidence is stored, the
\* transcript rows anchored to its STT source included, and puts back the
\* stages that had read it.
CleanUp ==
  LET noStt == "transcribe" \in videoRows[held]
      noScreens == "screens" \in videoRows[held]
      requeued == (IF noStt THEN {"align"} ELSE {})
                    \union (IF noStt \/ noScreens THEN {"moments"} ELSE {})
      cleared == [s \in Stages |-> IF s \in VIDEO_ONLY_STAGES THEN "skipped"
                                   ELSE Requeue(stage[held], requeued)[s]]
  IN
  /\ pc = "minted" /\ ~heldDrop.rec
  /\ stage' = [stage EXCEPT ![held] = cleared]
  /\ videoRows' = [videoRows EXCEPT ![held] = {}]
  /\ segments' = [segments EXCEPT ![held] = IF noStt THEN NoRows ELSE @]
  /\ pc' = "cleared"
  /\ UNCHANGED <<status, earlier, drop, minted, recorded, names, moments, artifacts,
                 held, heldDrop, memory, at, post, faults, seeded, stranded, raced>>

\* The stage rows are read, once for the whole claim.
ReadStages ==
  /\ pc = "cleared" \/ (pc = "minted" /\ heldDrop.rec)
  /\ memory' = stage[held]
  /\ pc' = "loop" /\ at' = 1
  /\ UNCHANGED <<tables, held, heldDrop, post, faults, seeded, stranded, raced>>

Current == STAGE_NAMES[at]
TwoStagesOn == at + 2                                 \* mutant of the next
NextStage == at + 1

\* The stage settled in an earlier claim, or in this one.
ResumeStage ==
  /\ pc = "loop" /\ at <= 8
  /\ memory[Current] \in SETTLED_STAGE_STATUSES
  /\ at' = NextStage
  /\ UNCHANGED <<tables, pc, held, heldDrop, memory, post, faults, seeded, stranded, raced>>

\* The clean-up has already skipped the video stages: this is reached only when
\* the api re-queued them between the clean-up and the read.
SkipStage ==
  /\ pc = "loop" /\ at <= 8
  /\ memory[Current] \notin SETTLED_STAGE_STATUSES
  /\ ~heldDrop.rec /\ Current \in VIDEO_ONLY_STAGES
  /\ stage' = [stage EXCEPT ![held][Current] = "skipped"]
  /\ memory' = [memory EXCEPT ![Current] = "skipped"]
  /\ at' = NextStage
  /\ UNCHANGED <<status, earlier, drop, minted, recorded, names, evidence,
                 pc, held, heldDrop, post, faults, seeded, stranded, raced>>

StartStage ==
  /\ pc = "loop" /\ at <= 8
  /\ memory[Current] \notin SETTLED_STAGE_STATUSES
  /\ heldDrop.rec \/ Current \notin VIDEO_ONLY_STAGES
  /\ stage' = [stage EXCEPT ![held][Current] = "running"]
  /\ pc' = "executing"
  /\ UNCHANGED <<status, earlier, drop, minted, recorded, names, evidence,
                 held, heldDrop, memory, at, post, faults, seeded, stranded, raced>>

\* The stage raised: roll its work back, fail the stage and the job.
FailStage ==
  /\ pc = "executing"
  /\ stage' = [stage EXCEPT ![held][Current] = "failed"]
  /\ status' = [status EXCEPT ![held] = "failed"]
  /\ Release
  /\ UNCHANGED <<earlier, drop, minted, recorded, names, evidence,
                 post, faults, seeded, stranded, raced>>

\* What the implementation of stage s leaves in the tables.
StageRows(s) ==
  /\ videoRows' = [videoRows EXCEPT
                     ![held] = IF s \in VIDEO_ONLY_STAGES THEN @ \union {s} ELSE @]
  /\ segments' = [segments EXCEPT
                    ![held] = IF s = "align"
                              THEN [stt |-> "transcribe" \in videoRows[held],
                                    graph |-> heldDrop.graph,
                                    names |-> names[held]]
                              ELSE @]
  /\ moments' = [moments EXCEPT
                   ![held] = IF s = "moments"
                             THEN [segments |-> segments[held],
                                   screens |-> "screens" \in videoRows[held]]
                             ELSE @]
  /\ artifacts' = [artifacts EXCEPT
                     ![held] = IF s = "extract" THEN names[held] ELSE @]

Invalidates(s) == s \in {"screens", "align"}
MemoryAfterCommit(s) ==
  IF Invalidates(s) THEN [memory EXCEPT !["moments"] = "queued"] ELSE memory

\* The stage's rows commit; screens and align put moments back to queued in
\* the same transaction, and in the worker's own copy.
CommitStage ==
  /\ pc = "executing"
  /\ StageRows(Current)
  /\ stage' = IF Invalidates(Current)
              THEN [stage EXCEPT ![held]["moments"] = "queued"] ELSE stage
  /\ memory' = MemoryAfterCommit(Current)
  /\ pc' = "committed"
  /\ UNCHANGED <<status, earlier, drop, minted, recorded, names,
                 held, heldDrop, at, post, faults, seeded, stranded, raced>>

RememberedDone == [memory EXCEPT ![Current] = "done"]

\* The checkpoint is a second commit: a crash before it re-runs the stage.
CheckpointStage ==
  /\ pc = "committed"
  /\ stage' = [stage EXCEPT ![held][Current] = "done"]
  /\ memory' = RememberedDone
  /\ pc' = "loop" /\ at' = NextStage
  /\ UNCHANGED <<status, earlier, drop, minted, recorded, names, evidence,
                 held, heldDrop, post, faults, seeded, stranded, raced>>

\* Past the last stage the job is done, whatever its row says by then.
FinishJob ==
  /\ pc = "loop" /\ at = 9
  /\ status' = [status EXCEPT ![held] = "done"]
  /\ Release
  /\ UNCHANGED <<earlier, drop, stage, minted, recorded, names, evidence,
                 post, faults, seeded, stranded, raced>>

\* The process dies.
Crash ==
  /\ pc # "down" /\ faults < MaxFaults
  /\ faults' = faults + 1
  /\ pc' = "down" /\ held' = NoJob /\ heldDrop' = EmptyDrop
  /\ memory' = AllQueued /\ at' = 1
  /\ UNCHANGED <<tables, post, seeded, stranded, raced>>

\* A psycopg error escapes run_job: the claim is put back if the connection
\* recovers, and is left running if it does not.
LoseConnection ==
  /\ held # NoJob /\ faults < MaxFaults
  /\ faults' = faults + 1
  /\ \/ /\ status' = [status EXCEPT ![held] = IF @ = "running" THEN "queued" ELSE @]
        /\ stranded' = stranded
     \/ /\ status' = status
        /\ stranded' = stranded \union {held}
  /\ Release
  /\ UNCHANGED <<earlier, drop, stage, minted, recorded, names, evidence,
                 post, seeded, raced>>

-----------------------------------------------------------------------------
Intake ==
  \/ \E p \in Posts, j \in Jobs, d \in Drop :
       CreateJob(p, j, d) \/ RetryCheck(p, j, d) \/ Augment(p, j, d)
  \/ \E p \in Posts : RetryCommit(p)
  \/ \E j \in Jobs : AssignSpeaker(j)

Progress ==
  \/ WorkerStart \/ \E j \in Jobs : ClaimJob(j)
  \/ MintMeeting \/ CleanUp \/ ReadStages
  \/ ResumeStage \/ SkipStage \/ StartStage \/ CommitStage \/ CheckpointStage
  \/ FinishJob

Failure == FailClaim \/ FailStage \/ Crash \/ LoseConnection

Next == Intake \/ Progress \/ IdlePoll \/ Failure

Spec == Init /\ [][Next]_vars

\* The worker polls for as long as it runs and is started again when it is
\* down; nothing is assumed of the api's callers, of stages or of faults.
FairSpec == Spec /\ WF_vars(Progress)
-----------------------------------------------------------------------------
(* Properties.                                                             *)

\* The shape of every table and of the worker's memory.
TypeOK ==
  /\ status \in [Jobs -> JobStatus]
  /\ earlier \in [Jobs -> SUBSET Jobs]
  /\ drop \in [Jobs -> Drop]
  /\ stage \in [Jobs -> [Stages -> StageStatus]]
  /\ minted \in SUBSET Jobs /\ recorded \in SUBSET Jobs
  /\ names \in [Jobs -> 0..MaxAssignments]
  /\ videoRows \in [Jobs -> SUBSET VIDEO_ONLY_STAGES]
  /\ segments \in [Jobs -> Segments \union {NoRows}]
  /\ moments \in [Jobs -> MomentRows \union {NoRows}]
  /\ artifacts \in [Jobs -> (0..MaxAssignments) \union {NoRows}]
  /\ pc \in {"down", "idle", "claimed", "minted", "cleared", "loop", "executing", "committed"}
  /\ held \in Jobs \union {NoJob}
  /\ heldDrop \in Drop
  /\ memory \in [Stages -> StageStatus]
  /\ at \in 1..9
  /\ post \in [Posts -> [at : {"ready", "checked", "answered"},
                        job : Jobs \union {NoJob}, drop : Drop]]
  /\ faults \in 0..MaxFaults
  /\ seeded \in SUBSET Jobs /\ stranded \in SUBSET Jobs /\ raced \in SUBSET Jobs

\* The stored rows are what the job's current drop and aliases would produce.
VideoCurrent(j) ==
  \A s \in VIDEO_ONLY_STAGES :
    /\ stage[j][s] = "done" => s \in videoRows[j] /\ drop[j].rec
    /\ stage[j][s] = "skipped" => s \notin videoRows[j] /\ ~drop[j].rec
SegmentsCurrent(j) ==
  segments[j] = [stt |-> "transcribe" \in videoRows[j],
                 graph |-> drop[j].graph, names |-> names[j]]
MomentsCurrent(j) ==
  moments[j] = [segments |-> segments[j], screens |-> "screens" \in videoRows[j]]

CheckpointsSound(j) ==
  /\ VideoCurrent(j)
  /\ stage[j]["align"] = "done" => SegmentsCurrent(j)
  /\ stage[j]["moments"] = "done" => MomentsCurrent(j)
  /\ stage[j]["extract"] = "done" => artifacts[j] = names[j]

\* A settled checkpoint never covers rows computed from inputs that have since
\* been replaced: over re-armed jobs, replaced drops, new speaker aliases,
\* crashes between a stage's commit and its checkpoint, and resumed claims.
\* The exception is a job the api re-armed on a stale premise (raced).
CheckpointSoundness == \A j \in Jobs \ raced : CheckpointsSound(j)

DoneIsComplete(j) == status[j] = "done" => \A s \in Stages : stage[j][s] \in Settled

\* A job is done only when every stage it was armed for has settled; the only
\* jobs that can escape it are those re-armed on a stale premise.
DoneOnlyWhenSettled == \A j \in Jobs \ raced : DoneIsComplete(j)

\* What the ingests route documents without exception: an accepted drop is
\* processed, so no job ends done with a stage still waiting.
AcceptedEvidenceProcessed == \A j \in Jobs : DoneIsComplete(j)

\* The worker reads the stage rows once per claim and walks its own copy: for
\* a job nobody re-armed under it, that copy never disagrees with the table
\* except at the stage it is inside.
MemoryAgrees ==
  pc \in {"loop", "executing", "committed"} /\ held \notin raced =>
    \A s \in Stages : \/ memory[s] = stage[held][s]
                      \/ pc # "loop" /\ s = Current

\* A first ingest (or a re-seeded retry) settles its stages in order, so the
\* out-of-order signal that tells an augmentation apart has no false alarm.
FirstIngestInOrder ==
  \A j \in seeded \ raced : ~AugmentationInFlight(stage[j])

\* A running job is the one the worker is inside, unless the worker is down or
\* a lost connection left it so.
RunningIsHeld ==
  \A j \in Jobs : status[j] = "running" /\ pc # "down" => j = held \/ j \in stranded

\* A meeting that has a recording never goes back to transcript-only, unless the
\* job was re-armed on a stale premise.
RecordingKept == [][\A j \in recorded : j \in recorded' \/ j \in raced']_vars

\* Every queued job is eventually worked to done or failed, whatever crashes
\* come between, unless a lost connection strands it.
QueuedJobSettles ==
  \A j \in Jobs : status[j] = "queued" ~> status[j] \in {"done", "failed"} \/ j \in stranded
-----------------------------------------------------------------------------
(* The inductive invariant: what makes the properties above hold.          *)

InStage == pc \in {"executing", "committed"}
InLoop == pc = "loop" \/ InStage

\* Where the worker stands tells what it holds.
WorkerShape ==
  /\ held = NoJob <=> pc \in {"down", "idle"}
  /\ InStage => at <= 8
  /\ InLoop \/ pc \in {"minted", "cleared"} => held \in minted
  /\ \A p \in Posts : post[p].at = "checked" => post[p].job \in Jobs

\* The rows of the stage that has just committed.
CommittedRows(j, s) ==
  /\ s \in VIDEO_ONLY_STAGES => s \in videoRows[j]
  /\ s = "align" => SegmentsCurrent(j)
  /\ s = "moments" => MomentsCurrent(j)
  /\ s = "extract" => artifacts[j] = names[j]

\* The claim the worker acts on is still the job's own, the stages behind it
\* are settled, and the one it is inside is not.
ClaimCurrent ==
  held # NoJob /\ held \notin raced =>
    /\ status[held] = "running"
    /\ heldDrop = drop[held]
    /\ pc # "claimed" => (held \in recorded <=> heldDrop.rec)
    /\ InLoop => \A i \in 1..8 : i < at => memory[STAGE_NAMES[i]] \in Settled
    /\ InStage => /\ memory[Current] \notin Settled
                  /\ stage[held][Current] = "running"
                  /\ Current \in VIDEO_ONLY_STAGES => heldDrop.rec
    /\ pc = "committed" => CommittedRows(held, Current)

\* The settled evidence stages are a prefix of the pipeline, and all of them
\* precede a done extract in a job that was only ever seeded.
PrefixSettled(j) ==
  \A i, k \in 1..8 :
    /\ i < k /\ stage[j][STAGE_NAMES[k]] \in Settled
    /\ k <= 7 \/ j \in seeded
    => stage[j][STAGE_NAMES[i]] \in Settled

\* Video rows exist only where a recording was read, and stay readable.
RecordingHeld(j) ==
  /\ videoRows[j] # {} => j \in recorded
  /\ j \in recorded => j \in minted /\ drop[j].rec
  /\ status[j] = "absent" => j \notin minted /\ stage[j] = AllQueued

JobInv(j) == /\ CheckpointsSound(j) /\ DoneIsComplete(j)
             /\ PrefixSettled(j) /\ RecordingHeld(j)

IInv == /\ TypeOK /\ WorkerShape
        /\ MemoryAgrees /\ ClaimCurrent
        /\ \A j \in Jobs \ raced : JobInv(j)
=============================================================================
