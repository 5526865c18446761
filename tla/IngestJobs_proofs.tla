-------------------------- MODULE IngestJobs_proofs --------------------------
(***************************************************************************)
(* What IngestJobs promises for any number of occurrences and of calls.    *)
(***************************************************************************)
EXTENDS IngestJobs, TLAPS

\* The loop visits exactly the pipeline's stages, each at one position.
LEMMA StagePositions ==
  /\ \A i \in 1..8 : STAGE_NAMES[i] \in Stages
  /\ \A i, k \in 1..8 : STAGE_NAMES[i] = STAGE_NAMES[k] => i = k
  /\ Stages = {"probe", "frames", "ocr", "screens", "transcribe", "align", "moments", "extract"}
  /\ \A i \in 1..8 : STAGE_NAMES[i] \in VIDEO_ONLY_STAGES <=> i <= 5
  /\ STAGE_NAMES[4] = "screens" /\ STAGE_NAMES[5] = "transcribe"
  /\ STAGE_NAMES[6] = "align" /\ STAGE_NAMES[7] = "moments" /\ STAGE_NAMES[8] = "extract"
<1>1. \A i \in 1..8 : i = 1 \/ i = 2 \/ i = 3 \/ i = 4 \/ i = 5 \/ i = 6 \/ i = 7 \/ i = 8
  OBVIOUS
<1>2. Stages = {"probe", "frames", "ocr", "screens", "transcribe", "align", "moments", "extract"}
  BY <1>1 DEF Stages, STAGE_NAMES
<1>3. \A i \in 1..8 : STAGE_NAMES[i] \in VIDEO_ONLY_STAGES <=> i <= 5
  BY <1>1 DEF STAGE_NAMES, VIDEO_ONLY_STAGES
<1>4. \A i, k \in 1..8 : STAGE_NAMES[i] = STAGE_NAMES[k] => i = k
  BY <1>1 DEF STAGE_NAMES
<1>5. QED
  BY <1>2, <1>3, <1>4 DEF Stages, STAGE_NAMES

\* Re-arming stages leaves a well-formed set of stage rows.
LEMMA RequeueType ==
  ASSUME NEW st \in [Stages -> StageStatus], NEW which
  PROVE  Requeue(st, which) \in [Stages -> StageStatus]
BY DEF Requeue, StageStatus

LEMMA InitTypeOK == Init => TypeOK
<1>1. {"queued"} \subseteq StageStatus
  BY DEF StageStatus
<1>2. QED
  BY <1>1, BoundsAssumption
  DEF Init, TypeOK, AllQueued, EmptyDrop, Drop, JobStatus, StageStatus

LEMMA NextTypeOK == TypeOK /\ WorkerShape /\ [Next]_vars => TypeOK'
<1> SUFFICES ASSUME TypeOK, WorkerShape, [Next]_vars PROVE TypeOK'
  OBVIOUS
<1> USE DEF TypeOK
<1>h. pc \notin {"down", "idle"} => held \in Jobs
  BY DEF WorkerShape
<1>i. pc \in {"executing", "committed"} => at \in 1..8
  BY DEF WorkerShape, InStage
<1>j. at \in 1..8 => Current \in Stages /\ NextStage \in 1..9
  BY StagePositions DEF Current, NextStage
<1>a. AllQueued \in [Stages -> StageStatus] /\ EmptyDrop \in Drop
  BY DEF AllQueued, StageStatus, EmptyDrop, Drop
<1>b. \A s \in {"absent", "queued", "running", "done", "failed"} : s \in JobStatus
  BY DEF JobStatus
<1>c. \A s \in {"queued", "running", "done", "skipped", "failed"} : s \in StageStatus
  BY DEF StageStatus, Settled
<1>1. ASSUME NEW p \in Posts, NEW j \in Jobs, NEW d \in Drop, CreateJob(p, j, d)
      PROVE TypeOK'
  BY <1>1, <1>a, <1>b DEF CreateJob, Answered, evidence, worker
<1>2. ASSUME NEW p \in Posts, NEW j \in Jobs, NEW d \in Drop, RetryCheck(p, j, d)
      PROVE TypeOK'
  BY <1>2 DEF RetryCheck, tables, worker
<1>3. ASSUME NEW p \in Posts, RetryCommit(p)
      PROVE TypeOK'
  BY <1>3, <1>a, <1>b DEF WorkerShape, RetryCommit, Answered, evidence, worker, RacedIf
<1>4. ASSUME NEW p \in Posts, NEW j \in Jobs, NEW d \in Drop, Augment(p, j, d)
      PROVE TypeOK'
  BY <1>4, <1>b, RequeueType DEF Augment, Augmentable, AddsRecording, AddsGraph, Answered, evidence, worker, RacedIf
<1>5. ASSUME NEW j \in Jobs, AssignSpeaker(j)
      PROVE TypeOK'
  <2>1. names' \in [Jobs -> 0..MaxAssignments]
    BY <1>5, BoundsAssumption DEF AssignSpeaker
  <2>2. stage' \in [Jobs -> [Stages -> StageStatus]]
    BY <1>5, RequeueType DEF AssignSpeaker
  <2>3. QED
    BY <1>5, <2>1, <2>2, <1>b DEF AssignSpeaker, evidence, worker, RacedIf
<1>6. CASE WorkerStart
  BY <1>6, <1>b DEF WorkerStart, RequeuedOrphans, evidence
<1>7. ASSUME NEW j \in Jobs, ClaimJob(j)
      PROVE TypeOK'
  BY <1>7, <1>b DEF ClaimJob, evidence
<1>8. CASE FailClaim
  BY <1>8, <1>a, <1>b, <1>h DEF FailClaim, Release, evidence
<1>9. CASE MintMeeting
  BY <1>9, <1>h DEF MintMeeting, evidence
<1>10. CASE CleanUp
  <2> DEFINE noStt == "transcribe" \in videoRows[held]
             noScreens == "screens" \in videoRows[held]
             requeued == (IF noStt THEN {"align"} ELSE {})
                           \union (IF noStt \/ noScreens THEN {"moments"} ELSE {})
             cleared == [s \in Stages |-> IF s \in VIDEO_ONLY_STAGES THEN "skipped"
                                          ELSE Requeue(stage[held], requeued)[s]]
  <2>1. held \in Jobs
    BY <1>10, <1>h DEF CleanUp
  <2>2. Requeue(stage[held], requeued) \in [Stages -> StageStatus]
    BY <2>1, RequeueType
  <2>3. cleared \in [Stages -> StageStatus]
    BY <2>2, <1>c
  <2>4. /\ stage' = [stage EXCEPT ![held] = cleared]
        /\ videoRows' = [videoRows EXCEPT ![held] = {}]
        /\ segments' = [segments EXCEPT ![held] = IF noStt THEN NoRows ELSE @]
        /\ pc' = "cleared"
        /\ UNCHANGED <<status, earlier, drop, minted, recorded, names, moments, artifacts,
                       held, heldDrop, memory, at, post, faults, seeded, stranded, raced>>
    BY <1>10 DEF CleanUp
  <2> HIDE DEF noStt, noScreens, requeued, cleared
  <2>5. QED
    BY <2>1, <2>3, <2>4
<1>22. CASE ReadStages
  BY <1>22, <1>h DEF ReadStages, tables
<1>11. CASE ResumeStage
  BY <1>11 DEF ResumeStage, NextStage, tables
<1>12. CASE SkipStage
  BY <1>12, <1>c, <1>h, <1>j DEF SkipStage, evidence
<1>13. CASE StartStage
  BY <1>13, <1>c, <1>h, <1>j DEF StartStage, evidence
<1>14. CASE FailStage
  BY <1>14, <1>a, <1>b, <1>c, <1>h, <1>i, <1>j DEF FailStage, Release, evidence
<1>15. CASE CommitStage
  <2>1. held \in Jobs /\ Current \in Stages /\ "moments" \in Stages
    BY <1>15, <1>h, <1>i, <1>j, StagePositions DEF CommitStage
  <2>2. memory' \in [Stages -> StageStatus] /\ stage' \in [Jobs -> [Stages -> StageStatus]]
    BY <1>15, <2>1, <1>c DEF CommitStage, MemoryAfterCommit
  <2>3. videoRows' \in [Jobs -> SUBSET VIDEO_ONLY_STAGES]
    BY <1>15, <2>1 DEF CommitStage, StageRows
  <2>4. segments' \in [Jobs -> Segments \union {NoRows}]
    BY <1>15, <2>1 DEF CommitStage, StageRows, Segments, Drop
  <2>5. moments' \in [Jobs -> MomentRows \union {NoRows}]
    BY <1>15, <2>1 DEF CommitStage, StageRows, MomentRows
  <2>6. artifacts' \in [Jobs -> (0..MaxAssignments) \union {NoRows}]
    BY <1>15, <2>1 DEF CommitStage, StageRows
  <2>7. QED
    BY <1>15, <2>2, <2>3, <2>4, <2>5, <2>6 DEF CommitStage
<1>16. CASE CheckpointStage
  BY <1>16, <1>c, <1>h, <1>i, <1>j DEF CheckpointStage, RememberedDone, evidence
<1>17. CASE FinishJob
  BY <1>17, <1>a, <1>b, <1>h DEF FinishJob, Release, evidence
<1>18. CASE Crash
  BY <1>18, <1>a, BoundsAssumption DEF Crash, tables
<1>19. CASE LoseConnection
  BY <1>19, <1>a, <1>b, <1>h, BoundsAssumption DEF LoseConnection, Release, evidence
<1>20. CASE IdlePoll \/ UNCHANGED vars
  BY <1>20 DEF IdlePoll, vars
<1>21. QED
  BY <1>1, <1>2, <1>3, <1>4, <1>5, <1>6, <1>7, <1>8, <1>9, <1>10, <1>11, <1>12, <1>13,
     <1>14, <1>15, <1>16, <1>17, <1>18, <1>19, <1>20, <1>22
  DEF Next, Intake, Progress, Failure

LEMMA InitShape == Init => WorkerShape
BY DEF Init, WorkerShape, InStage, InLoop

LEMMA NextShape == TypeOK /\ WorkerShape /\ [Next]_vars => WorkerShape'
<1> SUFFICES ASSUME TypeOK, WorkerShape, [Next]_vars PROVE WorkerShape'
  OBVIOUS
<1> USE JobsAssumption DEF TypeOK, WorkerShape, InStage, InLoop
<1>1. CASE Intake
  <2>1. ASSUME NEW p \in Posts, NEW j \in Jobs, NEW d \in Drop, CreateJob(p, j, d)
        PROVE WorkerShape'
    BY <2>1 DEF CreateJob, Answered, worker
  <2>2. ASSUME NEW p \in Posts, NEW j \in Jobs, NEW d \in Drop, RetryCheck(p, j, d)
        PROVE WorkerShape'
    BY <2>2 DEF RetryCheck, tables, worker
  <2>3. ASSUME NEW p \in Posts, RetryCommit(p)
        PROVE WorkerShape'
    BY <2>3 DEF RetryCommit, Answered, worker
  <2>4. ASSUME NEW p \in Posts, NEW j \in Jobs, NEW d \in Drop, Augment(p, j, d)
        PROVE WorkerShape'
    BY <2>4 DEF Augment, Augmentable, AddsRecording, AddsGraph, Answered, worker
  <2>5. ASSUME NEW j \in Jobs, AssignSpeaker(j)
        PROVE WorkerShape'
    BY <2>5 DEF AssignSpeaker, worker
  <2>6. QED
    BY <1>1, <2>1, <2>2, <2>3, <2>4, <2>5 DEF Intake
<1>2. CASE WorkerStart
  BY <1>2 DEF WorkerStart
<1>3. ASSUME NEW j \in Jobs, ClaimJob(j) PROVE WorkerShape'
  BY <1>3 DEF ClaimJob
<1>4. CASE MintMeeting
  BY <1>4 DEF MintMeeting
<1>5. CASE CleanUp \/ ReadStages
  BY <1>5 DEF CleanUp, ReadStages, tables
<1>6. CASE ResumeStage \/ SkipStage \/ StartStage
  BY <1>6 DEF ResumeStage, SkipStage, StartStage, tables
<1>7. CASE CommitStage \/ CheckpointStage
  BY <1>7 DEF CommitStage, CheckpointStage
<1>8. CASE FailClaim \/ FailStage \/ FinishJob
  BY <1>8 DEF FailClaim, FailStage, FinishJob, Release
<1>9. CASE Crash \/ LoseConnection
  BY <1>9 DEF Crash, LoseConnection, Release, tables
<1>10. CASE IdlePoll \/ UNCHANGED vars
  BY <1>10 DEF IdlePoll, vars
<1>11. QED
  BY <1>1, <1>2, <1>3, <1>4, <1>5, <1>6, <1>7, <1>8, <1>9, <1>10
  DEF Next, Progress, Failure

\* Every table keeps its shape, for any number of occurrences and calls.
THEOREM TypeCorrect == Spec => []TypeOK
<1>1. Init => TypeOK /\ WorkerShape
  BY InitTypeOK, InitShape
<1>2. TypeOK /\ WorkerShape /\ [Next]_vars => (TypeOK /\ WorkerShape)'
  BY NextTypeOK, NextShape
<1>3. QED
  BY <1>1, <1>2, PTL DEF Spec
-----------------------------------------------------------------------------
(* The checkpoint invariant, one lemma per group of actions.               *)

\* A step that leaves an occurrence's rows alone keeps its invariant.
Framed(j) ==
  /\ stage'[j] = stage[j] /\ drop'[j] = drop[j] /\ names'[j] = names[j]
  /\ videoRows'[j] = videoRows[j] /\ segments'[j] = segments[j]
  /\ moments'[j] = moments[j] /\ artifacts'[j] = artifacts[j]
  /\ j \in minted' <=> j \in minted
  /\ j \in recorded' <=> j \in recorded
  /\ j \in seeded' => j \in seeded
  /\ status'[j] = "done" => status[j] = "done"
  /\ status'[j] = "absent" => status[j] = "absent"

LEMMA JobFrame ==
  ASSUME NEW j \in Jobs, Framed(j), JobInv(j)
  PROVE  JobInv(j)'
BY DEF Framed, JobInv, CheckpointsSound, VideoCurrent, SegmentsCurrent, MomentsCurrent,
       DoneIsComplete, PrefixSettled, RecordingHeld

\* The same for what the worker knows of the job it holds.
HeldFramed ==
  /\ UNCHANGED worker
  /\ raced \subseteq raced'
  /\ held # NoJob /\ held \notin raced' =>
       /\ stage'[held] = stage[held] /\ drop'[held] = drop[held]
       /\ names'[held] = names[held] /\ status'[held] = status[held]
       /\ videoRows'[held] = videoRows[held] /\ segments'[held] = segments[held]
       /\ moments'[held] = moments[held] /\ artifacts'[held] = artifacts[held]
       /\ held \in recorded' <=> held \in recorded

LEMMA HeldFrame ==
  ASSUME WorkerShape, HeldFramed, MemoryAgrees, ClaimCurrent
  PROVE  MemoryAgrees' /\ ClaimCurrent'
BY DEF WorkerShape, HeldFramed, worker, MemoryAgrees, ClaimCurrent, CommittedRows, SegmentsCurrent,
       MomentsCurrent, InLoop, InStage, Current

\* A worker that holds nothing owes nothing.
LEMMA Released ==
  ASSUME pc' \in {"down", "idle"}, held' = NoJob
  PROVE  MemoryAgrees' /\ ClaimCurrent'
BY DEF MemoryAgrees, ClaimCurrent

LEMMA InitIInv == Init => IInv
<1> SUFFICES ASSUME Init PROVE IInv
  OBVIOUS
<1>1. TypeOK /\ WorkerShape
  BY InitTypeOK, InitShape
<1>2. MemoryAgrees /\ ClaimCurrent
  BY DEF Init, MemoryAgrees, ClaimCurrent
<1>3. ASSUME NEW j \in Jobs PROVE JobInv(j)
  <2>1. \A s \in Stages : stage[j][s] = "queued"
    BY DEF Init, AllQueued
  <2>2. status[j] = "absent" /\ stage[j] = AllQueued /\ videoRows[j] = {}
    BY DEF Init
  <2>3. CheckpointsSound(j)
    BY <2>1, StagePositions DEF CheckpointsSound, VideoCurrent, VIDEO_ONLY_STAGES
  <2>4. DoneIsComplete(j) /\ PrefixSettled(j)
    BY <2>1, <2>2, StagePositions DEF DoneIsComplete, PrefixSettled, Settled
  <2>5. RecordingHeld(j)
    BY <2>2 DEF RecordingHeld, Init
  <2>6. QED
    BY <2>3, <2>4, <2>5 DEF JobInv
<1>4. QED
  BY <1>1, <1>2, <1>3 DEF IInv

\* Seeding: every stage queued again, over whatever rows an earlier run left.
LEMMA SeededJob ==
  ASSUME NEW j \in Jobs, stage'[j] = AllQueued, status'[j] = "queued",
         videoRows'[j] = {} \/ j \in recorded',
         j \in recorded' => j \in minted' /\ drop'[j].rec
  PROVE  JobInv(j)'
<1>1. \A s \in Stages : stage'[j][s] = "queued"
  BY DEF AllQueued
<1>2. CheckpointsSound(j)'
  BY <1>1, StagePositions DEF CheckpointsSound, VideoCurrent, VIDEO_ONLY_STAGES
<1>3. DoneIsComplete(j)' /\ PrefixSettled(j)'
  BY <1>1, StagePositions DEF DoneIsComplete, PrefixSettled, Settled
<1>4. RecordingHeld(j)'
  BY DEF RecordingHeld
<1>5. QED
  BY <1>2, <1>3, <1>4 DEF JobInv

\* The api's calls: whatever they re-arm is sound again, or is recorded as raced.
LEMMA IntakeStep ==
  ASSUME IInv, Intake
  PROVE  /\ MemoryAgrees' /\ ClaimCurrent'
         /\ \A j \in Jobs \ raced' : JobInv(j)'
<1> USE DEF IInv
<1>1. ASSUME NEW p \in Posts, NEW j \in Jobs, NEW d \in Drop, CreateJob(p, j, d)
      PROVE  /\ HeldFramed
             /\ \A k \in Jobs \ raced' : JobInv(k)'
  <2> USE <1>1
  <2>1. held # j \/ j \in raced
    BY JobsAssumption DEF CreateJob, ClaimCurrent
  <2>2. HeldFramed
    BY <2>1 DEF CreateJob, HeldFramed, evidence, TypeOK
  <2>3. ASSUME NEW k \in Jobs \ raced', k # j PROVE JobInv(k)'
    <3>1. Framed(k) /\ JobInv(k)
      BY <2>3 DEF CreateJob, Framed, evidence, TypeOK
    <3>2. QED
      BY <3>1, JobFrame
  <2>4. ASSUME j \notin raced' PROVE JobInv(j)'
    <3>1. JobInv(j)
      BY <2>4 DEF CreateJob
    <3>2. j \notin minted /\ j \notin recorded /\ videoRows[j] = {}
      BY <3>1 DEF CreateJob, JobInv, RecordingHeld
    <3>3. QED
      BY <3>2, SeededJob DEF CreateJob, evidence, TypeOK
  <2>5. QED
    BY <2>2, <2>3, <2>4
<1>2. ASSUME NEW p \in Posts, NEW j \in Jobs, NEW d \in Drop, RetryCheck(p, j, d)
      PROVE  /\ HeldFramed
             /\ \A k \in Jobs \ raced' : JobInv(k)'
  <2>1. HeldFramed
    BY <1>2 DEF RetryCheck, HeldFramed, tables
  <2>2. ASSUME NEW k \in Jobs \ raced' PROVE JobInv(k)'
    <3>1. Framed(k) /\ JobInv(k)
      BY <1>2 DEF RetryCheck, Framed, tables
    <3>2. QED
      BY <3>1, JobFrame
  <2>3. QED
    BY <2>1, <2>2
<1>3. ASSUME NEW p \in Posts, NEW j \in Jobs, post[p].job = j, RetryCommit(p)
      PROVE  /\ HeldFramed
             /\ \A k \in Jobs \ raced' : JobInv(k)'
  <2> USE <1>3
  <2>2. raced \subseteq raced'
    BY DEF RetryCommit, RacedIf
  <2>3. j \notin raced' => held # j /\ RetryAllowed(j, post[p].drop)
    BY DEF RetryCommit, RacedIf
  <2>4. HeldFramed
    BY <2>2, <2>3 DEF RetryCommit, HeldFramed, evidence, TypeOK
  <2>5. ASSUME NEW k \in Jobs \ raced', k # j PROVE JobInv(k)'
    <3>1. Framed(k) /\ JobInv(k)
      BY <2>2, <2>5 DEF RetryCommit, Framed, evidence, TypeOK
    <3>2. QED
      BY <3>1, JobFrame
  <2>6. ASSUME j \notin raced' PROVE JobInv(j)'
    <3>1. JobInv(j) /\ RetryAllowed(j, post[p].drop)
      BY <2>2, <2>3, <2>6
    <3>2. /\ videoRows[j] # {} => j \in recorded
          /\ j \in recorded => j \in minted /\ post[p].drop.rec
      BY <3>1 DEF JobInv, RecordingHeld, RetryAllowed, PreservesMeeting
    <3>3. QED
      BY <3>2, SeededJob DEF RetryCommit, evidence, TypeOK
  <2>7. QED
    BY <2>4, <2>5, <2>6
<1>4. ASSUME NEW p \in Posts, NEW j \in Jobs, NEW d \in Drop, Augment(p, j, d)
      PROVE  /\ HeldFramed
             /\ \A k \in Jobs \ raced' : JobInv(k)'
  <2> USE <1>4
  <2> DEFINE rearmed == IF d.rec /\ j \notin recorded THEN AUGMENTATION_STAGES
                                                      ELSE PARTICIPANT_AUGMENTATION_STAGES
  <2>1. raced \subseteq raced' /\ (j \notin raced' => held # j)
    BY DEF Augment, Augmentable, AddsRecording, AddsGraph, RacedIf
  <2>2. HeldFramed
    BY <2>1 DEF Augment, Augmentable, AddsRecording, AddsGraph, HeldFramed, evidence, TypeOK
  <2>3. ASSUME NEW k \in Jobs \ raced', k # j PROVE JobInv(k)'
    <3>1. Framed(k) /\ JobInv(k)
      BY <2>1, <2>3 DEF Augment, Augmentable, AddsRecording, AddsGraph, Framed, evidence, TypeOK
    <3>2. QED
      BY <3>1, JobFrame
  <2>4. ASSUME j \notin raced' PROVE JobInv(j)'
    <3>1. JobInv(j)
      BY <2>1, <2>4
    <3>2. stage'[j] = [s \in Stages |-> IF s \in rearmed THEN "queued" ELSE stage[j][s]]
      BY DEF Augment, Augmentable, AddsRecording, AddsGraph, Requeue, TypeOK
    <3>3. /\ rearmed \subseteq EVIDENCE_STAGES
          /\ "align" \in rearmed /\ "moments" \in rearmed /\ "extract" \notin rearmed
      BY StagePositions DEF EVIDENCE_STAGES, AUGMENTATION_STAGES,
         PARTICIPANT_AUGMENTATION_STAGES, VIDEO_ONLY_STAGES
    <3>4. /\ drop'[j] = d /\ status'[j] = "queued" /\ j \notin seeded'
          /\ videoRows'[j] = videoRows[j] /\ segments'[j] = segments[j]
          /\ moments'[j] = moments[j] /\ artifacts'[j] = artifacts[j] /\ names'[j] = names[j]
          /\ minted' = minted /\ recorded' = recorded
      BY DEF Augment, Augmentable, AddsRecording, AddsGraph, evidence, TypeOK
    <3>5. j \in minted /\ (j \in recorded => d.rec)
      BY DEF Augment, Augmentable, AddsRecording, AddsGraph, PreservesMeeting
    <3>6. RecordingHeld(j)'
      BY <3>1, <3>4, <3>5 DEF JobInv, RecordingHeld
    <3>7. VideoCurrent(j)'
      <4> SUFFICES ASSUME NEW s \in VIDEO_ONLY_STAGES
                   PROVE  /\ stage'[j][s] = "done" => s \in videoRows[j] /\ d.rec
                          /\ stage'[j][s] = "skipped" => s \notin videoRows[j] /\ ~d.rec
        BY <3>4 DEF VideoCurrent
      <4>1. CASE s \in rearmed
        BY <4>1, <3>2, StagePositions DEF VIDEO_ONLY_STAGES
      <4>2. CASE s \notin rearmed
        <5>1. stage'[j][s] = stage[j][s]
          BY <4>2, <3>2, StagePositions DEF VIDEO_ONLY_STAGES
        <5>2. ~(d.rec /\ j \notin recorded)
          BY <4>2 DEF AUGMENTATION_STAGES
        <5>3. /\ stage[j][s] = "done" => s \in videoRows[j]
              /\ stage[j][s] = "skipped" => s \notin videoRows[j] /\ ~drop[j].rec
          BY <3>1 DEF JobInv, CheckpointsSound, VideoCurrent
        <5>4. (s \in videoRows[j] => j \in recorded) /\ (j \in recorded => drop[j].rec)
          BY <3>1 DEF JobInv, RecordingHeld
        <5>5. QED
          BY <5>1, <5>2, <5>3, <5>4, <3>5
      <4>3. QED
        BY <4>1, <4>2
    <3>8. CheckpointsSound(j)'
      <4>1. stage'[j]["align"] = "queued" /\ stage'[j]["moments"] = "queued"
            /\ stage'[j]["extract"] = stage[j]["extract"]
        BY <3>2, <3>3, StagePositions
      <4>2. QED
        BY <4>1, <3>1, <3>4, <3>7 DEF CheckpointsSound, JobInv
    <3>9. PrefixSettled(j)'
      <4> SUFFICES ASSUME NEW i \in 1..8, NEW k \in 1..8, i < k, k <= 7,
                          stage'[j][STAGE_NAMES[k]] \in Settled
                   PROVE  stage'[j][STAGE_NAMES[i]] \in Settled
        BY <3>4 DEF PrefixSettled
      <4>1. STAGE_NAMES[k] \notin rearmed /\ stage[j][STAGE_NAMES[k]] \in Settled
        BY <3>2, StagePositions DEF Settled
      <4>2. k <= 5
        BY <4>1, <3>3, StagePositions
      <4>3. STAGE_NAMES[i] \in VIDEO_ONLY_STAGES /\ STAGE_NAMES[k] \in VIDEO_ONLY_STAGES
        BY <4>2, StagePositions
      <4>4. STAGE_NAMES[i] \notin rearmed
        BY <4>1, <4>3, StagePositions DEF AUGMENTATION_STAGES, PARTICIPANT_AUGMENTATION_STAGES,
           VIDEO_ONLY_STAGES
      <4>5. stage[j][STAGE_NAMES[i]] \in Settled
        BY <4>1, <3>1 DEF JobInv, PrefixSettled
      <4>6. QED
        BY <4>4, <4>5, <3>2, StagePositions
    <3>10. QED
      BY <3>4, <3>6, <3>8, <3>9 DEF JobInv, DoneIsComplete
  <2>5. QED
    BY <2>2, <2>3, <2>4
<1>5. ASSUME NEW j \in Jobs, AssignSpeaker(j)
      PROVE  /\ HeldFramed
             /\ \A k \in Jobs \ raced' : JobInv(k)'
  <2> USE <1>5
  <2>1. raced \subseteq raced' /\ (j \notin raced' => held # j)
    <3>1. raced' = raced /\ status[j] # "running"
      BY DEF AssignSpeaker, AssignmentRefused
    <3>2. held = j => j \in raced
      BY <3>1, JobsAssumption DEF ClaimCurrent
    <3>3. QED
      BY <3>1, <3>2
  <2>2. HeldFramed
    BY <2>1 DEF AssignSpeaker, HeldFramed, evidence, TypeOK
  <2>3. ASSUME NEW k \in Jobs \ raced', k # j PROVE JobInv(k)'
    <3>1. Framed(k) /\ JobInv(k)
      BY <2>1, <2>3 DEF AssignSpeaker, Framed, evidence, TypeOK
    <3>2. QED
      BY <3>1, JobFrame
  <2>4. ASSUME j \notin raced' PROVE JobInv(j)'
    <3>1. JobInv(j)
      BY <2>1, <2>4
    <3>2. stage'[j] = [s \in Stages |-> IF s \in {"align", "moments", "extract"}
                                        THEN "queued" ELSE stage[j][s]]
      BY DEF AssignSpeaker, Requeue, SPEAKER_ASSIGNMENT_STAGES, TypeOK
    <3>3. /\ drop'[j] = drop[j] /\ status'[j] = "queued"
          /\ videoRows'[j] = videoRows[j] /\ segments'[j] = segments[j]
          /\ moments'[j] = moments[j] /\ artifacts'[j] = artifacts[j]
          /\ minted' = minted /\ recorded' = recorded
      BY DEF AssignSpeaker, evidence, TypeOK
    <3>4. RecordingHeld(j)'
      BY <3>1, <3>3 DEF JobInv, RecordingHeld, AssignSpeaker
    <3>5. CheckpointsSound(j)'
      <4>1. stage'[j]["align"] = "queued" /\ stage'[j]["moments"] = "queued"
            /\ stage'[j]["extract"] = "queued"
        BY <3>2, StagePositions
      <4>2. \A s \in VIDEO_ONLY_STAGES : stage'[j][s] = stage[j][s]
        BY <3>2, StagePositions DEF VIDEO_ONLY_STAGES
      <4>3. VideoCurrent(j)'
        BY <4>2, <3>1, <3>3 DEF VideoCurrent, CheckpointsSound, JobInv
      <4>4. QED
        BY <4>1, <4>3 DEF CheckpointsSound
    <3>6. PrefixSettled(j)'
      <4> SUFFICES ASSUME NEW i \in 1..8, NEW k \in 1..8, i < k,
                          stage'[j][STAGE_NAMES[k]] \in Settled
                   PROVE  stage'[j][STAGE_NAMES[i]] \in Settled
        BY DEF PrefixSettled
      <4>1. /\ STAGE_NAMES[k] \notin {"align", "moments", "extract"}
            /\ stage[j][STAGE_NAMES[k]] \in Settled
        BY <3>2, StagePositions DEF Settled
      <4>2. k # 6 /\ k # 7 /\ k # 8
        BY <4>1, StagePositions
      <4>3. k <= 5
        BY <4>2
      <4>4. STAGE_NAMES[i] \notin {"align", "moments", "extract"}
        BY <4>3, StagePositions DEF VIDEO_ONLY_STAGES
      <4>5. stage[j][STAGE_NAMES[i]] \in Settled
        BY <4>1, <4>3, <3>1 DEF JobInv, PrefixSettled
      <4>6. QED
        BY <4>4, <4>5, <3>2, StagePositions
    <3>7. QED
      BY <3>3, <3>4, <3>5, <3>6 DEF JobInv, DoneIsComplete
  <2>5. QED
    BY <2>2, <2>3, <2>4
<1>6. HeldFramed /\ \A k \in Jobs \ raced' : JobInv(k)'
  <2>1. \A p \in Posts : RetryCommit(p) => post[p].job \in Jobs
    BY DEF RetryCommit, WorkerShape
  <2>2. QED
    BY <2>1, <1>1, <1>2, <1>3, <1>4, <1>5 DEF Intake
<1>7. QED
  BY <1>6, HeldFrame

\* Taking up work and letting go of it: stage rows and evidence are untouched,
\* but for the stage that failed.
LEMMA ClaimStep ==
  ASSUME IInv, WorkerStart \/ \E j \in Jobs : ClaimJob(j)
  PROVE  /\ MemoryAgrees' /\ ClaimCurrent'
         /\ \A j \in Jobs \ raced' : JobInv(j)'
<1> USE DEF IInv
<1>1. CASE WorkerStart
  <2>1. MemoryAgrees' /\ ClaimCurrent'
    BY <1>1, Released DEF WorkerStart, WorkerShape
  <2>2. ASSUME NEW k \in Jobs \ raced' PROVE JobInv(k)'
    <3>1. Framed(k) /\ JobInv(k)
      BY <1>1 DEF WorkerStart, RequeuedOrphans, Framed, evidence, TypeOK
    <3>2. QED
      BY <3>1, JobFrame
  <2>3. QED
    BY <2>1, <2>2
<1>2. ASSUME NEW j \in Jobs, ClaimJob(j)
      PROVE  /\ MemoryAgrees' /\ ClaimCurrent'
             /\ \A k \in Jobs \ raced' : JobInv(k)'
  <2>1. MemoryAgrees' /\ ClaimCurrent'
    BY <1>2 DEF ClaimJob, MemoryAgrees, ClaimCurrent, InLoop, InStage, TypeOK
  <2>2. ASSUME NEW k \in Jobs \ raced' PROVE JobInv(k)'
    <3>1. Framed(k) /\ JobInv(k)
      BY <1>2 DEF ClaimJob, Framed, evidence, TypeOK
    <3>2. QED
      BY <3>1, JobFrame
  <2>3. QED
    BY <2>1, <2>2
<1>3. QED
  BY <1>1, <1>2

LEMMA ReleaseStep ==
  ASSUME IInv, FailClaim \/ FailStage \/ FinishJob \/ Crash \/ LoseConnection
  PROVE  /\ MemoryAgrees' /\ ClaimCurrent'
         /\ \A j \in Jobs \ raced' : JobInv(j)'
<1> USE DEF IInv
<1>1. MemoryAgrees' /\ ClaimCurrent'
  BY Released DEF FailClaim, FailStage, FinishJob, Crash, LoseConnection, Release
<1>2. held \in Jobs \/ Crash
  BY DEF FailClaim, FailStage, FinishJob, LoseConnection, WorkerShape, TypeOK
<1>3. CASE FailClaim \/ Crash \/ LoseConnection
  <2>1. ASSUME NEW k \in Jobs \ raced' PROVE Framed(k) /\ JobInv(k)
    BY <1>2, <1>3 DEF FailClaim, Crash, LoseConnection, Release, Framed, evidence, tables, TypeOK
  <2>2. QED
    BY <1>1, <2>1, JobFrame
<1>4. CASE FailStage
  <2>1. ASSUME NEW k \in Jobs \ raced', k # held PROVE JobInv(k)'
    <3>1. Framed(k) /\ JobInv(k)
      BY <1>2, <1>4, <2>1 DEF FailStage, Release, Framed, evidence, TypeOK
    <3>2. QED
      BY <3>1, JobFrame
  <2>2. ASSUME NEW k \in Jobs \ raced', k = held PROVE JobInv(k)'
    <3>1. JobInv(k) /\ at \in 1..8 /\ Current \in Stages
      BY <1>4, <2>2, StagePositions DEF FailStage, WorkerShape, InStage, TypeOK, Current
    <3>2. /\ stage'[k] = [stage[k] EXCEPT ![Current] = "failed"]
          /\ status'[k] = "failed"
          /\ drop'[k] = drop[k] /\ names'[k] = names[k]
          /\ videoRows'[k] = videoRows[k] /\ segments'[k] = segments[k]
          /\ moments'[k] = moments[k] /\ artifacts'[k] = artifacts[k]
          /\ minted' = minted /\ recorded' = recorded /\ seeded' = seeded
      BY <1>4, <2>2 DEF FailStage, Release, evidence, TypeOK
    <3>3. \A s \in Stages : stage'[k][s] = IF s = Current THEN "failed" ELSE stage[k][s]
      BY <3>1, <3>2 DEF TypeOK
    <3>4. stage[k][Current] = "running"
      BY <1>4, <2>2 DEF FailStage, ClaimCurrent, InStage, WorkerShape
    <3>5. CheckpointsSound(k)'
      BY <3>1, <3>2, <3>3, StagePositions DEF JobInv, CheckpointsSound, VideoCurrent,
         SegmentsCurrent, MomentsCurrent, VIDEO_ONLY_STAGES
    <3>6. PrefixSettled(k)'
      BY <3>1, <3>2, <3>3, <3>4, StagePositions DEF JobInv, PrefixSettled, Settled
    <3>7. RecordingHeld(k)' /\ DoneIsComplete(k)'
      BY <3>1, <3>2 DEF JobInv, RecordingHeld, DoneIsComplete
    <3>8. QED
      BY <3>5, <3>6, <3>7 DEF JobInv
  <2>3. QED
    BY <1>1, <2>1, <2>2
<1>5. CASE FinishJob
  <2>1. ASSUME NEW k \in Jobs \ raced', k # held PROVE JobInv(k)'
    <3>1. Framed(k) /\ JobInv(k)
      BY <1>2, <1>5, <2>1 DEF FinishJob, Release, Framed, evidence, TypeOK
    <3>2. QED
      BY <3>1, JobFrame
  <2>2. ASSUME NEW k \in Jobs \ raced', k = held PROVE JobInv(k)'
    <3>1. JobInv(k) /\ held \notin raced
      BY <1>5, <2>2 DEF FinishJob
    <3>2. \A s \in Stages : stage[k][s] \in Settled
      <4>1. \A i \in 1..8 : memory[STAGE_NAMES[i]] \in Settled
        <5>1. pc = "loop" /\ at = 9 /\ held # NoJob
          BY <1>5 DEF FinishJob, WorkerShape
        <5>2. \A i \in 1..8 : i < at => memory[STAGE_NAMES[i]] \in Settled
          BY <5>1, <3>1 DEF ClaimCurrent, InLoop
        <5>3. QED
          BY <5>1, <5>2
      <4>2. \A s \in Stages : memory[s] = stage[held][s]
        BY <1>5, <3>1 DEF FinishJob, MemoryAgrees
      <4>3. QED
        BY <4>1, <4>2, <2>2 DEF Stages
    <3>3. /\ UNCHANGED <<stage, drop, names, videoRows, segments, moments, artifacts,
                         minted, recorded, seeded>>
          /\ status'[k] = "done"
      BY <1>5, <2>2 DEF FinishJob, Release, evidence, TypeOK
    <3>4. DoneIsComplete(k)'
      BY <3>2, <3>3 DEF DoneIsComplete
    <3>5. QED
      BY <3>1, <3>3, <3>4 DEF JobInv, CheckpointsSound, VideoCurrent, SegmentsCurrent,
         MomentsCurrent, PrefixSettled, RecordingHeld
  <2>3. QED
    BY <1>1, <2>1, <2>2
<1>6. QED
  BY <1>3, <1>4, <1>5

\* Minting and preparing: the claim's drop is still the job's own, so a drop
\* without a recording finds no video evidence to clear.
LEMMA MintStep ==
  ASSUME IInv, MintMeeting
  PROVE  /\ MemoryAgrees' /\ ClaimCurrent'
         /\ \A j \in Jobs \ raced' : JobInv(j)'
<1> USE DEF IInv
<1>1. held \in Jobs
  BY DEF MintMeeting, WorkerShape, TypeOK
<1>2. MemoryAgrees' /\ ClaimCurrent'
  BY <1>1 DEF MintMeeting, MemoryAgrees, ClaimCurrent, InLoop, InStage, evidence
<1>3. ASSUME NEW k \in Jobs \ raced' PROVE JobInv(k)'
  <2>1. JobInv(k) /\ UNCHANGED <<status, stage, drop, names, evidence, seeded>>
    BY DEF MintMeeting
  <2>2. CASE k # held
    <3>1. Framed(k)
      BY <2>2 DEF MintMeeting, Framed, evidence
    <3>2. QED
      BY <2>1, <3>1, JobFrame
  <2>3. CASE k = held
    <3>1. held \notin raced /\ status[held] = "running" /\ heldDrop = drop[held]
      BY <2>3, <1>1, JobsAssumption DEF MintMeeting, ClaimCurrent
    <3>2. RecordingHeld(k)'
      BY <2>1, <2>3, <3>1 DEF MintMeeting, RecordingHeld, JobInv, evidence
    <3>3. QED
      BY <2>1, <3>2 DEF JobInv, CheckpointsSound, VideoCurrent, SegmentsCurrent, MomentsCurrent,
         DoneIsComplete, PrefixSettled, evidence
  <2>4. QED
    BY <2>2, <2>3
<1>4. QED
  BY <1>2, <1>3

LEMMA CleanUpStep ==
  ASSUME IInv, CleanUp
  PROVE  /\ MemoryAgrees' /\ ClaimCurrent'
         /\ \A j \in Jobs \ raced' : JobInv(j)'
<1> USE DEF IInv
<1> DEFINE noStt == "transcribe" \in videoRows[held]
           noScreens == "screens" \in videoRows[held]
           requeued == (IF noStt THEN {"align"} ELSE {})
                         \union (IF noStt \/ noScreens THEN {"moments"} ELSE {})
           cleared == [s \in Stages |-> IF s \in VIDEO_ONLY_STAGES THEN "skipped"
                                        ELSE Requeue(stage[held], requeued)[s]]
<1>1. held \in Jobs /\ held \in minted
  BY DEF CleanUp, WorkerShape, TypeOK
<1>2. /\ stage' = [stage EXCEPT ![held] = cleared]
      /\ videoRows' = [videoRows EXCEPT ![held] = {}]
      /\ segments' = [segments EXCEPT ![held] = IF noStt THEN NoRows ELSE @]
      /\ pc = "minted" /\ ~heldDrop.rec /\ pc' = "cleared"
      /\ UNCHANGED <<status, earlier, drop, minted, recorded, names, moments, artifacts,
                     held, heldDrop, memory, at, post, faults, seeded, stranded, raced>>
  BY DEF CleanUp
<1>3. stage'[held] = cleared
  BY <1>1, <1>2 DEF TypeOK
<1>4. MemoryAgrees'
  BY <1>2 DEF MemoryAgrees
<1>5. ClaimCurrent'
  BY <1>2 DEF ClaimCurrent, InLoop, InStage
<1>6. ASSUME NEW k \in Jobs \ raced', k # held PROVE JobInv(k)'
  <2>1. Framed(k) /\ JobInv(k)
    BY <1>1, <1>2, <1>6 DEF Framed, TypeOK
  <2>2. QED
    BY <2>1, JobFrame
<1>7. ASSUME NEW k \in Jobs \ raced', k = held PROVE JobInv(k)'
  <2>1. JobInv(k) /\ held \notin raced
    BY <1>2, <1>7
  <2>2. heldDrop = drop[held] /\ (held \in recorded <=> heldDrop.rec) /\ status[held] = "running"
    BY <2>1, <1>1, JobsAssumption DEF CleanUp, ClaimCurrent
  <2>3. videoRows[held] = {}
    BY <1>2, <2>1, <2>2, <1>7 DEF JobInv, RecordingHeld
  <2>4. ~noStt /\ ~noScreens
    BY <2>3
  <2>5. requeued = {}
    BY <2>4
  <2>6. \A s \in Stages : stage'[k][s] = IF s \in VIDEO_ONLY_STAGES
                                         THEN "skipped" ELSE stage[k][s]
    BY <1>3, <1>7, <2>5 DEF Requeue
  <2>7. videoRows'[k] = videoRows[k] /\ segments'[k] = segments[k]
    BY <1>1, <1>2, <1>7, <2>3, <2>4 DEF TypeOK
  <2>8. /\ drop'[k] = drop[k] /\ names'[k] = names[k] /\ moments'[k] = moments[k]
        /\ artifacts'[k] = artifacts[k] /\ status'[k] = status[k]
        /\ minted' = minted /\ recorded' = recorded /\ seeded' = seeded /\ ~heldDrop.rec
    BY <1>2
  <2> HIDE DEF noStt, noScreens, requeued, cleared
  <2>9. CheckpointsSound(k)'
    <3>1. VideoCurrent(k)'
      BY <2>1, <2>2, <2>3, <2>6, <2>7, <2>8, <1>7, StagePositions
      DEF JobInv, CheckpointsSound, VideoCurrent, VIDEO_ONLY_STAGES
    <3>2. \A s \in {"align", "moments", "extract"} : stage'[k][s] = stage[k][s]
      BY <2>6, StagePositions DEF VIDEO_ONLY_STAGES
    <3>3. QED
      BY <3>1, <3>2, <2>1, <2>7, <2>8 DEF JobInv, CheckpointsSound, SegmentsCurrent, MomentsCurrent
  <2>10. PrefixSettled(k)'
    <3> SUFFICES ASSUME NEW i \in 1..8, NEW n \in 1..8, i < n,
                        stage'[k][STAGE_NAMES[n]] \in Settled, n <= 7 \/ k \in seeded
                 PROVE  stage'[k][STAGE_NAMES[i]] \in Settled
      BY <2>8 DEF PrefixSettled
    <3>1. CASE i <= 5
      BY <3>1, <2>6, StagePositions DEF Settled
    <3>2. CASE i > 5
      <4>1. /\ stage'[k][STAGE_NAMES[i]] = stage[k][STAGE_NAMES[i]]
            /\ stage'[k][STAGE_NAMES[n]] = stage[k][STAGE_NAMES[n]]
        BY <3>2, <2>6, StagePositions
      <4>2. QED
        BY <4>1, <2>1 DEF JobInv, PrefixSettled
    <3>3. QED
      BY <3>1, <3>2
  <2>11. RecordingHeld(k)' /\ DoneIsComplete(k)'
    BY <2>1, <2>2, <2>7, <2>8, <1>7 DEF JobInv, RecordingHeld, DoneIsComplete
  <2>12. QED
    BY <2>9, <2>10, <2>11 DEF JobInv
<1>8. QED
  BY <1>4, <1>5, <1>6, <1>7

LEMMA ReadStep ==
  ASSUME IInv, ReadStages
  PROVE  /\ MemoryAgrees' /\ ClaimCurrent'
         /\ \A j \in Jobs \ raced' : JobInv(j)'
<1> USE DEF IInv
<1>1. /\ UNCHANGED <<tables, held, heldDrop, seeded, raced>>
      /\ pc \in {"minted", "cleared"} /\ pc' = "loop" /\ at' = 1 /\ memory' = stage[held]
  BY DEF ReadStages
<1>2. MemoryAgrees'
  BY <1>1 DEF MemoryAgrees, tables
<1>3. ClaimCurrent'
  <2>1. \A i \in 1..8 : ~(i < at')
    BY <1>1
  <2>2. QED
    BY <1>1, <2>1 DEF ClaimCurrent, InLoop, InStage, tables
<1>4. ASSUME NEW k \in Jobs \ raced' PROVE JobInv(k)'
  <2>1. JobInv(k) /\ Framed(k)
    BY <1>1 DEF Framed, tables
  <2>2. QED
    BY <2>1, JobFrame
<1>5. QED
  BY <1>2, <1>3, <1>4

-----------------------------------------------------------------------------
(* The stage loop.                                                         *)

\* Only the held job's rows move; what is left to show is about that job.
LEMMA OthersFramed ==
  ASSUME IInv, NEW k \in Jobs \ raced', k # held, held \in Jobs,
         ResumeStage \/ SkipStage \/ StartStage \/ CommitStage \/ CheckpointStage
  PROVE  JobInv(k)'
<1>1. JobInv(k)
  BY DEF IInv, ResumeStage, SkipStage, StartStage, CommitStage, CheckpointStage
<1>2. CASE ResumeStage
  BY <1>1, <1>2, JobFrame DEF ResumeStage, Framed, tables
<1>3. CASE SkipStage \/ StartStage \/ CheckpointStage
  <2>1. Framed(k)
    BY <1>3 DEF IInv, TypeOK, SkipStage, StartStage, CheckpointStage, Framed, evidence
  <2>2. QED
    BY <1>1, <2>1, JobFrame
<1>4. CASE CommitStage
  <2>1. Framed(k)
    BY <1>4 DEF IInv, TypeOK, CommitStage, StageRows, Framed
  <2>2. QED
    BY <1>1, <2>1, JobFrame
<1>5. QED
  BY <1>2, <1>3, <1>4

\* What the loop knows of its job when nobody re-armed it.
LEMMA LoopFacts ==
  ASSUME IInv, pc \in {"loop", "executing", "committed"}, held \notin raced, at <= 8
  PROVE  /\ held \in Jobs /\ JobInv(held) /\ at \in 1..8 /\ Current \in Stages
         /\ status[held] = "running" /\ heldDrop = drop[held]
         /\ held \in recorded <=> heldDrop.rec
         /\ \A i \in 1..8 : i < at => /\ memory[STAGE_NAMES[i]] \in Settled
                                      /\ stage[held][STAGE_NAMES[i]] \in Settled
<1>1. held \in Jobs /\ held # NoJob /\ at \in 1..8
  BY JobsAssumption DEF IInv, TypeOK, WorkerShape
<1>2. Current \in Stages
  BY <1>1, StagePositions DEF Current
<1>3. /\ status[held] = "running" /\ heldDrop = drop[held]
      /\ held \in recorded <=> heldDrop.rec
      /\ \A i \in 1..8 : i < at => memory[STAGE_NAMES[i]] \in Settled
  BY <1>1 DEF IInv, ClaimCurrent, InLoop, InStage
<1>4. \A i \in 1..8 : i < at => stage[held][STAGE_NAMES[i]] \in Settled
  <2> SUFFICES ASSUME NEW i \in 1..8, i < at PROVE stage[held][STAGE_NAMES[i]] \in Settled
    OBVIOUS
  <2>1. STAGE_NAMES[i] \in Stages /\ STAGE_NAMES[i] # Current
    BY <1>1, StagePositions DEF Current
  <2>2. memory[STAGE_NAMES[i]] = stage[held][STAGE_NAMES[i]]
    BY <2>1 DEF IInv, MemoryAgrees
  <2>3. QED
    BY <2>2, <1>3
<1>5. JobInv(held)
  BY <1>1 DEF IInv
<1>6. QED
  BY <1>1, <1>2, <1>3, <1>4, <1>5

LEMMA ResumeStep ==
  ASSUME IInv, ResumeStage
  PROVE  /\ MemoryAgrees' /\ ClaimCurrent'
         /\ \A j \in Jobs \ raced' : JobInv(j)'
<1>1. held \in Jobs /\ at \in 1..8
  BY DEF IInv, ResumeStage, WorkerShape, TypeOK
<1>2. MemoryAgrees'
  BY DEF IInv, ResumeStage, MemoryAgrees, tables
<1>3. ClaimCurrent'
  <2>1. ASSUME NEW i \in 1..8, i < at', held \notin raced PROVE memory[STAGE_NAMES[i]] \in Settled
    <3>1. i < at \/ i = at
      BY <1>1, <2>1 DEF ResumeStage, NextStage
    <3>2. QED
      BY <3>1, <2>1, <1>1, LoopFacts DEF ResumeStage, Current, SETTLED_STAGE_STATUSES, Settled
  <2>2. QED
    BY <2>1, <1>1, LoopFacts DEF ResumeStage, ClaimCurrent, InLoop, InStage, tables
<1>4. ASSUME NEW k \in Jobs \ raced' PROVE JobInv(k)'
  BY <1>4, JobFrame DEF IInv, ResumeStage, Framed, tables
<1>5. QED
  BY <1>2, <1>3, <1>4

\* Settling the current stage, whether skipped or done, extends the prefix.
LEMMA SettledPrefix ==
  ASSUME IInv, pc \in {"loop", "executing", "committed"}, held \notin raced, at <= 8,
         NEW v \in Settled, stage' = [stage EXCEPT ![held][Current] = v],
         seeded' = seeded
  PROVE  \A i, n \in 1..8 :
           /\ i < n /\ stage'[held][STAGE_NAMES[n]] \in Settled
           /\ n <= 7 \/ held \in seeded'
           => stage'[held][STAGE_NAMES[i]] \in Settled
<1>1. /\ held \in Jobs /\ Current \in Stages /\ at \in 1..8 /\ PrefixSettled(held)
      /\ \A i \in 1..8 : i < at => stage[held][STAGE_NAMES[i]] \in Settled
  BY LoopFacts DEF JobInv
<1>2. \A s \in Stages : stage'[held][s] = IF s = Current THEN v ELSE stage[held][s]
  BY <1>1 DEF IInv, TypeOK
<1>3. SUFFICES ASSUME NEW i \in 1..8, NEW n \in 1..8, i < n,
                      stage'[held][STAGE_NAMES[n]] \in Settled, n <= 7 \/ held \in seeded
               PROVE  stage'[held][STAGE_NAMES[i]] \in Settled
  BY DEF IInv
<1>4. STAGE_NAMES[i] \in Stages /\ STAGE_NAMES[n] \in Stages
  BY StagePositions
<1>5. CASE n = at
  BY <1>1, <1>2, <1>3, <1>4, <1>5
<1>6. CASE n # at
  <2>1. STAGE_NAMES[n] # Current
    BY <1>1, <1>6, StagePositions DEF Current
  <2>2. stage[held][STAGE_NAMES[i]] \in Settled
    BY <2>1, <1>1, <1>2, <1>3, <1>4 DEF PrefixSettled
  <2>3. QED
    BY <2>2, <1>2, <1>4
<1>7. QED
  BY <1>5, <1>6

LEMMA SkipStep ==
  ASSUME IInv, SkipStage
  PROVE  /\ MemoryAgrees' /\ ClaimCurrent'
         /\ \A j \in Jobs \ raced' : JobInv(j)'
<1>1. held \in Jobs /\ at \in 1..8 /\ Current \in Stages
  BY StagePositions DEF IInv, SkipStage, WorkerShape, TypeOK, Current
<1>2. /\ \A s \in Stages : stage'[held][s] = IF s = Current THEN "skipped" ELSE stage[held][s]
      /\ \A s \in Stages : memory'[s] = IF s = Current THEN "skipped" ELSE memory[s]
      /\ UNCHANGED <<status, drop, minted, recorded, names, videoRows, segments, moments,
                     artifacts, pc, held, heldDrop, seeded, raced>>
      /\ pc = "loop" /\ at' = at + 1 /\ ~heldDrop.rec /\ Current \in VIDEO_ONLY_STAGES
  BY <1>1 DEF IInv, TypeOK, SkipStage, evidence, NextStage
<1>3. MemoryAgrees'
  BY <1>2 DEF IInv, MemoryAgrees
<1>4. ClaimCurrent'
  <2>1. ASSUME NEW i \in 1..8, i < at', held \notin raced PROVE memory'[STAGE_NAMES[i]] \in Settled
    <3>1. STAGE_NAMES[i] \in Stages /\ (i < at \/ STAGE_NAMES[i] = Current)
      BY <1>1, <1>2, <2>1, StagePositions DEF Current
    <3>2. QED
      BY <3>1, <2>1, <1>1, <1>2, LoopFacts DEF Settled
  <2>2. QED
    BY <2>1, <1>1, <1>2, LoopFacts DEF ClaimCurrent, InLoop, InStage
<1>5. ASSUME held \notin raced' PROVE JobInv(held)'
  <2>1. /\ JobInv(held) /\ heldDrop = drop[held] /\ status[held] = "running"
        /\ held \in recorded <=> heldDrop.rec
    BY <1>1, <1>2, <1>5, LoopFacts
  <2>2. videoRows[held] = {}
    BY <1>2, <2>1 DEF JobInv, RecordingHeld
  <2>3. CheckpointsSound(held)'
    BY <1>1, <1>2, <2>1, <2>2, StagePositions DEF JobInv, CheckpointsSound, VideoCurrent,
       SegmentsCurrent, MomentsCurrent, VIDEO_ONLY_STAGES
  <2>4. PrefixSettled(held)'
    BY <1>1, <1>2, <1>5, SettledPrefix DEF SkipStage, Settled, PrefixSettled
  <2>5. RecordingHeld(held)' /\ DoneIsComplete(held)'
    BY <1>2, <2>1 DEF JobInv, RecordingHeld, DoneIsComplete
  <2>6. QED
    BY <2>3, <2>4, <2>5 DEF JobInv
<1>6. QED
  BY <1>1, <1>2, <1>3, <1>4, <1>5, OthersFramed DEF IInv

LEMMA StartStep ==
  ASSUME IInv, StartStage
  PROVE  /\ MemoryAgrees' /\ ClaimCurrent'
         /\ \A j \in Jobs \ raced' : JobInv(j)'
<1>1. held \in Jobs /\ at \in 1..8 /\ Current \in Stages
  BY StagePositions DEF IInv, StartStage, WorkerShape, TypeOK, Current
<1>2. /\ \A s \in Stages : stage'[held][s] = IF s = Current THEN "running" ELSE stage[held][s]
      /\ UNCHANGED <<status, drop, minted, recorded, names, videoRows, segments, moments,
                     artifacts, memory, at, held, heldDrop, seeded, raced>>
      /\ pc = "loop" /\ pc' = "executing" /\ memory[Current] \notin Settled
      /\ heldDrop.rec \/ Current \notin VIDEO_ONLY_STAGES
  BY <1>1 DEF IInv, TypeOK, StartStage, evidence, SETTLED_STAGE_STATUSES, Settled
<1>3. MemoryAgrees'
  BY <1>2 DEF IInv, MemoryAgrees, Current
<1>4. ClaimCurrent'
  BY <1>1, <1>2, LoopFacts DEF ClaimCurrent, InLoop, InStage, Current
<1>5. ASSUME held \notin raced' PROVE JobInv(held)'
  <2>1. JobInv(held) /\ stage[held][Current] \notin Settled /\ status[held] = "running"
    BY <1>1, <1>2, <1>5, LoopFacts DEF IInv, MemoryAgrees
  <2>2. CheckpointsSound(held)'
    BY <1>1, <1>2, <2>1, StagePositions DEF JobInv, CheckpointsSound, VideoCurrent,
       SegmentsCurrent, MomentsCurrent, VIDEO_ONLY_STAGES
  <2>3. PrefixSettled(held)'
    BY <1>1, <1>2, <2>1, StagePositions DEF JobInv, PrefixSettled, Settled
  <2>4. RecordingHeld(held)' /\ DoneIsComplete(held)'
    BY <1>2, <2>1 DEF JobInv, RecordingHeld, DoneIsComplete
  <2>5. QED
    BY <2>2, <2>3, <2>4 DEF JobInv
<1>6. QED
  BY <1>1, <1>2, <1>3, <1>4, <1>5, OthersFramed DEF IInv

\* The stage's rows commit.  Every later evidence checkpoint is unsettled, so
\* none of them covers the rows that have just moved.
LEMMA CommitStep ==
  ASSUME IInv, CommitStage
  PROVE  /\ MemoryAgrees' /\ ClaimCurrent'
         /\ \A j \in Jobs \ raced' : JobInv(j)'
<1>1. held \in Jobs /\ at \in 1..8 /\ Current \in Stages /\ Current' = Current
  BY StagePositions DEF IInv, CommitStage, WorkerShape, InStage, TypeOK, Current
<1>2. /\ \A s \in Stages : stage'[held][s] = IF Invalidates(Current) /\ s = "moments"
                                             THEN "queued" ELSE stage[held][s]
      /\ \A s \in Stages : memory'[s] = IF Invalidates(Current) /\ s = "moments"
                                        THEN "queued" ELSE memory[s]
      /\ UNCHANGED <<status, drop, minted, recorded, names, at, held, heldDrop, seeded, raced>>
      /\ pc = "executing" /\ pc' = "committed" /\ at <= 8
  BY <1>1, StagePositions DEF IInv, TypeOK, CommitStage, MemoryAfterCommit
<1>3. /\ videoRows'[held] = IF Current \in VIDEO_ONLY_STAGES
                            THEN videoRows[held] \union {Current} ELSE videoRows[held]
      /\ segments'[held] = IF Current = "align"
                           THEN [stt |-> "transcribe" \in videoRows[held],
                                 graph |-> heldDrop.graph, names |-> names[held]]
                           ELSE segments[held]
      /\ moments'[held] = IF Current = "moments"
                          THEN [segments |-> segments[held],
                                screens |-> "screens" \in videoRows[held]]
                          ELSE moments[held]
      /\ artifacts'[held] = IF Current = "extract" THEN names[held] ELSE artifacts[held]
  BY <1>1 DEF IInv, TypeOK, CommitStage, StageRows
<1>4. Invalidates(Current) => Current # "moments"
  BY DEF Invalidates
<1>5. MemoryAgrees'
  BY <1>1, <1>2 DEF IInv, MemoryAgrees
<1>6. held \notin raced =>
        /\ JobInv(held) /\ status[held] = "running" /\ heldDrop = drop[held]
        /\ held \in recorded <=> heldDrop.rec
        /\ memory[Current] \notin Settled /\ stage[held][Current] = "running"
        /\ Current \in VIDEO_ONLY_STAGES => heldDrop.rec
  BY <1>2, LoopFacts, JobsAssumption DEF IInv, ClaimCurrent, InStage
<1>7. held \notin raced =>
        \A n \in 1..8 : n > at /\ n <= 7 => stage[held][STAGE_NAMES[n]] \notin Settled
  BY <1>1, <1>6, StagePositions DEF JobInv, PrefixSettled, Current, Settled
<1>8. held \notin raced => CommittedRows(held, Current)'
  BY <1>1, <1>2, <1>3, <1>6 DEF CommittedRows, SegmentsCurrent, MomentsCurrent, VIDEO_ONLY_STAGES
<1>9. ClaimCurrent'
  <2>1. ASSUME held \notin raced, NEW i \in 1..8, i < at
        PROVE  memory'[STAGE_NAMES[i]] \in Settled
    <3>1. memory[STAGE_NAMES[i]] \in Settled
      BY <1>1, <1>2, <2>1, LoopFacts
    <3>2. STAGE_NAMES[i] = "moments" => ~Invalidates(Current)
      BY <1>1, <2>1, StagePositions DEF Current, Invalidates
    <3>3. QED
      BY <1>2, <2>1, <3>1, <3>2, StagePositions
  <2>2. held \notin raced => memory'[Current] \notin Settled /\ stage'[held][Current] = "running"
    BY <1>1, <1>2, <1>4, <1>6
  <2>3. QED
    BY <1>1, <1>2, <1>6, <1>8, <2>1, <2>2 DEF ClaimCurrent, InLoop, InStage
<1>10. ASSUME held \notin raced' PROVE JobInv(held)'
  <2>1. held \notin raced
    BY <1>2, <1>10
  <2>2. \A s \in Stages : stage'[held][s] \in Settled => stage'[held][s] = stage[held][s]
    BY <1>2 DEF Settled
  <2>3. VideoCurrent(held)'
    <3> SUFFICES ASSUME NEW s \in VIDEO_ONLY_STAGES
                 PROVE  /\ stage'[held][s] = "done" => s \in videoRows'[held] /\ drop[held].rec
                        /\ stage'[held][s] = "skipped" => s \notin videoRows'[held] /\ ~drop[held].rec
      BY <1>2 DEF VideoCurrent
    <3>1. s \in Stages /\ s # "moments"
      BY StagePositions DEF VIDEO_ONLY_STAGES
    <3>2. /\ stage[held][s] = "done" => s \in videoRows[held] /\ drop[held].rec
          /\ stage[held][s] = "skipped" => s \notin videoRows[held] /\ ~drop[held].rec
      BY <1>6, <2>1 DEF JobInv, CheckpointsSound, VideoCurrent
    <3>3. QED
      BY <1>2, <1>3, <1>6, <2>1, <3>1, <3>2
  <2>4. stage'[held]["align"] = "done" => SegmentsCurrent(held)'
    <3>1. SUFFICES ASSUME stage'[held]["align"] = "done" PROVE SegmentsCurrent(held)'
      OBVIOUS
    <3>2. stage[held]["align"] = "done"
      BY <1>2, <3>1, StagePositions
    <3>3. ~(at < 6) /\ Current # "align"
      BY <1>1, <1>6, <1>7, <2>1, <3>2, StagePositions DEF Settled
    <3>4. Current \notin VIDEO_ONLY_STAGES
      BY <1>1, <3>3, StagePositions DEF Current
    <3>5. videoRows'[held] = videoRows[held] /\ segments'[held] = segments[held]
      BY <1>3, <3>3, <3>4
    <3>6. QED
      BY <1>2, <1>6, <2>1, <3>2, <3>5 DEF JobInv, CheckpointsSound, SegmentsCurrent
  <2>5. stage'[held]["moments"] = "done" => MomentsCurrent(held)'
    <3>1. SUFFICES ASSUME stage'[held]["moments"] = "done" PROVE MomentsCurrent(held)'
      OBVIOUS
    <3>2. stage[held]["moments"] = "done" /\ ~Invalidates(Current)
      BY <1>2, <3>1, StagePositions
    <3>3. ~(at < 7) /\ Current # "moments"
      BY <1>1, <1>6, <1>7, <2>1, <3>2, StagePositions DEF Settled
    <3>4. Current \notin VIDEO_ONLY_STAGES /\ Current # "align"
      BY <1>1, <3>2, <3>3, StagePositions DEF Current, Invalidates
    <3>5. videoRows'[held] = videoRows[held] /\ segments'[held] = segments[held]
          /\ moments'[held] = moments[held]
      BY <1>3, <3>3, <3>4
    <3>6. QED
      BY <1>2, <1>6, <2>1, <3>2, <3>5 DEF JobInv, CheckpointsSound, MomentsCurrent
  <2>6. stage'[held]["extract"] = "done" => artifacts'[held] = names'[held]
    BY <1>2, <1>3, <1>6, <2>1, StagePositions DEF JobInv, CheckpointsSound
  <2>7. PrefixSettled(held)'
    <3> SUFFICES ASSUME NEW i \in 1..8, NEW n \in 1..8, i < n,
                        stage'[held][STAGE_NAMES[n]] \in Settled, n <= 7 \/ held \in seeded
                 PROVE  stage'[held][STAGE_NAMES[i]] \in Settled
      BY <1>2 DEF PrefixSettled
    <3>1. stage[held][STAGE_NAMES[n]] \in Settled
      BY <2>2, StagePositions
    <3>2. \A m \in 1..8 : m < n => stage[held][STAGE_NAMES[m]] \in Settled
      BY <1>6, <2>1, <3>1 DEF JobInv, PrefixSettled
    <3>3. ~(at <= n)
      <4>1. n # at
        BY <1>1, <1>6, <2>1, <3>1 DEF Current, Settled
      <4>2. ~(at < n)
        BY <1>1, <1>6, <2>1, <3>2 DEF Current, Settled
      <4>3. QED
        BY <1>1, <4>1, <4>2
    <3>4. ~(Invalidates(Current) /\ STAGE_NAMES[i] = "moments")
      BY <1>1, <3>3, StagePositions DEF Current, Invalidates
    <3>5. QED
      BY <1>2, <3>2, <3>4, StagePositions
  <2>8. RecordingHeld(held)' /\ DoneIsComplete(held)'
    BY <1>2, <1>3, <1>6, <2>1 DEF JobInv, RecordingHeld, DoneIsComplete
  <2>9. QED
    BY <1>2, <2>3, <2>4, <2>5, <2>6, <2>7, <2>8 DEF JobInv, CheckpointsSound
<1>11. ASSUME NEW k \in Jobs \ raced' PROVE JobInv(k)'
  <2>1. k \in Jobs \ raced /\ held' = held
    BY <1>2
  <2>2. CASE k = held
    BY <1>10, <1>2, <2>1, <2>2
  <2>3. CASE k # held
    <3>1. JobInv(k)
      BY <2>1 DEF IInv
    <3>2. QED
      BY <1>1, <1>2, <2>1, <2>3, <3>1, OthersFramed
  <2>4. QED
    BY <2>2, <2>3
<1>12. QED
  BY <1>5, <1>9, <1>11

LEMMA CheckpointStep ==
  ASSUME IInv, CheckpointStage
  PROVE  /\ MemoryAgrees' /\ ClaimCurrent'
         /\ \A j \in Jobs \ raced' : JobInv(j)'
<1>1. held \in Jobs /\ at \in 1..8 /\ Current \in Stages
  BY StagePositions DEF IInv, CheckpointStage, WorkerShape, InStage, TypeOK, Current
<1>2. /\ \A s \in Stages : stage'[held][s] = IF s = Current THEN "done" ELSE stage[held][s]
      /\ \A s \in Stages : memory'[s] = IF s = Current THEN "done" ELSE memory[s]
      /\ UNCHANGED <<status, drop, minted, recorded, names, videoRows, segments, moments,
                     artifacts, held, heldDrop, seeded, raced>>
      /\ pc = "committed" /\ pc' = "loop" /\ at' = at + 1
  BY <1>1 DEF IInv, TypeOK, CheckpointStage, RememberedDone, evidence, NextStage
<1>3. MemoryAgrees'
  BY <1>2 DEF IInv, MemoryAgrees
<1>4. ClaimCurrent'
  <2>1. ASSUME NEW i \in 1..8, i < at', held \notin raced PROVE memory'[STAGE_NAMES[i]] \in Settled
    <3>1. STAGE_NAMES[i] \in Stages /\ (i < at \/ STAGE_NAMES[i] = Current)
      BY <1>1, <1>2, <2>1, StagePositions DEF Current
    <3>2. QED
      BY <3>1, <2>1, <1>1, <1>2, LoopFacts DEF Settled
  <2>2. QED
    BY <2>1, <1>1, <1>2, LoopFacts DEF ClaimCurrent, InLoop, InStage
<1>5. ASSUME held \notin raced' PROVE JobInv(held)'
  <2>1. /\ JobInv(held) /\ heldDrop = drop[held] /\ status[held] = "running"
        /\ CommittedRows(held, Current)
        /\ Current \in VIDEO_ONLY_STAGES => heldDrop.rec
    BY <1>1, <1>2, <1>5, LoopFacts, JobsAssumption DEF IInv, ClaimCurrent, InStage
  <2>2. CheckpointsSound(held)'
    BY <1>1, <1>2, <2>1, StagePositions DEF JobInv, CheckpointsSound, VideoCurrent,
       SegmentsCurrent, MomentsCurrent, VIDEO_ONLY_STAGES, CommittedRows
  <2>3. PrefixSettled(held)'
    BY <1>1, <1>2, <1>5, SettledPrefix DEF CheckpointStage, Settled, PrefixSettled
  <2>4. RecordingHeld(held)' /\ DoneIsComplete(held)'
    BY <1>2, <2>1 DEF JobInv, RecordingHeld, DoneIsComplete
  <2>5. QED
    BY <2>2, <2>3, <2>4 DEF JobInv
<1>6. QED
  BY <1>1, <1>2, <1>3, <1>4, <1>5, OthersFramed DEF IInv

-----------------------------------------------------------------------------
LEMMA StutterStep ==
  ASSUME IInv, IdlePoll \/ UNCHANGED vars
  PROVE  /\ MemoryAgrees' /\ ClaimCurrent'
         /\ \A j \in Jobs \ raced' : JobInv(j)'
<1>1. UNCHANGED vars
  BY DEF IdlePoll
<1>2. MemoryAgrees' /\ ClaimCurrent'
  BY <1>1, HeldFrame DEF vars, HeldFramed, worker, IInv
<1>3. ASSUME NEW k \in Jobs \ raced' PROVE JobInv(k)'
  BY <1>1, <1>3, JobFrame DEF IInv, Framed, vars
<1>4. QED
  BY <1>2, <1>3

LEMMA NextIInv == IInv /\ [Next]_vars => IInv'
<1> SUFFICES ASSUME IInv, [Next]_vars PROVE IInv'
  OBVIOUS
<1>1. TypeOK' /\ WorkerShape'
  BY NextTypeOK, NextShape DEF IInv
<1>2. /\ MemoryAgrees' /\ ClaimCurrent'
      /\ \A j \in Jobs \ raced' : JobInv(j)'
  BY IntakeStep, ClaimStep, ReleaseStep, MintStep, CleanUpStep, ReadStep, ResumeStep, SkipStep, StartStep,
     CommitStep, CheckpointStep, StutterStep DEF Next, Progress, Failure
<1>3. QED
  BY <1>1, <1>2 DEF IInv

THEOREM Inductive == Spec => []IInv
BY InitIInv, NextIInv, PTL DEF Spec

\* Settled checkpoints cover current rows, for any number of occurrences, of
\* drops, of assignments and of crashes, outside jobs re-armed on a stale premise.
THEOREM CheckpointsAreSound == Spec => []CheckpointSoundness
<1>1. IInv => CheckpointSoundness
  BY DEF IInv, JobInv, CheckpointSoundness
<1>2. QED
  BY <1>1, Inductive, PTL

\* A job ends done only with every stage settled, outside those same jobs.
THEOREM DoneJobsAreSettled == Spec => []DoneOnlyWhenSettled
<1>1. IInv => DoneOnlyWhenSettled
  BY DEF IInv, JobInv, DoneOnlyWhenSettled
<1>2. QED
  BY <1>1, Inductive, PTL

\* The worker's once-read copy of the stage rows never goes stale by itself.
THEOREM WorkerMemoryAgrees == Spec => []MemoryAgrees
<1>1. IInv => MemoryAgrees
  BY DEF IInv
<1>2. QED
  BY <1>1, Inductive, PTL

\* The out-of-order signal never fires on a first ingest.
THEOREM FirstIngestsInOrder == Spec => []FirstIngestInOrder
<1>1. IInv => FirstIngestInOrder
  <2> SUFFICES ASSUME IInv, NEW j \in seeded \ raced, NEW i \in 1..8, NEW k \in 1..8, i < k,
                      stage[j][STAGE_NAMES[i]] \notin Settled, stage[j][STAGE_NAMES[k]] = "done"
               PROVE  FALSE
    BY DEF FirstIngestInOrder, AugmentationInFlight
  <2>1. PrefixSettled(j) /\ j \in seeded
    BY DEF IInv, TypeOK, JobInv
  <2>2. QED
    BY <2>1 DEF PrefixSettled, Settled
<1>2. QED
  BY <1>1, Inductive, PTL

\* A meeting keeps its recording unless its job was re-armed on a stale premise.
THEOREM RecordingsKept == Spec => RecordingKept
<1>1. IInv /\ [Next]_vars => [\A j \in recorded : j \in recorded' \/ j \in raced']_vars
  <2> SUFFICES ASSUME IInv, [Next]_vars, NEW j \in recorded, j \notin recorded'
               PROVE  j \in raced'
    OBVIOUS
  <2>1. MintMeeting
    BY DEF Next, Intake, Progress, Failure, CreateJob, RetryCheck, RetryCommit, Augment,
       AssignSpeaker, WorkerStart, ClaimJob, IdlePoll, CleanUp, ReadStages, ResumeStage, SkipStage,
       StartStage, CommitStage, CheckpointStage, FinishJob, FailClaim, FailStage, Crash,
       LoseConnection, tables, vars
  <2>2. j = held /\ ~heldDrop.rec /\ held \in Jobs /\ raced' = raced
    BY <2>1 DEF MintMeeting, IInv, TypeOK
  <2>3. held \notin raced => heldDrop = drop[held]
    BY <2>2, JobsAssumption DEF IInv, ClaimCurrent
  <2>4. held \notin raced => (held \in recorded => drop[held].rec)
    BY <2>2 DEF IInv, JobInv, RecordingHeld
  <2>5. QED
    BY <2>2, <2>3, <2>4
<1>2. QED
  BY <1>1, Inductive, PTL DEF Spec, RecordingKept
\* A running job is the one the worker is inside, unless the worker is down or a
\* lost connection left it so: nothing but a claim sets the status.
THEOREM RunningJobsAreHeld == Spec => []RunningIsHeld
<1>1. Init => RunningIsHeld
  BY DEF Init, RunningIsHeld
<1>2. IInv /\ RunningIsHeld /\ [Next]_vars => RunningIsHeld'
  <2> SUFFICES ASSUME IInv, RunningIsHeld, [Next]_vars PROVE RunningIsHeld'
    OBVIOUS
  <2>0. TypeOK /\ WorkerShape
    BY DEF IInv
  <2> USE <2>0 DEF RunningIsHeld
  <2>1. CASE Intake
    BY <2>1 DEF TypeOK, Intake, CreateJob, RetryCheck, RetryCommit, Augment, AssignSpeaker, tables, worker
  <2>2. CASE WorkerStart
    BY <2>2 DEF TypeOK, WorkerStart, RequeuedOrphans
  <2>3. ASSUME NEW j \in Jobs, ClaimJob(j) PROVE RunningIsHeld'
    BY <2>3, JobsAssumption DEF TypeOK, WorkerShape, ClaimJob
  <2>4. CASE \/ MintMeeting \/ CleanUp \/ ReadStages \/ ResumeStage \/ SkipStage \/ StartStage
             \/ CommitStage \/ CheckpointStage \/ IdlePoll \/ UNCHANGED vars
    BY <2>4 DEF MintMeeting, CleanUp, ReadStages, ResumeStage, SkipStage, StartStage, CommitStage,
       CheckpointStage, IdlePoll, tables, vars
  <2>5. CASE FinishJob \/ FailClaim \/ FailStage
    BY <2>5 DEF TypeOK, FinishJob, FailClaim, FailStage, Release
  <2>6. CASE Crash
    BY <2>6 DEF Crash
  <2>7. CASE LoseConnection
    BY <2>7 DEF TypeOK, WorkerShape, LoseConnection, Release
  <2>q. QED
    BY <2>1, <2>2, <2>3, <2>4, <2>5, <2>6, <2>7 DEF Next, Progress, Failure
<1>q. QED
  BY <1>1, <1>2, Inductive, PTL DEF Spec
=============================================================================
