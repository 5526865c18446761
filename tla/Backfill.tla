------------------------------ MODULE Backfill ------------------------------
(***************************************************************************)
(* The backfill command: jobs recorded before paths were relative to the   *)
(* drops root are anchored to it, with their transcripts and recording, in *)
(* one transaction that locks one job after another.  Meanwhile the worker *)
(* claims jobs, failing those it finds without an anchor, and rewrites the *)
(* rows below one; and intake may re-arm one onto a sibling drop.          *)
(***************************************************************************)
EXTENDS Naturals, Sequences, FiniteSets

CONSTANTS Jobs, Drops,
          SourceOf,          \* each job's source, and each drop's: an unusable one is nobody's
          Augments,          \* the source a drop declares that it adds to, or None
          TranscriptIn, RecordingIn, \* the bytes a drop holds, or None
          Bytes, SizeOf, Sizes, Unknown,
          Outside, None,     \* a legacy path not under the root; no drop, no bytes
          MaxRearms, MaxRuns \* bounds

Placed ==
  /\ None \notin Jobs \union Drops \union Bytes   \* where a drop lies is not the absence of one
  /\ TranscriptIn \in [Drops -> Bytes \union {None}] /\ RecordingIn \in [Drops -> Bytes \union {None}]

VARIABLES job,     \* [status, error, legacy: the absolute path, anchor: the relative one]
          below,   \* what hangs off a job: its meeting, its rows, its unsettled stages
          hand,    \* the job the worker has, the drop it claimed it with, what it has yet to run
          run,     \* the command, and what its transaction has written
          told, rearms, runs
vars == <<job, below, hand, run, told, rearms, runs>>

TooEarly == "no drops-root-relative path"
NoRow == [there |-> FALSE, at |-> None, was |-> None, size |-> Unknown]
RowOf(in, d) == [there |-> TRUE, at |-> d, was |-> in[d], size |-> SizeOf[in[d]]]
Stages == {"probe", "align"}
Idle == [job |-> None, drop |-> None, step |-> "claimed", due |-> {}]
NotRunning == [at |-> "idle", todo |-> {}, locked |-> {}, quiet |-> {}, dry |-> FALSE, problems |-> FALSE,
               job |-> <<>>, rows |-> <<>>, wrote |-> {}]

\* Rows from before have a bare name or no path; others an earlier run has widened, or a
\* stage has written, and the bytes may since have changed.
Recorded(d) == {[there |-> TRUE, at |-> d, was |-> bytes, size |-> SizeOf[bytes]] : bytes \in Bytes}
Transcripts(j) == {NoRow} \union UNION {Recorded(d) : d \in {None} \union {e \in Drops : SourceOf[e] = SourceOf[j]}}
Recordings(j) ==
  {NoRow} \union [there : {TRUE}, at : {None}, was : {None}, size : Sizes \union {Unknown}]
          \union UNION {Recorded(d) : d \in {e \in Drops : SourceOf[e] = SourceOf[j]}}
Unsettled(j) ==
  {b \in [minted : BOOLEAN, claimed : BOOLEAN, due : {{}, {"align"}, Stages}, transcript : Transcripts(j), media : Recordings(j)] :
     /\ ~b.minted => ~b.claimed /\ b.due = Stages /\ b.transcript = NoRow
     /\ b.media.there => b.claimed
     /\ b.claimed /\ "probe" \notin b.due => b.media.there}
Init ==
  /\ job \in [Jobs -> [status : {"queued", "failed", "done"}, error : {"none", "ffprobe"},
                       legacy : Drops \union {Outside, None}, anchor : Drops \union {None}]]
  /\ below \in {b \in [Jobs -> UNION {Unsettled(j) : j \in Jobs}] : \A j \in Jobs : b[j] \in Unsettled(j)}
  /\ \A j \in Jobs : /\ (job[j].status = "failed") = (job[j].error # "none")
                     /\ (job[j].anchor = None) = (job[j].legacy # None)
                     /\ job[j].anchor # None => SourceOf[job[j].anchor] = SourceOf[j]
                     /\ job[j].status = "done" => below[j].minted /\ below[j].due = {}
  /\ hand = Idle /\ run = NotRunning /\ told = "nothing yet" /\ rearms = 0 /\ runs = 0

-----------------------------------------------------------------------------
(* The worker, which updates no job and no row that a transaction has.     *)

Locked(j) == j \in run.locked
Held(j, row) == <<j, row>> \in run.wrote
ClaimJob ==
  /\ hand = Idle
  /\ \E j \in Jobs :
       /\ job[j].status = "queued" /\ ~Locked(j)
       /\ job' = [job EXCEPT ![j].status = "running", ![j].error = "none"]
       /\ hand' = [Idle EXCEPT !.job = j, !.drop = job[j].anchor]
  /\ UNCHANGED <<below, run, told, rearms, runs>>

\* What was claimed without an anchor fails, in a transaction of its own.
ResolveDropOrFail ==
  /\ hand.job # None /\ hand.drop = None /\ ~Locked(hand.job)
  /\ job' = [job EXCEPT ![hand.job].status = "failed", ![hand.job].error = TooEarly]
  /\ hand' = Idle /\ UNCHANGED <<below, run, told, rearms, runs>>

\* The first meeting of a job refers to it, and so waits for its lock.
MintMeeting ==
  /\ hand.drop # None /\ hand.step = "claimed" /\ (Locked(hand.job) => below[hand.job].minted)
  /\ below' = [below EXCEPT ![hand.job].minted = TRUE, ![hand.job].claimed = RecordingIn[hand.drop] # None]
  /\ hand' = [hand EXCEPT !.step = "minted"] /\ UNCHANGED <<job, run, told, rearms, runs>>

\* A drop without a recording leaves none behind; then the stages are read, once.
ReadStages ==
  /\ hand.drop # None /\ hand.step = "minted"
  /\ \E again \in SUBSET {"align"} :
       LET j == hand.job
           cleared == [below[j] EXCEPT !.media = NoRow, !.due = (@ \ {"probe"}) \union again]
       IN /\ IF RecordingIn[hand.drop] # None THEN again = {} /\ UNCHANGED below
             ELSE ~Held(j, "media") /\ below' = [below EXCEPT ![j] = cleared]
          /\ hand' = [hand EXCEPT !.step = "staged", !.due = below'[j].due]
  /\ UNCHANGED <<job, run, told, rearms, runs>>

Settles(stage) == hand' = [hand EXCEPT !.due = @ \ {stage}] /\ UNCHANGED <<job, run, told, rearms, runs>>
Probe ==
  /\ hand.step = "staged" /\ "probe" \in hand.due /\ RecordingIn[hand.drop] # None /\ ~Held(hand.job, "media")
  /\ LET media == below[hand.job].media IN media.at = hand.drop => media.was = RecordingIn[hand.drop]
  /\ below' = [below EXCEPT ![hand.job].media = RowOf(RecordingIn, hand.drop), ![hand.job].due = @ \ {"probe"}]
  /\ Settles("probe")
Align ==
  /\ hand.step = "staged" /\ "align" \in hand.due /\ "probe" \notin hand.due /\ ~Held(hand.job, "transcript")
  /\ below' = [below EXCEPT ![hand.job].due = @ \ {"align"},
       ![hand.job].transcript = IF TranscriptIn[hand.drop] = None THEN NoRow ELSE RowOf(TranscriptIn, hand.drop)]
  /\ Settles("align")

\* A job fails on its own account, or is done with its stages.
Settle ==
  /\ hand.drop # None /\ ~Locked(hand.job)
  /\ \/ job' = [job EXCEPT ![hand.job].status = "failed", ![hand.job].error = "ffprobe"]
     \/ hand.step = "staged" /\ hand.due = {} /\ job' = [job EXCEPT ![hand.job].status = "done", ![hand.job].error = "none"]
  /\ hand' = Idle /\ UNCHANGED <<below, run, told, rearms, runs>>
WorkerDies == hand # Idle /\ hand' = Idle /\ UNCHANGED <<job, below, run, told, rearms, runs>>
RequeueOrphanedJobs ==
  /\ hand = Idle
  /\ LET orphans == {j \in Jobs : job[j].status = "running"} IN
       /\ orphans # {} /\ \A j \in orphans : ~Locked(j)
       /\ job' = [j \in Jobs |-> IF j \in orphans THEN [job[j] EXCEPT !.status = "queued", !.error = "none"] ELSE job[j]]
  /\ UNCHANGED <<below, hand, run, told, rearms, runs>>

-----------------------------------------------------------------------------
(* Intake and a curator put a job back, while no transaction has it.       *)

\* What has a meeting keeps its transcripts and its recording, as its own drop shows them.
Replaces(j, d) ==
  /\ job[j].anchor # None
  /\ TranscriptIn[job[j].anchor] # None => TranscriptIn[d] # None
  /\ below[j].claimed => RecordingIn[d] # None /\ RecordingIn[d] = RecordingIn[job[j].anchor]
Put(j, anchor, due) ==
  /\ rearms < MaxRearms /\ rearms' = rearms + 1 /\ ~Locked(j)
  /\ job' = [job EXCEPT ![j] = [status |-> "queued", error |-> "none", anchor |-> anchor,
                                legacy |-> IF anchor = None THEN job[j].legacy ELSE None]]
  /\ below' = [below EXCEPT ![j].due = due] /\ UNCHANGED <<hand, run, told, runs>>
Retry ==
  \E j \in Jobs, d \in Drops :
    /\ job[j].status = "failed" /\ SourceOf[d] = SourceOf[j] /\ (below[j].minted => Replaces(j, d))
    /\ Put(j, d, Stages)
AcceptAugmentingDrop ==
  \E j \in Jobs, d \in Drops :
    /\ job[j].status # "failed" /\ Augments[d] = SourceOf[j]
    /\ below[j].minted /\ below[j].due = {} /\ Replaces(j, d)
    /\ Put(j, d, IF RecordingIn[d] # None /\ ~below[j].claimed THEN Stages ELSE {"align"})
AssignSpeaker ==
  \E j \in Jobs :
    /\ job[j].status # "running" /\ below[j].minted
    /\ Put(j, job[j].anchor, below[j].due \union {"align"})

-----------------------------------------------------------------------------
(* The command.                                                            *)

\* Identities only: each row is read once it is locked.
BackfillDropPaths ==
  /\ run.at = "idle" /\ runs < MaxRuns /\ runs' = runs + 1
  /\ \E dry \in BOOLEAN :
       run' = [NotRunning EXCEPT !.at = "walking", !.todo = Jobs, !.dry = dry, !.job = job,
                 !.rows = [j \in Jobs |-> [transcript |-> NoRow, media |-> NoRow]]]
  /\ told' = "running" /\ UNCHANGED <<job, below, hand, rearms>>

Fits(j, d) == d # Outside /\ SourceOf[d] = SourceOf[j]
AtTheJobs(row, d) == d
\* A row is judged where it says it lies, and only a row that does not say at the job's drop.
Path(row, d) == IF row.at = None THEN d ELSE row.at
Matches(row, bytes) == row.was = bytes /\ row.size = SizeOf[bytes]
TranscriptRefused(row, d) ==
  LET bytes == TranscriptIn[Path(row, d)] IN bytes = None \/ ~Matches(row, bytes)
\* A recording that was never anchored has no digest to differ from, only a size.
MediaRefused(row, d) ==
  LET bytes == RecordingIn[Path(row, d)]
  IN \/ ~row.there \/ bytes = None
     \/ IF row.at = None THEN row.size \notin {Unknown, SizeOf[bytes]} ELSE ~Matches(row, bytes)

\* What a visit makes of the rows of a job, each for itself.
Widened(row, d) == [row EXCEPT !.at = Path(row, d)]
Anchored(row, d) == RowOf(RecordingIn, Path(row, d))
\* Only the failure it repairs goes back, and only with every row below it sound.
Requeued(row) == IF row.status = "failed" /\ row.error = TooEarly THEN [row EXCEPT !.status = "queued", !.error = "none"] ELSE row
Visit ==
  /\ run.at = "walking"
  /\ \E j \in run.todo :
       LET kept == job[j]
           drop == IF kept.anchor # None THEN kept.anchor ELSE kept.legacy
           transcript == below[j].transcript
           media == below[j].media
           unfit == transcript.there /\ TranscriptRefused(transcript, drop)
           unread == below[j].claimed /\ MediaRefused(media, drop)
           text == IF transcript.there /\ ~unfit THEN Widened(transcript, drop) ELSE transcript
           film == IF below[j].claimed /\ ~unread THEN Anchored(media, drop) ELSE media
           visited == [run EXCEPT !.todo = @ \ {j}, !.locked = @ \union {j}, !.job[j] = kept,
                                  !.quiet = IF hand.job = j THEN @ ELSE @ \union {j}]
       IN IF ~Fits(j, drop) THEN run' = [visited EXCEPT !.problems = TRUE]
          ELSE run' = [visited EXCEPT !.problems = @ \/ unfit \/ unread,
                 !.rows[j] = [transcript |-> text, media |-> film],
                 !.wrote = IF run.dry THEN @
                           ELSE @ \union {<<j, row>> : row \in {r \in {"transcript"} : text # transcript} \union {r \in {"media"} : film # media}},
                 !.job[j] = IF kept.anchor = None /\ ~unfit /\ ~unread
                            THEN Requeued([kept EXCEPT !.anchor = drop, !.legacy = None]) ELSE kept]
  /\ UNCHANGED <<job, below, hand, told, rearms, runs>>

Commit ==
  /\ run.at = "walking" /\ run.todo = {}
  /\ told' = IF run.problems THEN "unplaceable rows" ELSE IF run.dry THEN "dry run clean" ELSE "clean"
  /\ IF run.dry THEN UNCHANGED <<job, below>>
     ELSE /\ job' = [j \in Jobs |-> IF Locked(j) THEN run.job[j] ELSE job[j]]
          /\ below' = [j \in Jobs |-> [below[j] EXCEPT
               !.transcript = IF Held(j, "transcript") THEN run.rows[j].transcript ELSE @,
               !.media = IF Held(j, "media") THEN run.rows[j].media ELSE @]]
  /\ run' = NotRunning /\ UNCHANGED <<hand, rearms, runs>>
Dies == run.at = "walking" /\ run' = NotRunning /\ told' = "died" /\ UNCHANGED <<job, below, hand, rearms, runs>>

Next ==
  \/ ClaimJob \/ ResolveDropOrFail \/ MintMeeting \/ ReadStages \/ Probe \/ Align \/ Settle \/ WorkerDies \/ RequeueOrphanedJobs
  \/ Retry \/ AcceptAugmentingDrop \/ AssignSpeaker \/ BackfillDropPaths \/ Visit \/ Commit \/ Dies
Spec == Init /\ [][Next]_vars

-----------------------------------------------------------------------------
\* Where it lies, a row's file has the bytes it was recorded with.
Sound(in, row) == row.at # None /\ in[row.at] # None /\ Matches(row, in[row.at])
\* What a row already tells of its file stays: its path, or without one its digest and size.
FilledIn(row, then) ==
  \/ then = row
  \/ /\ row.at = None /\ then.there = row.there
     /\ row.was # None => then.was = row.was
     /\ row.size # Unknown => then.size = row.size
\* A clean report means there is nothing left for a human: every job is anchored, on a drop
\* of its own source; and under each that no worker had when it was visited, a transcript or
\* a recording that is claimed has a row, which says where it lies, and there it lies as it
\* was recorded.  No commit moves a job off the drop it was re-armed onto meanwhile, queues
\* again one that failed for a reason of its own, or rewrites what a row had recorded.
CleanMeansConverted ==
  run.at = "walking" /\ run'.at = "idle" =>
    /\ told' = "clean" =>
         /\ \A j \in Jobs : job'[j].anchor # None /\ SourceOf[job'[j].anchor] = SourceOf[j]
         /\ \A j \in run.quiet : /\ below'[j].transcript.there => Sound(TranscriptIn, below'[j].transcript)
                                 /\ below'[j].claimed => below'[j].media.there /\ Sound(RecordingIn, below'[j].media)
    /\ \A j \in Jobs :
         /\ job[j].anchor # None => job'[j] = job[j]
         /\ job'[j].status # job[j].status => job[j].error = TooEarly /\ job'[j].anchor # None
         /\ FilledIn(below[j].transcript, below'[j].transcript) /\ FilledIn(below[j].media, below'[j].media)
CleanReportMeansConverted == [][CleanMeansConverted]_vars
=============================================================================
