# MeetingMiner in TLA+

MeetingMiner ingests recorded meetings (a *source drop*: `metadata.json` plus a
recording and/or transcripts), runs a checkpointed pipeline over each one,
derives *moments* and *artifacts* from it, and serves search, chat and a
knowledge graph over the result.  This directory holds TLA+ modules for the
parts of it whose correctness depends on order, concurrency, failure or an
intricate algorithm, the TLC configurations that check them, and
machine-checked proofs.  Paths below are relative to the repository root, `S/`
stands for `server/meetingminer/`.

## 1. The system

### 1.1 Processes and shared state

| Process | Started by | Writes |
|---|---|---|
| api (FastAPI, many requests at once) | `make up` | job, job_stage (intake, re-arm), participant_alias, artifact.state, app_setting, upload sessions, published files |
| worker (exactly one, Postgres advisory lock, AD-9) | `make up` | job, job_stage, meeting, every evidence table, content root, projections |
| acquisition runner (one detached process per acquisition) | api | status files, drops, POST /ingests |
| mint-drop, youtube-drop, rebuild, prune, backfill, derive-threads, digest | operator | drops; projections; deletions; drop paths; threads |
| `infra/worktree_stack.py`, one process per make target | operator | `.env.worktree`, git checkouts, compose projects |
| Teams puller (Node) | operator | drops, POST /ingests |
| web client (React) | browser | nothing but api calls |

Shared state: Postgres (the system of record), the content root (media the
pipeline writes), the drops root (write-once input), the publish root (a git
work tree of ADRs), and two rebuildable projections (Neo4j, Meilisearch).

### 1.2 Components, their state and what makes them correct

| Component | State | Operations | What must hold |
|---|---|---|---|
| Intake (`S/api/ingests.py`) | job, job_stage | create, retry of a failed job, declared augmentation | one live job per occurrence; a replacement never erases evidence; accepted evidence is processed |
| Stage vocabulary (`S/domain/jobs.py`) | none | which stages an augmentation or an assignment re-runs | every re-armed set is closed under "reads what another stage rewrote" |
| Worker and runner (`S/worker`, `S/pipeline/runner.py`) | job.status, job_stage.status, its own copy of them | startup recovery, claim, mint, clean-up, stage loop, failure | a settled checkpoint covers current rows; a job is done only when settled; queued jobs settle |
| Output directories (`S/pipeline/outputs.py`) | target, backup and staging directories of one stage | open, publish, restore, discard, drop backup, remove | a settled stage's files are the ones its rows name; a failed rerun loses nothing |
| Stages (`S/pipeline/stages`) | evidence tables | probe, frames, ocr, screens, transcribe, align, moments, extract | idempotent per meeting; ids survive a rerun; approved work is never overwritten |
| Extraction (`S/pipeline/extraction.py`) | none (pure), the kept document | parse, adopt, generate, retain | no item lost, doubled or made up; rows stand on the kept text |
| Alignment and screens (`S/pipeline/alignment.py`, `screens.py`) | none (pure), screen rows | anchor turns, end times, captures, screen identity | each turn gets the best of its own window; a view that stands still is stored; a rerun finds its rows |
| Artifact lifecycle (`S/api/moments.py`, `S/publish`) | artifact.state, publish root | approve, publish, remove | one-way lifecycle; published file and row agree; nothing human-approved is re-proposed |
| Projection (`S/projections`) | meeting_projection, Neo4j, Meilisearch | project, embed, invalidate, rebuild, unproject, publish | a state row never vouches for stale documents; nothing unpublished is projected |
| Curation (`S/api/speakers.py`, `S/api/participants.py`) | participant_alias, participant | assign a speaker, rename, merge two participants | whoever a label names was chosen or is the only one who fits; merges outlive reruns |
| Acquisition (`S/acquisitions.py`, `S/youtube.py`) | status files, claims | start, run, finish, reap | one live acquisition per source; a dead runner is noticed |
| Uploads (`S/uploads.py`) | session directories | create, receive, finish, sweep, discard | a session that can be named is whole; a sweep spares what is in use |
| Drop minting (`S/mintdrop.py`, `S/youtube.py`) | staging and drop directories, lock shards | stage, verify, rename, post | one drop per identity with the bytes it declares; success is earned |
| Threads (`S/domain/threads.py`, `S/api/threads.py`) | thread, thread_topic | derive; timeline, trace | a thread is one subject and keeps its id; one answer is of one state |
| Chat (`S/api/chat.py`, `citations.py`) | one request | route, retrieve, prompt, complete, gate | an answer cites live moments the model was shown; nobody but the bound model answers |
| Search and feed (`S/projections/query.py`, `S/api/moments_feed.py`) | none | page, rank | pages neither repeat nor skip; what is counted is served |
| Live job events (`S/api/events.py`, `web/src`) | last snapshot per stream; the list shown | poll, diff, emit, apply | a row plus its events is the row that was read |
| Model selection, status (`S/domain/model_selection.py`, `S/api/status.py`) | app_setting, probe cache | resolve, choose, report | an answer claims only what was read |
| Prune, backfill (`S/prune`, `S/backfill.py`) | deletions; drop paths | plan, delete; anchor | a purge takes only its own; a clean report means nothing is left to do |
| Worktree stacks (`infra/worktree_stack.py`) | .env.worktree, compose projects | provision, claim, remove, prune | no two checkouts share ports; only its own checkout tears a live stack down |

### 1.3 What is hard here

The stage loop works from a *copy* of the stage rows, its commits and its
checkpoints are separate transactions, and the api may re-arm the same job
between any two of them.  A crash keeps checkpoints and re-runs whatever was
between a commit and its checkpoint.  Output directories and rows are replaced
by two different mechanisms with a crash point between each pair of steps.
Human approval races the extraction that would delete the draft being approved.
Projections are rebuilt while the worker projects, under two locks of different
scope.  The api starts detached processes and shares files with them that
neither outlives cleanly.  Producers, sweeps, purges and worktree commands are
short-lived processes that meet only in the file system and under lock files.
Answers are assembled from several reads, minutes of model latency apart, of
rows that are superseded and purged meanwhile.  And several pure algorithms --
the document parser, the citation gate, the capture segmentation, the pages of a
blended search -- carry state from line to line or frame to frame that decides
what is lost or doubled.  `PROJECT.json` lists each of these hazards at the line
where it bites.

## 2. Modules

| Module | Models | Proved in | Checked by |
|---|---|---|---|
| `IngestJobs` | job and job_stage, intake, speaker assignment, the worker's loop | `IngestJobs_proofs` | `MC_Ingest` |
| `OutputDirs` | the swap of one stage's output directory, call by call | `OutputDirs_proofs` | `MC_OutputDirs` |
| `Artifacts` | moments, drafts, approval, publish root, of one meeting | `Artifacts_proofs` | `MC_Artifacts` |
| `ArtifactLifecycle` | what an artifact's history promises a reader, abstractly | `Artifacts_proofs` (refinement) | through `Artifacts` |
| `Acquisitions` | status files, upload sessions, the claim lock, detached processes | `Acquisitions_proofs` | `MC_Acquisitions` |
| `Projection` | the two stores, meeting_projection, the worker, rebuilds and approvals that write them | `Projection_proofs` | `MC_Projection` |
| `MintDrop`, `VideoInfo` | the two producers of drops; what they make of metadata | `Arrivals_proofs` | `MC_Keeping` |
| `Uploads` | a multipart body becoming an upload session; the sweep | `Arrivals_proofs` | `MC_Keeping` |
| `Speakers` | names of voices: align, assignment, rename, merge | `Upkeep_proofs` | `MC_Keeping` |
| `Threads` | derive-threads over changing topics | `Upkeep_proofs` | `MC_Keeping` |
| `Purge`, `Backfill` | the two maintenance commands | `Upkeep_proofs`, `Arrivals_proofs` | `MC_Keeping` |
| `Worktree` | checkouts, port records, compose stacks | `Upkeep_proofs` | `MC_Keeping` |
| `Alignment` | anchors and ends of turns | `Upkeep_proofs` | `MC_Keeping` |
| `Extraction`, `Screens` | the pure halves of two more stages | | `MC_Keeping` |
| `Chat` (with `ModelSelection`, `Citations`) | one question, from routing to its gated answer | `Reading_proofs` | `MC_Reading` |
| `SystemStatus` (with `ModelSelection`) | GET /status | `Reading_proofs` | `MC_Reading` |
| `SearchPage` | GET /search, page after page | `Reading_proofs` | `MC_Reading` |
| `Places` | parts of a sequence by its places, a set in an order: for `Citations`, `SearchPage`, `ThreadReads`, `JobEvents`, `Threads`, `Alignment` and `Screens` | `Reading_proofs`, `Upkeep_proofs` | `MC_Reading`, `MC_Keeping` |
| `ThreadReads` | a thread's timeline, and a trace | `Reading_proofs` | `MC_Reading` |
| `JobEvents` | the stream of job events and the list that applies it | `Reading_proofs` | `MC_Reading` |
| `Passages`, `Feed` | chunks, highlight runs, timelines; the ranked moments feed | | `MC_Reading` |
| `Keeping`, `Reading` | several of the above in one specification, each in a scene of its own (section 3) | see the parts | `MC_Keeping`, `MC_Reading` |

A history variable, wherever one appears, is written and never read by a guard:
it records a thing the code has done that a property has to except.  A mutant --
an operator marked so, defined beside the one it would replace -- is a plausible
bug under which a property is known to fail.

### 2.1 `IngestJobs`: the queue, intake and the worker

One job row per occurrence.  Every action is one database commit, or one read
that the code later acts on.

| Code | State in the model |
|---|---|
| job.status, created_at, drop_relative_path | `status`, `earlier`, `drop` |
| job_stage.status | `stage` |
| meeting row, meeting.has_recording | `minted`, `recorded` |
| participant_alias of the meeting | `names` (a version) |
| frame, screenshot, meeting_media, STT rows | `videoRows` (the stages whose rows exist) |
| transcript_segment, moment, artifact rows | `segments`, `moments`, `artifacts`: the *inputs* each was computed from |
| the worker's locals: job, drop, `statuses`, loop index | `pc`, `held`, `heldDrop`, `memory`, `at` |
| an api call between its read and its write | `post` |

A drop is reduced to the two questions intake asks: does it carry a recording,
does it carry a participant graph.  `CreateJob`, `RetryCheck`, `RetryCommit` and
`Augment` are the branches of `create_ingest`; a retry reads and writes in two
transactions with nothing locked, an augmentation holds its row throughout.
`AssignSpeaker` is the speaker route.  `ClaimJob` to `FinishJob` are `run_job`,
with the stage's own commit (`CommitStage`) apart from its checkpoint
(`CheckpointStage`).  The history `raced` holds the jobs the api re-armed on a
premise that no longer held: the worker was inside the job, or the retry's check
was stale.

### 2.2 `OutputDirs`: replacing a stage's files

A directory is known by the run that wrote it and by whether any of its files
has been deleted since (`whole`).  `target`, `backup` and `staging` are the three
names `OutputDirSwap` uses, `strays` the staging directories dead runs have left;
`rows` is the run whose rows are committed.  The steps follow `open_staging`
(`RecoverBackup`, `ClearBackup`, `OpenStaging`), `publish` (`MoveAside`,
`Replace`), the rows and their commit, then `drop_backup` or `restore`, and
`remove_meeting_subdir` for a drop that lost its recording.  A recursive deletion
finishes or stops half way (`gone`); a death may fall inside one.

### 2.3 `Artifacts` and `ArtifactLifecycle`: drafts, approval, citations

One meeting.  A moment is its row: a lane and a start -- the identity key -- the
end of its span, and whether it is live.  The worker's transactions are READ
COMMITTED: `ReadApproved`, `DeleteDrafts` and `CommitExtract` are `extract`'s
three statements, `StartMoments`, `LockDisplaced` and `CommitMoments` those of
`moments` with its remapping.  An approval is REPEATABLE READ: `Open` takes the
snapshot, `Lock` waits for the rows and fails if they changed after it
(`SerializationFailure`), `Export` and `CommitAdr` write outside the database,
`CommitApproval` commits.  What a document of the model yields is left open: any
set of fresh drafts at any anchors.

`ArtifactLifecycle` knows only drafts, withdrawn drafts and the approval that
published each artifact.  `OneWayLifecycle` states that `Artifacts` implements it
under the mapping written beside it.

### 2.4 `Acquisitions`: detached processes and upload sessions

`record` is the status file of each acquisition, `session` each upload session's
directory (a rename out of the claimable names makes it `gone`), `lock` the claim
lock.  `launch` is the api's side of a launch (`Claim`, `Spawn`, `RecordPid`),
`child` the process it started: it takes the lock once (`Handshake`), works,
mints, posts, then sets the bytes aside before it publishes a terminal record
(`BytesGone`, `Complete`, `Publish`).  A process is `Alive`, or dead but still
answering signal 0 because the living api has not waited for it (`unwaited`).
Sweeps, deletions, expiries and uploads come from the session routes.

### 2.5 `Projection`: two stores as views

Neo4j and Meilisearch are views of evidence that changes under them.  Evidence is
a *version*: the latest input accepted for a meeting (`source`), the input its
rows derive from (`evidence`), the evidence its extraction documents are of
(`extracted`).  A view is the version it was built from, or absent, or -- moments
and chunks whose replacement was cut short -- `Torn`.

| Code | State in the model |
|---|---|
| meeting_projection | `row`: none, structural (embedded_at is NULL), embedded |
| Neo4j: a meeting's nodes; artifacts and CITES | `graph`, `cites` |
| Meilisearch: moments and chunks; their vectors; documents; artifacts | `text`, `vectors`, `docs`, `hits` |
| the flock, by process; the session advisory lock | `fileLock`, `pgLock` |
| a call of `S/projections/__init__.py` in progress | `op[actor]`: step, kind, meeting, what it has read, targets left |
| the worker's pass | `pc`, `held`, `job` |

`Worker`, each rebuild and each approval is an actor.  A call waits, takes both
locks in one step (`AcquireLocks`) or is turned away (`Refused`), reads, writes
one store after the other, and records a row.  flock is per process and
reentrant, so sibling approvals of one api both pass it and the advisory lock,
which is only tried, decides.  A rebuild lists its targets before it has the
locks, drops, forgets the rows, and goes target by target.  A dead process's
advisory lock stays with its database session until that is closed (`Ghost`).

`excused` is the history of meetings left to a targeted rebuild.  It grows where
the code itself logs that hint or documents the gap: a refused or failed
projection, an invalidation that failed, a target list that was out of date, a
row that a rebuild put back over superseded evidence, evidence re-derived under a
standing row.  A structural projection of what the database then holds takes the
meeting out again.  The last of these is wide: a speaker assignment re-runs
`align` and `moments` on a drop that augments nothing, so nothing is invalidated
and the stores keep the old attribution.

Left out on purpose.  The configuration is fixed, so a swapped embedder or a
retuned chunking, and with it the width checks, never happen.  The rows a call
reads under the locks are read in one step, though they are several statements.
The stages up to `moments` are one commit, and `extract`'s rows and checkpoint
another; the race between an augmentation and the end of a job is in `IngestJobs`
and an augmentation is accepted here only once the job is done.  A recording that
arrives by a plain retry also invalidates in the code; here only a declared
augmentation does.  A dry run changes nothing; `--structural-only` is
`SkipEmbedding`; `--meeting m --embed-only` and `unproject_meeting`, which has no
caller, are not modelled.

### 2.6 `MintDrop` and `VideoInfo`: who makes drops

A run is one process of `mint-drop` or `youtube-drop`; runs share the drops root
and a directory of lock files, one per shard of a source's digest.  `TakeEntry`
to `Digest` are what a producer does before it has an identity, `TakeLock` the
search for a standing drop under the lock, `MakeStagingRoot` to `Finalize` the
assembly, and `CleanUp` its `finally`.  Every call that another run can observe is
a step: the write probe that makes and removes `.staging`, the two mkdirs of
`parents=True` between which another run's rmdir may fall, the copy, the rename.
The file may be edited and a run killed between any two.  What stood at a target
before is unreadable, of another source, or of an older release.  `VideoInfo` is
the metadata: `RefuseUnacceptable` in the order the rules are tried,
`StartedAtFromInfo` and `StartedAt` with the certainty of each source of a date,
`SelectCaptions`, and what a mint accepts as its files.

### 2.7 `Uploads`: a body becomes a session

One directory per request.  `place` is its name on disk -- incomplete, published,
set aside -- and `step` where its request stands; a part is opened, filled and
closed (`TakeField`, `OpenFile`, `ReceiveBytes`, `CloseFile`) under its role's cap,
`EndBody`, `Probe` and `WriteSession` decide and publish, and every refusal passes
`CleanUp`, which may itself fail.  Each request starts with a sweep (`Removes`,
`Sweepable`), which goes by age, by the claims of live acquisitions and by the
process id left in the directory; the api may restart under the same id or another.

### 2.8 `Speakers`: who a voice is

`AlignCommits` is the align stage's transaction: graph entries upserted through
aliases, labels resolved by `Fits` -- a full name, a first name, initials, when
exactly one entry fits -- explicit assignments applied over that, attendance
rebuilt.  A curator assigns, types a name, renames, or merges, which locks both
rows in a fixed order (`MergeLocks`) before it writes (`MergeWrites`).  `told` is
what each assignment's answer named.

### 2.9 `Threads` and `ThreadReads`

`DeriveThreads` is one transaction.  Its pure core is `Clusters` (equal normalized
names and close pairs, joined pair by pair in the order of their ids), `IdentityKey`,
and the rows earlier passes left: those a part names exactly are `Reserved` for it, else it takes an
`Available` row of its members', else a new one.  `ReplaceTopics` is the extract stage, which
replaces a meeting's topics wholesale.  `ThreadReads` reads an answer statement
by statement in one snapshot -- span, totals, bands, meetings, moments for a
timeline; candidates and stops for a trace -- beside the commits that move what
it reads.  Every level has one order, the instant and then the ids (`InOrder`), and
the quoting of a meeting is ranked the same way (`Earlier`).

### 2.10 `Purge`, `Backfill`, `Worktree`

`Purge` plans (`ResolveScope`), deletes rows in one transaction, and afterwards
files, each step beside a worker that aligns and captures, an api that publishes,
and a second purge.  `Backfill` visits the jobs of one transaction one by one,
taking each row's lock as it goes; what it has changed is visible only after
`Commit`.  A row is [`there`, `at`: the drop it says it lies in, `was`: the bytes it
was recorded with, `size`], and `Path` is where it is judged: at its own place, or at
the job's drop when it names none, the recording then by its size alone.  `Init` is
what earlier runs and the worker may have left.  Beside the walk a worker claims a
job with the drop it then has (`hand`), mints the meeting, drops or keeps the
recording's row (`ReadStages`), and rewrites rows in `Probe` and `Align`; `Retry`,
`AcceptAugmentingDrop` and `AssignSpeaker` re-arm.  `SuccessIsEarned` asks of a clean
report that what lies under each job no worker had lies where its row says and as it
was recorded, and of every commit that it rewrites nothing a row had recorded and
moves no job that was re-armed meanwhile.  A drop's bytes do not change during a
behaviour, and their digest is the bytes; one row stands for either transcript form;
whether an augmenting drop has a graph is not asked; a stage's rows and its
checkpoint are one step, as are the reads and the writes of one visit, between which
a worker could only write the same place and digest.  In `Worktree` a command is a
process with a place; `Critical` places are those under the flock.  Records,
checkouts and Docker's containers and volumes are three states that directories
deleted by hand, `git worktree move`, a failing Docker and killed commands pull
apart; each container and volume carries the id of the incarnation it was started
for.

### 2.11 The stages' pure halves

`Alignment`: turns, cues and a cursor that never goes back; a text is a set of
words.  `Extraction`: a document is a sequence of lines already split into cells,
a cell the words it says, its timestamps and its item id; `LineRead` folds a state
of section, headers, ids and items over them.  Markdown splitting and the wording
of headers are the only text abstracted; which header stands for which column is
`Holds`, containment of a word.  `Generate`, `Adopt`, `Retained`, `Landed` and `RowsOf`
are the stage around it: the second request after an unreadable reply, the drop's file
read twice, the digest the kept text must have, and, by kind, which anchors of an item
must lie in a moment and which moments take rows -- an approved one no artifact, a
superseded one nothing.  `Screens`: a frame is what its
region looks like, its boxes of text, its words and a tone; `Segment` is the loop
over frames, `Resolve` the upsert of a capture's screen.

### 2.12 `Chat`, `ModelSelection`, `Citations`

`req` is one request: `Classify`, the legs of retrieval (each an index read and
then a read of Postgres), `ReadContext`, the prompt's capacity, `Synthesize`,
`ValidateDraft`.  A completer is built once per request from the binding stored at
that moment, and may be replaced by the role's fallback once (`Complete`, from
`FallbackLlm`).  The database changes between any two steps.  `Citations` is the
gate: a draft is a sequence of words, spaces, terminators, line breaks, markers and
openings of markers that never close; `SplitClaims` cuts it into units and
`Validate` gives the verdict.  `Admitted` is the walk that lets blocks into the prompt
while there is room.

### 2.13 `SystemStatus`, `SearchPage`, `JobEvents`, `Passages`, `Feed`

`SystemStatus` reads stores, providers, bindings and the worker in order, through
a probe cache that ages.  `SearchPage` is a page: artifacts first, then the merge
of two lanes cut at the capacity that is left, then what of it Postgres still has.
`JobEvents` has the server's snapshot per stream, the frames on the wire, and the
browser's list with its seed in flight.  `Passages` and `Feed` are pure: packing
turns into chunks with their overlap, splitting a hit's markup into runs, folding
rows into meetings; scoring, validating, ranking and paging cards.

## 3. Runs

| Run | Question | Result |
|---|---|---|
| `ingest_intake` | Do checkpoints, memory and the recording survive racing POSTs, an assignment, a crash or a lost connection? | holds |
| `ingest_liveness` | Does every queued job settle? | holds |
| `ingest_lost_augment` | Is every accepted drop processed? | **no**: the last write of a job hides an augmentation accepted during `extract` |
| `swap` | Does a settled stage serve the files its rows name; does a failed rerun keep the previous ones? | holds |
| `swap_lost_previous` | Is the previous output ever lost? | **yes**: a death between replacement and commit, then another run |
| `artifacts_approval` | Lifecycle, exports and citations under approval against reruns | holds |
| `artifacts_proposal_race` | Is a draft ever proposed onto an approved moment? | **yes**: the approval commits between the read and the deletion |
| `projection` | Do evidence and artifacts reach both stores, is nothing older put back? | holds, excused meetings excepted |
| `acq` | One process per source; bytes kept while claimed and gone before a terminal record; every acquisition reports | holds, up to named faults |
| `reading` | What readers are told, beside writes between their reads: nine properties, below | holds |
| `keeping` | What the corpus is made from and kept by: fourteen properties, below | holds |
| `pages_repeat` | Do the pages of a blended search tile? | **no**: page two is cut from a longer merge that starts differently |

`reading` and `keeping` compose many components that share nothing in one run.
Each behaviour has a *scene*, chosen in `Init`: the variables of that component
take its `Init` and its `Next`, those of the others stand at 0, so that the state
space is the sum and not the product of the parts.  In a scene of a pure algorithm
the state is one input and the property is an equation about it.  Deadlock is not
checked in these two, where a finished request and a pure scene have no further
step; it is in every other run.

| Run | Property | Its mutants: the definition changed, and how |
|---|---|---|
| `ingest_intake` | `CheckpointSoundness` | `PARTICIPANT_AUGMENTATION_STAGES`: a drop that adds a graph does not run `align` again |
|  | `DoneOnlyWhenSettled` | `AssignmentRefused`: a speaker may be assigned while the worker runs; `SETTLED_STAGE_STATUSES`: a started stage counts; `NextStage`: a stage is passed over |
|  | `RecordingKept` | `PreservesMeeting`: any drop may replace another |
| `ingest_liveness` | `QueuedJobSettles` | `RequeuedOrphans`: a restarted worker leaves orphans |
| `swap` | `SettledFilesMatch` | `AfterOSError`: a failed rename is swallowed |
|  | `FailedRerunKeepsPrevious` | `CanPutBack`: nothing is put back; `SetAside`: the previous directory is deleted first |
| `artifacts_approval` | `PublishedIsExported` | `AllDone`: it is enough that the files were written, by whomever |
|  | `CitationsAreLive` | `Displaced`: only published artifacts keep their old moments |
|  | `ApprovedMomentsKeepDrafts` | `Replaced`: every draft is replaced |
|  | `OneWayLifecycle` | `SerializationFailure`: a stale read goes unnoticed |
| `projection` | `EvidenceReachesStores` | `ProjectionAction`: any row will do |
|  | `PublishedReachesStores` | `Reading`: a pass reads evidence and no artifacts |
|  | `NoOlderView` | `LocksFree`: nobody waits for a lock |
| `acq` | `OneRunnerPerSource` | `LiveRecord`: a starting record is not live |
|  | `ClaimedBytesKept` | `KeptBySweep`: a sweep protects nothing |
|  | `NoTerminalBesideBytes` | `BytesGone`: the record is published before the bytes go |
|  | `AcceptedSettles` | `Handshake`: the child does not wait for its record |
| `reading` | `AnswersStandOnEvidence` | `CitedRows`: the draft is judged against the rows read before the model's answer |
|  | `AnsweredByTheBoundModel` | `Absorbed`: the fallback absorbs a failure it was not declared for; `IsSelectable`: a binding off the catalog |
|  | `GateDecides` | `PulledBack`: a marker is pulled over a line break |
|  | `AnswersClaimOnlyWhatWasRead` | `Unread`: a failed read of the choice is "nothing stored" |
|  | `KeywordPagesTile` | `MomentCapacity`: moments get the slots of artifacts Postgres no longer has |
|  | `AnswerAddsUp` | `Snapshot`: each statement reads what is committed; `BucketIndex`: the last instant has a band of its own; `Quoted`: the cap is over all meetings |
|  | `EventsCarryTheDifference` | `RowMoved`: only stages are announced |
|  | `PassagesKeepTheText` | `NextStart`: an overlap that does not advance; `IsTag`: a tag may hold a `<`; `SpanMs`: the last row ends the span |
|  | `FeedServesWhatItCounts` | `RankedBefore`: ties go by age; `Survivors`: a card without a reason is counted |
| `keeping` | `OneDropPerSource` | `Found`: only the run's own root is searched; `Verified`: a copy is trusted without its hash |
|  | `SuccessIsEarned` | `FailedPost`: a failed POST leaves the exit code alone; `Path`: a row is judged at the job's drop, wherever it says it lies |
|  | `SessionsAreWhole` | `Within`: a byte over the cap; `DialectAllowed`: any transcript under any dialect |
|  | `OnlyTheAbandonedGo` | `Sweepable`: by age alone |
|  | `RowsAreEarned` | `Fitting`: the first of several people who fit; `AssignedRows`: no assigned person attends |
|  | `MergesOutliveReruns` | `HasAbsorbedAliases`: somebody who has absorbed others may be merged away |
|  | `ThreadsAreSubjects` | `Available`: a member's row that another part has claimed; `Union`: a pair moves one member and leaves its part |
|  | `IdentityIsDurable` | `Reserved`: no row is kept for the part that names it |
|  | `PurgeTakesOnlyItsOwn` | `OrphanPeople`: people without a link are orphans although a transcript names them |
|  | `PortsAreApart` | `TakenPorts`: ports declared by others are free until they are bound |
|  | `LiveStacksStand` | `PresentOwner`: the checkout's own claim does not count |
|  | `AnchorsAndEndsStand` | `InTimeOrder`: a lane is searched in the order given |
|  | `ItemsAreAccountedFor` | `Seen`: an id without its section; `StampsOf`: every timestamp of the row; `Retained`: text kept without its digest |
|  | `ScreensAreKept` | `HasSettled`: on text alone; `IdentityKey`: words alone, however few |

Under each mutant the run finds the property violated; `PROJECT.json` lists them
under `mutants`.

### 3.1 Bounds

* `ingest_intake`: one occurrence, three POSTs, one assignment, one crash or lost
  connection.  Three POSTs let two retries race over a failed first ingest; jobs
  share nothing but the worker.  `ingest_liveness` has two occurrences, so that
  one waits behind the other's failures.
* `swap`: four run identities, which are reused once no directory or row names
  them, so the number of runs is unbounded; two deaths, one broken call, one
  deletion that stops half way -- the pair of deaths is what an orphaned backup
  met by a second interrupted run takes.
* `artifacts_approval`: two artifacts, one an ADR, two approvals, and two cuts of
  the evidence between which a boundary moves, a capture is taken over by speech,
  one disappears and instant 0 is uncovered.
* `acq`: two launches, one video and two sessions, and one each of a failed
  write, a killed process and a dead api.
* `projection`: one meeting with two artifacts, two versions of its evidence, one
  rebuild of any kind, one failure and one death.  Writers contend for global
  locks and address one meeting at a time; what crosses meetings, the full wipe,
  is excused per meeting.  Two artifacts are needed for two approvals in one
  process.
* `reading`: one request with one change of the database between any two of its
  steps (four changes of the world for a status, four moves of a job and two
  breaks of the stream for live events); two moments, an artifact on one of them,
  and an id no row knows; three pages of two results over two orders of three
  moments; drafts and marked-up hits of up to four and five tokens, transcripts of
  up to four turns; three cards whose weights tie.
* `keeping`: two mints with one edit of the file and one killed run; two upload
  requests, one with an unreadable recording, with two faults and a restart that
  may reuse the process id; two labels, graphs in which a first name is one
  person's or two people's, three edits, one typed name, one re-emitted graph; three names close
  to each other in a chain, under two thresholds, and four topics in all; two
  meetings, two purges; one job, in every
  state earlier runs leave, against two drops of its source, one without a recording
  and one with another transcript, and one that adds to it; two
  checkouts whose names hash to one base, one of them met by a project from before
  labels, three commands and one mishap; every
  pair of turns and cues, every document of three lines after a heading out of
  the twelve kinds of line that head, label, define, repeat or mislead, every
  recording of three frames of nine kinds or of four of six, beside a screen of an
  earlier meeting and one of an earlier run.
  A third request, purge or curator adds no new pairing, since a pair contends for
  one lock, row or directory at a time; that nothing more comes of a third worktree
  command is not so (section 5 has what three do to a stack of two owners) and is
  proved for the properties listed; counters bounded in the
  guards (`MaxChanges`, `MaxDeaths`, `MaxFaults`, `MaxEdits`, `MaxRuns`, ...) are
  named in each module.

Symmetry is declared over posts, runs, requests, artifacts, rebuilds, the roots
drops are placed in and the contents of a minted file in the runs that check safety only.

### 3.2 Fairness

`QueuedJobSettles` assumes weak fairness of the worker's progress: it polls for
as long as it runs (`S/worker/main.py`) and is started again when it is down.
Stages may fail, crashes are bounded, and nothing is assumed of callers.  A job
that a lost connection left `running` is excepted: only a restart picks it up.

`AcceptedSettles` assumes that a launch goes on from its claim to its pid record
(straight-line code under one lock) and that a process which is not killed takes
its next step.  It excepts processes that were killed, could not write, or missed
the handshake.

No liveness is claimed of projections -- a refused or failed projection is not
retried until something else re-arms the job -- nor of commands an operator runs,
which may be killed and need not be run again, nor of a stream, whose client
reconnects when it can.

## 4. Proofs

`tlapm` proves every theorem below for all values of the constants that satisfy
the named assumptions of each module; these say only that the sets of
identities are disjoint, that bounds are natural numbers and, in `Artifacts`,
that a cut consists of instants.  `Keeping` assumes of the modules it composes that
no run or root is the free lock, every source has a lock file, and what is asked
for are the operator's file or rows of videos (`Configured`); that every role has a
cap and none is "no role" (`Capped`); that a graph of people is finite and nobody
is "nobody" (`Keyed`); that no drop is "no drop" (`Placed`); that no command is the
free lock (`Named`); `Reading` that the limits of a prompt and of a traversal are
numbers, an artifact is drawn from a moment and an id is no word (`RoomAndPlaces`),
that the gate is given sequences of such tokens and sets of moments
(`GateIsGiven`), that a page has room for something, an id is of an artifact or
a moment but not both, and a lane ranks each id once (`SearchIsGiven`), that moments
and meetings are numbers on a line of time, a day, a bucket and the cap of quotes
positive and no thread "none" (`LineIsPlaced`), and that the stages are a sequence
without end neither empty, the evidence stages among them, and nothing recorded is
"none" (`EventsStaged`); and `Keeping` that names have a place in the alphabet and a
cosine does not mind which of two comes first (`SubjectsCompared`), and that the moments
of a lane are numbers and "unknown" is not one (`LanesAreTimed`), and that a look does not differ from itself, the screens
stage's thresholds are numbers and the table of screens has no key twice (`FramesAreSeen`).  Each proof module names the inductive invariant,
proves it of the initial states and of each action, one lemma per action or group
of actions, and draws the properties from it.  The invariants were checked with TLC
on the runs' instances before they were proved; the runs themselves list only the
properties.

| Module | Invariant, and why it is needed | Theorems |
|---|---|---|
| `IngestJobs` | `IInv`: a checkpoint's soundness survives a step only if the claim is still the job's own, the stages behind the loop index are settled (`ClaimCurrent`), settled evidence stages form a prefix of the pipeline (`PrefixSettled`) and video rows exist only where a recording is recorded (`RecordingHeld`) | types, `CheckpointSoundness`, `DoneOnlyWhenSettled`, `MemoryAgrees`, `FirstIngestInOrder`, `RecordingKept`, `RunningIsHeld` |
| `OutputDirs` | `SettledInv` says what is where at each call (`RunShape`, `TidySoFar`); `PreviousAt` says where the previous files are, as long as nothing died or broke | `SettledFilesMatch`, `NothingLeftBehind`, `PreviousKept`, `FailedRerunKeepsPrevious` |
| `Artifacts` | `IInv`: what the worker's transaction has locked, which rows a waiting snapshot still sees as drafts, and that two exporting approvals hold disjoint rows | types, `PublishedIsExported`, `CitationsAreLive`, `ApprovedMomentsKeepDrafts`, and the refinement `OneWayLifecycle` |
| `Acquisitions` | `IInv`: who holds the lock and how far its process can be (`LockInv`), that bytes go before the record (`BytesInv`), that a terminal record is the last thing written (`FinalInv`), and exclusion until a write fails or the api dies (`ExclusiveInv`) | types, `NoTerminalBesideBytes`, `OneRunnerPerSource`, `ClaimedBytesKept`, `ReportedIsFinal` |
| `Projection` | `IInv`: whoever is inside holds the advisory lock, no view is ahead of the database (`ViewsBehind`), and what a call has read is behind the database but ahead of every view of its meeting (`ReadsAhead`), which only one reader at a time can keep true | `IInv`, `NoOlderView` |
| `Projection`, what is reached | `RInv`, on top of `IInv`: a meeting without a row is somebody's to project (`ToBeProjected`: the worker before it asks, its call, or a rebuild that has forgotten the row); one with a row stands in both stores as the database has it but for what a named call still owes (`Stands`); a call that is to write holds what the database still holds (`ReadsCurrent`) and has left what it wrote (`AllWritten`). `HInv` adds that nothing is projected of a meeting without evidence and that vectors outlive the pass they were written in | `EvidenceReachesStores`, `PublishedReachesStores`, `RowIsHonest` |
| `MintDrop`, in `Keeping` | `MintDropInv`: a run inside its critical section holds the lock of its source (`MintLockHeld`) and, until it cleans up, no drop of that source stands beside it (`MintNoneBeside`), which the search under the lock established; what it renames is what it has hashed (`MintHashed`).  `MintStagingInv` says whose a staging directory is, `MintEarnedInv` what stands of every entry a run has passed, which survives because drops only grow (`MintGrows`) | `OneDropPerSource`, half of `SuccessIsEarned` |
| `Uploads`, in `Keeping` | `UploadInv`: what each request still has to do and what its directory holds meanwhile (`UpNamed`, `UpReceived`), and that a record was written over a whole upload and nothing comes after it (`UpRecorded`) | `SessionsAreWhole`, `OnlyTheAbandonedGo` |
| `Backfill`, in `Keeping` | `BackInv`: jobs and rows are as the database takes them (`BackRows`), a worker with a drop has its job (`BackHand`); a walk has every job locked or to do (`BackWalks`), what it has made of a locked job keeps an anchor it had and, until a problem is met, gives it one of its own source (`BackLocks`), what it has written of a row keeps what was recorded (`BackHolds`), and a job no worker had when it was visited has none still and, until a problem is met, sound rows (`BackQuiet`) | the other half of `SuccessIsEarned` |
| `Speakers`, in `Keeping` | `VoiceInv`: a person somebody was merged into is not merged away (`AliasesAreFlat`), so that one lookup is enough, and the ids an align run holds stand for nobody who had been merged away when it began (`AlignIsCurrent`) | `RowsAreEarned`, `MergesOutliveReruns` |
| `Purge`, in `Keeping` | `PurgeInv`: whoever a kept meeting linked to or named when the plan was made is linked or named still, and is not among the people the plan takes (`PlanSpares`); a capture's screen stands as long as the capture | `PurgeTakesOnlyItsOwn` |
| `Worktree`, in `Keeping` | `StackPortsInv`: a critical place is under the flock (`StackLockHeld`), and a base about to be published is no sibling's and no record is there yet (`StackChosenApart`); siblings' records only shrink meanwhile, since a record is written under that lock and dies with its directory (`StackRecordsHaveHomes`).  `StackLiveInv` adds, until a checkout is moved, that ids only grow and that a teardown still goes by the volumes and the id it checked, an id no record has had since (`StackRead`) | `PortsAreApart`, `LiveStacksStand` |
| `SystemStatus`, in `Reading` | `StatusInv`: until the reply is sent, the binding its role row speaks of is the effective one, read together with the choice, and what was stored then was nothing or that binding (`BindingRead`); a role row that says ready rests on such a reading | `AnswersClaimOnlyWhatWasRead` |
| `Chat`, in `Reading` | `ChatInv`: whoever has answered a call so far is the request's binding or, once it has stepped in, its fallback, which then goes on to the end (`AnsweredBy`); a binding its host does not serve ends the request; a finished request leaves nothing to the next | `AnsweredByTheBoundModel` |
| `Chat`, what is cited | `EvidenceInv`: what a request holds of each leg are sequences of moments, the prompt holds no more blocks than its capacity but for a first one (`Room`, by induction over the walk that admits blocks), and a draft under validation is one the model wrote (`Drafted`); the gate then cites only what was in the prompt (`ClaimsAreCited`) | `AnswersStandOnEvidence` |
| `Citations` | no state: a unit is a run of places between two ends of sentences (`UnitIs`), so that a marker is in a word's unit exactly when no sentence ends between them | `GateDecides` |
| `SearchPage`, in `Reading` | `SearchInv`: a page on its way holds the stretch of the two rankings its offset asks for (`PageRead`), what Postgres still has of its artifacts (`PageResolved`), and, in a keyword search of live moments, all pages so far have served the one sequence exactly up to where the next starts (`PagesCover`); a merge without a semantic lane is the keyword lane (`MergeIs`), and the moments of a page fill just the places its artifacts leave (`PageCovers`) | `KeywordPagesTile` |
| `ThreadReads`, in `Reading` | `LineInv`: what an answer holds after each statement is that statement's result in the one snapshot its first froze (`LineAnswer`: the totals of the window, the stops of a trace), whatever has been committed since.  The sums are then inductions over the bands and the meetings, each of which counts a class of a partition | `AnswerAddsUp` |
| `JobEvents`, in `Reading` | `EventsInv`: every row, and every row of a stream's snapshot, is a job row whose state, stages and errors go together (`JobStands`), and a job the snapshot knows has a row still.  From there on it is about two such snapshots: the list of the first, folded over the events of the difference, is the list of the second, by induction over the stages of a job and over the jobs in their order | `EventsCarryTheDifference` |
| `Threads`, in `Keeping` | `SubjectsInv`: no two rows have one key (`RowsStand`), a member's row is one of them (`SeatsStand`), and after a pass every cluster has the row of its key with all its topics in it (`Settled`).  That a pass ends so is an induction over its clusters (`Passed`): those passed have rows of their own, those to come keep the rows reserved for them; that `Clusters` parts the topics by what is joined, however the pairs are ordered, is another, over the pairs | `ThreadsAreSubjects`, `IdentityIsDurable` |
| `Alignment`, in `Keeping` | no state: the sorted lane holds the given one's segments, each once and in time order, and the cursor has passed only segments that start before the turn's window (`CursorStands`, by induction over the turns), which in a later turn's window they are not either | `AnchorsAndEndsStand` |

What the proofs found.  `AnswerAddsUp` asks that a trace quotes of each meeting as
many moments as the cap allows.  With the rank going by the start alone, as the model
first had it, two moments that start together share a rank and the cap lets both
through; the proof would not close, and the code does not do it: the statement breaks
ties by the moment's id (`S/api/threads.py:308`), as every level's order does.  `Earlier`
and `InOrder` have that now, and the run has moments that start together.
`LiveStacksStand` used to speak of every stack that carries
a checkout's id; the invariant would not close, and TLC shows why with three
commands: the stack of two incarnations in section 5.  It now speaks of stacks that
are wholly a checkout's, and until a checkout is moved; `MixedStacksStand` keeps the
stronger sentence, which the code breaks.

Model-checked only: both liveness properties, which are beyond the provers; of
`reading`, `PassagesKeepTheText` and `FeedServesWhatItCounts`; of `keeping`, those of
the stages' pure halves but for alignment (`ItemsAreAccountedFor`, `ScreensAreKept`); and every violated property.  Those of `reading` and `keeping` are
inductions over data: what a sort, a parser or a fold over a sequence of records
computes.

Several such inductions are proved all the same: the walk that admits blocks to a
prompt, the merge of two lanes, the count of the places of a list, the sums of a
timeline, the events of a difference, the clusters of a graph of names and the pass
that seats them, a sort by time and the cursor that walks it.  The library's
induction theorems are out of reach, but that a set of numbers with 0 and every
successor holds all numbers is not (`Counting`).  The operators these inductions are
about say parts of a sequence by its places (`Places`), since a recursion would not
unfold.

`RowIsHonest` and `RunningIsHeld` are listed by no run: they were checked on the
instances of `projection` and of `ingest_intake` and are now proved, and the runs'
properties say more of the same hazards.

## 5. Divergences

Four runs end in a violation, each of a sentence the repository says of itself;
`PROJECT.json` quotes them under `findings`.

Properties the modules state and no run lists, because the code breaks them; the
instance of the run beside them finds the trace:

| Property | Instance | What happens |
|---|---|---|
| `Artifacts.LiveAnchorsResolve` | `artifacts_approval` | an anchor inside a live moment does not resolve when a superseded moment that starts later inside it hides the rest (`S/pipeline/extraction.py:1282`) |
| `Acquisitions.TerminalIsFinal` | `acq` | a refusal over a bad configuration is published without the lock and may overwrite a terminal record (`S/acquisitions.py:1353`) |
| `Projection.StoresAgree` | `projection` | an embedding pass finishes over a graph of older chunks: its guard compares configurations, not evidence (`S/projections/__init__.py:251`) |
| `Extraction.AnchorsKeepTheirColumn` | `keeping` | a short content row satisfies `_is_header_row` and relabels the table's columns, so that later rows cite a timestamp named in passing, which the comment at `S/pipeline/extraction.py:694-698` calls the failure to prevent (`:1081`) |
| `Speakers.VoicesAreAsNamed` | `keeping` | a name typed for a tag whose curated person has been merged away renames the absorbed row, and the answer's name is not the one the voice gets (`S/api/speakers.py:310`) |
| `Purge.InterruptedPurgeConverges` | `keeping` | a purge killed after its commit says, when run again, that there is nothing to purge, while the files remain (`S/prune/files.py:13-14` says a re-run finishes) |
| `Worktree.MixedStacksStand` | `keeping` with a third command | a removal stands at its inventory while the checkout is made again; the first incarnation's slow `compose up` leaves volumes of the old id under containers of the new, and the removal, told the old id, downs the live containers (`infra/worktree_stack.py:739-748`) |
| `Alignment.AnchorsStand`, turns in any order | `keeping` | provided turns out of time order may not reach an anchor the cursor has passed (`S/pipeline/alignment.py:83-90`) |
| `JobEvents.QuietListAgrees` | `reading` | a job created between the list's seed and the stream's baseline is in neither (`web/src/features/meetings/useJobEvents.ts:101-104`) |

Seen while modelling, without a property:

* Two retries of one failed job (`S/api/ingests.py:914-919`): the second, applied
  by id alone, may replace a drop with a recording by one without, which `:640-642`
  refuses when it sees it.  `IngestJobs` has it as `raced`.
* A connection that breaks inside a stage leaves the job running until the worker
  is restarted (`S/pipeline/runner.py:712-716`).
* After a death of the api between `Popen` and the pid record, a second launch
  starts a second process for the source (`S/acquisitions.py:843-873`, against
  `:29-34`); `acq` excepts it as not `Unbroken`.
* A session past its TTL is still claimable until a sweep (`S/uploads.py:581-607`).
* A dead process that the api has not waited for looks alive
  (`S/acquisitions.py:646-663`, against `:32-37`).
* A directory whose clean-up failed keeps a marker that names a living or reused
  process, so that no sweep takes it; a broken ffprobe is answered 415.
* A worker that dies while embedding, and whose next pass finds the model host
  down, leaves torn documents under a row that `projection_action`'s docstring
  calls fully searchable (`S/projections/__init__.py:231-233`).
* An approval answers 200 although its projection was refused
  (`S/api/moments.py:694-712`); `docs/backlog.md` has this as B-37.
* Two parts of topics that are nothing but punctuation can have one digest as
  their key; the whole pass is refused (`S/domain/threads.py:417`).
* A participant a kept meeting links to after the plan of a purge loses the link
  by the foreign key's cascade; an artifact published between the plan and the
  deletion keeps its file.
* A checkout moved with `git worktree move` still owns its record under the old
  name, which the docstring of `declared_owners` denies; one moved between prune's
  snapshot and its teardown may lose its stack (`infra/worktree_stack.py:416-429`).
* A worker that has claimed a job without an anchor fails it after a backfill anchored
  it and reported "clean"; the next backfill finds the job anchored and leaves it
  failed, where `S/pipeline/runner.py:361-364` and `S/backfill.py:40-41` have a re-run
  repair it.  `CleanMeansConverted` speaks of paths, not of the state of such a job.
* Status answers 500 when Postgres is lost between its check and the worker's row.
* The hidden score of an aged meeting may exceed the first reason a card shows
  (`S/api/moments_feed.py:423`).
* Pages of a search also repeat when the embedder is lost between two of them.

## 6. Not modelled

* Media tools (ffmpeg, image comparison, recognition) and model adapters' clients:
  external; what they answer is an input of the models.
* Transcript parsing and dialects, titles, wording, and the Cypher of traversals.
* Configuration, database set-up and logging: loading and formatting.
* The digest, the plain read routes and evaluations: single reads without state
  of their own.
* The Teams puller and `tools/puller/emit-drop.js`, which drive a browser; the drop
  they leave is what intake sees.
* The web client but for the meetings list and its hook of live events.
* A second worker after a lost advisory lock, and the api's event loop
  (`create_upload_session` polls a lock on it).
* A changing configuration of the projections (a swapped embedder, retuned
  chunking).
* Streaming of an answer's tokens.

## 7. What is left

In this order: an abstract specification of a view that `Projection` implements;
proofs about extraction and screens; the moment planner as functions over all small
inputs; transcript dialects; a second worker beside `IngestJobs`.

