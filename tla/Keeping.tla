------------------------------- MODULE Keeping -------------------------------
(***************************************************************************)
(* What the corpus is made from and kept by.  Each behaviour is of one     *)
(* component, chosen at the start: drops minted, files uploaded, voices    *)
(* named, topics threaded, meetings purged, old rows anchored, stacks of   *)
(* worktrees; or of the pure half of a stage, over an input it is given.   *)
(***************************************************************************)
EXTENDS Naturals, Sequences

CONSTANTS
  Inputs,      \* a record: for each algorithm, what it may be given
  Unknown, None, Outside,
  \* MintDrop
  Runs, Contents, Videos, NotVideo, OwnFile, Listings, Infos, Supplies, Roots, Titles, Shard,
  DurationCap, Free, Torn, MaxChanges, MaxDeaths,
  \* Uploads
  Requests, Garbled, Required, Values, Cap(_), Pids, Ttl, MaxParts, MaxClock, MaxFaults, MaxRestarts,
  \* Speakers
  Labels, Slots, Initial(_), Rosters, Names, Curators, MaxEdits, MaxEmits,
  \* Threads
  TopicMeetings, TopicMeetingStart, TopicNames, TopicWord, Raw, Score, Thresholds, MaxThreads, MaxTopics,
  \* Purge
  Meetings, People, Screens, MaxWrites, MaxPurges,
  \* Backfill
  Jobs, Drops, SourceOf, Augments, TranscriptIn, RecordingIn, Bytes, SizeOf, Sizes, MaxRearms, MaxWalks,
  \* Worktree
  Slugs, Rank, Older, Bases, Home(_), Commands, MaxIds, MaxRuns, MaxMoves, MaxLosses,
  \* Alignment
  Window, MaxSegment, MinShared, MinOf,
  \* Screens
  Change(_, _), ChangeThreshold, SettledChangeThreshold, SettledChangeFrames, SettleThreshold, SettleTextGrowthRatio,
  SettleTimeout, GalleryMaxBlocks, SlideMaxBlocks, MinSignatureTokens, LineageShared, LineageOf

VARIABLES scene,   \* which component this behaviour is of
          input,   \* what an algorithm is given
          file, drops, stagingDirs, staged, litter, lock, run, jobs, changes, deaths,
          place, owner, held, record, touched, step, sink, api, claimed, clock, faults, restarts,
          roster, people, alias, assigned, row, attends, job, align, merge, told, counts,
          topic, thread, member, threshold, minted, derived,
          meetings, link, said, shot, persons, screens, dirs, files, sourceDrops, prune, report, writes, runs,
          anchored, below, hand, walk, verdict, rearms, walks,
          dir, portFile, stack, docker, portLock, command, tally

mintVars == <<file, drops, stagingDirs, staged, litter, lock, run, jobs, changes, deaths>>
uploadVars == <<place, owner, held, record, touched, step, sink, api, claimed, clock, faults, restarts>>
speakerVars == <<roster, people, alias, assigned, row, attends, job, align, merge, told, counts>>
threadVars == <<topic, thread, member, threshold, minted, derived>>
purgeVars == <<meetings, link, said, shot, persons, screens, dirs, files, sourceDrops, prune, report, writes, runs>>
backfillVars == <<anchored, below, hand, walk, verdict, rearms, walks>>
worktreeVars == <<dir, portFile, stack, docker, portLock, command, tally>>
all == <<scene, input, mintVars, uploadVars, speakerVars, threadVars, purgeVars, backfillVars, worktreeVars>>

Mint == INSTANCE MintDrop
Sessions == INSTANCE Uploads WITH deaths <- restarts, MaxDeaths <- MaxRestarts, Unreadable <- Garbled
Voices == INSTANCE Speakers
Subjects == INSTANCE Threads WITH
  Meetings <- TopicMeetings, StartedAt <- TopicMeetingStart, Names <- TopicNames, Word <- TopicWord
Prune == INSTANCE Purge WITH
  people <- persons, drops <- sourceDrops, told <- report, MaxRuns <- MaxPurges
Anchors == INSTANCE Backfill WITH
  job <- anchored, run <- walk, told <- verdict, runs <- walks, MaxRuns <- MaxWalks
Stacks == INSTANCE Worktree WITH
  record <- portFile, lock <- portLock, run <- command, counts <- tally
Turns == INSTANCE Alignment
Pictures == INSTANCE Screens

ASSUME MintConfigured == Mint!Configured
ASSUME SessionsCapped == Sessions!Capped
ASSUME VoicesKeyed == Voices!Keyed
ASSUME SubjectsCompared == Subjects!Comparable
ASSUME AnchorsPlaced == Anchors!Placed
ASSUME StacksNamed == Stacks!Named

\* Alignment is given turns and a lane, whose times are of one clock.
ASSUME LanesAreTimed ==
  /\ Turns!Timed
  /\ "align" \in DOMAIN Inputs => \A given \in Inputs["align"] : Turns!Lane(given[1]) /\ Turns!Lane(given[2])

\* The screens stage is given frames and the table of screens as it stands.
ASSUME FramesAreSeen ==
  /\ Pictures!Tuned
  /\ "screens" \in DOMAIN Inputs =>
       \A given \in Inputs["screens"] : Pictures!Footage(given[1]) /\ Pictures!Table(given[2])

Components == {"mint", "uploads", "speakers", "threads", "purge", "backfill", "worktree"}

-----------------------------------------------------------------------------
(* The variables of the other components stand at 0. *)
MintAtRest == file = 0 /\ drops = 0 /\ stagingDirs = 0 /\ staged = 0 /\ litter = 0 /\ lock = 0 /\ run = 0 /\ jobs = 0 /\ changes = 0 /\ deaths = 0
SessionsAtRest == place = 0 /\ owner = 0 /\ held = 0 /\ record = 0 /\ touched = 0 /\ step = 0 /\ sink = 0 /\ api = 0 /\ claimed = 0 /\ clock = 0 /\ faults = 0 /\ restarts = 0
VoicesAtRest == roster = 0 /\ people = 0 /\ alias = 0 /\ assigned = 0 /\ row = 0 /\ attends = 0 /\ job = 0 /\ align = 0 /\ merge = 0 /\ told = 0 /\ counts = 0
SubjectsAtRest == topic = 0 /\ thread = 0 /\ member = 0 /\ threshold = 0 /\ minted = 0 /\ derived = 0
PruneAtRest == meetings = 0 /\ link = 0 /\ said = 0 /\ shot = 0 /\ persons = 0 /\ screens = 0 /\ dirs = 0 /\ files = 0 /\ sourceDrops = 0 /\ prune = 0 /\ report = 0 /\ writes = 0 /\ runs = 0
AnchorsAtRest == anchored = 0 /\ below = 0 /\ hand = 0 /\ walk = 0 /\ verdict = 0 /\ rearms = 0 /\ walks = 0
StacksAtRest == dir = 0 /\ portFile = 0 /\ stack = 0 /\ docker = 0 /\ portLock = 0 /\ command = 0 /\ tally = 0
Init ==
  /\ \/ scene \in Components /\ input = 0
     \/ scene \in DOMAIN Inputs /\ input \in Inputs[scene]
  /\ IF scene = "mint" THEN Mint!Init ELSE MintAtRest
  /\ IF scene = "uploads" THEN Sessions!Init ELSE SessionsAtRest
  /\ IF scene = "speakers" THEN Voices!Init ELSE VoicesAtRest
  /\ IF scene = "threads" THEN Subjects!Init ELSE SubjectsAtRest
  /\ IF scene = "purge" THEN Prune!Init ELSE PruneAtRest
  /\ IF scene = "backfill" THEN Anchors!Init ELSE AnchorsAtRest
  /\ IF scene = "worktree" THEN Stacks!Init ELSE StacksAtRest
Next ==
  \/ scene = "mint" /\ Mint!Next /\ UNCHANGED <<input, uploadVars, speakerVars, threadVars, purgeVars, backfillVars, worktreeVars, scene>>
  \/ scene = "uploads" /\ Sessions!Next /\ UNCHANGED <<input, mintVars, speakerVars, threadVars, purgeVars, backfillVars, worktreeVars, scene>>
  \/ scene = "speakers" /\ Voices!Next /\ UNCHANGED <<input, mintVars, uploadVars, threadVars, purgeVars, backfillVars, worktreeVars, scene>>
  \/ scene = "threads" /\ Subjects!Next /\ UNCHANGED <<input, mintVars, uploadVars, speakerVars, purgeVars, backfillVars, worktreeVars, scene>>
  \/ scene = "purge" /\ Prune!Next /\ UNCHANGED <<input, mintVars, uploadVars, speakerVars, threadVars, backfillVars, worktreeVars, scene>>
  \/ scene = "backfill" /\ Anchors!Next /\ UNCHANGED <<input, mintVars, uploadVars, speakerVars, threadVars, purgeVars, worktreeVars, scene>>
  \/ scene = "worktree" /\ Stacks!Next /\ UNCHANGED <<input, mintVars, uploadVars, speakerVars, threadVars, purgeVars, backfillVars, scene>>
  \/ scene \in DOMAIN Inputs /\ UNCHANGED all
Spec == Init /\ [][Next]_all

-----------------------------------------------------------------------------
\* MintDrop.OneDropPerSource: one drop for one identity, holding what its manifest says.
OneDropPerSource == scene = "mint" => Mint!OneDropPerSource

\* Uploads.SessionsAreWhole: a session that can be named is whole; a refused one is gone.
SessionsAreWhole == scene = "uploads" => Sessions!SessionsAreWhole
\* Uploads.OnlyTheAbandonedGo: a sweep spares what is in use.
OnlyTheAbandonedGo == [][scene = "uploads" => Sessions!SpareWhatIsInUse]_all

\* Speakers.MergesOutliveReruns: no rerun of align brings an absorbed identity back.
MergesOutliveReruns == [][scene = "speakers" => Voices!MergesRespected]_all
\* Speakers.RowsAreEarned: whoever a label names was chosen, or is the one who fits; and attends.
RowsAreEarned == scene = "speakers" => Voices!RowsAreEarned
\* Speakers.VoicesAreAsNamed: the same of names, which a name typed after a merge breaks.
VoicesAreAsNamed == [][scene = "speakers" => Voices!NamedAsTold]_all

\* Threads.ThreadsAreSubjects: a thread is one connected subject, no more and no less.
ThreadsAreSubjects == scene = "threads" => Subjects!ThreadsAreSubjects
\* Threads.IdentityIsDurable: a subject keeps its row.
IdentityIsDurable == [][scene = "threads" => Subjects!SubjectsKept]_all

\* Purge.PurgeTakesOnlyItsOwn: what a kept meeting points at is kept.
PurgeTakesOnlyItsOwn == [][scene = "purge" => Prune!OthersKept]_all
\* Purge.InterruptedPurgeConverges: a purge run again finishes what the last one left.
InterruptedPurgeConverges == scene = "purge" => Prune!InterruptedPurgeConverges

\* Backfill.CleanReportMeansConverted, MintDrop.SuccessMeansIngested, NothingStagedLeft: a
\* clean report means nothing is left to do; a mint that exits zero left a drop and a job
\* for all it was given, and one that was not killed no staging.
SuccessIsEarned ==
  [][/\ scene = "backfill" => Anchors!CleanMeansConverted
     /\ scene = "mint" => Mint!SuccessMeansIngested' /\ Mint!NothingStagedLeft']_all

\* Worktree.PortsAreApart: two checkouts never declare one base.
PortsAreApart == scene = "worktree" => Stacks!PortsAreApart
\* Worktree.LiveStacksStand: only its own checkout tears a live stack down.
LiveStacksStand == [][scene = "worktree" => Stacks!LiveStands]_all
\* Worktree.MixedStacksStand: nor one that carries its id among others, which a compose
\* that outlives its checkout can leave for a removal to take.
MixedStacksStand == [][scene = "worktree" => Stacks!MixedStands]_all

\* Alignment.AnchorsStand, EndsStand: of turns in time order each gets the best of its
\* own window and the latest end of its own cues, whatever came before it.
AnchorsAndEndsStand ==
  scene = "align" /\ Turns!Following(input[1]) =>
    Turns!AnchorsStand(input[1], input[2]) /\ Turns!EndsStand(input[1], input[2])
\* Alignment.AnchorsStand: the same of turns in any order, which a transcript may have.
AnchorsStandInAnyOrder == scene = "align" => Turns!AnchorsStand(input[1], input[2])

\* Screens.CapturesKeepTheView, RerunsFindTheirScreens: what stood still is stored, from
\* a frame at rest; and the stage run again finds the rows it made.
ScreensAreKept ==
  scene = "screens" =>
    /\ Pictures!CapturesKeepTheView(input[1])
    /\ Pictures!RerunsFindTheirScreens(input[1], input[3], input[2])
==============================================================================
