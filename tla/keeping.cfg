\* Two mints, two uploads, a curator, four topics, two purges, a backfill and two
\* worktrees, each beside what may fall between its steps; and every small input of
\* the stages' pure halves.
SPECIFICATION Spec
CONSTANTS
  Inputs <- SmallInputs
  Unknown = Unknown
  None = None
  Outside = Outside
  Runs = {r1, r2}
  Contents = {c1, c2}
  v1 = v1
  Videos = {v1}
  NotVideo = NotVideo
  OwnFile = OwnFile
  Listings <- SmallListings
  Infos <- SmallInfos
  Supplies <- SmallSupplies
  Roots = {top, below}
  Titles = {"t"}
  Shard <- OneShard
  DurationCap = 2
  Free = Free
  Torn = Torn
  MaxChanges = 1
  MaxDeaths = 1
  Requests = {"r1", "r2"}
  Garbled = {"r2"}
  Required = {"title"}
  Values = {"good", "zoom"}
  Cap <- OneByte
  Pids = {1, 2}
  Ttl = 1
  MaxParts = 4
  MaxClock = 2
  MaxFaults = 2
  MaxRestarts = 1
  Labels <- SmallLabels
  Slots <- SmallSlots
  Initial <- Itself
  Rosters <- SmallRosters
  Names <- SmallNames
  Curators = {"c1"}
  MaxEdits = 3
  MaxEmits = 1
  TopicMeetings = {1, 2}
  TopicMeetingStart <- InTurn
  TopicNames = {1, 2, 3}
  TopicWord <- AsWritten
  Raw <- AsWritten
  Score <- Closeness
  Thresholds = {5, 7}
  MaxThreads = 4
  MaxTopics = 4
  Meetings = {"g1", "g2"}
  People = {"p1", "p2"}
  Screens = {"s1"}
  MaxWrites = 1
  MaxPurges = 2
  Jobs = {"j2"}
  Drops = {"d1", "d2", "d3"}
  SourceOf <- SmallSources
  Augments <- SmallAugments
  TranscriptIn <- SmallTranscripts
  RecordingIn <- SmallRecordings
  Bytes = {"b1", "b2"}
  SizeOf <- OneSize
  Sizes = {1, 2}
  MaxRearms = 1
  MaxWalks = 1
  Slugs = {"a", "b"}
  Rank <- Listing
  Older = {"b"}
  Bases = {0, 1, 2}
  Home <- OneHome
  Commands = {"k1", "k2"}
  MaxIds = 3
  MaxRuns = 3
  MaxMoves = 1
  MaxLosses = 1
  Window = 1
  MaxSegment = 2
  MinShared = 1
  MinOf = 2
  Change <- Apart
  ChangeThreshold = 2
  SettledChangeThreshold = 1
  SettledChangeFrames = 2
  SettleThreshold = 0
  SettleTextGrowthRatio = 2
  SettleTimeout = 2
  GalleryMaxBlocks = 0
  SlideMaxBlocks = 1
  MinSignatureTokens = 1
  LineageShared = 1
  LineageOf = 2
SYMMETRY Symmetry
INVARIANTS OneDropPerSource SessionsAreWhole RowsAreEarned ThreadsAreSubjects PortsAreApart
INVARIANTS AnchorsAndEndsStand ItemsAreAccountedFor ScreensAreKept
PROPERTIES OnlyTheAbandonedGo MergesOutliveReruns IdentityIsDurable PurgeTakesOnlyItsOwn
PROPERTIES SuccessIsEarned LiveStacksStand
CHECK_DEADLOCK FALSE
