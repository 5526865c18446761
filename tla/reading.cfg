\* One question, a status, three pages, a timeline and a live list, each beside the
\* writes that may fall between its readings; and every small input of the algorithms.
SPECIFICATION Spec
CONSTANTS
  m1 = m1
  m2 = m2
  m3 = m3
  a1 = a1
  a2 = a2
  d1 = d1
  b1 = b1
  b2 = b2
  NoId = NoId
  None = None
  Inputs <- SmallInputs
  Bindings = {b1, b2}
  Default = b1
  Fallback = b2
  Moments = {m1, m2}
  Artifacts = {a1}
  SourceOf <- SourceOfArtifact
  MeetingOf <- MeetingOfMoment
  Drafts <- SmallDrafts
  Capacity = 2
  TraversalLimit = 1
  MaxChanges = 1
  ProviderOf <- ProviderOfBinding
  NeedsKey = {"p2"}
  KeyLoaded = {"p2"}
  Ttl = 2
  MaxEvents = 4
  FoundArtifacts = {a1, a2}
  FoundMoments = {m1, m2, m3}
  FoundDocuments = {d1}
  Keywords <- SmallKeywords
  Semantics <- SmallSemantics
  Ratios = {0, 5}
  Limit = 2
  MaxPages = 3
  MaxEdits = 1
  ThreadIds = {"t1"}
  LineMoments = {1, 2, 3}
  LineMeeting <- MeetingOnLine
  StartMs <- OffsetOnLine
  MeetingStart <- StartOnLine
  DayPrecision = {2}
  Day = 2
  Ladder = {1, 2}
  TargetBuckets = 2
  MomentLimit = 2
  PerMeeting = 1
  MaxWrites = 1
  Jobs = {"j1"}
  Stages <- TwoStages
  Evidence = {"moments"}
  Errors = {"e1", "e2"}
  MaxReadFailures = 2
  MaxMoves = 4
  MaxBreaks = 2
INVARIANTS AnsweredByTheBoundModel GateDecides KeywordPagesTile AnswerAddsUp
INVARIANTS EventsCarryTheDifference PassagesKeepTheText FeedServesWhatItCounts
PROPERTIES AnswersStandOnEvidence AnswersClaimOnlyWhatWasRead
CHECK_DEADLOCK FALSE
