------------------------------- MODULE Reading -------------------------------
(***************************************************************************)
(* What readers are told.  Each behaviour is of one component, chosen at   *)
(* the start: a question answered, the status, the pages of a search, a    *)
(* thread's timeline, the live list of jobs; or of one of the algorithms   *)
(* they are computed with, over an input it is given.                      *)
(***************************************************************************)
EXTENDS Naturals, Sequences, FiniteSets

CONSTANTS
  Inputs,      \* a record: for each algorithm, what it may be given
  None, NoId,
  \* ModelSelection, of a question and of the status
  Bindings, Default, Fallback,
  \* Chat
  Moments, Artifacts, SourceOf, MeetingOf, Drafts, Capacity, TraversalLimit, MaxChanges,
  \* SystemStatus
  ProviderOf, NeedsKey, KeyLoaded, Ttl, MaxEvents,
  \* SearchPage
  FoundArtifacts, FoundMoments, FoundDocuments, Keywords, Semantics, Ratios, Limit, MaxPages, MaxEdits,
  \* ThreadReads
  ThreadIds, LineMoments, LineMeeting, StartMs, MeetingStart, DayPrecision, Day, Ladder, TargetBuckets,
  MomentLimit, PerMeeting, MaxWrites,
  \* JobEvents
  Jobs, Stages, Evidence, Errors, MaxReadFailures, MaxMoves, MaxBreaks

\* The limits of a prompt and of a traversal are numbers of blocks and of rows, an
\* artifact is drawn from a moment, and no id is a word; a draft is what a model
\* wrote, and the gate is given one with the moments that were retrieved and those
\* that a second read finds.
Prose == {"word", "space", "stop", "line", "open"}
ASSUME RoomAndPlaces ==
  /\ Capacity \in Nat /\ TraversalLimit \in Nat
  /\ SourceOf \in [Artifacts -> Moments]
  /\ NoId \notin Moments /\ (Moments \union {NoId}) \intersect Prose = {}
  /\ Drafts \subseteq Seq(Moments \union {NoId} \union Prose)
ASSUME GateIsGiven ==
  "gate" \in DOMAIN Inputs =>
    \A given \in Inputs["gate"] :
      given[1] \in Seq(Moments \union {NoId} \union Prose) /\ given[2] \subseteq Moments /\ given[3] \subseteq Moments

\* A page holds something; a store ranks each of its ids once, and no id is of an
\* artifact and a moment.
ASSUME SearchIsGiven ==
  /\ Limit \in Nat \ {0}
  /\ IsFiniteSet(FoundArtifacts) /\ FoundArtifacts \intersect FoundMoments = {}
  /\ \A keyword \in Keywords :
       keyword \in Seq(FoundMoments) /\ \A i, j \in DOMAIN keyword : keyword[i] = keyword[j] => i = j

\* A moment is one of a meeting, ids are compared, times are counted from some instant,
\* and a bucket has a width.
ASSUME LineIsPlaced ==
  /\ IsFiniteSet(LineMoments) /\ LineMoments \subseteq Nat
  /\ LineMeeting \in [LineMoments -> Nat] /\ StartMs \in [LineMoments -> Nat]
  /\ \A m \in LineMoments : MeetingStart[LineMeeting[m]] \in Nat
  /\ Day \in Nat \ {0} /\ Ladder \subseteq Nat \ {0} /\ TargetBuckets \in Nat \ {0}
  /\ MomentLimit \in Nat /\ PerMeeting \in Nat

VARIABLES scene,   \* which component this behaviour is of
          input,   \* what an algorithm is given
          catalog, stored, moment, published, documented, req, changes,
          offered, chosen, world, cache, request, payload, seen, events,
          searchIndex, row, ratio, page, shown, edits,
          mention, superseded, momentIndex, reader, writes,
          rows, stream, wire, list, seed, connection, moves, breaks

chatVars == <<catalog, stored, moment, published, documented, req, changes>>
answerVars == <<offered, chosen, world, cache, request, payload, seen, events>>
searchVars == <<searchIndex, row, ratio, page, shown, edits>>
timelineVars == <<mention, superseded, momentIndex, reader, writes>>
eventVars == <<rows, stream, wire, list, seed, connection, moves, breaks>>
all == <<scene, input, chatVars, answerVars, searchVars, timelineVars, eventVars>>

Questions == INSTANCE Chat
Status == INSTANCE SystemStatus WITH catalog <- offered, stored <- chosen
Search == INSTANCE SearchPage WITH
  index <- searchIndex, changes <- edits, Artifacts <- FoundArtifacts, Moments <- FoundMoments,
  Documents <- FoundDocuments, MaxChanges <- MaxEdits
Timeline == INSTANCE ThreadReads WITH
  index <- momentIndex, Moments <- LineMoments, MeetingOf <- LineMeeting, StartedAt <- MeetingStart
Events == INSTANCE JobEvents

ASSUME EventsStaged == Events!Staged

Components == {"chat", "status", "search", "threads", "events"}

-----------------------------------------------------------------------------
(* The variables of the other components stand at 0. *)
QuestionsAtRest == catalog = 0 /\ stored = 0 /\ moment = 0 /\ published = 0 /\ documented = 0 /\ req = 0 /\ changes = 0
StatusAtRest == offered = 0 /\ chosen = 0 /\ world = 0 /\ cache = 0 /\ request = 0 /\ payload = 0 /\ seen = 0 /\ events = 0
SearchAtRest == searchIndex = 0 /\ row = 0 /\ ratio = 0 /\ page = 0 /\ shown = 0 /\ edits = 0
TimelineAtRest == mention = 0 /\ superseded = 0 /\ momentIndex = 0 /\ reader = 0 /\ writes = 0
EventsAtRest == rows = 0 /\ stream = 0 /\ wire = 0 /\ list = 0 /\ seed = 0 /\ connection = 0 /\ moves = 0 /\ breaks = 0
Init ==
  /\ \/ scene \in Components /\ input = 0
     \/ scene \in DOMAIN Inputs /\ input \in Inputs[scene]
  /\ IF scene = "chat" THEN Questions!Init ELSE QuestionsAtRest
  /\ IF scene = "status" THEN Status!Init ELSE StatusAtRest
  /\ IF scene = "search" THEN Search!Init ELSE SearchAtRest
  /\ IF scene = "threads" THEN Timeline!Init ELSE TimelineAtRest
  /\ IF scene = "events" THEN Events!Init ELSE EventsAtRest
Next ==
  \/ scene = "chat" /\ Questions!Next /\ UNCHANGED <<input, answerVars, searchVars, timelineVars, eventVars, scene>>
  \/ scene = "status" /\ Status!Next /\ UNCHANGED <<input, chatVars, searchVars, timelineVars, eventVars, scene>>
  \/ scene = "search" /\ Search!Next /\ UNCHANGED <<input, chatVars, answerVars, timelineVars, eventVars, scene>>
  \/ scene = "threads" /\ Timeline!Next /\ UNCHANGED <<input, chatVars, answerVars, searchVars, eventVars, scene>>
  \/ scene = "events" /\ Events!Next /\ UNCHANGED <<input, chatVars, answerVars, searchVars, timelineVars, scene>>
  \/ scene \in DOMAIN Inputs /\ UNCHANGED all
Spec == Init /\ [][Next]_all

-----------------------------------------------------------------------------
\* Chat.AnswersStandOnEvidence: an answer cites live moments the model was shown.
AnswersStandOnEvidence == [][scene = "chat" => Questions!AnswerStands]_all
\* Chat.AnsweredByTheBoundModel: nobody but the binding in force, or its fallback, answers.
AnsweredByTheBoundModel == scene = "chat" => Questions!AnsweredByTheBoundModel

\* Citations.GateDecides: the gate of POST /chat passes what is cited throughout, and only that.
GateDecides == scene = "gate" => Questions!GateDecides(input[1], input[2], input[3])

\* SystemStatus.AnswersClaimOnlyWhatWasRead: a status is green by its own readings.
AnswersClaimOnlyWhatWasRead == [][scene = "status" => Status!ClaimsWhatWasRead]_all

\* SearchPage.KeywordPagesTile: the pages of a keyword search neither repeat nor skip.
KeywordPagesTile == scene = "search" => Search!KeywordPagesTile
\* SearchPage.PagesTile: the same of a blended search, which repeats a moment.
PagesTile == scene = "search" => Search!PagesTile

\* ThreadReads.AnswerAddsUp: the parts of a timeline add up to the total beside them.
AnswerAddsUp == scene = "threads" => Timeline!AnswerAddsUp

\* JobEvents.EventsCarryTheDifference: a row plus its events is the row that was read.
EventsCarryTheDifference == scene = "events" => Events!EventsCarryTheDifference
==============================================================================
