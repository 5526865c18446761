------------------------------ MODULE Projection ------------------------------
(***************************************************************************)
(* The two retrieval stores as views of the database.  Neo4j and           *)
(* Meilisearch are written only by meetingminer.projections: by the worker *)
(* as a job settles, by the `rebuild` command, and by the api after an     *)
(* approval; each under a file lock and then an advisory lock.  A row of   *)
(* `meeting_projection` says a meeting is projected, and the worker does   *)
(* not project a meeting that has one.                                     *)
(*                                                                         *)
(* Evidence is a version: the api accepts inputs (a drop, a speaker        *)
(* assignment), the worker's stages derive rows from them, and a view is   *)
(* the version it was built from.  The configuration does not change.      *)
(***************************************************************************)
EXTENDS Naturals, FiniteSets

CONSTANTS Meetings, Artifacts,
          MeetingOf,     \* the meeting whose moment an artifact cites
          Rebuilds,      \* invocations of `rebuild`, one shot each
          Worker, Nobody, Torn,
          Ghost,         \* a dead process's database session, not yet closed
          MaxVersions,   \* bound: inputs accepted per meeting
          MaxFaults, MaxCrashes

ASSUME MeetingOfAssumption == MeetingOf \in [Artifacts -> Meetings]
ASSUME ActorsAssumption ==
  /\ Worker \notin Rebuilds \union Artifacts /\ Rebuilds \intersect Artifacts = {}
  /\ {Nobody, Ghost} \intersect ({Worker} \union Rebuilds \union Artifacts) = {}
  /\ Nobody # Ghost /\ Nobody \notin Meetings
ASSUME BoundsAssumption ==
  MaxVersions \in Nat /\ MaxFaults \in Nat /\ MaxCrashes \in Nat /\ Torn \notin Nat

\* Whoever writes the stores; the approval of an artifact is named by it.
Actors == {Worker} \union Rebuilds \union Artifacts
Absent == 0
Views == 0..MaxVersions

VARIABLES source,     \* the latest input the api has accepted
          evidence,   \* the input the evidence rows derive from
          complete,   \* meetings whose evidence stages have settled
          extracted,  \* the evidence the retained extraction documents are of
          unextracted,\* meetings whose extract stage is queued
          augmented,  \* meetings whose drop declares `augments`
          job,        \* status of the meeting's job
          published,  \* artifacts in state published
          row         \* meeting_projection: none, or how far it got

VARIABLES graph, cites,               \* Neo4j: meetings, and artifacts with their CITES
          text, vectors, docs, hits   \* Meilisearch: moments and chunks, documents, artifacts

VARIABLES fileLock,   \* actors in the process that holds the flock
          pgLock,     \* holder of the advisory lock
          pc, held,   \* the worker's pass, and the meeting of its job
          op          \* each actor's projection call

VARIABLES faults, crashes,
          excused     \* history: meetings left to a targeted rebuild

database == <<source, evidence, complete, extracted, unextracted, augmented, job, published>>
neo4j == <<graph, cites>>
meili == <<text, vectors, docs, hits>>
stores == <<graph, cites, text, vectors, docs, hits>>
locks == <<fileLock, pgLock>>
bounds == <<faults, crashes>>
vars == <<source, evidence, complete, extracted, unextracted, augmented, job, published,
          row, graph, cites, text, vectors, docs, hits, fileLock, pgLock, pc, held, op,
          faults, crashes, excused>>

Rest == [at |-> "rest", kind |-> "none", meeting |-> Nobody,
         read |-> Absent, docs |-> Absent, arts |-> {}, todo |-> {}]
Call(kind, m) == [Rest EXCEPT !.at = "waiting", !.kind = kind, !.meeting = m]

Init ==
  /\ source = [m \in Meetings |-> 0] /\ evidence = [m \in Meetings |-> 0]
  /\ complete = {} /\ extracted = [m \in Meetings |-> 0] /\ unextracted = {}
  /\ augmented = {} /\ job = [m \in Meetings |-> "none"] /\ published = {}
  /\ row = [m \in Meetings |-> "none"]
  /\ graph = [m \in Meetings |-> Absent] /\ cites = [a \in Artifacts |-> Absent]
  /\ text = [m \in Meetings |-> Absent] /\ vectors = {}
  /\ docs = [m \in Meetings |-> Absent] /\ hits = [a \in Artifacts |-> Absent]
  /\ fileLock = {} /\ pgLock = Nobody
  /\ pc = "idle" /\ held = Nobody
  /\ op = [a \in Actors |-> Rest]
  /\ faults = 0 /\ crashes = 0 /\ excused = {}

-----------------------------------------------------------------------------
(* The api.                                                                *)

\* An input is accepted and the stages it re-arms are queued.
Accept(m) ==
  /\ source[m] < MaxVersions
  /\ source' = [source EXCEPT ![m] = @ + 1]
  /\ job' = [job EXCEPT ![m] = "queued"]
  /\ complete' = complete \ {m}
  /\ UNCHANGED <<evidence, extracted, published, row, stores, locks, pc, held, op, bounds, excused>>

Ingest(m) ==
  /\ job[m] = "none"
  /\ Accept(m)
  /\ unextracted' = unextracted \union {m}
  /\ UNCHANGED augmented

\* A drop that declares `augments`; extract keeps its checkpoint.
Augment(m) ==
  /\ job[m] = "done"
  /\ Accept(m)
  /\ augmented' = augmented \union {m}
  /\ UNCHANGED unextracted

AssignSpeaker(m) ==
  /\ evidence[m] # 0 /\ job[m] # "running"
  /\ Accept(m)
  /\ unextracted' = unextracted \union {m}
  /\ UNCHANGED augmented

\* The approval's transaction has committed; its projection comes after.
Approve(a) ==
  /\ MeetingOf[a] \in complete /\ extracted[MeetingOf[a]] # 0
  /\ a \notin published
  /\ published' = published \union {a}
  /\ op' = [op EXCEPT ![a] = Call("cite", MeetingOf[a])]
  /\ UNCHANGED <<source, evidence, complete, extracted, unextracted, augmented, job,
                 row, stores, locks, pc, held, bounds, excused>>

-----------------------------------------------------------------------------
(* The two locks, in the order every writer takes them.                    *)

\* _require_current_structural_state
Projected(ms) == {m \in ms : row[m] # "none"}

\* Approvals run in threads of one process, the api; flock is per process.
SameProcess(a, b) == a = b \/ (a \in Artifacts /\ b \in Artifacts)
FileLockFree(a) == \A b \in fileLock : SameProcess(a, b)
Unlocked(a) == TRUE                                \* mutant of the next
LocksFree(a) == FileLockFree(a) /\ pgLock = Nobody
Inside(a) == op[a].at \notin {"rest", "waiting", "ended"}

FirstStep(a) == CASE op[a].kind = "rebuild" -> "drop"
                  [] a \in Rebuilds -> "next"
                  [] OTHER -> "read"
Targets(a) == IF op[a].kind = "embedOnly" THEN Projected(op[a].todo) ELSE op[a].todo

AcquireLocks(a) ==
  /\ op[a].at = "waiting" /\ LocksFree(a)
  /\ fileLock' = fileLock \union {a} /\ pgLock' = a
  /\ op' = [op EXCEPT ![a] = [@ EXCEPT !.at = FirstStep(a), !.todo = Targets(a)]]
  /\ UNCHANGED <<database, row, stores, pc, held, bounds, excused>>

\* What a call leaves behind when it ends, and whom it lets in.
Ended(a) == IF a = Worker THEN Rest ELSE [Rest EXCEPT !.at = "ended"]
Leave(a) ==
  /\ op' = [op EXCEPT ![a] = Ended(a)]
  /\ fileLock' = fileLock \ {a}
  /\ pgLock' = IF pgLock = a THEN Nobody ELSE pgLock

\* Only the worker and the approvals had a view to bring up to date.
Owes(a) == IF a \in Rebuilds THEN {} ELSE {op[a].meeting}

\* The flock is another process's until the wait times out, or the advisory
\* lock, which is only tried, is a sibling thread's or a dead session's.
Refused(a) ==
  /\ op[a].at = "waiting"
  /\ ~LocksFree(a)
  /\ Leave(a)
  /\ excused' = excused \union Owes(a)
  /\ UNCHANGED <<database, row, stores, pc, held, bounds>>

-----------------------------------------------------------------------------
(* The steps of a call, once inside.                                       *)

Structural(a) == op[a].kind \in {"full", "rebuild", "scoped"}
EmbedOnly(a) == op[a].kind \in {"embed", "embedOnly"}
ArtifactsOf(m) == {a \in Artifacts : MeetingOf[a] = m}

\* This meeting is dealt with: a rebuild goes on to its next target.
Finish(a) ==
  IF a \in Rebuilds
  THEN /\ op' = [op EXCEPT ![a].at = "next", ![a].meeting = Nobody]
       /\ UNCHANGED locks
  ELSE Leave(a)

\* _require_current_structural_state, repeated under the locks.
NotStructural(a) == op[a].kind = "embed" /\ row[op[a].meeting] = "none"
RefuseEmbedding(a) ==
  /\ op[a].at = "read" /\ NotStructural(a)
  /\ Finish(a)
  /\ excused' = excused \union {op[a].meeting}
  /\ UNCHANGED <<database, row, stores, pc, held, bounds>>

\* What a call projects is read once it holds the locks.
EvidenceAlone(a) ==                                \* mutant of the next
  LET m == op[a].meeting IN
  [op[a] EXCEPT !.read = evidence[m], !.docs = extracted[m],
                !.arts = IF a \in Artifacts THEN {a} ELSE {}]
Reading(a) ==
  LET m == op[a].meeting IN
  [op[a] EXCEPT !.read = evidence[m], !.docs = extracted[m],
                !.arts = IF a \in Artifacts THEN {a} ELSE published \intersect ArtifactsOf(m)]
FirstWrite(a) == CASE Structural(a) -> "graph" [] EmbedOnly(a) -> "embed"
                   [] op[a].kind = "docs" -> "docs" [] OTHER -> "cite"
Read(a) ==
  /\ op[a].at = "read" /\ ~NotStructural(a)
  /\ op' = [op EXCEPT ![a] = [Reading(a) EXCEPT !.at = FirstWrite(a)]]
  /\ UNCHANGED <<database, row, stores, locks, pc, held, bounds, excused>>

\* The artifact entries of meeting m, replaced by those the call has read.
Replaced(view, a) ==
  [x \in Artifacts |-> IF MeetingOf[x] # op[a].meeting THEN view[x]
                       ELSE IF x \in op[a].arts THEN op[a].read ELSE Absent]

WriteGraph(a) ==
  /\ op[a].at = "graph"
  /\ graph' = [graph EXCEPT ![op[a].meeting] = op[a].read]
  /\ cites' = Replaced(cites, a)
  /\ op' = [op EXCEPT ![a].at = "search"]
  /\ UNCHANGED <<database, row, meili, locks, pc, held, bounds, excused>>

WriteSearch(a) ==
  LET m == op[a].meeting IN
  /\ op[a].at = "search"
  /\ text' = [text EXCEPT ![m] = op[a].read] /\ vectors' = vectors \ {m}
  /\ docs' = [docs EXCEPT ![m] = op[a].docs] /\ hits' = Replaced(hits, a)
  /\ op' = [op EXCEPT ![a].at = "record"]
  /\ UNCHANGED <<database, row, neo4j, locks, pc, held, bounds, excused>>

\* What the call has read is still what the database holds.
UpToDate(a) ==
  LET m == op[a].meeting IN
  /\ op[a].read = evidence[m] /\ op[a].docs = extracted[m]
  /\ published \intersect ArtifactsOf(m) \subseteq op[a].arts

RecordStructural(a) ==
  LET m == op[a].meeting IN
  /\ op[a].at = "record"
  /\ row' = [row EXCEPT ![m] = "structural"]
  /\ excused' = IF UpToDate(a) THEN excused \ {m} ELSE excused
  /\ op' = [op EXCEPT ![a].at = "embed"]
  /\ UNCHANGED <<database, stores, locks, pc, held, bounds>>

\* The model host is down, or the rebuild is --structural-only: no failure, also
\* when a pass that died here before has left the documents torn.
SkipEmbedding(a) ==
  LET m == op[a].meeting IN
  /\ op[a].at = "embed"
  /\ excused' = IF text[m] = Torn THEN excused \union {m} ELSE excused
  /\ Finish(a)
  /\ UNCHANGED <<database, row, stores, pc, held, bounds>>

WriteVectors(a) ==
  LET m == op[a].meeting IN
  /\ op[a].at = "embed"
  /\ text' = [text EXCEPT ![m] = op[a].read] /\ vectors' = vectors \union {m}
  /\ op' = [op EXCEPT ![a].at = "stamp"]
  /\ UNCHANGED <<database, row, neo4j, docs, hits, locks, pc, held, bounds, excused>>

\* The row may be gone by now: an invalidation takes no lock.
RecordEmbedded(a) ==
  LET m == op[a].meeting IN
  /\ op[a].at = "stamp"
  /\ row' = [row EXCEPT ![m] = IF @ = "none" THEN "none" ELSE "embedded"]
  /\ Finish(a)
  /\ UNCHANGED <<database, stores, pc, held, bounds, excused>>

WriteDocuments(a) ==
  /\ op[a].at = "docs"
  /\ docs' = [docs EXCEPT ![op[a].meeting] = op[a].docs]
  /\ Finish(a)
  /\ UNCHANGED <<database, row, neo4j, text, vectors, hits, pc, held, bounds, excused>>

\* An approval adds its artifact and the edges to the moments it cites; a moment
\* the graph has not got fails it before anything is written.
CiteArtifact(a) ==
  /\ op[a].at = "cite" /\ graph[op[a].meeting] # Absent
  /\ cites' = [cites EXCEPT ![a] = op[a].read]
  /\ op' = [op EXCEPT ![a].at = "hit"]
  /\ UNCHANGED <<database, row, graph, meili, locks, pc, held, bounds, excused>>

MomentMissing(a) ==
  /\ op[a].at = "cite" /\ graph[op[a].meeting] # op[a].read
  /\ Finish(a)
  /\ excused' = excused \union {op[a].meeting}
  /\ UNCHANGED <<database, row, stores, pc, held, bounds>>

AddHit(a) ==
  /\ op[a].at = "hit"
  /\ hits' = [hits EXCEPT ![a] = op[a].read]
  /\ Finish(a)
  /\ UNCHANGED <<database, row, neo4j, text, vectors, docs, pc, held, bounds, excused>>

-----------------------------------------------------------------------------
(* The rebuild command.                                                    *)

\* Its targets are listed before it asks for the locks.
StartRebuild(c) ==
  /\ op[c].at = "rest"
  /\ \/ op' = [op EXCEPT ![c] = [Call("rebuild", Nobody) EXCEPT !.todo = complete]]
     \/ \E m \in Meetings :
          op' = [op EXCEPT ![c] = [Call("scoped", Nobody) EXCEPT !.todo = {m}]]
     \/ LET resumable == {m \in complete : row[m] = "structural"} IN
        /\ resumable # {}
        /\ op' = [op EXCEPT ![c] = [Call("embedOnly", Nobody) EXCEPT !.todo = resumable]]
  /\ UNCHANGED <<database, row, stores, locks, pc, held, bounds, excused>>

EmptyStores ==
  /\ graph' = [m \in Meetings |-> Absent] /\ cites' = [a \in Artifacts |-> Absent]
  /\ text' = [m \in Meetings |-> Absent] /\ vectors' = {}
  /\ docs' = [m \in Meetings |-> Absent] /\ hits' = [a \in Artifacts |-> Absent]

DropStores(c) ==
  /\ op[c].at = "drop"
  /\ EmptyStores
  /\ op' = [op EXCEPT ![c].at = "forget"]
  /\ UNCHANGED <<database, row, locks, pc, held, bounds, excused>>

RowsForgotten(c) == [m \in Meetings |-> "none"]
\* A meeting that became complete since the listing is wiped and not a target.
ForgetRows(c) ==
  /\ op[c].at = "forget"
  /\ row' = RowsForgotten(c)
  /\ excused' = excused \union (complete \ op[c].todo)
  /\ op' = [op EXCEPT ![c].at = "next"]
  /\ UNCHANGED <<database, stores, locks, pc, held, bounds>>

NextTarget(c, m) ==
  /\ op[c].at = "next" /\ m \in op[c].todo
  /\ op' = IF m \in complete
           THEN [op EXCEPT ![c].at = "read", ![c].meeting = m, ![c].todo = @ \ {m}]
           ELSE [op EXCEPT ![c].todo = @ \ {m}]
  /\ UNCHANGED <<database, row, stores, locks, pc, held, bounds, excused>>

EndRebuild(c) ==
  /\ op[c].at = "next" /\ op[c].todo = {}
  /\ Leave(c)
  /\ UNCHANGED <<database, row, stores, pc, held, bounds, excused>>

-----------------------------------------------------------------------------
(* The worker's pass over one job.                                         *)

Claim(m) ==
  /\ pc = "idle" /\ job[m] = "queued"
  /\ job' = [job EXCEPT ![m] = "running"]
  /\ pc' = "claimed" /\ held' = m
  /\ UNCHANGED <<source, evidence, complete, extracted, unextracted, augmented, published,
                 row, stores, locks, op, bounds, excused>>

IdlePoll ==
  /\ pc = "idle" /\ \A m \in Meetings : job[m] # "queued"
  /\ UNCHANGED vars

\* Only a drop that augments a meeting forgets the meeting's row, with no lock.
Invalidated == IF held \in augmented THEN [row EXCEPT ![held] = "none"] ELSE row
Mint ==
  /\ pc = "claimed"
  /\ row' = Invalidated
  /\ pc' = "stages"
  /\ UNCHANGED <<database, stores, locks, held, op, bounds, excused>>

InvalidationFails ==
  /\ pc = "claimed" /\ held \in augmented /\ faults < MaxFaults
  /\ faults' = faults + 1
  /\ excused' = excused \union {held}
  /\ pc' = "stages"
  /\ UNCHANGED <<database, row, stores, locks, held, op, crashes>>

\* The meeting is recorded as projected, or is about to be from an older read.
Standing(m) ==
  \/ row[m] # "none"
  \/ \E a \in Actors : /\ op[a].meeting = m /\ Structural(a)
                       /\ op[a].at \in {"graph", "search", "record"}

\* The evidence stages rewrite the rows and re-anchor what is published.
CommitEvidence ==
  /\ pc = "stages" /\ held \notin complete
  /\ evidence' = [evidence EXCEPT ![held] = source[held]]
  /\ excused' = IF Standing(held) /\ evidence[held] # source[held]
                THEN excused \union {held} ELSE excused
  /\ pc' = "committed"
  /\ UNCHANGED <<source, complete, extracted, unextracted, augmented, job, published,
                 row, stores, locks, held, op, bounds>>

Checkpoint ==
  /\ pc = "committed"
  /\ complete' = complete \union {held}
  /\ pc' = "stages"
  /\ UNCHANGED <<source, evidence, extracted, unextracted, augmented, job, published,
                 row, stores, locks, held, op, bounds, excused>>

AnyRowWillDo(m) == IF row[m] = "none" THEN "full" ELSE "none"    \* mutant of the next
ProjectionAction(m) == CASE row[m] = "none" -> "full"
                         [] row[m] = "structural" -> "embed"
                         [] OTHER -> "none"

\* _maybe_project, once per pass; the row is read before the locks are asked for.
MaybeProject ==
  /\ pc = "stages" /\ held \in complete
  /\ op' = IF ProjectionAction(held) = "none" THEN op
           ELSE [op EXCEPT ![Worker] = Call(ProjectionAction(held), held)]
  /\ pc' = "extract"
  /\ UNCHANGED <<database, row, stores, locks, held, bounds, excused>>

CommitExtract ==
  /\ pc = "extract" /\ op[Worker] = Rest /\ held \in unextracted
  /\ extracted' = [extracted EXCEPT ![held] = evidence[held]]
  /\ unextracted' = unextracted \ {held}
  /\ UNCHANGED <<source, evidence, complete, augmented, job, published,
                 row, stores, locks, pc, held, op, bounds, excused>>

MaybeProjectDocuments ==
  /\ pc = "extract" /\ op[Worker] = Rest /\ held \notin unextracted
  /\ op' = [op EXCEPT ![Worker] = Call("docs", held)]
  /\ pc' = "settled"
  /\ UNCHANGED <<database, row, stores, locks, held, bounds, excused>>

FinishJob ==
  /\ pc = "settled" /\ op[Worker] = Rest
  /\ job' = [job EXCEPT ![held] = "done"]
  /\ pc' = "idle" /\ held' = Nobody
  /\ UNCHANGED <<source, evidence, complete, extracted, unextracted, augmented, published,
                 row, stores, locks, op, bounds, excused>>

-----------------------------------------------------------------------------
(* Failures.                                                               *)

\* What a write cut short leaves: the graph's is a transaction, the search
\* engine deletes and then adds.
CutShort(a) ==
  LET m == op[a].meeting IN
  \/ UNCHANGED stores
  \/ /\ op[a].at = "search"
     /\ text' = [text EXCEPT ![m] = Torn] /\ vectors' = vectors \ {m}
     /\ docs' = [docs EXCEPT ![m] = Absent]
     /\ hits' = [x \in Artifacts |-> IF MeetingOf[x] = m THEN Absent ELSE hits[x]]
     /\ UNCHANGED neo4j
  \/ /\ op[a].at = "embed"
     /\ text' = [text EXCEPT ![m] = Torn] /\ vectors' = vectors \ {m}
     /\ UNCHANGED <<neo4j, docs, hits>>
  \/ /\ op[a].at = "docs"
     /\ docs' = [docs EXCEPT ![m] = Absent]
     /\ UNCHANGED <<neo4j, text, vectors, hits>>
  \/ /\ op[a].at = "drop"
     /\ graph' = [x \in Meetings |-> Absent] /\ cites' = [x \in Artifacts |-> Absent]
     /\ UNCHANGED meili

\* Whose views a call that fails here leaves unknown.
Doubtful(a) == IF op[a].kind = "rebuild" /\ op[a].at \in {"drop", "forget"} THEN Meetings
               ELSE {op[a].meeting} \ {Nobody}

\* A store or the model host fails: swallowed by the worker and the api, noted
\* by a rebuild, which goes on unless it had not begun.
StoreFails(a) ==
  /\ op[a].at \in {"graph", "search", "embed", "docs", "cite", "hit", "drop"}
  /\ faults < MaxFaults /\ faults' = faults + 1
  /\ CutShort(a)
  /\ IF op[a].at = "drop" THEN Leave(a) ELSE Finish(a)
  /\ excused' = excused \union Doubtful(a)
  /\ UNCHANGED <<database, row, pc, held, crashes>>

Dies(actors) ==
  /\ crashes < MaxCrashes /\ crashes' = crashes + 1
  /\ fileLock' = fileLock \ actors
  /\ pgLock' = IF pgLock \in actors THEN Ghost ELSE pgLock
  /\ UNCHANGED faults

CrashRebuild(c) ==
  /\ Inside(c)
  /\ Dies({c})
  /\ CutShort(c)
  /\ excused' = excused \union (IF op[c].kind = "rebuild" THEN Meetings ELSE Doubtful(c))
  /\ op' = [op EXCEPT ![c] = Ended(c)]
  /\ UNCHANGED <<database, row, pc, held>>

Approving == {a \in Artifacts : op[a].at = "waiting" \/ Inside(a)}
CrashApi ==
  /\ Approving # {}
  /\ Dies(Artifacts)
  /\ excused' = excused \union {MeetingOf[a] : a \in Approving}
  /\ op' = [a \in Actors |-> IF a \in Approving THEN Ended(a) ELSE op[a]]
  /\ UNCHANGED <<database, row, stores, pc, held>>

\* The restarted worker requeues the job and does what its row says: a row
\* another writer has left there meanwhile hides what was cut short.
Hidden(a) == \/ op[a].at \in {"search", "record"} /\ row[op[a].meeting] # "none"
             \/ op[a].at = "embed" /\ row[op[a].meeting] = "embedded"
CrashWorker ==
  /\ pc # "idle"
  /\ Dies({Worker})
  /\ CutShort(Worker)
  /\ excused' = IF Hidden(Worker) THEN excused \union {held} ELSE excused
  /\ op' = [op EXCEPT ![Worker] = Rest]
  /\ job' = [job EXCEPT ![held] = "queued"]
  /\ pc' = "idle" /\ held' = Nobody
  /\ UNCHANGED <<source, evidence, complete, extracted, unextracted, augmented, published, row>>

SessionEnds ==
  /\ pgLock = Ghost /\ pgLock' = Nobody
  /\ UNCHANGED <<database, row, stores, fileLock, pc, held, op, bounds, excused>>

-----------------------------------------------------------------------------
Api == \/ \E m \in Meetings : Ingest(m) \/ Augment(m) \/ AssignSpeaker(m)
       \/ \E a \in Artifacts : Approve(a)

Projecting(a) ==
  \/ AcquireLocks(a) \/ Refused(a) \/ RefuseEmbedding(a) \/ Read(a)
  \/ WriteGraph(a) \/ WriteSearch(a) \/ RecordStructural(a)
  \/ SkipEmbedding(a) \/ WriteVectors(a) \/ RecordEmbedded(a)
  \/ WriteDocuments(a) \/ CiteArtifact(a) \/ MomentMissing(a) \/ AddHit(a)

Rebuilding(c) ==
  \/ StartRebuild(c) \/ DropStores(c) \/ ForgetRows(c) \/ EndRebuild(c)
  \/ \E m \in Meetings : NextTarget(c, m)

Working ==
  \/ \E m \in Meetings : Claim(m)
  \/ Mint \/ CommitEvidence \/ Checkpoint \/ MaybeProject
  \/ CommitExtract \/ MaybeProjectDocuments \/ FinishJob

Failing ==
  \/ InvalidationFails \/ CrashApi \/ CrashWorker \/ SessionEnds
  \/ \E a \in Actors : StoreFails(a)
  \/ \E c \in Rebuilds : CrashRebuild(c)

Next == \/ Api \/ Working \/ IdlePoll \/ Failing
        \/ \E a \in Actors : Projecting(a)
        \/ \E c \in Rebuilds : Rebuilding(c)

Spec == Init /\ [][Next]_vars

-----------------------------------------------------------------------------
(* Properties.                                                             *)

Steps == {"rest", "waiting", "read", "graph", "search", "record", "embed", "stamp",
          "docs", "cite", "hit", "drop", "forget", "next", "ended"}
Kinds == {"none", "full", "embed", "docs", "cite", "rebuild", "scoped", "embedOnly"}
Calls == [at : Steps, kind : Kinds, meeting : Meetings \union {Nobody},
          read : Views, docs : Views, arts : SUBSET Artifacts, todo : SUBSET Meetings]

\* Every variable has its type.
TypeOK ==
  /\ source \in [Meetings -> Views] /\ evidence \in [Meetings -> Views]
  /\ complete \subseteq Meetings /\ extracted \in [Meetings -> Views]
  /\ unextracted \subseteq Meetings /\ augmented \subseteq Meetings
  /\ job \in [Meetings -> {"none", "queued", "running", "done"}]
  /\ published \subseteq Artifacts
  /\ row \in [Meetings -> {"none", "structural", "embedded"}]
  /\ graph \in [Meetings -> Views] /\ cites \in [Artifacts -> Views]
  /\ text \in [Meetings -> Views \union {Torn}] /\ vectors \subseteq Meetings
  /\ docs \in [Meetings -> Views] /\ hits \in [Artifacts -> Views]
  /\ fileLock \subseteq Actors /\ pgLock \in Actors \union {Nobody, Ghost}
  /\ pc \in {"idle", "claimed", "stages", "committed", "extract", "settled"}
  /\ held \in Meetings \union {Nobody}
  /\ op \in [Actors -> Calls]
  /\ faults \in 0..MaxFaults /\ crashes \in 0..MaxCrashes
  /\ excused \subseteq Meetings

Calm == \A a \in Actors : ~Inside(a) /\ op[a].at # "waiting"
Untouched(m) == \A a \in Actors : Inside(a) => op[a].meeting # m /\ op[a].kind # "rebuild"

\* A meeting_projection row tells the truth whenever nobody is projecting the
\* meeting: both stores hold it, at one and the same version, with vectors if the
\* row says embedded; whatever was re-run, invalidated, rebuilt or approved meanwhile.
\* Only a worker that died embedding leaves torn documents, for its next pass to embed.
ToBeEmbedded(m) == text[m] = Torn /\ row[m] = "structural" /\ job[m] # "done"
RowIsHonest ==
  \A m \in Meetings \ excused : row[m] # "none" /\ Untouched(m) =>
    /\ graph[m] # Absent /\ (text[m] = graph[m] \/ ToBeEmbedded(m))
    /\ row[m] = "embedded" => m \in vectors

\* Once its job is done and no call is under way, a meeting is in both stores as
\* the database has it, its extraction documents too; crashes of the worker and
\* full rebuilds included (runner._maybe_project, _maybe_project_documents).
EvidenceReachesStores ==
  Calm => \A m \in Meetings \ excused : job[m] = "done" =>
    /\ row[m] # "none"
    /\ graph[m] = evidence[m] /\ text[m] = evidence[m] /\ docs[m] = extracted[m]

\* ... and so is what was published of it, citing the moments as they are now,
\* although an approval and a projection of its meeting wait for each other.
PublishedReachesStores ==
  Calm => \A a \in published : MeetingOf[a] \notin excused /\ job[MeetingOf[a]] = "done" =>
    cites[a] = evidence[MeetingOf[a]] /\ hits[a] = evidence[MeetingOf[a]]

\* No writer puts back an older view than the one in the store, however long it
\* waited for the locks: what is written was read under them.
Newer(view, later, x) == view[x] \in Nat /\ later[x] \in Nat \ {Absent} => later[x] >= view[x]
NoneOlder ==
  /\ \A m \in Meetings : Newer(graph, graph', m) /\ Newer(text, text', m) /\ Newer(docs, docs', m)
  /\ \A a \in Artifacts : Newer(cites, cites', a) /\ Newer(hits, hits', a)
NoOlderView == [][NoneOlder]_vars

\* The advisory lock is held by whoever is inside; a view is never ahead of the
\* database, nor of what the call that is to replace it has read.
HasRead(a) == op[a].at \in {"graph", "search", "record", "embed", "stamp", "docs", "cite", "hit"}
Behind(view, bound) == view \in Nat => view <= bound
ViewsWithin(m, version, documents) ==
  /\ Behind(graph[m], version) /\ Behind(text[m], version) /\ Behind(docs[m], documents)
  /\ \A x \in ArtifactsOf(m) : Behind(cites[x], version) /\ Behind(hits[x], version)
LockHeld == \A a \in Actors : Inside(a) => pgLock = a
NamesMeeting(a) == \/ op[a].at = "read" \/ HasRead(a)
                   \/ op[a].at = "waiting" /\ a \notin Rebuilds
Nameable(a) == IF a \in Artifacts THEN {MeetingOf[a]} ELSE Meetings
CallShape == \A a \in Actors : NamesMeeting(a) => op[a].meeting \in Nameable(a)
WorkerShape == pc # "idle" => held \in Meetings
ViewsBehind ==
  \A m \in Meetings : /\ extracted[m] <= evidence[m] /\ evidence[m] <= source[m]
                      /\ ViewsWithin(m, evidence[m], extracted[m])
ReadsAhead ==
  \A a \in Actors : HasRead(a) =>
    /\ op[a].read <= evidence[op[a].meeting] /\ op[a].docs <= extracted[op[a].meeting]
    /\ ViewsWithin(op[a].meeting, op[a].read, op[a].docs)
IInv == TypeOK /\ LockHeld /\ CallShape /\ WorkerShape /\ ViewsBehind /\ ReadsAhead

\* What _require_current_structural_state promises of an embedding pass: it never
\* completes over chunks that are not those of the graph.
StoresAgree ==
  \A m \in Meetings : row[m] = "embedded" /\ Untouched(m) => text[m] = graph[m]
=============================================================================
