-------------------------- MODULE Projection_proofs --------------------------
(***************************************************************************)
(* Proofs about Projection, for any meetings, artifacts, rebuilds, inputs, *)
(* faults and crashes.                                                     *)
(***************************************************************************)
EXTENDS Projection, TLAPS

\* Nothing has been ingested and nobody is projecting.
LEMMA InitInv == Init => IInv
<1> SUFFICES ASSUME Init PROVE IInv
  OBVIOUS
<1> USE MeetingOfAssumption, ActorsAssumption, BoundsAssumption DEF Init
<1>0. \A a \in Actors : op[a] = Rest
  OBVIOUS
<1>1. TypeOK
  <2>1. Rest \in Calls
    BY DEF Rest, Calls, Steps, Kinds, Views, Absent
  <2>q. QED
    BY <2>1 DEF TypeOK, Views, Absent, Actors
<1>2. LockHeld /\ CallShape /\ WorkerShape
  BY <1>0 DEF LockHeld, CallShape, NamesMeeting, WorkerShape, Inside, HasRead, Rest
<1>3. ViewsBehind
  BY DEF ViewsBehind, ViewsWithin, Behind, Absent, ArtifactsOf
<1>4. ReadsAhead
  BY <1>0 DEF ReadsAhead, HasRead, Rest
<1>q. QED
  BY <1>1, <1>2, <1>3, <1>4 DEF IInv

\* A call that names a meeting names one there is; an approval, its artifact's.
LEMMA NamedMeeting ==
  ASSUME CallShape, NEW a \in Actors
  PROVE  /\ Nameable(a) \subseteq Meetings
         /\ NamesMeeting(a) => op[a].meeting \in Nameable(a) /\ op[a].meeting \in Meetings
  BY MeetingOfAssumption DEF CallShape, Nameable

\* A call stays a call when it moves on, and when what it reads replaces it.
LEMMA CallTyped ==
  ASSUME TypeOK, NEW a \in Actors
  PROVE  /\ op[a] \in Calls
         /\ Rest \in Calls /\ Ended(a) \in Calls
         /\ \A c \in Calls : [op EXCEPT ![a] = c] \in [Actors -> Calls]
         /\ \A c \in Calls, s \in Steps : [c EXCEPT !.at = s] \in Calls
         /\ \A k \in Kinds, m \in Meetings \union {Nobody} : Call(k, m) \in Calls
         /\ \A c \in Calls, ms \in SUBSET Meetings : [c EXCEPT !.todo = ms] \in Calls
<1> USE DEF TypeOK, Calls
<1>1. Rest \in Calls /\ Ended(a) \in Calls
  BY BoundsAssumption DEF Rest, Ended, Steps, Kinds, Views, Absent
<1>2. \A k \in Kinds, m \in Meetings \union {Nobody} : Call(k, m) \in Calls
  BY <1>1 DEF Call, Steps
<1>q. QED
  BY <1>1, <1>2

\* Whoever is inside is there alone.
LEMMA Alone ==
  ASSUME LockHeld, NEW a \in Actors, NEW b \in Actors, Inside(a), Inside(b)
  PROVE  a = b
  BY DEF LockHeld

\* What a step may do to the calls and the locks.
SameRead(b) == HasRead(b) /\ op'[b].meeting = op[b].meeting
                          /\ op'[b].read = op[b].read /\ op'[b].docs = op[b].docs
CallsKept ==
  /\ op' \in [Actors -> Calls]
  /\ fileLock' \subseteq Actors /\ pgLock' \in Actors \union {Nobody, Ghost}
  /\ LockHeld' /\ CallShape'
  /\ \A b \in Actors : HasRead(b)' => SameRead(b) \/ Read(b)

\* Steps at which a call is outside, inside, or has read its meeting.
Outer == {"rest", "waiting", "ended"}
Reader == {"graph", "search", "record", "embed", "stamp", "docs", "cite", "hit"}

\* A call replaced by one that keeps what it has read, the locks left alone.
LEMMA Moved ==
  ASSUME IInv, NEW a \in Actors, NEW c \in Calls,
         op' = [op EXCEPT ![a] = c], UNCHANGED locks,
         c.at \notin Outer => Inside(a),
         c.at = "read" \/ c.at \in Reader => c.meeting \in Nameable(a),
         c.at = "waiting" => a \in Rebuilds \/ c.meeting \in Nameable(a),
         c.at \in Reader => \/ Read(a)
                            \/ /\ HasRead(a) /\ c.meeting = op[a].meeting
                               /\ c.read = op[a].read /\ c.docs = op[a].docs
  PROVE  CallsKept
<1> USE DEF IInv, TypeOK, locks, Outer, Reader
<1>1. op' \in [Actors -> Calls] /\ op'[a] = c /\ \A b \in Actors \ {a} : op'[b] = op[b]
  OBVIOUS
<1>2. LockHeld'
  BY <1>1 DEF LockHeld, Inside
<1>3. CallShape'
  BY <1>1 DEF CallShape, NamesMeeting, HasRead
<1>4. \A b \in Actors : HasRead(b)' => SameRead(b) \/ Read(b)
  BY <1>1 DEF HasRead, SameRead
<1>q. QED
  BY <1>1, <1>2, <1>3, <1>4 DEF CallsKept

\* Nothing happens to the calls.
LEMMA Unmoved ==
  ASSUME IInv, UNCHANGED op, UNCHANGED locks
  PROVE  CallsKept
  BY DEF IInv, TypeOK, locks, LockHeld, Inside, CallShape, NamesMeeting, HasRead, SameRead, CallsKept

\* A call ends and lets the next one in.
LEMMA Left ==
  ASSUME IInv, NEW a \in Actors, Leave(a)
  PROVE  CallsKept
<1> USE DEF IInv, TypeOK, Leave
<1>0. Ended(a) \in Calls /\ Ended(a).at \in {"rest", "ended"}
  BY CallTyped DEF Ended, Rest
<1>1. op' \in [Actors -> Calls] /\ op'[a] = Ended(a) /\ \A b \in Actors \ {a} : op'[b] = op[b]
  BY <1>0
<1>2. LockHeld'
  BY <1>0, <1>1 DEF LockHeld, Inside, Outer
<1>3. CallShape'
  BY <1>0, <1>1 DEF CallShape, NamesMeeting, HasRead, Outer
<1>4. \A b \in Actors : HasRead(b)' => SameRead(b) \/ Read(b)
  BY <1>0, <1>1 DEF HasRead, SameRead, Outer
<1>5. fileLock' \subseteq Actors /\ pgLock' \in Actors \union {Nobody, Ghost}
  OBVIOUS
<1>q. QED
  BY <1>1, <1>2, <1>3, <1>4, <1>5 DEF CallsKept

\* ... or a rebuild goes on to its next target.
LEMMA Finished ==
  ASSUME IInv, NEW a \in Actors, Inside(a), Finish(a)
  PROVE  CallsKept
<1>1. CASE a \notin Rebuilds
  BY <1>1, Left DEF Finish
<1>2. CASE a \in Rebuilds
  <2> DEFINE c == [op[a] EXCEPT !.at = "next", !.meeting = Nobody]
  <2>1. op[a] \in Calls /\ op \in [Actors -> Calls]
    BY CallTyped DEF IInv, TypeOK
  <2>2. c \in Calls /\ c.at = "next"
    BY <2>1 DEF Calls, Steps
  <2>3. op' = [op EXCEPT ![a] = c] /\ UNCHANGED locks
    BY <1>2, <2>1 DEF Finish
  <2>q. QED
    BY <2>2, <2>3, Moved DEF Outer, Reader
<1>q. QED
  BY <1>1, <1>2

\* A call that only moves on to another step, inside all the while.
LEMMA MovedOn ==
  ASSUME IInv, NEW a \in Actors, NEW s \in Steps, Inside(a),
         op' = [op EXCEPT ![a].at = s], UNCHANGED locks,
         s # "waiting", s = "read" => op[a].meeting \in Nameable(a),
         s \in Reader => HasRead(a)
  PROVE  CallsKept
<1>1. op[a] \in Calls /\ op \in [Actors -> Calls]
  BY CallTyped DEF IInv, TypeOK
<1>2. [op[a] EXCEPT !.at = s] \in Calls
  BY <1>1 DEF Calls
<1>3. HasRead(a) => op[a].meeting \in Nameable(a)
  BY DEF IInv, CallShape, NamesMeeting
<1>4. op' = [op EXCEPT ![a] = [op[a] EXCEPT !.at = s]]
  BY <1>1
<1>5. /\ [op[a] EXCEPT !.at = s].at = s
      /\ [op[a] EXCEPT !.at = s].meeting = op[a].meeting
      /\ [op[a] EXCEPT !.at = s].read = op[a].read
      /\ [op[a] EXCEPT !.at = s].docs = op[a].docs
  BY <1>1 DEF Calls
<1>q. QED
  BY <1>2, <1>3, <1>4, <1>5, Moved DEF Reader

\* Every step of a projection keeps the calls and the locks in order.
LEMMA ProjectingCalls ==
  ASSUME IInv, NEW a \in Actors, Projecting(a)
  PROVE  CallsKept
<1> USE DEF IInv
<1>0. op[a] \in Calls /\ op \in [Actors -> Calls]
  BY CallTyped DEF TypeOK
<1>1. CASE AcquireLocks(a)
  <2> DEFINE c == [op[a] EXCEPT !.at = FirstStep(a), !.todo = Targets(a)]
  <2>1. FirstStep(a) \in {"drop", "next", "read"} /\ Targets(a) \subseteq Meetings
    BY <1>0 DEF Calls, Projected, FirstStep, Targets
  <2>2. c \in Calls /\ c.at = FirstStep(a) /\ c.meeting = op[a].meeting
    BY <1>0, <2>1 DEF Calls, Steps
  <2>3. op' = [op EXCEPT ![a] = c]
    BY <1>0, <1>1 DEF AcquireLocks
  <2>4. op' \in [Actors -> Calls] /\ op'[a] = c /\ \A b \in Actors \ {a} : op'[b] = op[b]
    BY <1>0, <2>2, <2>3
  <2>5. fileLock' \subseteq Actors /\ pgLock' = a
    BY <1>1 DEF AcquireLocks, TypeOK
  <2>6. \A b \in Actors : ~Inside(b)
    BY <1>1, ActorsAssumption DEF AcquireLocks, LocksFree, LockHeld, Actors
  <2>7. LockHeld'
    BY <2>4, <2>5, <2>6 DEF LockHeld, Inside
  <2>8. CallShape'
    BY <1>1, <2>1, <2>2, <2>4 DEF CallShape, NamesMeeting, HasRead, AcquireLocks, FirstStep
  <2>9. \A b \in Actors : HasRead(b)' => SameRead(b) \/ Read(b)
    BY <2>1, <2>2, <2>4 DEF HasRead, SameRead
  <2>q. QED
    BY <2>4, <2>5, <2>7, <2>8, <2>9 DEF CallsKept
<1>2. CASE Refused(a)
  BY <1>2, Left DEF Refused
<1>3. CASE RefuseEmbedding(a)
  BY <1>3, Finished DEF RefuseEmbedding, Inside
<1>4. CASE Read(a)
  <2> DEFINE c == [Reading(a) EXCEPT !.at = FirstWrite(a)]
  <2>1. FirstWrite(a) \in Reader /\ op[a].meeting \in Nameable(a) /\ op[a].meeting \in Meetings
    BY <1>4, NamedMeeting DEF Read, NamesMeeting, FirstWrite, Reader
  <2>2. Reading(a) \in Calls /\ Reading(a).meeting = op[a].meeting
    BY <1>0, <2>1 DEF Reading, Calls, TypeOK, Actors
  <2>3. c \in Calls /\ c.at = FirstWrite(a) /\ c.meeting = op[a].meeting
    BY <2>1, <2>2 DEF Calls, Steps, Reader
  <2>4. op' = [op EXCEPT ![a] = c] /\ UNCHANGED locks /\ Inside(a)
    BY <1>4 DEF Read, Inside
  <2>q. QED
    BY <1>4, <2>1, <2>3, <2>4, Moved
<1>5. CASE WriteGraph(a)
  BY <1>5, MovedOn DEF WriteGraph, Steps, Inside, HasRead
<1>6. CASE WriteSearch(a)
  BY <1>6, MovedOn DEF WriteSearch, Steps, Inside, HasRead
<1>7. CASE RecordStructural(a)
  BY <1>7, MovedOn DEF RecordStructural, Steps, Inside, HasRead
<1>8. CASE SkipEmbedding(a)
  BY <1>8, Finished DEF SkipEmbedding, Inside
<1>9. CASE WriteVectors(a)
  BY <1>9, MovedOn DEF WriteVectors, Steps, Inside, HasRead
<1>10. CASE RecordEmbedded(a)
  BY <1>10, Finished DEF RecordEmbedded, Inside
<1>11. CASE WriteDocuments(a)
  BY <1>11, Finished DEF WriteDocuments, Inside
<1>12. CASE CiteArtifact(a)
  BY <1>12, MovedOn DEF CiteArtifact, Steps, Inside, HasRead
<1>13. CASE MomentMissing(a)
  BY <1>13, Finished DEF MomentMissing, Inside
<1>14. CASE AddHit(a)
  BY <1>14, Finished DEF AddHit, Inside
<1>q. QED
  BY <1>1, <1>2, <1>3, <1>4, <1>5, <1>6, <1>7, <1>8, <1>9, <1>10, <1>11, <1>12, <1>13, <1>14
     DEF Projecting

\* ... and so does every step of a rebuild, which reads nothing itself.
LEMMA RebuildingCalls ==
  ASSUME IInv, NEW r \in Rebuilds, Rebuilding(r)
  PROVE  CallsKept
<1> USE DEF IInv
<1>0. r \in Actors /\ op[r] \in Calls /\ op \in [Actors -> Calls]
  BY CallTyped DEF TypeOK, Actors
<1>1. CASE StartRebuild(r)
  <2>1. PICK k \in Kinds, ms \in SUBSET Meetings :
          op' = [op EXCEPT ![r] = [Call(k, Nobody) EXCEPT !.todo = ms]]
    <3>1. complete \in SUBSET Meetings /\ {m \in complete : row[m] = "structural"} \in SUBSET Meetings
      BY DEF TypeOK
    <3>2. \A m \in Meetings : {m} \in SUBSET Meetings
      OBVIOUS
    <3>3. {"rebuild", "scoped", "embedOnly"} \subseteq Kinds
      BY DEF Kinds
    <3>q. QED
      BY <1>1, <3>1, <3>2, <3>3 DEF StartRebuild
  <2> DEFINE c == [Call(k, Nobody) EXCEPT !.todo = ms]
  <2>2. c \in Calls
    BY <1>0, CallTyped
  <2>3. c.at = "waiting"
    BY DEF Call, Rest
  <2>q. QED
    BY <1>0, <1>1, <2>1, <2>2, <2>3, Moved DEF StartRebuild, Outer, Reader
<1>2. CASE DropStores(r)
  BY <1>0, <1>2, MovedOn DEF DropStores, Steps, Inside, Reader
<1>3. CASE ForgetRows(r)
  BY <1>0, <1>3, MovedOn DEF ForgetRows, Steps, Inside, Reader
<1>4. CASE EndRebuild(r)
  BY <1>0, <1>4, Left DEF EndRebuild
<1>5. ASSUME NEW m \in Meetings, NextTarget(r, m) PROVE CallsKept
  <2> DEFINE c == IF m \in complete
                  THEN [op[r] EXCEPT !.at = "read", !.meeting = m, !.todo = op[r].todo \ {m}]
                  ELSE [op[r] EXCEPT !.todo = op[r].todo \ {m}]
  <2>1. c \in Calls /\ c.at \in {"read", "next"} /\ (c.at = "read" => c.meeting = m)
    BY <1>0, <1>5 DEF Calls, Steps, NextTarget
  <2>2. op' = [op EXCEPT ![r] = c] /\ UNCHANGED locks /\ Inside(r)
    BY <1>0, <1>5 DEF NextTarget, Inside
  <2>q. QED
    <3>1. Nameable(r) = Meetings
      BY ActorsAssumption DEF Nameable
    <3>2. c.at = "read" \/ c.at \in Reader => c.meeting \in Nameable(r)
      BY <2>1, <3>1 DEF Reader
    <3>3. c.at # "waiting" /\ c.at \notin Reader
      BY <2>1 DEF Reader
    <3>q. QED
      BY <1>0, <2>1, <2>2, <3>2, <3>3, Moved
<1>q. QED
  BY <1>1, <1>2, <1>3, <1>4, <1>5 DEF Rebuilding

\* The api queues what it accepts, and an approval asks for the locks.
LEMMA ApiCalls ==
  ASSUME IInv, Api
  PROVE  CallsKept
<1>1. ASSUME NEW m \in Meetings, Ingest(m) \/ Augment(m) \/ AssignSpeaker(m) PROVE CallsKept
  BY <1>1, Unmoved DEF Ingest, Augment, AssignSpeaker, Accept
<1>2. ASSUME NEW a \in Artifacts, Approve(a) PROVE CallsKept
  <2>1. a \in Actors /\ MeetingOf[a] \in Meetings /\ "cite" \in Kinds
    BY MeetingOfAssumption DEF Actors, Kinds
  <2>2. Call("cite", MeetingOf[a]) \in Calls
    BY <2>1, CallTyped DEF IInv
  <2>3. Call("cite", MeetingOf[a]).at = "waiting" /\ Call("cite", MeetingOf[a]).meeting = MeetingOf[a]
    BY DEF Call, Rest
  <2>q. QED
    BY <1>2, <2>1, <2>2, <2>3, Moved DEF Approve, Outer, Reader, Nameable
<1>q. QED
  BY <1>1, <1>2 DEF Api

\* The worker asks for the locks when its stages say so.
LEMMA WorkingCalls ==
  ASSUME IInv, Working
  PROVE  CallsKept
<1>0. Worker \in Actors
  BY DEF Actors
<1>1. ASSUME NEW k \in Kinds, op' = [op EXCEPT ![Worker] = Call(k, held)], pc # "idle", UNCHANGED locks
      PROVE  CallsKept
  <2>1. held \in Meetings
    BY <1>1 DEF IInv, WorkerShape
  <2>2. Call(k, held) \in Calls
    BY <1>0, <2>1, CallTyped DEF IInv
  <2>3. Call(k, held).at = "waiting" /\ Call(k, held).meeting = held
    BY DEF Call, Rest
  <2>q. QED
    BY <1>0, <1>1, <2>1, <2>2, <2>3, Moved, ActorsAssumption DEF Outer, Reader, Nameable
<1>2. CASE MaybeProject
  <2>1. ProjectionAction(held) \in Kinds
    BY DEF ProjectionAction, Kinds
  <2>2. CASE ProjectionAction(held) = "none"
    BY <1>2, <2>2, Unmoved DEF MaybeProject
  <2>3. CASE ProjectionAction(held) # "none"
    BY <1>1, <1>2, <2>1, <2>3 DEF MaybeProject
  <2>q. QED
    BY <2>2, <2>3
<1>3. CASE MaybeProjectDocuments
  BY <1>1, <1>3 DEF MaybeProjectDocuments, Kinds
<1>4. CASE (\E m \in Meetings : Claim(m)) \/ Mint \/ CommitEvidence \/ Checkpoint \/ CommitExtract \/ FinishJob
  BY <1>4, Unmoved DEF Claim, Mint, CommitEvidence, Checkpoint, CommitExtract, FinishJob
<1>q. QED
  BY <1>2, <1>3, <1>4 DEF Working

\* A dead process's calls end, and its session keeps the advisory lock for a while.
LEMMA Died ==
  ASSUME IInv, NEW S \in SUBSET Actors, NEW T, Dies(S),
         \A a \in S : Inside(a) => a \in T,
         op' = [a \in Actors |-> IF a \in T THEN Ended(a) ELSE op[a]]
  PROVE  CallsKept
<1>0. /\ op \in [Actors -> Calls]
      /\ \A a \in Actors : Ended(a) \in Calls /\ Ended(a).at \in {"rest", "ended"}
  BY CallTyped DEF IInv, TypeOK, Ended, Rest
<1>1. /\ op' \in [Actors -> Calls]
      /\ \A b \in Actors : op'[b].at \in {"rest", "ended"} \/ (op'[b] = op[b] /\ b \notin T)
  BY <1>0
<1> USE DEF IInv, TypeOK, Dies
<1>2. LockHeld'
  BY <1>1 DEF LockHeld, Inside
<1>3. CallShape'
  BY <1>1 DEF CallShape, NamesMeeting, HasRead
<1>4. \A b \in Actors : HasRead(b)' => SameRead(b) \/ Read(b)
  BY <1>1 DEF HasRead, SameRead
<1>5. fileLock' \subseteq Actors /\ pgLock' \in Actors \union {Nobody, Ghost}
  OBVIOUS
<1>q. QED
  BY <1>1, <1>2, <1>3, <1>4, <1>5 DEF CallsKept

\* A step at which a store may fail is one inside the locks.
LEMMA FailingCalls ==
  ASSUME IInv, Failing
  PROVE  CallsKept
<1> USE DEF IInv
<1>1. CASE InvalidationFails
  BY <1>1, Unmoved DEF InvalidationFails
<1>2. CASE CrashApi
  <2>1. Artifacts \subseteq Actors /\ \A a \in Artifacts : Inside(a) => a \in Approving
    BY DEF Actors, Approving
  <2>q. QED
    BY <1>2, <2>1, Died DEF CrashApi
<1>3. CASE CrashWorker
  <2>1. Worker \in Actors /\ Ended(Worker) = Rest
    BY DEF Actors, Ended
  <2>2. op' = [a \in Actors |-> IF a \in {Worker} THEN Ended(a) ELSE op[a]]
    BY <1>3, <2>1 DEF CrashWorker, TypeOK
  <2>q. QED
    BY <1>3, <2>1, <2>2, Died DEF CrashWorker
<1>4. CASE SessionEnds
  <2>1. Ghost \notin Actors
    BY ActorsAssumption DEF Actors
  <2>2. UNCHANGED <<op, fileLock>> /\ pgLock = Ghost /\ pgLock' = Nobody
    BY <1>4 DEF SessionEnds
  <2>q. QED
    BY <2>1, <2>2 DEF TypeOK, LockHeld, Inside, CallShape, NamesMeeting, HasRead, SameRead, CallsKept
<1>5. ASSUME NEW a \in Actors, StoreFails(a) PROVE CallsKept
  <2>1. Inside(a)
    BY <1>5 DEF StoreFails, Inside
  <2>q. QED
    BY <1>5, <2>1, Left, Finished DEF StoreFails
<1>6. ASSUME NEW r \in Rebuilds, CrashRebuild(r) PROVE CallsKept
  <2>1. r \in Actors
    BY DEF Actors
  <2>2. op' = [a \in Actors |-> IF a \in {r} THEN Ended(a) ELSE op[a]]
    BY <1>6, <2>1 DEF CrashRebuild, TypeOK
  <2>q. QED
    BY <1>6, <2>1, <2>2, Died DEF CrashRebuild
<1>q. QED
  BY <1>1, <1>2, <1>3, <1>4, <1>5, <1>6 DEF Failing

-----------------------------------------------------------------------------
(* The views.                                                              *)

\* What is done to the views of meeting m by a call that has read a version.
Rewritten(new, old, version) == new \in {old, Absent, Torn, version}
ViewsRewritten(m, version, documents) ==
  /\ Rewritten(graph'[m], graph[m], version) /\ Rewritten(text'[m], text[m], version)
  /\ Rewritten(docs'[m], docs[m], documents)
  /\ \A x \in ArtifactsOf(m) : /\ Rewritten(cites'[x], cites[x], version)
                               /\ Rewritten(hits'[x], hits[x], version)
ViewsKept == ViewsBehind' /\ ReadsAhead' /\ NoneOlder

\* Views that stay are no further ahead of a database that moves on.
LEMMA StoresStill ==
  ASSUME IInv, CallsKept, UNCHANGED stores,
         evidence' \in [Meetings -> Views], extracted' \in [Meetings -> Views],
         source' \in [Meetings -> Views],
         \A m \in Meetings : /\ evidence[m] <= evidence'[m] /\ extracted[m] <= extracted'[m]
                             /\ extracted'[m] <= evidence'[m] /\ evidence'[m] <= source'[m]
  PROVE  ViewsKept
<1> USE BoundsAssumption DEF IInv, TypeOK, stores, Views
<1>1. ViewsBehind'
  BY DEF ViewsBehind, ViewsWithin, Behind, ArtifactsOf
<1>2. ASSUME NEW b \in Actors, HasRead(b)'
      PROVE  /\ op'[b].read <= evidence'[op'[b].meeting] /\ op'[b].docs <= extracted'[op'[b].meeting]
             /\ ViewsWithin(op[b].meeting, op'[b].read, op'[b].docs)
             /\ op'[b].meeting = op[b].meeting
  <2>1. op[b] \in Calls /\ op'[b] \in Calls
    BY DEF CallsKept
  <2>2. CASE SameRead(b)
    <3>1. op[b].meeting \in Meetings
      BY <2>2, NamedMeeting DEF SameRead, NamesMeeting
    <3>q. QED
      BY <2>1, <2>2, <3>1 DEF SameRead, ReadsAhead, Calls
  <2>3. CASE Read(b)
    <3>1. op[b].meeting \in Meetings
      BY <2>3, NamedMeeting DEF Read, NamesMeeting
    <3>2. op'[b] = [Reading(b) EXCEPT !.at = FirstWrite(b)] /\ UNCHANGED <<evidence, extracted>>
      BY <2>3 DEF Read, database
    <3>3. op'[b].meeting = op[b].meeting /\ op'[b].read = evidence[op[b].meeting]
          /\ op'[b].docs = extracted[op[b].meeting]
      BY <2>1, <3>2 DEF Reading, Calls
    <3>q. QED
      BY <3>1, <3>2, <3>3 DEF ViewsBehind
  <2>q. QED
    BY <1>2, <2>2, <2>3 DEF CallsKept
<1>3. ReadsAhead'
  BY <1>2 DEF ReadsAhead, ViewsWithin, ArtifactsOf
<1>4. NoneOlder
  BY DEF NoneOlder, Newer
<1>q. QED
  BY <1>1, <1>3, <1>4 DEF ViewsKept

\* Views written by the call inside are the ones it has read, and the newest yet.
LEMMA StoresWritten ==
  ASSUME IInv, CallsKept, UNCHANGED <<evidence, extracted, source>>,
         NEW a \in Actors, HasRead(a),
         ViewsRewritten(op[a].meeting, op[a].read, op[a].docs),
         \A m \in Meetings \ {op[a].meeting} :
           graph'[m] = graph[m] /\ text'[m] = text[m] /\ docs'[m] = docs[m],
         \A x \in Artifacts \ ArtifactsOf(op[a].meeting) : cites'[x] = cites[x] /\ hits'[x] = hits[x]
  PROVE  ViewsKept
<1> USE BoundsAssumption, MeetingOfAssumption DEF IInv, TypeOK, Views, Absent
<1> DEFINE m0 == op[a].meeting
<1>0. /\ m0 \in Meetings /\ op[a] \in Calls /\ op[a].read \in Nat /\ op[a].docs \in Nat
      /\ op[a].read <= evidence[m0] /\ op[a].docs <= extracted[m0]
      /\ ViewsWithin(m0, op[a].read, op[a].docs)
  BY NamedMeeting DEF NamesMeeting, Calls, ReadsAhead
<1>1. Behind(graph'[m0], op[a].read) /\ Behind(text'[m0], op[a].read) /\ Behind(docs'[m0], op[a].docs)
  BY <1>0 DEF ViewsWithin, ViewsRewritten, Rewritten, Behind
<1>2. \A x \in ArtifactsOf(m0) : Behind(cites'[x], op[a].read) /\ Behind(hits'[x], op[a].read)
  BY <1>0 DEF ViewsWithin, ViewsRewritten, Rewritten, Behind
<1>3. ASSUME NEW m \in Meetings
      PROVE  /\ Behind(graph'[m], evidence[m]) /\ Behind(text'[m], evidence[m])
             /\ Behind(docs'[m], extracted[m])
             /\ \A x \in ArtifactsOf(m) : Behind(cites'[x], evidence[m]) /\ Behind(hits'[x], evidence[m])
  <2>1. CASE m = m0
    BY <2>1, <1>0, <1>1, <1>2 DEF Behind
  <2>2. CASE m # m0
    <3>1. ViewsWithin(m, evidence[m], extracted[m])
      BY DEF ViewsBehind
    <3>2. \A x \in ArtifactsOf(m) : x \in Artifacts \ ArtifactsOf(m0)
      BY <2>2 DEF ArtifactsOf
    <3>q. QED
      BY <2>2, <3>1, <3>2 DEF ViewsWithin
  <2>q. QED
    BY <2>1, <2>2
<1>4. ViewsBehind'
  BY <1>3 DEF ViewsBehind, ViewsWithin, ArtifactsOf
<1>5. ASSUME NEW b \in Actors, HasRead(b)'
      PROVE  b = a /\ SameRead(b)
  <2>1. ~Read(b)
    BY Alone DEF Read, HasRead, Inside
  <2>2. SameRead(b)
    BY <1>5, <2>1 DEF CallsKept
  <2>q. QED
    BY <2>2, Alone DEF SameRead, HasRead, Inside
<1>6. ReadsAhead'
  BY <1>0, <1>1, <1>2, <1>5 DEF ReadsAhead, SameRead, ViewsWithin, ArtifactsOf
<1>7. NoneOlder
  <2>1. \A m \in Meetings : Newer(graph, graph', m) /\ Newer(text, text', m) /\ Newer(docs, docs', m)
    BY <1>0 DEF Newer, ViewsWithin, ViewsRewritten, Rewritten, Behind
  <2>2. \A x \in Artifacts : Newer(cites, cites', x) /\ Newer(hits, hits', x)
    BY <1>0 DEF Newer, ViewsWithin, ViewsRewritten, Rewritten, Behind
  <2>q. QED
    BY <2>1, <2>2 DEF NoneOlder
<1>q. QED
  BY <1>4, <1>6, <1>7 DEF ViewsKept

\* Views that are dropped leave nothing to be older than.
LEMMA StoresCleared ==
  ASSUME IInv, CallsKept, UNCHANGED <<evidence, extracted, source>>,
         \A b \in Actors : ~HasRead(b) /\ ~Read(b),
         \A m \in Meetings : ViewsRewritten(m, Absent, Absent)
  PROVE  ViewsKept
<1> USE BoundsAssumption, MeetingOfAssumption DEF IInv, TypeOK, Views, Absent
<1>1. ViewsBehind'
  <2>1. ASSUME NEW m \in Meetings
        PROVE  /\ Behind(graph'[m], evidence[m]) /\ Behind(text'[m], evidence[m])
               /\ Behind(docs'[m], extracted[m])
               /\ \A x \in ArtifactsOf(m) : Behind(cites'[x], evidence[m]) /\ Behind(hits'[x], evidence[m])
    <3>1. /\ ViewsWithin(m, evidence[m], extracted[m]) /\ ViewsRewritten(m, 0, 0)
          /\ evidence[m] \in Nat /\ extracted[m] \in Nat
      BY DEF ViewsBehind
    <3>2. \A new, old : \A n \in Nat : Behind(old, n) /\ Rewritten(new, old, 0) => Behind(new, n)
      BY DEF Behind, Rewritten
    <3>q. QED
      BY <3>1, <3>2 DEF ViewsWithin, ViewsRewritten
  <2>q. QED
    BY <2>1 DEF ViewsBehind, ViewsWithin, ArtifactsOf
<1>2. ReadsAhead'
  BY DEF ReadsAhead, CallsKept, SameRead
<1>3. \A x \in Artifacts : x \in ArtifactsOf(MeetingOf[x]) /\ MeetingOf[x] \in Meetings
  BY DEF ArtifactsOf
<1>4. NoneOlder
  BY <1>3 DEF NoneOlder, Newer, ViewsRewritten, Rewritten
<1>q. QED
  BY <1>1, <1>2, <1>4 DEF ViewsKept
-----------------------------------------------------------------------------
(* Types.                                                                  *)

\* Every variable but the calls and the locks.
Typed ==
  CallsKept => TypeOK' /\ WorkerShape'

LEMMA ApiTyped ==
  ASSUME IInv, Api
  PROVE  Typed
<1> USE BoundsAssumption DEF IInv, TypeOK, Views, CallsKept, WorkerShape, Typed, stores, bounds, locks
<1>1. ASSUME NEW m \in Meetings, Ingest(m) \/ Augment(m) \/ AssignSpeaker(m) PROVE Typed
  <2>1. Accept(m) /\ unextracted' \subseteq Meetings /\ augmented' \subseteq Meetings
    BY <1>1 DEF Ingest, Augment, AssignSpeaker
  <2>q. QED
    BY <2>1 DEF Accept
<1>2. ASSUME NEW a \in Artifacts, Approve(a) PROVE Typed
  BY <1>2 DEF Approve
<1>q. QED
  BY <1>1, <1>2 DEF Api

LEMMA WorkingTyped ==
  ASSUME IInv, Working
  PROVE  Typed
<1> USE BoundsAssumption DEF IInv, TypeOK, Views, CallsKept, WorkerShape, Typed, stores, bounds, locks, database
<1>1. ASSUME NEW m \in Meetings, Claim(m) PROVE Typed
  BY <1>1 DEF Claim
<1>2. CASE Mint
  BY <1>2 DEF Mint, Invalidated
<1>3. CASE CommitEvidence
  BY <1>3 DEF CommitEvidence
<1>4. CASE Checkpoint
  BY <1>4 DEF Checkpoint
<1>5. CASE MaybeProject
  BY <1>5 DEF MaybeProject
<1>6. CASE CommitExtract
  BY <1>6 DEF CommitExtract
<1>7. CASE MaybeProjectDocuments
  BY <1>7 DEF MaybeProjectDocuments
<1>8. CASE FinishJob
  BY <1>8 DEF FinishJob
<1>q. QED
  BY <1>1, <1>2, <1>3, <1>4, <1>5, <1>6, <1>7, <1>8 DEF Working

LEMMA ProjectingTyped ==
  ASSUME IInv, NEW a \in Actors, Projecting(a)
  PROVE  Typed
<1> USE BoundsAssumption DEF IInv, TypeOK, Views, CallsKept, WorkerShape, Typed, stores, bounds, locks, database,
        neo4j, meili
<1>0. /\ op[a].read \in Views /\ op[a].docs \in Views
      /\ op[a].meeting \in Meetings \union {Nobody}
  BY CallTyped DEF Calls
<1>1. op[a].at = "read" \/ HasRead(a) \/ (op[a].at = "waiting" /\ a \notin Rebuilds) => op[a].meeting \in Meetings
  BY NamedMeeting DEF NamesMeeting
<1>2. CASE AcquireLocks(a)
  BY <1>2 DEF AcquireLocks
<1>3. CASE Refused(a)
  BY <1>1, <1>3 DEF Refused, Owes
<1>4. CASE RefuseEmbedding(a)
  BY <1>1, <1>4 DEF RefuseEmbedding
<1>5. CASE Read(a)
  BY <1>5 DEF Read
<1>6. Replaced(cites, a) \in [Artifacts -> Views] /\ Replaced(hits, a) \in [Artifacts -> Views]
  BY <1>0 DEF Replaced, Absent
<1>7. CASE WriteGraph(a)
  BY <1>0, <1>6, <1>7 DEF WriteGraph
<1>8. CASE WriteSearch(a)
  BY <1>0, <1>6, <1>8 DEF WriteSearch
<1>9. CASE RecordStructural(a)
  BY <1>9 DEF RecordStructural
<1>10. CASE SkipEmbedding(a)
  BY <1>1, <1>10 DEF SkipEmbedding, HasRead
<1>11. CASE WriteVectors(a)
  BY <1>0, <1>1, <1>11 DEF WriteVectors, HasRead
<1>12. CASE RecordEmbedded(a)
  BY <1>12 DEF RecordEmbedded
<1>13. CASE WriteDocuments(a)
  BY <1>0, <1>13 DEF WriteDocuments
<1>14. CASE CiteArtifact(a)
  BY <1>0, <1>14 DEF CiteArtifact
<1>15. CASE MomentMissing(a)
  BY <1>1, <1>15 DEF MomentMissing, HasRead
<1>16. CASE AddHit(a)
  BY <1>0, <1>16 DEF AddHit
<1>q. QED
  BY <1>2, <1>3, <1>4, <1>5, <1>7, <1>8, <1>9, <1>10, <1>11, <1>12, <1>13, <1>14, <1>15, <1>16
     DEF Projecting

LEMMA RebuildingTyped ==
  ASSUME IInv, NEW r \in Rebuilds, Rebuilding(r)
  PROVE  Typed
<1> USE BoundsAssumption DEF IInv, TypeOK, Views, CallsKept, WorkerShape, Typed, stores, bounds, locks, database
<1>1. CASE StartRebuild(r)
  BY <1>1 DEF StartRebuild
<1>2. CASE DropStores(r)
  BY <1>2 DEF DropStores, EmptyStores, Absent
<1>3. CASE ForgetRows(r)
  BY <1>3 DEF ForgetRows, RowsForgotten
<1>4. CASE EndRebuild(r)
  BY <1>4 DEF EndRebuild
<1>5. ASSUME NEW m \in Meetings, NextTarget(r, m) PROVE Typed
  BY <1>5 DEF NextTarget
<1>q. QED
  BY <1>1, <1>2, <1>3, <1>4, <1>5 DEF Rebuilding

\* What is cut short is torn or absent.
LEMMA CutShortTyped ==
  ASSUME IInv, NEW a \in Actors, CutShort(a)
  PROVE  /\ graph' \in [Meetings -> Views] /\ cites' \in [Artifacts -> Views]
         /\ text' \in [Meetings -> Views \union {Torn}] /\ vectors' \subseteq Meetings
         /\ docs' \in [Meetings -> Views] /\ hits' \in [Artifacts -> Views]
  BY BoundsAssumption DEF CutShort, IInv, TypeOK, Views, Absent, stores, neo4j, meili

LEMMA FailingTyped ==
  ASSUME IInv, Failing
  PROVE  Typed
<1> USE BoundsAssumption, MeetingOfAssumption
    DEF IInv, TypeOK, CallsKept, WorkerShape, Typed, stores, bounds, locks, database
<1>1. CASE InvalidationFails
  BY <1>1 DEF InvalidationFails
<1>2. CASE CrashApi
  BY <1>2 DEF CrashApi, Dies, Approving
<1>3. CASE CrashWorker
  <2>1. Worker \in Actors
    BY DEF Actors
  <2>q. QED
    BY <1>3, <2>1, CutShortTyped DEF CrashWorker, Dies
<1>4. CASE SessionEnds
  BY <1>4 DEF SessionEnds
<1>5. ASSUME NEW a \in Actors PROVE Doubtful(a) \subseteq Meetings
  BY CallTyped DEF Doubtful, Calls
<1>6. ASSUME NEW a \in Actors, StoreFails(a) PROVE Typed
  BY <1>5, <1>6, CutShortTyped DEF StoreFails
<1>7. ASSUME NEW r \in Rebuilds, CrashRebuild(r) PROVE Typed
  <2>1. r \in Actors
    BY DEF Actors
  <2>q. QED
    BY <1>5, <1>7, <2>1, CutShortTyped DEF CrashRebuild, Dies
<1>q. QED
  BY <1>1, <1>2, <1>3, <1>4, <1>6, <1>7 DEF Failing
-----------------------------------------------------------------------------
(* The views at each step.                                                 *)

LEMMA ApiViews ==
  ASSUME IInv, Api, CallsKept, TypeOK'
  PROVE  ViewsKept
<1>1. ASSUME NEW m \in Meetings, Ingest(m) \/ Augment(m) \/ AssignSpeaker(m) PROVE ViewsKept
  <2>1. Accept(m)
    BY <1>1 DEF Ingest, Augment, AssignSpeaker
  <2>2. UNCHANGED <<evidence, extracted, stores>> /\ source' = [source EXCEPT ![m] = @ + 1]
    BY <2>1 DEF Accept
  <2>3. \A x \in Meetings : /\ evidence[x] <= evidence'[x] /\ extracted[x] <= extracted'[x]
                            /\ extracted'[x] <= evidence'[x] /\ evidence'[x] <= source'[x]
    BY <2>2, BoundsAssumption DEF IInv, TypeOK, ViewsBehind, Views
  <2>q. QED
    BY <2>2, <2>3, StoresStill DEF TypeOK
<1>2. ASSUME NEW a \in Artifacts, Approve(a) PROVE ViewsKept
  <2>1. UNCHANGED <<source, evidence, extracted, stores>>
    BY <1>2 DEF Approve
  <2>q. QED
    BY <2>1, StoresStill, BoundsAssumption DEF IInv, TypeOK, ViewsBehind, Views
<1>q. QED
  BY <1>1, <1>2 DEF Api

\* A step that leaves the database's versions and the stores alone.
LEMMA NothingViewed ==
  ASSUME IInv, CallsKept, UNCHANGED <<source, evidence, extracted, stores>>
  PROVE  ViewsKept
  BY StoresStill, BoundsAssumption DEF IInv, TypeOK, ViewsBehind, Views

LEMMA WorkingViews ==
  ASSUME IInv, Working, CallsKept, TypeOK'
  PROVE  ViewsKept
<1> USE BoundsAssumption DEF IInv, TypeOK, ViewsBehind, Views
<1>1. CASE CommitEvidence
  <2>1. held \in Meetings /\ UNCHANGED <<source, extracted, stores>>
        /\ evidence' = [evidence EXCEPT ![held] = source[held]]
    BY <1>1 DEF CommitEvidence, WorkerShape
  <2>2. \A x \in Meetings : /\ evidence[x] <= evidence'[x] /\ extracted[x] <= extracted'[x]
                            /\ extracted'[x] <= evidence'[x] /\ evidence'[x] <= source'[x]
    BY <2>1
  <2>q. QED
    BY <2>1, <2>2, StoresStill
<1>2. CASE CommitExtract
  <2>1. held \in Meetings /\ UNCHANGED <<source, evidence, stores>>
        /\ extracted' = [extracted EXCEPT ![held] = evidence[held]]
    BY <1>2 DEF CommitExtract, WorkerShape
  <2>2. \A x \in Meetings : /\ evidence[x] <= evidence'[x] /\ extracted[x] <= extracted'[x]
                            /\ extracted'[x] <= evidence'[x] /\ evidence'[x] <= source'[x]
    BY <2>1
  <2>q. QED
    BY <2>1, <2>2, StoresStill
<1>3. CASE (\E m \in Meetings : Claim(m)) \/ Mint \/ Checkpoint \/ MaybeProject
           \/ MaybeProjectDocuments \/ FinishJob
  <2>1. UNCHANGED <<source, evidence, extracted, stores>>
    BY <1>3 DEF Claim, Mint, Checkpoint, MaybeProject, MaybeProjectDocuments, FinishJob, database
  <2>q. QED
    BY <2>1, NothingViewed
<1>q. QED
  BY <1>1, <1>2, <1>3 DEF Working

LEMMA ProjectingViews ==
  ASSUME IInv, NEW a \in Actors, Projecting(a), CallsKept
  PROVE  ViewsKept
<1> USE DEF database, neo4j, meili, stores
<1>0. HasRead(a) => op[a].meeting \in Nameable(a) /\ op[a].meeting \in Meetings
  BY NamedMeeting DEF IInv, NamesMeeting
<1>1. CASE \/ AcquireLocks(a) \/ Refused(a) \/ RefuseEmbedding(a) \/ Read(a)
           \/ RecordStructural(a) \/ SkipEmbedding(a) \/ RecordEmbedded(a) \/ MomentMissing(a)
  <2>1. UNCHANGED <<source, evidence, extracted, stores>>
    BY <1>1 DEF AcquireLocks, Refused, RefuseEmbedding, Read, RecordStructural, SkipEmbedding,
                RecordEmbedded, MomentMissing
  <2>q. QED
    BY <2>1, NothingViewed
<1> USE DEF ViewsRewritten, Rewritten, IInv, TypeOK
<1>2. CASE WriteGraph(a)
  <2>1. HasRead(a) /\ UNCHANGED <<source, evidence, extracted>>
    BY <1>2 DEF WriteGraph, HasRead
  <2>2. ViewsRewritten(op[a].meeting, op[a].read, op[a].docs)
    BY <1>0, <1>2, <2>1 DEF WriteGraph, Replaced, ArtifactsOf
  <2>3. /\ \A m \in Meetings \ {op[a].meeting} : graph'[m] = graph[m] /\ text'[m] = text[m] /\ docs'[m] = docs[m]
        /\ \A x \in Artifacts \ ArtifactsOf(op[a].meeting) : cites'[x] = cites[x] /\ hits'[x] = hits[x]
    BY <1>2 DEF WriteGraph, Replaced, ArtifactsOf
  <2>q. QED
    BY <2>1, <2>2, <2>3, StoresWritten
<1>3. CASE WriteSearch(a)
  <2>1. HasRead(a) /\ UNCHANGED <<source, evidence, extracted>>
    BY <1>3 DEF WriteSearch, HasRead
  <2>2. ViewsRewritten(op[a].meeting, op[a].read, op[a].docs)
    BY <1>0, <1>3, <2>1 DEF WriteSearch, Replaced, ArtifactsOf
  <2>3. /\ \A m \in Meetings \ {op[a].meeting} : graph'[m] = graph[m] /\ text'[m] = text[m] /\ docs'[m] = docs[m]
        /\ \A x \in Artifacts \ ArtifactsOf(op[a].meeting) : cites'[x] = cites[x] /\ hits'[x] = hits[x]
    BY <1>3 DEF WriteSearch, Replaced, ArtifactsOf
  <2>q. QED
    BY <2>1, <2>2, <2>3, StoresWritten
<1>4. CASE WriteVectors(a) \/ WriteDocuments(a) \/ CiteArtifact(a) \/ AddHit(a)
  <2>1. HasRead(a) /\ UNCHANGED <<source, evidence, extracted>>
    BY <1>4 DEF WriteVectors, WriteDocuments, CiteArtifact, AddHit, HasRead
  <2>2. ViewsRewritten(op[a].meeting, op[a].read, op[a].docs)
    BY <1>0, <1>4, <2>1 DEF WriteVectors, WriteDocuments, CiteArtifact, AddHit, ArtifactsOf
  <2>3. \A m \in Meetings \ {op[a].meeting} : graph'[m] = graph[m] /\ text'[m] = text[m] /\ docs'[m] = docs[m]
    BY <1>4 DEF WriteVectors, WriteDocuments, CiteArtifact, AddHit
  <2>4. \A x \in Artifacts \ ArtifactsOf(op[a].meeting) : cites'[x] = cites[x] /\ hits'[x] = hits[x]
    BY <1>0, <1>4, <2>1 DEF WriteVectors, WriteDocuments, CiteArtifact, AddHit, ArtifactsOf, Nameable
  <2>q. QED
    BY <2>1, <2>2, <2>3, <2>4, StoresWritten
<1>q. QED
  BY <1>1, <1>2, <1>3, <1>4 DEF Projecting

\* Nobody is reading while a rebuild drops what there is.
LEMMA DroppingAlone ==
  ASSUME LockHeld, NEW r \in Actors, op[r].at = "drop"
  PROVE  \A b \in Actors : ~HasRead(b) /\ ~Read(b)
<1>1. ASSUME NEW b \in Actors, HasRead(b) \/ Read(b) PROVE FALSE
  <2>1. Inside(b) /\ Inside(r)
    BY <1>1 DEF Inside, HasRead, Read
  <2>q. QED
    BY <1>1, <2>1, Alone DEF HasRead, Read
<1>q. QED
  BY <1>1

LEMMA RebuildingViews ==
  ASSUME IInv, NEW r \in Rebuilds, Rebuilding(r), CallsKept
  PROVE  ViewsKept
<1>1. CASE DropStores(r)
  <2>1. r \in Actors /\ op[r].at = "drop" /\ UNCHANGED <<source, evidence, extracted>> /\ EmptyStores
    BY <1>1 DEF DropStores, Actors, database
  <2>2. \A m \in Meetings : ViewsRewritten(m, Absent, Absent)
    BY <2>1 DEF EmptyStores, ViewsRewritten, Rewritten, ArtifactsOf
  <2>q. QED
    BY <2>1, <2>2, DroppingAlone, StoresCleared DEF IInv
<1>2. CASE StartRebuild(r) \/ ForgetRows(r) \/ EndRebuild(r) \/ \E m \in Meetings : NextTarget(r, m)
  <2>1. UNCHANGED <<source, evidence, extracted, stores>>
    BY <1>2 DEF StartRebuild, ForgetRows, EndRebuild, NextTarget, database
  <2>q. QED
    BY <2>1, NothingViewed
<1>q. QED
  BY <1>1, <1>2 DEF Rebuilding

\* What is cut short is as it was, absent, or torn.
LEMMA CutShortViews ==
  ASSUME IInv, CallsKept, UNCHANGED <<source, evidence, extracted>>, NEW a \in Actors, CutShort(a)
  PROVE  ViewsKept
<1> USE DEF stores, neo4j, meili, ViewsRewritten, Rewritten
<1>1. CASE UNCHANGED stores
  BY <1>1, NothingViewed
<1>2. CASE op[a].at = "drop" /\ ~UNCHANGED stores
  <2>1. \A m \in Meetings : ViewsRewritten(m, Absent, Absent)
    BY <1>2 DEF CutShort, ArtifactsOf
  <2>q. QED
    BY <1>2, <2>1, DroppingAlone, StoresCleared DEF IInv
<1>3. CASE op[a].at \in {"search", "embed", "docs"} /\ ~UNCHANGED stores
  <2>1. HasRead(a) /\ op[a].meeting \in Meetings
    BY <1>3, NamedMeeting DEF HasRead, NamesMeeting, IInv
  <2> USE DEF IInv, TypeOK, ArtifactsOf
  <2>2. ViewsRewritten(op[a].meeting, op[a].read, op[a].docs)
    BY <1>3, <2>1 DEF CutShort
  <2>3. \A m \in Meetings \ {op[a].meeting} : graph'[m] = graph[m] /\ text'[m] = text[m] /\ docs'[m] = docs[m]
    BY <1>3 DEF CutShort
  <2>4. \A x \in Artifacts \ ArtifactsOf(op[a].meeting) : cites'[x] = cites[x] /\ hits'[x] = hits[x]
    BY <1>3 DEF CutShort
  <2>q. QED
    BY <2>1, <2>2, <2>3, <2>4, StoresWritten
<1>q. QED
  BY <1>1, <1>2, <1>3 DEF CutShort

LEMMA FailingViews ==
  ASSUME IInv, Failing, CallsKept
  PROVE  ViewsKept
<1> USE DEF database
<1>1. CASE InvalidationFails \/ CrashApi \/ SessionEnds
  <2>1. UNCHANGED <<source, evidence, extracted, stores>>
    BY <1>1 DEF InvalidationFails, CrashApi, SessionEnds
  <2>q. QED
    BY <2>1, NothingViewed
<1>2. CASE CrashWorker
  <2>1. Worker \in Actors
    BY DEF Actors
  <2>q. QED
    BY <1>2, <2>1, CutShortViews DEF CrashWorker
<1>3. ASSUME NEW a \in Actors, StoreFails(a) PROVE ViewsKept
  BY <1>3, CutShortViews DEF StoreFails
<1>4. ASSUME NEW r \in Rebuilds, CrashRebuild(r) PROVE ViewsKept
  <2>1. r \in Actors
    BY DEF Actors
  <2>q. QED
    BY <1>4, <2>1, CutShortViews DEF CrashRebuild
<1>q. QED
  BY <1>1, <1>2, <1>3, <1>4 DEF Failing

-----------------------------------------------------------------------------
(* The theorems.                                                           *)

\* Every step keeps the invariant and puts back nothing older.
LEMMA StepInv ==
  ASSUME IInv, [Next]_vars
  PROVE  IInv' /\ NoneOlder
<1>1. CASE Api
  BY <1>1, ApiCalls, ApiTyped, ApiViews DEF Typed, ViewsKept, CallsKept, IInv
<1>2. CASE Working
  BY <1>2, WorkingCalls, WorkingTyped, WorkingViews DEF Typed, ViewsKept, CallsKept, IInv
<1>3. CASE Failing
  BY <1>3, FailingCalls, FailingTyped, FailingViews DEF Typed, ViewsKept, CallsKept, IInv
<1>4. ASSUME NEW a \in Actors, Projecting(a) PROVE IInv' /\ NoneOlder
  BY <1>4, ProjectingCalls, ProjectingTyped, ProjectingViews DEF Typed, ViewsKept, CallsKept, IInv
<1>5. ASSUME NEW r \in Rebuilds, Rebuilding(r) PROVE IInv' /\ NoneOlder
  BY <1>5, RebuildingCalls, RebuildingTyped, RebuildingViews DEF Typed, ViewsKept, CallsKept, IInv
<1>6. CASE UNCHANGED vars
  <2>1. UNCHANGED op /\ UNCHANGED locks /\ UNCHANGED <<source, evidence, extracted, stores>>
    BY <1>6 DEF vars, locks, stores
  <2>2. CallsKept /\ ViewsKept
    BY <2>1, Unmoved, NothingViewed
  <2>3. TypeOK' /\ WorkerShape'
    BY <1>6 DEF vars, IInv, TypeOK, WorkerShape
  <2>q. QED
    BY <2>2, <2>3 DEF CallsKept, ViewsKept, IInv
<1>q. QED
  BY <1>1, <1>2, <1>3, <1>4, <1>5, <1>6 DEF Next, IdlePoll

\* The advisory lock is with whoever is writing, no view is ahead of the database,
\* and what a call writes is no older than what it finds.
THEOREM Invariance == Spec => []IInv
<1>1. IInv /\ [Next]_vars => IInv'
  BY StepInv
<1>q. QED
  BY <1>1, InitInv, PTL DEF Spec

\* No writer puts back an older view than the one in the store.
THEOREM NothingOlder == Spec => NoOlderView
<1>1. IInv /\ [Next]_vars => [NoneOlder]_vars
  BY StepInv
<1>2. IInv /\ [Next]_vars => IInv'
  BY StepInv
<1>q. QED
  BY <1>1, <1>2, InitInv, PTL DEF Spec, NoOlderView

-----------------------------------------------------------------------------
(***************************************************************************)
(* What the projections promise once nothing is under way.                 *)
(*                                                                         *)
(* A meeting without a row is one somebody still has to project: the       *)
(* worker, before its pass asks or in the call it then made, or a rebuild  *)
(* that has forgotten the row and not come to the meeting yet.  A meeting  *)
(* with a row stands in both stores as the database has it, but for what   *)
(* a call under way still owes it; and what such a call has read is what   *)
(* the database still holds.  Nothing else is left when all calls end.     *)
(***************************************************************************)

Over == {"rest", "ended"}
Structure == {"graph", "search", "record"}
Before == {"claimed", "stages", "committed"}   \* the worker has not asked for a projection yet

\* The job of the worker's pass, and what has settled.
JobShape ==
  /\ \A m \in Meetings : job[m] = "running" <=> pc # "idle" /\ held = m
  /\ \A m \in Meetings : job[m] = "done" => m \in complete
  /\ pc \in {"extract", "settled"} => held \in complete

\* The worker's call is of the meeting it holds, and of the place it is at.
WorkerCall ==
  \/ op[Worker] = Rest
  \/ op[Worker].kind \in {"full", "embed"} /\ pc = "extract" /\ op[Worker].meeting = held
  \/ op[Worker].kind = "docs" /\ pc = "settled" /\ op[Worker].meeting = held

\* Who makes which calls, and which steps those have.
KindOf(a, kind) ==
  /\ a = Worker => kind \in {"full", "embed", "docs"}
  /\ a \in Artifacts => kind = "cite"
  /\ a \in Rebuilds => kind \in {"rebuild", "scoped", "embedOnly"}
StepOf(a, kind, at) ==
  /\ at \in Structure => kind \in {"full", "rebuild", "scoped"}
  /\ at \in {"embed", "stamp"} => kind \notin {"docs", "cite"}
  /\ at = "docs" => kind = "docs"
  /\ at \in {"cite", "hit"} => kind = "cite"
  /\ at \in {"drop", "forget"} => kind = "rebuild"
  /\ at = "next" => a \in Rebuilds
CallKinds ==
  \A a \in Actors : op[a].at \notin Over => KindOf(a, op[a].kind) /\ StepOf(a, op[a].kind, op[a].at)

\* What a call inside has written stands until it leaves.
Written(a) ==
  LET m == op[a].meeting
      mine == ArtifactsOf(m) \intersect op[a].arts
  IN /\ op[a].at \in {"search", "record"} => graph[m] = op[a].read /\ \A x \in mine : cites[x] = op[a].read
     /\ op[a].at = "record" =>
          text[m] = op[a].read /\ docs[m] = op[a].docs /\ \A x \in mine : hits[x] = op[a].read
     /\ op[a].at = "stamp" => text[m] = op[a].read
     /\ op[a].at = "hit" => cites[a] = op[a].read
     /\ op[a].at = "docs" => op[a].docs = extracted[m]
AllWritten == \A a \in Actors : Written(a)

\* What is owed to a meeting, and by whom.
Citing(x) == op[x].at \notin Over
Queued(m) == job[m] \notin {"running", "done"}
Covers(c, m) ==
  /\ op[c].kind = "rebuild" /\ op[c].at \in {"next", "read", "embed", "stamp"} \union Structure
  /\ m \in op[c].todo \/ (op[c].meeting = m /\ op[c].at \in {"read"} \union Structure)
Rebuilt(m) == \E c \in Rebuilds : Covers(c, m)
ToBeProjected(m) ==
  \/ Queued(m) \/ (held = m /\ pc \in Before) \/ Rebuilt(m)
  \/ held = m /\ op[Worker].kind = "full" /\ op[Worker].at \in {"waiting", "read"} \union Structure
ToBeVectored(m) ==
  \/ Queued(m) \/ (held = m /\ pc \in Before)
  \/ held = m /\ op[Worker].kind = "embed" /\ op[Worker].at \in {"waiting", "read", "embed"}
ToBeDocumented(m) ==
  Queued(m) \/ (held = m /\ (pc \in Before \union {"extract"} \/ op[Worker].kind = "docs"))

\* A rebuild has emptied the stores and not forgotten the rows yet.
Wiped == \E c \in Rebuilds : op[c].at = "forget"

Promised(m) == row[m] = "none" => ToBeProjected(m)
InStores(m) ==
  /\ graph[m] = evidence[m]
  /\ text[m] = evidence[m] \/ (text[m] = Torn /\ row[m] = "structural" /\ ToBeVectored(m))
  /\ docs[m] = extracted[m] \/ ToBeDocumented(m)
  /\ \A x \in published \intersect ArtifactsOf(m) : Citing(x) \/ (cites[x] = evidence[m] /\ hits[x] = evidence[m])
Stands(m) == row[m] # "none" /\ ~Wiped => InStores(m)
UpToDateCall(a, m) ==
  /\ row[m] # "none" \/ op[a].at \in Structure => op[a].read = evidence[m]
  /\ op[a].at \in Structure =>
       /\ op[a].docs = extracted[m] \/ ToBeDocumented(m)
       /\ \A x \in published \intersect ArtifactsOf(m) : x \in op[a].arts \/ Citing(x)
ReadsCurrent(m) == \A a \in Actors : HasRead(a) /\ op[a].meeting = m => UpToDateCall(a, m)
Good(m) == Promised(m) /\ Stands(m) /\ ReadsCurrent(m)

Shape == JobShape /\ WorkerCall /\ CallKinds
RInv == Shape /\ AllWritten /\ \A m \in Meetings \ excused : Good(m)

-----------------------------------------------------------------------------
(* How calls move.                                                         *)

OthersStill(a) == \A b \in Actors \ {a} : op'[b] = op[b]
SameCall(a) ==
  /\ op'[a].kind = op[a].kind /\ op'[a].meeting = op[a].meeting /\ op'[a].todo = op[a].todo
  /\ op'[a].read = op[a].read /\ op'[a].docs = op[a].docs /\ op'[a].arts = op[a].arts

LEMMA MovesTo ==
  ASSUME IInv, NEW a \in Actors, NEW s, op' = [op EXCEPT ![a].at = s]
  PROVE  OthersStill(a) /\ SameCall(a) /\ op'[a].at = s
  BY CallTyped DEF IInv, TypeOK, Calls, OthersStill, SameCall

LEMMA LeavesOver ==
  ASSUME IInv, NEW a \in Actors, Leave(a)
  PROVE  OthersStill(a) /\ op'[a] = Ended(a) /\ op'[a].at \in Over /\ (a = Worker => op'[a] = Rest)
<1>1. op' = [op EXCEPT ![a] = Ended(a)] /\ op \in [Actors -> Calls]
  BY DEF Leave, IInv, TypeOK
<1>2. Ended(a).at \in Over /\ (a = Worker => Ended(a) = Rest)
  BY DEF Ended, Rest, Over
<1>q. QED
  BY <1>1, <1>2 DEF OthersStill

LEMMA Finishes ==
  ASSUME IInv, NEW a \in Actors, Finish(a)
  PROVE  /\ OthersStill(a)
         /\ a \in Rebuilds => /\ op'[a].at = "next" /\ op'[a].kind = op[a].kind
                              /\ op'[a].todo = op[a].todo
         /\ a \notin Rebuilds => op'[a] = Ended(a) /\ op'[a].at \in Over /\ (a = Worker => op'[a] = Rest)
<1>1. CASE a \in Rebuilds
  <2>1. op' = [op EXCEPT ![a].at = "next", ![a].meeting = Nobody] /\ op \in [Actors -> Calls] /\ op[a] \in Calls
    BY <1>1, CallTyped DEF Finish, IInv, TypeOK
  <2>q. QED
    BY <1>1, <2>1 DEF OthersStill, Calls
<1>2. CASE a \notin Rebuilds
  BY <1>2, LeavesOver DEF Finish
<1>q. QED
  BY <1>1, <1>2
-----------------------------------------------------------------------------
(* The shapes.                                                             *)

LEMMA Roles ==
  /\ Worker \in Actors /\ Worker \notin Rebuilds /\ Worker \notin Artifacts
  /\ Rebuilds \subseteq Actors /\ Artifacts \subseteq Actors /\ Rebuilds \intersect Artifacts = {}
  /\ Actors = {Worker} \union Rebuilds \union Artifacts
  BY ActorsAssumption DEF Actors

\* One call moves, of the same kind or over.
LEMMA OneCall ==
  ASSUME Shape, NEW a \in Actors, OthersStill(a), UNCHANGED <<job, complete, pc, held>>,
         a = Worker => \/ op'[a] = Rest
                       \/ op[a].at # "rest" /\ op'[a].kind = op[a].kind /\ op'[a].meeting = op[a].meeting,
         op'[a].at \notin Over => KindOf(a, op'[a].kind) /\ StepOf(a, op'[a].kind, op'[a].at)
  PROVE  Shape'
<1>1. JobShape'
  BY DEF Shape, JobShape
<1>2. WorkerCall'
  <2>1. CASE a = Worker
    <3>1. Rest.at = "rest"
      BY DEF Rest
    <3>q. QED
      BY <2>1, <3>1 DEF Shape, WorkerCall
  <2>2. CASE a # Worker
    BY <2>2, Roles DEF Shape, WorkerCall, OthersStill
  <2>q. QED
    BY <2>1, <2>2
<1>3. CallKinds'
  BY DEF Shape, CallKinds, OthersStill
<1>q. QED
  BY <1>1, <1>2, <1>3 DEF Shape

\* Nobody moves.
LEMMA NoCall ==
  ASSUME Shape, UNCHANGED op, JobShape', op[Worker] = Rest \/ (pc' = pc /\ held' = held)
  PROVE  Shape'
  BY DEF Shape, WorkerCall, CallKinds

\* A call that goes on to another of its steps, or is over.
LEMMA StepShape ==
  ASSUME IInv, Shape, NEW a \in Actors, NEW s, op[a].at \notin Over,
         op' = [op EXCEPT ![a].at = s], UNCHANGED <<job, complete, pc, held>>,
         s \notin Over, StepOf(a, op[a].kind, s)
  PROVE  Shape'
<1>1. OthersStill(a) /\ SameCall(a) /\ op'[a].at = s
  BY MovesTo
<1>2. KindOf(a, op[a].kind)
  BY DEF Shape, CallKinds
<1>q. QED
  BY <1>1, <1>2, OneCall DEF SameCall, Over

LEMMA LeaveShape ==
  ASSUME IInv, Shape, NEW a \in Actors, Leave(a), UNCHANGED <<job, complete, pc, held>>
  PROVE  Shape'
  BY LeavesOver, OneCall

LEMMA FinishShape ==
  ASSUME IInv, Shape, NEW a \in Actors, op[a].at \notin Over, Finish(a), UNCHANGED <<job, complete, pc, held>>
  PROVE  Shape'
<1>1. KindOf(a, op[a].kind)
  BY DEF Shape, CallKinds
<1>2. OthersStill(a)
  BY Finishes
<1>3. CASE a \in Rebuilds
  <2>1. op'[a].at = "next" /\ op'[a].kind = op[a].kind /\ a # Worker
    BY <1>3, Finishes, Roles
  <2>2. StepOf(a, op'[a].kind, op'[a].at)
    BY <1>3, <2>1 DEF StepOf, Structure
  <2>q. QED
    BY <1>1, <1>2, <2>1, <2>2, OneCall
<1>4. CASE a \notin Rebuilds
  BY <1>2, <1>4, Finishes, OneCall
<1>q. QED
  BY <1>3, <1>4

LEMMA ProjectingShape ==
  ASSUME IInv, Shape, NEW a \in Actors, Projecting(a)
  PROVE  Shape'
<1> USE DEF database
<1>0. op[a].at \notin Over => KindOf(a, op[a].kind) /\ StepOf(a, op[a].kind, op[a].at)
  BY DEF Shape, CallKinds
<1>t. op \in [Actors -> Calls] /\ op[a] \in Calls
  BY CallTyped DEF IInv, TypeOK
<1>1. CASE AcquireLocks(a)
  <2> DEFINE c == [op[a] EXCEPT !.at = FirstStep(a), !.todo = Targets(a)]
  <2>1. op[a] \in Calls /\ op \in [Actors -> Calls]
    BY CallTyped DEF IInv, TypeOK
  <2>2. c.at = FirstStep(a) /\ c.kind = op[a].kind /\ c.meeting = op[a].meeting
    BY <2>1 DEF Calls
  <2>3. op'[a] = c /\ OthersStill(a)
    BY <1>1, <2>1 DEF AcquireLocks, OthersStill
  <2>4. StepOf(a, op[a].kind, FirstStep(a))
    BY <1>0, <1>1, Roles DEF AcquireLocks, FirstStep, StepOf, Structure, Over
  <2>5. op[a].at = "waiting" /\ UNCHANGED <<job, complete, pc, held>>
    BY <1>1 DEF AcquireLocks
  <2>q. QED
    BY <1>0, <2>2, <2>3, <2>4, <2>5, OneCall DEF Over
<1>2. CASE Refused(a)
  BY <1>2, LeaveShape DEF Refused
<1>3. CASE RefuseEmbedding(a)
  BY <1>3, FinishShape DEF RefuseEmbedding, Over
<1>4. CASE Read(a)
  <2> DEFINE c == [Reading(a) EXCEPT !.at = FirstWrite(a)]
  <2>1. op[a] \in Calls /\ op \in [Actors -> Calls]
    BY CallTyped DEF IInv, TypeOK
  <2>2. Reading(a).kind = op[a].kind /\ Reading(a).meeting = op[a].meeting /\ Reading(a) \in Calls
    <3>1. op[a].meeting \in Meetings
      BY <1>4, NamedMeeting DEF IInv, Read, NamesMeeting
    <3>q. QED
      BY <2>1, <3>1, Roles DEF Reading, Calls, IInv, TypeOK
  <2>3. c.at = FirstWrite(a) /\ c.kind = op[a].kind /\ c.meeting = op[a].meeting
    BY <2>2 DEF Calls
  <2>4. op'[a] = c /\ OthersStill(a)
    BY <1>4, <2>1 DEF Read, OthersStill
  <2>5. StepOf(a, op[a].kind, FirstWrite(a))
    BY <1>0, <1>4, Roles DEF Read, FirstWrite, Structural, EmbedOnly, KindOf, StepOf, Structure, Over
  <2>6. op[a].at = "read" /\ UNCHANGED <<job, complete, pc, held>>
    BY <1>4 DEF Read
  <2>q. QED
    BY <1>0, <2>3, <2>4, <2>5, <2>6, OneCall DEF Over
<1>5. CASE WriteGraph(a)
  <2>1. op' = [op EXCEPT ![a].at = "search"] /\ op[a].at \notin Over /\ UNCHANGED <<job, complete, pc, held>>
    BY <1>5 DEF WriteGraph, Over
  <2>2. StepOf(a, op[a].kind, "search") /\ "search" \notin Over
    BY <1>0, <1>5, <2>1 DEF WriteGraph, StepOf, Structure, Over
  <2>q. QED
    BY <1>t, <2>1, <2>2, StepShape
<1>6. CASE WriteSearch(a)
  <2>1. op' = [op EXCEPT ![a].at = "record"] /\ op[a].at \notin Over /\ UNCHANGED <<job, complete, pc, held>>
    BY <1>6 DEF WriteSearch, Over
  <2>2. StepOf(a, op[a].kind, "record") /\ "record" \notin Over
    BY <1>0, <1>6, <2>1 DEF WriteSearch, StepOf, Structure, Over
  <2>q. QED
    BY <1>t, <2>1, <2>2, StepShape
<1>7. CASE RecordStructural(a)
  <2>1. op' = [op EXCEPT ![a].at = "embed"] /\ op[a].at \notin Over /\ UNCHANGED <<job, complete, pc, held>>
    BY <1>7 DEF RecordStructural, Over
  <2>2. StepOf(a, op[a].kind, "embed") /\ "embed" \notin Over
    BY <1>0, <1>7, <2>1 DEF RecordStructural, StepOf, Structure, Over
  <2>q. QED
    BY <1>t, <2>1, <2>2, StepShape
<1>8. CASE SkipEmbedding(a)
  BY <1>8, FinishShape DEF SkipEmbedding, Over
<1>9. CASE WriteVectors(a)
  <2>1. op' = [op EXCEPT ![a].at = "stamp"] /\ op[a].at \notin Over /\ UNCHANGED <<job, complete, pc, held>>
    BY <1>9 DEF WriteVectors, Over
  <2>2. StepOf(a, op[a].kind, "stamp") /\ "stamp" \notin Over
    BY <1>0, <1>9, <2>1 DEF WriteVectors, StepOf, Structure, Over
  <2>q. QED
    BY <1>t, <2>1, <2>2, StepShape
<1>10. CASE RecordEmbedded(a)
  BY <1>10, FinishShape DEF RecordEmbedded, Over
<1>11. CASE WriteDocuments(a)
  BY <1>11, FinishShape DEF WriteDocuments, Over
<1>12. CASE CiteArtifact(a)
  <2>1. op' = [op EXCEPT ![a].at = "hit"] /\ op[a].at \notin Over /\ UNCHANGED <<job, complete, pc, held>>
    BY <1>12 DEF CiteArtifact, Over
  <2>2. StepOf(a, op[a].kind, "hit") /\ "hit" \notin Over
    BY <1>0, <1>12, <2>1 DEF CiteArtifact, StepOf, Structure, Over
  <2>q. QED
    BY <1>t, <2>1, <2>2, StepShape
<1>13. CASE MomentMissing(a)
  BY <1>13, FinishShape DEF MomentMissing, Over
<1>14. CASE AddHit(a)
  BY <1>14, FinishShape DEF AddHit, Over
<1>q. QED
  BY <1>1, <1>2, <1>3, <1>4, <1>5, <1>6, <1>7, <1>8, <1>9, <1>10, <1>11, <1>12, <1>13, <1>14
     DEF Projecting

LEMMA RebuildingShape ==
  ASSUME IInv, Shape, NEW r \in Rebuilds, Rebuilding(r)
  PROVE  Shape'
<1> USE DEF database
<1>0. r \in Actors /\ r # Worker /\ r \notin Artifacts /\ op \in [Actors -> Calls] /\ op[r] \in Calls
  BY Roles, CallTyped DEF IInv, TypeOK
<1>1. op[r].at \notin Over => KindOf(r, op[r].kind) /\ StepOf(r, op[r].kind, op[r].at)
  BY <1>0 DEF Shape, CallKinds
<1>2. CASE StartRebuild(r)
  <2>1. OthersStill(r) /\ op'[r].at = "waiting" /\ op'[r].kind \in {"rebuild", "scoped", "embedOnly"}
    BY <1>0, <1>2, ZenonT(60) DEF StartRebuild, OthersStill, Call, Rest
  <2>2. UNCHANGED <<job, complete, pc, held>>
    BY <1>2 DEF StartRebuild
  <2>q. QED
    BY <1>0, <2>1, <2>2, OneCall DEF KindOf, StepOf, Structure
<1>3. CASE DropStores(r)
  <2>1. op' = [op EXCEPT ![r].at = "forget"] /\ op[r].at \notin Over /\ UNCHANGED <<job, complete, pc, held>>
    BY <1>3 DEF DropStores, Over
  <2>2. StepOf(r, op[r].kind, "forget") /\ "forget" \notin Over
    BY <1>1, <1>3, <2>1 DEF DropStores, StepOf, Structure, Over
  <2>q. QED
    BY <1>0, <2>1, <2>2, StepShape
<1>4. CASE ForgetRows(r)
  <2>1. op' = [op EXCEPT ![r].at = "next"] /\ op[r].at \notin Over /\ UNCHANGED <<job, complete, pc, held>>
    BY <1>4 DEF ForgetRows, Over
  <2>2. StepOf(r, op[r].kind, "next") /\ "next" \notin Over
    BY <1>1, <1>4, <2>1 DEF ForgetRows, StepOf, Structure, Over
  <2>q. QED
    BY <1>0, <2>1, <2>2, StepShape
<1>5. CASE EndRebuild(r)
  BY <1>0, <1>5, LeaveShape DEF EndRebuild
<1>6. ASSUME NEW m \in Meetings, NextTarget(r, m) PROVE Shape'
  <2>1. op'[r].at \in {"read", "next"} /\ op'[r].kind = op[r].kind /\ OthersStill(r)
    BY <1>0, <1>6 DEF NextTarget, OthersStill, Calls
  <2>2. op[r].at = "next" /\ UNCHANGED <<job, complete, pc, held>>
    BY <1>6 DEF NextTarget
  <2>q. QED
    BY <1>0, <1>1, <2>1, <2>2, OneCall DEF Over, KindOf, StepOf, Structure
<1>q. QED
  BY <1>2, <1>3, <1>4, <1>5, <1>6 DEF Rebuilding

LEMMA ApiShape ==
  ASSUME IInv, Shape, Api
  PROVE  Shape'
<1>1. ASSUME NEW m \in Meetings, Ingest(m) \/ Augment(m) \/ AssignSpeaker(m) PROVE Shape'
  <2>1. Accept(m) /\ job[m] # "running"
    BY <1>1 DEF Ingest, Augment, AssignSpeaker
  <2>2. job' = [job EXCEPT ![m] = "queued"] /\ complete' = complete \ {m} /\ UNCHANGED <<pc, held, op>>
    BY <2>1 DEF Accept
  <2>3. JobShape'
    BY <2>1, <2>2 DEF Shape, JobShape, IInv, TypeOK, WorkerShape
  <2>q. QED
    BY <2>2, <2>3, NoCall
<1>2. ASSUME NEW a \in Artifacts, Approve(a) PROVE Shape'
  <2>1. op'[a] = Call("cite", MeetingOf[a]) /\ OthersStill(a) /\ UNCHANGED <<job, complete, pc, held>>
    BY <1>2, Roles DEF Approve, OthersStill, IInv, TypeOK
  <2>2. op'[a].at = "waiting" /\ op'[a].kind = "cite"
    BY <2>1 DEF Call, Rest
  <2>q. QED
    BY <2>1, <2>2, Roles, OneCall DEF KindOf, StepOf, Structure
<1>q. QED
  BY <1>1, <1>2 DEF Api

LEMMA WorkingShape ==
  ASSUME IInv, Shape, Working
  PROVE  Shape'
<1> USE DEF IInv, TypeOK, WorkerShape, database
<1>0. WorkerCall /\ JobShape
  BY DEF Shape
<1>1. ASSUME NEW m \in Meetings, Claim(m) PROVE Shape'
  <2>1. op[Worker] = Rest /\ UNCHANGED op
    BY <1>0, <1>1 DEF Claim, WorkerCall
  <2>2. JobShape'
    BY <1>0, <1>1 DEF Claim, JobShape
  <2>q. QED
    BY <2>1, <2>2, NoCall
<1>2. CASE Mint \/ CommitEvidence \/ Checkpoint
  <2>1. op[Worker] = Rest /\ UNCHANGED op
    BY <1>0, <1>2 DEF Mint, CommitEvidence, Checkpoint, WorkerCall
  <2>2. JobShape'
    BY <1>0, <1>2 DEF Mint, CommitEvidence, Checkpoint, JobShape
  <2>q. QED
    BY <2>1, <2>2, NoCall
<1>3. CASE CommitExtract
  BY <1>0, <1>3, NoCall DEF CommitExtract, JobShape
<1>4. CASE FinishJob
  <2>1. op[Worker] = Rest /\ UNCHANGED op
    BY <1>4 DEF FinishJob
  <2>2. JobShape'
    BY <1>0, <1>4 DEF FinishJob, JobShape
  <2>q. QED
    BY <2>1, <2>2, NoCall
<1>5. ASSUME NEW k \in {"full", "embed", "docs"}, NEW place, pc' = place, held' = held,
             place = IF k = "docs" THEN "settled" ELSE "extract",
             op' = [op EXCEPT ![Worker] = Call(k, held)], JobShape'
      PROVE  Shape'
  <2>1. op'[Worker] = Call(k, held) /\ OthersStill(Worker)
    BY <1>5, Roles DEF OthersStill
  <2>2. op'[Worker].at = "waiting" /\ op'[Worker].kind = k /\ op'[Worker].meeting = held
    BY <2>1 DEF Call, Rest
  <2>3. WorkerCall'
    BY <1>5, <2>2 DEF WorkerCall
  <2>4. KindOf(Worker, k) /\ StepOf(Worker, k, "waiting")
    BY Roles DEF KindOf, StepOf, Structure
  <2>5. CallKinds'
    BY <2>1, <2>2, <2>4 DEF Shape, CallKinds, OthersStill
  <2>q. QED
    BY <1>5, <2>3, <2>5 DEF Shape
<1>6. CASE MaybeProject
  <2>1. JobShape'
    BY <1>0, <1>6 DEF MaybeProject, JobShape
  <2>2. CASE ProjectionAction(held) = "none"
    <3>1. op[Worker] = Rest /\ UNCHANGED op
      BY <1>0, <1>6, <2>2 DEF MaybeProject, WorkerCall
    <3>q. QED
      BY <2>1, <3>1, NoCall
  <2>3. CASE ProjectionAction(held) # "none"
    BY <1>5, <1>6, <2>1, <2>3 DEF MaybeProject, ProjectionAction
  <2>q. QED
    BY <2>2, <2>3
<1>7. CASE MaybeProjectDocuments
  <2>1. JobShape'
    BY <1>0, <1>7 DEF MaybeProjectDocuments, JobShape
  <2>q. QED
    BY <1>5, <1>7, <2>1 DEF MaybeProjectDocuments
<1>q. QED
  BY <1>1, <1>2, <1>3, <1>4, <1>6, <1>7 DEF Working

LEMMA FailingShape ==
  ASSUME IInv, Shape, Failing
  PROVE  Shape'
<1> USE DEF database
<1>1. CASE InvalidationFails
  <2>1. op[Worker] = Rest /\ UNCHANGED op
    BY <1>1 DEF InvalidationFails, Shape, WorkerCall
  <2>2. JobShape'
    BY <1>1 DEF InvalidationFails, Shape, JobShape
  <2>q. QED
    BY <2>1, <2>2, NoCall
<1>2. CASE CrashApi
  <2>1. /\ op'[Worker] = op[Worker] /\ UNCHANGED <<job, complete, pc, held>>
        /\ \A a \in Actors : op'[a] = op[a] \/ op'[a].at \in Over
    BY <1>2, Roles DEF CrashApi, Approving, Ended, Over, Rest, Dies
  <2>q. QED
    BY <2>1 DEF Shape, JobShape, WorkerCall, CallKinds
<1>3. CASE CrashWorker
  <2>1. /\ op'[Worker] = Rest /\ OthersStill(Worker)
        /\ job' = [job EXCEPT ![held] = "queued"] /\ pc' = "idle" /\ UNCHANGED complete /\ pc # "idle"
    BY <1>3, Roles DEF CrashWorker, OthersStill, IInv, TypeOK
  <2>2. JobShape'
    BY <2>1 DEF Shape, JobShape, IInv, TypeOK
  <2>3. Rest.at \in Over
    BY DEF Rest, Over
  <2>q. QED
    BY <2>1, <2>2, <2>3 DEF Shape, WorkerCall, CallKinds, OthersStill
<1>4. CASE SessionEnds
  BY <1>4, NoCall DEF SessionEnds, Shape, JobShape
<1>5. ASSUME NEW a \in Actors, StoreFails(a) PROVE Shape'
  <2>1. UNCHANGED <<job, complete, pc, held>> /\ op[a].at \notin Over
    BY <1>5 DEF StoreFails, Over
  <2>q. QED
    BY <1>5, <2>1, LeaveShape, FinishShape DEF StoreFails
<1>6. ASSUME NEW r \in Rebuilds, CrashRebuild(r) PROVE Shape'
  <2>1. op'[r] = Ended(r) /\ OthersStill(r) /\ UNCHANGED <<job, complete, pc, held>>
    BY <1>6, Roles DEF CrashRebuild, OthersStill, IInv, TypeOK
  <2>2. op'[r].at \in Over /\ r # Worker
    BY <2>1, Roles DEF Ended, Rest, Over
  <2>q. QED
    BY <2>1, <2>2, Roles, OneCall
<1>q. QED
  BY <1>1, <1>2, <1>3, <1>4, <1>5, <1>6 DEF Failing

LEMMA ShapeKept ==
  ASSUME IInv, Shape, [Next]_vars
  PROVE  Shape'
<1>1. CASE UNCHANGED vars
  BY <1>1, NoCall DEF vars, Shape, JobShape
<1>q. QED
  BY <1>1, ApiShape, WorkingShape, FailingShape, ProjectingShape, RebuildingShape DEF Next, IdlePoll

-----------------------------------------------------------------------------
(* What a call has written.                                                *)

Marks == {"search", "record", "stamp", "hit", "docs"}

LEMMA Unmarked ==
  ASSUME NEW b \in Actors, op'[b].at \notin Marks
  PROVE  Written(b)'
  BY DEF Written, Marks

\* Whoever is inside is there alone: nobody else has written anything.
LEMMA WrittenByOthers ==
  ASSUME IInv, NEW a \in Actors, Inside(a), OthersStill(a), Written(a)'
  PROVE  AllWritten'
<1>1. ASSUME NEW b \in Actors \ {a} PROVE op'[b].at \notin Marks
  <2>1. ~Inside(b)
    BY Alone DEF IInv
  <2>q. QED
    BY <2>1 DEF OthersStill, Inside, Marks
<1>q. QED
  BY <1>1, Unmarked DEF AllWritten

\* The stores stay as they are, and what calls move have written nothing.
LEMMA WrittenStill ==
  ASSUME AllWritten, UNCHANGED <<stores, extracted>>,
         \A b \in Actors : op'[b] = op[b] \/ op'[b].at \notin Marks
  PROVE  AllWritten'
<1>1. ASSUME NEW b \in Actors, op'[b] = op[b] PROVE Written(b)'
  BY <1>1 DEF AllWritten, Written, stores, ArtifactsOf
<1>q. QED
  BY <1>1, Unmarked DEF AllWritten

\* A call moves on, or is over.
LEMMA WrittenFinish ==
  ASSUME IInv, NEW a \in Actors, Inside(a), Finish(a) \/ Leave(a)
  PROVE  AllWritten'
<1>1. OthersStill(a) /\ op'[a].at \notin Marks
  BY Finishes, LeavesOver DEF Marks, Over
<1>q. QED
  BY <1>1, Unmarked, WrittenByOthers

LEMMA ProjectingWritten ==
  ASSUME IInv, IInv', Shape, AllWritten, NEW a \in Actors, Projecting(a)
  PROVE  AllWritten'
<1> USE DEF database, neo4j, meili
<1>0. op \in [Actors -> Calls] /\ op[a] \in Calls /\ Written(a)
  BY CallTyped DEF IInv, TypeOK, AllWritten
<1>m. HasRead(a) => op[a].meeting \in Meetings /\ op[a].meeting \in Nameable(a)
  BY NamedMeeting DEF NamesMeeting, IInv
<1>1. CASE AcquireLocks(a)
  <2>1. OthersStill(a) /\ op'[a].at = FirstStep(a) /\ UNCHANGED <<stores, extracted>>
    BY <1>0, <1>1 DEF AcquireLocks, OthersStill, Calls
  <2>2. op'[a].at \notin Marks
    BY <2>1 DEF FirstStep, Marks
  <2>q. QED
    BY <2>1, <2>2, WrittenStill DEF OthersStill
<1>2. CASE Refused(a)
  <2>1. OthersStill(a) /\ op'[a].at \notin Marks /\ UNCHANGED <<stores, extracted>>
    BY <1>2, LeavesOver DEF Refused, Marks, Over
  <2>q. QED
    BY <2>1, WrittenStill DEF OthersStill
<1>3. CASE RefuseEmbedding(a) \/ SkipEmbedding(a) \/ RecordEmbedded(a) \/ WriteDocuments(a)
           \/ MomentMissing(a) \/ AddHit(a)
  <2>1. Inside(a) /\ Finish(a)
    BY <1>3 DEF RefuseEmbedding, SkipEmbedding, RecordEmbedded, WriteDocuments, MomentMissing, AddHit, Inside
  <2>q. QED
    BY <2>1, WrittenFinish
<1>4. CASE Read(a)
  <2> DEFINE c == [Reading(a) EXCEPT !.at = FirstWrite(a)]
  <2>1. op[a].meeting \in Meetings
    BY <1>4, NamedMeeting DEF IInv, Read, NamesMeeting
  <2>2. /\ c.at = FirstWrite(a) /\ c.docs = extracted[op[a].meeting] /\ c.meeting = op[a].meeting
    BY <1>0, <2>1 DEF Reading, Calls
  <2>3. op'[a] = c /\ OthersStill(a) /\ Inside(a) /\ UNCHANGED extracted
    BY <1>0, <1>4 DEF Read, OthersStill, Inside
  <2>4. Written(a)'
    <3>1. c.at \in {"graph", "embed", "docs", "cite"}
      BY <2>2 DEF FirstWrite
    <3>q. QED
      BY <2>2, <2>3, <3>1 DEF Written
  <2>q. QED
    BY <2>3, <2>4, WrittenByOthers
<1>5. CASE WriteGraph(a)
  <2>1. OthersStill(a) /\ SameCall(a) /\ op'[a].at = "search" /\ Inside(a) /\ HasRead(a)
    BY <1>5, MovesTo DEF WriteGraph, Inside, HasRead
  <2>2. graph'[op[a].meeting] = op[a].read
    BY <1>5, <1>m, <2>1 DEF WriteGraph, IInv, TypeOK
  <2>3. \A x \in ArtifactsOf(op[a].meeting) \intersect op[a].arts : cites'[x] = op[a].read
    BY <1>5 DEF WriteGraph, Replaced, ArtifactsOf
  <2>4. Written(a)'
    BY <2>1, <2>2, <2>3 DEF Written, SameCall, ArtifactsOf
  <2>q. QED
    BY <2>1, <2>4, WrittenByOthers
<1>6. CASE WriteSearch(a)
  <2>1. OthersStill(a) /\ SameCall(a) /\ op'[a].at = "record" /\ Inside(a) /\ HasRead(a)
    BY <1>6, MovesTo DEF WriteSearch, Inside, HasRead
  <2>2. text'[op[a].meeting] = op[a].read /\ docs'[op[a].meeting] = op[a].docs /\ UNCHANGED <<graph, cites>>
    BY <1>6, <1>m, <2>1 DEF WriteSearch, IInv, TypeOK
  <2>3. \A x \in ArtifactsOf(op[a].meeting) \intersect op[a].arts : hits'[x] = op[a].read
    BY <1>6 DEF WriteSearch, Replaced, ArtifactsOf
  <2>4. op[a].at = "search"
    BY <1>6 DEF WriteSearch
  <2>5. Written(a)'
    BY <1>0, <2>1, <2>2, <2>3, <2>4 DEF Written, SameCall, ArtifactsOf
  <2>q. QED
    BY <2>1, <2>5, WrittenByOthers
<1>7. CASE RecordStructural(a)
  <2>1. OthersStill(a) /\ op'[a].at = "embed" /\ Inside(a)
    BY <1>7, MovesTo DEF RecordStructural, Inside
  <2>q. QED
    BY <2>1, Unmarked, WrittenByOthers DEF Marks
<1>8. CASE WriteVectors(a)
  <2>1. OthersStill(a) /\ SameCall(a) /\ op'[a].at = "stamp" /\ Inside(a) /\ HasRead(a)
    BY <1>8, MovesTo DEF WriteVectors, Inside, HasRead
  <2>2. text'[op[a].meeting] = op[a].read
    BY <1>8, <1>m, <2>1 DEF WriteVectors, IInv, TypeOK
  <2>3. Written(a)'
    BY <2>1, <2>2 DEF Written, SameCall
  <2>q. QED
    BY <2>1, <2>3, WrittenByOthers
<1>9. CASE CiteArtifact(a)
  <2>1. OthersStill(a) /\ SameCall(a) /\ op'[a].at = "hit" /\ Inside(a)
    BY <1>9, MovesTo DEF CiteArtifact, Inside
  <2>2. a \in Artifacts
    <3>1. op[a].kind = "cite" /\ KindOf(a, op[a].kind)
      BY <1>9 DEF CiteArtifact, Shape, CallKinds, StepOf, Over
    <3>q. QED
      BY <3>1, Roles DEF KindOf
  <2>3. cites'[a] = op[a].read
    BY <1>9, <2>2 DEF CiteArtifact, IInv, TypeOK
  <2>4. Written(a)'
    BY <2>1, <2>3 DEF Written, SameCall
  <2>q. QED
    BY <2>1, <2>4, WrittenByOthers
<1>q. QED
  BY <1>1, <1>2, <1>3, <1>4, <1>5, <1>6, <1>7, <1>8, <1>9 DEF Projecting

LEMMA RebuildingWritten ==
  ASSUME IInv, Shape, AllWritten, NEW r \in Rebuilds, Rebuilding(r)
  PROVE  AllWritten'
<1> USE DEF database
<1>0. r \in Actors /\ op \in [Actors -> Calls] /\ op[r] \in Calls
  BY Roles, CallTyped DEF IInv, TypeOK
<1>1. CASE StartRebuild(r)
  <2>1. OthersStill(r) /\ op'[r].at = "waiting"
    BY <1>0, <1>1 DEF StartRebuild, OthersStill, Call, Rest
  <2>2. UNCHANGED <<stores, extracted>>
    BY <1>1 DEF StartRebuild
  <2>q. QED
    BY <2>1, <2>2, WrittenStill DEF Marks, OthersStill
<1>2. CASE DropStores(r) \/ ForgetRows(r)
  <2>1. OthersStill(r) /\ op'[r].at \notin Marks /\ Inside(r)
    BY <1>0, <1>2, MovesTo DEF DropStores, ForgetRows, Inside, Marks
  <2>q. QED
    BY <1>0, <2>1, Unmarked, WrittenByOthers
<1>3. CASE EndRebuild(r)
  BY <1>0, <1>3, WrittenFinish DEF EndRebuild, Inside
<1>4. ASSUME NEW m \in Meetings, NextTarget(r, m) PROVE AllWritten'
  <2>1. op'[r].at \in {"read", "next"} /\ OthersStill(r) /\ Inside(r)
    BY <1>0, <1>4 DEF NextTarget, OthersStill, Calls, Inside
  <2>q. QED
    BY <1>0, <2>1, Unmarked, WrittenByOthers DEF Marks
<1>q. QED
  BY <1>1, <1>2, <1>3, <1>4 DEF Rebuilding

LEMMA WorkingWritten ==
  ASSUME IInv, Shape, AllWritten, Working
  PROVE  AllWritten'
<1> USE DEF database
<1>1. ASSUME NEW k, op' = [op EXCEPT ![Worker] = Call(k, held)], UNCHANGED <<stores, extracted>>
      PROVE  AllWritten'
  <2>1. op'[Worker] = Call(k, held) /\ OthersStill(Worker)
    BY <1>1, Roles DEF OthersStill, IInv, TypeOK
  <2>2. op'[Worker].at \notin Marks
    BY <2>1 DEF Call, Rest, Marks
  <2>q. QED
    BY <1>1, <2>1, <2>2, WrittenStill DEF OthersStill
<1>2. CASE MaybeProject \/ MaybeProjectDocuments
  BY <1>1, <1>2, WrittenStill DEF MaybeProject, MaybeProjectDocuments
<1>3. CASE (\E m \in Meetings : Claim(m)) \/ Mint \/ CommitEvidence \/ Checkpoint \/ FinishJob
  BY <1>3, WrittenStill DEF Claim, Mint, CommitEvidence, Checkpoint, FinishJob
<1>4. CASE CommitExtract
  <2>1. UNCHANGED <<op, stores>> /\ op[Worker] = Rest
    BY <1>4 DEF CommitExtract
  <2>2. ASSUME NEW b \in Actors PROVE op[b].at # "docs"
    <3>1. Rest.at = "rest"
      BY DEF Rest
    <3>2. op[b].at = "docs" => op[b].kind = "docs" /\ KindOf(b, "docs")
      BY DEF Shape, CallKinds, StepOf, Over
    <3>q. QED
      BY <2>1, <3>1, <3>2, Roles DEF KindOf
  <2>q. QED
    BY <2>1, <2>2 DEF AllWritten, Written, stores, ArtifactsOf
<1>q. QED
  BY <1>2, <1>3, <1>4 DEF Working

LEMMA FailingWritten ==
  ASSUME IInv, Shape, AllWritten, Failing
  PROVE  AllWritten'
<1> USE DEF database
<1>1. CASE InvalidationFails \/ SessionEnds
  BY <1>1, WrittenStill DEF InvalidationFails, SessionEnds
<1>2. CASE CrashApi
  <2>1. \A b \in Actors : op'[b] = op[b] \/ op'[b].at \notin Marks
    BY <1>2, Roles DEF CrashApi, Approving, Ended, Marks, Rest
  <2>q. QED
    BY <1>2, <2>1, WrittenStill DEF CrashApi
<1>3. ASSUME NEW a \in Actors, op' = [op EXCEPT ![a] = Ended(a)], CutShort(a), UNCHANGED extracted
      PROVE  AllWritten'
  <2>1. OthersStill(a) /\ op'[a].at \notin Marks
    BY <1>3 DEF OthersStill, Ended, Rest, Marks, IInv, TypeOK
  <2>2. CASE Inside(a)
    BY <2>1, <2>2, Unmarked, WrittenByOthers
  <2>3. CASE ~Inside(a)
    <3>1. UNCHANGED stores
      BY <1>3, <2>3 DEF CutShort, Inside
    <3>q. QED
      BY <1>3, <2>1, <3>1, WrittenStill DEF OthersStill
  <2>q. QED
    BY <2>2, <2>3
<1>4. CASE CrashWorker
  BY <1>3, <1>4, Roles DEF CrashWorker, Ended
<1>5. ASSUME NEW a \in Actors, StoreFails(a) PROVE AllWritten'
  <2>1. Inside(a)
    BY <1>5 DEF StoreFails, Inside
  <2>q. QED
    BY <1>5, <2>1, WrittenFinish DEF StoreFails
<1>6. ASSUME NEW r \in Rebuilds, CrashRebuild(r) PROVE AllWritten'
  BY <1>3, <1>6, Roles DEF CrashRebuild
<1>q. QED
  BY <1>1, <1>2, <1>4, <1>5, <1>6 DEF Failing

LEMMA WrittenKept ==
  ASSUME IInv, IInv', Shape, AllWritten, [Next]_vars
  PROVE  AllWritten'
<1>1. CASE UNCHANGED vars
  BY <1>1, WrittenStill DEF vars, stores
<1>2. CASE Api
  <2>1. ASSUME NEW m \in Meetings, Ingest(m) \/ Augment(m) \/ AssignSpeaker(m) PROVE AllWritten'
    <3>1. UNCHANGED <<stores, extracted, op>>
      BY <2>1 DEF Ingest, Augment, AssignSpeaker, Accept
    <3>q. QED
      BY <3>1, WrittenStill
  <2>2. ASSUME NEW a \in Artifacts, Approve(a) PROVE AllWritten'
    <3>1. op'[a] = Call("cite", MeetingOf[a]) /\ OthersStill(a) /\ UNCHANGED <<stores, extracted>>
      BY <2>2, Roles DEF Approve, OthersStill, IInv, TypeOK
    <3>2. op'[a].at \notin Marks
      BY <3>1 DEF Call, Rest, Marks
    <3>q. QED
      BY <3>1, <3>2, WrittenStill DEF OthersStill
  <2>q. QED
    BY <1>2, <2>1, <2>2 DEF Api
<1>q. QED
  BY <1>1, <1>2, WorkingWritten, FailingWritten, ProjectingWritten, RebuildingWritten DEF Next, IdlePoll

-----------------------------------------------------------------------------
(* What stays as it is.                                                    *)

ViewKept(m) ==
  /\ graph'[m] = graph[m] /\ text'[m] = text[m] /\ docs'[m] = docs[m]
  /\ evidence'[m] = evidence[m] /\ extracted'[m] = extracted[m]
  /\ \A x \in ArtifactsOf(m) : cites'[x] = cites[x] /\ hits'[x] = hits[x]
OwedStill(m) ==
  /\ ToBeProjected(m) => ToBeProjected(m)'
  /\ ToBeVectored(m) => ToBeVectored(m)'
  /\ ToBeDocumented(m) => ToBeDocumented(m)'
CitedStill(m) ==
  \A x \in published' \intersect ArtifactsOf(m) : Citing(x)' \/ (x \in published /\ ~Citing(x))
WipedStill == Wiped => Wiped'
CallsStill(m) ==
  \A b \in Actors : HasRead(b)' /\ op'[b].meeting = m =>
    /\ HasRead(b) /\ SameCall(b)
    /\ op'[b].at \in Structure => op[b].at \in Structure

LEMMA StandsStill ==
  ASSUME NEW m \in Meetings, Stands(m), ViewKept(m), row'[m] = row[m], WipedStill, CitedStill(m),
         ToBeVectored(m) => ToBeVectored(m)', ToBeDocumented(m) => ToBeDocumented(m)'
  PROVE  Stands(m)'
<1> SUFFICES ASSUME row'[m] # "none", ~Wiped' PROVE InStores(m)'
  BY DEF Stands
<1>1. InStores(m)
  BY DEF Stands, WipedStill
<1>2. \A x \in published' \intersect ArtifactsOf(m) :
        Citing(x)' \/ (cites'[x] = evidence'[m] /\ hits'[x] = evidence'[m])
  BY <1>1 DEF InStores, CitedStill, ViewKept
<1>q. QED
  BY <1>1, <1>2 DEF InStores, ViewKept, ArtifactsOf

LEMMA ReadsStill ==
  ASSUME NEW m \in Meetings, ReadsCurrent(m), CallsStill(m), CitedStill(m), row'[m] \in {row[m], "none"},
         evidence'[m] = evidence[m], extracted'[m] = extracted[m] \/ ToBeDocumented(m)',
         ToBeDocumented(m) => ToBeDocumented(m)'
  PROVE  ReadsCurrent(m)'
<1>1. ASSUME NEW b \in Actors, HasRead(b)', op'[b].meeting = m
      PROVE  UpToDateCall(b, m)'
  <2>1. HasRead(b) /\ SameCall(b) /\ (op'[b].at \in Structure => op[b].at \in Structure)
    BY <1>1 DEF CallsStill
  <2>2. UpToDateCall(b, m)
    BY <1>1, <2>1 DEF ReadsCurrent, SameCall
  <2>3. row'[m] # "none" \/ op'[b].at \in Structure => op'[b].read = evidence'[m]
    BY <2>1, <2>2 DEF UpToDateCall, SameCall
  <2>4. ASSUME op'[b].at \in Structure
        PROVE  /\ op'[b].docs = extracted'[m] \/ ToBeDocumented(m)'
               /\ \A x \in published' \intersect ArtifactsOf(m) : x \in op'[b].arts \/ Citing(x)'
    BY <2>1, <2>2, <2>4 DEF UpToDateCall, SameCall, CitedStill
  <2>q. QED
    BY <2>3, <2>4 DEF UpToDateCall, ArtifactsOf
<1>q. QED
  BY <1>1 DEF ReadsCurrent, HasRead

LEMMA Aside ==
  ASSUME NEW m \in Meetings, Good(m), ViewKept(m), row'[m] = row[m],
         OwedStill(m), CitedStill(m), CallsStill(m), WipedStill
  PROVE  Good(m)'
<1>1. Promised(m)'
  BY DEF Good, Promised, OwedStill
<1>2. Stands(m)'
  BY StandsStill DEF Good, OwedStill
<1>3. ReadsCurrent(m)'
  BY ReadsStill DEF Good, OwedStill, ViewKept
<1>q. QED
  BY <1>1, <1>2, <1>3 DEF Good

\* Nobody moves.
LEMMA NobodyMoves ==
  ASSUME NEW m \in Meetings, UNCHANGED op
  PROVE  /\ CallsStill(m) /\ WipedStill
         /\ published' = published => CitedStill(m)
<1>1. \A b \in Actors : HasRead(b)' => HasRead(b) /\ SameCall(b)
  BY DEF HasRead, SameCall
<1>2. CallsStill(m)
  BY <1>1 DEF CallsStill
<1>3. WipedStill
  BY DEF WipedStill, Wiped
<1>4. published' = published => CitedStill(m)
  BY DEF CitedStill, Citing, ArtifactsOf
<1>q. QED
  BY <1>2, <1>3, <1>4

\* One call moves: what the others owe, they still owe.
LEMMA OneMoves ==
  ASSUME NEW a \in Actors, OthersStill(a), UNCHANGED <<job, pc, held, published>>, NEW m \in Meetings,
         a \in Rebuilds => (Covers(a, m) => Covers(a, m)') /\ op[a].at # "forget",
         a \in ArtifactsOf(m) => Citing(a)' \/ ~Citing(a),
         a = Worker /\ held = m =>
           /\ op'[a].kind = op[a].kind
           /\ op[a].kind = "full" /\ op[a].at \in {"waiting", "read"} \union Structure =>
                op'[a].at \in {"waiting", "read"} \union Structure
           /\ op[a].kind = "embed" /\ op[a].at \in {"waiting", "read", "embed"} =>
                op'[a].at \in {"waiting", "read", "embed"}
  PROVE  OwedStill(m) /\ CitedStill(m) /\ WipedStill
<1>1. Rebuilt(m) => Rebuilt(m)'
  <2>1. ASSUME NEW c \in Rebuilds, Covers(c, m) PROVE Covers(c, m)'
    <3>1. CASE c = a
      BY <2>1, <3>1
    <3>2. CASE c # a
      BY <2>1, <3>2, Roles DEF Covers, OthersStill
    <3>q. QED
      BY <3>1, <3>2
  <2>q. QED
    BY <2>1 DEF Rebuilt
<1>2. WipedStill
  BY Roles DEF WipedStill, Wiped, OthersStill
<1>3. CitedStill(m)
  BY Roles DEF CitedStill, Citing, OthersStill, ArtifactsOf
<1>4. a # Worker => op'[Worker] = op[Worker]
  BY Roles DEF OthersStill
<1>5. OwedStill(m)
  BY <1>1, <1>4 DEF OwedStill, ToBeProjected, ToBeVectored, ToBeDocumented, Queued
<1>q. QED
  BY <1>2, <1>3, <1>5

\* A call under way, or asked for, is of another meeting: nothing of m changes.
LEMMA Elsewhere ==
  ASSUME IInv, Shape, NEW a \in Actors, NEW m \in Meetings, Good(m), NamesMeeting(a), op[a].meeting # m,
         OthersStill(a), UNCHANGED <<job, pc, held, published>>,
         HasRead(a)' => op'[a].meeting = op[a].meeting,
         a \in Rebuilds => (Covers(a, m) => Covers(a, m)'),
         ViewKept(m), row'[m] = row[m]
  PROVE  Good(m)'
<1>1. a = Worker => held # m
  <2>1. op[a].at # "rest" /\ Rest.at = "rest"
    BY DEF NamesMeeting, HasRead, Rest
  <2>q. QED
    BY <2>1 DEF Shape, WorkerCall
<1>2. a \notin ArtifactsOf(m)
  <2>1. a \in Artifacts => op[a].meeting = MeetingOf[a]
    BY NamedMeeting DEF IInv, Nameable
  <2>q. QED
    BY <2>1 DEF ArtifactsOf
<1>3. op[a].at # "forget"
  BY DEF NamesMeeting, HasRead
<1>4. OwedStill(m) /\ CitedStill(m) /\ WipedStill
  BY <1>1, <1>2, <1>3, OneMoves
<1>5. CallsStill(m)
  BY DEF CallsStill, OthersStill, HasRead, SameCall
<1>q. QED
  BY <1>4, <1>5, Aside

-----------------------------------------------------------------------------
(* A projection's steps.                                                   *)

\* Whoever is inside is the only one to have read anything.
LEMMA ReadsAlone ==
  ASSUME IInv, NEW a \in Actors, Inside(a), OthersStill(a), NEW m,
         HasRead(a)' /\ op'[a].meeting = m => UpToDateCall(a, m)'
  PROVE  ReadsCurrent(m)'
<1>1. \A b \in Actors \ {a} : ~HasRead(b)'
  <2>1. \A b \in Actors \ {a} : ~Inside(b)
    BY Alone DEF IInv
  <2>q. QED
    BY <2>1 DEF OthersStill, HasRead, Inside
<1>q. QED
  BY <1>1 DEF ReadsCurrent

LEMMA WaitingGood ==
  ASSUME IInv, Shape, NEW a \in Actors, AcquireLocks(a) \/ Refused(a),
         NEW m \in Meetings, m \notin excused', Good(m)
  PROVE  Good(m)'
<1> USE DEF database
<1>0. op \in [Actors -> Calls] /\ op[a] \in Calls /\ op[a].at = "waiting"
  BY CallTyped DEF IInv, TypeOK, AcquireLocks, Refused
<1>1. ViewKept(m) /\ row'[m] = row[m] /\ UNCHANGED <<job, pc, held, published>>
  BY DEF AcquireLocks, Refused, stores, ViewKept
<1>2. ~Covers(a, m)
  BY <1>0 DEF Covers, Structure
<1>3. CASE AcquireLocks(a)
  <2>1. OthersStill(a) /\ op'[a].at = FirstStep(a) /\ op'[a].kind = op[a].kind
    BY <1>0, <1>3 DEF AcquireLocks, OthersStill, Calls
  <2>2. op'[a].at \in {"drop", "next", "read"} /\ (a \notin Rebuilds => op'[a].at = "read")
    <3>1. KindOf(a, op[a].kind)
      BY <1>0 DEF Shape, CallKinds, Over
    <3>q. QED
      BY <2>1, <3>1, Roles DEF FirstStep, KindOf
  <2>3. OwedStill(m) /\ CitedStill(m) /\ WipedStill
    BY <1>0, <1>1, <1>2, <2>1, <2>2, Roles, OneMoves DEF Citing, Over
  <2>4. CallsStill(m)
    BY <2>1, <2>2 DEF CallsStill, OthersStill, HasRead, SameCall
  <2>q. QED
    BY <1>1, <2>3, <2>4, Aside
<1>4. CASE Refused(a)
  <2>1. OthersStill(a) /\ op'[a].at \in Over
    BY <1>4, LeavesOver DEF Refused
  <2>2. ~HasRead(a)'
    BY <2>1 DEF HasRead, Over
  <2>3. CASE a \notin Rebuilds
    <3>1. NamesMeeting(a) /\ op[a].meeting # m
      BY <1>0, <1>4, <2>3 DEF NamesMeeting, Refused, Owes
    <3>q. QED
      BY <1>1, <1>2, <2>1, <2>2, <3>1, Elsewhere
  <2>4. CASE a \in Rebuilds
    <3>1. a # Worker /\ a \notin ArtifactsOf(m) /\ op[a].at # "forget"
      BY <1>0, <2>4, Roles DEF ArtifactsOf
    <3>2. OwedStill(m) /\ CitedStill(m) /\ WipedStill
      BY <1>1, <1>2, <2>1, <3>1, OneMoves
    <3>3. CallsStill(m)
      BY <2>1, <2>2 DEF CallsStill, OthersStill, HasRead, SameCall
    <3>q. QED
      BY <1>1, <3>2, <3>3, Aside
  <2>q. QED
    BY <2>3, <2>4
<1>q. QED
  BY <1>3, <1>4

\* The steps once inside.
StaysOn(a) ==
  /\ OthersStill(a) /\ (HasRead(a)' => op'[a].meeting = op[a].meeting)
  /\ a \in Rebuilds => /\ op'[a].kind = op[a].kind /\ op'[a].todo = op[a].todo
                       /\ op'[a].at \in {"next", "read", "embed", "stamp"} \union Structure

LEMMA ProjectingStays ==
  ASSUME IInv, Shape, NEW a \in Actors, Projecting(a), op[a].at # "waiting"
  PROVE  StaysOn(a) /\ NamesMeeting(a) /\ Inside(a) /\ op[a].at \notin Over
<1>0. op \in [Actors -> Calls] /\ op[a] \in Calls
  BY CallTyped DEF IInv, TypeOK
<1>1. NamesMeeting(a) /\ Inside(a) /\ op[a].at \notin Over
  BY DEF Projecting, AcquireLocks, Refused, RefuseEmbedding, Read, WriteGraph, WriteSearch, RecordStructural,
         SkipEmbedding, WriteVectors, RecordEmbedded, WriteDocuments, CiteArtifact, MomentMissing, AddHit,
         NamesMeeting, HasRead, Over, Inside
<1> SUFFICES StaysOn(a)
  BY <1>1
<1>2. KindOf(a, op[a].kind) /\ StepOf(a, op[a].kind, op[a].at)
  BY <1>1 DEF Shape, CallKinds
<1>3. ASSUME Finish(a) PROVE StaysOn(a)
  BY <1>3, Finishes DEF StaysOn, Over, HasRead
<1>4. ASSUME NEW s \in {"search", "record", "embed", "stamp", "hit"}, op' = [op EXCEPT ![a].at = s],
             s = "hit" => a \notin Rebuilds
      PROVE  StaysOn(a)
  <2>1. OthersStill(a) /\ SameCall(a) /\ op'[a].at = s
    BY <1>4, MovesTo
  <2>q. QED
    BY <1>4, <2>1 DEF SameCall, Structure, StaysOn
<1>5. CASE Read(a)
  <2> DEFINE c == [Reading(a) EXCEPT !.at = FirstWrite(a)]
  <2>1. op[a].meeting \in Meetings
    BY <1>5, NamedMeeting DEF IInv, Read, NamesMeeting
  <2>2. c.at = FirstWrite(a) /\ c.kind = op[a].kind /\ c.meeting = op[a].meeting /\ c.todo = op[a].todo
    BY <1>0, <2>1 DEF Reading, Calls
  <2>3. op'[a] = c /\ OthersStill(a)
    BY <1>0, <1>5 DEF Read, OthersStill
  <2>4. a \in Rebuilds => FirstWrite(a) \in {"graph", "embed"}
    BY <1>2 DEF FirstWrite, KindOf, Structural, EmbedOnly
  <2>q. QED
    BY <2>2, <2>3, <2>4 DEF StaysOn, Structure
<1>6. CASE WriteGraph(a) \/ WriteSearch(a) \/ RecordStructural(a) \/ WriteVectors(a)
  BY <1>4, <1>6 DEF WriteGraph, WriteSearch, RecordStructural, WriteVectors
<1>7. CASE CiteArtifact(a)
  <2>1. a \notin Rebuilds
    BY <1>2, <1>7 DEF CiteArtifact, StepOf, KindOf
  <2>q. QED
    BY <1>4, <1>7, <2>1 DEF CiteArtifact
<1>8. CASE RefuseEmbedding(a) \/ SkipEmbedding(a) \/ RecordEmbedded(a) \/ WriteDocuments(a)
           \/ MomentMissing(a) \/ AddHit(a)
  BY <1>3, <1>8 DEF RefuseEmbedding, SkipEmbedding, RecordEmbedded, WriteDocuments, MomentMissing, AddHit
<1>q. QED
  BY <1>1, <1>5, <1>6, <1>7, <1>8 DEF Projecting, AcquireLocks, Refused

\* ... for any other meeting than the call's.
LEMMA ProjectingElsewhere ==
  ASSUME IInv, Shape, NEW a \in Actors, Projecting(a), op[a].at # "waiting",
         NEW m \in Meetings, op[a].meeting # m, Good(m)
  PROVE  Good(m)'
<1> USE DEF database, neo4j, meili, stores
<1>1. StaysOn(a) /\ NamesMeeting(a) /\ op[a].meeting \in Nameable(a)
  BY ProjectingStays, NamedMeeting DEF IInv
<1>2. a \in Rebuilds => (Covers(a, m) => Covers(a, m)')
  BY <1>1 DEF Covers, StaysOn
<1>3. UNCHANGED <<job, pc, held, published, evidence, extracted>> /\ row'[m] = row[m]
  BY DEF Projecting, AcquireLocks, Refused, RefuseEmbedding, Read, WriteGraph, WriteSearch, RecordStructural,
         SkipEmbedding, WriteVectors, RecordEmbedded, WriteDocuments, CiteArtifact, MomentMissing, AddHit, IInv, TypeOK
<1>4. graph'[m] = graph[m] /\ text'[m] = text[m] /\ docs'[m] = docs[m]
  BY DEF Projecting, AcquireLocks, Refused, RefuseEmbedding, Read, WriteGraph, WriteSearch, RecordStructural,
         SkipEmbedding, WriteVectors, RecordEmbedded, WriteDocuments, CiteArtifact, MomentMissing, AddHit, IInv, TypeOK
<1>5. \A x \in ArtifactsOf(m) : cites'[x] = cites[x] /\ hits'[x] = hits[x]
  <2>1. CASE WriteGraph(a) \/ WriteSearch(a)
    BY <2>1 DEF WriteGraph, WriteSearch, Replaced, ArtifactsOf
  <2>2. CASE CiteArtifact(a) \/ AddHit(a)
    <3>1. a \in Artifacts /\ op[a].meeting = MeetingOf[a]
      <4>1. op[a].kind = "cite" /\ KindOf(a, op[a].kind)
        BY <2>2 DEF CiteArtifact, AddHit, Shape, CallKinds, StepOf, Over
      <4>2. a \in Artifacts
        BY <4>1, Roles DEF KindOf
      <4>q. QED
        BY <1>1, <4>2 DEF Nameable
    <3>q. QED
      BY <2>2, <3>1 DEF CiteArtifact, AddHit, ArtifactsOf, IInv, TypeOK
  <2>3. CASE ~(WriteGraph(a) \/ WriteSearch(a) \/ CiteArtifact(a) \/ AddHit(a))
    BY <2>3 DEF Projecting, AcquireLocks, Refused, RefuseEmbedding, Read, RecordStructural,
         SkipEmbedding, WriteVectors, RecordEmbedded, WriteDocuments, MomentMissing
  <2>q. QED
    BY <2>1, <2>2, <2>3
<1>6. ViewKept(m)
  BY <1>3, <1>4, <1>5 DEF ViewKept
<1>q. QED
  BY <1>1, <1>2, <1>3, <1>6, Elsewhere DEF StaysOn

-----------------------------------------------------------------------------
(* ... and for the call's own meeting.                                     *)

Here(a, m) ==
  /\ IInv /\ Shape /\ AllWritten /\ a \in Actors /\ m \in Meetings /\ m = op[a].meeting
  /\ m \notin excused' /\ op[a].at # "waiting"

\* A call that writes moves on, and owes what it owed but for what it has written.
LEMMA Moving ==
  ASSUME NEW a, NEW m, Here(a, m), NEW s \in {"search", "record", "embed", "stamp", "hit"}, HasRead(a),
         op' = [op EXCEPT ![a].at = s], UNCHANGED <<job, pc, held, published>>,
         s = "hit" => op[a].kind = "cite",
         op[a].at \in Structure => s \in Structure \/ row'[m] # "none", op[a].at = "embed" => s = "stamp"
  PROVE  /\ OthersStill(a) /\ SameCall(a) /\ op'[a].at = s /\ Inside(a) /\ HasRead(a)'
         /\ CitedStill(m) /\ WipedStill
         /\ Promised(m) /\ row'[m] = row[m] => Promised(m)'
         /\ ToBeDocumented(m) => ToBeDocumented(m)'
         /\ ToBeVectored(m) => ToBeVectored(m)' \/ s = "stamp"
<1> USE DEF Here
<1>1. OthersStill(a) /\ SameCall(a) /\ op'[a].at = s /\ Inside(a)
  BY MovesTo DEF Inside, HasRead
<1>2. HasRead(a)'
  BY <1>1 DEF HasRead
<1>3. KindOf(a, op[a].kind) /\ StepOf(a, op[a].kind, op[a].at)
  BY DEF Shape, CallKinds, Over, HasRead
<1>4. CitedStill(m)
  BY <1>1, Roles DEF CitedStill, Citing, OthersStill, Over, ArtifactsOf
<1>5. WipedStill
  BY <1>1, Roles DEF WipedStill, Wiped, OthersStill, HasRead
<1>6. op[Worker].kind = op'[Worker].kind /\ (a # Worker => op'[Worker] = op[Worker])
  BY <1>1, Roles DEF OthersStill, SameCall
<1>7. ToBeDocumented(m) => ToBeDocumented(m)'
  BY <1>6 DEF ToBeDocumented, Queued
<1>8. ToBeVectored(m) => ToBeVectored(m)' \/ s = "stamp"
  BY <1>1, <1>3, <1>6 DEF ToBeVectored, Queued, StepOf, Structure, HasRead
<1>9. Promised(m) /\ row'[m] = row[m] => Promised(m)'
  <2> SUFFICES ASSUME row[m] = "none", row'[m] = "none", ToBeProjected(m) PROVE ToBeProjected(m)'
    BY DEF Promised
  <2>1. Rebuilt(m) => Rebuilt(m)'
    <3>1. ASSUME NEW c \in Rebuilds, Covers(c, m) PROVE Covers(c, m)'
      <4>1. CASE c = a
        BY <1>1, <3>1, <4>1 DEF Covers, SameCall, Structure, HasRead
      <4>2. CASE c # a
        BY <1>1, <3>1, <4>2, Roles DEF Covers, OthersStill
      <4>q. QED
        BY <4>1, <4>2
    <3>q. QED
      BY <3>1 DEF Rebuilt
  <2>2. a = Worker /\ op[a].at \in {"waiting", "read"} \union Structure => s \in Structure
    BY DEF HasRead, Structure
  <2>q. QED
    BY <1>1, <1>6, <2>1, <2>2 DEF ToBeProjected, Queued
<1>q. QED
  BY <1>1, <1>2, <1>4, <1>5, <1>7, <1>8, <1>9

\* ... or ends, and then owes nothing that it has not written.
LEMMA Ending ==
  ASSUME NEW a, NEW m, Here(a, m), op[a].at \in {"embed", "stamp", "docs", "hit"}, Finish(a),
         UNCHANGED <<job, pc, held, published>>
  PROVE  /\ ReadsCurrent(m)' /\ WipedStill
         /\ Promised(m) /\ (row'[m] = "none" => row[m] = "none") => Promised(m)'
         /\ op[a].at # "docs" /\ ToBeDocumented(m) => ToBeDocumented(m)'
         /\ op[a].at \notin {"embed", "stamp"} /\ ToBeVectored(m) => ToBeVectored(m)'
         /\ \A x \in ArtifactsOf(m) : Citing(x) => Citing(x)' \/ (x = a /\ op[a].at = "hit")
<1> USE DEF Here
<1>1. /\ OthersStill(a) /\ op[a].at \notin Over /\ Inside(a)
      /\ a \in Rebuilds => op'[a].at = "next" /\ op'[a].kind = op[a].kind /\ op'[a].todo = op[a].todo
      /\ a \notin Rebuilds => op'[a].at \in Over /\ (a = Worker => op'[a] = Rest)
  BY Finishes DEF Over, Inside
<1>2. KindOf(a, op[a].kind) /\ StepOf(a, op[a].kind, op[a].at)
  BY <1>1 DEF Shape, CallKinds
<1>3. ~HasRead(a)' /\ op'[a].at # "forget"
  BY <1>1 DEF HasRead, Over
<1>4. ReadsCurrent(m)'
  BY <1>1, <1>3, ReadsAlone
<1>5. WipedStill
  BY <1>1, <1>3, Roles DEF WipedStill, Wiped, OthersStill
<1>6. a # Worker => op'[Worker] = op[Worker]
  BY <1>1, Roles DEF OthersStill
<1>7. Promised(m) /\ (row'[m] = "none" => row[m] = "none") => Promised(m)'
  <2> SUFFICES ASSUME ToBeProjected(m) PROVE ToBeProjected(m)'
    BY DEF Promised
  <2>1. Rebuilt(m) => Rebuilt(m)'
    <3>1. ASSUME NEW c \in Rebuilds, Covers(c, m) PROVE Covers(c, m)'
      <4>1. CASE c = a
        BY <1>1, <3>1, <4>1 DEF Covers, Structure
      <4>2. CASE c # a
        BY <1>1, <3>1, <4>2, Roles DEF Covers, OthersStill
      <4>q. QED
        BY <4>1, <4>2
    <3>q. QED
      BY <3>1 DEF Rebuilt
  <2>2. a = Worker => op[a].at \notin {"waiting", "read"} \union Structure
    BY DEF Structure
  <2>q. QED
    BY <1>6, <2>1, <2>2 DEF ToBeProjected, Queued
<1>8. op[a].at # "docs" /\ ToBeDocumented(m) => ToBeDocumented(m)'
  <2>1. a = Worker /\ op[a].at # "docs" => op[a].kind # "docs"
    BY <1>2, Roles DEF StepOf, KindOf
  <2>q. QED
    BY <1>6, <2>1 DEF ToBeDocumented, Queued
<1>9. op[a].at \notin {"embed", "stamp"} /\ ToBeVectored(m) => ToBeVectored(m)'
  BY <1>6 DEF ToBeVectored, Queued
<1>10. \A x \in ArtifactsOf(m) : Citing(x) => Citing(x)' \/ (x = a /\ op[a].at = "hit")
  <2>1. a \in Artifacts => op[a].at = "hit"
    BY <1>2 DEF StepOf, KindOf
  <2>q. QED
    BY <1>1, <2>1, Roles DEF Citing, OthersStill, ArtifactsOf
<1>q. QED
  BY <1>4, <1>5, <1>7, <1>8, <1>9, <1>10

LEMMA ReadHere ==
  ASSUME NEW a, NEW m, Here(a, m), Good(m), Read(a)
  PROVE  Good(m)'
<1> USE DEF Here, database, stores
<1>1. op \in [Actors -> Calls] /\ op[a] \in Calls /\ op[a].at = "read" /\ Inside(a)
  BY CallTyped DEF IInv, TypeOK, Read, Inside
<1>2. KindOf(a, op[a].kind)
  BY <1>1 DEF Shape, CallKinds, Over
<1> DEFINE c == [Reading(a) EXCEPT !.at = FirstWrite(a)]
<1>3. /\ c.at = FirstWrite(a) /\ c.kind = op[a].kind /\ c.todo = op[a].todo /\ c.meeting = m
      /\ c.read = evidence[m] /\ c.docs = extracted[m]
      /\ a \notin Artifacts => c.arts = published \intersect ArtifactsOf(m)
  BY <1>1 DEF Reading, Calls
<1>4. op'[a] = c /\ OthersStill(a)
  BY <1>1 DEF Read, OthersStill
<1>5. /\ FirstWrite(a) \in {"graph", "embed", "docs", "cite"}
      /\ op[a].kind \in {"full", "rebuild"} => FirstWrite(a) = "graph"
      /\ op[a].kind = "embed" => FirstWrite(a) = "embed"
      /\ FirstWrite(a) \in Structure => a \notin Artifacts
  BY <1>2 DEF FirstWrite, Structural, EmbedOnly, Structure, KindOf
<1>6. ViewKept(m) /\ row'[m] = row[m] /\ UNCHANGED <<job, pc, held, published, evidence, extracted>>
  BY DEF Read, ViewKept
<1>7. a \in Rebuilds => (Covers(a, m) => Covers(a, m)') /\ op[a].at # "forget"
  BY <1>1, <1>3, <1>4, <1>5 DEF Covers, Structure
<1>8. Citing(a)'
  BY <1>3, <1>4, <1>5 DEF Citing, Over
<1>9. OwedStill(m) /\ CitedStill(m) /\ WipedStill
  BY <1>1, <1>3, <1>4, <1>5, <1>6, <1>7, <1>8, OneMoves DEF Structure
<1>10. Promised(m)' /\ Stands(m)'
  BY <1>6, <1>9, StandsStill DEF Good, Promised, OwedStill
<1>11. UpToDateCall(a, m)'
  BY <1>3, <1>4, <1>5, <1>6 DEF UpToDateCall, ArtifactsOf
<1>12. ReadsCurrent(m)'
  BY <1>1, <1>4, <1>11, ReadsAlone
<1>q. QED
  BY <1>10, <1>12 DEF Good

LEMMA GraphHere ==
  ASSUME NEW a, NEW m, Here(a, m), Good(m), WriteGraph(a)
  PROVE  Good(m)'
<1> USE DEF Here, database, meili
<1>1. /\ op[a].at = "graph" /\ HasRead(a) /\ op' = [op EXCEPT ![a].at = "search"]
      /\ UNCHANGED <<job, pc, held, published, evidence, extracted, row, text, docs, hits>>
      /\ graph' = [graph EXCEPT ![m] = op[a].read] /\ cites' = Replaced(cites, a)
  BY DEF WriteGraph, HasRead
<1>2. UpToDateCall(a, m) /\ op[a].read = evidence[m]
  BY <1>1 DEF Good, ReadsCurrent, UpToDateCall, Structure
<1>3. /\ OthersStill(a) /\ SameCall(a) /\ op'[a].at = "search" /\ Inside(a)
      /\ CitedStill(m) /\ WipedStill /\ (Promised(m) => Promised(m)')
      /\ (ToBeDocumented(m) => ToBeDocumented(m)') /\ (ToBeVectored(m) => ToBeVectored(m)')
  BY <1>1, Moving DEF Structure
<1>4. graph'[m] = evidence[m]
  BY <1>1, <1>2 DEF IInv, TypeOK
<1>5. \A x \in ArtifactsOf(m) : cites'[x] = IF x \in op[a].arts THEN evidence[m] ELSE Absent
  BY <1>1, <1>2 DEF Replaced, ArtifactsOf
<1>6. \A x \in published \intersect ArtifactsOf(m) : x \in op[a].arts \/ Citing(x)'
  BY <1>1, <1>2, <1>3 DEF UpToDateCall, Structure, CitedStill
<1>7. Stands(m)'
  <2> SUFFICES ASSUME row[m] # "none", ~Wiped' PROVE InStores(m)'
    BY <1>1 DEF Stands
  <2>1. InStores(m)
    BY <1>3 DEF Good, Stands, WipedStill
  <2>2. \A x \in published' \intersect ArtifactsOf(m) :
          Citing(x)' \/ (cites'[x] = evidence'[m] /\ hits'[x] = evidence'[m])
    BY <1>1, <1>3, <1>5, <1>6, <2>1 DEF InStores, CitedStill
  <2>q. QED
    BY <1>1, <1>3, <1>4, <2>1, <2>2 DEF InStores, ArtifactsOf
<1>8. UpToDateCall(a, m)'
  BY <1>1, <1>2, <1>3, <1>6 DEF UpToDateCall, SameCall, Structure, ArtifactsOf
<1>9. ReadsCurrent(m)'
  BY <1>3, <1>8, ReadsAlone
<1>q. QED
  BY <1>3, <1>7, <1>9 DEF Good

LEMMA SearchHere ==
  ASSUME NEW a, NEW m, Here(a, m), Good(m), WriteSearch(a)
  PROVE  Good(m)'
<1> USE DEF Here, database, neo4j
<1>1. /\ op[a].at = "search" /\ HasRead(a) /\ op' = [op EXCEPT ![a].at = "record"]
      /\ UNCHANGED <<job, pc, held, published, evidence, extracted, row, graph, cites>>
      /\ text' = [text EXCEPT ![m] = op[a].read] /\ docs' = [docs EXCEPT ![m] = op[a].docs]
      /\ hits' = Replaced(hits, a)
  BY DEF WriteSearch, HasRead
<1>2. UpToDateCall(a, m) /\ op[a].read = evidence[m]
  BY <1>1 DEF Good, ReadsCurrent, UpToDateCall, Structure
<1>3. /\ OthersStill(a) /\ SameCall(a) /\ op'[a].at = "record" /\ Inside(a)
      /\ CitedStill(m) /\ WipedStill /\ (Promised(m) => Promised(m)')
      /\ (ToBeDocumented(m) => ToBeDocumented(m)')
  BY <1>1, Moving DEF Structure
<1>4. text'[m] = evidence[m] /\ (docs'[m] = extracted[m] \/ ToBeDocumented(m)')
  BY <1>1, <1>2, <1>3 DEF IInv, TypeOK, UpToDateCall, Structure
<1>5. \A x \in ArtifactsOf(m) : hits'[x] = IF x \in op[a].arts THEN evidence[m] ELSE Absent
  BY <1>1, <1>2 DEF Replaced, ArtifactsOf
<1>6. \A x \in published \intersect ArtifactsOf(m) : x \in op[a].arts \/ Citing(x)'
  BY <1>1, <1>2, <1>3 DEF UpToDateCall, Structure, CitedStill
<1>7. Stands(m)'
  <2> SUFFICES ASSUME row[m] # "none", ~Wiped' PROVE InStores(m)'
    BY <1>1 DEF Stands
  <2>1. InStores(m)
    BY <1>3 DEF Good, Stands, WipedStill
  <2>2. \A x \in published' \intersect ArtifactsOf(m) :
          Citing(x)' \/ (cites'[x] = evidence'[m] /\ hits'[x] = evidence'[m])
    BY <1>1, <1>3, <1>5, <1>6, <2>1 DEF InStores, CitedStill
  <2>q. QED
    BY <1>1, <1>3, <1>4, <2>1, <2>2 DEF InStores, ArtifactsOf
<1>8. UpToDateCall(a, m)'
  BY <1>1, <1>2, <1>3, <1>6 DEF UpToDateCall, SameCall, Structure, ArtifactsOf
<1>9. ReadsCurrent(m)'
  BY <1>3, <1>8, ReadsAlone
<1>q. QED
  BY <1>3, <1>7, <1>9 DEF Good

\* Also when nothing was known of the meeting before.
LEMMA RecordHere ==
  ASSUME NEW a, NEW m, Here(a, m), UpToDateCall(a, m), RecordStructural(a)
  PROVE  Good(m)'
<1> USE DEF Here, database, stores
<1>1. /\ op[a].at = "record" /\ HasRead(a) /\ op' = [op EXCEPT ![a].at = "embed"]
      /\ UNCHANGED <<job, pc, held, published, evidence, extracted, graph, cites, text, docs, hits>>
      /\ row'[m] = "structural"
  BY DEF RecordStructural, HasRead, IInv, TypeOK
<1>2. op[a].read = evidence[m]
  BY <1>1 DEF UpToDateCall, Structure
<1>3. /\ OthersStill(a) /\ SameCall(a) /\ op'[a].at = "embed" /\ Inside(a)
      /\ CitedStill(m) /\ (ToBeDocumented(m) => ToBeDocumented(m)')
  BY <1>1, Moving
<1>4. /\ graph[m] = evidence[m] /\ text[m] = evidence[m] /\ docs[m] = op[a].docs
      /\ \A x \in ArtifactsOf(m) \intersect op[a].arts : cites[x] = evidence[m] /\ hits[x] = evidence[m]
  BY <1>1, <1>2 DEF AllWritten, Written
<1>5. docs[m] = extracted[m] \/ ToBeDocumented(m)'
  BY <1>1, <1>3, <1>4 DEF UpToDateCall, Structure
<1>6. \A x \in published \intersect ArtifactsOf(m) : x \in op[a].arts \/ Citing(x)'
  BY <1>1, <1>3 DEF UpToDateCall, Structure, CitedStill
<1>7. InStores(m)'
  BY <1>1, <1>4, <1>5, <1>6 DEF InStores, ArtifactsOf
<1>8. UpToDateCall(a, m)'
  BY <1>1, <1>2, <1>3 DEF UpToDateCall, SameCall, Structure
<1>9. ReadsCurrent(m)'
  BY <1>3, <1>8, ReadsAlone
<1>q. QED
  BY <1>1, <1>7, <1>9 DEF Good, Stands, Promised

LEMMA VectorsHere ==
  ASSUME NEW a, NEW m, Here(a, m), Good(m), WriteVectors(a)
  PROVE  Good(m)'
<1> USE DEF Here, database, neo4j
<1>1. /\ op[a].at = "embed" /\ HasRead(a) /\ op' = [op EXCEPT ![a].at = "stamp"]
      /\ UNCHANGED <<job, pc, held, published, evidence, extracted, row, graph, cites, docs, hits>>
      /\ text'[m] = op[a].read
  BY DEF WriteVectors, HasRead, IInv, TypeOK
<1>2. row[m] # "none" => op[a].read = evidence[m]
  BY <1>1 DEF Good, ReadsCurrent, UpToDateCall
<1>3. /\ OthersStill(a) /\ SameCall(a) /\ op'[a].at = "stamp" /\ Inside(a)
      /\ CitedStill(m) /\ WipedStill /\ (Promised(m) => Promised(m)')
      /\ (ToBeDocumented(m) => ToBeDocumented(m)')
  BY <1>1, Moving DEF Structure
<1>4. Stands(m)'
  <2> SUFFICES ASSUME row[m] # "none", ~Wiped' PROVE InStores(m)'
    BY <1>1 DEF Stands
  <2>1. InStores(m)
    BY <1>3 DEF Good, Stands, WipedStill
  <2>q. QED
    BY <1>1, <1>2, <1>3, <2>1 DEF InStores, ArtifactsOf, CitedStill
<1>5. UpToDateCall(a, m)'
  BY <1>1, <1>2, <1>3 DEF UpToDateCall, SameCall, Structure
<1>6. ReadsCurrent(m)'
  BY <1>3, <1>5, ReadsAlone
<1>q. QED
  BY <1>3, <1>4, <1>6 DEF Good

\* The steps that end the call.
LEMMA SkipHere ==
  ASSUME NEW a, NEW m, Here(a, m), Good(m), SkipEmbedding(a)
  PROVE  Good(m)'
<1> USE DEF Here, database, stores
<1>1. /\ op[a].at = "embed" /\ Finish(a) /\ text[m] # Torn
      /\ UNCHANGED <<job, pc, held, published, evidence, extracted, row, graph, cites, text, docs, hits>>
  BY DEF SkipEmbedding
<1>2. /\ ReadsCurrent(m)' /\ WipedStill /\ (Promised(m) => Promised(m)')
      /\ (ToBeDocumented(m) => ToBeDocumented(m)')
      /\ \A x \in ArtifactsOf(m) : Citing(x) => Citing(x)'
  BY <1>1, Ending
<1>3. Stands(m)'
  BY <1>1, <1>2 DEF Good, Stands, WipedStill, InStores, ArtifactsOf
<1>q. QED
  BY <1>2, <1>3 DEF Good

LEMMA EmbeddedHere ==
  ASSUME NEW a, NEW m, Here(a, m), Good(m), RecordEmbedded(a)
  PROVE  Good(m)'
<1> USE DEF Here, database, stores
<1>1. /\ op[a].at = "stamp" /\ HasRead(a) /\ Finish(a) /\ (row'[m] = "none" <=> row[m] = "none")
      /\ UNCHANGED <<job, pc, held, published, evidence, extracted, graph, cites, text, docs, hits>>
  BY DEF RecordEmbedded, HasRead, IInv, TypeOK
<1>2. row[m] # "none" => text[m] = evidence[m]
  BY <1>1 DEF Good, ReadsCurrent, UpToDateCall, AllWritten, Written
<1>3. /\ ReadsCurrent(m)' /\ WipedStill /\ (Promised(m) => Promised(m)')
      /\ (ToBeDocumented(m) => ToBeDocumented(m)')
      /\ \A x \in ArtifactsOf(m) : Citing(x) => Citing(x)'
  BY <1>1, Ending
<1>4. Stands(m)'
  BY <1>1, <1>2, <1>3 DEF Good, Stands, WipedStill, InStores, ArtifactsOf
<1>q. QED
  BY <1>3, <1>4 DEF Good

LEMMA DocumentsHere ==
  ASSUME NEW a, NEW m, Here(a, m), Good(m), WriteDocuments(a)
  PROVE  Good(m)'
<1> USE DEF Here, database, neo4j
<1>1. /\ op[a].at = "docs" /\ Finish(a) /\ docs'[m] = op[a].docs
      /\ UNCHANGED <<job, pc, held, published, evidence, extracted, row, graph, cites, text, hits>>
  BY DEF WriteDocuments, IInv, TypeOK
<1>2. docs'[m] = extracted[m]
  BY <1>1 DEF AllWritten, Written
<1>3. /\ ReadsCurrent(m)' /\ WipedStill /\ (Promised(m) => Promised(m)')
      /\ (ToBeVectored(m) => ToBeVectored(m)')
      /\ \A x \in ArtifactsOf(m) : Citing(x) => Citing(x)'
  BY <1>1, Ending
<1>4. Stands(m)'
  BY <1>1, <1>2, <1>3 DEF Good, Stands, WipedStill, InStores, ArtifactsOf
<1>q. QED
  BY <1>3, <1>4 DEF Good

LEMMA CitingHere ==
  ASSUME NEW a, NEW m, Here(a, m), op[a].at \in {"cite", "hit"}
  PROVE  a \in ArtifactsOf(m) /\ op[a].kind = "cite" /\ HasRead(a)
<1> USE DEF Here
<1>1. HasRead(a) /\ op[a].kind = "cite" /\ KindOf(a, op[a].kind)
  BY DEF HasRead, Shape, CallKinds, StepOf, Over
<1>2. a \in Artifacts
  BY <1>1, Roles DEF KindOf
<1>3. op[a].meeting = MeetingOf[a]
  BY <1>1, <1>2, NamedMeeting DEF IInv, Nameable, NamesMeeting
<1>q. QED
  BY <1>1, <1>2, <1>3 DEF ArtifactsOf

LEMMA CiteHere ==
  ASSUME NEW a, NEW m, Here(a, m), Good(m), CiteArtifact(a)
  PROVE  Good(m)'
<1> USE DEF Here, database, meili
<1>1. /\ op[a].at = "cite" /\ op' = [op EXCEPT ![a].at = "hit"]
      /\ UNCHANGED <<job, pc, held, published, evidence, extracted, row, graph, text, docs, hits>>
      /\ \A x \in Artifacts \ {a} : cites'[x] = cites[x]
  BY DEF CiteArtifact, IInv, TypeOK
<1>2. HasRead(a) /\ op[a].kind = "cite" /\ a \in ArtifactsOf(m)
  BY <1>1, CitingHere
<1>3. /\ OthersStill(a) /\ SameCall(a) /\ op'[a].at = "hit" /\ Inside(a)
      /\ CitedStill(m) /\ WipedStill /\ (Promised(m) => Promised(m)')
      /\ (ToBeDocumented(m) => ToBeDocumented(m)') /\ (ToBeVectored(m) => ToBeVectored(m)')
  BY <1>1, <1>2, Moving DEF Structure
<1>4. Citing(a)'
  BY <1>3 DEF Citing, Over
<1>5. Stands(m)'
  <2> SUFFICES ASSUME row[m] # "none", ~Wiped' PROVE InStores(m)'
    BY <1>1 DEF Stands
  <2>1. InStores(m)
    BY <1>3 DEF Good, Stands, WipedStill
  <2>2. \A x \in published' \intersect ArtifactsOf(m) :
          Citing(x)' \/ (cites'[x] = evidence'[m] /\ hits'[x] = evidence'[m])
    BY <1>1, <1>3, <1>4, <2>1 DEF InStores, CitedStill, ArtifactsOf
  <2>q. QED
    BY <1>1, <1>3, <2>1, <2>2 DEF InStores, ArtifactsOf
<1>6. UpToDateCall(a, m)'
  BY <1>1, <1>2, <1>3 DEF Good, ReadsCurrent, UpToDateCall, SameCall, Structure
<1>7. ReadsCurrent(m)'
  BY <1>3, <1>6, ReadsAlone
<1>q. QED
  BY <1>3, <1>5, <1>7 DEF Good

LEMMA HitHere ==
  ASSUME NEW a, NEW m, Here(a, m), Good(m), AddHit(a)
  PROVE  Good(m)'
<1> USE DEF Here, database, neo4j
<1>1. /\ op[a].at = "hit" /\ Finish(a)
      /\ UNCHANGED <<job, pc, held, published, evidence, extracted, row, graph, cites, text, docs>>
      /\ \A x \in Artifacts \ {a} : hits'[x] = hits[x]
      /\ a \in Artifacts => hits'[a] = op[a].read
  BY DEF AddHit, IInv, TypeOK
<1>2. HasRead(a) /\ a \in ArtifactsOf(m)
  BY <1>1, CitingHere
<1>3. row[m] # "none" => cites'[a] = evidence[m] /\ hits'[a] = evidence[m]
  BY <1>1, <1>2 DEF Good, ReadsCurrent, UpToDateCall, AllWritten, Written, ArtifactsOf
<1>4. /\ ReadsCurrent(m)' /\ WipedStill /\ (Promised(m) => Promised(m)')
      /\ (ToBeDocumented(m) => ToBeDocumented(m)') /\ (ToBeVectored(m) => ToBeVectored(m)')
      /\ \A x \in ArtifactsOf(m) \ {a} : Citing(x) => Citing(x)'
  BY <1>1, Ending
<1>5. Stands(m)'
  <2> SUFFICES ASSUME row[m] # "none", ~Wiped' PROVE InStores(m)'
    BY <1>1 DEF Stands
  <2>1. InStores(m)
    BY <1>4 DEF Good, Stands, WipedStill
  <2>2. \A x \in published' \intersect ArtifactsOf(m) :
          Citing(x)' \/ (cites'[x] = evidence'[m] /\ hits'[x] = evidence'[m])
    BY <1>1, <1>3, <1>4, <2>1 DEF InStores, ArtifactsOf
  <2>q. QED
    BY <1>1, <1>4, <2>1, <2>2 DEF InStores, ArtifactsOf
<1>q. QED
  BY <1>4, <1>5 DEF Good

LEMMA ProjectingGood ==
  ASSUME IInv, RInv, NEW a \in Actors, Projecting(a), NEW m \in Meetings, m \notin excused'
  PROVE  Good(m)'
<1> USE DEF database, stores
<1>1. CASE op[a].at = "waiting"
  <2>1. (AcquireLocks(a) \/ Refused(a)) /\ m \notin excused
    BY <1>1 DEF Projecting, AcquireLocks, Refused, RefuseEmbedding, Read, WriteGraph, WriteSearch, RecordStructural,
         SkipEmbedding, WriteVectors, RecordEmbedded, WriteDocuments, CiteArtifact, MomentMissing, AddHit
  <2>q. QED
    BY <2>1, WaitingGood DEF RInv
<1>2. CASE op[a].at # "waiting" /\ op[a].meeting # m
  <2>1. m \notin excused
    BY <1>2 DEF Projecting, AcquireLocks, Refused, RefuseEmbedding, Read, WriteGraph, WriteSearch, RecordStructural,
         SkipEmbedding, WriteVectors, RecordEmbedded, WriteDocuments, CiteArtifact, MomentMissing, AddHit
  <2>q. QED
    BY <1>2, <2>1, ProjectingElsewhere DEF RInv
<1>3. CASE op[a].at # "waiting" /\ op[a].meeting = m
  <2>0. Here(a, m)
    BY <1>3 DEF Here, RInv
  <2>1. CASE RecordStructural(a)
    <3>1. CASE m \in excused
      BY <1>3, <2>0, <2>1, <3>1, RecordHere DEF RecordStructural, UpToDate, UpToDateCall, Structure
    <3>2. CASE m \notin excused
      <4>1. UpToDateCall(a, m)
        BY <1>3, <2>1, <3>2 DEF RInv, Good, ReadsCurrent, HasRead, RecordStructural
      <4>q. QED
        BY <2>0, <2>1, <4>1, RecordHere
    <3>q. QED
      BY <3>1, <3>2
  <2>2. CASE ~RecordStructural(a)
    <3>1. m \notin excused
      BY <2>2 DEF Projecting, AcquireLocks, Refused, RefuseEmbedding, Read, WriteGraph, WriteSearch,
         SkipEmbedding, WriteVectors, RecordEmbedded, WriteDocuments, CiteArtifact, MomentMissing, AddHit
    <3>2. Good(m)
      BY <3>1 DEF RInv
    <3>3. ~RefuseEmbedding(a) /\ ~MomentMissing(a) /\ ~AcquireLocks(a) /\ ~Refused(a)
      BY <1>3 DEF RefuseEmbedding, MomentMissing, AcquireLocks, Refused
    <3>q. QED
      BY <2>0, <2>2, <3>2, <3>3, ReadHere, GraphHere, SearchHere, SkipHere, VectorsHere, EmbeddedHere,
         DocumentsHere, CiteHere, HitHere DEF Projecting
  <2>q. QED
    BY <2>1, <2>2
<1>q. QED
  BY <1>1, <1>2, <1>3

-----------------------------------------------------------------------------
(* A rebuild, and the api.                                                 *)

\* A meeting whose evidence stages have not settled is still before the worker.
LEMMA Unsettled ==
  ASSUME IInv, Shape, NEW m \in Meetings, m \notin complete
  PROVE  Queued(m) \/ (held = m /\ pc \in Before)
<1>1. job[m] # "done"
  BY DEF Shape, JobShape
<1>2. job[m] = "running" => held = m /\ pc \in Before
  BY DEF Shape, JobShape, Before, IInv, TypeOK
<1>q. QED
  BY <1>1, <1>2 DEF Queued

LEMMA RebuildingGood ==
  ASSUME IInv, RInv, NEW c \in Rebuilds, Rebuilding(c), NEW m \in Meetings, m \notin excused'
  PROVE  Good(m)'
<1> USE DEF database, stores
<1>0. /\ Shape /\ c \in Actors /\ c # Worker /\ c \notin ArtifactsOf(m) /\ Good(m)
      /\ op \in [Actors -> Calls] /\ op[c] \in Calls
  <2>1. m \notin excused
    BY DEF Rebuilding, StartRebuild, DropStores, ForgetRows, EndRebuild, NextTarget
  <2>q. QED
    BY <2>1, Roles, CallTyped DEF RInv, IInv, TypeOK, ArtifactsOf
<1>1. CASE StartRebuild(c)
  <2>1. OthersStill(c) /\ op'[c].at = "waiting" /\ op[c].at = "rest"
    BY <1>0, <1>1 DEF StartRebuild, OthersStill, Call, Rest
  <2>2. ViewKept(m) /\ row'[m] = row[m] /\ UNCHANGED <<job, pc, held, published>>
    BY <1>1 DEF StartRebuild, ViewKept
  <2>3. ~Covers(c, m)
    BY <2>1 DEF Covers, Structure
  <2>4. OwedStill(m) /\ CitedStill(m) /\ WipedStill
    BY <1>0, <2>1, <2>2, <2>3, OneMoves
  <2>5. CallsStill(m)
    BY <2>1 DEF CallsStill, OthersStill, HasRead, SameCall
  <2>q. QED
    BY <1>0, <2>2, <2>4, <2>5, Aside
<1>2. CASE DropStores(c)
  <2>1. OthersStill(c) /\ op'[c].at = "forget" /\ op[c].at = "drop" /\ Inside(c)
    BY <1>0, <1>2, MovesTo DEF DropStores, Inside
  <2>2. row' = row /\ UNCHANGED <<job, pc, held, published>>
    BY <1>2 DEF DropStores
  <2>3. ~Covers(c, m) /\ ~HasRead(c)'
    BY <2>1 DEF Covers, Structure, HasRead
  <2>4. OwedStill(m)
    BY <1>0, <2>1, <2>2, <2>3, OneMoves
  <2>5. Wiped'
    BY <2>1 DEF Wiped
  <2>6. ReadsCurrent(m)'
    BY <1>0, <2>1, <2>3, ReadsAlone
  <2>q. QED
    BY <1>0, <2>2, <2>4, <2>5, <2>6 DEF Good, Promised, OwedStill, Stands
<1>3. CASE ForgetRows(c)
  <2>1. OthersStill(c) /\ SameCall(c) /\ op'[c].at = "next" /\ op[c].at = "forget" /\ Inside(c)
    BY <1>0, <1>3, MovesTo DEF ForgetRows, Inside
  <2>2. /\ row'[m] = "none" /\ UNCHANGED <<job, pc, held>>
        /\ m \in complete => m \in op[c].todo
    BY <1>3 DEF ForgetRows, RowsForgotten
  <2>3. op[c].kind = "rebuild"
    BY <1>0, <2>1 DEF Shape, CallKinds, StepOf, Over
  <2>4. ReadsCurrent(m)'
    <3>1. ~HasRead(c)'
      BY <2>1 DEF HasRead
    <3>q. QED
      BY <1>0, <2>1, <3>1, ReadsAlone
  <2>5. ToBeProjected(m)'
    <3>1. CASE m \in complete
      <4>1. Covers(c, m)'
        BY <2>1, <2>2, <2>3, <3>1 DEF Covers, SameCall
      <4>q. QED
        BY <4>1 DEF ToBeProjected, Rebuilt
    <3>2. CASE m \notin complete
      BY <1>0, <2>2, <3>2, Unsettled DEF ToBeProjected, Queued
    <3>q. QED
      BY <3>1, <3>2
  <2>q. QED
    BY <2>2, <2>4, <2>5 DEF Good, Promised, Stands
<1>4. CASE EndRebuild(c)
  <2>1. OthersStill(c) /\ op'[c].at \in Over /\ op[c].at = "next" /\ op[c].todo = {}
    BY <1>0, <1>4, LeavesOver DEF EndRebuild
  <2>2. ViewKept(m) /\ row'[m] = row[m] /\ UNCHANGED <<job, pc, held, published>>
    BY <1>4 DEF EndRebuild, ViewKept
  <2>3. ~Covers(c, m)
    BY <2>1 DEF Covers, Structure
  <2>4. OwedStill(m) /\ CitedStill(m) /\ WipedStill
    BY <1>0, <2>1, <2>2, <2>3, OneMoves
  <2>5. CallsStill(m)
    BY <2>1 DEF CallsStill, OthersStill, HasRead, SameCall, Over
  <2>q. QED
    BY <1>0, <2>2, <2>4, <2>5, Aside
<1>5. ASSUME NEW n \in Meetings, NextTarget(c, n) PROVE Good(m)'
  <2>1. /\ OthersStill(c) /\ op'[c].at \in {"read", "next"} /\ op[c].at = "next"
        /\ op'[c].kind = op[c].kind /\ op'[c].todo = op[c].todo \ {n}
        /\ n \in complete => op'[c].at = "read" /\ op'[c].meeting = n
    BY <1>0, <1>5 DEF NextTarget, OthersStill, Calls
  <2>2. ViewKept(m) /\ row'[m] = row[m] /\ UNCHANGED <<job, pc, held, published>>
    BY <1>5 DEF NextTarget, ViewKept
  <2>3. CallsStill(m)
    BY <2>1 DEF CallsStill, OthersStill, HasRead, SameCall
  <2>4. CASE m # n \/ n \in complete
    <3>1. Covers(c, m) => Covers(c, m)'
      BY <2>1, <2>4 DEF Covers, Structure
    <3>2. OwedStill(m) /\ CitedStill(m) /\ WipedStill
      BY <1>0, <2>1, <2>2, <3>1, OneMoves
    <3>q. QED
      BY <1>0, <2>2, <2>3, <3>2, Aside
  <2>5. CASE m \notin complete
    <3>1. ToBeProjected(m)'
      BY <1>0, <2>2, <2>5, Unsettled DEF ToBeProjected, Queued
    <3>2. op'[Worker] = op[Worker] /\ \A x \in ArtifactsOf(m) : op'[x] = op[x]
      BY <1>0, <2>1, Roles DEF OthersStill, ArtifactsOf
    <3>3. OwedStill(m)
      BY <2>2, <3>1, <3>2 DEF OwedStill, ToBeVectored, ToBeDocumented, Queued
    <3>4. CitedStill(m)
      BY <2>2, <3>2 DEF CitedStill, Citing
    <3>5. WipedStill
      BY <2>1, Roles DEF WipedStill, Wiped, OthersStill
    <3>q. QED
      BY <1>0, <2>2, <2>3, <3>3, <3>4, <3>5, Aside
  <2>q. QED
    BY <2>4, <2>5
<1>q. QED
  BY <1>1, <1>2, <1>3, <1>4, <1>5 DEF Rebuilding

LEMMA ApiGood ==
  ASSUME IInv, RInv, Api, NEW m \in Meetings, m \notin excused'
  PROVE  Good(m)'
<1> USE DEF database, stores
<1>0. Shape /\ Good(m)
  BY DEF RInv, Api, Ingest, Augment, AssignSpeaker, Accept, Approve
<1>1. ASSUME NEW n \in Meetings, Ingest(n) \/ Augment(n) \/ AssignSpeaker(n) PROVE Good(m)'
  <2>1. /\ UNCHANGED <<op, pc, held, published>> /\ ViewKept(m) /\ row'[m] = row[m]
        /\ job'[m] \in {job[m], "queued"}
    BY <1>1 DEF Ingest, Augment, AssignSpeaker, Accept, ViewKept, IInv, TypeOK
  <2>2. OwedStill(m)
    BY <2>1 DEF OwedStill, ToBeProjected, ToBeVectored, ToBeDocumented, Queued, Rebuilt, Covers
  <2>3. CallsStill(m) /\ CitedStill(m) /\ WipedStill
    BY <2>1, NobodyMoves
  <2>q. QED
    BY <1>0, <2>1, <2>2, <2>3, Aside
<1>2. ASSUME NEW a \in Artifacts, Approve(a) PROVE Good(m)'
  <2>1. /\ OthersStill(a) /\ op'[a].at = "waiting" /\ published' = published \union {a}
        /\ UNCHANGED <<job, pc, held>> /\ ViewKept(m) /\ row'[m] = row[m]
    BY <1>2, Roles DEF Approve, OthersStill, Call, Rest, ViewKept, IInv, TypeOK
  <2>2. op'[Worker] = op[Worker] /\ \A c \in Rebuilds : op'[c] = op[c]
    BY <2>1, Roles DEF OthersStill
  <2>3. OwedStill(m)
    BY <2>1, <2>2 DEF OwedStill, ToBeProjected, ToBeVectored, ToBeDocumented, Queued, Rebuilt, Covers
  <2>4. WipedStill
    BY <2>2 DEF WipedStill, Wiped
  <2>5. CitedStill(m)
    BY <2>1, Roles DEF CitedStill, Citing, Over, OthersStill, ArtifactsOf
  <2>6. CallsStill(m)
    BY <2>1 DEF CallsStill, OthersStill, HasRead, SameCall
  <2>q. QED
    BY <1>0, <2>1, <2>3, <2>4, <2>5, <2>6, Aside
<1>q. QED
  BY <1>1, <1>2 DEF Api

-----------------------------------------------------------------------------
(* The worker's pass.                                                      *)

LEMMA Resting ==
  ASSUME IInv, Shape, pc \notin {"extract", "settled"} \/ op[Worker] = Rest
  PROVE  op[Worker].kind = "none" /\ op[Worker] = Rest
  BY DEF Shape, WorkerCall, Rest

LEMMA WorkingGood ==
  ASSUME IInv, RInv, Working, NEW m \in Meetings, m \notin excused'
  PROVE  Good(m)'
<1> USE DEF database, stores
<1>0. Shape /\ JobShape /\ Good(m)
  BY DEF RInv, Shape, Working, Claim, Mint, CommitEvidence, Checkpoint, MaybeProject, CommitExtract,
         MaybeProjectDocuments, FinishJob
<1>1. ASSUME NEW n \in Meetings, Claim(n) PROVE Good(m)'
  <2>1. /\ UNCHANGED <<op, published>> /\ ViewKept(m) /\ row'[m] = row[m]
        /\ pc = "idle" /\ pc' = "claimed" /\ held' = n /\ (m # n => job'[m] = job[m])
    BY <1>1 DEF Claim, ViewKept, IInv, TypeOK
  <2>2. OwedStill(m)
    BY <1>0, <2>1, Resting DEF OwedStill, ToBeProjected, ToBeVectored, ToBeDocumented, Queued, Rebuilt, Covers, Before
  <2>3. CallsStill(m) /\ CitedStill(m) /\ WipedStill
    BY <2>1, NobodyMoves
  <2>q. QED
    BY <1>0, <2>1, <2>2, <2>3, Aside
<1>2. CASE Mint
  <2>1. /\ UNCHANGED <<op, published, job, held, evidence, extracted>> /\ ViewKept(m)
        /\ row'[m] = row[m] \/ (row'[m] = "none" /\ held = m)
        /\ pc \in Before /\ pc' \in Before
    BY <1>2 DEF Mint, Invalidated, ViewKept, Before, IInv, TypeOK
  <2>2. OwedStill(m)
    BY <2>1 DEF OwedStill, ToBeProjected, ToBeVectored, ToBeDocumented, Queued, Rebuilt, Covers, Before
  <2>3. CallsStill(m) /\ CitedStill(m) /\ WipedStill
    BY <2>1, NobodyMoves
  <2>4. CASE row'[m] = row[m]
    BY <1>0, <2>1, <2>2, <2>3, <2>4, Aside
  <2>5. CASE row'[m] = "none" /\ held = m
    <3>1. ToBeProjected(m)'
      BY <2>1, <2>5 DEF ToBeProjected
    <3>2. ReadsCurrent(m)'
      BY <1>0, <2>1, <2>2, <2>3, <2>5, ReadsStill DEF Good, OwedStill
    <3>q. QED
      BY <2>5, <3>1, <3>2 DEF Good, Promised, Stands
  <2>q. QED
    BY <2>1, <2>4, <2>5
<1>3. CASE CommitEvidence
  <2>1. /\ UNCHANGED <<op, published, job, held, row, graph, cites, text, docs, hits, extracted>>
        /\ pc \in Before /\ pc' \in Before
        /\ m # held \/ evidence[held] = source[held] => evidence'[m] = evidence[m]
    BY <1>3 DEF CommitEvidence, Before, IInv, TypeOK
  <2>2. OwedStill(m)
    BY <2>1 DEF OwedStill, ToBeProjected, ToBeVectored, ToBeDocumented, Queued, Rebuilt, Covers, Before
  <2>3. CallsStill(m) /\ CitedStill(m) /\ WipedStill
    BY <2>1, NobodyMoves
  <2>4. CASE evidence'[m] = evidence[m]
    <3>1. ViewKept(m)
      BY <2>1, <2>4 DEF ViewKept
    <3>q. QED
      BY <1>0, <2>1, <2>2, <2>3, <3>1, Aside
  <2>5. CASE evidence'[m] # evidence[m]
    <3>1. m = held /\ ~Standing(m)
      BY <1>3, <2>1, <2>5 DEF CommitEvidence
    <3>2. row[m] = "none" /\ row'[m] = "none" /\ ToBeProjected(m)'
      BY <2>1, <3>1 DEF Standing, ToBeProjected
    <3>3. ASSUME NEW a \in Actors, op[a].meeting = m, op[a].at \in Structure PROVE FALSE
      <4>1. op[a].kind \in {"full", "rebuild", "scoped"}
        BY <1>0, <3>3 DEF Shape, CallKinds, StepOf, Structure, Over
      <4>q. QED
        BY <3>1, <3>3, <4>1 DEF Standing, Structural, Structure
    <3>4. ReadsCurrent(m)'
      BY <2>1, <3>2, <3>3 DEF ReadsCurrent, UpToDateCall
    <3>q. QED
      BY <3>2, <3>4 DEF Good, Promised, Stands
  <2>q. QED
    BY <2>4, <2>5
<1>4. CASE Checkpoint
  <2>1. /\ UNCHANGED <<op, published, job, held>> /\ ViewKept(m) /\ row'[m] = row[m]
        /\ pc \in Before /\ pc' \in Before
    BY <1>4 DEF Checkpoint, ViewKept, Before
  <2>2. OwedStill(m)
    BY <2>1 DEF OwedStill, ToBeProjected, ToBeVectored, ToBeDocumented, Queued, Rebuilt, Covers, Before
  <2>3. CallsStill(m) /\ CitedStill(m) /\ WipedStill
    BY <2>1, NobodyMoves
  <2>q. QED
    BY <1>0, <2>1, <2>2, <2>3, Aside
<1>5. CASE MaybeProject
  <2>0. op[Worker] = Rest /\ op[Worker].kind = "none" /\ op \in [Actors -> Calls]
    BY <1>0, <1>5, Resting DEF MaybeProject, IInv, TypeOK
  <2>1. /\ UNCHANGED <<published, job, held, row, evidence, extracted>> /\ ViewKept(m)
        /\ pc' = "extract" /\ OthersStill(Worker) /\ op'[Worker].at \in {"rest", "waiting"}
        /\ row[held] = "none" => op'[Worker].kind = "full" /\ op'[Worker].at = "waiting"
        /\ row[held] = "structural" => op'[Worker].kind = "embed" /\ op'[Worker].at = "waiting"
    BY <1>5, <2>0, Roles DEF MaybeProject, ProjectionAction, OthersStill, Call, Rest, ViewKept
  <2>2. (\A c \in Rebuilds : op'[c] = op[c]) /\ (\A x \in Artifacts : op'[x] = op[x])
    BY <2>1, Roles DEF OthersStill
  <2>3. CallsStill(m)
    BY <2>1 DEF CallsStill, OthersStill, HasRead, SameCall
  <2>4. WipedStill /\ CitedStill(m) /\ (Rebuilt(m) <=> Rebuilt(m)')
    BY <2>1, <2>2 DEF WipedStill, Wiped, CitedStill, Citing, ArtifactsOf, Rebuilt, Covers
  <2>5. ToBeDocumented(m) => ToBeDocumented(m)'
    BY <2>0, <2>1 DEF ToBeDocumented, Queued, Before
  <2>6. CASE held # m
    <3>1. OwedStill(m)
      BY <2>1, <2>4, <2>5, <2>6 DEF OwedStill, ToBeProjected, ToBeVectored, Queued
    <3>q. QED
      BY <1>0, <2>1, <2>3, <2>4, <3>1, Aside
  <2>7. CASE held = m
    <3>1. Promised(m)'
      BY <2>1, <2>7 DEF Promised, ToBeProjected
    <3>2. row[m] = "structural" => ToBeVectored(m)'
      BY <2>1, <2>7 DEF ToBeVectored
    <3>3. Stands(m)'
      <4> SUFFICES ASSUME row[m] # "none", ~Wiped' PROVE InStores(m)'
        BY <2>1 DEF Stands
      <4>1. InStores(m)
        BY <1>0, <2>4 DEF Good, Stands, WipedStill
      <4>q. QED
        BY <2>1, <2>4, <2>5, <3>2, <4>1 DEF InStores, ViewKept, CitedStill, ArtifactsOf
    <3>4. ReadsCurrent(m)'
      BY <1>0, <2>1, <2>3, <2>4, <2>5, ReadsStill DEF Good
    <3>q. QED
      BY <3>1, <3>3, <3>4 DEF Good
  <2>q. QED
    BY <2>6, <2>7
<1>6. CASE CommitExtract
  <2>1. /\ UNCHANGED <<op, pc, published, job, held, row, evidence, graph, cites, text, docs, hits>>
        /\ pc = "extract" /\ (m # held => extracted'[m] = extracted[m])
    BY <1>6 DEF CommitExtract, IInv, TypeOK
  <2>2. OwedStill(m)
    BY <2>1 DEF OwedStill, ToBeProjected, ToBeVectored, ToBeDocumented, Queued, Rebuilt, Covers
  <2>3. CallsStill(m) /\ CitedStill(m) /\ WipedStill
    BY <2>1, NobodyMoves
  <2>4. CASE m # held
    <3>1. ViewKept(m)
      BY <2>1, <2>4 DEF ViewKept
    <3>q. QED
      BY <1>0, <2>1, <2>2, <2>3, <3>1, Aside
  <2>5. CASE m = held
    <3>1. ToBeDocumented(m)'
      BY <2>1, <2>5 DEF ToBeDocumented
    <3>2. Stands(m)'
      <4> SUFFICES ASSUME row[m] # "none", ~Wiped' PROVE InStores(m)'
        BY <2>1 DEF Stands
      <4>1. InStores(m)
        BY <1>0, <2>3 DEF Good, Stands, WipedStill
      <4>q. QED
        BY <2>1, <2>2, <2>3, <3>1, <4>1 DEF InStores, OwedStill, CitedStill, ArtifactsOf
    <3>3. ReadsCurrent(m)'
      BY <1>0, <2>1, <2>3, <3>1, ReadsStill DEF Good
    <3>4. Promised(m)'
      BY <1>0, <2>1, <2>2 DEF Good, Promised, OwedStill
    <3>q. QED
      BY <3>2, <3>3, <3>4 DEF Good
  <2>q. QED
    BY <2>4, <2>5
<1>7. CASE MaybeProjectDocuments
  <2>0. op[Worker] = Rest /\ op[Worker].kind = "none" /\ op \in [Actors -> Calls]
    BY <1>0, <1>7, Resting DEF MaybeProjectDocuments, IInv, TypeOK
  <2>1. /\ UNCHANGED <<published, job, held>> /\ ViewKept(m) /\ row'[m] = row[m]
        /\ pc = "extract" /\ OthersStill(Worker) /\ op'[Worker].at = "waiting" /\ op'[Worker].kind = "docs"
    BY <1>7, <2>0, Roles DEF MaybeProjectDocuments, OthersStill, Call, Rest, ViewKept
  <2>2. (\A c \in Rebuilds : op'[c] = op[c]) /\ (\A x \in Artifacts : op'[x] = op[x])
    BY <2>1, Roles DEF OthersStill
  <2>3. CallsStill(m)
    BY <2>1 DEF CallsStill, OthersStill, HasRead, SameCall
  <2>4. WipedStill /\ CitedStill(m) /\ (Rebuilt(m) <=> Rebuilt(m)')
    BY <2>1, <2>2 DEF WipedStill, Wiped, CitedStill, Citing, ArtifactsOf, Rebuilt, Covers
  <2>5. OwedStill(m)
    BY <2>0, <2>1, <2>4 DEF OwedStill, ToBeProjected, ToBeVectored, ToBeDocumented, Queued, Before
  <2>q. QED
    BY <1>0, <2>1, <2>3, <2>4, <2>5, Aside
<1>8. CASE FinishJob
  <2>1. /\ UNCHANGED <<op, published>> /\ ViewKept(m) /\ row'[m] = row[m] /\ pc = "settled"
        /\ op[Worker] = Rest /\ (m # held => job'[m] = job[m])
    BY <1>8 DEF FinishJob, ViewKept, IInv, TypeOK
  <2>2. job[held] = "running" \/ held \notin Meetings
    BY <1>0, <2>1 DEF JobShape
  <2>3. OwedStill(m)
    BY <1>0, <2>1, <2>2, Resting DEF OwedStill, ToBeProjected, ToBeVectored, ToBeDocumented, Queued, Rebuilt,
         Covers, Before
  <2>4. CallsStill(m) /\ CitedStill(m) /\ WipedStill
    BY <2>1, NobodyMoves
  <2>q. QED
    BY <1>0, <2>1, <2>3, <2>4, Aside
<1>q. QED
  BY <1>1, <1>2, <1>3, <1>4, <1>5, <1>6, <1>7, <1>8 DEF Working

-----------------------------------------------------------------------------
(* Failures.                                                               *)

\* What a write cut short takes away, it takes from the call's meeting.
LEMMA CutElsewhere ==
  ASSUME IInv, NEW a \in Actors, CutShort(a), op[a].at # "drop", UNCHANGED <<evidence, extracted>>,
         NEW m \in Meetings, op[a].meeting # m \/ op[a].at \notin {"search", "embed", "docs"}
  PROVE  ViewKept(m)
<1> USE DEF stores, neo4j
<1>1. graph' = graph /\ cites' = cites
  BY DEF CutShort
<1>2. text'[m] = text[m] /\ docs'[m] = docs[m]
  BY DEF CutShort, IInv, TypeOK
<1>3. \A x \in ArtifactsOf(m) : hits'[x] = hits[x]
  BY DEF CutShort, ArtifactsOf
<1>q. QED
  BY <1>1, <1>2, <1>3 DEF ViewKept

LEMMA StoreFailsGood ==
  ASSUME IInv, Shape, NEW a \in Actors, StoreFails(a), NEW m \in Meetings, m \notin excused', Good(m)
  PROVE  Good(m)'
<1> USE DEF database
<1>1. op[a].at # "drop"
  <2>1. op[a].at = "drop" => op[a].kind = "rebuild"
    BY DEF Shape, CallKinds, StepOf, Over
  <2>q. QED
    BY <2>1 DEF StoreFails, Doubtful
<1>2. m # op[a].meeting /\ NamesMeeting(a)
  BY <1>1, ActorsAssumption DEF StoreFails, Doubtful, NamesMeeting, HasRead
<1>3. /\ CutShort(a) /\ Finish(a) /\ UNCHANGED <<job, pc, held, published, evidence, extracted>> /\ row'[m] = row[m]
      /\ op[a].at \in {"graph", "search", "embed", "docs", "cite", "hit"}
  BY <1>1 DEF StoreFails
<1>4. ViewKept(m)
  BY <1>1, <1>2, <1>3, CutElsewhere
<1>5. /\ OthersStill(a) /\ ~HasRead(a)'
      /\ a \in Rebuilds => op'[a].at = "next" /\ op'[a].kind = op[a].kind /\ op'[a].todo = op[a].todo
  BY <1>3, Finishes DEF HasRead, Over
<1>6. a \in Rebuilds => (Covers(a, m) => Covers(a, m)')
  BY <1>2, <1>5 DEF Covers
<1>q. QED
  BY <1>2, <1>3, <1>4, <1>5, <1>6, Elsewhere

LEMMA CrashRebuildGood ==
  ASSUME IInv, Shape, NEW c \in Rebuilds, CrashRebuild(c), NEW m \in Meetings, m \notin excused', Good(m)
  PROVE  Good(m)'
<1> USE DEF database
<1>0. c \in Actors /\ c # Worker /\ c \notin ArtifactsOf(m) /\ op \in [Actors -> Calls]
  BY Roles DEF ArtifactsOf, IInv, TypeOK
<1>1. op[c].kind # "rebuild" /\ op[c].meeting # m
  BY ActorsAssumption DEF CrashRebuild, Doubtful
<1>2. op[c].at \notin {"drop", "forget"}
  BY <1>0, <1>1 DEF CrashRebuild, Inside, Shape, CallKinds, StepOf, Over
<1>3. OthersStill(c) /\ op'[c] = Ended(c) /\ op'[c].at = "ended"
  BY <1>0 DEF CrashRebuild, OthersStill, Ended, Rest
<1>4. /\ CutShort(c) /\ UNCHANGED <<job, pc, held, published, evidence, extracted>> /\ row'[m] = row[m]
  BY DEF CrashRebuild
<1>5. ViewKept(m)
  BY <1>0, <1>1, <1>2, <1>4, CutElsewhere
<1>6. ~Covers(c, m)
  BY <1>1 DEF Covers
<1>7. OwedStill(m) /\ CitedStill(m) /\ WipedStill
  BY <1>0, <1>2, <1>3, <1>4, <1>6, OneMoves
<1>8. CallsStill(m)
  BY <1>3 DEF CallsStill, OthersStill, HasRead, SameCall
<1>q. QED
  BY <1>4, <1>5, <1>7, <1>8, Aside

LEMMA CrashApiGood ==
  ASSUME IInv, Shape, CrashApi, NEW m \in Meetings, m \notin excused', Good(m)
  PROVE  Good(m)'
<1> USE DEF database, stores
<1>1. UNCHANGED <<job, pc, held, published>> /\ ViewKept(m) /\ row'[m] = row[m]
  BY DEF CrashApi, ViewKept
<1>2. \A b \in Actors : op'[b] = IF b \in Approving THEN Ended(b) ELSE op[b]
  BY DEF CrashApi
<1>3. Approving \subseteq Artifacts /\ Approving \intersect ArtifactsOf(m) = {}
  BY DEF CrashApi, Approving, ArtifactsOf
<1>4. /\ op'[Worker] = op[Worker] /\ (\A c \in Rebuilds : op'[c] = op[c])
      /\ \A x \in ArtifactsOf(m) : op'[x] = op[x]
  BY <1>2, <1>3, Roles DEF ArtifactsOf
<1>5. OwedStill(m)
  BY <1>1, <1>4 DEF OwedStill, ToBeProjected, ToBeVectored, ToBeDocumented, Queued, Rebuilt, Covers
<1>6. WipedStill /\ CitedStill(m)
  BY <1>1, <1>4 DEF WipedStill, Wiped, CitedStill, Citing
<1>7. CallsStill(m)
  <2>1. \A b \in Actors : ~(Ended(b).at \in {"graph", "search", "record", "embed", "stamp", "docs", "cite", "hit"})
    BY DEF Ended, Rest
  <2>q. QED
    BY <1>2, <2>1 DEF CallsStill, HasRead, SameCall
<1>q. QED
  BY <1>1, <1>5, <1>6, <1>7, Aside

LEMMA CrashWorkerGood ==
  ASSUME IInv, Shape, CrashWorker, NEW m \in Meetings, m \notin excused', Good(m)
  PROVE  Good(m)'
<1> USE DEF database
<1>0. Worker \in Actors /\ op \in [Actors -> Calls] /\ Rest.at = "rest" /\ Rest.kind = "none"
  BY Roles DEF IInv, TypeOK, Rest
<1>1. /\ OthersStill(Worker) /\ op'[Worker] = Rest /\ CutShort(Worker) /\ held \in Meetings
      /\ UNCHANGED <<published, evidence, extracted, row>>
      /\ job' = [job EXCEPT ![held] = "queued"] /\ pc' = "idle" /\ held' = Nobody
  BY <1>0 DEF CrashWorker, OthersStill, IInv, WorkerShape
<1>2. /\ op[Worker].at # "rest" => op[Worker].meeting = held
      /\ op[Worker].at # "drop"
  <2>1. op[Worker].at # "rest" => op[Worker].meeting = held
    BY <1>0 DEF Shape, WorkerCall
  <2>2. op[Worker].at = "drop" => op[Worker].kind = "rebuild"
    BY <1>0 DEF Shape, CallKinds, StepOf, Over
  <2>3. op[Worker].kind # "rebuild"
    BY <1>0 DEF Shape, WorkerCall
  <2>q. QED
    BY <2>1, <2>2, <2>3
<1>3. (\A c \in Rebuilds : op'[c] = op[c]) /\ (\A x \in Artifacts : op'[x] = op[x])
  BY <1>1, Roles DEF OthersStill
<1>4. WipedStill /\ CitedStill(m) /\ (Rebuilt(m) => Rebuilt(m)')
  BY <1>1, <1>3 DEF WipedStill, Wiped, CitedStill, Citing, ArtifactsOf, Rebuilt, Covers
<1>5. CallsStill(m)
  BY <1>0, <1>1 DEF CallsStill, OthersStill, HasRead, SameCall
<1>6. CASE m # held
  <2>1. ViewKept(m)
    BY <1>0, <1>1, <1>2, <1>6, CutElsewhere
  <2>2. job'[m] = job[m] /\ row'[m] = row[m]
    BY <1>1, <1>6 DEF IInv, TypeOK
  <2>3. OwedStill(m)
    BY <1>4, <1>6, <2>2 DEF OwedStill, ToBeProjected, ToBeVectored, ToBeDocumented, Queued
  <2>q. QED
    BY <1>4, <1>5, <2>1, <2>2, <2>3, Aside
<1>7. CASE m = held
  <2>1. Queued(m)'
    BY <1>1, <1>7 DEF Queued, IInv, TypeOK
  <2>2. ToBeProjected(m)' /\ ToBeVectored(m)' /\ ToBeDocumented(m)'
    BY <2>1 DEF ToBeProjected, ToBeVectored, ToBeDocumented
  <2>3. ReadsCurrent(m)'
    BY <1>1, <1>4, <1>5, <2>2, ReadsStill DEF Good
  <2>4. Stands(m)'
    <3> SUFFICES ASSUME row[m] # "none", ~Wiped' PROVE InStores(m)'
      BY <1>1 DEF Stands
    <3>1. InStores(m)
      BY <1>4 DEF Good, Stands, WipedStill
    <3>2. ~Hidden(Worker)
      BY <1>7 DEF CrashWorker
    <3>3. op[Worker].at # "search" /\ (op[Worker].at = "embed" => row[m] = "structural")
      BY <1>2, <1>7, <3>2 DEF Hidden, IInv, TypeOK
    <3>4. graph' = graph /\ cites' = cites /\ hits' = hits
      BY <1>1, <1>2, <3>3 DEF CutShort, stores, neo4j
    <3>5. text'[m] = text[m] \/ (text'[m] = Torn /\ row[m] = "structural")
      BY <1>1, <1>2, <1>7, <3>3 DEF CutShort, stores, IInv, TypeOK
    <3>6. \A x \in published' \intersect ArtifactsOf(m) :
            Citing(x)' \/ (cites'[x] = evidence'[m] /\ hits'[x] = evidence'[m])
      BY <1>1, <1>4, <3>1, <3>4 DEF InStores, CitedStill
    <3>q. QED
      BY <1>1, <2>2, <3>1, <3>4, <3>5, <3>6 DEF InStores, ArtifactsOf
  <2>q. QED
    BY <2>2, <2>3, <2>4 DEF Good, Promised
<1>q. QED
  BY <1>6, <1>7

LEMMA FailingGood ==
  ASSUME IInv, RInv, Failing, NEW m \in Meetings, m \notin excused'
  PROVE  Good(m)'
<1> USE DEF database, stores
<1>0. Shape /\ Good(m)
  BY DEF RInv, Failing, InvalidationFails, CrashApi, CrashWorker, SessionEnds, StoreFails, CrashRebuild
<1>1. CASE InvalidationFails \/ SessionEnds
  <2>1. /\ UNCHANGED <<op, published, job, held>> /\ ViewKept(m) /\ row'[m] = row[m]
        /\ pc' = pc \/ (pc \in Before /\ pc' \in Before)
    BY <1>1 DEF InvalidationFails, SessionEnds, ViewKept, Before
  <2>2. OwedStill(m)
    BY <2>1 DEF OwedStill, ToBeProjected, ToBeVectored, ToBeDocumented, Queued, Rebuilt, Covers, Before
  <2>3. CallsStill(m) /\ CitedStill(m) /\ WipedStill
    BY <2>1, NobodyMoves
  <2>q. QED
    BY <1>0, <2>1, <2>2, <2>3, Aside
<1>q. QED
  BY <1>0, <1>1, StoreFailsGood, CrashRebuildGood, CrashApiGood, CrashWorkerGood DEF Failing

-----------------------------------------------------------------------------
(* The theorems.                                                           *)

LEMMA InitReach ==
  ASSUME Init
  PROVE  RInv
<1> USE DEF Init
<1>1. Rest.at = "rest" /\ \A a \in Actors : op[a] = Rest
  BY DEF Rest
<1>2. Shape
  BY <1>1, Roles DEF Shape, JobShape, WorkerCall, CallKinds, Over
<1>3. AllWritten
  BY <1>1 DEF AllWritten, Written
<1>4. ASSUME NEW m \in Meetings PROVE Good(m)
  <2>1. Promised(m)
    BY DEF Promised, ToBeProjected, Queued
  <2>2. Stands(m)
    BY DEF Stands
  <2>3. ReadsCurrent(m)
    BY <1>1 DEF ReadsCurrent, HasRead
  <2>q. QED
    BY <2>1, <2>2, <2>3 DEF Good
<1>q. QED
  BY <1>2, <1>3, <1>4 DEF RInv

LEMMA StepReach ==
  ASSUME IInv, IInv', RInv, [Next]_vars
  PROVE  RInv'
<1>1. Shape' /\ AllWritten'
  BY ShapeKept, WrittenKept DEF RInv
<1>2. ASSUME NEW m \in Meetings, m \notin excused' PROVE Good(m)'
  <2>1. CASE UNCHANGED vars
    <3>1. UNCHANGED <<op, published, job, held, pc, excused>> /\ ViewKept(m) /\ row'[m] = row[m]
      BY <2>1 DEF vars, ViewKept
    <3>2. OwedStill(m)
      BY <3>1 DEF OwedStill, ToBeProjected, ToBeVectored, ToBeDocumented, Queued, Rebuilt, Covers
    <3>3. CallsStill(m) /\ CitedStill(m) /\ WipedStill
      BY <3>1, NobodyMoves
    <3>q. QED
      BY <1>2, <3>1, <3>2, <3>3, Aside DEF RInv
  <2>2. CASE \E a \in Actors : Projecting(a)
    BY <1>2, <2>2, ProjectingGood
  <2>3. CASE \E c \in Rebuilds : Rebuilding(c)
    BY <1>2, <2>3, RebuildingGood
  <2>4. CASE Api
    BY <1>2, <2>4, ApiGood
  <2>5. CASE Working
    BY <1>2, <2>5, WorkingGood
  <2>6. CASE Failing
    BY <1>2, <2>6, FailingGood
  <2>q. QED
    BY <2>1, <2>2, <2>3, <2>4, <2>5, <2>6 DEF Next, IdlePoll
<1>q. QED
  BY <1>1, <1>2 DEF RInv

\* When nobody is writing or waiting to, nothing is owed to a meeting whose job is done.
LEMMA Reached ==
  ASSUME IInv, RInv, Calm, NEW m \in Meetings, m \notin excused, job[m] = "done"
  PROVE  row[m] # "none" /\ graph[m] = evidence[m] /\ text[m] = evidence[m] /\ docs[m] = extracted[m]
         /\ \A x \in published : MeetingOf[x] = m => cites[x] = evidence[m] /\ hits[x] = evidence[m]
<1>1. Good(m) /\ JobShape /\ WorkerCall
  BY DEF RInv, Shape
<1>2. \A a \in Actors : op[a].at \in Over
  BY DEF Calm, Inside, Over
<1>3. ~Rebuilt(m) /\ ~Wiped
  BY <1>2, Roles DEF Rebuilt, Covers, Wiped, Over, Structure
<1>4. ~Queued(m) /\ (held # m \/ pc = "idle")
  BY <1>1 DEF Queued, JobShape
<1>5. ~ToBeProjected(m) /\ ~ToBeVectored(m)
  BY <1>2, <1>3, <1>4, Roles DEF ToBeProjected, ToBeVectored, Before, Over, Structure
<1>6. ~ToBeDocumented(m)
  <2>1. held = m => op[Worker].kind # "docs"
    BY <1>1, <1>4 DEF WorkerCall, Rest
  <2>q. QED
    BY <1>4, <2>1 DEF ToBeDocumented, Before
<1>7. row[m] # "none" /\ InStores(m)
  BY <1>1, <1>3, <1>5 DEF Good, Promised, Stands
<1>8. \A x \in published : MeetingOf[x] = m => x \in published \intersect ArtifactsOf(m) /\ ~Citing(x)
  BY <1>2, Roles DEF Citing, ArtifactsOf, IInv, TypeOK
<1>q. QED
  BY <1>5, <1>6, <1>7, <1>8 DEF InStores

\* What the argument rests on: what stands in the stores, what is owed and by whom.
LEMMA ReachInvariance == Spec => [](IInv /\ RInv)
<1>1. IInv /\ RInv /\ [Next]_vars => IInv' /\ RInv'
  BY StepInv, StepReach
<1>q. QED
  BY <1>1, InitInv, InitReach, PTL DEF Spec

\* Once its job is done and no call is under way, a meeting is in both stores as
\* the database has it, extraction documents included.
THEOREM EveryMeetingReachesStores == Spec => []EvidenceReachesStores
<1>1. IInv /\ RInv => EvidenceReachesStores
  BY Reached DEF EvidenceReachesStores
<1>q. QED
  BY <1>1, ReachInvariance, PTL

\* ... and so is what was published of it, citing the moments as they are now.
THEOREM EveryPublicationReachesStores == Spec => []PublishedReachesStores
<1>1. IInv /\ RInv => PublishedReachesStores
  <2> SUFFICES ASSUME IInv, RInv, Calm, NEW a \in published, MeetingOf[a] \notin excused,
                      job[MeetingOf[a]] = "done"
               PROVE  cites[a] = evidence[MeetingOf[a]] /\ hits[a] = evidence[MeetingOf[a]]
    BY DEF PublishedReachesStores
  <2>1. MeetingOf[a] \in Meetings
    BY MeetingOfAssumption DEF IInv, TypeOK
  <2>q. QED
    BY <2>1, Reached
<1>q. QED
  BY <1>1, ReachInvariance, PTL

-----------------------------------------------------------------------------
(* What a row says.                                                        *)

\* Nothing is projected of a meeting that has no evidence.
HasEvidence ==
  /\ \A m \in Meetings : job[m] # "none" => source[m] # 0
  /\ pc = "committed" => evidence[held] # 0
  /\ \A m \in Meetings : m \in complete \/ row[m] # "none" => evidence[m] # 0
  /\ \A a \in Actors : NamesMeeting(a) /\ Structural(a) => evidence[op[a].meeting] # 0

\* The vectors a row tells of are there, but while the documents are rewritten.
Rewriting(m) == \E a \in Actors : op[a].at = "record" /\ op[a].meeting = m
Vectored(m) == row[m] = "embedded" /\ ~Wiped => m \in vectors \/ Rewriting(m)
Stamping == \A a \in Actors : op[a].at = "stamp" => op[a].meeting \in vectors
HInv == HasEvidence /\ Stamping /\ \A m \in Meetings \ excused : Vectored(m)

Grown == \A m \in Meetings : (source[m] # 0 => source'[m] # 0) /\ (evidence[m] # 0 => evidence'[m] # 0)
Evidenced(a) == NamesMeeting(a) /\ Structural(a) => evidence[op[a].meeting] # 0

LEMMA StaysGrown ==
  ASSUME IInv, Shape, HasEvidence, [Next]_vars
  PROVE  Grown
<1> USE DEF database
<1>0. source \in [Meetings -> Nat] /\ evidence \in [Meetings -> Nat]
  BY BoundsAssumption DEF IInv, TypeOK, Views
<1>1. CASE Api
  BY <1>0, <1>1 DEF Grown, Api, Ingest, Augment, AssignSpeaker, Accept, Approve
<1>2. CASE CommitEvidence
  <2>1. held \in Meetings /\ job[held] = "running"
    BY <1>2 DEF Shape, JobShape, CommitEvidence, IInv, WorkerShape
  <2>2. source[held] # 0
    BY <2>1 DEF HasEvidence
  <2>q. QED
    BY <1>0, <1>2, <2>2 DEF Grown, CommitEvidence
<1>3. CASE ~Api /\ ~CommitEvidence
  <2>1. UNCHANGED <<source, evidence>>
    BY <1>3, ZenonT(60) DEF Next, Working, Claim, Mint, Checkpoint, MaybeProject, CommitExtract, MaybeProjectDocuments, FinishJob,
         IdlePoll, Failing, InvalidationFails, CrashApi, CrashWorker, SessionEnds, StoreFails, CrashRebuild,
         Projecting, AcquireLocks, Refused, RefuseEmbedding, Read, WriteGraph, WriteSearch, RecordStructural,
         SkipEmbedding, WriteVectors, RecordEmbedded, WriteDocuments, CiteArtifact, MomentMissing, AddHit,
         Rebuilding, StartRebuild, DropStores, ForgetRows, EndRebuild, NextTarget, vars
  <2>q. QED
    BY <2>1 DEF Grown
<1>q. QED
  BY <1>1, <1>2, <1>3

\* The tables.
TablesEvidenced ==
  /\ \A m \in Meetings : job[m] # "none" => source[m] # 0
  /\ pc = "committed" => evidence[held] # 0
  /\ \A m \in Meetings : m \in complete \/ row[m] # "none" => evidence[m] # 0

LEMMA StepTables ==
  ASSUME IInv, Shape, HasEvidence, Grown, [Next]_vars
  PROVE  TablesEvidenced'
<1> USE DEF database
<1>0. /\ source \in [Meetings -> Nat] /\ evidence \in [Meetings -> Nat] /\ TablesEvidenced
      /\ pc # "idle" => held \in Meetings /\ job[held] = "running" /\ source[held] # 0
  BY BoundsAssumption DEF IInv, TypeOK, Views, HasEvidence, TablesEvidenced, Shape, JobShape, WorkerShape
<1>1. CASE Api
  BY <1>0, <1>1 DEF TablesEvidenced, Grown, Api, Ingest, Augment, AssignSpeaker, Accept, Approve, stores, IInv, TypeOK
<1>2. ASSUME NEW n \in Meetings, Claim(n) PROVE TablesEvidenced'
  BY <1>0, <1>2 DEF TablesEvidenced, Claim, IInv, TypeOK
<1>3. CASE CommitEvidence
  BY <1>0, <1>3 DEF TablesEvidenced, Grown, CommitEvidence, IInv, TypeOK
<1>4. CASE Checkpoint
  BY <1>0, <1>4 DEF TablesEvidenced, Checkpoint
<1>5. CASE Mint
  BY <1>0, <1>5 DEF TablesEvidenced, Mint, Invalidated, IInv, TypeOK
<1>6. CASE MaybeProject \/ CommitExtract \/ MaybeProjectDocuments
  BY <1>0, <1>6 DEF TablesEvidenced, MaybeProject, CommitExtract, MaybeProjectDocuments
<1>7. CASE FinishJob \/ CrashWorker
  BY <1>0, <1>7 DEF TablesEvidenced, FinishJob, CrashWorker, IInv, TypeOK
<1>8. ASSUME NEW a \in Actors, RecordStructural(a) PROVE TablesEvidenced'
  <2>1. NamesMeeting(a) /\ Structural(a)
    BY <1>8 DEF NamesMeeting, HasRead, Structural, RecordStructural, Shape, CallKinds, StepOf, Over, Structure
  <2>2. evidence[op[a].meeting] # 0
    BY <2>1 DEF HasEvidence
  <2>q. QED
    BY <1>0, <1>8, <2>2 DEF TablesEvidenced, RecordStructural, IInv, TypeOK
<1>9. ASSUME NEW a \in Actors, RecordEmbedded(a) PROVE TablesEvidenced'
  BY <1>0, <1>9 DEF TablesEvidenced, RecordEmbedded, IInv, TypeOK
<1>10. ASSUME NEW c \in Rebuilds, ForgetRows(c) PROVE TablesEvidenced'
  BY <1>0, <1>10 DEF TablesEvidenced, ForgetRows, RowsForgotten
<1>11. CASE UNCHANGED <<source, evidence, complete, job, row, held>> /\ (pc' = pc \/ pc' = "stages")
  BY <1>0, <1>11 DEF TablesEvidenced
<1>12. CASE UNCHANGED vars
  BY <1>0, <1>12 DEF TablesEvidenced, vars
<1>13. ASSUME NEW a \in Actors, Projecting(a), ~RecordStructural(a), ~RecordEmbedded(a) PROVE TablesEvidenced'
  BY <1>11, <1>13 DEF Projecting, AcquireLocks, Refused, RefuseEmbedding, Read, WriteGraph, WriteSearch,
         SkipEmbedding, WriteVectors, WriteDocuments, CiteArtifact, MomentMissing, AddHit
<1>14. ASSUME NEW c \in Rebuilds, Rebuilding(c) PROVE TablesEvidenced'
  BY <1>10, <1>11, <1>14 DEF Rebuilding, StartRebuild, DropStores, EndRebuild, NextTarget
<1>15. CASE Failing
  BY <1>7, <1>11, <1>15 DEF Failing, InvalidationFails, CrashApi, SessionEnds, StoreFails, CrashRebuild
<1>q. QED
  BY <1>1, <1>2, <1>3, <1>4, <1>5, <1>6, <1>7, <1>8, <1>9, <1>12, <1>13, <1>14, <1>15
  DEF Next, Working, IdlePoll

\* The calls: whoever is to project a meeting was sent to one that has settled.
LEMMA OneEvidenced ==
  ASSUME IInv, HasEvidence, Grown, NEW a \in Actors, OthersStill(a),
         NamesMeeting(a)' /\ Structural(a)' => op'[a].meeting \in Meetings /\ evidence[op'[a].meeting] # 0
  PROVE  \A b \in Actors : Evidenced(b)'
<1>1. ASSUME NEW b \in Actors, b # a PROVE Evidenced(b)'
  <2> SUFFICES ASSUME NamesMeeting(b)', Structural(b)' PROVE evidence'[op'[b].meeting] # 0
    BY DEF Evidenced
  <2>1. op'[b] = op[b]
    BY <1>1 DEF OthersStill
  <2>2. NamesMeeting(b) /\ Structural(b)
    BY <2>1 DEF NamesMeeting, HasRead, Structural
  <2>3. op[b].meeting \in Meetings /\ evidence[op[b].meeting] # 0
    BY <2>2, NamedMeeting DEF IInv, HasEvidence
  <2>q. QED
    BY <2>1, <2>3 DEF Grown
<1>2. Evidenced(a)'
  BY DEF Evidenced, Grown
<1>q. QED
  BY <1>1, <1>2

LEMMA SameEvidenced ==
  ASSUME IInv, HasEvidence, Grown, \A b \in Actors : op'[b] = op[b] \/ ~NamesMeeting(b)'
  PROVE  \A b \in Actors : Evidenced(b)'
<1> SUFFICES ASSUME NEW b \in Actors, NamesMeeting(b)', Structural(b)' PROVE evidence'[op'[b].meeting] # 0
  BY DEF Evidenced
<1>1. op'[b] = op[b]
  OBVIOUS
<1>2. NamesMeeting(b) /\ Structural(b)
  BY <1>1 DEF NamesMeeting, HasRead, Structural
<1>3. op[b].meeting \in Meetings /\ evidence[op[b].meeting] # 0
  BY <1>2, NamedMeeting DEF IInv, HasEvidence
<1>q. QED
  BY <1>1, <1>3 DEF Grown

LEMMA ProjectingEvidenced ==
  ASSUME IInv, Shape, HasEvidence, Grown, NEW a \in Actors, Projecting(a)
  PROVE  \A b \in Actors : Evidenced(b)'
<1>0. op \in [Actors -> Calls] /\ op[a] \in Calls
  BY CallTyped DEF IInv, TypeOK
<1>1. ASSUME OthersStill(a), ~NamesMeeting(a)' PROVE \A b \in Actors : Evidenced(b)'
  BY <1>1, OneEvidenced
<1>2. ASSUME OthersStill(a), NamesMeeting(a), op'[a].kind = op[a].kind, op'[a].meeting = op[a].meeting
      PROVE  \A b \in Actors : Evidenced(b)'
  <2>1. op[a].meeting \in Meetings /\ (Structural(a) => evidence[op[a].meeting] # 0)
    BY <1>2, NamedMeeting DEF IInv, HasEvidence
  <2>2. Structural(a)' => Structural(a)
    BY <1>2 DEF Structural
  <2>q. QED
    BY <1>2, <2>1, <2>2, OneEvidenced
<1>3. CASE AcquireLocks(a)
  <2>1. /\ OthersStill(a) /\ op'[a].kind = op[a].kind /\ op'[a].meeting = op[a].meeting
        /\ op'[a].at = FirstStep(a) /\ op[a].at = "waiting"
    BY <1>0, <1>3 DEF AcquireLocks, OthersStill, Calls
  <2>2. CASE a \in Rebuilds
    <3>1. ~NamesMeeting(a)'
      BY <2>1, <2>2 DEF FirstStep, NamesMeeting, HasRead
    <3>q. QED
      BY <1>1, <2>1, <3>1
  <2>3. CASE a \notin Rebuilds
    BY <1>2, <2>1, <2>3 DEF NamesMeeting
  <2>q. QED
    BY <2>2, <2>3
<1>4. CASE Refused(a)
  <2>1. OthersStill(a) /\ op'[a].at \in Over
    BY <1>4, LeavesOver DEF Refused
  <2>q. QED
    BY <1>1, <2>1 DEF NamesMeeting, HasRead, Over
<1>5. CASE Read(a)
  <2> DEFINE c == [Reading(a) EXCEPT !.at = FirstWrite(a)]
  <2>1. NamesMeeting(a)
    BY <1>5 DEF Read, NamesMeeting
  <2>2. c.kind = op[a].kind /\ c.meeting = op[a].meeting
    BY <1>0 DEF Reading, Calls
  <2>3. op'[a] = c /\ OthersStill(a)
    BY <1>0, <1>5 DEF Read, OthersStill
  <2>q. QED
    BY <1>2, <2>1, <2>2, <2>3
<1>6. ASSUME NEW s, op' = [op EXCEPT ![a].at = s], HasRead(a) PROVE \A b \in Actors : Evidenced(b)'
  <2>1. OthersStill(a) /\ SameCall(a)
    BY <1>6, MovesTo
  <2>q. QED
    BY <1>2, <1>6, <2>1 DEF SameCall, NamesMeeting
<1>7. CASE WriteGraph(a) \/ WriteSearch(a) \/ RecordStructural(a) \/ WriteVectors(a) \/ CiteArtifact(a)
  BY <1>6, <1>7 DEF WriteGraph, WriteSearch, RecordStructural, WriteVectors, CiteArtifact, HasRead
<1>8. ASSUME Finish(a) PROVE \A b \in Actors : Evidenced(b)'
  <2>1. OthersStill(a) /\ op'[a].at \in Over \union {"next"}
    BY <1>8, Finishes
  <2>q. QED
    BY <1>1, <2>1 DEF NamesMeeting, HasRead, Over
<1>9. CASE RefuseEmbedding(a) \/ SkipEmbedding(a) \/ RecordEmbedded(a) \/ WriteDocuments(a)
           \/ MomentMissing(a) \/ AddHit(a)
  BY <1>8, <1>9 DEF RefuseEmbedding, SkipEmbedding, RecordEmbedded, WriteDocuments, MomentMissing, AddHit
<1>q. QED
  BY <1>3, <1>4, <1>5, <1>7, <1>9 DEF Projecting

LEMMA RebuildingEvidenced ==
  ASSUME IInv, HasEvidence, Grown, NEW c \in Rebuilds, Rebuilding(c)
  PROVE  \A b \in Actors : Evidenced(b)'
<1>0. op \in [Actors -> Calls] /\ op[c] \in Calls /\ c \in Actors
  BY CallTyped, Roles DEF IInv, TypeOK
<1>1. CASE StartRebuild(c)
  <2>1. OthersStill(c) /\ op'[c].at = "waiting"
    BY <1>0, <1>1 DEF StartRebuild, OthersStill, Call, Rest
  <2>q. QED
    BY <1>0, <2>1, OneEvidenced DEF NamesMeeting, HasRead
<1>2. CASE DropStores(c) \/ ForgetRows(c)
  <2>1. OthersStill(c) /\ op'[c].at \in {"forget", "next"}
    BY <1>0, <1>2, MovesTo DEF DropStores, ForgetRows
  <2>q. QED
    BY <1>0, <2>1, OneEvidenced DEF NamesMeeting, HasRead
<1>3. CASE EndRebuild(c)
  <2>1. OthersStill(c) /\ op'[c].at \in Over
    BY <1>0, <1>3, LeavesOver DEF EndRebuild
  <2>q. QED
    BY <1>0, <2>1, OneEvidenced DEF NamesMeeting, HasRead, Over
<1>4. ASSUME NEW n \in Meetings, NextTarget(c, n) PROVE \A b \in Actors : Evidenced(b)'
  <2>1. /\ OthersStill(c)
        /\ op'[c].at = "next" \/ (n \in complete /\ op'[c].meeting = n)
    BY <1>0, <1>4 DEF NextTarget, OthersStill, Calls
  <2>2. n \in complete => evidence[n] # 0
    BY DEF HasEvidence
  <2>q. QED
    BY <1>0, <2>1, <2>2, OneEvidenced DEF NamesMeeting, HasRead
<1>q. QED
  BY <1>1, <1>2, <1>3, <1>4 DEF Rebuilding

LEMMA OthersEvidenced ==
  ASSUME IInv, Shape, HasEvidence, Grown, Api \/ Working \/ Failing \/ UNCHANGED vars
  PROVE  \A b \in Actors : Evidenced(b)'
<1>0. op \in [Actors -> Calls]
  BY DEF IInv, TypeOK
<1>1. CASE UNCHANGED op
  BY <1>1, SameEvidenced
<1>2. ASSUME NEW a \in Artifacts, Approve(a) PROVE \A b \in Actors : Evidenced(b)'
  <2>1. a \in Actors /\ OthersStill(a) /\ op'[a].kind = "cite"
    BY <1>0, <1>2, Roles DEF Approve, OthersStill, Call, Rest
  <2>q. QED
    BY <2>1, OneEvidenced DEF Structural
<1>3. CASE MaybeProject
  <2>1. Worker \in Actors /\ held \in complete /\ held \in Meetings /\ evidence[held] # 0
    BY <1>3, Roles DEF MaybeProject, HasEvidence, IInv, TypeOK
  <2>2. CASE ProjectionAction(held) = "none"
    BY <1>1, <1>3, <2>2 DEF MaybeProject
  <2>3. CASE ProjectionAction(held) # "none"
    <3>1. OthersStill(Worker) /\ op'[Worker].meeting = held
      BY <1>0, <1>3, <2>1, <2>3 DEF MaybeProject, OthersStill, Call, Rest
    <3>q. QED
      BY <2>1, <3>1, OneEvidenced
  <2>q. QED
    BY <2>2, <2>3
<1>4. CASE MaybeProjectDocuments
  <2>1. Worker \in Actors /\ OthersStill(Worker) /\ op'[Worker].kind = "docs"
    BY <1>0, <1>4, Roles DEF MaybeProjectDocuments, OthersStill, Call, Rest
  <2>q. QED
    BY <2>1, OneEvidenced DEF Structural
<1>5. ASSUME NEW a \in Actors, StoreFails(a) PROVE \A b \in Actors : Evidenced(b)'
  <2>1. Finish(a) \/ Leave(a)
    BY <1>5 DEF StoreFails
  <2>2. OthersStill(a) /\ op'[a].at \in Over \union {"next"}
    BY <2>1, Finishes, LeavesOver
  <2>q. QED
    BY <2>2, OneEvidenced DEF NamesMeeting, HasRead, Over
<1>6. CASE CrashApi \/ CrashWorker \/ \E c \in Rebuilds : CrashRebuild(c)
  <2>1. \A b \in Actors : Ended(b).at \in Over /\ Rest.at \in Over
    BY DEF Ended, Rest, Over
  <2>2. \A b \in Actors : op'[b] = op[b] \/ op'[b] \in {Ended(b), Rest}
    BY <1>0, <1>6, Roles DEF CrashApi, CrashWorker, CrashRebuild
  <2>q. QED
    BY <2>1, <2>2, SameEvidenced DEF NamesMeeting, HasRead, Over
<1>q. QED
  BY <1>1, <1>2, <1>3, <1>4, <1>5, <1>6
  DEF Api, Ingest, Augment, AssignSpeaker, Accept, Working, Claim, Mint, CommitEvidence, Checkpoint, CommitExtract,
      FinishJob, Failing, InvalidationFails, SessionEnds, vars

LEMMA StepEvidence ==
  ASSUME IInv, Shape, HasEvidence, [Next]_vars
  PROVE  HasEvidence'
<1>1. Grown
  BY StaysGrown
<1>2. \A b \in Actors : Evidenced(b)'
  BY <1>1, ProjectingEvidenced, RebuildingEvidenced, OthersEvidenced DEF Next, IdlePoll
<1>q. QED
  BY <1>1, <1>2, StepTables DEF HasEvidence, TablesEvidenced, Evidenced

-----------------------------------------------------------------------------
(* The vectors.                                                            *)

LEMMA StampingAlone ==
  ASSUME IInv, NEW a \in Actors, Inside(a), OthersStill(a), op'[a].at = "stamp" => op'[a].meeting \in vectors'
  PROVE  Stamping'
<1>1. \A b \in Actors \ {a} : op'[b] = op[b] /\ ~Inside(b)
  BY Alone DEF IInv, OthersStill
<1>q. QED
  BY <1>1 DEF Stamping, Inside

LEMMA StampingStill ==
  ASSUME Stamping, vectors' = vectors, \A b \in Actors : op'[b] = op[b] \/ op'[b].at # "stamp"
  PROVE  Stamping'
  BY DEF Stamping

LEMMA StepStamping ==
  ASSUME IInv, Shape, Stamping, [Next]_vars
  PROVE  Stamping'
<1> USE DEF meili, stores
<1>0. op \in [Actors -> Calls]
  BY DEF IInv, TypeOK
<1>1. ASSUME NEW a \in Actors, Projecting(a) PROVE Stamping'
  <2>1. CASE op[a].at = "waiting"
    <3>1. AcquireLocks(a) \/ Refused(a)
      BY <1>1, <2>1 DEF Projecting, RefuseEmbedding, Read, WriteGraph, WriteSearch, RecordStructural, SkipEmbedding,
         WriteVectors, RecordEmbedded, WriteDocuments, CiteArtifact, MomentMissing, AddHit
    <3>2. CASE AcquireLocks(a)
      <4>1. OthersStill(a) /\ op'[a].at = FirstStep(a) /\ vectors' = vectors
        BY <1>0, <3>2, CallTyped DEF AcquireLocks, OthersStill, Calls, IInv
      <4>q. QED
        BY <4>1, StampingStill DEF OthersStill, FirstStep
    <3>3. CASE Refused(a)
      <4>1. OthersStill(a) /\ op'[a].at \in Over /\ vectors' = vectors
        BY <3>3, LeavesOver DEF Refused
      <4>q. QED
        BY <4>1, StampingStill DEF OthersStill, Over
    <3>q. QED
      BY <3>1, <3>2, <3>3
  <2>2. CASE op[a].at # "waiting"
    <3>1. Inside(a)
      BY <1>1, <2>2, ProjectingStays
    <3>2. OthersStill(a)
      BY <1>1, <2>2, ProjectingStays DEF StaysOn
    <3>3. CASE WriteVectors(a)
      <4>1. op'[a].meeting = op[a].meeting /\ op[a].meeting \in vectors'
        BY <3>3, MovesTo DEF WriteVectors, SameCall
      <4>q. QED
        BY <3>1, <3>2, <4>1, StampingAlone
    <3>4. ASSUME Finish(a) PROVE op'[a].at # "stamp"
      BY <3>4, Finishes DEF Over
    <3>5. ASSUME NEW s, s # "stamp", op' = [op EXCEPT ![a].at = s] PROVE op'[a].at # "stamp"
      BY <3>5, MovesTo
    <3>6. Read(a) => op'[a].at # "stamp"
      BY <1>0, CallTyped DEF Read, Reading, FirstWrite, Calls, IInv
    <3>7. CASE ~WriteVectors(a)
      <4>1. op'[a].at # "stamp"
        BY <1>1, <2>2, <3>4, <3>5, <3>6, <3>7 DEF Projecting, AcquireLocks, Refused, RefuseEmbedding, WriteGraph,
           WriteSearch, RecordStructural, SkipEmbedding, RecordEmbedded, WriteDocuments, CiteArtifact,
           MomentMissing, AddHit
      <4>q. QED
        BY <3>1, <3>2, <4>1, StampingAlone
    <3>q. QED
      BY <3>3, <3>7
  <2>q. QED
    BY <2>1, <2>2
<1>2. ASSUME NEW c \in Rebuilds, Rebuilding(c) PROVE Stamping'
  <2>0. c \in Actors /\ op[c] \in Calls
    BY CallTyped, Roles DEF IInv
  <2>1. CASE StartRebuild(c)
    <3>1. OthersStill(c) /\ op'[c].at = "waiting" /\ vectors' = vectors
      BY <1>0, <2>0, <2>1 DEF StartRebuild, OthersStill, Call, Rest
    <3>q. QED
      BY <3>1, StampingStill DEF OthersStill
  <2>2. CASE DropStores(c) \/ ForgetRows(c)
    <3>1. OthersStill(c) /\ op'[c].at \in {"forget", "next"} /\ Inside(c)
      BY <2>0, <2>2, MovesTo DEF DropStores, ForgetRows, Inside
    <3>q. QED
      BY <2>0, <3>1, StampingAlone
  <2>3. CASE EndRebuild(c)
    <3>1. OthersStill(c) /\ op'[c].at \in Over /\ Inside(c)
      BY <2>0, <2>3, LeavesOver DEF EndRebuild, Inside
    <3>q. QED
      BY <2>0, <3>1, StampingAlone DEF Over
  <2>4. ASSUME NEW n \in Meetings, NextTarget(c, n) PROVE Stamping'
    <3>1. OthersStill(c) /\ op'[c].at \in {"read", "next"} /\ vectors' = vectors
      BY <1>0, <2>0, <2>4 DEF NextTarget, OthersStill, Calls
    <3>q. QED
      BY <3>1, StampingStill DEF OthersStill
  <2>q. QED
    BY <1>2, <2>1, <2>2, <2>3, <2>4 DEF Rebuilding
<1>3. CASE Api \/ Working \/ UNCHANGED vars
  <2>1. vectors' = vectors
    BY <1>3 DEF Api, Ingest, Augment, AssignSpeaker, Accept, Approve, Working, Claim, Mint, CommitEvidence,
       Checkpoint, MaybeProject, CommitExtract, MaybeProjectDocuments, FinishJob, vars
  <2>3. CASE UNCHANGED op
    BY <2>1, <2>3, StampingStill
  <2>4. ASSUME NEW a \in Artifacts, Approve(a) PROVE Stamping'
    <3>1. OthersStill(a) /\ op'[a].at = "waiting"
      BY <1>0, <2>4, Roles DEF Approve, OthersStill, Call, Rest
    <3>q. QED
      BY <2>1, <3>1, StampingStill DEF OthersStill
  <2>5. CASE MaybeProject \/ MaybeProjectDocuments
    <3>1. ASSUME NEW k, op' = [op EXCEPT ![Worker] = Call(k, held)] PROVE Stamping'
      <4>1. OthersStill(Worker) /\ op'[Worker].at = "waiting"
        BY <1>0, <3>1, Roles DEF OthersStill, Call, Rest
      <4>q. QED
        BY <2>1, <4>1, StampingStill DEF OthersStill
    <3>q. QED
      BY <2>3, <2>5, <3>1 DEF MaybeProject, MaybeProjectDocuments
  <2>q. QED
    BY <1>3, <2>3, <2>4, <2>5 DEF Api, Ingest, Augment, AssignSpeaker, Accept, Working, Claim, Mint, CommitEvidence,
       Checkpoint, CommitExtract, FinishJob, vars
<1>4. CASE Failing
  <2>1. ASSUME NEW a \in Actors, StoreFails(a) PROVE Stamping'
    <3>1. Finish(a) \/ Leave(a)
      BY <2>1 DEF StoreFails
    <3>2. OthersStill(a) /\ op'[a].at \in Over \union {"next"} /\ Inside(a)
      BY <2>1, <3>1, Finishes, LeavesOver DEF StoreFails, Inside
    <3>q. QED
      BY <3>2, StampingAlone DEF Over
  <2>2. ASSUME NEW c \in Rebuilds, CrashRebuild(c) PROVE Stamping'
    <3>1. c \in Actors /\ OthersStill(c) /\ op'[c].at # "stamp" /\ Inside(c)
      BY <1>0, <2>2, Roles DEF CrashRebuild, OthersStill, Ended, Rest
    <3>q. QED
      BY <3>1, StampingAlone
  <2>3. CASE CrashApi
    <3>1. \A b \in Actors : Ended(b).at # "stamp"
      BY DEF Ended, Rest
    <3>2. vectors' = vectors /\ \A b \in Actors : op'[b] = op[b] \/ op'[b] = Ended(b)
      BY <2>3 DEF CrashApi
    <3>q. QED
      BY <3>1, <3>2, StampingStill
  <2>4. CASE CrashWorker
    <3>1. Worker \in Actors /\ OthersStill(Worker) /\ op'[Worker].at # "stamp" /\ CutShort(Worker)
      BY <1>0, <2>4, Roles DEF CrashWorker, OthersStill, Rest
    <3>2. CASE Inside(Worker)
      BY <3>1, <3>2, StampingAlone
    <3>3. CASE ~Inside(Worker)
      <4>1. vectors' = vectors
        BY <3>1, <3>3 DEF CutShort, Inside
      <4>q. QED
        BY <3>1, <4>1, StampingStill DEF OthersStill
    <3>q. QED
      BY <3>2, <3>3
  <2>5. CASE InvalidationFails \/ SessionEnds
    <3>1. vectors' = vectors /\ op' = op
      BY <2>5 DEF InvalidationFails, SessionEnds
    <3>q. QED
      BY <3>1, StampingStill
  <2>q. QED
    BY <1>4, <2>1, <2>2, <2>3, <2>4, <2>5 DEF Failing
<1>q. QED
  BY <1>1, <1>2, <1>3, <1>4 DEF Next, IdlePoll

\* A row that says embedded goes on saying so truly.
LEMMA VectoredStill ==
  ASSUME NEW m \in Meetings, Vectored(m), row'[m] = row[m], m \in vectors => m \in vectors',
         WipedStill, Rewriting(m) => Rewriting(m)'
  PROVE  Vectored(m)'
  BY DEF Vectored, WipedStill

LEMMA VectoredAside ==
  ASSUME NEW m \in Meetings, Vectored(m), row'[m] = row[m], m \in vectors => m \in vectors',
         NEW a \in Actors, OthersStill(a), op[a].at # "record" \/ op[a].meeting # m,
         a \notin Rebuilds \/ op[a].at # "forget"
  PROVE  Vectored(m)'
<1>1. WipedStill
  BY Roles DEF WipedStill, Wiped, OthersStill
<1>2. Rewriting(m) => Rewriting(m)'
  BY DEF Rewriting, OthersStill
<1>q. QED
  BY <1>1, <1>2, VectoredStill

LEMMA ProjectingVectors ==
  ASSUME IInv, Shape, Stamping, NEW a \in Actors, Projecting(a),
         NEW m \in Meetings, m \notin excused', m \notin excused => Vectored(m)
  PROVE  Vectored(m)'
<1> USE DEF database, meili, stores
<1>1. CASE RecordStructural(a) /\ op[a].meeting = m
  <2>1. row'[m] = "structural"
    BY <1>1 DEF RecordStructural, IInv, TypeOK
  <2>q. QED
    BY <2>1 DEF Vectored
<1>2. CASE ~(RecordStructural(a) /\ op[a].meeting = m)
  <2>1. Vectored(m) /\ op[a].at # "forget"
    BY <1>2 DEF Projecting, AcquireLocks, Refused, RefuseEmbedding, Read, WriteGraph, WriteSearch, RecordStructural,
       SkipEmbedding, WriteVectors, RecordEmbedded, WriteDocuments, CiteArtifact, MomentMissing, AddHit
  <2>2. OthersStill(a)
    <3>1. CASE op[a].at = "waiting"
      <4>1. AcquireLocks(a) \/ Refused(a)
        BY <3>1 DEF Projecting, RefuseEmbedding, Read, WriteGraph, WriteSearch, RecordStructural, SkipEmbedding,
           WriteVectors, RecordEmbedded, WriteDocuments, CiteArtifact, MomentMissing, AddHit
      <4>2. AcquireLocks(a) => OthersStill(a)
        BY DEF AcquireLocks, OthersStill, IInv, TypeOK
      <4>3. Refused(a) => OthersStill(a)
        BY LeavesOver DEF Refused
      <4>q. QED
        BY <4>1, <4>2, <4>3
    <3>2. CASE op[a].at # "waiting"
      BY <3>2, ProjectingStays DEF StaysOn
    <3>q. QED
      BY <3>1, <3>2
  <2>3. CASE WriteSearch(a) /\ op[a].meeting = m
    <3>1. op'[a].at = "record" /\ op'[a].meeting = m
      BY <2>3, MovesTo DEF WriteSearch, SameCall
    <3>q. QED
      BY <3>1 DEF Vectored, Rewriting
  <2>4. CASE RecordEmbedded(a) /\ op[a].meeting = m
    <3>1. m \in vectors'
      BY <2>4 DEF RecordEmbedded, Stamping
    <3>q. QED
      BY <3>1 DEF Vectored
  <2>5. CASE ~(WriteSearch(a) /\ op[a].meeting = m) /\ ~(RecordEmbedded(a) /\ op[a].meeting = m)
    <3>1. row'[m] = row[m] /\ (m \in vectors => m \in vectors') /\ (op[a].at # "record" \/ op[a].meeting # m)
      BY <1>2, <2>5 DEF Projecting, AcquireLocks, Refused, RefuseEmbedding, Read, WriteGraph, WriteSearch,
         RecordStructural, SkipEmbedding, WriteVectors, RecordEmbedded, WriteDocuments, CiteArtifact, MomentMissing,
         AddHit, IInv, TypeOK
    <3>q. QED
      BY <2>1, <2>2, <3>1, VectoredAside
  <2>q. QED
    BY <2>3, <2>4, <2>5
<1>q. QED
  BY <1>1, <1>2

LEMMA RebuildingVectors ==
  ASSUME IInv, Shape, NEW c \in Rebuilds, Rebuilding(c), NEW m \in Meetings, Vectored(m)
  PROVE  Vectored(m)'
<1> USE DEF meili, stores
<1>0. c \in Actors /\ op \in [Actors -> Calls]
  BY Roles DEF IInv, TypeOK
<1>1. CASE DropStores(c)
  <2>1. op'[c].at = "forget"
    BY <1>0, <1>1, MovesTo DEF DropStores
  <2>q. QED
    BY <2>1 DEF Vectored, Wiped
<1>2. CASE ForgetRows(c)
  BY <1>2 DEF ForgetRows, RowsForgotten, Vectored
<1>3. CASE StartRebuild(c) \/ EndRebuild(c) \/ \E n \in Meetings : NextTarget(c, n)
  <2>1. /\ row'[m] = row[m] /\ vectors' = vectors /\ op[c].at \notin {"record", "forget"}
    BY <1>3 DEF StartRebuild, EndRebuild, NextTarget
  <2>2. OthersStill(c)
    BY <1>0, <1>3, LeavesOver DEF StartRebuild, EndRebuild, NextTarget, OthersStill
  <2>q. QED
    BY <1>0, <2>1, <2>2, VectoredAside
<1>q. QED
  BY <1>1, <1>2, <1>3 DEF Rebuilding

LEMMA ApiWorkingVectors ==
  ASSUME IInv, Shape, Api \/ Working \/ UNCHANGED vars, NEW m \in Meetings, Vectored(m)
  PROVE  Vectored(m)'
<1> USE DEF meili, stores
<1>0. op \in [Actors -> Calls]
  BY DEF IInv, TypeOK
<1>1. row'[m] \in {row[m], "none"} /\ vectors' = vectors
  BY DEF Api, Ingest, Augment, AssignSpeaker, Accept, Approve, Working, Claim, Mint, Invalidated, CommitEvidence,
     Checkpoint, MaybeProject, CommitExtract, MaybeProjectDocuments, FinishJob, vars, IInv, TypeOK
<1>2. CASE row'[m] = row[m] /\ UNCHANGED op
  BY <1>1, <1>2, VectoredStill DEF WipedStill, Wiped, Rewriting
<1>3. CASE row'[m] = "none"
  BY <1>3 DEF Vectored
<1>4. ASSUME NEW a \in Artifacts, Approve(a), row'[m] = row[m] PROVE Vectored(m)'
  <2>1. a \in Actors /\ OthersStill(a) /\ a \notin Rebuilds
    BY <1>0, <1>4, Roles DEF Approve, OthersStill
  <2>2. op[a].at # "record"
    BY <1>4, <2>1 DEF Shape, CallKinds, KindOf, StepOf, Over, Structure
  <2>q. QED
    BY <1>1, <1>4, <2>1, <2>2, VectoredAside
<1>5. ASSUME MaybeProject \/ MaybeProjectDocuments, row'[m] = row[m] PROVE Vectored(m)'
  <2>1. Worker \in Actors /\ OthersStill(Worker) /\ Worker \notin Rebuilds
    BY <1>0, <1>5, Roles DEF MaybeProject, MaybeProjectDocuments, OthersStill
  <2>2. op[Worker] = Rest
    BY <1>5, Resting DEF MaybeProject, MaybeProjectDocuments
  <2>3. op[Worker].at # "record"
    BY <2>2 DEF Rest
  <2>q. QED
    BY <1>1, <1>5, <2>1, <2>3, VectoredAside
<1>q. QED
  BY <1>1, <1>2, <1>3, <1>4, <1>5
  DEF Api, Ingest, Augment, AssignSpeaker, Accept, Working, Claim, Mint, CommitEvidence, Checkpoint, CommitExtract,
      FinishJob, vars

LEMMA FailingVectors ==
  ASSUME IInv, Shape, Failing, NEW m \in Meetings, m \notin excused', Vectored(m)
  PROVE  Vectored(m)'
<1> USE DEF neo4j, stores
<1>0. op \in [Actors -> Calls] /\ m # Nobody
  BY ActorsAssumption DEF IInv, TypeOK
<1>1. CASE InvalidationFails \/ SessionEnds
  <2>1. UNCHANGED <<op, row, vectors>>
    BY <1>1 DEF InvalidationFails, SessionEnds
  <2>q. QED
    BY <2>1, VectoredStill DEF WipedStill, Wiped, Rewriting
<1>2. ASSUME NEW a \in Actors, StoreFails(a) PROVE Vectored(m)'
  <2>1. op[a].at # "drop"
    <3>1. op[a].at = "drop" => op[a].kind = "rebuild"
      BY DEF Shape, CallKinds, StepOf, Over
    <3>q. QED
      BY <1>2, <3>1 DEF StoreFails, Doubtful
  <2>2. op[a].meeting # m /\ op[a].at # "forget" /\ row' = row /\ CutShort(a) /\ Finish(a)
    BY <1>0, <1>2, <2>1 DEF StoreFails, Doubtful
  <2>3. m \in vectors => m \in vectors'
    BY <2>2 DEF CutShort, meili
  <2>4. OthersStill(a)
    BY <2>2, Finishes
  <2>q. QED
    BY <2>2, <2>3, <2>4, VectoredAside
<1>3. ASSUME NEW c \in Rebuilds, CrashRebuild(c) PROVE Vectored(m)'
  <2>1. c \in Actors /\ OthersStill(c)
    BY <1>0, <1>3, Roles DEF CrashRebuild, OthersStill
  <2>2. op[c].kind # "rebuild" /\ op[c].meeting # m /\ row' = row /\ CutShort(c)
    BY <1>0, <1>3 DEF CrashRebuild, Doubtful
  <2>3. op[c].at # "forget"
    BY <2>1, <2>2 DEF Shape, CallKinds, StepOf, Over
  <2>4. m \in vectors => m \in vectors'
    BY <2>2 DEF CutShort, meili
  <2>q. QED
    BY <2>1, <2>2, <2>3, <2>4, VectoredAside
<1>4. CASE CrashApi
  <2>1. UNCHANGED <<row, vectors>> /\ \A b \in Actors : b \notin Artifacts => op'[b] = op[b]
    BY <1>4 DEF CrashApi, Approving
  <2>2. \A b \in Actors : op[b].at = "record" => b \notin Artifacts
    BY DEF Shape, CallKinds, KindOf, StepOf, Over, Structure
  <2>3. Rewriting(m) => Rewriting(m)'
    BY <2>1, <2>2 DEF Rewriting
  <2>4. WipedStill
    BY <2>1, Roles DEF WipedStill, Wiped
  <2>q. QED
    BY <2>1, <2>3, <2>4, VectoredStill
<1>5. CASE CrashWorker
  <2>1. /\ Worker \in Actors /\ OthersStill(Worker) /\ Worker \notin Rebuilds /\ row' = row /\ CutShort(Worker)
        /\ m = held => ~Hidden(Worker)
    BY <1>0, <1>5, Roles DEF CrashWorker, OthersStill
  <2>2. op[Worker].at # "rest" => op[Worker].meeting = held
    BY DEF Shape, WorkerCall, Rest
  <2>3. CASE row[m] # "embedded"
    BY <2>1, <2>3 DEF Vectored
  <2>4. CASE row[m] = "embedded"
    <3>1. op[Worker].at \notin {"search", "record", "embed"} \/ op[Worker].meeting # m
      BY <2>1, <2>2, <2>4 DEF Hidden
    <3>2. m \in vectors => m \in vectors'
      <4>1. op[Worker].at # "drop"
        <5>1. op[Worker].at = "drop" => op[Worker].kind = "rebuild"
          BY <2>1 DEF Shape, CallKinds, StepOf, Over
        <5>2. op[Worker].kind # "rebuild"
          BY DEF Shape, WorkerCall, Rest
        <5>q. QED
          BY <5>1, <5>2
      <4>q. QED
        BY <2>1, <3>1, <4>1 DEF CutShort
    <3>q. QED
      BY <2>1, <3>1, <3>2, VectoredAside
  <2>q. QED
    BY <2>3, <2>4
<1>q. QED
  BY <1>1, <1>2, <1>3, <1>4, <1>5 DEF Failing

LEMMA StepVectors ==
  ASSUME IInv, Shape, Stamping, \A m \in Meetings \ excused : Vectored(m), [Next]_vars
  PROVE  \A m \in Meetings \ excused' : Vectored(m)'
<1> SUFFICES ASSUME NEW m \in Meetings, m \notin excused' PROVE Vectored(m)'
  OBVIOUS
<1>1. CASE \E a \in Actors : Projecting(a)
  BY <1>1, ProjectingVectors
<1>2. CASE m \in excused
  <2>1. \E a \in Actors : Projecting(a)
    BY <1>2 DEF Next, Api, Ingest, Augment, AssignSpeaker, Accept, Approve, Working, Claim, Mint, CommitEvidence,
       Checkpoint, MaybeProject, CommitExtract, MaybeProjectDocuments, FinishJob, IdlePoll, Failing, InvalidationFails,
       CrashApi, CrashWorker, SessionEnds, StoreFails, CrashRebuild, Rebuilding, StartRebuild, DropStores,
       ForgetRows, EndRebuild, NextTarget, vars
  <2>q. QED
    BY <1>1, <2>1
<1>3. CASE m \notin excused
  BY <1>1, <1>3, RebuildingVectors, ApiWorkingVectors, FailingVectors DEF Next, IdlePoll
<1>q. QED
  BY <1>2, <1>3

LEMMA InitRows ==
  ASSUME Init
  PROVE  HInv
<1>1. Rest.at = "rest" /\ Rest.kind = "none" /\ \A a \in Actors : op[a] = Rest
  BY DEF Rest, Init
<1>2. HasEvidence
  BY <1>1 DEF Init, HasEvidence, Structural
<1>q. QED
  BY <1>1, <1>2 DEF Init, HInv, Stamping, Vectored

LEMMA Honest ==
  ASSUME IInv, RInv, HInv, NEW m \in Meetings, m \notin excused, row[m] # "none", Untouched(m)
  PROVE  /\ graph[m] # Absent /\ (text[m] = graph[m] \/ ToBeEmbedded(m))
         /\ row[m] = "embedded" => m \in vectors
<1>1. Shape /\ Good(m) /\ Vectored(m) /\ evidence[m] # 0
  BY DEF RInv, HInv, HasEvidence
<1>2. ~Wiped
  <2> SUFFICES ASSUME NEW c \in Rebuilds, op[c].at = "forget" PROVE FALSE
    BY DEF Wiped
  <2>1. c \in Actors /\ Inside(c) /\ op[c].kind = "rebuild"
    BY <1>1, Roles DEF Inside, Shape, CallKinds, StepOf, Over
  <2>q. QED
    BY <2>1 DEF Untouched
<1>3. ~Rewriting(m)
  BY DEF Rewriting, Untouched, Inside
<1>4. InStores(m)
  BY <1>1, <1>2 DEF Good, Stands
<1>5. ToBeVectored(m) => job[m] # "done"
  <2>1. pc # "idle" /\ held = m => job[m] # "done"
    BY <1>1 DEF Shape, JobShape
  <2>2. held = m /\ op[Worker].kind = "embed" => pc # "idle"
    BY <1>1 DEF Shape, WorkerCall, Rest
  <2>q. QED
    BY <2>1, <2>2 DEF ToBeVectored, Queued, Before
<1>q. QED
  BY <1>1, <1>2, <1>3, <1>4, <1>5 DEF InStores, ToBeEmbedded, Vectored, Absent

\* A row tells the truth whenever nobody is projecting its meeting.
THEOREM RowsAreHonest == Spec => []RowIsHonest
<1>1. IInv /\ RInv /\ [Next]_vars /\ IInv' /\ HInv => HInv'
  BY StepEvidence, StepStamping, StepVectors DEF HInv, RInv
<1>2. IInv /\ RInv /\ HInv => RowIsHonest
  BY Honest DEF RowIsHonest
<1>q. QED
  BY <1>1, <1>2, ReachInvariance, InitRows, PTL DEF Spec
=============================================================================
