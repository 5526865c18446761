-------------------------- MODULE Artifacts_proofs --------------------------
(***************************************************************************)
(* The artifact table, for any number of artifacts, approvals and runs of  *)
(* the stages: citations stay live, what is published is exported, and the *)
(* table implements the one-way lifecycle.                                 *)
(***************************************************************************)
EXTENDS Artifacts, WellFoundedInduction, NaturalsInduction, TLAPS

\* The rows of a run of `moments` and what they are keyed by.
LEMMA PlannedRows ==
  ASSUME NEW c \in Cuts
  PROVE  /\ Planned(c) \subseteq Rows
         /\ PlannedKeys(c) \subseteq Keys
         /\ \A m \in Planned(c) : m.live /\ KeyOf(m) \in PlannedKeys(c)
<1>1. c.talk \subseteq Instants /\ c.shots \subseteq Instants /\ c.end \in Instants
  BY CutsAssumption
<1>2. ASSUME NEW t \in Starts(c) PROVE t \in Instants /\ EndOf(c, t) \in Instants
  <2> DEFINE later == {s \in Starts(c) : s > t}
  <2>1. t \in Instants /\ later \subseteq Nat /\ later \subseteq Instants
    BY <1>1, BoundsAssumption DEF Starts, Instants
  <2>2. CASE later = {}
    BY <1>1, <2>1, <2>2 DEF EndOf
  <2>3. CASE later # {}
    <3>1. \E s \in later : \A u \in later : ~(<<u, s>> \in OpToRel(<, Nat))
      BY <2>1, <2>3, WFMin, NatLessThanWellFounded
    <3>0. \A u, s \in Nat : u < s => <<u, s>> \in OpToRel(<, Nat)
      BY Zenon DEF OpToRel
    <3>2. PICK s \in later : \A u \in later : ~(u < s)
      BY <2>1, <3>1, <3>0, Zenon
    <3>3. \A u \in later : s <= u
      BY <2>1, <3>2
    <3>4. EndOf(c, t) \in later
      BY <2>3, <3>3 DEF EndOf
    <3>5. QED
      BY <2>1, <3>4
  <2>4. QED
    BY <2>2, <2>3
<1>3. \A t \in Starts(c) : LaneOf(c, t) \in {"transcript", "screen"}
  BY DEF LaneOf
<1>4. Planned(c) \subseteq Rows
  <2>1. ASSUME NEW t \in Starts(c)
        PROVE  [lane |-> LaneOf(c, t), start |-> t, end |-> EndOf(c, t), live |-> TRUE] \in Rows
    BY <1>2, <1>3 DEF Rows
  <2>2. QED
    BY <2>1, Zenon DEF Planned
<1>5. \A m \in Rows : KeyOf(m) \in Keys
  BY DEF Rows, Keys, KeyOf
<1>6. \A m \in Planned(c) : m.live
  BY DEF Planned
<1>7. QED
  BY <1>4, <1>5, <1>6 DEF PlannedKeys

\* What is live once the rows of a cut are committed.
LEMMA CommittedRows ==
  ASSUME NEW c \in Cuts, moments \subseteq Rows
  PROVE  /\ Planned(c) \union Superseded(c) \subseteq Rows
         /\ \A m \in Superseded(c) : ~m.live
<1>1. Superseded(c) \subseteq Rows
  BY DEF Superseded, Rows
<1>2. \A m \in Superseded(c) : ~m.live
  BY DEF Superseded, Rows
<1>3. QED
  BY <1>1, <1>2, PlannedRows

\* Whatever moves, the transactions that wait only learn of stale rows.
LEMMA TouchedRows ==
  ASSUME request \in [Requests -> Transactions], NEW rows \in SUBSET Artifacts
  PROVE  /\ Touched(rows) \in [Requests -> Transactions]
         /\ \A r \in Requests :
              /\ Touched(rows)[r].at = request[r].at
              /\ Touched(rows)[r].pending = request[r].pending
              /\ Touched(rows)[r].done = request[r].done
              /\ Touched(rows)[r].writing = request[r].writing
              /\ request[r].stale \subseteq Touched(rows)[r].stale
              /\ request[r].at = "waiting" =>
                   rows \intersect request[r].pending \subseteq Touched(rows)[r].stale
<1>1. ASSUME NEW t \in Transactions
      PROVE  /\ Aged(t, rows) \in Transactions
             /\ Aged(t, rows).at = t.at /\ Aged(t, rows).pending = t.pending
             /\ Aged(t, rows).done = t.done /\ Aged(t, rows).writing = t.writing
             /\ t.stale \subseteq Aged(t, rows).stale
             /\ t.at = "waiting" => rows \intersect t.pending \subseteq Aged(t, rows).stale
  BY DEF Aged, Transactions
<1>2. QED
  BY <1>1 DEF Touched

\* The absent row, and the transactions that hold nothing.
LEMMA EmptyRows ==
  /\ Absent \in ArtifactRows
  /\ Ready \in Transactions /\ Ended \in Transactions
BY DEF Absent, ArtifactRows, Ready, Ended, Transactions

\* Tables that do not change keep every set read from them.
LEMMA Frame ==
  ASSUME UNCHANGED artifact
  PROVE  UNCHANGED <<Extracted, Published, Stored, Fresh, Approved, Replaced>>
BY DEF Extracted, Published, Stored, Fresh, Approved, Replaced

\* A worker's commit disturbs no approval: what it drops was in its own hands.
LEMMA TouchedMoves ==
  ASSUME RequestShape, request \in [Requests -> Transactions], mine \subseteq Artifacts,
         request' = Touched(mine), mine' = {}, UNCHANGED <<exported, committed>>,
         Extracted \ mine \subseteq Extracted'
  PROVE  RequestShape'
<1> USE mine \in SUBSET Artifacts
<1>1. ASSUME NEW r \in Requests, request[r].at = "waiting" PROVE Waits(r)'
  BY <1>1, TouchedRows DEF RequestShape, Waits
<1>2. ASSUME NEW r \in Requests, request[r].at = "exporting" PROVE Holds(r)'
  BY <1>2, TouchedRows DEF RequestShape, Holds
<1>3. ASSUME NEW r \in Requests, request[r].at = "exporting" PROVE Exports(r)'
  BY <1>3, TouchedRows DEF RequestShape, Exports
<1>4. QED
  BY <1>1, <1>2, <1>3, TouchedRows DEF RequestShape

LEMMA InitIInv == Init => IInv
<1> SUFFICES ASSUME Init PROVE IInv
  OBVIOUS
<1>1. TypeOK
  BY EmptyRows DEF Init, TypeOK
<1>2. Extracted = {} /\ Published = {} /\ Stored = {}
  <2>1. \A a \in Artifacts : artifact[a].state = "none"
    BY DEF Init, Absent
  <2>2. QED
    BY <2>1 DEF Extracted, Published, Stored
<1>3. ArtifactShape
  BY <1>2 DEF Init, ArtifactShape, Absent
<1>4. WorkerShape /\ RequestShape
  BY DEF Init, WorkerShape, RequestShape, Ready
<1>5. PublishedIsExported /\ CitationsAreLive
  BY <1>2 DEF PublishedIsExported, CitationsAreLive
<1>6. QED
  BY <1>1, <1>3, <1>4, <1>5 DEF IInv

-----------------------------------------------------------------------------
(* The worker's steps.                                                     *)

LEMMA RearmStep == IInv /\ (\E which \in SUBSET {"moments", "extract"} : Rearm(which)) => IInv'
<1> SUFFICES ASSUME IInv, NEW which \in SUBSET {"moments", "extract"}, Rearm(which) PROVE IInv'
  OBVIOUS
<1> USE DEF IInv, Rearm, publishRoot, worker
<1>1. UNCHANGED <<Extracted, Published, Stored, Approved, Replaced, Live>> /\ Displaced' = Displaced
  BY Frame DEF Live, Displaced, Published, Extracted, Stored
<1>2. TypeOK'
  BY DEF TypeOK
<1>3. ArtifactShape' /\ PublishedIsExported' /\ CitationsAreLive'
  BY <1>1 DEF ArtifactShape, PublishedIsExported, CitationsAreLive
<1>4. WorkerShape' /\ RequestShape'
  BY <1>1 DEF WorkerShape, RequestShape, Waits, Holds, Exports
<1>5. QED
  BY <1>2, <1>3, <1>4

\* Steps that only move the worker, with the rows it holds.
LEMMA WalkStep ==
  IInv /\ ((\E c \in Cuts : StartMoments(c)) \/ SettleMoments \/ StartExtract \/ ReadApproved \/ Leave)
    => IInv'
<1> SUFFICES ASSUME IInv,
                    (\E c \in Cuts : StartMoments(c)) \/ SettleMoments \/ StartExtract
                      \/ ReadApproved \/ Leave
             PROVE  IInv'
  OBVIOUS
<1> USE DEF IInv, tables, publishRoot
<1>1. UNCHANGED <<moments, artifact, exported, committed, request>> /\ mine' \subseteq mine
  BY DEF StartMoments, SettleMoments, StartExtract, ReadApproved, Leave
<1>2. UNCHANGED <<Extracted, Published, Stored, Approved, Replaced, Live>>
  BY <1>1, Frame DEF Live
<1>3. TypeOK'
  <2>0. \A a \in Published : artifact[a].moment \in Keys
    BY DEF ArtifactShape, Stored, Published
  <2>1. seen' \subseteq Keys
    <3>1. Approved \subseteq Keys
      BY <2>0, Zenon DEF Approved
    <3>2. seen' \in {seen, {}, Approved}
      BY DEF StartMoments, SettleMoments, StartExtract, ReadApproved, Leave
    <3>3. QED
      BY <3>1, <3>2 DEF TypeOK
  <2>2. cut' \in Cuts \union {None} /\ todo' \subseteq {"moments", "extract"}
    BY DEF TypeOK, StartMoments, SettleMoments, StartExtract, ReadApproved, Leave
  <2>3. queue' \subseteq {"moments", "extract"} /\ mine' \subseteq Artifacts
    BY <1>1 DEF TypeOK, StartMoments, SettleMoments, StartExtract, ReadApproved, Leave
  <2>4. pc' \in {"idle", "moments", "remapping", "committed", "between",
                 "extract", "deleting", "proposing"}
    BY DEF TypeOK, StartMoments, SettleMoments, StartExtract, ReadApproved, Leave
  <2>5. QED
    BY <1>1, <2>1, <2>2, <2>3, <2>4 DEF TypeOK
<1>4. ArtifactShape' /\ PublishedIsExported' /\ CitationsAreLive'
  BY <1>1, <1>2 DEF ArtifactShape, PublishedIsExported, CitationsAreLive
<1>5. WorkerShape'
  BY <1>1, <1>2 DEF WorkerShape, StartMoments, SettleMoments, StartExtract, ReadApproved, Leave
<1>6. RequestShape'
  BY <1>1, <1>2 DEF RequestShape, Waits, Holds, Exports
<1>7. QED
  BY <1>3, <1>4, <1>5, <1>6

\* Locking rows no approval holds.
LEMMA LockStep == IInv /\ (LockDisplaced \/ DeleteDrafts) => IInv'
<1> SUFFICES ASSUME IInv, LockDisplaced \/ DeleteDrafts PROVE IInv'
  OBVIOUS
<1> USE DEF IInv, tables, publishRoot
<1>1. UNCHANGED <<moments, artifact, exported, committed, request, cut, queue, todo, seen>>
  BY DEF LockDisplaced, DeleteDrafts
<1>2. UNCHANGED <<Extracted, Published, Stored, Approved, Replaced, Live>> /\ Displaced' = Displaced
  BY <1>1, Frame DEF Live, Displaced, Stored, Extracted, Published
<1>3. mine' \subseteq Artifacts /\ mine' \intersect LockedByApi = {}
  BY DEF LockDisplaced, DeleteDrafts, Displaced, Replaced, Stored, Extracted, Published
<1>4. TypeOK'
  BY <1>1, <1>3 DEF TypeOK, LockDisplaced, DeleteDrafts
<1>5. ArtifactShape' /\ PublishedIsExported' /\ CitationsAreLive'
  BY <1>1, <1>2 DEF ArtifactShape, PublishedIsExported, CitationsAreLive
<1>6. WorkerShape'
  BY <1>1, <1>2 DEF WorkerShape, LockDisplaced, DeleteDrafts
<1>7. RequestShape'
  <2>1. \A r \in Requests : request[r].at = "exporting" => request[r].pending \intersect mine' = {}
    BY <1>3 DEF LockedByApi, LockedBy
  <2>2. QED
    BY <1>1, <1>2, <2>1 DEF RequestShape, Waits, Holds, Exports
<1>8. QED
  BY <1>4, <1>5, <1>6, <1>7

\* The remap: every displaced artifact lands on a row this run planned.
LEMMA CommitMomentsStep == IInv /\ CommitMoments => IInv'
<1> SUFFICES ASSUME IInv, CommitMoments PROVE IInv'
  OBVIOUS
<1> USE DEF IInv, CommitMoments, publishRoot
<1>1. cut \in Cuts /\ mine = Displaced /\ moments \subseteq Rows
  BY DEF WorkerShape, TypeOK
<1>2. \A a \in mine : /\ Replacement(a) \in PlannedKeys(cut)
                     /\ artifact[a].moment \in Keys
  <2> SUFFICES ASSUME NEW a \in mine
               PROVE  Replacement(a) \in PlannedKeys(cut) /\ artifact[a].moment \in Keys
    OBVIOUS
  <2>1. PICK m \in Planned(cut) : Holding(cut, Source(a)) = {m}
    OBVIOUS
  <2>2. Replacement(a) = KeyOf(m)
    BY <2>1 DEF Replacement
  <2>3. a \in Stored /\ a \in Artifacts
    BY <1>1 DEF Displaced, Stored, Extracted, Published
  <2>4. QED
    BY <1>1, <2>2, <2>3, PlannedRows DEF ArtifactShape
<1>3. \A a \in mine : Source(a) \in Instants /\ Replacement(a) \in Keys
  BY <1>1, <1>2, PlannedRows DEF Source, Keys, TypeOK, ArtifactRows
<1>4. /\ \A a \in Artifacts : /\ artifact'[a].state = artifact[a].state
                             /\ artifact'[a].by = artifact[a].by
                             /\ artifact'[a].moment =
                                  IF a \in mine THEN Replacement(a) ELSE artifact[a].moment
      /\ artifact' \in [Artifacts -> ArtifactRows]
  BY <1>3 DEF TypeOK, ArtifactRows
<1> HIDE DEF CommitMoments
<1>14. /\ UNCHANGED <<exported, committed, queue, todo, cut, seen>> /\ mine' = {} /\ pc' = "committed"
       /\ moments' = Planned(cut) \union Superseded(cut) /\ request' = Touched(mine)
       /\ mine \subseteq Artifacts
  BY <1>1 DEF CommitMoments, TypeOK
<1>5. UNCHANGED <<Extracted, Published, Stored>>
  BY <1>4 DEF Extracted, Published, Stored
<1>6. request' \in [Requests -> Transactions]
  BY <1>14, TouchedRows DEF TypeOK
<1>7. TypeOK'
  BY <1>1, <1>4, <1>6, <1>14, CommittedRows DEF TypeOK
<1>8. ArtifactShape'
  <2>1. \A a \in Artifacts : artifact'[a].state = "published" <=> artifact'[a].by # None
    BY <1>4 DEF ArtifactShape
  <2>2. ASSUME NEW a \in Stored PROVE artifact'[a].moment \in Keys
    <3>1. a \in Artifacts /\ artifact[a].moment \in Keys
      BY DEF ArtifactShape, Stored, Extracted, Published
    <3>2. QED
      BY <1>3, <1>4, <3>1
  <2>3. QED
    BY <1>5, <2>1, <2>2 DEF ArtifactShape
<1>9. PublishedIsExported'
  BY <1>5, <1>14 DEF PublishedIsExported
<1>10. CitationsAreLive'
  <2>1. PlannedKeys(cut) \subseteq Live'
    <3>1. \A m \in Planned(cut) : m \in moments' /\ m.live
      BY <1>1, <1>14, PlannedRows
    <3>2. QED
      BY <3>1, Zenon DEF Live, PlannedKeys
  <2>2. \A a \in Stored : artifact'[a].moment \in PlannedKeys(cut)
    <3> SUFFICES ASSUME NEW a \in Stored PROVE artifact'[a].moment \in PlannedKeys(cut)
      OBVIOUS
    <3>1. a \in Artifacts
      BY DEF Stored, Extracted, Published
    <3>2. a \in mine <=> artifact[a].moment \notin PlannedKeys(cut)
      BY <1>1, Zenon DEF Displaced
    <3>3. QED
      BY <1>2, <1>4, <3>1, <3>2
  <2>3. QED
    BY <1>5, <2>1, <2>2 DEF CitationsAreLive
<1>11. WorkerShape'
  BY <1>1, <1>14 DEF WorkerShape
<1>12. RequestShape'
  BY <1>5, <1>14, TouchedMoves DEF TypeOK
<1>15. QED
  BY <1>7, <1>8, <1>9, <1>10, <1>11, <1>12

\* A re-extraction: what is inserted lands on a live moment.
LEMMA CommitExtractStep ==
  IInv /\ (\E new \in SUBSET Fresh : \E anchored \in Anchorings(new) : CommitExtract(anchored)) => IInv'
<1> SUFFICES ASSUME IInv, NEW new \in SUBSET Fresh, NEW anchored \in Anchorings(new),
                    CommitExtract(anchored)
             PROVE  IInv'
  OBVIOUS
<1> USE DEF IInv, CommitExtract, publishRoot
<1>1. DOMAIN anchored = new /\ \A a \in new : anchored[a] \in Landing
  BY DEF Anchorings
<1>2. Landing \subseteq Live /\ Live \subseteq Keys
  <2>1. \A m \in moments : KeyOf(m) \in Keys
    BY DEF TypeOK, Rows, Keys, KeyOf
  <2>2. QED
    BY <2>1, Zenon DEF Landing, Live
<1>3. mine \subseteq Extracted /\ new \subseteq Artifacts /\ new \intersect mine = {}
  BY DEF WorkerShape, Replaced, Fresh, Extracted
<1>4. \A a \in Artifacts :
        /\ artifact'[a] \in ArtifactRows
        /\ artifact'[a].by = IF a \in new THEN None ELSE artifact[a].by
        /\ artifact'[a].state = IF a \in mine THEN "gone"
                               ELSE IF a \in new THEN "extracted" ELSE artifact[a].state
        /\ artifact'[a].moment = IF a \in new THEN anchored[a] ELSE artifact[a].moment
  BY <1>1, <1>2, <1>3 DEF TypeOK, ArtifactRows, Proposal
<1> HIDE DEF CommitExtract
<1>5. Extracted' = (Extracted \ mine) \union new /\ Published' = Published
  <2>1. \A a \in Artifacts : artifact'[a].state = "extracted"
                              <=> (artifact[a].state = "extracted" /\ a \notin mine) \/ a \in new
    BY <1>3, <1>4
  <2>2. \A a \in Artifacts : artifact'[a].state = "published" <=> artifact[a].state = "published"
    BY <1>3, <1>4 DEF Fresh, Extracted
  <2>3. QED
    BY <1>3, <2>1, <2>2 DEF Extracted, Published
<1>13. /\ UNCHANGED <<moments, exported, committed, cut>> /\ mine' = {} /\ pc' = "idle"
       /\ queue' = queue \ {"extract"} /\ todo' = {} /\ seen' = {} /\ request' = Touched(mine)
       /\ artifact' \in [Artifacts -> ArtifactRows]
  BY <1>4 DEF CommitExtract
<1>6. request' \in [Requests -> Transactions]
  BY <1>3, <1>13, TouchedRows DEF TypeOK
<1>7. TypeOK'
  BY <1>6, <1>13 DEF TypeOK
<1>8. ArtifactShape'
  <2>1. \A a \in Artifacts : artifact'[a].state = "published" <=> artifact'[a].by # None
    BY <1>3, <1>4 DEF ArtifactShape, Fresh, Extracted
  <2>2. \A a \in Stored' : artifact'[a].moment \in Keys
    <3> SUFFICES ASSUME NEW a \in Stored' PROVE artifact'[a].moment \in Keys
      OBVIOUS
    <3>1. a \in Artifacts /\ (a \in Stored \/ a \in new)
      <4>1. Stored \subseteq Artifacts
        BY DEF Stored, Extracted, Published
      <4>2. QED
        BY <1>3, <1>5, <4>1 DEF Stored
    <3>2. QED
      BY <1>1, <1>2, <1>4, <3>1 DEF ArtifactShape
  <2>3. QED
    BY <2>1, <2>2 DEF ArtifactShape
<1>9. PublishedIsExported'
  BY <1>5, <1>13 DEF PublishedIsExported
<1>10. CitationsAreLive'
  <2>1. Live' = Live
    BY <1>13 DEF Live
  <2>2. ASSUME NEW a \in Stored' PROVE artifact'[a].moment \in Live
    <3>1. a \in Artifacts /\ (a \in Stored \/ a \in new)
      <4>1. Stored \subseteq Artifacts
        BY DEF Stored, Extracted, Published
      <4>2. QED
        BY <1>3, <1>5, <4>1 DEF Stored
    <3>2. QED
      BY <1>1, <1>2, <1>4, <3>1 DEF CitationsAreLive
  <2>3. QED
    BY <2>1, <2>2 DEF CitationsAreLive
<1>11. WorkerShape'
  BY <1>13 DEF WorkerShape
<1>12. RequestShape'
  BY <1>5, <1>13, TouchedMoves, mine \subseteq Artifacts DEF TypeOK
<1>14. QED
  BY <1>7, <1>8, <1>9, <1>10, <1>11, <1>12

-----------------------------------------------------------------------------
(* The approvals' steps.                                                   *)

\* A step of one approval that touches no table and no row of the worker.
LEMMA ApprovalStep ==
  ASSUME IInv, UNCHANGED <<tables, worker>>,
         exported' \subseteq Artifacts, committed' \subseteq Artifacts,
         exported \subseteq exported', committed \subseteq committed',
         NEW r \in Requests, NEW t \in Transactions, request' = [request EXCEPT ![r] = t],
         RequestShape'
  PROVE  IInv'
<1> USE DEF IInv, tables, worker
<1>1. UNCHANGED <<Extracted, Published, Stored, Replaced, Live>> /\ Displaced' = Displaced
  BY Frame DEF Live, Displaced, Published, Extracted, Stored
<1>2. TypeOK'
  BY DEF TypeOK
<1>3. ArtifactShape' /\ PublishedIsExported' /\ CitationsAreLive'
  BY <1>1 DEF ArtifactShape, PublishedIsExported, CitationsAreLive
<1>4. WorkerShape'
  BY <1>1 DEF WorkerShape
<1>5. QED
  BY <1>2, <1>3, <1>4

LEMMA OpenStep == IInv /\ (\E r \in Requests, key \in Keys : Open(r, key)) => IInv'
<1> SUFFICES ASSUME IInv, NEW r \in Requests, NEW key \in Keys, Open(r, key) PROVE IInv'
  OBVIOUS
<1> DEFINE asked == {a \in Extracted : artifact[a].moment = key}
           t == [request[r] EXCEPT !.at = "waiting", !.pending = asked]
<1>1. request \in [Requests -> Transactions] /\ request[r] \in Transactions
  BY DEF IInv, TypeOK
<1>2. asked \subseteq Extracted /\ asked \subseteq Artifacts
  BY DEF Extracted
<1>3. t \in Transactions /\ t.at = "waiting" /\ t.pending = asked /\ t.stale = request[r].stale
      /\ t.done = request[r].done /\ t.writing = request[r].writing
  BY <1>1, <1>2 DEF Transactions
<1>4. request' = [request EXCEPT ![r] = t] /\ UNCHANGED <<tables, publishRoot, worker>>
      /\ request[r].at = "ready"
  BY <1>1 DEF Open, Transactions
<1> HIDE DEF t, asked
<1>5. UNCHANGED <<exported, committed, mine>> /\ Extracted' = Extracted
  BY <1>4, Frame DEF publishRoot, tables, worker
<1>6. RequestShape'
  BY <1>1, <1>2, <1>3, <1>4, <1>5 DEF IInv, RequestShape, Waits, Holds, Exports
<1>7. QED
  BY <1>3, <1>4, <1>5, <1>6, ApprovalStep DEF IInv, TypeOK

\* The rows an approval gets are drafts still: nothing that waits is stale.
LEMMA LockRowsStep == IInv /\ (\E r \in Requests : Lock(r)) => IInv'
<1> SUFFICES ASSUME IInv, NEW r \in Requests, Lock(r) PROVE IInv'
  OBVIOUS
<1> DEFINE t == IF SerializationFailure(r) THEN Ended
                ELSE [request[r] EXCEPT !.at = "exporting", !.stale = {}]
<1>1. request \in [Requests -> Transactions] /\ request[r] \in Transactions
  BY DEF IInv, TypeOK
<1>2. /\ request' = [request EXCEPT ![r] = t] /\ UNCHANGED <<tables, publishRoot, worker>>
      /\ request[r].at = "waiting"
      /\ request[r].pending \intersect (mine \union LockedByApi) = {}
  BY <1>1 DEF Lock
<1>3. /\ t \in Transactions
      /\ \/ t = Ended
         \/ /\ t.at = "exporting" /\ t.pending = request[r].pending /\ t.done = request[r].done
            /\ t.writing = request[r].writing
            /\ request[r].pending \intersect request[r].stale = {}
  BY <1>1, EmptyRows DEF Transactions, SerializationFailure
<1> HIDE DEF t
<1>4. UNCHANGED <<exported, committed, mine>> /\ Extracted' = Extracted
  BY <1>2, Frame DEF publishRoot, tables, worker
<1>5. /\ \A q \in Requests : request[q].at = "exporting"
                             => request[q].pending \intersect request[r].pending = {}
      /\ request[r].pending \intersect mine = {}
  BY <1>2 DEF LockedByApi, LockedBy
<1>6. RequestShape'
  <2>1. CASE t = Ended
    BY <1>1, <1>2, <1>4, <2>1 DEF IInv, RequestShape, Waits, Holds, Exports, Ended, Ready
  <2>2. CASE t # Ended
    <3>1. /\ request[r].pending \subseteq Extracted
          /\ request[r].done = {} /\ request[r].writing = None
      BY <1>2, <1>3, <2>2 DEF IInv, RequestShape, Waits
    <3>2. Holds(r)' /\ Exports(r)'
      BY <1>1, <1>2, <1>3, <1>4, <1>5, <2>2, <3>1 DEF Holds, Exports
    <3>3. ASSUME NEW q \in Requests \ {r}
          PROVE  /\ request'[q] = request[q]
                 /\ request[q].at = "waiting" => Waits(q)'
                 /\ request[q].at = "exporting" => Holds(q)' /\ Exports(q)'
      BY <1>1, <1>2, <1>3, <1>4, <1>5, <2>2 DEF IInv, RequestShape, Waits, Holds, Exports
    <3>4. QED
      BY <1>1, <1>2, <1>3, <2>2, <3>2, <3>3 DEF IInv, RequestShape
  <2>3. QED
    BY <2>1, <2>2
<1>7. QED
  BY <1>2, <1>3, <1>4, <1>6, ApprovalStep DEF IInv, TypeOK

LEMMA ExportStep == IInv /\ (\E r \in Requests, a \in Artifacts : Export(r, a)) => IInv'
<1> SUFFICES ASSUME IInv, NEW r \in Requests, NEW a \in Artifacts, Export(r, a) PROVE IInv'
  OBVIOUS
<1> DEFINE t == IF a \in Adrs THEN [request[r] EXCEPT !.writing = a]
                ELSE [request[r] EXCEPT !.done = @ \union {a}]
<1>1. request \in [Requests -> Transactions] /\ request[r] \in Transactions
  BY DEF IInv, TypeOK
<1>2. /\ request' = [request EXCEPT ![r] = t] /\ UNCHANGED <<tables, committed, worker>>
      /\ exported' = exported \union {a} /\ a \in request[r].pending
      /\ request[r].at = "exporting"
  BY <1>1 DEF Export
<1>3. /\ t \in Transactions /\ t.at = "exporting" /\ t.pending = request[r].pending
      /\ \/ t.done = request[r].done /\ t.writing = a
         \/ t.done = request[r].done \union {a} /\ t.writing = request[r].writing /\ a \notin Adrs
  BY <1>1, <1>2 DEF Transactions
<1> HIDE DEF t
<1>4. UNCHANGED mine /\ Extracted' = Extracted
  BY <1>2, Frame DEF tables, worker
<1>5. RequestShape'
  BY <1>1, <1>2, <1>3, <1>4 DEF IInv, RequestShape, Waits, Holds, Exports
<1>6. QED
  BY <1>2, <1>3, <1>5, ApprovalStep DEF IInv, TypeOK

LEMMA CommitAdrStep == IInv /\ (\E r \in Requests : CommitAdr(r)) => IInv'
<1> SUFFICES ASSUME IInv, NEW r \in Requests, CommitAdr(r) PROVE IInv'
  OBVIOUS
<1> DEFINE t == [request[r] EXCEPT !.done = @ \union {request[r].writing}, !.writing = None]
<1>1. request \in [Requests -> Transactions] /\ request[r] \in Transactions
  BY DEF IInv, TypeOK
<1>2. /\ request' = [request EXCEPT ![r] = t] /\ UNCHANGED <<tables, exported, worker>>
      /\ committed' = committed \union {request[r].writing}
      /\ request[r].at = "exporting" /\ request[r].writing \in Artifacts
      /\ request[r].writing \in exported
  BY <1>1 DEF CommitAdr, Transactions, IInv, RequestShape, Exports
<1>3. /\ t \in Transactions /\ t.at = "exporting" /\ t.pending = request[r].pending
      /\ t.done = request[r].done \union {request[r].writing} /\ t.writing = None
  BY <1>1, <1>2 DEF Transactions
<1> HIDE DEF t
<1>4. UNCHANGED mine /\ Extracted' = Extracted
  BY <1>2, Frame DEF tables, worker
<1>5. RequestShape'
  BY <1>1, <1>2, <1>3, <1>4 DEF IInv, RequestShape, Waits, Holds, Exports
<1>6. QED
  BY <1>2, <1>3, <1>5, ApprovalStep DEF IInv, TypeOK

LEMMA AbandonStep == IInv /\ (\E r \in Requests : Abandon(r)) => IInv'
<1> SUFFICES ASSUME IInv, NEW r \in Requests, Abandon(r) PROVE IInv'
  OBVIOUS
<1>1. /\ request \in [Requests -> Transactions]
      /\ request' = [request EXCEPT ![r] = Ended] /\ UNCHANGED <<tables, publishRoot, worker>>
  BY DEF Abandon, IInv, TypeOK
<1>2. UNCHANGED <<exported, committed, mine>> /\ Extracted' = Extracted
  BY <1>1, Frame DEF publishRoot, tables, worker
<1>3. RequestShape'
  BY <1>1, <1>2 DEF IInv, RequestShape, Waits, Holds, Exports, Ended, Ready
<1>4. QED
  BY <1>1, <1>2, <1>3, EmptyRows, ApprovalStep DEF IInv, TypeOK

\* What an approval publishes it held, exported and committed.
LEMMA CommitApprovalStep == IInv /\ (\E r \in Requests : CommitApproval(r)) => IInv'
<1> SUFFICES ASSUME IInv, NEW r \in Requests, CommitApproval(r) PROVE IInv'
  OBVIOUS
<1> DEFINE held == request[r].pending
<1>1. request \in [Requests -> Transactions] /\ held \in SUBSET Artifacts
  BY DEF IInv, TypeOK, Transactions
<1>2. /\ held \subseteq Extracted /\ held \intersect mine = {}
      /\ \A q \in Requests \ {r} : request[q].at = "exporting" => request[q].pending \intersect held = {}
      /\ held \subseteq exported /\ held \intersect Adrs \subseteq committed
  BY DEF CommitApproval, AllDone, IInv, RequestShape, Holds, Exports
<1>3. /\ UNCHANGED <<moments, queue, exported, committed, pc, todo, cut, seen, mine>>
      /\ request' = [Touched(held) EXCEPT ![r] = Ended]
  BY DEF CommitApproval, publishRoot, worker
<1>4. /\ artifact' \in [Artifacts -> ArtifactRows]
      /\ \A a \in Artifacts :
           /\ artifact'[a].state = IF a \in held THEN "published" ELSE artifact[a].state
           /\ artifact'[a].by = IF a \in held THEN r ELSE artifact[a].by
           /\ artifact'[a].moment = artifact[a].moment
  BY DEF CommitApproval, IInv, TypeOK, ArtifactRows
<1> HIDE DEF held
<1>5. Extracted' = Extracted \ held /\ Published' = Published \union held
  <2>1. \A a \in Artifacts : /\ artifact'[a].state = "extracted"
                                 <=> artifact[a].state = "extracted" /\ a \notin held
                             /\ artifact'[a].state = "published"
                                 <=> artifact[a].state = "published" \/ a \in held
    BY <1>4
  <2>2. QED
    BY <1>1, <2>1 DEF Extracted, Published
<1>6. Stored' = Stored /\ Live' = Live /\ Stored \subseteq Artifacts
  BY <1>2, <1>3, <1>5 DEF Stored, Live, Extracted, Published
<1>7. request' \in [Requests -> Transactions]
  BY <1>1, <1>3, TouchedRows, EmptyRows
<1>8. TypeOK'
  BY <1>3, <1>4, <1>7 DEF IInv, TypeOK
<1>9. ArtifactShape'
  <2>1. r # None
    BY NoneAssumption
  <2>2. QED
    BY <1>4, <1>6, <2>1 DEF IInv, ArtifactShape
<1>10. PublishedIsExported'
  BY <1>2, <1>3, <1>5 DEF IInv, PublishedIsExported
<1>11. CitationsAreLive'
  BY <1>4, <1>6 DEF IInv, CitationsAreLive
<1>12. WorkerShape'
  <2>1. Displaced' = Displaced
    <3>1. \A a \in Stored : artifact'[a].moment = artifact[a].moment
      BY <1>4, <1>6
    <3>2. QED
      BY <1>3, <1>6, <3>1 DEF Displaced
  <2>2. mine = Replaced => mine = Replaced'
    <3> SUFFICES ASSUME mine = Replaced PROVE Replaced' = Replaced
      OBVIOUS
    <3>1. \A a \in Extracted : a \notin Replaced => artifact[a].moment \in Approved
      BY DEF Replaced
    <3>2. \A a \in held : artifact[a].moment \in Approved
      BY <1>2, <3>1
    <3>3. Published \subseteq Artifacts /\ Extracted \subseteq Artifacts
      BY DEF Published, Extracted
    <3>4. Approved' = {artifact[a].moment : a \in Published \union held}
      BY <1>1, <1>4, <1>5, <3>3 DEF Approved
    <3>5. Approved' = Approved
      BY <3>2, <3>4, Zenon DEF Approved
    <3>6. \A a \in Extracted : artifact'[a].moment = artifact[a].moment
      BY <1>4, <3>3
    <3>7. QED
      BY <1>2, <1>5, <3>2, <3>5, <3>6 DEF Replaced
  <2>3. QED
    BY <1>3, <2>1, <2>2 DEF IInv, WorkerShape
<1>13. RequestShape'
  <2>1. request'[r] = Ended
    BY <1>1, <1>3, TouchedRows
  <2>2. \A q \in Requests \ {r} : request'[q] = Touched(held)[q]
    BY <1>1, <1>3, TouchedRows
  <2>3. ASSUME NEW q \in Requests \ {r}, request[q].at = "waiting" PROVE Waits(q)'
    BY <1>1, <1>5, <2>2, <2>3, TouchedRows DEF IInv, RequestShape, Waits
  <2>4. ASSUME NEW q \in Requests \ {r}, request[q].at = "exporting" PROVE Holds(q)'
    BY <1>1, <1>2, <1>3, <1>5, <2>1, <2>2, <2>4, TouchedRows
       DEF IInv, RequestShape, Holds, Ended, Ready
  <2>5. ASSUME NEW q \in Requests \ {r}, request[q].at = "exporting" PROVE Exports(q)'
    BY <1>1, <1>3, <2>2, <2>5, TouchedRows DEF IInv, RequestShape, Exports
  <2>6. QED
    BY <1>1, <2>1, <2>2, <2>3, <2>4, <2>5, TouchedRows DEF IInv, RequestShape, Ended, Ready
<1>14. QED
  BY <1>8, <1>9, <1>10, <1>11, <1>12, <1>13 DEF IInv

\* The artifact table is written by three commits and by nothing else.
LEMMA TableSteps ==
  ASSUME [Next]_vars
  PROVE  \/ UNCHANGED artifact \/ CommitMoments
         \/ \E new \in SUBSET Fresh : \E anchored \in Anchorings(new) : CommitExtract(anchored)
         \/ \E r \in Requests : CommitApproval(r)
BY DEF Next, vars, tables, Rearm, StartMoments, LockDisplaced, SettleMoments, StartExtract,
       ReadApproved, DeleteDrafts, Leave, Open, Export, Lock, CommitAdr, Abandon

-----------------------------------------------------------------------------
(* The theorems.                                                           *)

\* No step of the worker, the api or an approval leaves the invariant.
LEMMA NextStep == IInv /\ [Next]_vars => IInv'
<1> SUFFICES ASSUME IInv, [Next]_vars PROVE IInv'
  OBVIOUS
<1>1. CASE UNCHANGED vars
  <2>1. UNCHANGED <<Extracted, Published, Stored, Replaced, Live>> /\ Displaced' = Displaced
    BY <1>1, Frame DEF vars, Live, Displaced, Published, Extracted, Stored
  <2>2. TypeOK'
    BY <1>1 DEF vars, IInv, TypeOK
  <2>3. ArtifactShape' /\ PublishedIsExported' /\ CitationsAreLive'
    BY <1>1, <2>1 DEF vars, IInv, ArtifactShape, PublishedIsExported, CitationsAreLive
  <2>4. WorkerShape' /\ RequestShape'
    BY <1>1, <2>1 DEF vars, IInv, WorkerShape, RequestShape, Waits, Holds, Exports
  <2>5. QED
    BY <2>2, <2>3, <2>4 DEF IInv
<1>2. CASE Next
  BY <1>2, RearmStep, WalkStep, LockStep, CommitMomentsStep, CommitExtractStep, OpenStep,
     LockRowsStep, ExportStep, CommitAdrStep, AbandonStep, CommitApprovalStep, Zenon DEF Next
<1>3. QED
  BY <1>1, <1>2

\* Types, shapes of both sides, exports and citations, in every behaviour of
\* the moments, extract and approval code.
THEOREM Inductive == Spec => []IInv
<1>1. Init => IInv
  BY InitIInv
<1>2. IInv /\ [Next]_vars => IInv'
  BY NextStep
<1>3. QED
  BY <1>1, <1>2, PTL DEF Spec

\* The tables keep their shape.
THEOREM Typed == Spec => []TypeOK
<1>1. IInv => TypeOK
  BY DEF IInv
<1>2. QED
  BY <1>1, Inductive, PTL

\* approve_moment_artifacts never commits a published row without its file and,
\* for an ADR, its git commit.
THEOREM Exported == Spec => []PublishedIsExported
<1>1. IInv => PublishedIsExported
  BY DEF IInv
<1>2. QED
  BY <1>1, Inductive, PTL

\* The remap of the moments stage leaves no artifact on a superseded or deleted
\* moment, whatever approvals and re-extractions run beside it.
THEOREM Cited == Spec => []CitationsAreLive
<1>1. IInv => CitationsAreLive
  BY DEF IInv
<1>2. QED
  BY <1>1, Inductive, PTL

\* The DELETE of extract leaves every draft of a moment with a published one,
\* also when the approval commits between the DELETE and the commit.
THEOREM DraftsKept == Spec => ApprovedMomentsKeepDrafts
<1> DEFINE Kept == \A a \in Extracted : artifact[a].moment \in Approved => artifact'[a].state # "gone"
<1>1. IInv /\ [Next]_vars => Kept
  <2> SUFFICES ASSUME IInv, [Next]_vars, NEW a \in Extracted, artifact[a].moment \in Approved
               PROVE  artifact'[a].state # "gone"
    OBVIOUS
  <2>1. a \in Artifacts /\ artifact[a].state = "extracted" /\ artifact[a] \in ArtifactRows
    BY DEF Extracted, IInv, TypeOK
  <2>2. CASE UNCHANGED artifact
    BY <2>1, <2>2
  <2>3. CASE CommitMoments
    BY <2>1, <2>3 DEF CommitMoments, ArtifactRows
  <2>4. ASSUME NEW new \in SUBSET Fresh, NEW anchored \in Anchorings(new), CommitExtract(anchored)
        PROVE  artifact'[a].state # "gone"
    <3>1. a \notin mine
      BY <2>4 DEF CommitExtract, IInv, WorkerShape, Replaced
    <3>2. QED
      BY <2>1, <2>4, <3>1 DEF CommitExtract, Proposal
  <2>5. ASSUME NEW r \in Requests, CommitApproval(r)
        PROVE  artifact'[a].state # "gone"
    BY <2>1, <2>5 DEF CommitApproval, ArtifactRows
  <2>6. QED
    BY <2>2, <2>3, <2>4, <2>5, TableSteps
<1>2. QED
  BY <1>1, Inductive, PTL DEF Spec, ApprovedMomentsKeepDrafts

-----------------------------------------------------------------------------
(* The table implements the one-way lifecycle.                             *)

LEMMA LifecycleInit == Init => Lifecycle!Init
<1> SUFFICES ASSUME Init PROVE Lifecycle!Init
  OBVIOUS
<1>1. \A a \in Artifacts : artifact[a].state = "none" /\ artifact[a].by = None
  BY DEF Init, Absent
<1>2. QED
  BY <1>1 DEF Lifecycle!Init, Extracted

LEMMA LifecycleStep == IInv /\ [Next]_vars => [Lifecycle!Next]_(Lifecycle!vars)
<1> SUFFICES ASSUME IInv, [Next]_vars PROVE [Lifecycle!Next]_(Lifecycle!vars)
  OBVIOUS
<1> DEFINE gone == {a \in Artifacts : artifact[a].state = "gone"}
           by == [a \in Artifacts |-> artifact[a].by]
<1>0. artifact \in [Artifacts -> ArtifactRows]
  BY DEF IInv, TypeOK
<1>1. CASE UNCHANGED artifact
  BY <1>1 DEF Lifecycle!vars, Extracted
<1>2. CASE CommitMoments
  <2>1. \A a \in Artifacts : artifact'[a].state = artifact[a].state /\ artifact'[a].by = artifact[a].by
    BY <1>0, <1>2 DEF CommitMoments, ArtifactRows
  <2>2. QED
    BY <2>1 DEF Lifecycle!vars, Extracted
<1>3. ASSUME NEW new \in SUBSET Fresh, NEW anchored \in Anchorings(new), CommitExtract(anchored)
      PROVE  Lifecycle!Propose(mine, new)
  <2>1. /\ mine \subseteq Extracted /\ new \intersect mine = {} /\ new \subseteq Artifacts
        /\ \A a \in new : artifact[a].state = "none" /\ artifact[a].by = None
    BY <1>3 DEF CommitExtract, IInv, WorkerShape, Replaced, Fresh, Extracted, ArtifactShape
  <2>2. DOMAIN anchored = new
    BY DEF Anchorings
  <2>3. \A a \in Artifacts :
          /\ artifact'[a].by = artifact[a].by
          /\ artifact'[a].state = IF a \in mine THEN "gone"
                                 ELSE IF a \in new THEN "extracted" ELSE artifact[a].state
    BY <1>0, <1>3, <2>1, <2>2 DEF CommitExtract, Proposal, ArtifactRows
  <2>4. Extracted' = (Extracted \ mine) \union new
    BY <2>1, <2>3 DEF Extracted
  <2>5. gone' = gone \union mine
    BY <2>1, <2>3 DEF Extracted
  <2>6. by' = by
    BY <2>3
  <2>7. new \subseteq Artifacts \ (Extracted \union gone \union Lifecycle!Published)
    BY <2>1 DEF Extracted, Lifecycle!Published
  <2>8. QED
    BY <2>1, <2>4, <2>5, <2>6, <2>7 DEF Lifecycle!Propose
<1>4. ASSUME NEW r \in Requests, CommitApproval(r)
      PROVE  Lifecycle!Publish(r, request[r].pending)
  <2> DEFINE held == request[r].pending
  <2>1. held \subseteq Extracted
    BY <1>4 DEF CommitApproval, IInv, RequestShape, Holds
  <2>2. \A a \in Artifacts :
          /\ artifact'[a].by = IF a \in held THEN r ELSE artifact[a].by
          /\ artifact'[a].state = IF a \in held THEN "published" ELSE artifact[a].state
    BY <1>0, <1>4 DEF CommitApproval, ArtifactRows
  <2> HIDE DEF held
  <2>3. Extracted' = Extracted \ held
    BY <2>1, <2>2 DEF Extracted
  <2>4. gone' = gone
    BY <2>1, <2>2 DEF Extracted
  <2>5. by' = [a \in Artifacts |-> IF a \in held THEN r ELSE by[a]]
    BY <2>2
  <2>6. QED
    BY <2>1, <2>3, <2>4, <2>5 DEF Lifecycle!Publish, held
<1>5. QED
  <2>1. ASSUME NEW new \in SUBSET Fresh, NEW anchored \in Anchorings(new), CommitExtract(anchored)
        PROVE  Lifecycle!Next
    BY <1>3, <2>1 DEF Lifecycle!Next, IInv, TypeOK, Fresh
  <2>2. ASSUME NEW r \in Requests, CommitApproval(r) PROVE Lifecycle!Next
    <3>1. request[r].pending \in SUBSET Artifacts
      BY DEF IInv, TypeOK, Transactions
    <3>2. Lifecycle!Publish(r, request[r].pending)
      BY <1>4, <2>2
    <3>3. QED
      BY <3>1, <3>2 DEF Lifecycle!Next, Lifecycle!Publish
  <2>3. QED
    BY <1>1, <1>2, <2>1, <2>2, TableSteps

\* 0009_artifacts.sql's lifecycle: the worker and the approvals together
\* implement drafts that are proposed, withdrawn or published, once.
THEOREM Implements == Spec => OneWayLifecycle
<1>1. Init => Lifecycle!Init
  BY LifecycleInit
<1>2. IInv /\ [Next]_vars => [Lifecycle!Next]_(Lifecycle!vars)
  BY LifecycleStep
<1>3. QED
  BY <1>1, <1>2, Inductive, PTL DEF Spec, OneWayLifecycle, Lifecycle!Spec
=============================================================================
