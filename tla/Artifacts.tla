------------------------------ MODULE Artifacts ------------------------------
(***************************************************************************)
(* The artifacts of one meeting and the moments they cite: the `moments`   *)
(* and `extract` stages of the worker against the per-moment approval of   *)
(* the api, which exports to the publish root and its git repository.      *)
(*                                                                         *)
(* The worker's transactions are READ COMMITTED, an approval is REPEATABLE *)
(* READ; both lock artifact rows.  A transaction is its snapshot, its row  *)
(* locks and its commit.  A moment is its row: a lane and a start (its     *)
(* identity key), the end of its span, and whether it is live or           *)
(* superseded.                                                             *)
(***************************************************************************)
EXTENDS Naturals, FiniteSets

CONSTANTS Artifacts,     \* artifact ids, never used twice
          Adrs,          \* those of kind `adr`, which are committed to git
          Requests,      \* approval requests, one shot each
          Length,        \* the last instant of the timeline
          Cuts,          \* the evidence a run of `moments` may find
          MaxProposals,  \* bound: artifacts one run of `extract` inserts
          None

Instants == 0..Length
Keys == [lane : {"transcript", "screen"}, start : Instants]
Rows == [lane : {"transcript", "screen"}, start : Instants, end : Instants, live : BOOLEAN]

ASSUME ArtifactsAssumption == Adrs \subseteq Artifacts
ASSUME NoneAssumption == None \notin Requests \union Keys \union Instants \union Artifacts
ASSUME BoundsAssumption == Length \in Nat /\ MaxProposals \in Nat
\* A cut: where talk starts a moment, where screenshots do, and the end of the
\* last evidence.
ASSUME CutsAssumption ==
  Cuts \subseteq [talk : SUBSET Instants, shots : SUBSET Instants, end : Instants]

VARIABLES moments,    \* the moment table
          artifact,   \* the artifact table, by id
          exported,   \* ids with a markdown file under the publish root
          committed,  \* ... which the publish repository holds
          queue       \* the stages of the meeting's job that are not settled

VARIABLES pc,         \* where the worker stands
          todo,       \* the stages its claim found queued
          cut,        \* the evidence of the `moments` run in progress
          seen,       \* the approved moments `extract` has read
          mine        \* the artifact rows the worker's transaction has locked

VARIABLES request     \* each approval's transaction

tables == <<moments, artifact, queue>>
publishRoot == <<exported, committed>>
worker == <<pc, todo, cut, seen, mine>>
vars == <<moments, artifact, exported, committed, queue, pc, todo, cut, seen, mine, request>>

Absent == [state |-> "none", moment |-> None, source |-> None, by |-> None]
Ready == [at |-> "ready", pending |-> {}, stale |-> {}, done |-> {}, writing |-> None]
Ended == [Ready EXCEPT !.at = "ended"]

Init ==
  /\ moments = {}
  /\ artifact = [a \in Artifacts |-> Absent]
  /\ exported = {} /\ committed = {}
  /\ queue = {"moments", "extract"}
  /\ pc = "idle" /\ todo = {} /\ cut = None /\ seen = {} /\ mine = {}
  /\ request = [r \in Requests |-> Ready]

-----------------------------------------------------------------------------
(* Moments, artifacts and locks.                                           *)

KeyOf(m) == [lane |-> m.lane, start |-> m.start]
Live == {KeyOf(m) : m \in {n \in moments : n.live}}

Extracted == {a \in Artifacts : artifact[a].state = "extracted"}
Published == {a \in Artifacts : artifact[a].state = "published"}
Stored == Extracted \union Published
Fresh == {a \in Artifacts : artifact[a].state = "none"}
Approved == {artifact[a].moment : a \in Published}

\* An approval holds its rows from the SELECT ... FOR UPDATE to its end.
LockedBy(r) == IF request[r].at = "exporting" THEN request[r].pending ELSE {}
LockedByApi == UNION {LockedBy(r) : r \in Requests}

\* A commit makes the rows it changed stale for every snapshot still waiting.
Aged(t, rows) ==
  IF t.at = "waiting" THEN [t EXCEPT !.stale = @ \union (rows \intersect t.pending)] ELSE t
Touched(rows) == [r \in Requests |-> Aged(request[r], rows)]

Viewable == "moments" \notin queue

-----------------------------------------------------------------------------
(* The api re-queues stages of the job.                                    *)

Rearm(which) ==
  /\ \/ which = {"moments", "extract"} /\ pc = "idle"    \* a retry, a speaker
     \/ which = {"moments"} /\ Viewable                  \* an augmentation
     \/ which = {"extract"} /\ pc = "idle"               \* an operator
  /\ queue' = queue \union which
  /\ UNCHANGED <<moments, artifact, publishRoot, worker, request>>

-----------------------------------------------------------------------------
(* The `moments` stage: one transaction.                                   *)

Starts(c) == c.talk \union c.shots
LaneOf(c, t) == IF t \in c.talk THEN "transcript" ELSE "screen"
EndOf(c, t) ==
  LET later == {s \in Starts(c) : s > t}
  IN IF later = {} THEN (IF c.end < t THEN t ELSE c.end)
     ELSE CHOOSE s \in later : \A u \in later : s <= u
Planned(c) ==
  {[lane |-> LaneOf(c, t), start |-> t, end |-> EndOf(c, t), live |-> TRUE] : t \in Starts(c)}
PlannedKeys(c) == {KeyOf(m) : m \in Planned(c)}

\* Rows this run did not recompute: a screen-anchored one whose screenshot is
\* gone is deleted, any other is kept and marked superseded.
Superseded(c) ==
  {[m EXCEPT !.live = FALSE] :
     m \in {n \in moments : /\ KeyOf(n) \notin PlannedKeys(c)
                            /\ n.lane = "screen" => n.start \in Starts(c)}}

\* The artifacts that have to leave a moment this run supersedes: drafts too.
PublishedDisplaced == {a \in Published : artifact[a].moment \notin PlannedKeys(cut)} \* mutant
Displaced == {a \in Stored : artifact[a].moment \notin PlannedKeys(cut)}

\* The instant an artifact cites: the start of the moment it first named.
Source(a) == IF artifact[a].source = None THEN artifact[a].moment.start ELSE artifact[a].source
Holding(c, t) == {m \in Planned(c) : m.start <= t /\ t < m.end}
Replacement(a) == KeyOf(CHOOSE m \in Holding(cut, Source(a)) : TRUE)

StartMoments(c) ==
  /\ pc = "idle" /\ "moments" \in queue
  /\ pc' = "moments" /\ todo' = queue /\ cut' = c
  /\ UNCHANGED <<tables, publishRoot, seen, mine, request>>

\* The displaced rows are locked, after every approval that holds one.
LockDisplaced ==
  /\ pc = "moments"
  /\ Displaced \intersect LockedByApi = {}
  /\ mine' = Displaced
  /\ pc' = "remapping"
  /\ UNCHANGED <<tables, publishRoot, todo, cut, seen, request>>

CommitMoments ==
  /\ pc = "remapping"
  /\ \A a \in mine : \E m \in Planned(cut) : Holding(cut, Source(a)) = {m}
  /\ moments' = Planned(cut) \union Superseded(cut)
  /\ artifact' = [a \in Artifacts |->
       IF a \in mine THEN [artifact[a] EXCEPT !.moment = Replacement(a), !.source = Source(a)]
                     ELSE artifact[a]]
  /\ request' = Touched(mine)
  /\ mine' = {}
  /\ pc' = "committed"
  /\ UNCHANGED <<publishRoot, queue, todo, cut, seen>>

SettleMoments ==
  /\ pc = "committed"
  /\ queue' = queue \ {"moments"}
  /\ pc' = "between" /\ cut' = None
  /\ UNCHANGED <<moments, artifact, publishRoot, todo, seen, mine, request>>

-----------------------------------------------------------------------------
(* The `extract` stage: one transaction, several statements.               *)

StartExtract ==
  /\ \/ pc = "idle" /\ queue = {"extract"} /\ todo' = queue
     \/ pc = "between" /\ "extract" \in todo /\ UNCHANGED todo
  /\ pc' = "extract"
  /\ UNCHANGED <<tables, publishRoot, cut, seen, mine, request>>

ReadApproved ==
  /\ pc = "extract"
  /\ seen' = Approved
  /\ pc' = "deleting"
  /\ UNCHANGED <<tables, publishRoot, todo, cut, mine, request>>

\* Its own drafts, never a draft of a moment a human has acted on.
EveryDraft == Extracted                               \* mutant of the next
Replaced == {a \in Extracted : artifact[a].moment \notin Approved}

\* The DELETE waits for every approval that holds one of the rows.
DeleteDrafts ==
  /\ pc = "deleting"
  /\ Replaced \intersect LockedByApi = {}
  /\ mine' = Replaced
  /\ pc' = "proposing"
  /\ UNCHANGED <<tables, publishRoot, todo, cut, seen, request>>

\* Where an anchor lands: the greatest start at or before it, over all rows.
Lands(t) == {m \in moments : /\ m.start <= t
                             /\ \A n \in moments : n.start <= t => n.start <= m.start}
\* The moments some anchor of the reply may be inserted on.
Landing == {KeyOf(m) : m \in {n \in moments : /\ n.live /\ KeyOf(n) \notin seen
                                              /\ \E t \in Instants : n \in Lands(t) /\ t <= n.end}}

Proposal(key) == [state |-> "extracted", moment |-> key, source |-> None, by |-> None]

CommitExtract(anchored) ==
  /\ pc = "proposing"
  /\ artifact' = [a \in Artifacts |->
       IF a \in mine THEN [artifact[a] EXCEPT !.state = "gone"]
       ELSE IF a \in DOMAIN anchored THEN Proposal(anchored[a]) ELSE artifact[a]]
  /\ request' = Touched(mine)
  /\ queue' = queue \ {"extract"}
  /\ pc' = "idle" /\ todo' = {} /\ seen' = {} /\ mine' = {}
  /\ UNCHANGED <<moments, publishRoot, cut>>

\* No extract to run, or a stage fails, or the worker dies: roll back.
Leave ==
  /\ pc # "idle"
  /\ pc' = "idle" /\ todo' = {} /\ cut' = None /\ seen' = {} /\ mine' = {}
  /\ UNCHANGED <<tables, publishRoot, request>>

-----------------------------------------------------------------------------
(* POST /moments/{id}/approve: one transaction, files and git inside it.   *)

\* The snapshot: the moment, the gate, and the drafts it will ask to lock.
Open(r, key) ==
  /\ request[r].at = "ready"
  /\ Viewable
  /\ \E m \in moments : KeyOf(m) = key
  /\ \E a \in Extracted : artifact[a].moment = key
  /\ request' = [request EXCEPT ![r].at = "waiting",
                                ![r].pending = {a \in Extracted : artifact[a].moment = key}]
  /\ UNCHANGED <<tables, publishRoot, worker>>

Unchecked(r) == FALSE                                 \* mutant of the next
\* REPEATABLE READ: a row changed or deleted since the snapshot.
SerializationFailure(r) == request[r].pending \intersect request[r].stale # {}

Lock(r) ==
  /\ request[r].at = "waiting"
  /\ request[r].pending \intersect (mine \union LockedByApi) = {}
  /\ request' = [request EXCEPT ![r] = IF SerializationFailure(r) THEN Ended
                                        ELSE [@ EXCEPT !.at = "exporting", !.stale = {}]]
  /\ UNCHANGED <<tables, publishRoot, worker>>

\* The file, whatever was there before; an action item needs no more.
Export(r, a) ==
  /\ request[r].at = "exporting" /\ request[r].writing = None
  /\ a \in request[r].pending \ request[r].done
  /\ exported' = exported \union {a}
  /\ request' = IF a \in Adrs THEN [request EXCEPT ![r].writing = a]
                ELSE [request EXCEPT ![r].done = @ \union {a}]
  /\ UNCHANGED <<tables, committed, worker>>

\* The git commit of an ADR, under the repository lock.
CommitAdr(r) ==
  /\ request[r].at = "exporting" /\ request[r].writing # None
  /\ committed' = committed \union {request[r].writing}
  /\ request' = [request EXCEPT ![r].done = @ \union {request[r].writing}, ![r].writing = None]
  /\ UNCHANGED <<tables, exported, worker>>

\* A failed export or commit, a timeout, a lost connection, a dead api.
Abandon(r) ==
  /\ request[r].at \in {"waiting", "exporting"}
  /\ request' = [request EXCEPT ![r] = Ended]
  /\ UNCHANGED <<tables, publishRoot, worker>>

FilesWritten(r) == request[r].pending \subseteq exported   \* mutant of the next
AllDone(r) == request[r].done = request[r].pending

CommitApproval(r) ==
  /\ request[r].at = "exporting"
  /\ AllDone(r)
  /\ artifact' = [a \in Artifacts |->
       IF a \in request[r].pending THEN [artifact[a] EXCEPT !.state = "published", !.by = r]
                                   ELSE artifact[a]]
  /\ request' = [Touched(request[r].pending) EXCEPT ![r] = Ended]
  /\ UNCHANGED <<moments, queue, publishRoot, worker>>

-----------------------------------------------------------------------------
Anchorings(new) == [new -> Landing]

Next ==
  \/ \E which \in SUBSET {"moments", "extract"} : Rearm(which)
  \/ \E c \in Cuts : StartMoments(c)
  \/ LockDisplaced \/ CommitMoments \/ SettleMoments
  \/ StartExtract \/ ReadApproved \/ DeleteDrafts \/ Leave
  \/ \E new \in SUBSET Fresh :
       Cardinality(new) <= MaxProposals /\ \E anchored \in Anchorings(new) : CommitExtract(anchored)
  \/ \E r \in Requests :
       \/ \E key \in Keys : Open(r, key)
       \/ \E a \in Artifacts : Export(r, a)
       \/ Lock(r) \/ CommitAdr(r) \/ Abandon(r) \/ CommitApproval(r)

Spec == Init /\ [][Next]_vars
-----------------------------------------------------------------------------
(* Properties.                                                             *)

ArtifactRows == [state : {"none", "extracted", "published", "gone"},
                 moment : Keys \union {None}, source : Instants \union {None},
                 by : Requests \union {None}]
Transactions == [at : {"ready", "waiting", "exporting", "ended"},
                 pending : SUBSET Artifacts, stale : SUBSET Artifacts,
                 done : SUBSET Artifacts, writing : Artifacts \union {None}]

\* The shape of the tables, the publish root and the transactions.
TypeOK ==
  /\ moments \subseteq Rows
  /\ artifact \in [Artifacts -> ArtifactRows]
  /\ exported \subseteq Artifacts /\ committed \subseteq Artifacts
  /\ queue \subseteq {"moments", "extract"} /\ todo \subseteq {"moments", "extract"}
  /\ pc \in {"idle", "moments", "remapping", "committed", "between",
             "extract", "deleting", "proposing"}
  /\ cut \in Cuts \union {None}
  /\ seen \subseteq Keys /\ mine \subseteq Artifacts
  /\ request \in [Requests -> Transactions]

\* An artifact is marked published only when its file exists and, for an ADR,
\* the publish repository holds it: no failure leaves a row half-published.
PublishedIsExported == Published \subseteq exported /\ Published \intersect Adrs \subseteq committed

\* Every artifact, draft or published, cites a moment that is stored and live:
\* no augmentation supersedes or deletes a moment under a citation, whatever
\* approval was in flight.
CitationsAreLive == \A a \in Stored : artifact[a].moment \in Live

\* A draft beside approved judgment stays: `extract` deletes no draft of a
\* moment that carries a published artifact.
ApprovedMomentsKeepDrafts ==
  [][\A a \in Extracted : artifact[a].moment \in Approved => artifact'[a].state # "gone"]_vars

\* The one-way lifecycle, whatever stages and approvals run at once.
Lifecycle == INSTANCE ArtifactLifecycle WITH
  drafts <- Extracted,
  withdrawn <- {a \in Artifacts : artifact[a].state = "gone"},
  publisher <- [a \in Artifacts |-> artifact[a].by]
OneWayLifecycle == Lifecycle!Spec

\* What the two sides hold while they wait, export, remap and propose.
ArtifactShape ==
  \A a \in Artifacts :
    /\ artifact[a].state = "published" <=> artifact[a].by # None
    /\ a \in Stored => artifact[a].moment \in Keys
WorkerShape ==
  /\ pc \notin {"remapping", "proposing"} => mine = {}
  /\ pc \in {"moments", "remapping", "committed"} => cut \in Cuts
  /\ pc = "remapping" => mine = Displaced
  /\ pc = "proposing" => mine = Replaced
Waits(r) == request[r].pending \ request[r].stale \subseteq Extracted
Holds(r) ==
  /\ request[r].pending \subseteq Extracted \ mine
  /\ \A q \in Requests \ {r} : request[q].at = "exporting"
                                 => request[q].pending \intersect request[r].pending = {}
Exports(r) ==
  /\ request[r].done \subseteq exported
  /\ request[r].done \intersect Adrs \subseteq committed
  /\ request[r].writing # None => request[r].writing \in request[r].pending \intersect exported
RequestShape ==
  \A r \in Requests :
    /\ request[r].at = "waiting" => Waits(r) /\ request[r].done = {} /\ request[r].writing = None
    /\ request[r].at = "exporting" => Holds(r) /\ Exports(r)
    /\ request[r].at = "ready" => request[r].done = {} /\ request[r].writing = None

IInv ==
  /\ TypeOK /\ ArtifactShape /\ WorkerShape /\ RequestShape
  /\ PublishedIsExported /\ CitationsAreLive

\* What extract.py promises: it never proposes onto a moment that already
\* carries an approved or published artifact.
NeverProposesOntoApproved ==
  [][\A a \in Fresh : artifact'[a].state = "extracted" => artifact'[a].moment \notin Approved]_vars

\* What extract.py promises of keeping superseded moments in the lookup: an
\* anchor inside a live moment never fails to resolve.
LiveAnchorsResolve ==
  \A t \in Instants : (\E m \in moments : m.live /\ m.start <= t /\ t <= m.end)
                        => \E m \in Lands(t) : t <= m.end
=============================================================================
