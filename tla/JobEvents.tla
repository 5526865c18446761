----------------------------- MODULE JobEvents -----------------------------
(***************************************************************************)
(* The live half of ingestion: GET /jobs/events reads the job rows on a    *)
(* clock and sends what changed; the meetings list seeds itself from       *)
(* GET /meetings and applies the events.                                   *)
(***************************************************************************)
EXTENDS Naturals, Sequences, FiniteSets, FiniteSetsExt, SequencesExt, Places

CONSTANTS Jobs, Stages,          \* Stages: the pipeline's order
          Evidence,              \* those whose settlement opens the meeting
          Errors, None,
          MaxReadFailures,
          MaxMoves, MaxBreaks    \* bounds: row changes, connections lost

\* A job row with its stages; the text of an error is never missing.
JobRows == [state : {"queued", "running", "failed", "done"}, own : Errors \union {None},
            status : [Range(Stages) -> {"queued", "failed", "done"}],
            error : [Range(Stages) -> Errors \union {None}]]
Staged ==
  /\ IsFiniteSet(Jobs) /\ Evidence \subseteq Range(Stages)
  /\ Stages \in Seq(Range(Stages)) /\ Stages # <<>>
  /\ None \notin Errors /\ None \notin Range(Stages) /\ None \notin JobRows

VARIABLES rows,      \* the database: each job, or none yet
          stream,    \* the server's side: [open, previous, watched, failures]
          wire,      \* frames on their way to the browser
          list,      \* the rows the browser shows, [jobs without a row are None]
          seed,      \* its GET /meetings: [flight, pending, read]
          connection,\* [live, ever]
          moves, breaks
vars == <<rows, stream, wire, list, seed, connection, moves, breaks>>

NoSnapshot == [j \in Jobs |-> None]
Closed == [open |-> FALSE, previous |-> NoSnapshot, watched |-> FALSE, failures |-> 0]
Init ==
  /\ rows = NoSnapshot /\ stream = Closed /\ wire = <<>>
  /\ list = None /\ seed = [flight |-> "asked", pending |-> FALSE, read |-> NoSnapshot]
  /\ connection = [live |-> FALSE, ever |-> FALSE] /\ moves = 0 /\ breaks = 0

-----------------------------------------------------------------------------
(* What one read knows of a job.                                           *)

EvidenceComplete(job) == \A s \in Evidence : job.status[s] = "done"
Settled(job) == job.state \in {"done", "failed"} \/ EvidenceComplete(job)
Failed(job) == {i \in DOMAIN Stages : job.status[Stages[i]] = "failed"}
HasFailure(job) == job.state = "failed" \/ Failed(job) # {}
Unsettled(job) == {i \in DOMAIN Stages : job.status[Stages[i]] # "done"}
CurrentStage(job) == IF Unsettled(job) = {} THEN Last(Stages) ELSE Stages[Min(Unsettled(job))]

Frame(event, j, job, stage, status, error) ==
  [event |-> event, job |-> j, state |-> job.state, viewable |-> EvidenceComplete(job),
   stage |-> stage, status |-> status, error |-> error]
StageEvent(j, job, s) == Frame("job.stage", j, job, s, job.status[s], job.error[s])
JobEvent(j, job) == StageEvent(j, job, CurrentStage(job))
ErrorEvent(j, job) ==
  IF Failed(job) = {} THEN Frame("job.error", j, job, None, None, job.own)
  ELSE LET s == Stages[Min(Failed(job))]
       IN Frame("job.error", j, job, s, "failed", IF job.error[s] # None THEN job.error[s] ELSE job.own)
DoneEvent(j, job) == Frame("job.done", j, job, None, None, None)
Either(condition, events) == IF condition THEN events ELSE <<>>

\* The row moves alone more often than it looks: on a claim, on a requeue.
StagesOnly(before, now) == FALSE
Differ(before, now) ==
  {i \in DOMAIN Stages : LET s == Stages[i] IN now.status[s] # before.status[s] \/ now.error[s] # before.error[s]}
RowMoved(before, now) == Differ(before, now) = {} /\ (now.state # before.state \/ now.own # before.own)
JobDiff(j, before, now) ==
  IF before = None
  THEN <<JobEvent(j, now)>> \o Either(HasFailure(now), <<ErrorEvent(j, now)>>)
         \o Either(EvidenceComplete(now), <<DoneEvent(j, now)>>)
  ELSE LET stageMoves == Picked(Stages, Differ(before, now))
       IN [n \in DOMAIN stageMoves |-> StageEvent(j, now, stageMoves[n])]
            \o Either(RowMoved(before, now), <<JobEvent(j, now)>>)
            \o Either(HasFailure(now) /\ ~HasFailure(before), <<ErrorEvent(j, now)>>)
            \o Either(EvidenceComplete(now) /\ ~EvidenceComplete(before), <<DoneEvent(j, now)>>)
DiffSnapshots(previous, current) ==
  LET order == SetToSeq({j \in Jobs : current[j] # None})
      events[n \in 0..Len(order)] ==
        IF n = 0 THEN <<>> ELSE events[n - 1] \o JobDiff(order[n], previous[order[n]], current[order[n]])
  IN events[Len(order)]

-----------------------------------------------------------------------------
(* The rows: intake, the worker and the operators, a commit at a time.     *)

Queued == [state |-> "queued", own |-> None, status |-> [s \in Range(Stages) |-> "queued"],
           error |-> [s \in Range(Stages) |-> None]]
Fails(job, e) == [job EXCEPT !.state = "failed", !.own = e]
Moves(job) ==
  LET next == CurrentStage(job)
  IN IF job.state = "queued" THEN {[job EXCEPT !.state = "running"]}
     ELSE IF job.state = "running" /\ Unsettled(job) # {} THEN
       {[job EXCEPT !.status[next] = "done"]} \union
       UNION {{Fails(job, e), [Fails(job, e) EXCEPT !.status[next] = "failed", !.error[next] = e]} : e \in Errors}
     ELSE IF job.state = "running" THEN {[job EXCEPT !.state = "done"]}
     ELSE IF job.state = "failed" THEN
       {[state |-> "queued", own |-> None, error |-> [s \in Range(Stages) |-> None],
         status |-> [s \in Range(Stages) |-> IF job.status[s] = "failed" THEN "queued" ELSE job.status[s]]]}
     ELSE {[job EXCEPT !.state = "queued",
              !.status = [s \in Range(Stages) |-> IF s \in Evidence THEN "queued" ELSE job.status[s]]]}
Move ==
  /\ moves < MaxMoves /\ moves' = moves + 1
  /\ \E j \in Jobs : \E job \in IF rows[j] = None THEN {Queued} ELSE Moves(rows[j]) :
       rows' = [rows EXCEPT ![j] = job]
  /\ UNCHANGED <<stream, wire, list, seed, connection, breaks>>

-----------------------------------------------------------------------------
(* The stream.                                                             *)

Comment(text) == [event |-> text]
Live(snapshot) == \E j \in Jobs : snapshot[j] # None /\ ~Settled(snapshot[j])
Send(frames) == wire' = wire \o frames

\* The opening read is a silent baseline.
Open ==
  /\ ~stream.open /\ wire = <<>>
  /\ stream' = [open |-> TRUE, previous |-> rows, watched |-> Live(rows), failures |-> 0]
  /\ Send(<<Comment("connected")>>)
  /\ UNCHANGED <<rows, list, seed, connection, moves, breaks>>

\* A tick whose read fails is skipped; too many in a row end the stream.
ReadFails ==
  /\ stream.open
  /\ IF stream.failures + 1 >= MaxReadFailures
     THEN stream' = Closed /\ Send(<<Comment("end")>>)
     ELSE stream' = [stream EXCEPT !.failures = @ + 1] /\ UNCHANGED wire
  /\ breaks < MaxBreaks /\ breaks' = breaks + 1
  /\ UNCHANGED <<rows, list, seed, connection, moves>>

\* What it watched has settled: the stream ends.  One that saw no job live stays open.
Tick ==
  /\ stream.open /\ (stream.previous # rows \/ stream.failures > 0)
  /\ LET events == DiffSnapshots(stream.previous, rows)
         ends == stream.watched /\ ~Live(rows)
     IN /\ Send(events \o Either(ends, <<Comment("end")>>))
        /\ stream' = IF ends THEN Closed
                     ELSE [open |-> TRUE, previous |-> rows, watched |-> stream.watched \/ Live(rows), failures |-> 0]
  /\ UNCHANGED <<rows, list, seed, connection, moves, breaks>>

Heartbeat ==
  /\ stream.open /\ wire = <<>> /\ list = None
  /\ Send(<<Comment("heartbeat")>>)
  /\ UNCHANGED <<rows, stream, list, seed, connection, moves, breaks>>

-----------------------------------------------------------------------------
(* The meetings list.                                                      *)

Row(job) == IF job = None THEN None
            ELSE [state |-> job.state, own |-> job.own, status |-> job.status, error |-> job.error,
                  viewable |-> EvidenceComplete(job)]
Listed(snapshot) == [j \in Jobs |-> Row(snapshot[j])]

\* An event that names a stage carries its whole reading; the job's own error
\* arrives only on a job.error that names none.
Applied(shown, event) ==
  LET row == shown[event.job]
      moved == IF event.stage = None THEN row
               ELSE [row EXCEPT !.status[event.stage] = event.status, !.error[event.stage] = event.error]
  IN [shown EXCEPT ![event.job] = [moved EXCEPT !.state = event.state, !.viewable = event.viewable,
        !.own = IF event.state # "failed" THEN None
                ELSE IF event.event = "job.error" /\ event.stage = None /\ event.error # None THEN event.error ELSE @]]

\* At most one GET is in flight; a request meanwhile is remembered once.
Asked(s) == IF s.flight = "idle" THEN [s EXCEPT !.flight = "asked"] ELSE [s EXCEPT !.pending = TRUE]

\* Any frame proves the connection; after a break the list asks again.
MarkLive(s) ==
  LET alive == IF list = None /\ s.flight = "idle" THEN Asked(s) ELSE s
  IN IF ~connection.live /\ connection.ever THEN Asked(alive) ELSE alive
Deliver ==
  /\ wire # <<>> /\ wire' = Tail(wire)
  /\ LET frame == Head(wire)
         marked == MarkLive(seed)
     IN IF frame.event = "end"
        THEN connection' = [connection EXCEPT !.live = FALSE] /\ UNCHANGED <<list, seed>>
        ELSE /\ connection' = [live |-> TRUE, ever |-> TRUE]
             /\ IF frame.event \in {"connected", "heartbeat"} THEN seed' = marked /\ UNCHANGED list
                ELSE IF list = None \/ (list # None /\ list[frame.job] = None) THEN seed' = Asked(marked) /\ UNCHANGED list
                ELSE /\ list' = Applied(list, frame)
                     /\ seed' = IF frame.event = "job.done" THEN Asked(marked) ELSE marked
  /\ UNCHANGED <<rows, stream, moves, breaks>>

ReadMeetings ==
  /\ seed.flight = "asked"
  /\ seed' = [seed EXCEPT !.flight = "answered", !.read = rows]
  /\ UNCHANGED <<rows, stream, wire, list, connection, moves, breaks>>

\* The answer replaces the list; a failed or timed-out one leaves it standing.
Landed == [flight |-> IF seed.pending THEN "asked" ELSE "idle", pending |-> FALSE, read |-> NoSnapshot]
SeedArrives ==
  /\ seed.flight = "answered" /\ list' = Listed(seed.read) /\ seed' = Landed
  /\ UNCHANGED <<rows, stream, wire, connection, moves, breaks>>
SeedFails ==
  /\ seed.flight # "idle" /\ breaks < MaxBreaks /\ breaks' = breaks + 1 /\ seed' = Landed
  /\ UNCHANGED <<rows, stream, wire, list, connection, moves>>

\* The connection drops: the frames on it are gone, and the generator is cancelled.
Breaks ==
  /\ stream.open /\ breaks < MaxBreaks /\ breaks' = breaks + 1
  /\ stream' = Closed /\ wire' = <<>> /\ connection' = [connection EXCEPT !.live = FALSE]
  /\ UNCHANGED <<rows, list, seed, moves>>

Next ==
  \/ Move \/ Open \/ ReadFails \/ Tick \/ Heartbeat
  \/ Deliver \/ ReadMeetings \/ SeedArrives \/ SeedFails \/ Breaks
Spec == Init /\ [][Next]_vars

-----------------------------------------------------------------------------
\* Whatever happened to a job since the last read, however many commits, the tick's
\* events turn the rows of that read into the rows of this one: status, stages,
\* their errors and whether the meeting opens - and the job's own error, unless it
\* failed again, with no stage to blame, before anyone read that it was requeued.
FailedUnseen(j) ==
  rows[j].state = "failed" /\ stream.previous[j].state = "failed" /\ rows[j].own # stream.previous[j].own
EventsCarryTheDifference ==
  LET known == {j \in Jobs : stream.previous[j] # None}
      events == DiffSnapshots(stream.previous, rows)
      told[n \in 0..Len(events)] ==
        IF n = 0 THEN Listed(stream.previous)
        ELSE IF events[n].job \in known THEN Applied(told[n - 1], events[n]) ELSE told[n - 1]
  IN stream.open => \A j \in known :
       LET was == told[Len(events)][j]
           is == Row(rows[j])
       IN [was EXCEPT !.own = None] = [is EXCEPT !.own = None]
          /\ (was.own = is.own \/ FailedUnseen(j) \/ Failed(rows[j]) # {})

\* "The list seeds itself on mount, and the stream's own baseline is taken at that
\* same moment": once the stream has read the rows as they are, everything it sent
\* was delivered and no answer is awaited, the list shows those rows.
Quiet == stream.open /\ stream.previous = rows /\ wire = <<>> /\ connection.live /\ seed.flight = "idle" /\ list # None
QuietListAgrees == Quiet => \A j \in Jobs :
  LET is == Row(rows[j])
  IN /\ (list[j] = None) <=> (is = None)
     /\ is # None => list[j].state = is.state /\ list[j].viewable = is.viewable
=============================================================================
