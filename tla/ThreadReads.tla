----------------------------- MODULE ThreadReads -----------------------------
(***************************************************************************)
(* GET /threads/{id}/timeline and GET /threads/trace: several statements   *)
(* of one answer, read in one snapshot, while derivations move mentions    *)
(* between threads and the moments stage supersedes.  The trace is         *)
(* exhaustive when a subject was named, else a ranked sample re-sorted by  *)
(* time.                                                                   *)
(***************************************************************************)
EXTENDS Integers, Sequences, FiniteSets, FiniteSetsExt, Places

CONSTANTS ThreadIds, Moments, MeetingOf, StartMs,   \* moments and where they lie
          StartedAt, DayPrecision, Day,             \* when the meetings began, and how well that is known
          Ladder, TargetBuckets, MomentLimit,       \* band widths, their number, the fine levels' page
          PerMeeting, None,
          MaxWrites                                 \* bound: commits beside the reader

MeetingsOf == {MeetingOf[m] : m \in Moments}

VARIABLES mention,      \* Postgres: moment -> [thread, anchor], the one topic mentioned there
          superseded,   \* Postgres: the moments a later plan left behind
          index,        \* the search index: the moments it holds
          reader,       \* the request
          writes
vars == <<mention, superseded, index, reader, writes>>

Now == [mention |-> mention, superseded |-> superseded]
Idle == [at |-> "idle", thread |-> None, snapshot |-> [mention |-> <<>>, superseded |-> {}], window |-> <<0, 0>>,
         totals |-> 0, bands |-> <<>>, meetings |-> <<>>, fine |-> <<>>, truncated |-> FALSE,
         mode |-> "none", ranked |-> {}, stops |-> <<>>, quoted |-> {}, complete |-> FALSE]

\* A mention's anchor lies in its moment.
Init ==
  /\ mention \in [Moments -> [thread : ThreadIds \union {None}, anchor : 0..1]]
  /\ superseded = {} /\ index = Moments /\ reader = Idle /\ writes = 0

\* At day precision the stored time of day is dropped.
Truncated(m) == (StartedAt[m] \div Day) * Day
OccurredAt(m, offset) == (IF m \in DayPrecision THEN Truncated(m) ELSE StartedAt[m]) + offset
At(db, m) == OccurredAt(MeetingOf[m], StartMs[m] + db.mention[m].anchor)
EvidenceAt(m) == OccurredAt(MeetingOf[m], StartMs[m])
Of(db, t) == {m \in Moments : db.mention[m].thread = t}
Live(db) == Moments \ db.superseded

\* One order at every level: the instant, then the ids, which no two rows share.
Ahead(key, other) == \E i \in DOMAIN key : key[i] < other[i] /\ \A j \in 1..(i - 1) : key[j] = other[j]
InOrder(S, key) == Ranked(S, {p \in S \X S : Ahead(key[p[1]], key[p[2]])})

\* A statement reads what the transaction's first statement froze.
Committed == Now
Snapshot == reader.snapshot

-----------------------------------------------------------------------------
(* The timeline.                                                           *)

Open(t, kind) ==
  /\ reader.at = "idle"
  /\ reader' = [Idle EXCEPT !.at = kind, !.thread = t, !.snapshot = Now]
  /\ UNCHANGED <<mention, superseded, index, writes>>
OpenTimeline == \E t \in ThreadIds : Open(t, "span")
Reads(from, to, fields) ==
  /\ reader.at = from /\ reader' = [fields EXCEPT !.at = to]
  /\ UNCHANGED <<mention, superseded, index, writes>>

\* The caller's window, else the thread's span; a thread without mentions has none.
Instants == 0 .. Max({StartedAt[m] : m \in MeetingsOf}) + Max({StartMs[m] : m \in Moments}) + 1
Span(db, t) == {At(db, m) : m \in Of(db, t)}
ReadSpan ==
  /\ reader.at = "span"
  /\ LET span == Span(Snapshot, reader.thread)
         whole == IF span = {} THEN {} ELSE {<<Min(span), Max(span)>>}
         asked == {w \in Instants \X Instants : w[1] <= w[2] /\ w[2] <= w[1] + 2}
     IN \/ \E window \in whole \union asked : Reads("span", "totals", [reader EXCEPT !.window = window])
        \/ span = {} /\ Reads("span", "done", reader)

\* Every level selects by the mention's anchor, in a closed window.
In(db, window) == {m \in Of(db, reader.thread) : window[1] <= At(db, m) /\ At(db, m) <= window[2]}
ReadTotals ==
  Reads("totals", "level", [reader EXCEPT !.totals = Cardinality(In(Snapshot, reader.window))])

CeilDiv(a, b) == (a + b - 1) \div b
PlanBuckets(window) ==
  LET span == Max({1, window[2] - window[1]})
      fits == {s \in Ladder : CeilDiv(span, s) <= TargetBuckets}
      width == IF fits # {} THEN Min(fits) ELSE CeilDiv(span, TargetBuckets)
  IN [width |-> width, count |-> Max({1, CeilDiv(span, width)})]

\* Half-open buckets, the last closed on the window's end.
Unclamped(offset, plan) == offset \div plan.width   \* mutant of the next
BucketIndex(offset, plan) == Min({offset \div plan.width, plan.count - 1})
ReadBands ==
  LET window == reader.window
      plan == PlanBuckets(window)
      rows == In(Snapshot, window)
      band(i) == {m \in rows : BucketIndex(At(Snapshot, m) - window[1], plan) = i - 1}
  IN Reads("level", "done",
           [reader EXCEPT !.mode = "bands", !.bands = [i \in 1..plan.count |-> Cardinality(band(i))]])
ReadMeetings ==
  LET rows == In(Snapshot, reader.window)
      earliest(g) == Min({At(Snapshot, m) : m \in {n \in rows : MeetingOf[n] = g}})
      meetings == {MeetingOf[m] : m \in rows}
      listed == InOrder(meetings, [g \in meetings |-> <<earliest(g), g>>])
  IN Reads("level", "done", [reader EXCEPT !.mode = "meetings", !.meetings =
           [i \in DOMAIN listed |-> [meeting |-> listed[i],
              mentions |-> Cardinality({m \in rows : MeetingOf[m] = listed[i]})]]])

\* One row past the page says the window holds more.
ReadFine ==
  LET rows == In(Snapshot, reader.window) \cap Live(Snapshot)
      page == InOrder(rows, [m \in rows |-> <<EvidenceAt(m), MeetingOf[m], m>>])
  IN Reads("level", "done",
           [reader EXCEPT !.mode = "fine", !.fine = SubSeq(page, 1, Min({Len(page), MomentLimit})),
                          !.truncated = Len(page) > MomentLimit])

-----------------------------------------------------------------------------
(* The trace.                                                              *)

\* A thread id, or a wording exactly one subject answers to: its mentions, whole.
TraceSubject == \E t \in ThreadIds : Open(t, "stops")

\* Otherwise the index ranks, outside any transaction, and Postgres cites.
TraceWording ==
  /\ reader.at = "idle"
  /\ \E ranked \in SUBSET index : reader' = [Idle EXCEPT !.at = "ranked", !.ranked = ranked]
  /\ UNCHANGED <<mention, superseded, index, writes>>
OpenSample == Reads("ranked", "stops", [reader EXCEPT !.snapshot = Now])

Candidates(db) == (IF reader.thread # None THEN Of(db, reader.thread) ELSE reader.ranked) \cap Live(db)
When(db, m) == IF reader.thread # None THEN At(db, m) ELSE EvidenceAt(m)
FirstAt(db, g) == Min({When(db, m) : m \in {n \in Candidates(db) : MeetingOf[n] = g}})
ReadStops ==
  LET db == Snapshot
      meetings == {MeetingOf[m] : m \in Candidates(db)}
      stops == InOrder(meetings, [g \in meetings |-> <<FirstAt(db, g), g>>])
  IN Reads("stops", "quotes",
           [reader EXCEPT !.stops = [i \in DOMAIN stops |-> [meeting |-> stops[i], first |-> FirstAt(db, stops[i]),
              moments |-> Cardinality({m \in Candidates(db) : MeetingOf[m] = stops[i]})]]])

\* The quoting is capped inside each meeting, earliest first, never overall.
CappedOverall(db) ==   \* mutant of the next
  {m \in Candidates(db) : Cardinality({n \in Candidates(db) : EvidenceAt(n) < EvidenceAt(m)}) < PerMeeting}
Earlier(n, m) == MeetingOf[n] = MeetingOf[m] /\ Ahead(<<StartMs[n], n>>, <<StartMs[m], m>>)
Quoted(db) ==
  {m \in Candidates(db) : Cardinality({n \in Candidates(db) : Earlier(n, m)}) < PerMeeting}
Sum(counts) ==
  LET upTo[n \in 0..Len(counts)] == IF n = 0 THEN 0 ELSE upTo[n - 1] + counts[n]
  IN upTo[Len(counts)]
Assemble ==
  LET quoted == Quoted(Snapshot)
      total == Sum([i \in DOMAIN reader.stops |-> reader.stops[i].moments])
      mode == IF reader.thread # None THEN "exhaustive" ELSE "sample"
  IN Reads("quotes", "done",
           [reader EXCEPT !.mode = mode, !.quoted = quoted,
                          !.complete = (mode = "exhaustive" /\ Cardinality(quoted) >= total)])

Close == reader.at = "done" /\ reader' = Idle /\ UNCHANGED <<mention, superseded, index, writes>>

-----------------------------------------------------------------------------
(* What commits beside it.                                                 *)

Writes ==
  /\ writes < MaxWrites /\ writes' = writes + 1 /\ UNCHANGED reader
  /\ \E m \in Moments :
       \/ /\ \E t \in (ThreadIds \union {None}) \ {mention[m].thread} : mention' = [mention EXCEPT ![m].thread = t]
          /\ UNCHANGED <<superseded, index>>
       \/ superseded' = superseded \union {m} /\ m \notin superseded /\ UNCHANGED <<mention, index>>
       \/ index' = (index \ {m}) \union ({m} \ index) /\ UNCHANGED <<mention, superseded>>

Next ==
  \/ OpenTimeline \/ ReadSpan \/ ReadTotals \/ ReadBands \/ ReadMeetings \/ ReadFine
  \/ TraceSubject \/ TraceWording \/ OpenSample \/ ReadStops \/ Assemble \/ Close \/ Writes
Spec == Init /\ [][Next]_vars

-----------------------------------------------------------------------------
\* Zooming between levels shows one history: whatever commits between its
\* statements, an answer's bands and its meetings sum to the total above them, no
\* live moment of the window is missing from a page that does not say it was cut,
\* a trace keeps a quoted stop for every meeting it counts, in time order, quoting
\* at most the cap, and calls itself complete only when every live mention is quoted.
AnswerAddsUp ==
  reader.at = "done" =>
    /\ reader.mode = "bands" => Sum(reader.bands) = reader.totals
    /\ reader.mode = "meetings" =>
         Sum([i \in DOMAIN reader.meetings |-> reader.meetings[i].mentions]) = reader.totals
    /\ reader.mode = "fine" /\ ~reader.truncated =>
         Cardinality(In(reader.snapshot, reader.window) \cap reader.snapshot.superseded)
           + Len(reader.fine) = reader.totals
    /\ reader.mode \in {"exhaustive", "sample"} =>
         /\ \A i \in DOMAIN reader.stops :
              Cardinality({m \in reader.quoted : MeetingOf[m] = reader.stops[i].meeting}) =
                Min({PerMeeting, reader.stops[i].moments})
         /\ \A i, j \in DOMAIN reader.stops : i < j => reader.stops[i].first <= reader.stops[j].first
         /\ reader.complete =>
              reader.mode = "exhaustive" /\ Of(reader.snapshot, reader.thread) \ reader.snapshot.superseded = reader.quoted
=============================================================================
