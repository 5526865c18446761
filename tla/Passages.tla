------------------------------ MODULE Passages ------------------------------
(***************************************************************************)
(* The pure steps between Postgres, the stores and a reader: turns packed  *)
(* into chunks, a formatted hit split into highlighted runs, and a         *)
(* traversal's rows folded into the meetings of a thread.                  *)
(***************************************************************************)
EXTENDS Naturals, Sequences, FiniteSets, FiniteSetsExt, SequencesExt

-----------------------------------------------------------------------------
(* chunk_turns: a turn is its rendered length; a chunk is [from, to].      *)

\* A window takes turns while they fit, a newline between two; the first always fits.
Length(turns, from, to) == FoldLeft(LAMBDA n, t : n + t, 0, SubSeq(turns, from, to)) + (to - from)
WindowEnd(turns, from, maxChars) ==
  Max({from} \union {to \in from + 1 .. Len(turns) : \A k \in from + 1 .. to : Length(turns, from, k) <= maxChars})

\* The next starts that many turns before the end, but always further on.
NeverForced(from, to, overlap) == IF to + 1 > overlap THEN to + 1 - overlap ELSE from + 1
NextStart(from, to, overlap) == Max({from + 1, IF to + 1 > overlap THEN to + 1 - overlap ELSE 0})
ChunkTurns(turns, maxChars, overlap) ==
  LET pack[fuel \in 0..Len(turns)] ==
        IF fuel = 0 THEN IF turns = <<>> THEN <<>> ELSE <<[from |-> 1, to |-> WindowEnd(turns, 1, maxChars)]>>
        ELSE LET chunks == pack[fuel - 1]
                 last == chunks[Len(chunks)]
                 start == NextStart(last.from, last.to, overlap)
             IN IF chunks = <<>> \/ last.to >= Len(turns) THEN chunks
                ELSE Append(chunks, [from |-> start, to |-> WindowEnd(turns, start, maxChars)])
  IN pack[Len(turns)]

\* No turn is lost or split, no chunk but a single long turn is over the limit, no
\* two chunks share their first turn - its id is the chunk's - and none reaches
\* further back into the one before it than the overlap.
ChunksCover(turns, maxChars, overlap) ==
  LET chunks == ChunkTurns(turns, maxChars, overlap)
  IN /\ \A t \in DOMAIN turns : \E i \in DOMAIN chunks : chunks[i].from <= t /\ t <= chunks[i].to
     /\ \A i \in DOMAIN chunks :
          chunks[i].from = chunks[i].to \/ Length(turns, chunks[i].from, chunks[i].to) <= maxChars
     /\ \A i \in DOMAIN chunks : i > 1 => /\ chunks[i - 1].from < chunks[i].from
                                          /\ chunks[i - 1].to + 1 <= chunks[i].from + overlap

-----------------------------------------------------------------------------
(* parse_highlight_runs: "<" and ">" are the tags, anything else is text.  *)

Run(text, highlighted) == [text |-> text, highlighted |-> highlighted]
NextAt(s, i, c) == {j \in i + 1 .. Len(s) : s[j] = c}
Nearest(S, else) == IF S = {} THEN else ELSE Min(S)

\* An opener nothing closes, or that another opens before, was in the document.
ClosedOnly(s, i) == NextAt(s, i, ">") # {}   \* mutant of the next
IsTag(s, i) ==
  /\ NextAt(s, i, ">") # {}
  /\ Nearest(NextAt(s, i, ">"), 0) < Nearest(NextAt(s, i, "<"), Len(s) + 1)

Flushed(runs, plain) == IF plain = <<>> THEN runs ELSE Append(runs, Run(plain, FALSE))
ParseHighlightRuns(s) ==
  LET read(state, i) ==
        IF i < state.index THEN state
        ELSE IF s[i] = "<" /\ IsTag(s, i)
        THEN LET close == Min(NextAt(s, i, ">"))
                 runs == Flushed(state.runs, state.plain)
                 matched == SubSeq(s, i + 1, close - 1)
             IN [index |-> close + 1, plain |-> <<>>,
                 runs |-> IF matched = <<>> THEN runs ELSE Append(runs, Run(matched, TRUE))]
        ELSE [state EXCEPT !.index = i + 1, !.plain = Append(@, s[i])]
      end == FoldLeft(read, [index |-> 1, plain |-> <<>>, runs |-> <<>>], [i \in DOMAIN s |-> i])
  IN Flushed(end.runs, end.plain)

\* The attribute a match was found in, else the first with any text.
SnippetOf(values) ==
  LET runs == [i \in DOMAIN values |-> ParseHighlightRuns(values[i])]
      matched == {i \in DOMAIN runs : \E k \in DOMAIN runs[i] : runs[i][k].highlighted}
      some == {i \in DOMAIN runs : runs[i] # <<>>}
  IN IF matched # {} THEN runs[Min(matched)] ELSE IF some # {} THEN runs[Min(some)] ELSE <<>>

\* A highlight holds no opener, nothing but paired tags disappears from the text,
\* and a snippet is highlighted whenever any attribute was.
RunsKeepTheText(s, t) ==
  LET runs == ParseHighlightRuns(s)
      text == FlattenSeq([i \in DOMAIN runs |-> runs[i].text])
      tags(c) == Cardinality({i \in DOMAIN s : s[i] = c}) - Cardinality({i \in DOMAIN text : text[i] = c})
  IN /\ \A i \in DOMAIN runs : runs[i].text # <<>> /\ (runs[i].highlighted => ~Contains(runs[i].text, "<"))
     /\ SelectSeq(text, LAMBDA c : c \notin {"<", ">"}) = SelectSeq(s, LAMBDA c : c \notin {"<", ">"})
     /\ tags("<") = tags(">") /\ Len(text) + 2 * tags("<") = Len(s)
     /\ (\E i \in DOMAIN runs : runs[i].highlighted) =>
          \E i \in DOMAIN SnippetOf(<<t, s>>) : SnippetOf(<<t, s>>)[i].highlighted

-----------------------------------------------------------------------------
(* thread_timeline: the store's rows, in its order, one per mention.       *)

\* A row with no moment is the anchor's own; no row at all is an unknown thread.
Mentions(rows) == SelectSeq(rows, LAMBDA r : r.moment # 0)
Refuses(rows) == \E i \in DOMAIN Mentions(rows) : Mentions(rows)[i].end < Mentions(rows)[i].start
LastRowEnds(mentions) == mentions[Len(mentions)].end - mentions[1].start   \* mutant of the next
SpanMs(mentions) == Max({mentions[i].end : i \in DOMAIN mentions}) - Min({mentions[i].start : i \in DOMAIN mentions})
ThreadTimeline(rows) ==
  LET add(groups, r) ==
        LET known == {i \in DOMAIN groups : groups[i].meeting = r.meeting}
        IN IF known = {} THEN Append(groups, [meeting |-> r.meeting, mentions |-> <<r>>])
           ELSE LET g == CHOOSE i \in known : TRUE IN [groups EXCEPT ![g].mentions = Append(@, r)]
      groups == FoldLeft(add, <<>>, Mentions(rows))
  IN [known |-> rows # <<>>,
      meetings |-> [i \in DOMAIN groups |->
        [meeting |-> groups[i].meeting, mentions |-> groups[i].mentions, span |-> SpanMs(groups[i].mentions)]]]

\* Every mention once, in the store's order, under its meeting; a meeting's span
\* holds each of them, overlapping ones too.
TimelineKeepsRows(rows) ==
  ~Refuses(rows) =>
    LET timeline == ThreadTimeline(rows)
    IN /\ Len(FlattenSeq([i \in DOMAIN timeline.meetings |-> timeline.meetings[i].mentions])) = Len(Mentions(rows))
       /\ \A i \in DOMAIN timeline.meetings :
            LET m == timeline.meetings[i]
            IN /\ m.mentions = SelectSeq(Mentions(rows), LAMBDA r : r.meeting = m.meeting)
               /\ \A k \in DOMAIN m.mentions : m.mentions[k].end - m.mentions[1].start <= m.span
               /\ \A j \in DOMAIN timeline.meetings : j # i => timeline.meetings[j].meeting # m.meeting
=============================================================================
