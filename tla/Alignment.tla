----------------------------- MODULE Alignment -----------------------------
(***************************************************************************)
(* Reconciling a provided transcript with the lanes that time it: a turn   *)
(* is anchored to a segment of the recognizer's lane or to nothing, and    *)
(* takes its end from the caption cues, else its own, else the next turn.  *)
(* Texts are sets of words, times are numbers; a lane is a sequence of     *)
(* [start, end, words].                                                    *)
(***************************************************************************)
EXTENDS Integers, FiniteSets, FiniteSetsExt, Sequences, Places

CONSTANTS Window, MaxSegment,     \* anchor_window and max_segment, in the clock's unit
          MinShared, MinOf,       \* min_match_score as a fraction
          Unknown                 \* no end was recorded

\* What a lane is: moments of one clock; a turn is one of its own lane.
Lane(lane) ==
  /\ Len(lane) \in Nat /\ DOMAIN lane = 1..Len(lane)
  /\ \A i \in DOMAIN lane : lane[i].start \in Int /\ lane[i].end \in Int \union {Unknown}
Timed == Window \in Int /\ MaxSegment \in Int /\ Unknown \notin Int

\* The forward cursor is right on a lane in time order only, so it is sorted.
AsGiven(lane) == lane
Earlier(lane, k, l) == lane[k].start < lane[l].start \/ (lane[k].start = lane[l].start /\ k < l)
InTimeOrder(lane) ==
  LET order == Ranked(DOMAIN lane, {p \in (DOMAIN lane) \X (DOMAIN lane) : Earlier(lane, p[1], p[2])})
  IN [n \in DOMAIN lane |-> lane[order[n]]]

Shared(a, b) == Cardinality(a.words \intersect b.words)
Either(a, b) == Cardinality(a.words \union b.words)
\* jaccard, compared as fractions; two blank texts are not a match.
Scores(a, b) == Shared(a, b) > 0 /\ Shared(a, b) * MinOf >= MinShared * Either(a, b)
Gap(a, b) == IF a.start >= b.start THEN a.start - b.start ELSE b.start - a.start

\* Where the scan starts for each turn: it only ever moves forward.
Cursor(turns, lane) ==
  LET at[i \in 0..Len(turns)] ==
        IF i = 0 THEN 1
        ELSE Min({k \in at[i - 1]..(Len(lane) + 1) : k > Len(lane) \/ lane[k].start >= turns[i].start - Window})
  IN at

\* The better anchor: the score, then the smaller gap, then the earlier one.
Preferred(turn, lane, k, l) ==
  LET s(x) == Shared(turn, lane[x]) * Either(turn, lane[l])
      t(x) == Shared(turn, lane[x]) * Either(turn, lane[k])
  IN \/ s(k) > t(l)
     \/ s(k) = t(l) /\ (Gap(turn, lane[k]) < Gap(turn, lane[l]) \/ (Gap(turn, lane[k]) = Gap(turn, lane[l]) /\ k <= l))
BestOf(turn, lane, within) == {k \in within : \A l \in within : Preferred(turn, lane, k, l)}

\* align_segments: the anchor of each turn, the empty set when there is none.
AlignSegments(turns, given) ==
  LET lane == InTimeOrder(given)
      from == Cursor(turns, lane)
  IN [i \in 1..Len(turns) |->
        LET near == {k \in from[i]..Len(lane) : lane[k].start <= turns[i].start + Window /\ Scores(turns[i], lane[k])}
        IN {lane[k] : k \in BestOf(turns[i], lane, near)}]

\* A turn's cues start from a window before it up to where the next one starts.
UpTo(turns, i) == IF i < Len(turns) THEN turns[i + 1].start ELSE turns[i].start + MaxSegment
MergeVttEndTimings(turns, given) ==
  LET lane == InTimeOrder(given)
      from == Cursor(turns, lane)
  IN [i \in 1..Len(turns) |->
        LET ends == {lane[k].end : k \in {j \in from[i]..Len(lane) : /\ lane[j].start <= UpTo(turns, i) /\ lane[j].end # Unknown
                                                                    /\ Scores(turns[i], lane[j])}}
        IN IF ends = {} THEN Unknown ELSE Max(ends)]

\* A measured end is kept, a guessed one is capped at the next turn's start.
Capped(turns, i) == Max({turns[i].start, Min({turns[i].start + MaxSegment, UpTo(turns, i)})})
ResolveEndTimes(turns, measured) ==
  [i \in 1..Len(turns) |->
     IF measured[i] # Unknown THEN Max({measured[i], turns[i].start})
     ELSE IF turns[i].end # Unknown THEN Max({turns[i].end, turns[i].start})
     ELSE Capped(turns, i)]

-----------------------------------------------------------------------------
\* What a turn is anchored to is the best of everything in its own window,
\* and its end the latest of its own cues: neither depends on which turns came
\* before it or on the order the lane was written in, and a turn that is not
\* measured stops where the next one starts (alignment.py, the cursors).
Following(turns) == \A i, j \in DOMAIN turns : i < j => turns[i].start <= turns[j].start
WindowOf(turn, lane) == {k \in DOMAIN lane : Gap(turn, lane[k]) <= Window /\ Scores(turn, lane[k])}
CuesOf(turns, i, lane) == {lane[k].end : k \in {j \in DOMAIN lane : /\ lane[j].start >= turns[i].start - Window
                                                                   /\ lane[j].start <= UpTo(turns, i) /\ Scores(turns[i], lane[j])}} \ {Unknown}
AnchorsStand(turns, given) ==
  LET lane == InTimeOrder(given)
  IN \A i \in DOMAIN turns :
       AlignSegments(turns, given)[i] = {lane[k] : k \in BestOf(turns[i], lane, WindowOf(turns[i], lane))}
EndsStand(turns, given) ==
  LET measured == MergeVttEndTimings(turns, given)
      ends == ResolveEndTimes(turns, measured)
  IN \A i \in DOMAIN turns :
       /\ measured[i] = IF CuesOf(turns, i, given) = {} THEN Unknown ELSE Max(CuesOf(turns, i, given))
       /\ ends[i] >= turns[i].start
       /\ measured[i] = Unknown /\ turns[i].end = Unknown /\ i < Len(turns) => ends[i] <= Max({turns[i].start, turns[i + 1].start})
=============================================================================
