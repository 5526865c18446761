------------------------------ MODULE Screens ------------------------------
(***************************************************************************)
(* What the screens stage makes of a recording's sampled frames: where a   *)
(* capture starts, which of its frames is stored, and the screen row it    *)
(* belongs to.                                                             *)
(*                                                                         *)
(* A frame is [at, look, blocks, words, tone, sparse, tall]: its offset,   *)
(* what the shared region shows, the boxes of text in it, the text, and    *)
(* the answers to the classifier's questions; tone is "camera" (dark and   *)
(* saturated), "slate" (dark and not) or "bright".                         *)
(***************************************************************************)
EXTENDS Integers, Sequences, FiniteSets, Places

CONSTANTS Change(_, _),       \* the share of the region in which two looks differ
          ChangeThreshold, SettledChangeThreshold, SettledChangeFrames,
          SettleThreshold, SettleTextGrowthRatio, SettleTimeout,
          GalleryMaxBlocks, SlideMaxBlocks,
          MinSignatureTokens,
          LineageShared, LineageOf    \* lineage_threshold as a fraction

Tokens(words) == {words[k] : k \in DOMAIN words}

\* What a text and a recording's frames are, and how the stage is set: no look
\* differs from itself, and any difference at all crosses a threshold of change.
Text(words) == Len(words) \in Nat /\ DOMAIN words = 1 .. Len(words)
Footage(frames) ==
  /\ Len(frames) \in Nat /\ DOMAIN frames = 1 .. Len(frames)
  /\ \A i \in DOMAIN frames :
       /\ frames[i].at \in Int /\ frames[i].blocks \in Nat /\ Text(frames[i].words)
       /\ Change(frames[i].look, frames[i].look) = 0
       /\ \A j \in DOMAIN frames : Change(frames[i].look, frames[j].look) \in Nat
Tuned ==
  /\ {ChangeThreshold, SettledChangeThreshold, SettledChangeFrames,
      SettleTextGrowthRatio, MinSignatureTokens} \subseteq Nat \ {0}
  /\ {SettleThreshold, GalleryMaxBlocks, LineageShared, LineageOf} \subseteq Nat

-----------------------------------------------------------------------------
(* segment_captures: a capture is [frames: positions, emitted: one of them *)
(* or 0 while the region moves, cues, late].                               *)

Moved(frames, i) == IF i = 1 THEN 0 ELSE Change(frames[i - 1].look, frames[i].look)
Quiet(frames, i) == Moved(frames, i) <= SettleThreshold

TextSettled(frames, i) ==
  \/ i = Len(frames)
  \/ frames[i + 1].blocks <= GalleryMaxBlocks
  \/ frames[i].blocks * SettleTextGrowthRatio >= frames[i + 1].blocks
\* Done moving, and done painting: the next frame does not outgrow its text.
HasSettled(frames, i) ==
  Quiet(frames, i) /\ TextSettled(frames, i)

\* The richest text, the earliest of equals.
Richer(frames, i, j) ==
  LET a == Cardinality(Tokens(frames[i].words))
      b == Cardinality(Tokens(frames[j].words))
  IN \/ a > b
     \/ a = b /\ (Len(frames[i].words) > Len(frames[j].words) \/ (Len(frames[i].words) = Len(frames[j].words) /\ i <= j))
ChooseRepresentative(frames, positions) ==
  CHOOSE i \in Tokens(positions) : \A j \in Tokens(positions) : Richer(frames, i, j)
ForceEmit(frames, capture) ==
  [capture EXCEPT !.emitted = ChooseRepresentative(frames, capture.frames), !.late = TRUE]

Opened(frames, i, cues) ==
  [frames |-> <<i>>, emitted |-> IF HasSettled(frames, i) THEN i ELSE 0, cues |-> cues, late |-> FALSE]
Current(captures) == captures[Len(captures)]
With(captures, capture) == [captures EXCEPT ![Len(captures)] = capture]
Joined(captures, i) == With(captures, [Current(captures) EXCEPT !.frames = Append(@, i)])

\* The recorder's title card: the only frame before the first cue, dark and grey.
IsSlate(frames, captures, cue) ==
  /\ cue = "region-change" /\ Len(captures) = 1
  /\ captures[1].frames = <<1>> /\ captures[1].emitted = 1 /\ frames[1].tone = "slate"
OpenCapture(frames, captures, i, cue) ==
  IF IsSlate(frames, captures, cue) THEN With(captures, Opened(frames, i, <<"first-frame", cue>>))
  ELSE Append(captures, Opened(frames, i, <<cue>>))

TimedOut(frames, capture, i) == frames[i].at - frames[capture.frames[1]].at >= SettleTimeout
Emitting(frames, capture, i) ==
  IF HasSettled(frames, i) THEN [capture EXCEPT !.emitted = i]
  ELSE IF TimedOut(frames, capture, i) THEN ForceEmit(frames, capture) ELSE capture
Settling(frames, joined, i) == With(joined, Emitting(frames, Current(joined), i))

\* What is run is [captures, sustained]: the quiet frames in a row, each as far from
\* the emitted shot as a change that stays.
Cued(frames, captures, i, change, sustained) ==
  LET cue == IF change >= ChangeThreshold THEN "region-change" ELSE "settled-change"
  IN IF change >= ChangeThreshold \/ sustained >= SettledChangeFrames
     THEN [captures |-> OpenCapture(frames, captures, i, cue), sustained |-> 0]
     ELSE [captures |-> Joined(captures, i), sustained |-> sustained]
Compared(frames, run, i, change) ==
  Cued(frames, run.captures, i, change,
       IF change >= SettledChangeThreshold /\ Quiet(frames, i) THEN run.sustained + 1 ELSE 0)
SinceEmitted(frames, run, i) == Change(frames[Current(run.captures).emitted].look, frames[i].look)
Segment(frames, run, i) ==
  IF run.captures = <<>> THEN [captures |-> <<Opened(frames, i, <<"first-frame">>)>>, sustained |-> run.sustained]
  ELSE IF Current(run.captures).emitted = 0
  THEN [captures |-> Settling(frames, Joined(run.captures, i), i), sustained |-> run.sustained]
  ELSE Compared(frames, run, i, SinceEmitted(frames, run, i))
Segmented(frames) ==
  LET upTo[i \in 0 .. Len(frames)] ==
        IF i = 0 THEN [captures |-> <<>>, sustained |-> 0] ELSE Segment(frames, upTo[i - 1], i)
  IN upTo
Emitted(frames, captures) ==
  [n \in DOMAIN captures |-> IF captures[n].emitted = 0 THEN ForceEmit(frames, captures[n]) ELSE captures[n]]
CapturesOf(frames) == Emitted(frames, Segmented(frames)[Len(frames)].captures)

Sooner(frames, k, l) == frames[k].at < frames[l].at \/ (frames[k].at = frames[l].at /\ k < l)
InOrder(frames) ==
  LET order == Ranked(DOMAIN frames, {p \in (DOMAIN frames) \X (DOMAIN frames) : Sooner(frames, p[1], p[2])})
  IN [n \in DOMAIN frames |-> frames[order[n]]]

ClassifyViewType(frame) ==
  IF frame.tone = "camera" \/ (frame.blocks <= GalleryMaxBlocks /\ frame.sparse) THEN "participant-gallery"
  ELSE IF frame.tall /\ frame.blocks <= SlideMaxBlocks THEN "slide" ELSE "ui-screen"

-----------------------------------------------------------------------------
(* The screen rows: [key, signature, view]; a row's id is its place.       *)

\* Too few words are no evidence: the key is the meeting's own.
Scant(words) == Cardinality(Tokens(words)) < MinSignatureTokens
\* MUTANT of IdentityKey: what has no words has one key in every meeting.
WordsAlone(words, meeting, ordinal) == [text |-> words]
IdentityKey(words, meeting, ordinal) ==
  IF Scant(words) THEN [meeting |-> meeting, ordinal |-> ordinal] ELSE [text |-> words]
IsScopedIdentity(key) == "meeting" \in DOMAIN key

\* The table as it may be: a key is of one row, and stands for the text it is of.
Table(rows) ==
  /\ Len(rows) \in Nat /\ DOMAIN rows = 1 .. Len(rows)
  /\ \A n \in DOMAIN rows :
       /\ rows[n] = [key |-> rows[n].key, signature |-> rows[n].signature, view |-> rows[n].view]
       /\ Text(rows[n].signature)
       /\ \/ rows[n].key = [text |-> rows[n].signature] /\ ~Scant(rows[n].signature)
          \/ IsScopedIdentity(rows[n].key)
       /\ \A k \in DOMAIN rows : rows[n].key = rows[k].key => n = k

Shared(words, row) == Cardinality(Tokens(words) \intersect Tokens(row.signature))
Either(words, row) == Cardinality(Tokens(words) \union Tokens(row.signature))
Alike(words, row) == Shared(words, row) * LineageOf >= LineageShared * Either(words, row)
Closer(words, rows, n, k) ==
  LET a == Shared(words, rows[n]) * Either(words, rows[k])
      b == Shared(words, rows[k]) * Either(words, rows[n])
  IN a > b \/ (a = b /\ n <= k)
\* The most alike of those alike enough, the lowest id of equals; 0 is none.
BestLineageMatch(words, rows, candidates) ==
  LET alike == {n \in candidates : Alike(words, rows[n])}
  IN IF alike = {} THEN 0 ELSE CHOOSE n \in alike : \A k \in alike : Closer(words, rows, n, k)

ByKey(rows, key) == {n \in DOMAIN rows : rows[n].key = key}
Match(rows, key, words) ==
  IF IsScopedIdentity(key) THEN 0
  ELSE BestLineageMatch(words, rows, {n \in DOMAIN rows : ~IsScopedIdentity(rows[n].key)})
\* What one run has is [rows, lineage: key -> row, took: each capture's row].
Resolve(s, row) ==
  LET known == CHOOSE n \in ByKey(s.rows, row.key) : TRUE
      match == Match(s.rows, row.key, row.signature)
      took(n) == Append(s.took, n)
  IN IF row.key \in DOMAIN s.lineage THEN [s EXCEPT !.took = took(s.lineage[row.key])]
     ELSE IF ByKey(s.rows, row.key) # {} THEN [s EXCEPT !.took = took(known), !.rows[known] = row]
     ELSE IF match # 0
     THEN [s EXCEPT !.took = took(match),
                    !.lineage = [k \in DOMAIN s.lineage \union {row.key} |-> IF k = row.key THEN match ELSE s.lineage[k]]]
     ELSE [s EXCEPT !.took = took(Len(s.rows) + 1), !.rows = Append(s.rows, row)]
\* The screens stage over one meeting: its captures, each with its row.
Shots(frames, captures) == [n \in DOMAIN captures |-> frames[captures[n].emitted]]
RowFor(shots, meeting, n) ==
  [key |-> IdentityKey(shots[n].words, meeting, n), signature |-> shots[n].words, view |-> ClassifyViewType(shots[n])]
Resolved(shots, meeting, rows) ==
  LET after[n \in 0 .. Len(shots)] ==
        IF n = 0 THEN [rows |-> rows, lineage |-> [k \in {} |-> 0], took |-> <<>>]
        ELSE Resolve(after[n - 1], RowFor(shots, meeting, n))
  IN after
RowsOf(shots, meeting, rows) == Resolved(shots, meeting, rows)[Len(shots)]
ShotsOf(given) == LET frames == InOrder(given) IN Shots(frames, CapturesOf(frames))

-----------------------------------------------------------------------------
\* A change is never dropped for being uncertain: every frame is in one capture, in
\* order, but for an opening title card; a shot is of its own capture and, unless it
\* is marked as late, was taken while nothing moved; and a view that stood still for
\* two frames more than a settled change takes is stored, give or take what such a
\* change is (segment_captures).
EndOf(capture) == capture.frames[Len(capture.frames)]
InTurn(captures, first, last) ==
  /\ \A n \in DOMAIN captures : LET own == captures[n].frames IN
       /\ own # <<>> /\ \A m \in DOMAIN own : own[m] = own[1] + m - 1
       /\ own[1] = IF n = 1 THEN first ELSE EndOf(captures[n - 1]) + 1
  /\ last = IF captures = <<>> THEN 0 ELSE EndOf(Current(captures))
Still(frames, i, j) == \A k \in i .. j : frames[k].look = frames[i].look /\ frames[k].blocks = frames[i].blocks
KeepTheView(frames, captures) ==
  /\ \/ InTurn(captures, 1, Len(frames))
     \/ InTurn(captures, 2, Len(frames)) /\ frames[1].tone = "slate" /\ Len(captures[1].cues) = 2
  /\ \A n \in DOMAIN captures :
       captures[n].emitted \in Tokens(captures[n].frames) /\ (captures[n].late \/ Quiet(frames, captures[n].emitted))
  /\ \A i \in DOMAIN frames : LET j == i + SettledChangeFrames + 1 IN
       j <= Len(frames) /\ Still(frames, i, j) =>
         \E n \in DOMAIN captures : Change(frames[captures[n].emitted].look, frames[i].look) < SettledChangeThreshold
CapturesKeepTheView(given) == KeepTheView(InOrder(given), CapturesOf(InOrder(given)))

\* A rerun over the same frames finds every screen: none is minted, no row but this
\* meeting's own is made to stand for another text, and captures of one text share a
\* row, those of none have one each (_ScreenUpserter).
FoundAgain(rows, meeting, first, again, shots) ==
  /\ Len(again.rows) = Len(first.rows)
  /\ \A n \in DOMAIN rows :
       /\ first.rows[n].key = rows[n].key
       /\ \/ IsScopedIdentity(rows[n].key) /\ rows[n].key.meeting = meeting
          \/ first.rows[n].signature = rows[n].signature
  /\ \A n, k \in DOMAIN shots :
       /\ shots[n].words = shots[k].words /\ ~Scant(shots[n].words) => again.took[n] = again.took[k]
       /\ Scant(shots[n].words) /\ n # k => again.took[n] # again.took[k]
RerunsFindTheirScreens(given, meeting, rows) ==
  LET shots == ShotsOf(given)
      first == RowsOf(shots, meeting, rows)
  IN FoundAgain(rows, meeting, first, RowsOf(shots, meeting, first.rows), shots)
=============================================================================
