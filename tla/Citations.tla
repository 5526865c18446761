----------------------------- MODULE Citations -----------------------------
(***************************************************************************)
(* The citation gate of POST /chat: how a draft is cut into sentence       *)
(* units, and the one verdict a draft earns.                               *)
(*                                                                         *)
(* A draft is a sequence of tokens: a word, a space, what ends a sentence, *)
(* a line break, a well-formed marker (its payload: a moment, or something *)
(* that is no id), or the opening of a marker that is never closed.        *)
(***************************************************************************)
EXTENDS Naturals, Sequences, FiniteSets, SequencesExt, Places

CONSTANTS Moments, NoId

Marks == Moments \union {NoId}
Prose == {"word", "space", "stop", "line", "open"}

IsMarker(token) == token \in Marks
\* Python's `for m in finditer`: every payload, in order.
ParseMarkers(text) == Among(text, Marks)
StripMarkers(text) == SelectSeq(text, LAMBDA token : ~IsMarker(token))

Least(S) == CHOOSE x \in S : \A y \in S : x <= y
Greatest(S) == CHOOSE x \in S : \A y \in S : y <= x

\* After what ends a sentence, spaces followed by markers belong to it.
PulledOverLines(text, i) ==
  Greatest({i} \union {j + 1 : j \in {k \in i..Len(text) :
    IsMarker(text[k]) /\ \A l \in i..k : IsMarker(text[l]) \/ text[l] \in {"space", "line"}}})
PulledBack(text, i) ==
  Greatest({i} \union {j + 1 : j \in {k \in i..Len(text) :
    IsMarker(text[k]) /\ \A l \in i..k : IsMarker(text[l]) \/ text[l] = "space"}})

\* The first index past the unit that begins at `start`.
UnitEnd(text, start) ==
  LET ends == {k \in start..Len(text) : text[k] \in {"stop", "line"}} IN
  IF ends = {} THEN Len(text) + 1
  ELSE IF text[Least(ends)] = "line" THEN Least(ends) + 1
  ELSE PulledBack(text, Least(ends) + 1)
SplitClaims(text) ==
  LET units[start \in 1..(Len(text) + 1)] ==
        IF start > Len(text) THEN <<>>
        ELSE <<SubSeq(text, start, UnitEnd(text, start) - 1)>> \o units[UnitEnd(text, start)]
  IN units[1]

IsClaim(unit) == Contains(unit, "word")

Rejected(reason) == [verdict |-> reason, citations |-> <<>>]
\* The checks in their order; `rows` are the moments the second read returns.
Validate(draft, retrieved, rows) ==
  LET payloads == ParseMarkers(draft)
      cited == DistinctInOrder(payloads)
  IN IF Contains(draft, "open") THEN Rejected("unresolvable-marker")
     ELSE IF ~Contains(draft, "word") THEN Rejected("empty-answer")
     ELSE IF payloads = <<>> THEN Rejected("no-citations")
     ELSE IF \E i \in DOMAIN payloads : payloads[i] = NoId \/ payloads[i] \notin retrieved
          THEN Rejected("unresolvable-marker")
     ELSE IF \E i \in DOMAIN SplitClaims(draft) :
               IsClaim(SplitClaims(draft)[i]) /\ ParseMarkers(SplitClaims(draft)[i]) = <<>>
          THEN Rejected("uncited-claim")
     ELSE IF ~(ToSet(cited) \subseteq rows) THEN Rejected("unresolvable-marker")
     ELSE [verdict |-> "answered", citations |-> cited]

-----------------------------------------------------------------------------
(* What the gate is for, said without cutting the draft into units.        *)

\* Where one sentence is over: a line break, or the end of a run that begins with
\* a stop and goes on through spaces and markers for as long as a marker is left.
InTail(text, stop, k) ==
  /\ text[stop] = "stop" /\ stop <= k
  /\ \A l \in (stop + 1)..k : IsMarker(text[l]) \/ text[l] = "space"
  /\ k = stop \/ IsMarker(text[k])
Over(text, k) ==
  \/ text[k] = "line"
  \/ /\ \E stop \in 1..k : InTail(text, stop, k)
     /\ ~\E next \in (k + 1)..Len(text), stop \in 1..k :
           InTail(text, stop, k) /\ InTail(text, stop, next)
SameSentence(text, i, j) ==
  LET from == IF i <= j THEN i ELSE j
      to == IF i <= j THEN j ELSE i
  IN \A k \in from..(to - 1) : ~Over(text, k)

Citable(draft, retrieved, rows) ==
  /\ ~Contains(draft, "open") /\ Contains(draft, "word")
  /\ \A i \in DOMAIN draft : IsMarker(draft[i]) => draft[i] \in retrieved \intersect rows
  /\ \A i \in DOMAIN draft : draft[i] = "word" =>
       \E j \in DOMAIN draft : IsMarker(draft[j]) /\ SameSentence(draft, i, j)

\* The gate lets a draft through exactly when it should, with each moment it names
\* once, in the order they appear.
GateDecides(draft, retrieved, rows) ==
  LET answer == Validate(draft, retrieved, rows) IN
  /\ answer.verdict = "answered" <=> Citable(draft, retrieved, rows)
  /\ answer.verdict = "answered" =>
       /\ ToSet(answer.citations) = ToSet(ParseMarkers(draft))
       /\ IsInjective(answer.citations)
=============================================================================
