-------------------------------- MODULE Feed --------------------------------
(***************************************************************************)
(* The moments feed: what is stored about each moment scored by fixed      *)
(* weights, the reasons of every score validated, the moments left with    *)
(* none dropped, and only then filtered, counted and cut into pages.       *)
(* Scores are in quarters of a weight.                                     *)
(***************************************************************************)
EXTENDS Integers, Sequences, FiniteSetsExt, SequencesExt

CONSTANTS Weight(_),         \* what each kind of signal earns
          Decay(_),          \* quarters left after an age: 4 now, 2 one half-life ago
          Urgency(_),        \* quarters of a due date: 4 when it is past, 0 at the horizon
          Alphabetical(_),   \* the place of a label among the labels
          MaxSignalReasons,
          MaxThreadReasons,
          MaxLimit,
          None

ArtifactKinds == <<"adr", "decision", "action-item">>
REASON_KINDS == ArtifactKinds \o <<"due", "risk", "question", "recency", "published", "thread">>
KindOrder(kind) == CHOOSE i \in DOMAIN REASON_KINDS : REASON_KINDS[i] = kind

Term(score, kind, label, ref) == [score |-> score, kind |-> kind, label |-> label, ref |-> ref]
FirstOf(S, Before(_, _)) == CHOOSE x \in S : \A y \in S : x = y \/ Before(x, y)
Sorted(S, Before(_, _)) == SetToSortSeq(S, Before)

-----------------------------------------------------------------------------
(* score_candidate.  A title of "" is blank.                               *)

Titled(c, kind) == {i \in DOMAIN c.artifacts : c.artifacts[i].kind = kind /\ c.artifacts[i].title # ""}

\* Once per kind: two records are not twice as pressing as one.
ArtifactTerms(c) ==
  LET kinds == SelectSeq(ArtifactKinds, LAMBDA kind : kind # "action-item" /\ Titled(c, kind) # {})
  IN [n \in DOMAIN kinds |-> LET a == c.artifacts[Min(Titled(c, kinds[n]))]
                             IN Term(4 * Weight(a.kind), a.kind, a.title, a.id)]

\* The most urgent of the actions whose timing was stated; one with none earns nothing.
UrgencyOf(a) == IF a.due = None THEN 0 ELSE Urgency(a.due)
MoreUrgent(a, b) ==
  \/ UrgencyOf(a) > UrgencyOf(b)
  \/ /\ UrgencyOf(a) = UrgencyOf(b)
     /\ \/ a.due # None /\ b.due = None
        \/ a.due # None /\ b.due # None /\ a.due < b.due
        \/ a.due = b.due /\ a.id < b.id
Timed(actions) == {a \in actions : a.timed}
UrgentTerms(a) ==
  <<Term(4 * Weight("timing"), "action-item", a.title, a.id)>>
    \o IF a.due = None THEN <<>> ELSE <<Term(Weight("due") * UrgencyOf(a), "due", a.title, a.id)>>
UntimedTerms(a) == <<Term(0, "action-item", a.title, a.id)>>
TermsOf(actions) ==
  CASE Timed(actions) # {} -> UrgentTerms(FirstOf(Timed(actions), MoreUrgent))
    [] Timed(actions) = {} /\ actions # {} -> UntimedTerms(FirstOf(actions, LAMBDA a, b : a.id < b.id))
    [] OTHER -> <<>>
ActionTerms(c) == TermsOf({c.artifacts[i] : i \in Titled(c, "action-item")})

\* The first of a kind carries its weight; a few more are shown.
EarliestFirst(s, t) == s.anchor < t.anchor \/ (s.anchor = t.anchor /\ s.id < t.id)
FirstTerms(signals, kind) ==
  [n \in 1 .. Min({Len(signals), MaxSignalReasons}) |->
     Term(IF n = 1 THEN 4 * Weight(kind) ELSE 0, kind, signals[n].label, signals[n].id)]
SignalTerms(c, kind) == FirstTerms(Sorted({s \in Range(c.signals) : s.kind = kind}, EarliestFirst), kind)

\* Age still counts when it is no longer worth saying.
AgedTerm(kind, label, ref, age) ==
  IF age # None /\ Decay(age) >= 2 THEN <<Term(Weight(kind) * Decay(age), kind, label, ref)>> ELSE <<>>
AgedScore(kind, age) == IF age = None \/ Decay(age) >= 2 THEN 0 ELSE Weight(kind) * Decay(age)
Published(c) == {i \in DOMAIN c.artifacts : c.artifacts[i].published # None /\ c.artifacts[i].title # ""}
Newest(c) == c.artifacts[FirstOf(Published(c), LAMBDA i, j :
               \/ c.artifacts[i].published < c.artifacts[j].published
               \/ c.artifacts[i].published = c.artifacts[j].published /\ i < j)]
AgedArtifact(a) == AgedTerm("published", a.title, a.id, a.published)
PublishedTerm(c) == IF Published(c) = {} THEN <<>> ELSE AgedArtifact(Newest(c))
HiddenScore(c) ==
  AgedScore("recency", c.age) + IF Published(c) = {} THEN 0 ELSE AgedScore("published", Newest(c).published)

CardThreads(c) ==
  Sorted({t \in Range(c.threads) : t.name # ""}, LAMBDA t, u :
           \/ Alphabetical(t.name) < Alphabetical(u.name)
           \/ t.name = u.name /\ t.id < u.id)
FirstThreads(threads) ==
  [n \in 1 .. Min({Len(threads), MaxThreadReasons}) |->
     Term(IF n = 1 THEN 4 * Weight("thread") ELSE 0, "thread", threads[n].name, threads[n].id)]
ThreadTerms(c) == FirstThreads(CardThreads(c))

Terms(c) ==
  ArtifactTerms(c) \o ActionTerms(c) \o SignalTerms(c, "risk") \o SignalTerms(c, "question")
    \o AgedTerm("recency", "met", c.meeting, c.age) \o PublishedTerm(c) \o ThreadTerms(c)
Score(c) == HiddenScore(c) + FoldLeft(LAMBDA n, t : n + t.score, 0, Terms(c))
TermBefore(t, u, earlier) ==
  \/ t.score > u.score
  \/ /\ t.score = u.score
     /\ \/ KindOrder(t.kind) < KindOrder(u.kind)
        \/ /\ t.kind = u.kind
           /\ \/ Alphabetical(t.label) < Alphabetical(u.label)
              \/ t.label = u.label /\ earlier
Listed(terms, order) == [n \in DOMAIN order |-> terms[order[n]]]
InOrder(terms) == Listed(terms, Sorted(DOMAIN terms, LAMBDA i, j : TermBefore(terms[i], terms[j], i < j)))
Reasons(c) == InOrder(Terms(c))

-----------------------------------------------------------------------------
(* rank_and_validate, and the page.                                        *)

ValidateReasons(reasons) == SelectSeq(reasons, LAMBDA reason : reason.label # "")

Unvalidated(candidates) == SelectSeq(candidates, LAMBDA c : c.resolves)   \* mutant of the next
Survivors(candidates) ==
  SelectSeq(candidates, LAMBDA c : c.resolves /\ ValidateReasons(Reasons(c)) # <<>>)
ScoreAlone(c, d) == Score(c) > Score(d) \/ (Score(c) = Score(d) /\ c.age < d.age)   \* mutant of the next
Above(score, other, c, d) ==
  \/ score > other
  \/ /\ score = other
     /\ c.meeting < d.meeting \/ (c.meeting = d.meeting /\ c.id < d.id)
RankedBefore(c, d) == Above(Score(c), Score(d), c, d)
RankAndValidate(candidates) == SortSeq(Survivors(candidates), RankedBefore)

\* The thread asked for is any the moment belongs to; the kind, one of its reasons.
Wanted(c, meeting, thread, kind) ==
  /\ meeting \in {None, c.meeting}
  /\ thread = None \/ \E t \in Range(c.threads) : t.id = thread
  /\ kind = None \/ \E reason \in Range(ValidateReasons(Reasons(c))) : reason.kind = kind
PageOf(kept, ranked, limit, offset) ==
  LET from == Min({offset, Len(kept)})
  IN [items |-> SubSeq(kept, from + 1, Min({from + Min({limit, MaxLimit}), Len(kept)})), offset |-> from,
      total |-> Len(kept), corpusTotal |-> Len(ranked)]
Filtered(ranked, meeting, thread, kind, limit, offset) ==
  PageOf(SelectSeq(ranked, LAMBDA c : Wanted(c, meeting, thread, kind)), ranked, limit, offset)
MomentsFeed(candidates, meeting, thread, kind, limit, offset) ==
  Filtered(RankAndValidate(candidates), meeting, thread, kind, limit, offset)

-----------------------------------------------------------------------------
\* What a moment may be shown for, from the stored rows alone.
Shown(c) ==
  \/ \E i \in DOMAIN c.artifacts : c.artifacts[i].title # ""
  \/ \E kind \in {"risk", "question"} :
       LET first == SignalTerms(c, kind) IN \E n \in DOMAIN first : first[n].label # ""
  \/ (c.age # None /\ Decay(c.age) >= 2) \/ \E t \in Range(c.threads) : t.name # ""

\* Counted is served: over rows that do not change, following the pages from the
\* first meets every moment with something to say exactly once, each with a reason of
\* the kind asked for, best first, and as many as the total every page gives; and the
\* order of the rows read makes no difference.
Pages(candidates, kind, limit) ==
  FlattenSeq([n \in 1 .. Len(candidates) |->
                MomentsFeed(candidates, None, None, kind, limit, (n - 1) * limit).items])
ServesWhatItCounts(first, all, candidates, kind) ==
  /\ Len(all) = first.total /\ IsInjective(all)
  /\ first.corpusTotal = Cardinality({c \in Range(candidates) : c.resolves /\ Shown(c)})
  /\ \A i \in DOMAIN all :
       /\ ValidateReasons(Reasons(all[i])) # <<>>
       /\ kind # None => \E t \in Range(Terms(all[i])) : t.kind = kind /\ t.label # ""
  /\ \A i, j \in DOMAIN all : i < j => Score(all[i]) >= Score(all[j])
FeedServesWhatItCounts(candidates, kind, limit) ==
  /\ ServesWhatItCounts(MomentsFeed(candidates, None, None, kind, limit, 0), Pages(candidates, kind, limit), candidates, kind)
  /\ Pages(candidates, kind, limit) = Pages(Reverse(candidates), kind, limit)
=============================================================================
