----------------------------- MODULE SearchPage -----------------------------
(***************************************************************************)
(* GET /search, read page after page over one state of the index: the      *)
(* published artifacts first, then the moments, blended from a keyword and *)
(* a semantic lane; and beside them the extraction documents.  Postgres    *)
(* says what of a page still exists, and changes between the two reads.    *)
(***************************************************************************)
EXTENDS Naturals, Sequences, FiniteSets, FiniteSetsExt, SequencesExt, Places

CONSTANTS Artifacts, Moments, Documents,
          Keywords, Semantics,      \* rankings of the two lanes, above the floor or not
          Ratios,                   \* api.search.semantic_ratio, in tenths
          Limit, MaxPages,          \* bounds: the page, and how many are asked for
          MaxChanges

VARIABLES index,     \* the store: [artifacts, keyword, semantic, documents], missing ones included
          row,       \* Postgres: what still exists, and each document's version
          ratio,
          page,      \* the request
          shown,     \* what the pages so far have served, in order
          changes
vars == <<index, row, ratio, page, shown, changes>>

Hits == [id : Moments, strong : BOOLEAN]
Idle == [at |-> "idle", offset |-> 0, hybrid |-> FALSE, total |-> 0, artifacts |-> <<>>, documents |-> <<>>,
         moments |-> <<>>, served |-> <<>>, cited |-> {}, problem |-> "none"]
Init ==
  /\ \E keyword \in Keywords, semantic \in Semantics, ranked \in SUBSET Artifacts, labelled \in [Documents -> BOOLEAN] :
       index = [artifacts |-> SetToSeq(ranked), keyword |-> keyword, semantic |-> semantic,
                missing |-> keyword = <<>> /\ semantic = <<>>,
                documents |-> SetToSeq({[id |-> d, version |-> 1, labelled |-> labelled[d]] : d \in Documents})]
  /\ row = [live |-> Moments \union Artifacts, version |-> [d \in Documents |-> 1]]
  /\ ratio \in Ratios /\ page = Idle /\ shown = <<>> /\ changes = 0

-----------------------------------------------------------------------------
(* The two lanes.                                                          *)

\* The vector lane always has a nearest neighbour: what is weak is no match.
ApplySemanticFloor(hits) == SelectSeq(hits, LAMBDA h : h.strong)
Ids(hits) == [i \in DOMAIN hits |-> hits[i].id]
Slice(s, from, to) == SubSeq(s, from + 1, Min({to, Len(s)}))

\* Position by position the schedule prefers a lane; one that ran out yields to the other.
SemanticSlot(position, tenths) == ((position + 1) * tenths) \div 10 > (position * tenths) \div 10
MergeSearchLanes(keyword, semantic, tenths, count) ==
  LET own == Among(semantic, Moments \ ToSet(keyword))
      place(taken, position) ==
        LET k == taken.k < Len(keyword)
            s == taken.s < Len(own)
            fromSemantic == s /\ (SemanticSlot(position, tenths) \/ ~k)
        IN IF fromSemantic THEN [taken EXCEPT !.s = @ + 1, !.merged = Append(@, own[taken.s + 1])]
           ELSE IF k THEN [taken EXCEPT !.k = @ + 1, !.merged = Append(@, keyword[taken.k + 1])]
           ELSE taken
      upTo[n \in 0..count] ==
        IF n = 0 THEN [k |-> 0, s |-> 0, merged |-> <<>>] ELSE place(upTo[n - 1], n - 1)
  IN upTo[count].merged

\* Enough candidates of each lane for the page, blended, then cut.
SearchMoments(offset, limit, hybrid) ==
  LET count == offset + limit
      semantic == IF hybrid /\ ratio > 0 THEN ApplySemanticFloor(Slice(index.semantic, 0, count)) ELSE <<>>
  IN Slice(MergeSearchLanes(Slice(index.keyword, 0, count), Ids(semantic), IF hybrid THEN ratio ELSE 0, count),
           offset, count)

-----------------------------------------------------------------------------
(* One page.                                                               *)

Goes(at, fields) == page' = [fields EXCEPT !.at = at]
Refused(problem) == Goes("done", [page EXCEPT !.problem = problem])

\* An embedder that cannot be reached costs the semantic lane; one that answers
\* wrongly refuses the request.
Embed ==
  /\ page.at = "idle"
  /\ \/ ratio > 0 /\ Goes("artifacts", [page EXCEPT !.hybrid = TRUE])
     \/ Goes("artifacts", [page EXCEPT !.hybrid = FALSE])
     \/ ratio > 0 /\ Refused("embedder-unusable")
  /\ UNCHANGED <<index, row, ratio, shown, changes>>

\* The exhaustive total bounds the leading lane.
SearchArtifacts ==
  /\ page.at = "artifacts"
  /\ \/ Goes("documents", [page EXCEPT !.total = Len(index.artifacts),
                             !.artifacts = Slice(index.artifacts, page.offset, page.offset + Limit)])
     \/ Refused("search-store-unavailable")
  /\ UNCHANGED <<index, row, ratio, shown, changes>>

\* An unlabelled document refuses the whole answer.
SearchDocuments ==
  /\ page.at = "documents"
  /\ LET hits == Slice(index.documents, page.offset, page.offset + Limit)
     IN IF \E i \in DOMAIN hits : ~hits[i].labelled THEN Refused("search-store-unusable")
        ELSE Goes("moments", [page EXCEPT !.documents = hits])
  /\ UNCHANGED <<index, row, ratio, shown, changes>>

MomentOffset == IF page.offset > page.total THEN page.offset - page.total ELSE 0
ReadMoments ==
  /\ page.at = "moments"
  /\ Goes("resolve", [page EXCEPT !.moments =
            IF index.missing THEN <<>> ELSE SearchMoments(MomentOffset, Limit, page.hybrid)])
  /\ UNCHANGED <<index, row, ratio, shown, changes>>

Resolved(ids) == Among(ids, row.live)
ResolvedDocuments(hits) == {d \in Documents : \E i \in DOMAIN hits : hits[i].id = d /\ hits[i].version = row.version[d]}

ResolveArtifacts ==
  /\ page.at = "resolve"
  /\ Goes("resolve moments", [page EXCEPT !.served = Resolved(page.artifacts), !.cited = ResolvedDocuments(page.documents)])
  /\ UNCHANGED <<index, row, ratio, shown, changes>>

\* A stale artifact keeps its slot: a moment that took it would come again.
ReusesStaleSlots == Limit - Len(page.served)
MomentCapacity == Limit - Len(page.artifacts)
ResolveMoments ==
  /\ page.at = "resolve moments"
  /\ LET served == page.served \o SubSeq(Resolved(page.moments), 1, Min({MomentCapacity, Len(Resolved(page.moments))}))
     IN Goes("done", [page EXCEPT !.served = served]) /\ shown' = shown \o served
  /\ UNCHANGED <<index, row, ratio, changes>>

\* The caller turns the page; after a refusal it asks again, or it searches anew.
NextPage ==
  /\ page.at = "done"
  /\ \/ /\ page' = [Idle EXCEPT !.offset = IF page.problem = "none" THEN page.offset + Limit ELSE page.offset]
        /\ page'.offset < Limit * MaxPages /\ UNCHANGED shown
     \/ page' = Idle /\ shown' = <<>>
  /\ UNCHANGED <<index, row, ratio, changes>>

\* A moment superseded, an artifact's meeting deleted, a document generated again.
Changes ==
  /\ changes < MaxChanges /\ changes' = changes + 1
  /\ \/ \E id \in row.live : row' = [row EXCEPT !.live = @ \ {id}]
     \/ \E d \in Documents : row.version[d] < 2 /\ row' = [row EXCEPT !.version[d] = 2]
  /\ UNCHANGED <<index, ratio, page, shown>>

Next ==
  \/ Embed \/ SearchArtifacts \/ SearchDocuments \/ ReadMoments \/ ResolveArtifacts \/ ResolveMoments
  \/ NextPage \/ Changes
Spec == Init /\ [][Next]_vars

-----------------------------------------------------------------------------
Sequenced == Len(index.artifacts) + Len(index.keyword)
NoRepeat(s) == \A i, j \in DOMAIN s : s[i] = s[j] => i = j
PastTheEnd == page.at = "done" /\ page.problem = "none" /\ page.offset + Limit >= Sequenced
Reached(id) == Contains(shown, id)

\* One sequence, artifacts then moments, whatever artifact vanishes from Postgres
\* between two pages of a keyword search: nothing is served twice, and once the
\* pages have passed its end, nothing that still exists was skipped.  No page is
\* longer than asked for.  (A vanished moment breaks it too: see PagesTile.)
KeywordPagesTile ==
  (ratio = 0 /\ ~index.missing /\ Moments \subseteq row.live) =>
    /\ NoRepeat(shown) /\ Len(page.served) <= Limit
    /\ PastTheEnd => \A id \in row.live :
         Contains(index.artifacts, id) \/ Contains(index.keyword, id) => Reached(id)

\* "One stable combined sequence" of a blended search too: over an index that does
\* not change, no moment is on two pages (search_moments, merge_search_lanes).
PagesTile ==
  ~index.missing =>
    NoRepeat(FlattenSeq([n \in 1..MaxPages |-> SearchMoments(Limit * (n - 1), Limit, TRUE)]))
=============================================================================
