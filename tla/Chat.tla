-------------------------------- MODULE Chat --------------------------------
(***************************************************************************)
(* POST /chat: classify the question, retrieve along four legs, prompt,    *)
(* synthesize, and put the draft through the citation gate, while the      *)
(* worker supersedes, an operator deletes and a user withdraws what was    *)
(* retrieved.  Every read of Postgres is a step of its own: minutes of     *)
(* model latency pass between them.                                        *)
(***************************************************************************)
EXTENDS Citations, ModelSelection

CONSTANTS Artifacts, SourceOf,      \* the moment each artifact was drawn from
          MeetingOf,                \* the meeting of each moment
          Drafts,                   \* what the model may write
          Capacity, TraversalLimit, \* api.chat's limits, in blocks and rows
          MaxChanges                \* bound: changes to the database

Meetings == {MeetingOf[m] : m \in Moments}

VARIABLES moment,      \* Postgres: each moment live, superseded or gone
          published,   \* Postgres: the artifacts whose state is published
          documented,  \* Postgres: the meetings with a document's text
          req,         \* the request
          changes
vars == <<catalog, stored, moment, published, documented, req, changes>>
database == <<catalog, stored, moment, published, documented, changes>>

Live == {m \in Moments : moment[m] = "live"}

NoRequest == [at |-> "idle", binding |-> Default, engaged |-> FALSE, unserved |-> {}, by |-> <<>>,
              template |-> "none", search |-> <<>>, ranked |-> <<>>, arts |-> <<>>, docHits |-> {},
              docs |-> {}, rows |-> <<>>, traversal |-> "not-dispatched", prompt |-> <<>>,
              answer |-> Rejected("none")]
Init ==
  /\ SelectionInit
  /\ moment \in [Moments -> {"live", "superseded"}]
  /\ published \in SUBSET Artifacts /\ documented \in SUBSET Meetings
  /\ req = NoRequest /\ changes = 0

Ends(verdict) == [req EXCEPT !.at = "ended", !.answer = Rejected(verdict)]
Step(at, fields) == req' = [fields EXCEPT !.at = at]

-----------------------------------------------------------------------------
(* The router: a reply becomes a registered dispatch or search only.       *)

Registered == {"screen-history", "participant-topic-moments", "thread-timeline"}
Deferred == {"thread-timeline"}
Declared(template) == IF template = "screen-history" THEN {"screen"} ELSE {"participant", "topic"}
Replies ==
  [kind : {"prose", "array"}, template : {"none"}, anchors : {{}}] \union
  [kind : {"object"}, template : Registered \union {"none", "unheard-of"},
   anchors : {{}, {"screen"}, {"participant"}, {"participant", "topic"}}]
ParseRoute(reply) ==
  CASE reply.kind # "object" \/ reply.template = "none" -> "none"
    [] reply.template \notin Registered \/ reply.template \in Deferred -> "none"
    [] ~(Declared(reply.template) \subseteq reply.anchors) -> "none"
    [] OTHER -> reply.template

\* A name matches exactly or in part, and at most two rows are read, the exact
\* ones first: two that match equally well are no answer.
Matches == {<<>>, <<"exact">>, <<"part">>, <<"exact", "exact">>, <<"exact", "part">>, <<"part", "part">>}
Resolved(rows) == rows # <<>> /\ (Len(rows) = 1 \/ rows[1] # rows[2])

-----------------------------------------------------------------------------
(* The request.                                                            *)

\* One model call with the request's completer: the binding, the fallback, or the
\* problem the caller is told of.
Called(primary, fallback) ==
  LET call == Complete(req.binding, req.engaged, primary, fallback)
      now == [req EXCEPT !.engaged = call.engaged,
                !.unserved = @ \union IF ~req.engaged /\ primary = "not-served" THEN {req.binding} ELSE {},
                !.by = IF call.answered THEN Append(@, call.by) ELSE @]
  IN IF call.answered THEN now ELSE [now EXCEPT !.at = "ended", !.answer = Rejected(call.problem)]
Calls(Then(_)) ==
  \E primary, fallback \in Outcomes :
    LET now == Called(primary, fallback)
    IN IF now.at = "ended" THEN req' = now ELSE Then(now)

\* Nothing is asked of a model while no moment could be cited; the binding is the
\* one in force now, read on the same connection.
Ask ==
  /\ req.at = "idle"
  /\ req' = IF Live = {} THEN Ends("no-evidence")
            ELSE [req EXCEPT !.at = "classify", !.binding = Resolve(stored).binding]
  /\ UNCHANGED database

Classify ==
  /\ req.at = "classify"
  /\ \E reply \in Replies :
       Calls(LAMBDA now : Step("search", [now EXCEPT !.template = ParseRoute(reply)]))
  /\ UNCHANGED database

\* A store that is down or answers wrongly is a problem; so is an embedder that
\* answers wrongly, while one that is down leaves the keywords.
Rankings(S) == {s \in BoundedSeq(S, 2) : IsInjective(s)}
SearchLeg ==
  /\ req.at = "search"
  /\ \/ \E hits \in Rankings(Moments) : Step("rank", [req EXCEPT !.search = hits])
     \/ req' \in {Ends("embedder-unusable"), Ends("chat-search-store-unavailable"),
                  Ends("chat-search-store-unusable")}
  /\ UNCHANGED database

\* The indexes may hold what Postgres no longer does.
ArtifactLeg ==
  /\ req.at = "rank"
  /\ \E ranked \in Rankings(Artifacts) : Step("artifacts", [req EXCEPT !.ranked = ranked])
     \/ req' = Ends("chat-search-store-unavailable")
  /\ UNCHANGED database
ReadArtifacts ==
  /\ req.at = "artifacts"
  /\ LET kept == Among(req.ranked, published)
     IN Step("document", [req EXCEPT !.arts = [i \in DOMAIN kept |-> SourceOf[kept[i]]], !.ranked = <<>>])
  /\ UNCHANGED database
DocumentLeg ==
  /\ req.at = "document"
  /\ \E hits \in SUBSET Meetings : Step("documents", [req EXCEPT !.docHits = hits])
     \/ req' = Ends("chat-search-store-unavailable")
  /\ UNCHANGED database
ReadDocuments ==
  /\ req.at = "documents"
  /\ Step("traverse", [req EXCEPT !.docs = req.docHits \intersect documented, !.docHits = {}])
  /\ UNCHANGED database

\* Every way the traversal comes back without rows has its own name; of many rows
\* the last are kept.
LastOf(s, n) == SubSeq(s, (IF Len(s) > n THEN Len(s) - n ELSE 0) + 1, Len(s))
Context(outcome, rows) ==
  Step("context", [req EXCEPT !.template = "none", !.traversal = outcome, !.rows = rows])
TraversalLeg ==
  /\ req.at = "traverse"
  /\ IF req.template = "none" THEN Context("not-dispatched", <<>>)
     ELSE \/ \E matches \in Matches :
               IF ~Resolved(matches)
               THEN Context("anchor-unknown", <<>>)
               ELSE \/ Context("anchor-unknown", <<>>)
                    \/ Context("input-refused", <<>>)
                    \/ \E rows \in Rankings(Moments) :
                         Context("resolved", LastOf(rows, TraversalLimit))
                    \/ req' = Ends("chat-graph-store-unavailable")
  /\ UNCHANGED database

\* Traversal rows, then search hits, then the sources of artifacts: each once.
Ordered == DistinctInOrder(req.rows \o req.search \o req.arts)

\* The prompt.  A moment's block costs one, two with its artifacts, and a meeting's
\* documents one more, once.  Sources of artifacts are given room first; what is
\* given room keeps its place in the order.
BlockCost(m) == IF Contains(req.arts, m) THEN 2 ELSE 1
Admit(acc, m) ==
  LET doc == IF MeetingOf[m] \in req.docs \ acc.docs THEN 1 ELSE 0 IN
  IF acc.in # {} /\ acc.used + BlockCost(m) + doc > Capacity THEN acc
  ELSE [in |-> acc.in \union {m}, used |-> acc.used + BlockCost(m) + doc,
        docs |-> acc.docs \union IF doc = 1 THEN {MeetingOf[m]} ELSE {}]
Admitted(order) ==
  LET upTo[n \in 0..Len(order)] ==
        IF n = 0 THEN [in |-> {}, used |-> 0, docs |-> {}] ELSE Admit(upTo[n - 1], order[n])
  IN upTo[Len(order)].in
Prompted(retrieved) ==
  LET priority == Among(req.arts, ToSet(retrieved))
  IN Among(retrieved, Admitted(DistinctInOrder(priority \o retrieved)))

\* Every candidate is read again: one that is gone or superseded is dropped.
ReadContext ==
  /\ req.at = "context"
  /\ LET retrieved == Among(Ordered, Live) IN
     req' = IF retrieved = <<>> THEN Ends("no-evidence")
            ELSE [NoRequest EXCEPT !.at = "synthesize", !.binding = req.binding, !.by = req.by,
                    !.engaged = req.engaged, !.prompt = Prompted(retrieved)]
  /\ UNCHANGED database

Synthesize ==
  /\ req.at = "synthesize"
  /\ \E draft \in Drafts :
       Calls(LAMBDA now : Step("validate", [now EXCEPT !.answer = [verdict |-> "draft", citations |-> draft]]))
  /\ UNCHANGED database

\* The gate reads the cited moments again, from the same request's database.
ReadEarlier == ToSet(req.prompt)
CitedRows == Live
ValidateDraft ==
  /\ req.at = "validate"
  /\ Step("ended", [req EXCEPT !.answer = Validate(req.answer.citations, ToSet(req.prompt), CitedRows)])
  /\ UNCHANGED database

\* The answer, or the refusal, goes out whole: as JSON or replayed as a stream.
Respond == req.at = "ended" /\ req' = NoRequest /\ UNCHANGED database

-----------------------------------------------------------------------------
(* The others.                                                             *)

Changed == changes < MaxChanges /\ changes' = changes + 1
SupersedeMoment ==
  /\ Changed /\ \E m \in Live : moment' = [moment EXCEPT ![m] = "superseded"]
  /\ UNCHANGED <<selectionVars, published, documented, req>>
\* A pruned meeting takes its moments, artifacts and documents with it.
PruneMeeting ==
  /\ Changed
  /\ \E g \in Meetings :
       /\ moment' = [m \in Moments |-> IF MeetingOf[m] = g THEN "gone" ELSE moment[m]]
       /\ published' = {a \in published : MeetingOf[SourceOf[a]] # g}
       /\ documented' = documented \ {g}
  /\ UNCHANGED <<selectionVars, req>>
Select ==
  /\ Changed /\ SelectRoleBinding
  /\ UNCHANGED <<moment, published, documented, req>>
Restart ==
  /\ Changed /\ EditConfig /\ req' = NoRequest
  /\ UNCHANGED <<moment, published, documented>>

Next ==
  \/ Ask \/ Classify \/ SearchLeg \/ ArtifactLeg \/ ReadArtifacts \/ DocumentLeg \/ ReadDocuments
  \/ TraversalLeg \/ ReadContext \/ Synthesize \/ ValidateDraft \/ Respond
  \/ SupersedeMoment \/ PruneMeeting \/ Select \/ Restart
Spec == Init /\ [][Next]_vars

-----------------------------------------------------------------------------
(* Properties.                                                             *)

Answering == req.at = "validate" /\ req'.at = "ended" /\ req'.answer.verdict = "answered"
\* What is answered stands on evidence: as it goes out, each moment it names is
\* live and was in the prompt the model read, whatever was superseded or pruned
\* since it was retrieved; and the prompt held
\* no more than its capacity, but for a first block (_answer, citations.py).
AnswerStands ==
  Answering =>
    LET cited == ToSet(req'.answer.citations) IN
    /\ cited # {} /\ cited \subseteq Live
    /\ cited \subseteq ToSet(req.prompt)
    /\ Len(req.prompt) <= 1 \/ Len(req.prompt) <= Capacity
AnswersStandOnEvidence == [][AnswerStands]_vars

\* Whoever answered is the binding in force when the question was asked, or its
\* declared fallback for the rest of the request; nobody answers for a binding its
\* own host does not serve; and that binding is one the file offers
\* (model_selection.py, FallbackLlm).
AnsweredByTheBoundModel ==
  /\ \A i \in DOMAIN req.by :
       /\ req.by[i] = req.binding \/ (req.engaged /\ req.by[i] = Fallback)
       /\ req.by[i] = Fallback /\ Fallback # req.binding =>
            \A j \in i..Len(req.by) : req.by[j] = Fallback
  /\ req.unserved # {} => req.at = "ended" /\ req.answer.verdict = "binding-failed"
  /\ req.binding \in catalog
=============================================================================
