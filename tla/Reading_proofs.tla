---------------------------- MODULE Reading_proofs ----------------------------
(***************************************************************************)
(* What is proved of the answers readers get: what a status may claim, who *)
(* answers a question and from what, which drafts pass the gate, what the  *)
(* pages of a search serve, that a timeline and a trace add up, and that    *)
(* the events of a tick tell the difference.                               *)
(***************************************************************************)
EXTENDS Reading, SequenceTheorems, FiniteSetTheorems, WellFoundedInduction, TLAPS

-----------------------------------------------------------------------------
(* The status: what a reply rests on was read, in this order, by it alone.  *)

WaitingFields == {"at", "postgres", "rows", "binding", "source", "stale", "role", "worker"}
ReplyShape(reply) == DOMAIN reply = WaitingFields
\* The binding a role row speaks of is the one in force at the reading of the choice.
BindingRead ==
  request.source # "unknown" /\ ~request.stale =>
    request.binding = seen.effective /\ seen.stored \in {None, request.binding}
StatusInv ==
  /\ ReplyShape(request) /\ DOMAIN seen = {"stored", "effective", "worker"}
  /\ request.at \in {"roles", "worker"} => BindingRead
  /\ request.at = "worker" /\ request.role => request.source # "unknown" /\ ~request.stale

LEMMA StatusInitInv == Status!Init => StatusInv
  BY DEF Status!Init, Status!Waiting, Status!NoReading, StatusInv, ReplyShape, WaitingFields

\* The world, the clock and a user's choice do not touch a reply in progress.
LEMMA StatusOthers ==
  ASSUME StatusInv, Status!Changes \/ Status!Ticks \/ Status!Selects \/ UNCHANGED answerVars
  PROVE  StatusInv' /\ UNCHANGED payload
<1>1. UNCHANGED <<request, payload, seen>>
  BY DEF Status!Changes, Status!Ticks, Status!Selects, answerVars
<1>2. QED
  BY <1>1 DEF StatusInv, ReplyShape, BindingRead

LEMMA StatusBinds == ASSUME StatusInv, Status!ResolveEffectiveBindings PROVE StatusInv'
<1> DEFINE effective == IF request.postgres /\ world.postgres THEN Status!Resolve(chosen) ELSE Status!Unread
<1>1. /\ request' = [[request EXCEPT !.binding = effective.binding, !.source = effective.source, !.stale = effective.stale]
                       EXCEPT !.at = "roles"]
      /\ seen' = [seen EXCEPT !.stored = chosen, !.effective = Status!Resolve(chosen).binding]
  BY DEF Status!ResolveEffectiveBindings, Status!Goes
<1>2. effective.source # "unknown" /\ ~effective.stale =>
        effective.binding = Status!Resolve(chosen).binding /\ chosen \in {None, effective.binding}
  BY DEF Status!Unread, Status!Resolve
<1> HIDE DEF effective
<1>3. /\ DOMAIN request' = WaitingFields /\ request'.at = "roles"
      /\ request'.binding = effective.binding /\ request'.source = effective.source /\ request'.stale = effective.stale
  BY <1>1 DEF StatusInv, ReplyShape, WaitingFields
<1>4. DOMAIN seen' = DOMAIN seen /\ seen'.stored = chosen /\ seen'.effective = Status!Resolve(chosen).binding
  BY <1>1 DEF StatusInv
<1>5. QED
  BY <1>2, <1>3, <1>4 DEF StatusInv, ReplyShape, BindingRead

LEMMA StatusRole == ASSUME StatusInv, Status!RoleRow PROVE StatusInv'
<1>1. PICK ok : request' = [[request EXCEPT !.role = ok /\ request.source # "unknown" /\ ~request.stale] EXCEPT !.at = "worker"]
  BY DEF Status!RoleRow, Status!Goes
<1>2. UNCHANGED seen /\ request.at = "roles"
  BY DEF Status!RoleRow, Status!At
<1>3. /\ DOMAIN request' = WaitingFields
      /\ request'.role = (ok /\ request.source # "unknown" /\ ~request.stale)
      /\ request'.binding = request.binding /\ request'.source = request.source /\ request'.stale = request.stale
  BY <1>1 DEF StatusInv, ReplyShape, WaitingFields
<1>4. QED
  BY <1>2, <1>3 DEF StatusInv, ReplyShape, BindingRead

LEMMA StatusFirst == ASSUME StatusInv, Status!CheckStores \/ Status!ProviderRows PROVE StatusInv'
<1>1. DOMAIN request' = WaitingFields /\ request'.at \notin {"roles", "worker"}
  BY DEF Status!CheckStores, Status!ProviderRows, Status!Goes, Status!Waiting, StatusInv, ReplyShape, WaitingFields
<1>2. DOMAIN seen' = {"stored", "effective", "worker"}
  BY DEF Status!CheckStores, Status!ProviderRows, Status!NoReading, StatusInv
<1>3. QED
  BY <1>1, <1>2 DEF StatusInv, ReplyShape

\* The reply goes out with the worker's lock as it was just read.
LEMMA StatusReplies == ASSUME StatusInv, Status!WorkerStatus PROVE StatusInv' /\ Status!ClaimsWhatWasRead
<1>1. StatusInv'
  BY DEF Status!WorkerStatus, Status!Answer, Status!Waiting, StatusInv, ReplyShape, WaitingFields
<1>2. ASSUME payload' # payload PROVE Status!ClaimsWhatWasRead
  <2>1. PICK worker : payload' = [request EXCEPT !.at = "idle", !.worker = worker]
                      /\ \/ ~request.postgres /\ UNCHANGED seen
                         \/ /\ worker = IF world.worker THEN "running" ELSE "stopped"
                            /\ seen' = [seen EXCEPT !.worker = world.worker]
    BY <1>2 DEF Status!WorkerStatus, Status!Answer
  <2>2. /\ payload'.binding = request.binding /\ payload'.role = request.role
        /\ payload'.postgres = request.postgres /\ payload'.worker = worker
    BY <2>1 DEF StatusInv, ReplyShape, WaitingFields
  <2>3. /\ seen'.effective = seen.effective /\ seen'.stored = seen.stored
        /\ request.postgres /\ worker # "stopped" => seen'.worker
    BY <2>1 DEF StatusInv
  <2>4. request.role => request.binding = seen.effective /\ seen.stored \in {None, request.binding}
    BY DEF Status!WorkerStatus, Status!At, StatusInv, BindingRead
  <2>5. QED
    BY <2>2, <2>3, <2>4 DEF Status!ClaimsWhatWasRead, Status!Overall
<1>3. QED
  BY <1>1, <1>2 DEF Status!ClaimsWhatWasRead

LEMMA StatusNext ==
  ASSUME StatusInv, Status!Next \/ UNCHANGED answerVars
  PROVE  StatusInv' /\ Status!ClaimsWhatWasRead
<1>1. CASE Status!CheckStores \/ Status!ProviderRows \/ Status!ResolveEffectiveBindings \/ Status!RoleRow
  <2>1. UNCHANGED payload
    BY <1>1 DEF Status!CheckStores, Status!ProviderRows, Status!ResolveEffectiveBindings, Status!RoleRow
  <2>2. QED
    BY <1>1, <2>1, StatusFirst, StatusBinds, StatusRole DEF Status!ClaimsWhatWasRead
<1>2. CASE Status!Changes \/ Status!Ticks \/ Status!Selects \/ UNCHANGED answerVars
  BY <1>2, StatusOthers DEF Status!ClaimsWhatWasRead
<1>3. QED
  BY <1>1, <1>2, StatusReplies DEF Status!Next

\* Whatever changes between its readings, a status calls a role healthy only for the
\* binding that the choice it read puts in force, and itself only if it saw the
\* worker's lock held (get_status, resolve_effective_bindings, worker_status).
THEOREM StatusesClaimWhatTheyRead == Spec => AnswersClaimOnlyWhatWasRead
<1> DEFINE Inv == scene = "status" => StatusInv
<1>1. Init => Inv
  BY StatusInitInv DEF Init
<1>2. Inv /\ [Next]_all => Inv' /\ (scene = "status" => Status!ClaimsWhatWasRead)
  <2> SUFFICES ASSUME Inv, [Next]_all PROVE Inv' /\ (scene = "status" => Status!ClaimsWhatWasRead)
    OBVIOUS
  <2>1. scene' = scene /\ (scene = "status" => Status!Next \/ UNCHANGED answerVars)
    BY DEF Next, all
  <2>2. QED
    BY <2>1, StatusNext
<1>3. QED
  BY <1>1, <1>2, PTL DEF Spec, AnswersClaimOnlyWhatWasRead

-----------------------------------------------------------------------------
(* A question: one completer answers it, and whoever stepped in stays.      *)

AskFields == {"at", "binding", "engaged", "unserved", "by", "template", "search", "ranked", "arts", "docHits", "docs",
              "rows", "traversal", "prompt", "answer"}
\* Who has answered a request's calls so far; a fallback that stepped in goes on.
AnsweredBy(by, binding, engaged) ==
  /\ by \in Seq({binding, Fallback}) /\ engaged \in BOOLEAN
  /\ ~engaged => \A i \in DOMAIN by : by[i] = binding
  /\ \A i \in DOMAIN by : by[i] = Fallback /\ Fallback # binding => \A j \in i .. Len(by) : by[j] = Fallback
ChatInv ==
  /\ DOMAIN req = AskFields /\ Default \in catalog /\ req.binding \in catalog
  /\ AnsweredBy(req.by, req.binding, req.engaged)
  /\ req.at = "idle" => req = Questions!NoRequest
  /\ req.unserved # {} => req.at = "ended" /\ req.answer.verdict = "binding-failed"

LEMMA ChatIdle ==
  /\ DOMAIN Questions!NoRequest = AskFields /\ Questions!NoRequest.binding = Default
  /\ Questions!NoRequest.by = <<>> /\ Questions!NoRequest.unserved = {} /\ Questions!NoRequest.at = "idle"
  /\ Questions!NoRequest.engaged = FALSE
  BY DEF Questions!NoRequest, AskFields

LEMMA ChatNobodyYet == ASSUME NEW binding, NEW engaged \in BOOLEAN PROVE AnsweredBy(<<>>, binding, engaged)
  BY DEF AnsweredBy

LEMMA ChatInitInv == Questions!Init => ChatInv
  BY ChatIdle, ChatNobodyYet DEF Questions!Init, Questions!SelectionInit, ChatInv

\* A call that is answered adds who answered it; one that is not ends the request.
LEMMA ChatAppends ==
  ASSUME NEW by, NEW binding, NEW engaged, NEW who, NEW then,
         AnsweredBy(by, binding, engaged),
         IF engaged THEN who = Fallback /\ then = TRUE
         ELSE \/ who = binding /\ then = FALSE
              \/ who = Fallback /\ then = TRUE
  PROVE  AnsweredBy(Append(by, who), binding, then)
<1> DEFINE longer == Append(by, who)
<1>1. /\ longer \in Seq({binding, Fallback}) /\ Len(longer) = Len(by) + 1 /\ longer[Len(by) + 1] = who
      /\ \A i \in 1 .. Len(by) : longer[i] = by[i]
      /\ DOMAIN by = 1 .. Len(by) /\ DOMAIN longer = 1 .. (Len(by) + 1) /\ Len(by) \in Nat
  BY DEF AnsweredBy
<1> HIDE DEF longer
<1>2. then \/ \A i \in DOMAIN longer : longer[i] = binding
  BY <1>1 DEF AnsweredBy
<1>3. ASSUME NEW i \in DOMAIN longer, longer[i] = Fallback, Fallback # binding, NEW j \in i .. Len(longer)
      PROVE  longer[j] = Fallback
  BY <1>1, <1>3 DEF AnsweredBy
<1>4. QED
  BY <1>1, <1>2, <1>3 DEF AnsweredBy, longer

\* What a call leaves of a request under way: answered, or ended with its problem.
ChatOpen(now) ==
  /\ DOMAIN now = AskFields /\ now.binding = req.binding
  /\ AnsweredBy(now.by, now.binding, now.engaged)
  /\ now.unserved # {} => now.at = "ended" /\ now.answer.verdict = "binding-failed"

LEMMA ChatCalled ==
  ASSUME ChatInv, req.at \notin {"idle", "ended"}, NEW primary \in Questions!Outcomes, NEW fallback \in Questions!Outcomes
  PROVE  ChatOpen(Questions!Called(primary, fallback))
<1> DEFINE call == Questions!Complete(req.binding, req.engaged, primary, fallback)
           unserved == req.unserved \union IF ~req.engaged /\ primary = "not-served" THEN {req.binding} ELSE {}
           by == IF call.answered THEN Append(req.by, call.by) ELSE req.by
           now == [req EXCEPT !.engaged = call.engaged, !.unserved = unserved, !.by = by]
<1>1. Questions!Called(primary, fallback)
        = IF call.answered THEN now ELSE [now EXCEPT !.at = "ended", !.answer = Questions!Rejected(call.problem)]
  BY DEF Questions!Called
<1>2. /\ call.answered = TRUE =>
           IF req.engaged THEN call.by = Fallback /\ call.engaged = TRUE
           ELSE \/ call.by = req.binding /\ call.engaged = FALSE
                \/ call.by = Fallback /\ call.engaged = TRUE
      /\ call.answered \in BOOLEAN /\ call.engaged \in BOOLEAN
      /\ call.answered = FALSE => (req.engaged => call.engaged = TRUE)
      /\ ~req.engaged /\ primary = "not-served" => call.answered = FALSE /\ call.problem = "binding-failed"
  <2>1. req.engaged \in BOOLEAN
    BY DEF ChatInv, AnsweredBy
  <2>2. QED
    BY <2>1 DEF Questions!Complete, Questions!Reply, Questions!Problem, Questions!ProblemOf, Questions!Absorbed
<1> HIDE DEF call
<1>3. AnsweredBy(by, req.binding, call.engaged)
  <2>1. CASE call.answered
    BY <1>2, <2>1, ChatAppends DEF ChatInv
  <2>2. CASE ~call.answered
    BY <1>2, <2>2 DEF ChatInv, AnsweredBy
  <2>3. QED
    BY <2>1, <2>2
<1>4. unserved # {} => ~call.answered /\ call.problem = "binding-failed"
  BY <1>2 DEF ChatInv
<1> HIDE DEF by, unserved
<1>5. /\ DOMAIN now = AskFields /\ now.binding = req.binding /\ now.by = by /\ now.engaged = call.engaged
      /\ now.unserved = unserved
  BY DEF ChatInv, AskFields
<1> HIDE DEF now
<1>6. CASE call.answered
  BY <1>1, <1>3, <1>4, <1>5, <1>6 DEF ChatOpen
<1>7. CASE ~call.answered
  <2> DEFINE ended == [now EXCEPT !.at = "ended", !.answer = Questions!Rejected(call.problem)]
  <2>1. /\ DOMAIN ended = AskFields /\ ended.binding = req.binding /\ ended.by = by /\ ended.engaged = call.engaged
        /\ ended.unserved = unserved /\ ended.at = "ended" /\ ended.answer.verdict = call.problem
    BY <1>5 DEF AskFields, Questions!Rejected
  <2> HIDE DEF ended
  <2>2. ChatOpen(ended)
    BY <1>3, <1>4, <2>1 DEF ChatOpen
  <2>3. QED
    BY <1>1, <1>7, <2>2 DEF ended
<1>8. QED
  BY <1>6, <1>7

LEMMA ChatCallStep ==
  ASSUME ChatInv, UNCHANGED catalog, NEW now, ChatOpen(now), now.at = "ended" => req' = now,
         now.at # "ended" => /\ DOMAIN req' = AskFields /\ req'.at # "idle" /\ req'.binding = now.binding
                             /\ req'.by = now.by /\ req'.engaged = now.engaged /\ req'.unserved = now.unserved
  PROVE  ChatInv'
<1>1. CASE now.at = "ended"
  BY <1>1 DEF ChatOpen, ChatInv
<1>2. CASE now.at # "ended"
  BY <1>2 DEF ChatOpen, ChatInv
<1>3. QED
  BY <1>1, <1>2

LEMMA ChatClassify == ASSUME ChatInv, Questions!Classify PROVE ChatInv'
<1>1. PICK reply \in Questions!Replies, primary \in Questions!Outcomes, fallback \in Questions!Outcomes :
        LET now == Questions!Called(primary, fallback)
        IN IF now.at = "ended" THEN req' = now
           ELSE req' = [[now EXCEPT !.template = Questions!ParseRoute(reply)] EXCEPT !.at = "search"]
  BY DEF Questions!Classify, Questions!Calls, Questions!Step
<1>2. UNCHANGED catalog /\ req.at \notin {"idle", "ended"}
  BY DEF Questions!Classify, Questions!database
<1> DEFINE now == Questions!Called(primary, fallback)
<1>3. ChatOpen(now)
  BY <1>2, ChatCalled
<1>4. now.at = "ended" => req' = now
  BY <1>1
<1>5. now.at # "ended" => req' = [[now EXCEPT !.template = Questions!ParseRoute(reply)] EXCEPT !.at = "search"]
  BY <1>1
<1> HIDE DEF now
<1>6. now.at # "ended" => /\ DOMAIN req' = AskFields /\ req'.at # "idle" /\ req'.binding = now.binding
                          /\ req'.by = now.by /\ req'.engaged = now.engaged /\ req'.unserved = now.unserved
  BY <1>3, <1>5 DEF ChatOpen, AskFields
<1>7. QED
  BY <1>2, <1>3, <1>4, <1>6, ChatCallStep

LEMMA ChatSynthesize == ASSUME ChatInv, Questions!Synthesize PROVE ChatInv'
<1>1. PICK draft \in Drafts, primary \in Questions!Outcomes, fallback \in Questions!Outcomes :
        LET now == Questions!Called(primary, fallback)
        IN IF now.at = "ended" THEN req' = now
           ELSE req' = [[now EXCEPT !.answer = [verdict |-> "draft", citations |-> draft]] EXCEPT !.at = "validate"]
  BY DEF Questions!Synthesize, Questions!Calls, Questions!Step
<1>2. UNCHANGED catalog /\ req.at \notin {"idle", "ended"}
  BY DEF Questions!Synthesize, Questions!database
<1> DEFINE now == Questions!Called(primary, fallback)
<1>3. ChatOpen(now)
  BY <1>2, ChatCalled
<1>4. now.at = "ended" => req' = now
  BY <1>1
<1>5. now.at # "ended" => req' = [[now EXCEPT !.answer = [verdict |-> "draft", citations |-> draft]] EXCEPT !.at = "validate"]
  BY <1>1
<1> HIDE DEF now
<1>6. now.at # "ended" => /\ DOMAIN req' = AskFields /\ req'.at # "idle" /\ req'.binding = now.binding
                          /\ req'.by = now.by /\ req'.engaged = now.engaged /\ req'.unserved = now.unserved
  BY <1>3, <1>5 DEF ChatOpen, AskFields
<1>7. QED
  BY <1>2, <1>3, <1>4, <1>6, ChatCallStep

\* The other steps of a request under way call no model.
LEMMA ChatReads ==
  ASSUME ChatInv, \/ Questions!SearchLeg \/ Questions!ArtifactLeg \/ Questions!ReadArtifacts \/ Questions!DocumentLeg
                  \/ Questions!ReadDocuments \/ Questions!TraversalLeg \/ Questions!ReadContext \/ Questions!ValidateDraft
  PROVE  ChatInv'
<1>1. UNCHANGED catalog /\ req.at \notin {"idle", "ended"}
  BY DEF Questions!SearchLeg, Questions!ArtifactLeg, Questions!ReadArtifacts, Questions!DocumentLeg,
     Questions!ReadDocuments, Questions!TraversalLeg, Questions!ReadContext, Questions!ValidateDraft, Questions!database
<1> DEFINE kept == /\ DOMAIN req' = AskFields /\ req'.binding = req.binding /\ req'.by = req.by /\ req'.engaged = req.engaged
                   /\ req'.unserved = {} /\ req'.at # "idle"
<1> SUFFICES kept
  BY <1>1 DEF ChatInv
<1>2. ASSUME NEW verdict, req' = Questions!Ends(verdict) PROVE kept
  BY <1>1, <1>2 DEF Questions!Ends, ChatInv, AskFields
<1>3. CASE Questions!SearchLeg
  BY <1>1, <1>2, <1>3 DEF Questions!SearchLeg, Questions!Step, ChatInv, AskFields
<1>4. CASE Questions!ArtifactLeg
  BY <1>1, <1>2, <1>4 DEF Questions!ArtifactLeg, Questions!Step, ChatInv, AskFields
<1>5. CASE Questions!ReadArtifacts
  BY <1>1, <1>2, <1>5 DEF Questions!ReadArtifacts, Questions!Step, ChatInv, AskFields
<1>6. CASE Questions!DocumentLeg
  BY <1>1, <1>2, <1>6 DEF Questions!DocumentLeg, Questions!Step, ChatInv, AskFields
<1>7. CASE Questions!ReadDocuments
  BY <1>1, <1>2, <1>7 DEF Questions!ReadDocuments, Questions!Step, ChatInv, AskFields
<1>8. CASE Questions!TraversalLeg
  <2>1. ASSUME NEW outcome, NEW found, Questions!Context(outcome, found) PROVE kept
    BY <1>1, <2>1 DEF Questions!Context, Questions!Step, ChatInv, AskFields
  <2>2. QED
    BY <1>2, <1>8, <2>1 DEF Questions!TraversalLeg
<1>9. CASE Questions!ReadContext
  <2>1. PICK prompt : \/ req' = Questions!Ends("no-evidence")
                      \/ req' = [Questions!NoRequest EXCEPT !.at = "synthesize", !.binding = req.binding, !.by = req.by,
                                   !.engaged = req.engaged, !.prompt = prompt]
    BY <1>9 DEF Questions!ReadContext
  <2>2. CASE req' = Questions!Ends("no-evidence")
    BY <1>2, <2>2
  <2>3. CASE req' = [Questions!NoRequest EXCEPT !.at = "synthesize", !.binding = req.binding, !.by = req.by,
                      !.engaged = req.engaged, !.prompt = prompt]
    BY <2>3, ChatIdle DEF AskFields
  <2>4. QED
    BY <2>1, <2>2, <2>3
<1>10. CASE Questions!ValidateDraft
  BY <1>1, <1>2, <1>10 DEF Questions!ValidateDraft, Questions!Step, ChatInv, AskFields
<1>11. QED
  BY <1>3, <1>4, <1>5, <1>6, <1>7, <1>8, <1>9, <1>10

\* A question begins with the binding in force, and leaves nothing to the next.
LEMMA ChatEnds == ASSUME ChatInv, Questions!Ask \/ Questions!Respond \/ Questions!Restart PROVE ChatInv'
<1>1. CASE Questions!Ask
  <2>1. req = Questions!NoRequest /\ UNCHANGED catalog /\ Questions!Resolve(stored).binding \in catalog
    BY <1>1 DEF Questions!Ask, Questions!database, ChatInv, Questions!Resolve, Questions!IsSelectable
  <2>2. \/ req' = Questions!Ends("no-evidence")
        \/ req' = [req EXCEPT !.at = "classify", !.binding = Questions!Resolve(stored).binding]
    BY <1>1 DEF Questions!Ask
  <2>3. /\ DOMAIN req' = AskFields /\ req'.at # "idle" /\ req'.by = <<>> /\ req'.engaged = FALSE /\ req'.unserved = {}
        /\ req'.binding \in catalog
    <3>1. CASE req' = Questions!Ends("no-evidence")
      BY <2>1, <3>1, ChatIdle DEF Questions!Ends, AskFields, ChatInv
    <3>2. CASE req' = [req EXCEPT !.at = "classify", !.binding = Questions!Resolve(stored).binding]
      BY <2>1, <3>2, ChatIdle DEF AskFields
    <3>3. QED
      BY <2>2, <3>1, <3>2
  <2>4. QED
    BY <2>1, <2>3, ChatNobodyYet DEF ChatInv
<1>2. CASE Questions!Respond \/ Questions!Restart
  <2>1. req' = Questions!NoRequest /\ Default \in catalog'
    BY <1>2 DEF Questions!Respond, Questions!Restart, Questions!EditConfig, Questions!database, ChatInv
  <2>2. QED
    BY <2>1, ChatIdle, ChatNobodyYet DEF ChatInv
<1>3. QED
  BY <1>1, <1>2

LEMMA ChatNext == ASSUME ChatInv, Questions!Next \/ UNCHANGED chatVars PROVE ChatInv'
<1>1. CASE Questions!SupersedeMoment \/ Questions!PruneMeeting \/ Questions!Select \/ UNCHANGED chatVars
  BY <1>1 DEF Questions!SupersedeMoment, Questions!PruneMeeting, Questions!Select, Questions!SelectRoleBinding,
     Questions!selectionVars, chatVars, ChatInv
<1>2. QED
  BY <1>1, ChatClassify, ChatSynthesize, ChatReads, ChatEnds DEF Questions!Next

\* Whoever answers a call of a request is the binding that was in force when it was
\* asked, or its fallback from some call on, and nobody in place of a binding its
\* host does not serve (resolve_effective_binding, FallbackLlm).
THEOREM TheBoundModelAnswers == Spec => []AnsweredByTheBoundModel
<1> DEFINE Inv == scene = "chat" => ChatInv
<1>1. Init => Inv
  BY ChatInitInv DEF Init
<1>2. Inv /\ [Next]_all => Inv'
  <2> SUFFICES ASSUME Inv, [Next]_all PROVE Inv'
    OBVIOUS
  <2>1. scene' = scene /\ (scene = "chat" => Questions!Next \/ UNCHANGED chatVars)
    BY DEF Next, all
  <2>2. QED
    BY <2>1, ChatNext
<1>3. Inv => AnsweredByTheBoundModel
  <2> SUFFICES ASSUME ChatInv PROVE Questions!AnsweredByTheBoundModel
    BY DEF AnsweredByTheBoundModel
  <2>1. \A i \in DOMAIN req.by : req.by[i] = req.binding \/ (req.engaged /\ req.by[i] = Fallback)
    BY DEF ChatInv, AnsweredBy
  <2>2. QED
    BY <2>1 DEF ChatInv, AnsweredBy, Questions!AnsweredByTheBoundModel
<1>4. QED
  BY <1>1, <1>2, <1>3, PTL DEF Spec

-----------------------------------------------------------------------------
(* Sequences: what stands at some of their places, and what is distinct.    *)

\* What stands at some places of a sequence: Nth finds the place, by counting.
UpTo(I, i) == {j \in I : j <= i}
LEMMA CountsAlike == \A S : Questions!Cardinality(S) = Cardinality(S)
  BY DEF Questions!Cardinality, Cardinality

LEMMA CountsGrow ==
  ASSUME NEW I \in SUBSET Nat, IsFiniteSet(I)
  PROVE  /\ \A i \in I : Cardinality(UpTo(I, i)) \in 1 .. Cardinality(I)
         /\ \A i, j \in I : Cardinality(UpTo(I, i)) = Cardinality(UpTo(I, j)) => i = j
<1>1. ASSUME NEW i \in I PROVE /\ IsFiniteSet(UpTo(I, i)) /\ i \in UpTo(I, i)
                               /\ Cardinality(UpTo(I, i)) \in Nat /\ Cardinality(UpTo(I, i)) <= Cardinality(I)
                               /\ Cardinality(UpTo(I, i)) # 0
  <2>1. UpTo(I, i) \in SUBSET I /\ i \in UpTo(I, i)
    BY DEF UpTo
  <2>2. IsFiniteSet(UpTo(I, i)) /\ Cardinality(UpTo(I, i)) <= Cardinality(I)
    BY <2>1, FS_Subset
  <2>3. Cardinality(UpTo(I, i)) \in Nat /\ Cardinality(UpTo(I, i)) # 0
    BY <2>1, <2>2, FS_CardinalityType, FS_EmptySet
  <2>4. QED
    BY <2>1, <2>2, <2>3
<1>2. ASSUME NEW i \in I, NEW j \in I, i < j PROVE Cardinality(UpTo(I, i)) # Cardinality(UpTo(I, j))
  <2>1. UpTo(I, i) \in SUBSET UpTo(I, j) /\ UpTo(I, i) # UpTo(I, j)
    <3>1. j \in UpTo(I, j) /\ j \notin UpTo(I, i)
      BY <1>2 DEF UpTo
    <3>2. \A k \in UpTo(I, i) : k \in UpTo(I, j)
      BY <1>2 DEF UpTo
    <3>3. QED
      BY <3>1, <3>2
  <2>2. QED
    BY <1>1, <2>1, FS_Subset
<1>3. Cardinality(I) \in Nat
  BY FS_CardinalityType
<1>4. \A i, j \in I : i < j \/ i = j \/ j < i
  OBVIOUS
<1>5. QED
  BY <1>1, <1>2, <1>3, <1>4

LEMMA NthStands ==
  ASSUME NEW I \in SUBSET Nat, IsFiniteSet(I)
  PROVE  /\ \A n \in 1 .. Cardinality(I) : /\ Questions!Nth(I, n) \in I
                                           /\ Cardinality(UpTo(I, Questions!Nth(I, n))) = n
         /\ \A i \in I : i = Questions!Nth(I, Cardinality(UpTo(I, i)))
<1> DEFINE f == [i \in I |-> Cardinality(UpTo(I, i))]
<1>1. Cardinality(I) \in Nat
  BY FS_CardinalityType
<1>2. f \in Injection(I, 1 .. Cardinality(I))
  BY CountsGrow DEF Injection, IsInjective
<1>3. IsFiniteSet(1 .. Cardinality(I)) /\ Cardinality(1 .. Cardinality(I)) = Cardinality(I)
  BY <1>1, FS_Interval
<1>4. f \in Surjection(I, 1 .. Cardinality(I))
  BY <1>2, <1>3, FS_Injection
<1>5. \A n \in 1 .. Cardinality(I) : \E i \in I : Cardinality(UpTo(I, i)) = n
  BY <1>4 DEF Surjection
<1>6. \A n : Questions!Nth(I, n) = CHOOSE i \in I : Cardinality(UpTo(I, i)) = n
  BY CountsAlike DEF Questions!Nth, UpTo
<1>7. ASSUME NEW n \in 1 .. Cardinality(I)
      PROVE  Questions!Nth(I, n) \in I /\ Cardinality(UpTo(I, Questions!Nth(I, n))) = n
  BY <1>5, <1>6
<1>8. ASSUME NEW i \in I PROVE i = Questions!Nth(I, Cardinality(UpTo(I, i)))
  <2>1. Cardinality(UpTo(I, i)) \in 1 .. Cardinality(I)
    BY CountsGrow
  <2>2. \A j \in I : Cardinality(UpTo(I, i)) = Cardinality(UpTo(I, j)) => i = j
    BY CountsGrow
  <2> DEFINE n == Cardinality(UpTo(I, i))
  <2>3. n \in 1 .. Cardinality(I)
    BY <2>1
  <2> HIDE DEF n
  <2>4. Questions!Nth(I, n) \in I /\ Cardinality(UpTo(I, Questions!Nth(I, n))) = n
    BY <1>7, <2>3
  <2>5. i = Questions!Nth(I, n)
    BY <2>2, <2>4 DEF n
  <2>6. QED
    BY <2>5 DEF n
<1>9. QED
  BY <1>7, <1>8

LEMMA PickedIs ==
  ASSUME NEW S, NEW s \in Seq(S), NEW I \in SUBSET DOMAIN s
  PROVE  /\ Questions!Picked(s, I) \in Seq(S) /\ Cardinality(I) \in Nat
         /\ DOMAIN Questions!Picked(s, I) = 1 .. Cardinality(I) /\ Len(Questions!Picked(s, I)) = Cardinality(I)
         /\ \A n \in 1 .. Cardinality(I) : \E i \in I : Questions!Picked(s, I)[n] = s[i]
         /\ \A i \in I : \E n \in 1 .. Cardinality(I) : Questions!Picked(s, I)[n] = s[i]
         /\ (\A i, j \in I : s[i] = s[j] => i = j) => Questions!IsInjective(Questions!Picked(s, I))
<1> DEFINE p == Questions!Picked(s, I)
<1>1. DOMAIN s = 1 .. Len(s) /\ Len(s) \in Nat /\ \A i \in 1 .. Len(s) : s[i] \in S
  OBVIOUS
<1>2. I \in SUBSET Nat /\ IsFiniteSet(I) /\ Cardinality(I) \in Nat
  <2>1. IsFiniteSet(1 .. Len(s))
    BY <1>1, FS_Interval
  <2>2. IsFiniteSet(I)
    BY <1>1, <2>1, FS_Subset
  <2>3. QED
    BY <1>1, <2>2, FS_CardinalityType
<1>3. /\ \A n \in 1 .. Cardinality(I) : /\ Questions!Nth(I, n) \in I
                                         /\ Cardinality(UpTo(I, Questions!Nth(I, n))) = n
      /\ \A i \in I : i = Questions!Nth(I, Cardinality(UpTo(I, i)))
      /\ \A i \in I : Cardinality(UpTo(I, i)) \in 1 .. Cardinality(I)
  BY <1>2, NthStands, CountsGrow
<1>4. p = [n \in 1 .. Cardinality(I) |-> s[Questions!Nth(I, n)]]
  BY CountsAlike DEF Questions!Picked
<1> HIDE DEF p
<1>5. p \in Seq(S) /\ DOMAIN p = 1 .. Cardinality(I) /\ Len(p) = Cardinality(I)
  BY <1>1, <1>2, <1>3, <1>4
<1>6. /\ \A n \in 1 .. Cardinality(I) : \E i \in I : p[n] = s[i]
      /\ \A i \in I : \E n \in 1 .. Cardinality(I) : p[n] = s[i]
  BY <1>3, <1>4
<1>7. ASSUME \A i, j \in I : s[i] = s[j] => i = j PROVE Questions!IsInjective(p)
  BY <1>3, <1>4, <1>5, <1>7 DEF Questions!IsInjective
<1>8. QED
  BY <1>2, <1>5, <1>6, <1>7 DEF p

LEMMA AmongIs ==
  ASSUME NEW S, NEW s \in Seq(S), NEW T
  PROVE  /\ Questions!Among(s, T) \in Seq(S) /\ Questions!Among(s, T) \in Seq(T)
         /\ Questions!ToSet(Questions!Among(s, T)) = Questions!ToSet(s) \intersect T
         /\ Questions!IsInjective(s) => Questions!IsInjective(Questions!Among(s, T))
<1> DEFINE I == {i \in DOMAIN s : s[i] \in T}
           p == Questions!Picked(s, I)
<1>1. /\ p \in Seq(S) /\ Cardinality(I) \in Nat
      /\ DOMAIN p = 1 .. Cardinality(I) /\ Len(p) = Cardinality(I)
      /\ \A n \in 1 .. Cardinality(I) : \E i \in I : p[n] = s[i]
      /\ \A i \in I : \E n \in 1 .. Cardinality(I) : p[n] = s[i]
      /\ (\A i, j \in I : s[i] = s[j] => i = j) => Questions!IsInjective(p)
  BY PickedIs
<1>2. Questions!Among(s, T) = p
  BY DEF Questions!Among
<1> HIDE DEF p
<1>3. \A n \in 1 .. Cardinality(I) : p[n] \in T
  BY <1>1
<1>4. p \in Seq(T)
  BY <1>1, <1>3
<1>5. Questions!ToSet(p) = Questions!ToSet(s) \intersect T
  <2>1. ASSUME NEW n \in DOMAIN p PROVE p[n] \in Questions!ToSet(s) \intersect T
    <3>1. PICK i \in I : p[n] = s[i]
      BY <1>1
    <3>2. QED
      BY <1>3, <1>1, <3>1 DEF Questions!ToSet
  <2>2. ASSUME NEW k \in DOMAIN s, s[k] \in T PROVE s[k] \in Questions!ToSet(p)
    <3>1. PICK n \in 1 .. Cardinality(I) : p[n] = s[k]
      BY <1>1, <2>2
    <3>2. QED
      BY <1>1, <3>1 DEF Questions!ToSet
  <2>3. QED
    BY <2>1, <2>2 DEF Questions!ToSet
<1>6. Questions!IsInjective(s) => Questions!IsInjective(p)
  BY <1>1 DEF Questions!IsInjective
<1>7. QED
  BY <1>1, <1>2, <1>4, <1>5, <1>6

LEMMA LeastStands == ASSUME NEW T \in SUBSET Nat, T # {} PROVE \E x \in T : \A y \in T : x <= y
<1> DEFINE R == OpToRel(<, Nat)
<1>1. IsWellFoundedOn(R, Nat)
  BY NatLessThanWellFounded
<1>2. \A x, y \in Nat : y < x => <<y, x>> \in R
  BY DEF OpToRel
<1> HIDE DEF R
<1>3. PICK x \in T : \A y \in T : ~ (<<y, x>> \in R)
  BY <1>1, WFMin
<1>4. ASSUME NEW y \in T PROVE x <= y
  <2>1. ~ (<<y, x>> \in R)
    BY <1>3
  <2>2. ~ (y < x)
    BY <2>1, <1>2, Zenon
  <2>3. QED
    BY <2>2
<1>5. QED
  BY <1>4

\* What is kept of a sequence, each element once: all of it.
LEMMA DistinctIs ==
  ASSUME NEW S, NEW s \in Seq(S)
  PROVE  /\ Questions!DistinctInOrder(s) \in Seq(S) /\ Questions!IsInjective(Questions!DistinctInOrder(s))
         /\ Questions!ToSet(Questions!DistinctInOrder(s)) = Questions!ToSet(s)
<1> DEFINE I == {i \in DOMAIN s : \A j \in 1 .. (i - 1) : s[j] # s[i]}
           p == Questions!Picked(s, I)
<1>1. /\ p \in Seq(S) /\ Cardinality(I) \in Nat
      /\ DOMAIN p = 1 .. Cardinality(I) /\ Len(p) = Cardinality(I)
      /\ \A n \in 1 .. Cardinality(I) : \E i \in I : p[n] = s[i]
      /\ \A i \in I : \E n \in 1 .. Cardinality(I) : p[n] = s[i]
      /\ (\A i, j \in I : s[i] = s[j] => i = j) => Questions!IsInjective(p)
  BY PickedIs
<1>2. Questions!DistinctInOrder(s) = p
  BY DEF Questions!DistinctInOrder
<1> HIDE DEF p
<1>3. ASSUME NEW i \in I, NEW j \in I, s[i] = s[j] PROVE i = j
  BY <1>3
<1>4. ASSUME NEW k \in DOMAIN s PROVE \E i \in I : s[i] = s[k]
  <2> DEFINE T == {i \in DOMAIN s : s[i] = s[k]}
  <2>1. PICK i \in T : \A j \in T : i <= j
    <3>1. T \in SUBSET Nat /\ k \in T
      OBVIOUS
    <3>2. QED
      BY <3>1, LeastStands
  <2>2. i \in I /\ s[i] = s[k]
    BY <2>1
  <2>3. QED
    BY <2>2
<1>5. Questions!ToSet(p) = Questions!ToSet(s)
  <2>1. ASSUME NEW n \in DOMAIN p PROVE p[n] \in Questions!ToSet(s)
    BY <1>1 DEF Questions!ToSet
  <2>2. ASSUME NEW k \in DOMAIN s PROVE s[k] \in Questions!ToSet(p)
    <3>1. PICK i \in I : s[i] = s[k]
      BY <1>4
    <3>2. PICK n \in 1 .. Cardinality(I) : p[n] = s[i]
      BY <1>1
    <3>3. QED
      BY <1>1, <3>1, <3>2 DEF Questions!ToSet
  <2>3. QED
    BY <2>1, <2>2 DEF Questions!ToSet
<1>6. QED
  BY <1>1, <1>2, <1>3, <1>5

LEMMA Counting == ASSUME NEW S \in SUBSET Nat, 0 \in S, \A n \in S : n + 1 \in S PROVE S = Nat
<1> SUFFICES ASSUME Nat \ S # {} PROVE FALSE
  OBVIOUS
<1>1. PICK x \in Nat \ S : \A y \in Nat \ S : x <= y
  BY LeastStands
<1>2. x # 0 /\ x - 1 \in Nat
  BY <1>1
<1>3. x - 1 \in S
  BY <1>1, <1>2
<1>4. QED
  BY <1>1, <1>2, <1>3

-----------------------------------------------------------------------------
(* The prompt: what is given room.                                          *)

Fits(acc) ==
  /\ IsFiniteSet(acc.in) /\ acc.used \in Nat /\ Cardinality(acc.in) <= acc.used
  /\ Cardinality(acc.in) <= 1 \/ acc.used <= Capacity

\* A first block is always taken; every other one only if what is used then still fits.
LEMMA AdmitFits == ASSUME NEW acc, NEW m, Fits(acc) PROVE Fits(Questions!Admit(acc, m))
<1> DEFINE doc == IF MeetingOf[m] \in req.docs \ acc.docs THEN 1 ELSE 0
           used == acc.used + Questions!BlockCost(m) + doc
           next == [in |-> acc.in \union {m}, used |-> used,
                    docs |-> acc.docs \union IF doc = 1 THEN {MeetingOf[m]} ELSE {}]
<1>1. Questions!Admit(acc, m) = IF acc.in # {} /\ used > Capacity THEN acc ELSE next
  BY DEF Questions!Admit
<1>2. doc \in {0, 1} /\ Questions!BlockCost(m) \in {1, 2} /\ acc.used \in Nat
  BY DEF Questions!BlockCost, Fits
<1> HIDE DEF doc
<1>3. used \in Nat /\ used >= acc.used + 1
  BY <1>2
<1>4. next.in = acc.in \union {m} /\ next.used = used
  OBVIOUS
<1> HIDE DEF used, next
<1>5. /\ IsFiniteSet(next.in) /\ Cardinality(next.in) \in Nat /\ Cardinality(acc.in) \in Nat
      /\ Cardinality(next.in) <= Cardinality(acc.in) + 1
  <2>1. IsFiniteSet(acc.in)
    BY DEF Fits
  <2>2. /\ IsFiniteSet(acc.in \union {m})
        /\ Cardinality(acc.in \union {m}) = IF m \in acc.in THEN Cardinality(acc.in) ELSE Cardinality(acc.in) + 1
    BY <2>1, FS_AddElement
  <2>3. QED
    BY <1>4, <2>1, <2>2, FS_CardinalityType
<1>6. acc.in = {} => Cardinality(acc.in) = 0
  BY FS_EmptySet
<1>7. CASE acc.in # {} /\ used > Capacity
  BY <1>1, <1>7
<1>8. CASE ~(acc.in # {} /\ used > Capacity)
  <2>1. Cardinality(next.in) <= used
    BY <1>2, <1>3, <1>5 DEF Fits
  <2>2. Cardinality(next.in) <= 1 \/ used <= Capacity
    BY <1>3, <1>5, <1>6, <1>8, RoomAndPlaces
  <2>3. QED
    BY <1>1, <1>3, <1>4, <1>5, <1>8, <2>1, <2>2 DEF Fits
<1>9. QED
  BY <1>7, <1>8

Nothing == [in |-> {}, used |-> 0, docs |-> {}]
Walk(g, order, k) ==
  /\ g = [n \in 0 .. k |-> g[n]] /\ g[0] = Nothing
  /\ \A n \in 1 .. k : g[n] = Questions!Admit(g[n - 1], order[n])

LEMMA NothingFits == Fits(Nothing)
  BY FS_EmptySet DEF Fits, Nothing

LEMMA WalksStand == ASSUME NEW order, NEW k \in Nat PROVE \E g : Walk(g, order, k)
<1> DEFINE S == {n \in Nat : \E g : Walk(g, order, n)}
<1>1. 0 \in S
  <2>1. Walk([n \in 0 .. 0 |-> Nothing], order, 0)
    BY DEF Walk
  <2>2. QED
    BY <2>1
<1>2. ASSUME NEW n \in S PROVE n + 1 \in S
  <2>1. n \in Nat
    OBVIOUS
  <2>2. PICK g : Walk(g, order, n)
    OBVIOUS
  <2>3. g[0] = Nothing /\ \A i \in 1 .. n : g[i] = Questions!Admit(g[i - 1], order[i])
    BY <2>2 DEF Walk
  <2> DEFINE h == [i \in 0 .. (n + 1) |-> IF i <= n THEN g[i] ELSE Questions!Admit(g[n], order[n + 1])]
  <2>4. /\ h = [i \in 0 .. (n + 1) |-> h[i]]
        /\ \A i \in 0 .. n : h[i] = g[i]
        /\ h[n + 1] = Questions!Admit(g[n], order[n + 1])
    BY <2>1
  <2> HIDE DEF h, S
  <2>5. ASSUME NEW i \in 1 .. n PROVE h[i] = Questions!Admit(h[i - 1], order[i])
    <3>1. i \in 0 .. n /\ i - 1 \in 0 .. n
      BY <2>1
    <3>2. QED
      BY <2>3, <2>4, <3>1
  <2>6. h[n + 1] = Questions!Admit(h[n], order[n + 1]) /\ h[0] = Nothing
    <3>1. n \in 0 .. n /\ 0 \in 0 .. n
      BY <2>1
    <3>2. h[n] = g[n] /\ h[0] = g[0]
      BY <2>4, <3>1, Zenon
    <3>3. QED
      BY <2>3, <2>4, <3>2
  <2>7. \A i \in 1 .. (n + 1) : h[i] = Questions!Admit(h[i - 1], order[i])
    BY <2>1, <2>5, <2>6
  <2>8. Walk(h, order, n + 1)
    BY <2>4, <2>6, <2>7 DEF Walk
  <2>9. QED
    BY <2>1, <2>8 DEF S
<1> HIDE DEF S
<1>3. S = Nat
  <2>1. S \in SUBSET Nat
    BY DEF S
  <2>2. QED
    BY <1>1, <1>2, <2>1, Counting
<1>4. QED
  BY <1>3 DEF S

LEMMA AdmittedFits ==
  ASSUME NEW order, Len(order) \in Nat
  PROVE  /\ IsFiniteSet(Questions!Admitted(order))
         /\ Cardinality(Questions!Admitted(order)) <= 1 \/ Cardinality(Questions!Admitted(order)) <= Capacity
<1> DEFINE Way(g) == g = [n \in 0 .. Len(order) |-> IF n = 0 THEN Nothing ELSE Questions!Admit(g[n - 1], order[n])]
           way == CHOOSE g : Way(g)
<1>1. PICK g : Walk(g, order, Len(order))
  BY WalksStand
<1>2. Way(g)
  BY <1>1 DEF Walk
<1>3. Way(way)
  BY <1>2
<1>4. Questions!Admitted(order) = way[Len(order)].in
  BY DEF Questions!Admitted, Nothing
<1> HIDE DEF way
<1> DEFINE S == {n \in Nat : n <= Len(order) => Fits(way[n])}
<1>5. S = Nat
  <2>1. S \in SUBSET Nat
    OBVIOUS
  <2>2. 0 \in S
    BY <1>3, NothingFits
  <2>3. ASSUME NEW n \in S PROVE n + 1 \in S
    <3>1. SUFFICES ASSUME n + 1 <= Len(order) PROVE Fits(way[n + 1])
      OBVIOUS
    <3>2. way[n + 1] = Questions!Admit(way[n], order[n + 1])
      BY <1>3, <3>1
    <3>3. Fits(way[n])
      BY <3>1
    <3>4. QED
      BY <3>2, <3>3, AdmitFits
  <2> HIDE DEF S
  <2>4. QED
    BY <2>1, <2>2, <2>3, Counting
<1>6. Fits(way[Len(order)])
  BY <1>5
<1>7. Cardinality(way[Len(order)].in) \in Nat
  BY <1>6, FS_CardinalityType DEF Fits
<1>8. QED
  BY <1>4, <1>6, <1>7, RoomAndPlaces DEF Fits

\* The prompt is a part of what was retrieved, each moment once, that fits.
Room(prompt) == Len(prompt) <= 1 \/ Len(prompt) <= Capacity
LEMMA PromptedFits ==
  ASSUME NEW retrieved \in Seq(Moments), Questions!IsInjective(retrieved), req.arts \in Seq(Moments)
  PROVE  Questions!Prompted(retrieved) \in Seq(Moments) /\ Room(Questions!Prompted(retrieved))
<1> DEFINE priority == Questions!Among(req.arts, Questions!ToSet(retrieved))
           order == Questions!DistinctInOrder(priority \o retrieved)
           room == Questions!Admitted(order)
           prompt == Questions!Among(retrieved, room)
<1>1. Questions!Prompted(retrieved) = prompt
  BY DEF Questions!Prompted
<1>2. priority \in Seq(Moments)
  BY AmongIs
<1> HIDE DEF priority
<1>3. priority \o retrieved \in Seq(Moments)
  BY <1>2
<1>4. order \in Seq(Moments)
  BY <1>3, DistinctIs
<1>5. Len(order) \in Nat
  BY <1>4
<1> HIDE DEF order
<1>6. IsFiniteSet(room) /\ (Cardinality(room) <= 1 \/ Cardinality(room) <= Capacity) /\ Cardinality(room) \in Nat
  BY <1>5, AdmittedFits, FS_CardinalityType
<1> HIDE DEF room
<1>7. prompt \in Seq(Moments) /\ prompt \in Seq(room) /\ Questions!IsInjective(prompt)
  BY AmongIs
<1> HIDE DEF prompt
<1>8. Len(prompt) \in Nat /\ DOMAIN prompt = 1 .. Len(prompt) /\ prompt \in [1 .. Len(prompt) -> room]
  BY <1>7
<1>9. prompt \in Injection(1 .. Len(prompt), room)
  BY <1>7, <1>8 DEF Questions!IsInjective, Injection, IsInjective
<1>10. Cardinality(1 .. Len(prompt)) <= Cardinality(room)
  BY <1>6, <1>9, FS_Injection
<1>11. Cardinality(1 .. Len(prompt)) = Len(prompt)
  <2>1. Len(prompt) \in Nat
    BY <1>8
  <2>2. ASSUME NEW n \in Nat PROVE Cardinality(1 .. n) = n
    BY FS_Interval
  <2>3. QED
    BY <2>1, <2>2
<1>12. Room(prompt)
  BY <1>6, <1>8, <1>10, <1>11, RoomAndPlaces DEF Room
<1>13. QED
  BY <1>1, <1>7, <1>12

Tokens == Moments \union {NoId} \union Prose
\* An answer the gate lets through names something, and only what was retrieved and
\* is among the rows it reads now.
LEMMA GateRests ==
  ASSUME NEW draft \in Seq(Tokens), NEW retrieved, NEW found,
         Questions!Validate(draft, retrieved, found).verdict = "answered"
  PROVE  LET cited == Questions!ToSet(Questions!Validate(draft, retrieved, found).citations)
         IN cited # {} /\ cited \subseteq retrieved /\ cited \subseteq found
<1> DEFINE payloads == Questions!ParseMarkers(draft)
           cited == Questions!DistinctInOrder(payloads)
<1>1. payloads \in Seq(Tokens)
  BY AmongIs DEF Questions!ParseMarkers
<1>2. Questions!ToSet(cited) = Questions!ToSet(payloads)
  BY <1>1, DistinctIs
<1>3. /\ payloads # <<>> /\ \A i \in DOMAIN payloads : payloads[i] \in retrieved
      /\ Questions!ToSet(cited) \subseteq found
      /\ Questions!Validate(draft, retrieved, found).citations = cited
  BY DEF Questions!Validate, Questions!Rejected
<1> HIDE DEF cited, payloads
<1>4. payloads[1] \in Questions!ToSet(payloads)
  BY <1>1, <1>3 DEF Questions!ToSet
<1>5. Questions!ToSet(payloads) \subseteq retrieved
  BY <1>3 DEF Questions!ToSet
<1>6. QED
  BY <1>2, <1>3, <1>4, <1>5

-----------------------------------------------------------------------------
(* A request holds sequences of moments, and validates a draft of the model. *)

Held(r) ==
  /\ r.rows \in Seq(Moments) /\ r.search \in Seq(Moments) /\ r.arts \in Seq(Moments)
  /\ r.ranked \in Seq(Artifacts)
  /\ r.prompt \in Seq(Moments) /\ Room(r.prompt)
Drafted(r) == r.at = "validate" => r.answer.citations \in Drafts
EvidenceInv == Held(req) /\ Drafted(req)

HeldFields(r) == <<r.rows, r.search, r.arts, r.ranked, r.prompt>>
LEMMA HeldKept == ASSUME NEW r, NEW s, Held(r), HeldFields(s) = HeldFields(r) PROVE Held(s)
  BY DEF Held, HeldFields

LEMMA NothingHeld == Held(Questions!NoRequest) /\ Drafted(Questions!NoRequest)
  BY RoomAndPlaces DEF Held, Drafted, Room, Questions!NoRequest

LEMMA RankingsAre == ASSUME NEW S, NEW s \in Questions!Rankings(S) PROVE s \in Seq(S)
<1>1. PICK n \in 0 .. 2 : s \in [1 .. n -> S]
  BY DEF Questions!Rankings, Questions!BoundedSeq, Questions!SeqOf
<1>2. QED
  BY <1>1

\* A call changes who answered, whether the fallback stepped in, and how it ends.
LEMMA CalledHolds ==
  ASSUME ChatInv, NEW primary, NEW fallback
  PROVE  LET now == Questions!Called(primary, fallback)
         IN /\ DOMAIN now = AskFields /\ HeldFields(now) = HeldFields(req)
            /\ now.at = req.at \/ now.at = "ended"
<1> DEFINE call == Questions!Complete(req.binding, req.engaged, primary, fallback)
           unserved == req.unserved \union IF ~req.engaged /\ primary = "not-served" THEN {req.binding} ELSE {}
           by == IF call.answered THEN Append(req.by, call.by) ELSE req.by
           now == [req EXCEPT !.engaged = call.engaged, !.unserved = unserved, !.by = by]
<1>1. Questions!Called(primary, fallback)
        = IF call.answered THEN now ELSE [now EXCEPT !.at = "ended", !.answer = Questions!Rejected(call.problem)]
  BY DEF Questions!Called
<1> HIDE DEF call, unserved, by
<1>2. DOMAIN now = AskFields /\ HeldFields(now) = HeldFields(req) /\ now.at = req.at
  BY DEF ChatInv, AskFields, HeldFields
<1> HIDE DEF now
<1>3. LET ended == [now EXCEPT !.at = "ended", !.answer = Questions!Rejected(call.problem)]
      IN DOMAIN ended = AskFields /\ HeldFields(ended) = HeldFields(now) /\ ended.at = "ended"
  BY <1>2 DEF AskFields, HeldFields
<1>4. QED
  BY <1>1, <1>2, <1>3

LEMMA EvidenceCalls ==
  ASSUME ChatInv, EvidenceInv, Questions!Classify \/ Questions!Synthesize
  PROVE  EvidenceInv'
<1>1. CASE Questions!Classify
  <2>1. PICK reply \in Questions!Replies, primary \in Questions!Outcomes, fallback \in Questions!Outcomes :
          LET now == Questions!Called(primary, fallback)
          IN IF now.at = "ended" THEN req' = now
             ELSE req' = [[now EXCEPT !.template = Questions!ParseRoute(reply)] EXCEPT !.at = "search"]
    BY <1>1 DEF Questions!Classify, Questions!Calls, Questions!Step
  <2> DEFINE now == Questions!Called(primary, fallback)
  <2>2. DOMAIN now = AskFields /\ HeldFields(now) = HeldFields(req)
    BY CalledHolds
  <2>3. \/ now.at = "ended" /\ req' = now
        \/ req' = [[now EXCEPT !.template = Questions!ParseRoute(reply)] EXCEPT !.at = "search"]
    BY <2>1
  <2> HIDE DEF now
  <2>4. HeldFields(req') = HeldFields(req) /\ req'.at # "validate"
    BY <2>2, <2>3 DEF HeldFields, AskFields
  <2>5. QED
    BY <2>4, HeldKept DEF EvidenceInv, Drafted
<1>2. CASE Questions!Synthesize
  <2>1. PICK draft \in Drafts, primary \in Questions!Outcomes, fallback \in Questions!Outcomes :
          LET now == Questions!Called(primary, fallback)
          IN IF now.at = "ended" THEN req' = now
             ELSE req' = [[now EXCEPT !.answer = [verdict |-> "draft", citations |-> draft]] EXCEPT !.at = "validate"]
    BY <1>2 DEF Questions!Synthesize, Questions!Calls, Questions!Step
  <2> DEFINE now == Questions!Called(primary, fallback)
  <2>2. DOMAIN now = AskFields /\ HeldFields(now) = HeldFields(req)
    BY CalledHolds
  <2>3. \/ now.at = "ended" /\ req' = now
        \/ req' = [[now EXCEPT !.answer = [verdict |-> "draft", citations |-> draft]] EXCEPT !.at = "validate"]
    BY <2>1
  <2> HIDE DEF now
  <2>4. CASE now.at = "ended" /\ req' = now
    BY <2>2, <2>4, HeldKept DEF EvidenceInv, Drafted
  <2>5. CASE req' = [[now EXCEPT !.answer = [verdict |-> "draft", citations |-> draft]] EXCEPT !.at = "validate"]
    <3>1. HeldFields(req') = HeldFields(now)
      BY <2>2, <2>5 DEF HeldFields, AskFields
    <3>2. req'.answer = [verdict |-> "draft", citations |-> draft]
      BY <2>2, <2>5 DEF AskFields
    <3>3. req'.answer.citations = draft
      BY <3>2
    <3>4. QED
      BY <2>2, <3>1, <3>3, HeldKept DEF EvidenceInv, Drafted
  <2>6. QED
    BY <2>3, <2>4, <2>5
<1>3. QED
  BY <1>1, <1>2

LEMMA EvidenceEnds ==
  ASSUME ChatInv, EvidenceInv, NEW verdict, req' = Questions!Ends(verdict)
  PROVE  EvidenceInv'
<1>1. HeldFields(req') = HeldFields(req) /\ req'.at = "ended"
  BY DEF Questions!Ends, HeldFields, ChatInv, AskFields
<1>2. QED
  BY <1>1, HeldKept DEF EvidenceInv, Drafted

\* The legs of retrieval.
LEMMA EvidenceLegs ==
  ASSUME ChatInv, EvidenceInv, \/ Questions!SearchLeg \/ Questions!ArtifactLeg \/ Questions!ReadArtifacts
                               \/ Questions!DocumentLeg \/ Questions!ReadDocuments \/ Questions!TraversalLeg
  PROVE  EvidenceInv'
<1> SUFFICES ASSUME \A verdict : req' # Questions!Ends(verdict) PROVE EvidenceInv'
  BY EvidenceEnds
<1> USE DEF EvidenceInv, Held, Drafted, ChatInv, AskFields, Questions!Step
<1>1. CASE Questions!SearchLeg
  <2>1. PICK hits \in Questions!Rankings(Moments) : req' = [[req EXCEPT !.search = hits] EXCEPT !.at = "rank"]
    BY <1>1 DEF Questions!SearchLeg
  <2>2. QED
    BY <2>1, RankingsAre
<1>2. CASE Questions!ArtifactLeg
  <2>1. PICK ranked \in Questions!Rankings(Artifacts) : req' = [[req EXCEPT !.ranked = ranked] EXCEPT !.at = "artifacts"]
    BY <1>2 DEF Questions!ArtifactLeg
  <2>2. QED
    BY <2>1, RankingsAre
<1>3. CASE Questions!ReadArtifacts
  <2> DEFINE kept == Questions!Among(req.ranked, published)
             sources == [i \in DOMAIN kept |-> SourceOf[kept[i]]]
  <2>1. req' = [[req EXCEPT !.arts = sources, !.ranked = <<>>] EXCEPT !.at = "document"]
    BY <1>3 DEF Questions!ReadArtifacts
  <2>2. kept \in Seq(Artifacts)
    BY AmongIs
  <2> HIDE DEF kept
  <2>3. sources \in Seq(Moments)
    <3>1. /\ DOMAIN kept = 1 .. Len(kept) /\ Len(kept) \in Nat
          /\ \A i \in 1 .. Len(kept) : SourceOf[kept[i]] \in Moments
      BY <2>2, RoomAndPlaces
    <3>2. sources \in [1 .. Len(kept) -> Moments]
      BY <3>1
    <3>3. QED
      BY <3>1, <3>2
  <2> HIDE DEF sources
  <2>4. QED
    BY <2>1, <2>3
<1>4. CASE Questions!DocumentLeg
  BY <1>4 DEF Questions!DocumentLeg
<1>5. CASE Questions!ReadDocuments
  BY <1>5 DEF Questions!ReadDocuments
<1>6. CASE Questions!TraversalLeg
  <2>1. ASSUME NEW outcome, NEW found \in Seq(Moments), Questions!Context(outcome, found) PROVE EvidenceInv'
    BY <2>1 DEF Questions!Context
  <2>2. ASSUME NEW found \in Questions!Rankings(Moments) PROVE Questions!LastOf(found, TraversalLimit) \in Seq(Moments)
    BY RankingsAre, RoomAndPlaces DEF Questions!LastOf
  <2>3. <<>> \in Seq(Moments)
    OBVIOUS
  <2>4. QED
    BY <1>6, <2>1, <2>2, <2>3 DEF Questions!TraversalLeg
<1>7. QED
  BY <1>1, <1>2, <1>3, <1>4, <1>5, <1>6

\* What the prompt is made from: read again, and each once.
LEMMA EvidenceContext == ASSUME ChatInv, EvidenceInv, Questions!ReadContext PROVE EvidenceInv'
<1> DEFINE all3 == req.rows \o req.search \o req.arts
           retrieved == Questions!Among(Questions!Ordered, Questions!Live)
<1>1. \/ req' = Questions!Ends("no-evidence")
      \/ req' = [Questions!NoRequest EXCEPT !.at = "synthesize", !.binding = req.binding, !.by = req.by,
                   !.engaged = req.engaged, !.prompt = Questions!Prompted(retrieved)]
  BY DEF Questions!ReadContext
<1>2. all3 \in Seq(Moments)
  BY DEF EvidenceInv, Held
<1>3. Questions!Ordered \in Seq(Moments) /\ Questions!IsInjective(Questions!Ordered)
  BY <1>2, DistinctIs DEF Questions!Ordered
<1>4. retrieved \in Seq(Moments) /\ Questions!IsInjective(retrieved)
  BY <1>3, AmongIs
<1> HIDE DEF retrieved
<1>5. Questions!Prompted(retrieved) \in Seq(Moments) /\ Room(Questions!Prompted(retrieved))
  BY <1>4, PromptedFits DEF EvidenceInv, Held
<1>6. CASE req' = Questions!Ends("no-evidence")
  BY <1>6, EvidenceEnds
<1>7. CASE req' = [Questions!NoRequest EXCEPT !.at = "synthesize", !.binding = req.binding, !.by = req.by,
                     !.engaged = req.engaged, !.prompt = Questions!Prompted(retrieved)]
  <2>1. req'.at = "synthesize" /\ req'.prompt = Questions!Prompted(retrieved)
        /\ req'.rows = <<>> /\ req'.search = <<>> /\ req'.arts = <<>> /\ req'.ranked = <<>>
    BY <1>7 DEF Questions!NoRequest
  <2>2. QED
    BY <1>5, <2>1 DEF EvidenceInv, Held, Drafted
<1>8. QED
  BY <1>1, <1>6, <1>7

LEMMA EvidenceNext == ASSUME ChatInv, EvidenceInv, Questions!Next \/ UNCHANGED chatVars PROVE EvidenceInv'
<1>1. CASE Questions!SupersedeMoment \/ Questions!PruneMeeting \/ Questions!Select \/ UNCHANGED chatVars
  BY <1>1 DEF Questions!SupersedeMoment, Questions!PruneMeeting, Questions!Select, chatVars, EvidenceInv
<1>2. CASE Questions!Respond \/ Questions!Restart
  <2>1. req' = Questions!NoRequest
    BY <1>2 DEF Questions!Respond, Questions!Restart
  <2>2. QED
    BY <2>1, NothingHeld DEF EvidenceInv
<1>3. CASE Questions!Ask
  <2>1. \/ req' = Questions!Ends("no-evidence")
        \/ req' = [req EXCEPT !.at = "classify", !.binding = Questions!Resolve(stored).binding]
    BY <1>3 DEF Questions!Ask
  <2>2. CASE req' = [req EXCEPT !.at = "classify", !.binding = Questions!Resolve(stored).binding]
    BY <2>2 DEF EvidenceInv, Held, Drafted, ChatInv, AskFields
  <2>3. QED
    BY <2>1, <2>2, EvidenceEnds
<1>4. CASE Questions!ValidateDraft
  <2>1. PICK answer : req' = [[req EXCEPT !.answer = answer] EXCEPT !.at = "ended"]
    BY <1>4 DEF Questions!ValidateDraft, Questions!Step
  <2>2. QED
    BY <2>1 DEF EvidenceInv, Held, Drafted, ChatInv, AskFields
<1>5. QED
  BY <1>1, <1>2, <1>3, <1>4, EvidenceCalls, EvidenceLegs, EvidenceContext DEF Questions!Next

\* Only the gate answers, from validation.
LEMMA OnlyTheGateAnswers ==
  ASSUME ChatInv, EvidenceInv, Questions!Next \/ UNCHANGED chatVars PROVE Questions!AnswerStands
<1> SUFFICES ASSUME Questions!Answering
             PROVE  LET cited == Questions!ToSet(req'.answer.citations)
                    IN /\ cited # {} /\ cited \subseteq Questions!Live
                       /\ cited \subseteq Questions!ToSet(req.prompt) /\ Room(req.prompt)
  BY DEF Questions!AnswerStands, Room
<1>1. req.at = "validate" /\ req'.at = "ended" /\ req'.answer.verdict = "answered"
  BY DEF Questions!Answering
<1>2. Questions!ValidateDraft
  <2>1. CASE Questions!SupersedeMoment \/ Questions!PruneMeeting \/ Questions!Select \/ UNCHANGED chatVars
    BY <1>1, <2>1 DEF Questions!SupersedeMoment, Questions!PruneMeeting, Questions!Select, chatVars
  <2>2. CASE Questions!Restart
    BY <1>1, <2>2 DEF Questions!Restart, Questions!NoRequest
  <2>3. QED
    BY <1>1, <2>1, <2>2 DEF Questions!Next, Questions!Ask, Questions!Classify, Questions!SearchLeg, Questions!ArtifactLeg,
       Questions!ReadArtifacts, Questions!DocumentLeg, Questions!ReadDocuments, Questions!TraversalLeg,
       Questions!ReadContext, Questions!Synthesize, Questions!Respond
<1> DEFINE verdict == Questions!Validate(req.answer.citations, Questions!ToSet(req.prompt), Questions!Live)
<1>3. req' = [[req EXCEPT !.answer = verdict] EXCEPT !.at = "ended"]
  BY <1>2 DEF Questions!ValidateDraft, Questions!Step, Questions!CitedRows
<1>4. req'.answer = verdict
  BY <1>3 DEF ChatInv, AskFields
<1>5. req.answer.citations \in Seq(Tokens)
  BY <1>1, RoomAndPlaces DEF EvidenceInv, Drafted, Tokens
<1>6. QED
  BY <1>1, <1>4, <1>5, GateRests DEF EvidenceInv, Held

\* Each moment an answer names is live as it goes out, and was in the prompt the model
\* read, which held no more than its capacity, whatever was superseded or pruned
\* since it was retrieved (_answer, citations.py).
THEOREM AnswersRestOnEvidence == Spec => AnswersStandOnEvidence
<1> DEFINE Inv == scene = "chat" => ChatInv /\ EvidenceInv
<1>1. Init => Inv
  <2>1. Questions!Init => EvidenceInv
    BY NothingHeld DEF Questions!Init, EvidenceInv
  <2>2. QED
    BY <2>1, ChatInitInv DEF Init
<1>2. Inv /\ [Next]_all => Inv' /\ (scene = "chat" => Questions!AnswerStands)
  <2> SUFFICES ASSUME Inv, [Next]_all PROVE Inv' /\ (scene = "chat" => Questions!AnswerStands)
    OBVIOUS
  <2>1. scene' = scene /\ (scene = "chat" => Questions!Next \/ UNCHANGED chatVars)
    BY DEF Next, all
  <2>2. QED
    BY <2>1, ChatNext, EvidenceNext, OnlyTheGateAnswers
<1>3. Inv /\ [Next]_all => [scene = "chat" => Questions!AnswerStands]_all
  BY <1>2
<1>4. QED
  BY <1>1, <1>2, <1>3, PTL DEF Spec, AnswersStandOnEvidence

-----------------------------------------------------------------------------
(* The gate: the units a draft is cut into are the runs between two ends of *)
(* a sentence, so that a claim without a marker is a word that has none in  *)
(* its sentence.                                                            *)

LEMMA GreatestStands ==
  ASSUME NEW T \in SUBSET Nat, T # {}, NEW b \in Nat, \A x \in T : x <= b
  PROVE  Questions!Greatest(T) \in T /\ \A x \in T : x <= Questions!Greatest(T)
<1> DEFINE Above == {u \in Nat : \A x \in T : x <= u}
<1>1. PICK u \in Above : \A v \in Above : u <= v
  BY LeastStands
<1>2. u \in T
  <2>1. SUFFICES ASSUME u \notin T PROVE FALSE
    OBVIOUS
  <2>2. \A x \in T : x < u
    BY <1>1, <2>1
  <2>3. u - 1 \in Above
    <3>1. u >= 1
      <4>1. PICK x \in T : TRUE
        OBVIOUS
      <4>2. x < u
        BY <2>2
      <4>3. QED
        BY <4>2
    <3>2. \A x \in T : x <= u - 1
      BY <2>2
    <3>3. QED
      BY <3>1, <3>2
  <2>4. QED
    BY <1>1, <2>3
<1>3. \E y \in T : \A x \in T : x <= y
  BY <1>1, <1>2
<1>4. QED
  BY <1>3 DEF Questions!Greatest

LEMMA LeastIs ==
  ASSUME NEW T \in SUBSET Nat, T # {}
  PROVE  Questions!Least(T) \in T /\ \A x \in T : Questions!Least(T) <= x
  BY LeastStands DEF Questions!Least

LEMMA KindsApart ==
  /\ Tokens = Questions!Marks \union Prose
  /\ \A token : Questions!IsMarker(token) <=> token \in Questions!Marks
  /\ \A token \in Questions!Marks : token \notin Prose
  BY RoomAndPlaces DEF Tokens, Prose, Questions!Marks, Questions!IsMarker

\* Where a run of spaces and markers after a stop ends.
Runs(text, i) == {k \in i .. Len(text) :
  Questions!IsMarker(text[k]) /\ \A l \in i .. k : Questions!IsMarker(text[l]) \/ text[l] = "space"}
LEMMA PulledBackIs ==
  ASSUME NEW text \in Seq(Tokens), NEW i \in 1 .. (Len(text) + 1)
  PROVE  LET e == Questions!PulledBack(text, i)
         IN /\ e \in i .. (Len(text) + 1)
            /\ e = i \/ e - 1 \in Runs(text, i)
            /\ \A k \in Runs(text, i) : k < e
<1> DEFINE T == {i} \union {j + 1 : j \in Runs(text, i)}
<1>1. Len(text) \in Nat
  OBVIOUS
<1>2. Questions!PulledBack(text, i) = Questions!Greatest(T)
  BY DEF Questions!PulledBack, Runs
<1>3. T \in SUBSET Nat /\ T # {} /\ \A x \in T : x <= Len(text) + 1
  BY <1>1 DEF Runs
<1>4. Questions!Greatest(T) \in T /\ \A x \in T : x <= Questions!Greatest(T)
  <2> HIDE DEF T
  <2>1. Len(text) + 1 \in Nat
    BY <1>1
  <2>2. QED
    BY <1>3, <2>1, GreatestStands
<1> DEFINE e == Questions!Greatest(T)
<1>5. e = i \/ \E j \in Runs(text, i) : e = j + 1
  BY <1>4
<1>6. \A k \in Runs(text, i) : k + 1 <= e
  BY <1>4
<1> HIDE DEF e, T
<1>7. Runs(text, i) \subseteq i .. Len(text)
  BY DEF Runs
<1>8. QED
  BY <1>1, <1>2, <1>5, <1>6, <1>7 DEF e

EndsFrom(text, start) == {k \in start .. Len(text) : text[k] \in {"stop", "line"}}
LEMMA UnitEndIn ==
  ASSUME NEW text \in Seq(Tokens), NEW start \in 1 .. Len(text)
  PROVE  Questions!UnitEnd(text, start) \in (start + 1) .. (Len(text) + 1)
<1> DEFINE s == Questions!Least(EndsFrom(text, start))
<1>1. Len(text) \in Nat
  OBVIOUS
<1>2. Questions!UnitEnd(text, start)
        = IF EndsFrom(text, start) = {} THEN Len(text) + 1
          ELSE IF text[s] = "line" THEN s + 1 ELSE Questions!PulledBack(text, s + 1)
  BY DEF Questions!UnitEnd, EndsFrom
<1>3. EndsFrom(text, start) # {} => s \in start .. Len(text)
  <2>1. EndsFrom(text, start) \in SUBSET Nat /\ EndsFrom(text, start) \subseteq start .. Len(text)
    BY <1>1 DEF EndsFrom
  <2>2. QED
    BY <2>1, LeastIs
<1> HIDE DEF s
<1>4. CASE EndsFrom(text, start) = {}
  BY <1>1, <1>2, <1>4
<1>5. CASE EndsFrom(text, start) # {}
  <2>1. s + 1 \in 1 .. (Len(text) + 1) /\ s + 1 \in (start + 1) .. (Len(text) + 1)
    BY <1>1, <1>3, <1>5
  <2>2. Questions!PulledBack(text, s + 1) \in (s + 1) .. (Len(text) + 1)
    BY <2>1, PulledBackIs
  <2>3. QED
    BY <1>1, <1>2, <1>5, <2>1, <2>2
<1>6. QED
  BY <1>4, <1>5

\* No run goes on past the end of a sentence.
LEMMA NoCrossing ==
  ASSUME NEW text \in Seq(Tokens), NEW start \in 2 .. Len(text), Questions!Over(text, start - 1),
         NEW stop \in 1 .. (start - 1), NEW k \in start .. Len(text), Questions!InTail(text, stop, k)
  PROVE  FALSE
<1>1. Len(text) \in Nat /\ start - 1 \in stop .. k
  OBVIOUS
<1>2. /\ text[stop] = "stop"
      /\ \A l \in (stop + 1) .. k : Questions!IsMarker(text[l]) \/ text[l] = "space"
  BY DEF Questions!InTail
<1>3. Questions!InTail(text, stop, start - 1)
  <2>1. text[start - 1] # "line"
    <3>1. start - 1 = stop \/ start - 1 \in (stop + 1) .. k
      BY <1>1
    <3>2. QED
      BY <1>2, <3>1, KindsApart DEF Prose
  <2>2. PICK other \in 1 .. (start - 1) : Questions!InTail(text, other, start - 1)
    BY <2>1 DEF Questions!Over
  <2>3. start - 1 = stop \/ Questions!IsMarker(text[start - 1])
    <3>1. CASE start - 1 = other
      <4>1. text[start - 1] = "stop"
        BY <2>2, <3>1 DEF Questions!InTail
      <4>2. start - 1 \notin (stop + 1) .. k
        BY <1>2, <4>1, KindsApart DEF Prose
      <4>3. QED
        BY <1>1, <4>2
    <3>2. CASE start - 1 # other
      BY <2>2, <3>2 DEF Questions!InTail
    <3>3. QED
      BY <3>1, <3>2
  <2>4. \A l \in (stop + 1) .. (start - 1) : l \in (stop + 1) .. k
    BY <1>1
  <2>5. QED
    BY <1>1, <1>2, <2>3, <2>4 DEF Questions!InTail
<1>4. k \in ((start - 1) + 1) .. Len(text)
  OBVIOUS
<1>5. text[start - 1] # "line"
  <2>1. start - 1 = stop \/ start - 1 \in (stop + 1) .. k
    BY <1>1
  <2>2. QED
    BY <1>2, <2>1, KindsApart DEF Prose
<1>6. QED
  BY <1>3, <1>4, <1>5 DEF Questions!Over

Begins(text, start) == start = 1 \/ Questions!Over(text, start - 1)
\* A unit that begins where a sentence does ends where that sentence does.
LEMMA UnitIs ==
  ASSUME NEW text \in Seq(Tokens), NEW start \in 1 .. Len(text), Begins(text, start)
  PROVE  LET e == Questions!UnitEnd(text, start)
         IN /\ e = Len(text) + 1 \/ Questions!Over(text, e - 1)
            /\ \A k \in start .. (e - 2) : ~Questions!Over(text, k)
<1> DEFINE s == Questions!Least(EndsFrom(text, start))
           e == Questions!UnitEnd(text, start)
<1>1. Len(text) \in Nat
  OBVIOUS
<1>2. e = IF EndsFrom(text, start) = {} THEN Len(text) + 1
          ELSE IF text[s] = "line" THEN s + 1 ELSE Questions!PulledBack(text, s + 1)
  BY DEF Questions!UnitEnd, EndsFrom
<1>3. EndsFrom(text, start) # {} =>
        /\ s \in start .. Len(text) /\ text[s] \in {"stop", "line"}
        /\ \A k \in EndsFrom(text, start) : s <= k
  <2>1. EndsFrom(text, start) \in SUBSET Nat
    BY <1>1 DEF EndsFrom
  <2>2. ASSUME EndsFrom(text, start) # {} PROVE s \in EndsFrom(text, start) /\ \A k \in EndsFrom(text, start) : s <= k
    BY <2>1, <2>2, LeastIs
  <2>3. QED
    BY <2>2 DEF EndsFrom
<1> HIDE DEF s, e
<1>4. ASSUME NEW k \in start .. Len(text), NEW stop \in 1 .. k, Questions!InTail(text, stop, k)
      PROVE  stop \in EndsFrom(text, start)
  <2>1. stop >= start
    <3>1. SUFFICES ASSUME stop < start PROVE FALSE
      BY <1>1
    <3>2. start \in 2 .. Len(text) /\ stop \in 1 .. (start - 1) /\ Questions!Over(text, start - 1)
      BY <1>1, <3>1 DEF Begins
    <3>3. QED
      BY <1>4, <3>2, NoCrossing
  <2>2. text[stop] = "stop" /\ stop \in start .. Len(text)
    BY <1>1, <1>4, <2>1 DEF Questions!InTail
  <2>3. QED
    BY <2>2 DEF EndsFrom
\* Nothing is over before the first stop or line break.
<1>5. ASSUME NEW k \in start .. Len(text), \A i \in EndsFrom(text, start) : k < i PROVE ~Questions!Over(text, k)
  <2>1. text[k] # "line"
    BY <1>1, <1>5 DEF EndsFrom
  <2>2. ASSUME NEW stop \in 1 .. k, Questions!InTail(text, stop, k) PROVE FALSE
    <3>1. stop \in EndsFrom(text, start)
      BY <1>4, <2>2
    <3>2. QED
      BY <1>1, <1>5, <3>1
  <2>3. QED
    BY <2>1, <2>2 DEF Questions!Over
<1>6. CASE EndsFrom(text, start) = {}
  <2>1. e = Len(text) + 1
    BY <1>2, <1>6
  <2>2. \A k \in start .. (e - 2) : k \in start .. Len(text)
    BY <1>1, <2>1
  <2>3. QED
    BY <1>5, <1>6, <2>1, <2>2 DEF e
<1>7. CASE EndsFrom(text, start) # {} /\ text[s] = "line"
  <2>1. e = s + 1 /\ e - 1 = s /\ s \in start .. Len(text)
    BY <1>1, <1>2, <1>3, <1>7
  <2>2. Questions!Over(text, s)
    BY <1>7 DEF Questions!Over
  <2>3. ASSUME NEW k \in start .. (e - 2) PROVE ~Questions!Over(text, k)
    <3>1. k \in start .. Len(text) /\ k < s
      BY <1>1, <2>1
    <3>2. \A i \in EndsFrom(text, start) : k < i
      <4>1. \A i \in EndsFrom(text, start) : s <= i /\ i \in Nat
        BY <1>1, <1>3, <1>7 DEF EndsFrom
      <4>2. QED
        BY <1>1, <2>1, <3>1, <4>1
    <3>3. QED
      BY <1>5, <3>1, <3>2
  <2>4. QED
    BY <2>1, <2>2, <2>3 DEF e
<1>8. CASE EndsFrom(text, start) # {} /\ text[s] = "stop"
  <2>1. s \in start .. Len(text) /\ s \in 1 .. Len(text) /\ s + 1 \in 1 .. (Len(text) + 1)
    BY <1>1, <1>3, <1>8
  <2>2. e = Questions!PulledBack(text, s + 1)
    BY <1>2, <1>8
  <2>3. /\ e \in (s + 1) .. (Len(text) + 1)
        /\ e = s + 1 \/ e - 1 \in Runs(text, s + 1)
        /\ \A k \in Runs(text, s + 1) : k < e
    BY <2>1, <2>2, PulledBackIs
  <2>4. Questions!InTail(text, s, e - 1)
    <3>1. CASE e = s + 1
      BY <1>1, <1>8, <2>1, <3>1 DEF Questions!InTail
    <3>2. CASE e - 1 \in Runs(text, s + 1)
      BY <1>1, <1>8, <2>1, <3>2 DEF Questions!InTail, Runs
    <3>3. QED
      BY <2>3, <3>1, <3>2
  \* Whatever ends in the run begins with the same stop.
  <2>5. ASSUME NEW k \in s .. (e - 1), NEW stop \in 1 .. k, Questions!InTail(text, stop, k) PROVE stop = s
    <3>1. k \in start .. Len(text) /\ s \in Nat /\ e \in Nat
      BY <1>1, <2>1, <2>3
    <3>2. stop \in EndsFrom(text, start)
      BY <1>4, <2>5, <3>1
    <3>3. s <= stop /\ text[stop] = "stop"
      BY <1>3, <1>8, <2>5, <3>2 DEF Questions!InTail
    <3>4. stop \notin (s + 1) .. (e - 1)
      <4>1. \A l \in (s + 1) .. (e - 1) : Questions!IsMarker(text[l]) \/ text[l] = "space"
        BY <2>4 DEF Questions!InTail
      <4>2. QED
        BY <3>3, <4>1, KindsApart DEF Prose
    <3>5. QED
      BY <3>1, <3>3, <3>4
  <2>6. Questions!Over(text, e - 1)
    <3>1. s \in 1 .. (e - 1) /\ e - 1 \in s .. (e - 1) /\ e - 1 \in Nat
      BY <1>1, <2>1, <2>3
    <3>2. ASSUME NEW next \in ((e - 1) + 1) .. Len(text), NEW stop \in 1 .. (e - 1),
                 Questions!InTail(text, stop, e - 1), Questions!InTail(text, stop, next)
          PROVE  FALSE
      <4>1. stop = s
        BY <2>5, <3>1, <3>2
      <4>2. next \in Runs(text, s + 1)
        BY <1>1, <2>1, <2>3, <3>2, <4>1 DEF Questions!InTail, Runs
      <4>3. next < e
        BY <2>3, <4>2
      <4>4. QED
        BY <1>1, <2>1, <2>3, <4>3
    <3>3. QED
      BY <2>4, <3>1, <3>2 DEF Questions!Over
  <2>7. ASSUME NEW k \in start .. (e - 2) PROVE ~Questions!Over(text, k)
    <3>1. k \in start .. Len(text) /\ k \in Nat /\ e \in Nat /\ s \in Nat
      BY <1>1, <2>1, <2>3
    <3>2. CASE k < s
      <4>1. \A i \in EndsFrom(text, start) : s <= i /\ i \in Nat
        BY <1>1, <1>3, <1>8 DEF EndsFrom
      <4>2. \A i \in EndsFrom(text, start) : k < i
        BY <3>1, <3>2, <4>1
      <4>3. QED
        BY <1>5, <3>1, <4>2
    <3>3. CASE k >= s
      <4>1. k \in s .. (e - 1) /\ e - 1 \in (k + 1) .. Len(text) /\ e - 1 # s
        BY <1>1, <2>1, <2>3, <3>1, <3>3
      <4>2. text[k] # "line"
        <5>1. k = s \/ k \in (s + 1) .. (e - 1)
          BY <3>1, <4>1
        <5>2. \A l \in (s + 1) .. (e - 1) : Questions!IsMarker(text[l]) \/ text[l] = "space"
          BY <2>4 DEF Questions!InTail
        <5>3. QED
          BY <1>8, <5>1, <5>2, KindsApart DEF Prose
      <4>3. ASSUME NEW stop \in 1 .. k, Questions!InTail(text, stop, k)
            PROVE  \E next \in (k + 1) .. Len(text), other \in 1 .. k :
                     Questions!InTail(text, other, k) /\ Questions!InTail(text, other, next)
        <5>1. stop = s
          BY <2>5, <4>1, <4>3
        <5>2. QED
          BY <2>4, <4>1, <4>3, <5>1
      <4>4. QED
        BY <4>2, <4>3 DEF Questions!Over
    <3>4. QED
      BY <3>1, <3>2, <3>3
  <2>8. QED
    BY <2>6, <2>7 DEF e
<1>9. QED
  BY <1>3, <1>6, <1>7, <1>8

\* A draft cut into units from each place on.
Uncited(unit) == Questions!IsClaim(unit) /\ Questions!ParseMarkers(unit) = <<>>
Unit(text, start) == SubSeq(text, start, Questions!UnitEnd(text, start) - 1)
Cut(g, text, from) ==
  /\ g = [i \in from .. (Len(text) + 1) |-> g[i]] /\ g[Len(text) + 1] = <<>>
  /\ \A i \in from .. Len(text) : g[i] = <<Unit(text, i)>> \o g[Questions!UnitEnd(text, i)]

LEMMA CutsStand ==
  ASSUME NEW text \in Seq(Tokens), NEW n \in 0 .. Len(text)
  PROVE  \E g : Cut(g, text, Len(text) + 1 - n)
<1> DEFINE S == {k \in Nat : k <= Len(text) => \E g : Cut(g, text, Len(text) + 1 - k)}
<1>1. Len(text) \in Nat
  OBVIOUS
<1>2. 0 \in S
  <2>1. Cut([i \in (Len(text) + 1) .. (Len(text) + 1) |-> <<>>], text, Len(text) + 1)
    BY <1>1 DEF Cut
  <2>2. Len(text) + 1 - 0 = Len(text) + 1
    BY <1>1
  <2>3. QED
    BY <2>1, <2>2
<1>3. ASSUME NEW k \in S PROVE k + 1 \in S
  <2>1. SUFFICES ASSUME k + 1 <= Len(text) PROVE \E g : Cut(g, text, Len(text) + 1 - (k + 1))
    OBVIOUS
  <2>2. k \in Nat /\ k <= Len(text)
    BY <1>1, <2>1
  <2>3. PICK g : Cut(g, text, Len(text) + 1 - k)
    BY <2>2
  <2> DEFINE from == Len(text) - k
             h == [i \in from .. (Len(text) + 1) |->
                     IF i = from THEN <<Unit(text, from)>> \o g[Questions!UnitEnd(text, from)] ELSE g[i]]
  <2>4. /\ from \in 1 .. Len(text)
        /\ Len(text) + 1 - k = from + 1 /\ Len(text) + 1 - (k + 1) = from
    BY <1>1, <2>1, <2>2
  <2>5. /\ g[Len(text) + 1] = <<>>
        /\ \A i \in (from + 1) .. Len(text) : g[i] = <<Unit(text, i)>> \o g[Questions!UnitEnd(text, i)]
    BY <2>3, <2>4 DEF Cut
  <2> HIDE DEF from, S
  <2>6. /\ h = [i \in from .. (Len(text) + 1) |-> h[i]]
        /\ \A i \in (from + 1) .. (Len(text) + 1) : h[i] = g[i]
        /\ h[from] = <<Unit(text, from)>> \o g[Questions!UnitEnd(text, from)]
    BY <1>1, <2>4
  <2> HIDE DEF h
  <2>7. ASSUME NEW i \in from .. Len(text) PROVE h[i] = <<Unit(text, i)>> \o h[Questions!UnitEnd(text, i)]
    <3>1. i \in 1 .. Len(text)
      BY <1>1, <2>4
    <3>2. Questions!UnitEnd(text, i) \in (i + 1) .. (Len(text) + 1)
      BY <3>1, UnitEndIn
    <3>3. Questions!UnitEnd(text, i) \in (from + 1) .. (Len(text) + 1)
      BY <1>1, <2>4, <3>1, <3>2
    <3>4. h[Questions!UnitEnd(text, i)] = g[Questions!UnitEnd(text, i)]
      BY <2>6, <3>3
    <3>5. i = from \/ i \in (from + 1) .. Len(text)
      BY <1>1, <2>4
    <3>6. i \in (from + 1) .. Len(text) => h[i] = g[i]
      <4>1. i \in (from + 1) .. Len(text) => i \in (from + 1) .. (Len(text) + 1)
        BY <1>1, <2>4
      <4>2. QED
        BY <2>6, <4>1
    <3>7. QED
      BY <2>5, <2>6, <3>4, <3>5, <3>6
  <2>8. h[Len(text) + 1] = <<>>
    <3>1. Len(text) + 1 \in (from + 1) .. (Len(text) + 1)
      BY <1>1, <2>4
    <3>2. QED
      BY <2>5, <2>6, <3>1
  <2>9. Cut(h, text, from)
    BY <2>6, <2>7, <2>8 DEF Cut
  <2>10. QED
    BY <2>4, <2>9
<1> HIDE DEF S
<1>4. S = Nat
  <2>1. S \in SUBSET Nat
    BY DEF S
  <2>2. QED
    BY <1>2, <1>3, <2>1, Counting
<1>5. QED
  BY <1>1, <1>4 DEF S

\* What a unit claims, in terms of the draft.
LEMMA UnitClaims ==
  ASSUME NEW text \in Seq(Tokens), NEW start \in 1 .. Len(text)
  PROVE  LET e == Questions!UnitEnd(text, start)
         IN Uncited(Unit(text, start)) <=> /\ \E i \in start .. (e - 1) : text[i] = "word"
                                           /\ \A i \in start .. (e - 1) : ~Questions!IsMarker(text[i])
<1> DEFINE e == Questions!UnitEnd(text, start)
           u == Unit(text, start)
<1>1. Len(text) \in Nat /\ e \in (start + 1) .. (Len(text) + 1)
  BY UnitEndIn
<1>2. u = SubSeq(text, start, e - 1)
  BY DEF Unit
<1> HIDE DEF e, u
<1>3. /\ u \in Seq(Tokens) /\ Len(u) = e - start /\ Len(u) \in Nat
      /\ \A k \in 1 .. Len(u) : u[k] = text[start + k - 1]
  BY <1>1, <1>2
<1>4. Questions!IsClaim(u) <=> \E i \in start .. (e - 1) : text[i] = "word"
  <2>1. Questions!IsClaim(u) <=> \E k \in 1 .. Len(u) : u[k] = "word"
    BY DEF Questions!IsClaim, Questions!Contains
  <2>2. ASSUME NEW i \in start .. (e - 1) PROVE i - start + 1 \in 1 .. Len(u) /\ u[i - start + 1] = text[i]
    BY <1>1, <1>3
  <2>3. ASSUME NEW k \in 1 .. Len(u) PROVE start + k - 1 \in start .. (e - 1) /\ u[k] = text[start + k - 1]
    <3>1. start \in Nat /\ e \in Nat /\ k <= e - start /\ k >= 1 /\ k \in Nat
      BY <1>1, <1>3
    <3>2. start + k - 1 \in start .. (e - 1)
      BY <3>1
    <3>3. QED
      BY <1>3, <3>2
  <2>4. ASSUME NEW k \in 1 .. Len(u), u[k] = "word" PROVE \E i \in start .. (e - 1) : text[i] = "word"
    BY <2>3, <2>4
  <2>5. ASSUME NEW i \in start .. (e - 1), text[i] = "word" PROVE \E k \in 1 .. Len(u) : u[k] = "word"
    BY <2>2, <2>5
  <2>6. QED
    BY <2>1, <2>4, <2>5
<1>5. Questions!ParseMarkers(u) = <<>> <=> \A i \in start .. (e - 1) : ~Questions!IsMarker(text[i])
  <2> DEFINE p == Questions!ParseMarkers(u)
  <2>1. p \in Seq(Tokens) /\ Questions!ToSet(p) = Questions!ToSet(u) \intersect Questions!Marks
    BY <1>3, AmongIs DEF Questions!ParseMarkers
  <2> HIDE DEF p
  <2>2. p = <<>> <=> Questions!ToSet(p) = {}
    BY <2>1 DEF Questions!ToSet
  <2>3. Questions!ToSet(u) = {u[k] : k \in 1 .. Len(u)}
    BY <1>3 DEF Questions!ToSet
  <2>4. ASSUME NEW i \in start .. (e - 1) PROVE i - start + 1 \in 1 .. Len(u) /\ u[i - start + 1] = text[i]
    BY <1>1, <1>3
  <2>5. ASSUME NEW k \in 1 .. Len(u) PROVE start + k - 1 \in start .. (e - 1) /\ u[k] = text[start + k - 1]
    <3>1. start \in Nat /\ e \in Nat /\ k <= e - start /\ k >= 1 /\ k \in Nat
      BY <1>1, <1>3
    <3>2. start + k - 1 \in start .. (e - 1)
      BY <3>1
    <3>3. QED
      BY <1>3, <3>2
  <2>6. Questions!ToSet(u) \intersect Questions!Marks = {} <=> \A i \in start .. (e - 1) : text[i] \notin Questions!Marks
    <3>1. Questions!ToSet(u) \intersect Questions!Marks = {} <=> \A k \in 1 .. Len(u) : u[k] \notin Questions!Marks
      BY <2>3
    <3>2. (\A k \in 1 .. Len(u) : u[k] \notin Questions!Marks)
            => \A i \in start .. (e - 1) : text[i] \notin Questions!Marks
      BY <2>4
    <3>3. (\A i \in start .. (e - 1) : text[i] \notin Questions!Marks)
            => \A k \in 1 .. Len(u) : u[k] \notin Questions!Marks
      BY <2>5
    <3>4. QED
      BY <3>1, <3>2, <3>3
  <2>7. QED
    BY <2>1, <2>2, <2>6, KindsApart DEF p
<1>6. QED
  BY <1>4, <1>5 DEF Uncited, e, u

\* A word that no marker stands by in its sentence.
Bare(text, i) ==
  /\ text[i] = "word"
  /\ \A j \in DOMAIN text : Questions!IsMarker(text[j]) => ~Questions!SameSentence(text, i, j)

LEMMA UnitIsBare ==
  ASSUME NEW text \in Seq(Tokens), NEW start \in 1 .. Len(text), Begins(text, start)
  PROVE  Uncited(Unit(text, start)) <=> \E i \in start .. (Questions!UnitEnd(text, start) - 1) : Bare(text, i)
<1> DEFINE e == Questions!UnitEnd(text, start)
<1>1. Len(text) \in Nat /\ e \in (start + 1) .. (Len(text) + 1) /\ DOMAIN text = 1 .. Len(text)
  BY UnitEndIn
<1>2. /\ e = Len(text) + 1 \/ Questions!Over(text, e - 1)
      /\ \A k \in start .. (e - 2) : ~Questions!Over(text, k)
  BY UnitIs
<1>3. Uncited(Unit(text, start)) <=> /\ \E i \in start .. (e - 1) : text[i] = "word"
                                    /\ \A i \in start .. (e - 1) : ~Questions!IsMarker(text[i])
  BY UnitClaims
<1> HIDE DEF e
<1>4. ASSUME NEW i \in start .. (e - 1), NEW j \in start .. (e - 1) PROVE Questions!SameSentence(text, i, j)
  <2>1. ASSUME NEW k \in i .. (j - 1) PROVE ~Questions!Over(text, k)
    BY <1>1, <1>2
  <2>2. ASSUME NEW k \in j .. (i - 1) PROVE ~Questions!Over(text, k)
    BY <1>1, <1>2
  <2>3. QED
    BY <2>1, <2>2 DEF Questions!SameSentence
<1>5. ASSUME NEW i \in start .. (e - 1), NEW j \in 1 .. Len(text), j \notin start .. (e - 1)
      PROVE  ~Questions!SameSentence(text, i, j)
  <2>1. i \in Nat /\ j \in Nat /\ start \in Nat /\ e \in Nat /\ start <= i /\ i <= e - 1 /\ 1 <= j /\ j <= Len(text)
    BY <1>1
  <2>2. CASE j < start
    <3>1. start # 1 /\ start - 1 \in j .. (i - 1) /\ ~(i <= j)
      BY <2>1, <2>2
    <3>2. Questions!Over(text, start - 1)
      BY <3>1 DEF Begins
    <3>3. QED
      BY <3>1, <3>2 DEF Questions!SameSentence
  <2>3. CASE j > e - 1
    <3>1. e # Len(text) + 1 /\ e - 1 \in i .. (j - 1) /\ i <= j
      BY <1>1, <2>1, <2>3
    <3>2. Questions!Over(text, e - 1)
      BY <1>2, <3>1
    <3>3. QED
      BY <3>1, <3>2 DEF Questions!SameSentence
  <2>4. QED
    BY <1>5, <2>1, <2>2, <2>3
<1>6. start .. (e - 1) \subseteq 1 .. Len(text)
  BY <1>1
<1>7. ASSUME NEW i \in start .. (e - 1)
      PROVE  Bare(text, i) <=> text[i] = "word" /\ \A j \in start .. (e - 1) : ~Questions!IsMarker(text[j])
  BY <1>1, <1>4, <1>5, <1>6, <1>7 DEF Bare
<1>8. QED
  BY <1>3, <1>7 DEF e

Leaves(units) == \E n \in DOMAIN units : Uncited(units[n])
LEMMA FirstThenRest ==
  ASSUME NEW S, NEW unit \in S, NEW rest \in Seq(S)
  PROVE  <<unit>> \o rest \in Seq(S) /\ (Leaves(<<unit>> \o rest) <=> Uncited(unit) \/ Leaves(rest))
<1> DEFINE all2 == <<unit>> \o rest
<1>1. /\ all2 \in Seq(S) /\ Len(rest) \in Nat /\ DOMAIN rest = 1 .. Len(rest)
      /\ DOMAIN all2 = 1 .. (Len(rest) + 1) /\ all2[1] = unit
      /\ \A n \in 1 .. Len(rest) : all2[n + 1] = rest[n]
  OBVIOUS
<1> HIDE DEF all2
<1>2. ASSUME NEW n \in DOMAIN all2, Uncited(all2[n]) PROVE Uncited(unit) \/ Leaves(rest)
  <2>1. CASE n = 1
    BY <1>1, <1>2, <2>1
  <2>2. CASE n # 1
    <3>1. n - 1 \in 1 .. Len(rest) /\ all2[(n - 1) + 1] = all2[n]
      BY <1>1, <2>2
    <3>2. Uncited(rest[n - 1])
      BY <1>1, <1>2, <3>1
    <3>3. QED
      BY <1>1, <3>1, <3>2 DEF Leaves
  <2>3. QED
    BY <2>1, <2>2
<1>3. Uncited(unit) => Leaves(all2)
  BY <1>1 DEF Leaves
<1>4. ASSUME NEW n \in DOMAIN rest, Uncited(rest[n]) PROVE Leaves(all2)
  <2>1. n + 1 \in DOMAIN all2 /\ all2[n + 1] = rest[n]
    BY <1>1
  <2>2. QED
    BY <1>4, <2>1 DEF Leaves
<1>5. QED
  BY <1>1, <1>2, <1>3, <1>4 DEF Leaves, all2

\* Cutting a draft leaves a claim without a marker exactly if some word is bare.
LEMMA ClaimsAreCited ==
  ASSUME NEW text \in Seq(Tokens), text # <<>>
  PROVE  Leaves(Questions!SplitClaims(text)) <=> \E i \in DOMAIN text : Bare(text, i)
<1> DEFINE Way(g) == g = [start \in 1 .. (Len(text) + 1) |->
                            IF start > Len(text) THEN <<>>
                            ELSE <<Unit(text, start)>> \o g[Questions!UnitEnd(text, start)]]
           units == CHOOSE g : Way(g)
<1>1. Len(text) \in Nat /\ Len(text) # 0 /\ DOMAIN text = 1 .. Len(text)
  OBVIOUS
<1>2. PICK g : Cut(g, text, 1)
  <2>1. Len(text) \in 0 .. Len(text) /\ Len(text) + 1 - Len(text) = 1
    BY <1>1
  <2>2. QED
    BY <2>1, CutsStand
<1>3. Way(g)
  <2>1. /\ g = [i \in 1 .. (Len(text) + 1) |-> g[i]] /\ g[Len(text) + 1] = <<>>
        /\ \A i \in 1 .. Len(text) : g[i] = <<Unit(text, i)>> \o g[Questions!UnitEnd(text, i)]
    BY <1>2 DEF Cut
  <2>2. \A i \in 1 .. (Len(text) + 1) :
          g[i] = IF i > Len(text) THEN <<>> ELSE <<Unit(text, i)>> \o g[Questions!UnitEnd(text, i)]
    <3>1. ASSUME NEW i \in 1 .. (Len(text) + 1)
          PROVE  g[i] = IF i > Len(text) THEN <<>> ELSE <<Unit(text, i)>> \o g[Questions!UnitEnd(text, i)]
      <4>1. CASE i > Len(text)
        <5>1. i = Len(text) + 1
          BY <1>1, <4>1
        <5>2. QED
          BY <2>1, <4>1, <5>1
      <4>2. CASE ~(i > Len(text))
        <5>1. i \in 1 .. Len(text)
          BY <1>1, <4>2
        <5>2. g[i] = <<Unit(text, i)>> \o g[Questions!UnitEnd(text, i)]
          BY <2>1, <5>1
        <5>3. QED
          BY <4>2, <5>2
      <4>3. QED
        BY <4>1, <4>2
    <3>2. QED
      BY <3>1
  <2>3. QED
    BY <2>1, <2>2, Zenon
<1>4. Way(units)
  BY <1>3
<1>5. Questions!SplitClaims(text) = units[1]
  BY DEF Questions!SplitClaims, Unit
<1> HIDE DEF units
<1>6. /\ units[Len(text) + 1] = <<>>
      /\ \A i \in 1 .. Len(text) : units[i] = <<Unit(text, i)>> \o units[Questions!UnitEnd(text, i)]
  <2>1. \A i \in 1 .. (Len(text) + 1) :
          units[i] = IF i > Len(text) THEN <<>> ELSE <<Unit(text, i)>> \o units[Questions!UnitEnd(text, i)]
    BY <1>4, Zenon
  <2>2. Len(text) + 1 \in 1 .. (Len(text) + 1) /\ Len(text) + 1 > Len(text)
    BY <1>1
  <2>3. ASSUME NEW i \in 1 .. Len(text) PROVE i \in 1 .. (Len(text) + 1) /\ ~(i > Len(text))
    BY <1>1
  <2>4. QED
    BY <2>1, <2>2, <2>3, Zenon
<1> HIDE DEF Way
<1> DEFINE Good(i) ==
             /\ units[i] \in Seq(Seq(Tokens))
             /\ i = Len(text) + 1 \/ Begins(text, i) =>
                  (Leaves(units[i]) <=> \E k \in i .. Len(text) : Bare(text, k))
           S == {n \in Nat : \A i \in 1 .. (Len(text) + 1) : Len(text) + 1 - i <= n => Good(i)}
<1>7. 0 \in S
  <2>1. \A i \in 1 .. (Len(text) + 1) : Len(text) + 1 - i <= 0 => i = Len(text) + 1
    BY <1>1
  <2>2. Good(Len(text) + 1)
    <3>1. <<>> \in Seq(Seq(Tokens)) /\ ~Leaves(<<>>)
      BY DEF Leaves
    <3>2. (Len(text) + 1) .. Len(text) = {}
      BY <1>1
    <3>3. QED
      BY <1>6, <3>1, <3>2
  <2> HIDE DEF Good
  <2>3. QED
    BY <2>1, <2>2
<1>8. ASSUME NEW n \in S PROVE n + 1 \in S
  <2>1. n \in Nat /\ \A i \in 1 .. (Len(text) + 1) : Len(text) + 1 - i <= n => Good(i)
    OBVIOUS
  <2> HIDE DEF S
  <2>2. ASSUME NEW i \in 1 .. (Len(text) + 1), Len(text) + 1 - i <= n + 1, ~(Len(text) + 1 - i <= n) PROVE Good(i)
    <3> DEFINE e == Questions!UnitEnd(text, i)
    <3>1. i \in 1 .. Len(text)
      BY <1>1, <2>1, <2>2
    <3>2. e \in (i + 1) .. (Len(text) + 1)
      BY <3>1, UnitEndIn
    <3>3. units[i] = <<Unit(text, i)>> \o units[e]
      BY <1>6, <3>1
    <3>4. Unit(text, i) \in Seq(Tokens)
      BY <1>1, <3>1, <3>2 DEF Unit
    <3>5. Begins(text, i) => (Uncited(Unit(text, i)) <=> \E k \in i .. (e - 1) : Bare(text, k))
      BY <3>1, UnitIsBare
    <3>6. Begins(text, i) => e = Len(text) + 1 \/ Begins(text, e)
      BY <3>1, UnitIs DEF Begins
    <3> HIDE DEF e, Good
    <3>7. Good(e)
      <4>1. e \in 1 .. (Len(text) + 1) /\ Len(text) + 1 - e <= n
        BY <1>1, <2>1, <2>2, <3>1, <3>2
      <4>2. QED
        BY <2>1, <4>1
    <3>8. /\ units[e] \in Seq(Seq(Tokens))
          /\ e = Len(text) + 1 \/ Begins(text, e) => (Leaves(units[e]) <=> \E k \in e .. Len(text) : Bare(text, k))
      BY <3>7 DEF Good
    <3>9. units[i] \in Seq(Seq(Tokens)) /\ (Leaves(units[i]) <=> Uncited(Unit(text, i)) \/ Leaves(units[e]))
      BY <3>3, <3>4, <3>8, FirstThenRest
    <3>10. (\E k \in i .. Len(text) : Bare(text, k))
             <=> (\E k \in i .. (e - 1) : Bare(text, k)) \/ (\E k \in e .. Len(text) : Bare(text, k))
      <4>1. i .. Len(text) = (i .. (e - 1)) \union (e .. Len(text))
        BY <1>1, <3>1, <3>2
      <4>2. QED
        BY <4>1
    <3>11. i # Len(text) + 1
      BY <1>1, <3>1
    <3>12. QED
      BY <3>5, <3>6, <3>8, <3>9, <3>10, <3>11 DEF Good
  <2> HIDE DEF Good
  <2>3. QED
    BY <2>1, <2>2 DEF S
<1> HIDE DEF S
<1>9. S = Nat
  <2>1. S \in SUBSET Nat
    BY DEF S
  <2>2. QED
    BY <1>7, <1>8, <2>1, Counting
<1>10. Good(1)
  <2>1. Len(text) \in S /\ 1 \in 1 .. (Len(text) + 1) /\ Len(text) + 1 - 1 <= Len(text)
    BY <1>1, <1>9
  <2> HIDE DEF Good
  <2>2. QED
    BY <2>1 DEF S
<1>11. Begins(text, 1)
  BY DEF Begins
<1>12. QED
  BY <1>1, <1>5, <1>10, <1>11

\* The gate lets a draft through exactly when no marker of it is broken and all it
\* names was retrieved and is there now, each word has a marker in its own sentence,
\* and then cites what the draft names, each once (citations.py, validate).
LEMMA GateIsRight ==
  ASSUME NEW draft \in Seq(Tokens), NEW retrieved \in SUBSET Moments, NEW found
  PROVE  Questions!GateDecides(draft, retrieved, found)
<1> DEFINE answer == Questions!Validate(draft, retrieved, found)
           payloads == Questions!ParseMarkers(draft)
           cited == Questions!DistinctInOrder(payloads)
<1>1. /\ payloads \in Seq(Tokens) /\ Questions!ToSet(payloads) = Questions!ToSet(draft) \intersect Questions!Marks
      /\ Questions!ToSet(cited) = Questions!ToSet(payloads) /\ Questions!IsInjective(cited)
  <2>1. /\ payloads \in Seq(Tokens)
        /\ Questions!ToSet(payloads) = Questions!ToSet(draft) \intersect Questions!Marks
    BY AmongIs DEF Questions!ParseMarkers
  <2> HIDE DEF payloads
  <2>2. Questions!ToSet(cited) = Questions!ToSet(payloads) /\ Questions!IsInjective(cited)
    BY <2>1, DistinctIs
  <2>3. QED
    BY <2>1, <2>2
<1>2. answer.verdict = "answered" <=>
        /\ ~Questions!Contains(draft, "open") /\ Questions!Contains(draft, "word") /\ payloads # <<>>
        /\ ~\E i \in DOMAIN payloads : payloads[i] = NoId \/ payloads[i] \notin retrieved
        /\ ~\E i \in DOMAIN Questions!SplitClaims(draft) :
              /\ Questions!IsClaim(Questions!SplitClaims(draft)[i])
              /\ Questions!ParseMarkers(Questions!SplitClaims(draft)[i]) = <<>>
        /\ Questions!ToSet(cited) \subseteq found
  BY DEF Questions!Validate, Questions!Rejected
<1>3. answer.verdict = "answered" => answer.citations = cited
  BY DEF Questions!Validate, Questions!Rejected
<1> HIDE DEF answer, cited, payloads
<1>4. (\E i \in DOMAIN Questions!SplitClaims(draft) :
          /\ Questions!IsClaim(Questions!SplitClaims(draft)[i])
          /\ Questions!ParseMarkers(Questions!SplitClaims(draft)[i]) = <<>>)
        <=> Leaves(Questions!SplitClaims(draft))
  BY DEF Leaves, Uncited
<1>5. Questions!Contains(draft, "word") => draft # <<>>
  BY DEF Questions!Contains
<1>6. (~\E i \in DOMAIN payloads : payloads[i] = NoId \/ payloads[i] \notin retrieved)
        <=> Questions!ToSet(payloads) \subseteq retrieved
  BY RoomAndPlaces DEF Questions!ToSet
<1>7. Questions!ToSet(payloads) \subseteq retrieved /\ Questions!ToSet(cited) \subseteq found
        <=> \A i \in DOMAIN draft : Questions!IsMarker(draft[i]) => draft[i] \in retrieved \intersect found
  BY <1>1, KindsApart DEF Questions!ToSet
<1>8. (~\E i \in DOMAIN draft : Bare(draft, i))
        <=> \A i \in DOMAIN draft : draft[i] = "word" =>
              \E j \in DOMAIN draft : Questions!IsMarker(draft[j]) /\ Questions!SameSentence(draft, i, j)
  BY DEF Bare
<1>9. draft # <<>> => (Leaves(Questions!SplitClaims(draft)) <=> \E i \in DOMAIN draft : Bare(draft, i))
  BY ClaimsAreCited
\* A draft without markers leaves its words bare.
<1>10. Questions!Contains(draft, "word") /\ (~\E i \in DOMAIN draft : Bare(draft, i)) => payloads # <<>>
  <2>1. SUFFICES ASSUME Questions!Contains(draft, "word"), ~\E i \in DOMAIN draft : Bare(draft, i) PROVE payloads # <<>>
    OBVIOUS
  <2>2. PICK i \in DOMAIN draft : draft[i] = "word"
    BY <2>1 DEF Questions!Contains
  <2>3. PICK j \in DOMAIN draft : Questions!IsMarker(draft[j])
    BY <1>8, <2>1, <2>2
  <2>4. draft[j] \in Questions!ToSet(payloads)
    BY <1>1, <2>3, KindsApart DEF Questions!ToSet
  <2>5. QED
    BY <2>4 DEF Questions!ToSet
<1>11. answer.verdict = "answered" <=> Questions!Citable(draft, retrieved, found)
  BY <1>2, <1>4, <1>5, <1>6, <1>7, <1>8, <1>9, <1>10 DEF Questions!Citable
<1>12. QED
  BY <1>1, <1>3, <1>11 DEF Questions!GateDecides, answer, payloads

\* So whatever draft the gate is given, it decides as it should.
THEOREM TheGateDecides == Spec => []GateDecides
<1> DEFINE Inv == scene = "gate" => input \in Inputs["gate"] /\ "gate" \in DOMAIN Inputs
<1>1. Init => Inv
  BY DEF Init, Components
<1>2. Inv /\ [Next]_all => Inv'
  BY DEF Next, all
<1>3. Inv => GateDecides
  BY GateIsRight, GateIsGiven DEF GateDecides, Tokens
<1>4. QED
  BY <1>1, <1>2, <1>3, PTL DEF Spec

-----------------------------------------------------------------------------
(* The pages of a keyword search: parts of two sequences, artifacts first.  *)

Found == searchIndex.artifacts
Ranking == searchIndex.keyword
NoneTwice(s) == \A i, j \in DOMAIN s : s[i] = s[j] => i = j
Shorter(a, b) == IF a <= b THEN a ELSE b
\* w is what s has from one place to another, as far as s goes.
Window(w, s, from, to) ==
  /\ Len(w) = IF from < Shorter(to, Len(s)) THEN Shorter(to, Len(s)) - from ELSE 0
  /\ \A i \in 1 .. Len(w) : w[i] = s[from + i]

LEMMA SearchPlaces == \A s, T : Search!Among(s, T) = Questions!Among(s, T)
<1>1. \A S : Search!Cardinality(S) = Questions!Cardinality(S)
  BY DEF Search!Cardinality, Questions!Cardinality
<1>2. \A I, n : Search!Nth(I, n) = Questions!Nth(I, n)
  BY <1>1 DEF Search!Nth, Questions!Nth
<1>3. \A s, I : Search!Picked(s, I) = Questions!Picked(s, I)
  BY <1>1, <1>2 DEF Search!Picked, Questions!Picked
<1>4. QED
  BY <1>3 DEF Search!Among, Questions!Among

LEMMA ShorterIs ==
  ASSUME NEW a \in Nat, NEW b \in Nat
  PROVE  Search!Min({a, b}) = Shorter(a, b) /\ Shorter(a, b) \in Nat /\ Shorter(a, b) <= a /\ Shorter(a, b) <= b
<1>1. Shorter(a, b) \in {a, b} /\ \A y \in {a, b} : Shorter(a, b) <= y
  BY DEF Shorter
<1>2. \A x \in {a, b} : (\A y \in {a, b} : x <= y) => x = Shorter(a, b)
  BY DEF Shorter
<1>3. Search!Min({a, b}) = CHOOSE x \in {a, b} : \A y \in {a, b} : x <= y
  BY DEF Search!Min
<1>4. Search!Min({a, b}) = Shorter(a, b)
  BY <1>1, <1>2, <1>3
<1>5. QED
  BY <1>1, <1>4 DEF Shorter

LEMMA SliceIs ==
  ASSUME NEW S, NEW s \in Seq(S), NEW from \in Nat, NEW to \in Nat
  PROVE  Search!Slice(s, from, to) \in Seq(S) /\ Window(Search!Slice(s, from, to), s, from, to)
<1> DEFINE m == Search!Min({to, Len(s)})
<1>0. Len(s) \in Nat
  OBVIOUS
<1>1. \A i \in 1 .. Len(s) : s[i] \in S
  OBVIOUS
<1>2. m = Shorter(to, Len(s)) /\ m \in Nat /\ m <= Len(s)
  BY <1>0, ShorterIs
<1>3. Search!Slice(s, from, to) = SubSeq(s, from + 1, m)
  BY DEF Search!Slice
<1> HIDE DEF m
<1>4. m \in Nat /\ m <= Len(s)
  BY <1>2
<1>5. \A i \in from + 1 .. m : s[i] \in S
  BY <1>0, <1>1, <1>4
<1>6. /\ SubSeq(s, from + 1, m) \in Seq(S)
      /\ Len(SubSeq(s, from + 1, m)) = IF from + 1 <= m THEN m - (from + 1) + 1 ELSE 0
      /\ \A i \in 1 .. m - (from + 1) + 1 : SubSeq(s, from + 1, m)[i] = s[from + 1 + i - 1]
  BY <1>4, <1>5, SubSeqProperties
<1> DEFINE w == SubSeq(s, from + 1, m)
<1> HIDE DEF w
<1>7. w \in Seq(S) /\ Len(w) = (IF from < m THEN m - from ELSE 0) /\ \A i \in 1 .. m - from : w[i] = s[from + i]
  BY <1>4, <1>6 DEF w
<1>8. \A i \in 1 .. Len(w) : w[i] = s[from + i]
  BY <1>4, <1>7
<1>9. QED
  BY <1>2, <1>3, <1>7, <1>8 DEF w, Window

\* Of a sequence that lies in a set altogether, nothing is left out.
LEMMA AllAmong ==
  ASSUME NEW S, NEW s \in Seq(S), NEW T, \A i \in DOMAIN s : s[i] \in T
  PROVE  Search!Among(s, T) = s
<1> DEFINE I == {i \in DOMAIN s : s[i] \in T}
<1>1. Len(s) \in Nat /\ DOMAIN s = 1 .. Len(s) /\ s = [i \in 1 .. Len(s) |-> s[i]]
  OBVIOUS
<1>2. I = 1 .. Len(s)
  BY <1>1
<1>3. Search!Among(s, T) = Questions!Picked(s, I)
  BY SearchPlaces DEF Questions!Among
<1> HIDE DEF I
<1>4. I \in SUBSET Nat /\ IsFiniteSet(I) /\ Cardinality(I) = Len(s)
  BY <1>1, <1>2, FS_Interval
<1>5. ASSUME NEW n \in 1 .. Len(s) PROVE Questions!Nth(I, n) = n
  <2>1. n \in Nat /\ n \in I /\ UpTo(I, n) = 1 .. n
    BY <1>1, <1>2 DEF UpTo
  <2>2. Cardinality(UpTo(I, n)) = n
    BY <2>1, FS_Interval
  <2>3. n = Questions!Nth(I, Cardinality(UpTo(I, n)))
    BY <1>4, <2>1, NthStands
  <2>4. QED
    BY <2>2, <2>3
<1>6. Questions!Picked(s, I) = [n \in 1 .. Len(s) |-> s[Questions!Nth(I, n)]]
  BY <1>4, CountsAlike DEF Questions!Picked
<1>7. QED
  BY <1>1, <1>3, <1>5, <1>6

LEMMA PlacesCount == \A n \in Nat : IsFiniteSet(1 .. n) /\ Cardinality(1 .. n) = n
  BY FS_Interval

LEMMA AmongFits ==
  ASSUME NEW S, NEW s \in Seq(S), NEW T
  PROVE  Len(Search!Among(s, T)) \in Nat /\ Len(Search!Among(s, T)) <= Len(s)
<1> DEFINE I == {i \in DOMAIN s : s[i] \in T}
<1>1. Len(s) \in Nat /\ DOMAIN s = 1 .. Len(s)
  OBVIOUS
<1>2. IsFiniteSet(1 .. Len(s)) /\ Cardinality(1 .. Len(s)) = Len(s)
  BY <1>1, PlacesCount
<1>3. Cardinality(I) <= Len(s)
  BY <1>1, <1>2, FS_Subset
<1>4. Search!Among(s, T) = Questions!Picked(s, I)
  BY SearchPlaces DEF Questions!Among
<1>5. Len(Questions!Picked(s, I)) = Cardinality(I) /\ Cardinality(I) \in Nat
  BY PickedIs
<1>6. QED
  BY <1>3, <1>4, <1>5

\* With no weight on the semantic lane the merge is the keyword lane.
LEMMA MergeIs ==
  ASSUME NEW S, NEW keyword \in Seq(S), NEW semantic \in Seq({}), NEW count \in Nat
  PROVE  LET merged == Search!MergeSearchLanes(keyword, semantic, 0, count)
         IN merged \in Seq(S) /\ Window(merged, keyword, 0, count)
<1> DEFINE own == Search!Among(semantic, FoundMoments \ Search!ToSet(keyword))
           place(taken, position) ==
             LET k == taken.k < Len(keyword)
                 s == taken.s < Len(own)
                 fromSemantic == s /\ (Search!SemanticSlot(position, 0) \/ ~k)
             IN IF fromSemantic THEN [taken EXCEPT !.s = @ + 1, !.merged = Append(@, own[taken.s + 1])]
                ELSE IF k THEN [taken EXCEPT !.k = @ + 1, !.merged = Append(@, keyword[taken.k + 1])]
                ELSE taken
           Way(g) == g = [n \in 0 .. count |-> IF n = 0 THEN [k |-> 0, s |-> 0, merged |-> <<>>] ELSE place(g[n - 1], n - 1)]
           way == CHOOSE g : Way(g)
           Taken(n) == [k |-> Shorter(n, Len(keyword)), s |-> 0, merged |-> SubSeq(keyword, 1, Shorter(n, Len(keyword)))]
           takes == [n \in 0 .. count |-> Taken(n)]
<1>1. Search!MergeSearchLanes(keyword, semantic, 0, count) = way[count].merged
  BY DEF Search!MergeSearchLanes
<1>2. Len(own) = 0
  <2>1. semantic \in Seq({}) /\ Len(semantic) \in Nat
    OBVIOUS
  <2>2. Len(semantic) = 0
    <3>1. ASSUME Len(semantic) # 0 PROVE FALSE
      BY <2>1, <3>1
    <3>2. QED
      BY <3>1
  <2> DEFINE others == FoundMoments \ Search!ToSet(keyword)
  <2> HIDE DEF others
  <2>3. Len(Search!Among(semantic, others)) \in Nat /\ Len(Search!Among(semantic, others)) <= Len(semantic)
    BY AmongFits
  <2>4. QED
    BY <2>2, <2>3 DEF others
<1>3. Len(keyword) \in Nat /\ \A i \in 1 .. Len(keyword) : keyword[i] \in S
  OBVIOUS
<1>4. ASSUME NEW n \in Nat PROVE Taken(n + 1) = place(Taken(n), n)
  <2> DEFINE t == Taken(n)
  <2>1. t.k = Shorter(n, Len(keyword)) /\ t.s = 0 /\ t.merged = SubSeq(keyword, 1, Shorter(n, Len(keyword)))
    OBVIOUS
  <2>2. ~(t.s < Len(own))
    BY <1>2, <2>1
  <2>3. place(t, n) = IF t.k < Len(keyword) THEN [t EXCEPT !.k = @ + 1, !.merged = Append(@, keyword[t.k + 1])] ELSE t
    BY <2>2
  <2>4. CASE n < Len(keyword)
    <3>1. Shorter(n, Len(keyword)) = n /\ Shorter(n + 1, Len(keyword)) = n + 1
      BY <1>3, <2>4 DEF Shorter
    <3>2. SubSeq(keyword, 1, n + 1) = Append(SubSeq(keyword, 1, n), keyword[n + 1])
      BY <1>3, <2>4
    <3> DEFINE before == SubSeq(keyword, 1, n)
               after == SubSeq(keyword, 1, n + 1)
    <3>3. t = [k |-> n, s |-> 0, merged |-> before] /\ Taken(n + 1) = [k |-> n + 1, s |-> 0, merged |-> after]
      BY <3>1
    <3>4. after = Append(before, keyword[n + 1])
      BY <3>2
    <3>5. place(t, n) = [t EXCEPT !.k = @ + 1, !.merged = Append(@, keyword[t.k + 1])]
      BY <2>1, <2>3, <2>4, <3>1
    <3> HIDE DEF before, after, t, Taken, place
    <3>6. place(t, n) = [k |-> n + 1, s |-> 0, merged |-> Append(before, keyword[n + 1])]
      BY <3>3, <3>5
    <3>7. QED
      BY <3>3, <3>4, <3>6 DEF t
  <2>5. CASE ~(n < Len(keyword))
    <3>1. Shorter(n, Len(keyword)) = Len(keyword) /\ Shorter(n + 1, Len(keyword)) = Len(keyword)
      BY <1>3, <2>5 DEF Shorter
    <3>2. ~(t.k < Len(keyword))
      BY <1>3, <2>1, <3>1
    <3>3. place(t, n) = t
      BY <2>3, <3>2
    <3>4. Taken(n + 1) = t
      BY <3>1
    <3>5. QED
      BY <3>3, <3>4
  <2>6. QED
    BY <2>4, <2>5
<1>5. Taken(0) = [k |-> 0, s |-> 0, merged |-> <<>>]
  <2>1. Shorter(0, Len(keyword)) = 0
    BY <1>3 DEF Shorter
  <2>2. SubSeq(keyword, 1, 0) = <<>>
    BY SubSeqEmpty
  <2>3. QED
    BY <2>1, <2>2
<1> HIDE DEF own
<1> HIDE DEF place, Taken
<1>6. Way(takes)
  <2>1. ASSUME NEW n \in 0 .. count
        PROVE  takes[n] = IF n = 0 THEN [k |-> 0, s |-> 0, merged |-> <<>>] ELSE place(takes[n - 1], n - 1)
    <3>1. CASE n = 0
      BY <1>5, <3>1
    <3>2. CASE n # 0
      <4>1. n - 1 \in Nat /\ n - 1 \in 0 .. count /\ (n - 1) + 1 = n
        BY <3>2
      <4>2. Taken(n) = place(Taken(n - 1), n - 1)
        BY <1>4, <4>1
      <4>3. QED
        BY <3>2, <4>1, <4>2
    <3>3. QED
      BY <3>1, <3>2
  <2>2. QED
    BY <2>1
<1>7. Way(way)
  BY <1>6
<1> HIDE DEF way
<1> DEFINE T == {n \in Nat : n <= count => way[n] = Taken(n)}
<1>8. T = Nat
  <2>1. T \in SUBSET Nat
    OBVIOUS
  <2>2. 0 \in T
    BY <1>5, <1>7
  <2>3. ASSUME NEW n \in T PROVE n + 1 \in T
    <3>1. SUFFICES ASSUME n + 1 <= count PROVE way[n + 1] = Taken(n + 1)
      OBVIOUS
    <3>2. way[n + 1] = place(way[n], n)
      BY <1>7, <3>1
    <3>3. way[n] = Taken(n)
      BY <3>1
    <3>4. QED
      BY <1>4, <3>2, <3>3
  <2> HIDE DEF T
  <2>4. QED
    BY <2>1, <2>2, <2>3, Counting
<1>9. way[count] = Taken(count)
  BY <1>8
<1> DEFINE n == Shorter(count, Len(keyword))
           merged == SubSeq(keyword, 1, n)
<1>10. n \in Nat /\ n <= Len(keyword)
  BY <1>3 DEF Shorter
<1>11. way[count].merged = merged
  <2>1. way[count] = [k |-> n, s |-> 0, merged |-> merged]
    BY <1>9 DEF Taken
  <2> HIDE DEF merged
  <2>2. QED
    BY <2>1
<1> HIDE DEF n
<1>12. /\ SubSeq(keyword, 1, n) \in Seq(S)
       /\ Len(SubSeq(keyword, 1, n)) = IF 1 <= n THEN n - 1 + 1 ELSE 0
       /\ \A i \in 1 .. n - 1 + 1 : SubSeq(keyword, 1, n)[i] = keyword[1 + i - 1]
  <2>1. \A i \in 1 .. n : keyword[i] \in S
    BY <1>3, <1>10
  <2>2. QED
    BY <1>10, <2>1, SubSeqProperties
<1> HIDE DEF merged
<1>13. merged \in Seq(S) /\ Len(merged) = n /\ \A i \in 1 .. n : merged[i] = keyword[i]
  BY <1>10, <1>12 DEF merged
<1>14. Window(merged, keyword, 0, count)
  <2>1. Len(merged) = IF 0 < n THEN n - 0 ELSE 0
    BY <1>10, <1>13
  <2>2. \A i \in 1 .. Len(merged) : merged[i] = keyword[0 + i]
    BY <1>13
  <2>3. QED
    BY <2>1, <2>2 DEF Window, n
<1>15. QED
  BY <1>1, <1>11, <1>13, <1>14

LEMMA KeywordPage ==
  ASSUME ratio = 0, Ranking \in Seq(FoundMoments), Limit \in Nat, NEW offset \in Nat, NEW hybrid
  PROVE  LET got == Search!SearchMoments(offset, Limit, hybrid)
         IN got \in Seq(FoundMoments) /\ Window(got, Ranking, offset, offset + Limit)
<1> DEFINE count == offset + Limit
           lane == Search!Slice(Ranking, 0, count)
           none == Search!Ids(<<>>)
           merged == Search!MergeSearchLanes(lane, none, 0, count)
           got == Search!Slice(merged, offset, count)
<1>1. Search!SearchMoments(offset, Limit, hybrid) = got
  <2>1. ~(hybrid /\ ratio > 0) /\ (IF hybrid THEN ratio ELSE 0) = 0
    OBVIOUS
  <2>2. QED
    BY <2>1 DEF Search!SearchMoments, Ranking
<1>2. none \in Seq({})
  BY DEF Search!Ids
<1>3. count \in Nat /\ Len(Ranking) \in Nat
  OBVIOUS
<1> HIDE DEF none
<1>4. lane \in Seq(FoundMoments) /\ Window(lane, Ranking, 0, count)
  BY <1>3, SliceIs
<1> HIDE DEF lane
<1>5. merged \in Seq(FoundMoments) /\ Window(merged, lane, 0, count)
  BY <1>2, <1>3, <1>4, MergeIs
<1> HIDE DEF merged
<1>6. got \in Seq(FoundMoments) /\ Window(got, merged, offset, count)
  BY <1>3, <1>5, SliceIs
<1> HIDE DEF got
<1>7. Len(lane) = Shorter(count, Len(Ranking)) /\ \A i \in 1 .. Len(lane) : lane[i] = Ranking[i]
  BY <1>3, <1>4 DEF Window, Shorter
<1>8. Len(merged) = Shorter(count, Len(Ranking)) /\ \A i \in 1 .. Len(merged) : merged[i] = Ranking[i]
  BY <1>3, <1>5, <1>7 DEF Window, Shorter
<1>9. Len(got) = IF offset < Shorter(count, Len(Ranking)) THEN Shorter(count, Len(Ranking)) - offset ELSE 0
  BY <1>3, <1>6, <1>8 DEF Window, Shorter
<1>10. ASSUME NEW i \in 1 .. Len(got) PROVE got[i] = Ranking[offset + i]
  <2>1. offset + i \in 1 .. Len(merged)
    BY <1>3, <1>8, <1>9 DEF Shorter
  <2>2. QED
    BY <1>6, <1>8, <2>1 DEF Window
<1>11. QED
  BY <1>1, <1>6, <1>9, <1>10 DEF Window

\* The one sequence behind the pages, and what a stretch of it comes to.
Placed(p) == IF p <= Len(Found) THEN Found[p] ELSE Ranking[p - Len(Found)]
End == Len(Found) + Len(Ranking)
Served == FoundArtifacts \union FoundMoments
Covers(s, from, to) ==
  /\ s \in Seq(Served) /\ NoneTwice(s)
  /\ \A i \in DOMAIN s : \E p \in from + 1 .. Shorter(to, End) : s[i] = Placed(p)
  /\ \A p \in from + 1 .. Shorter(to, End) : Placed(p) \in row.live => \E i \in DOMAIN s : s[i] = Placed(p)
Drawn(s, from) ==
  /\ \A i \in DOMAIN s : \E j \in DOMAIN from : s[i] = from[j]
  /\ \A j \in DOMAIN from : from[j] \in row.live => \E i \in DOMAIN s : s[i] = from[j]
Past(offset) == IF offset > Len(Found) THEN offset - Len(Found) ELSE 0

IndexInv ==
  /\ Found \in Seq(FoundArtifacts) /\ NoneTwice(Found)
  /\ Ranking \in Seq(FoundMoments) /\ NoneTwice(Ranking)

LEMMA PlacedApart == ASSUME IndexInv, NEW p \in 1 .. End, NEW q \in 1 .. End, Placed(p) = Placed(q) PROVE p = q
<1>1. /\ Len(Found) \in Nat /\ DOMAIN Found = 1 .. Len(Found) /\ \A i \in 1 .. Len(Found) : Found[i] \in FoundArtifacts
      /\ Len(Ranking) \in Nat /\ DOMAIN Ranking = 1 .. Len(Ranking) /\ \A i \in 1 .. Len(Ranking) : Ranking[i] \in FoundMoments
  BY DEF IndexInv
<1>2. \A x : ~(x \in FoundArtifacts /\ x \in FoundMoments)
  BY SearchIsGiven
<1>3. /\ p <= Len(Found) => p \in 1 .. Len(Found)
      /\ q <= Len(Found) => q \in 1 .. Len(Found)
      /\ ~(p <= Len(Found)) => p - Len(Found) \in 1 .. Len(Ranking)
      /\ ~(q <= Len(Found)) => q - Len(Found) \in 1 .. Len(Ranking)
  BY <1>1 DEF End
<1>4. CASE p <= Len(Found) /\ q <= Len(Found)
  <2>1. Found[p] = Found[q] /\ p \in DOMAIN Found /\ q \in DOMAIN Found
    BY <1>1, <1>3, <1>4 DEF Placed
  <2>2. QED
    BY <2>1 DEF IndexInv, NoneTwice
<1>5. CASE ~(p <= Len(Found)) /\ ~(q <= Len(Found))
  <2>1. /\ Ranking[p - Len(Found)] = Ranking[q - Len(Found)]
        /\ p - Len(Found) \in DOMAIN Ranking /\ q - Len(Found) \in DOMAIN Ranking
    BY <1>1, <1>3, <1>5 DEF Placed
  <2>2. p - Len(Found) = q - Len(Found)
    BY <2>1 DEF IndexInv, NoneTwice
  <2>3. QED
    BY <1>1, <2>2
<1>6. CASE p <= Len(Found) /\ ~(q <= Len(Found))
  BY <1>1, <1>2, <1>3, <1>6 DEF Placed
<1>7. CASE ~(p <= Len(Found)) /\ q <= Len(Found)
  BY <1>1, <1>2, <1>3, <1>7 DEF Placed
<1>8. QED
  BY <1>4, <1>5, <1>6, <1>7

\* Which places of the sequence a page's artifacts and its moments stand at.
Placing(a, k, offset, limit, m, l, n, past, base) ==
  /\ a \in Nat /\ k \in Nat /\ offset \in Nat /\ limit \in Nat /\ m \in Nat /\ l \in Nat /\ n \in Nat
  /\ past = (IF offset > a THEN offset - a ELSE 0)
  /\ base = (IF offset > a THEN offset ELSE a)
  /\ m = (IF offset < Shorter(offset + limit, a) THEN Shorter(offset + limit, a) - offset ELSE 0)
  /\ l = (IF past < Shorter(past + limit, k) THEN Shorter(past + limit, k) - past ELSE 0)
  /\ n = (IF 0 < Shorter(limit - m, l) THEN Shorter(limit - m, l) - 0 ELSE 0)
Spanning(a, k, offset, limit, m, l, n, past, base) ==
  /\ m <= limit /\ base \in Nat /\ past \in Nat /\ n <= l /\ m + n <= limit
  /\ \A j \in 1 .. m : offset + j <= a /\ offset + j \in offset + 1 .. Shorter(offset + limit, a + k)
  /\ \A i \in 1 .. n : /\ past + i <= k /\ ~(base + i <= a) /\ base + i - a = past + i
                       /\ base + i \in offset + 1 .. Shorter(offset + limit, a + k)
  /\ \A p \in offset + 1 .. Shorter(offset + limit, a + k) :
       p - offset \in 1 .. m \/ (p - base \in 1 .. n /\ p - base \in Nat)
  /\ \A p \in offset + 1 .. Shorter(offset + limit, a + k) : p \in 1 .. a + k
LEMMA PagePlaces ==
  ASSUME NEW a, NEW k, NEW offset, NEW limit, NEW m, NEW l, NEW n, NEW past, NEW base,
         Placing(a, k, offset, limit, m, l, n, past, base)
  PROVE  Spanning(a, k, offset, limit, m, l, n, past, base)
<1>1. CASE offset > a
  <2>1. past = offset - a /\ base = offset /\ m = 0 /\ past \in Nat
    BY <1>1 DEF Placing, Shorter
  <2>2. a \in Nat /\ k \in Nat /\ offset \in Nat /\ limit \in Nat /\ l \in Nat /\ n \in Nat
    BY DEF Placing
  <2>3. n = (IF limit <= l THEN limit ELSE l)
    <3>1. limit - m = limit
      BY <2>1, <2>2
    <3>2. n = IF 0 < Shorter(limit, l) THEN Shorter(limit, l) - 0 ELSE 0
      BY <3>1 DEF Placing
    <3>3. QED
      BY <2>2, <3>2 DEF Shorter
  <2>4. l = IF past < Shorter(past + limit, k) THEN Shorter(past + limit, k) - past ELSE 0
    BY DEF Placing
  <2>5. n <= l /\ n <= limit
    BY <2>2, <2>3
  <2>6. QED
    BY <1>1, <2>1, <2>2, <2>3, <2>4, <2>5 DEF Shorter, Spanning
<1>2. CASE ~(offset > a)
  <2>1. past = 0 /\ base = a /\ m = Shorter(limit, a - offset) /\ l = Shorter(limit, k)
    BY <1>2 DEF Placing, Shorter
  <2>2. a \in Nat /\ k \in Nat /\ offset \in Nat /\ limit \in Nat /\ m \in Nat /\ l \in Nat /\ n \in Nat
    BY DEF Placing
  <2>3. n = Shorter(limit - m, l) /\ m <= limit
    BY <1>2, <2>1, <2>2 DEF Placing, Shorter
  <2>4. QED
    BY <1>2, <2>1, <2>2, <2>3 DEF Shorter, Spanning
<1>3. QED
  BY <1>1, <1>2

\* A page: what still exists of the artifacts at its places, then the moments that
\* come after all artifacts, as many as the artifacts' places leave.
LEMMA PageCovers ==
  ASSUME IndexInv, Limit \in Nat, NEW offset \in Nat, FoundMoments \subseteq row.live,
         NEW artifacts \in Seq(FoundArtifacts), Window(artifacts, Found, offset, offset + Limit),
         NEW moments \in Seq(FoundMoments), Window(moments, Ranking, Past(offset), Past(offset) + Limit),
         NEW first \in Seq(FoundArtifacts), NoneTwice(first), Drawn(first, artifacts), Len(first) <= Len(artifacts),
         NEW more \in Seq(FoundMoments), Window(more, moments, 0, Limit - Len(artifacts))
  PROVE  /\ Covers(first \o more, offset, offset + Limit)
         /\ Len(first \o more) <= Limit
<1> DEFINE a == Len(Found)
           k == Len(Ranking)
           past == Past(offset)
           base == IF offset > a THEN offset ELSE a
           m == Len(artifacts)
           l == Len(moments)
           n == Len(more)
           s == first \o more
<1>1. /\ a \in Nat /\ DOMAIN Found = 1 .. a /\ k \in Nat /\ DOMAIN Ranking = 1 .. k
      /\ m \in Nat /\ DOMAIN artifacts = 1 .. m
      /\ l \in Nat /\ DOMAIN moments = 1 .. l
      /\ Len(first) \in Nat /\ DOMAIN first = 1 .. Len(first)
      /\ n \in Nat /\ DOMAIN more = 1 .. n
  BY DEF IndexInv
<1>2. /\ a \in Nat /\ k \in Nat /\ m \in Nat /\ l \in Nat /\ n \in Nat /\ Len(first) \in Nat
      /\ past = (IF offset > a THEN offset - a ELSE 0)
      /\ base = (IF offset > a THEN offset ELSE a)
      /\ m = (IF offset < Shorter(offset + Limit, a) THEN Shorter(offset + Limit, a) - offset ELSE 0)
      /\ l = (IF past < Shorter(past + Limit, k) THEN Shorter(past + Limit, k) - past ELSE 0)
      /\ n = (IF 0 < Shorter(Limit - m, l) THEN Shorter(Limit - m, l) - 0 ELSE 0)
  BY <1>1 DEF Window, Past
<1>3. /\ \A i \in 1 .. m : artifacts[i] = Found[offset + i]
      /\ \A i \in 1 .. l : moments[i] = Ranking[past + i]
      /\ \A i \in 1 .. n : more[i] = moments[0 + i]
  BY DEF Window
<1>4. End = a + k
  BY DEF End
<1>5. /\ m <= Limit /\ base \in Nat /\ past \in Nat /\ n <= l /\ m + n <= Limit
      /\ \A j \in 1 .. m : offset + j <= a /\ offset + j \in offset + 1 .. Shorter(offset + Limit, a + k)
      /\ \A i \in 1 .. n : /\ past + i <= k /\ ~(base + i <= a) /\ base + i - a = past + i
                           /\ base + i \in offset + 1 .. Shorter(offset + Limit, a + k)
      /\ \A p \in offset + 1 .. Shorter(offset + Limit, a + k) :
           p - offset \in 1 .. m \/ (p - base \in 1 .. n /\ p - base \in Nat)
      /\ \A p \in offset + 1 .. Shorter(offset + Limit, a + k) : p \in 1 .. a + k
  <2>1. Placing(a, k, offset, Limit, m, l, n, past, base)
    BY <1>2 DEF Placing
  <2> HIDE DEF a, k, m, l, n, past, base
  <2>2. Spanning(a, k, offset, Limit, m, l, n, past, base)
    BY <2>1, PagePlaces
  <2>3. QED
    BY <2>2 DEF Spanning
<1>6. /\ Len(s) = Len(first) + n /\ s \in Seq(Served) /\ DOMAIN s = 1 .. Len(first) + n
      /\ \A i \in 1 .. Len(first) : s[i] = first[i]
      /\ \A i \in 1 .. n : s[Len(first) + i] = more[i]
  <2>1. first \in Seq(Served) /\ more \in Seq(Served)
    BY <1>1 DEF Served
  <2>2. QED
    BY <1>1, <2>1
<1>7. ASSUME NEW j \in 1 .. m
      PROVE  artifacts[j] = Placed(offset + j) /\ offset + j \in offset + 1 .. Shorter(offset + Limit, End)
  <2>1. offset + j <= a /\ offset + j \in offset + 1 .. Shorter(offset + Limit, a + k)
    BY <1>5
  <2>2. QED
    BY <1>3, <1>4, <2>1 DEF Placed
<1>8. ASSUME NEW i \in 1 .. n
      PROVE  more[i] = Placed(base + i) /\ base + i \in offset + 1 .. Shorter(offset + Limit, End)
  <2>1. /\ past + i <= k /\ ~(base + i <= a) /\ base + i - a = past + i
        /\ base + i \in offset + 1 .. Shorter(offset + Limit, a + k)
    BY <1>5
  <2>2. i \in 1 .. l /\ 0 + i = i
    <3>1. n \in Nat /\ l \in Nat /\ n <= l
      BY <1>1, <1>5
    <3>2. QED
      BY <3>1
  <2>3. more[i] = Ranking[past + i]
    BY <1>3, <2>2
  <2>4. Placed(base + i) = Ranking[past + i]
    <3> DEFINE p == base + i
    <3>1. ~(p <= Len(Found)) /\ p - Len(Found) = past + i
      BY <2>1
    <3> HIDE DEF p, past
    <3>2. Placed(p) = Ranking[past + i]
      BY <3>1 DEF Placed
    <3>3. QED
      BY <3>2 DEF p
  <2>5. QED
    BY <1>4, <2>1, <2>3, <2>4
<1>9. ASSUME NEW p \in offset + 1 .. Shorter(offset + Limit, End)
      PROVE  p - offset \in 1 .. m \/ (p - base \in 1 .. n /\ p - base \in Nat)
  BY <1>4, <1>5
<1> HIDE DEF s, base, a, k, past, l
<1>10. \A i \in DOMAIN s : i \in 1 .. Len(first) \/ (i - Len(first) \in 1 .. n /\ s[i] = more[i - Len(first)])
  <2>1. ASSUME NEW i \in DOMAIN s, ~(i \in 1 .. Len(first)) PROVE i - Len(first) \in 1 .. n /\ s[i] = more[i - Len(first)]
    <3>1. i \in Nat /\ i - Len(first) \in 1 .. n /\ Len(first) + (i - Len(first)) = i
      BY <1>1, <1>6, <2>1
    <3>2. QED
      BY <1>6, <3>1
  <2>2. QED
    BY <2>1
<1>11. ASSUME NEW i \in DOMAIN s PROVE \E p \in offset + 1 .. Shorter(offset + Limit, End) : s[i] = Placed(p)
  <2>1. CASE i \in 1 .. Len(first)
    <3>1. PICK j \in DOMAIN artifacts : first[i] = artifacts[j]
      BY <1>1, <2>1 DEF Drawn
    <3>2. QED
      BY <1>1, <1>6, <1>7, <2>1, <3>1
  <2>2. CASE ~(i \in 1 .. Len(first))
    BY <1>8, <1>10, <2>2
  <2>3. QED
    BY <2>1, <2>2
<1>12. ASSUME NEW p \in offset + 1 .. Shorter(offset + Limit, End), Placed(p) \in row.live
       PROVE  \E i \in DOMAIN s : s[i] = Placed(p)
  <2>1. CASE p - offset \in 1 .. m
    <3>1. p \in Int /\ offset + (p - offset) = p
      OBVIOUS
    <3>2. artifacts[p - offset] = Placed(p)
      BY <1>7, <2>1, <3>1
    <3>3. PICK i \in DOMAIN first : first[i] = Placed(p)
      BY <1>1, <1>12, <2>1, <3>2 DEF Drawn
    <3>4. i \in DOMAIN s /\ s[i] = first[i]
      BY <1>1, <1>6, <3>3
    <3>5. QED
      BY <3>3, <3>4
  <2>2. CASE p - base \in 1 .. n /\ p - base \in Nat
    <3>1. base \in Nat /\ p \in Int
      BY <1>5
    <3>2. base + (p - base) = p
      BY <3>1
    <3>3. more[p - base] = Placed(p)
      BY <1>8, <2>2, <3>2
    <3>4. Len(first) + (p - base) \in DOMAIN s /\ s[Len(first) + (p - base)] = more[p - base]
      <4>1. Len(first) \in Nat /\ n \in Nat /\ DOMAIN s = 1 .. Len(first) + n
        BY <1>1, <1>6
      <4>2. Len(first) + (p - base) \in 1 .. Len(first) + n
        BY <2>2, <4>1
      <4>3. QED
        BY <1>6, <2>2, <4>1, <4>2
    <3>5. QED
      BY <3>3, <3>4
  <2>3. QED
    BY <1>9, <2>1, <2>2
<1>13. NoneTwice(s)
  <2>1. \A i \in 1 .. Len(first) : first[i] \in FoundArtifacts
    BY <1>1
  <2>2. \A i \in 1 .. n : more[i] \in FoundMoments
    BY <1>1
  <2>3. ASSUME NEW i \in 1 .. n, NEW j \in 1 .. n, more[i] = more[j] PROVE i = j
    <3>1. base + i \in 1 .. End /\ base + j \in 1 .. End /\ base \in Nat
      BY <1>4, <1>5, <1>8
    <3>2. Placed(base + i) = Placed(base + j)
      BY <1>8, <2>3
    <3>3. base + i = base + j
      BY <3>1, <3>2, PlacedApart
    <3>4. QED
      BY <3>1, <3>3
  <2>4. ASSUME NEW i \in DOMAIN s, NEW j \in DOMAIN s, s[i] = s[j] PROVE i = j
    <3>1. CASE i \in 1 .. Len(first) /\ j \in 1 .. Len(first)
      BY <1>1, <1>6, <2>4, <3>1 DEF NoneTwice
    <3>2. CASE ~(i \in 1 .. Len(first)) /\ ~(j \in 1 .. Len(first))
      <4>1. i - Len(first) = j - Len(first)
        BY <1>10, <2>3, <2>4, <3>2
      <4>2. i \in Int /\ j \in Int /\ Len(first) \in Nat
        BY <1>1, <1>6, <2>4
      <4>3. QED
        BY <4>1, <4>2
    <3>3. CASE i \in 1 .. Len(first) /\ ~(j \in 1 .. Len(first))
      BY <1>6, <1>10, <2>1, <2>2, <2>4, <3>3, SearchIsGiven
    <3>4. CASE ~(i \in 1 .. Len(first)) /\ j \in 1 .. Len(first)
      BY <1>6, <1>10, <2>1, <2>2, <2>4, <3>4, SearchIsGiven
    <3>5. QED
      BY <3>1, <3>2, <3>3, <3>4
  <2>5. QED
    BY <2>4 DEF NoneTwice
<1>14. Len(s) <= Limit
  <2>1. Len(first) \in Nat /\ m \in Nat /\ n \in Nat /\ Len(first) <= m /\ m + n <= Limit /\ Len(s) = Len(first) + n
    BY <1>1, <1>5, <1>6
  <2>2. QED
    BY <2>1
<1>15. QED
  BY <1>6, <1>11, <1>12, <1>13, <1>14 DEF Covers, s

\* One stretch after another.
LEMMA CoversOn ==
  ASSUME IndexInv, NEW s, NEW t, NEW from \in Nat, NEW to \in Nat, from <= to, Covers(s, 0, from), Covers(t, from, to)
  PROVE  Covers(s \o t, 0, to)
<1>1. End \in Nat
  BY DEF IndexInv, End
<1>2. s \in Seq(Served) /\ t \in Seq(Served)
  BY DEF Covers
<1> DEFINE u == s \o t
<1>3. /\ Len(s) \in Nat /\ DOMAIN s = 1 .. Len(s) /\ Len(t) \in Nat /\ DOMAIN t = 1 .. Len(t)
      /\ u \in Seq(Served) /\ DOMAIN u = 1 .. Len(s) + Len(t)
      /\ \A i \in 1 .. Len(s) : u[i] = s[i]
      /\ \A i \in 1 .. Len(t) : u[Len(s) + i] = t[i]
  BY <1>2
<1> HIDE DEF u
<1>4. ASSUME NEW i \in DOMAIN u, ~(i \in DOMAIN s) PROVE i - Len(s) \in DOMAIN t /\ u[i] = t[i - Len(s)]
  <2>1. i \in Nat /\ i - Len(s) \in 1 .. Len(t) /\ Len(s) + (i - Len(s)) = i
    BY <1>3, <1>4
  <2>2. QED
    BY <1>3, <2>1
<1>5. /\ \A p \in 1 .. Shorter(from, End) : p \in 1 .. Shorter(to, End) /\ p \in 1 .. End /\ p <= from
      /\ \A p \in from + 1 .. Shorter(to, End) : p \in 1 .. Shorter(to, End) /\ p \in 1 .. End /\ p > from
      /\ \A p \in 1 .. Shorter(to, End) : p \in 1 .. Shorter(from, End) \/ p \in from + 1 .. Shorter(to, End)
      /\ 0 + 1 = 1
  BY <1>1 DEF Shorter
<1>6. ASSUME NEW i \in DOMAIN s PROVE \E p \in 1 .. Shorter(from, End) : s[i] = Placed(p)
  BY <1>5 DEF Covers
<1>7. ASSUME NEW i \in DOMAIN t PROVE \E p \in from + 1 .. Shorter(to, End) : t[i] = Placed(p)
  BY DEF Covers
<1>8. ASSUME NEW i \in DOMAIN u PROVE \E p \in 1 .. Shorter(to, End) : u[i] = Placed(p)
  <2>1. CASE i \in DOMAIN s
    BY <1>3, <1>5, <1>6, <2>1
  <2>2. CASE ~(i \in DOMAIN s)
    BY <1>4, <1>5, <1>7, <2>2
  <2>3. QED
    BY <2>1, <2>2
<1>9. ASSUME NEW p \in 1 .. Shorter(to, End), Placed(p) \in row.live PROVE \E i \in DOMAIN u : u[i] = Placed(p)
  <2>1. CASE p \in 1 .. Shorter(from, End)
    <3>1. PICK i \in DOMAIN s : s[i] = Placed(p)
      BY <1>5, <1>9, <2>1 DEF Covers
    <3>2. i \in DOMAIN u /\ u[i] = s[i]
      BY <1>3
    <3>3. QED
      BY <3>1, <3>2
  <2>2. CASE p \in from + 1 .. Shorter(to, End)
    <3>1. PICK i \in DOMAIN t : t[i] = Placed(p)
      BY <1>9, <2>2 DEF Covers
    <3>2. Len(s) + i \in DOMAIN u /\ u[Len(s) + i] = t[i]
      BY <1>3
    <3>3. QED
      BY <3>1, <3>2
  <2>3. QED
    BY <1>5, <2>1, <2>2
<1>10. ASSUME NEW i \in DOMAIN s, NEW j \in DOMAIN t PROVE s[i] # t[j]
  <2>1. PICK p \in 1 .. Shorter(from, End) : s[i] = Placed(p)
    BY <1>6
  <2>2. PICK q \in from + 1 .. Shorter(to, End) : t[j] = Placed(q)
    BY <1>7
  <2>3. p \in 1 .. End /\ q \in 1 .. End /\ p # q
    BY <1>5
  <2>4. QED
    BY <2>1, <2>2, <2>3, PlacedApart
<1>11. ASSUME NEW i \in DOMAIN u, NEW j \in DOMAIN u, u[i] = u[j] PROVE i = j
  <2>1. CASE i \in DOMAIN s /\ j \in DOMAIN s
    BY <1>3, <1>11, <2>1 DEF Covers, NoneTwice
  <2>2. CASE ~(i \in DOMAIN s) /\ ~(j \in DOMAIN s)
    <3>1. i - Len(s) = j - Len(s)
      BY <1>4, <1>11, <2>2 DEF Covers, NoneTwice
    <3>2. QED
      BY <1>3, <3>1
  <2>3. CASE i \in DOMAIN s /\ ~(j \in DOMAIN s)
    BY <1>3, <1>4, <1>10, <1>11, <2>3
  <2>4. CASE ~(i \in DOMAIN s) /\ j \in DOMAIN s
    BY <1>3, <1>4, <1>10, <1>11, <2>4
  <2>5. QED
    BY <2>1, <2>2, <2>3, <2>4
<1>12. QED
  BY <1>3, <1>5, <1>8, <1>9, <1>11 DEF Covers, NoneTwice, u

-----------------------------------------------------------------------------
(* A page on its way, and what all pages so far have served.                *)

PageFields == {"at", "offset", "hybrid", "total", "artifacts", "documents", "moments", "served", "cited", "problem"}
Keyworded == ratio = 0 /\ ~searchIndex.missing
Wanted == IF page.at = "done" /\ page.problem = "none" THEN page.offset + Limit ELSE page.offset
PageTyped ==
  /\ DOMAIN page = PageFields /\ page.offset \in Nat
  /\ page.at # "done" => page.problem = "none"
  /\ page.at \notin {"resolve moments", "done"} => page.served = <<>>
PageRead ==
  /\ page.at \in {"documents", "moments", "resolve", "resolve moments"} =>
       /\ page.total = Len(Found) /\ page.artifacts \in Seq(FoundArtifacts)
       /\ Window(page.artifacts, Found, page.offset, page.offset + Limit)
  /\ page.at \in {"resolve", "resolve moments"} /\ Keyworded =>
       /\ page.moments \in Seq(FoundMoments)
       /\ Window(page.moments, Ranking, Past(page.offset), Past(page.offset) + Limit)
PageResolved ==
  page.at = "resolve moments" =>
    /\ page.served \in Seq(FoundArtifacts) /\ NoneTwice(page.served)
    /\ Drawn(page.served, page.artifacts) /\ Len(page.served) <= Len(page.artifacts)
\* The pages so far have served the sequence up to where the next one starts.
PagesCover ==
  Keyworded /\ FoundMoments \subseteq row.live =>
    /\ Covers(shown, 0, Wanted)
    /\ page.at = "done" => Len(page.served) <= Limit
SearchInv ==
  /\ IndexInv /\ DOMAIN row = {"live", "version"}
  /\ PageTyped /\ PageRead /\ PageResolved /\ PagesCover

LEMMA NothingCovered == ASSUME IndexInv PROVE Covers(<<>>, 0, 0)
<1>1. Shorter(0, End) = 0
  BY DEF IndexInv, End, Shorter
<1>2. 0 + 1 .. Shorter(0, End) = {} /\ <<>> \in Seq(Served) /\ DOMAIN <<>> = {}
  BY <1>1
<1>3. QED
  BY <1>2 DEF Covers, NoneTwice

LEMMA SetInOrder ==
  ASSUME NEW ranked, ranked \in SUBSET FoundArtifacts
  PROVE  Search!SetToSeq(ranked) \in Seq(FoundArtifacts) /\ NoneTwice(Search!SetToSeq(ranked))
<1>1. IsFiniteSet(ranked)
  BY SearchIsGiven, FS_Subset
<1>2. Cardinality(ranked) \in Nat /\ ExistsBijection(1 .. Cardinality(ranked), ranked)
  BY <1>1, FS_CardinalityType
<1>3. PICK f \in [1 .. Cardinality(ranked) -> ranked] : Search!IsInjective(f)
  BY <1>2 DEF ExistsBijection, Bijection, Injection, IsInjective, Search!IsInjective
<1>4. Search!SetToSeq(ranked) = CHOOSE g \in [1 .. Cardinality(ranked) -> ranked] : Search!IsInjective(g)
  BY DEF Search!SetToSeq, Search!Cardinality, Cardinality
<1> DEFINE g == Search!SetToSeq(ranked)
<1>5. g \in [1 .. Cardinality(ranked) -> ranked] /\ Search!IsInjective(g)
  BY <1>3, <1>4
<1> HIDE DEF g
<1>6. g \in Seq(FoundArtifacts)
  BY <1>2, <1>5
<1>7. NoneTwice(g)
  BY <1>5 DEF NoneTwice, Search!IsInjective
<1>8. QED
  BY <1>6, <1>7 DEF g

LEMMA SearchInitInv == ASSUME Search!Init PROVE SearchInv
<1>1. PICK keyword \in Keywords, semantic \in Semantics, ranked \in SUBSET FoundArtifacts, labelled \in [FoundDocuments -> BOOLEAN] :
        searchIndex = [artifacts |-> Search!SetToSeq(ranked), keyword |-> keyword, semantic |-> semantic,
                       missing |-> keyword = <<>> /\ semantic = <<>>,
                       documents |-> Search!SetToSeq({[id |-> d, version |-> 1, labelled |-> labelled[d]] : d \in FoundDocuments})]
  BY DEF Search!Init
<1>2. Found = Search!SetToSeq(ranked) /\ Ranking = keyword
  BY <1>1 DEF Found, Ranking
<1>3. IndexInv
  BY <1>2, SetInOrder, SearchIsGiven DEF IndexInv, NoneTwice
<1>4. DOMAIN row = {"live", "version"} /\ shown = <<>>
  BY DEF Search!Init
<1>5. /\ DOMAIN page = PageFields /\ page.offset = 0 /\ page.at = "idle" /\ page.problem = "none" /\ page.served = <<>>
  BY DEF Search!Init, Search!Idle, PageFields
<1>6. Covers(shown, 0, Wanted)
  BY <1>3, <1>4, <1>5, NothingCovered DEF Wanted
<1>7. QED
  BY <1>3, <1>4, <1>5, <1>6 DEF SearchInv, PageTyped, PageRead, PageResolved, PagesCover

\* While a page is read nothing is served, and what the store holds stands still.
SameIndex == UNCHANGED <<searchIndex, ratio>>
LEMMA SameFound == ASSUME SameIndex PROVE UNCHANGED <<Found, Ranking, End, Keyworded>> /\ (IndexInv => IndexInv')
  BY DEF SameIndex, Found, Ranking, End, Keyworded, IndexInv, NoneTwice

\* A row that vanishes asks for less.
LEMMA CoversLess ==
  ASSUME SameIndex, IndexInv, row'.live \subseteq row.live, NEW s, NEW from, NEW to, Covers(s, from, to)
  PROVE  Covers(s, from, to)'
<1>1. Found' = Found /\ Ranking' = Ranking
  BY SameFound
<1>2. Shorter(to, End)' = Shorter(to, End) /\ \A p : Placed(p)' = Placed(p)
  BY <1>1 DEF Shorter, End, Placed
<1>3. Covers(s, from, to)' <=>
        /\ s \in Seq(Served) /\ NoneTwice(s)
        /\ \A i \in DOMAIN s : \E p \in from + 1 .. Shorter(to, End) : s[i] = Placed(p)
        /\ \A p \in from + 1 .. Shorter(to, End) : Placed(p) \in row'.live => \E i \in DOMAIN s : s[i] = Placed(p)
  BY <1>1 DEF Covers, Shorter, End, Placed
<1>4. QED
  BY <1>3 DEF Covers

Others == <<searchIndex, row, ratio, shown>>
LEMMA CoverKept ==
  ASSUME SearchInv, UNCHANGED Others, Wanted' = Wanted, page'.at = "done" => Len(page'.served) <= Limit
  PROVE  IndexInv' /\ DOMAIN row' = {"live", "version"} /\ PagesCover' /\ Found' = Found /\ Ranking' = Ranking /\ Keyworded' = Keyworded
<1>1. SameIndex /\ row' = row /\ shown' = shown
  BY DEF Others, SameIndex
<1>2. Found' = Found /\ Ranking' = Ranking /\ Keyworded' = Keyworded /\ IndexInv'
  BY <1>1, SameFound DEF SearchInv
<1>3. Keyworded /\ FoundMoments \subseteq row.live => Covers(shown, 0, Wanted)'
  <2>1. SUFFICES ASSUME Keyworded, FoundMoments \subseteq row.live PROVE Covers(shown, 0, Wanted)'
    OBVIOUS
  <2>2. Covers(shown, 0, Wanted)
    BY <2>1 DEF SearchInv, PagesCover
  <2>3. QED
    BY <1>1, <1>2, <2>2 DEF Covers, Shorter, End, Placed, NoneTwice
<1>4. QED
  BY <1>1, <1>2, <1>3 DEF SearchInv, PagesCover

LEMMA PageAt ==
  ASSUME SearchInv
  PROVE  /\ page.offset \in Nat /\ Limit \in Nat /\ page.offset + Limit \in Nat
         /\ Found \in Seq(FoundArtifacts) /\ Len(Found) \in Nat /\ DOMAIN Found = 1 .. Len(Found)
         /\ Ranking \in Seq(FoundMoments)
<1>1. page.offset \in Nat
  BY DEF SearchInv, PageTyped
<1>2. Limit \in Nat
  BY SearchIsGiven
<1>3. Found \in Seq(FoundArtifacts) /\ Ranking \in Seq(FoundMoments)
  BY DEF SearchInv, IndexInv
<1>4. QED
  BY <1>1, <1>2, <1>3

LEMMA PageRefused ==
  ASSUME SearchInv, page.at \in {"idle", "artifacts", "documents"}, NEW problem, problem # "none",
         Search!Refused(problem), UNCHANGED Others
  PROVE  SearchInv'
<1>1. page' = [[page EXCEPT !.problem = problem] EXCEPT !.at = "done"]
  BY DEF Search!Refused, Search!Goes
<1>2. /\ DOMAIN page' = PageFields /\ page'.at = "done" /\ page'.problem = problem /\ page'.problem # "none"
      /\ page'.offset = page.offset /\ page'.served = page.served
  BY <1>1 DEF SearchInv, PageTyped, PageFields
<1>3. page.served = <<>> /\ page.offset \in Nat
  BY DEF SearchInv, PageTyped
<1>4. Wanted = page.offset /\ Wanted' = page.offset
  BY <1>2 DEF Wanted
<1>5. Len(page'.served) <= Limit
  <2>1. Len(page'.served) = 0
    BY <1>2, <1>3
  <2>2. QED
    BY <2>1, SearchIsGiven
<1>6. IndexInv' /\ DOMAIN row' = {"live", "version"} /\ PagesCover'
  BY <1>4, <1>5, CoverKept
<1>7. PageTyped' /\ PageRead' /\ PageResolved'
  BY <1>2, <1>3 DEF PageTyped, PageRead, PageResolved
<1>8. QED
  BY <1>6, <1>7 DEF SearchInv

\* A step that goes on to read something, and serves nothing yet.
LEMMA PageGoesOn ==
  ASSUME SearchInv, UNCHANGED Others, page.at # "done",
         DOMAIN page' = PageFields, page'.at # "done", page'.offset = page.offset, page'.problem = page.problem,
         page'.served = page.served \/ page'.at = "resolve moments",
         PageRead', PageResolved', page.at # "resolve moments"
  PROVE  SearchInv'
<1>1. Wanted' = Wanted
  BY DEF Wanted
<1>2. IndexInv' /\ DOMAIN row' = {"live", "version"} /\ PagesCover'
  BY <1>1, CoverKept
<1>3. PageTyped'
  BY DEF SearchInv, PageTyped
<1>4. QED
  BY <1>2, <1>3 DEF SearchInv

LEMMA SearchEmbeds == ASSUME SearchInv, Search!Embed PROVE SearchInv'
<1>1. page.at = "idle" /\ UNCHANGED Others
  BY DEF Search!Embed, Others
<1>2. CASE \E hybrid \in BOOLEAN : Search!Goes("artifacts", [page EXCEPT !.hybrid = hybrid])
  <2>1. PICK hybrid \in BOOLEAN : page' = [[page EXCEPT !.hybrid = hybrid] EXCEPT !.at = "artifacts"]
    BY <1>2 DEF Search!Goes
  <2>2. /\ DOMAIN page' = PageFields /\ page'.at = "artifacts" /\ page'.offset = page.offset
        /\ page'.problem = page.problem /\ page'.served = page.served
    BY <2>1 DEF SearchInv, PageTyped, PageFields
  <2>3. PageRead' /\ PageResolved'
    BY <2>2 DEF PageRead, PageResolved
  <2>4. QED
    BY <1>1, <2>2, <2>3, PageGoesOn
<1>3. CASE Search!Refused("embedder-unusable")
  BY <1>1, <1>3, PageRefused
<1>4. QED
  BY <1>2, <1>3 DEF Search!Embed

LEMMA SearchFinds == ASSUME SearchInv, Search!SearchArtifacts PROVE SearchInv'
<1>1. page.at = "artifacts" /\ UNCHANGED Others
  BY DEF Search!SearchArtifacts, Others
<1>2. CASE Search!Goes("documents", [page EXCEPT !.total = Len(searchIndex.artifacts),
                             !.artifacts = Search!Slice(searchIndex.artifacts, page.offset, page.offset + Limit)])
  <2> DEFINE cut == Search!Slice(Found, page.offset, page.offset + Limit)
  <2>1. page' = [[page EXCEPT !.total = Len(Found), !.artifacts = cut] EXCEPT !.at = "documents"]
    BY <1>2 DEF Search!Goes, Found
  <2>2. cut \in Seq(FoundArtifacts) /\ Window(cut, Found, page.offset, page.offset + Limit)
    <3>1. Found \in Seq(FoundArtifacts) /\ page.offset \in Nat /\ page.offset + Limit \in Nat
      BY PageAt
    <3>2. QED
      BY <3>1, SliceIs
  <2> HIDE DEF cut
  <2>3. /\ DOMAIN page' = PageFields /\ page'.at = "documents" /\ page'.offset = page.offset
        /\ page'.problem = page.problem /\ page'.served = page.served
        /\ page'.total = Len(Found) /\ page'.artifacts = cut
    BY <2>1 DEF SearchInv, PageTyped, PageFields
  <2>4. Found' = Found
    BY <1>1 DEF Others, Found
  <2>5. PageRead' /\ PageResolved'
    BY <2>2, <2>3, <2>4 DEF PageRead, PageResolved, Window
  <2>6. QED
    BY <1>1, <2>3, <2>5, PageGoesOn
<1>3. CASE Search!Refused("search-store-unavailable")
  BY <1>1, <1>3, PageRefused
<1>4. QED
  BY <1>2, <1>3 DEF Search!SearchArtifacts

LEMMA SearchListsDocuments == ASSUME SearchInv, Search!SearchDocuments PROVE SearchInv'
<1>1. page.at = "documents" /\ UNCHANGED Others
  BY DEF Search!SearchDocuments, Others
<1>2. CASE Search!Refused("search-store-unusable")
  BY <1>1, <1>2, PageRefused
<1>3. CASE \E hits : page' = [[page EXCEPT !.documents = hits] EXCEPT !.at = "moments"]
  <2>1. PICK hits : page' = [[page EXCEPT !.documents = hits] EXCEPT !.at = "moments"]
    BY <1>3
  <2>2. /\ DOMAIN page' = PageFields /\ page'.at = "moments" /\ page'.offset = page.offset
        /\ page'.problem = page.problem /\ page'.served = page.served
        /\ page'.total = page.total /\ page'.artifacts = page.artifacts
    BY <2>1 DEF SearchInv, PageTyped, PageFields
  <2>3. Found' = Found
    BY <1>1 DEF Others, Found
  <2>4. page.total = Len(Found) /\ page.artifacts \in Seq(FoundArtifacts) /\ Window(page.artifacts, Found, page.offset, page.offset + Limit)
    BY <1>1 DEF SearchInv, PageRead
  <2>5. PageRead' /\ PageResolved'
    BY <2>2, <2>3, <2>4 DEF PageRead, PageResolved, Window
  <2>6. QED
    BY <1>1, <2>2, <2>5, PageGoesOn
<1>4. QED
  BY <1>2, <1>3 DEF Search!SearchDocuments, Search!Goes

LEMMA SearchRanksMoments == ASSUME SearchInv, Search!ReadMoments PROVE SearchInv'
<1>1. page.at = "moments" /\ UNCHANGED Others
  BY DEF Search!ReadMoments, Others
<1> DEFINE got == IF searchIndex.missing THEN <<>> ELSE Search!SearchMoments(Search!MomentOffset, Limit, page.hybrid)
<1>2. page' = [[page EXCEPT !.moments = got] EXCEPT !.at = "resolve"]
  BY DEF Search!ReadMoments, Search!Goes
<1>3. page.total = Len(Found) /\ page.artifacts \in Seq(FoundArtifacts) /\ Window(page.artifacts, Found, page.offset, page.offset + Limit)
  BY <1>1 DEF SearchInv, PageRead
<1>4. Keyworded => got \in Seq(FoundMoments) /\ Window(got, Ranking, Past(page.offset), Past(page.offset) + Limit)
  <2>1. SUFFICES ASSUME Keyworded
                 PROVE  got \in Seq(FoundMoments) /\ Window(got, Ranking, Past(page.offset), Past(page.offset) + Limit)
    OBVIOUS
  <2>2. Search!MomentOffset = Past(page.offset)
    BY <1>3 DEF Search!MomentOffset, Past
  <2>3. page.offset \in Nat /\ Len(Found) \in Nat /\ Ranking \in Seq(FoundMoments)
    BY PageAt
  <2>4. Past(page.offset) \in Nat
    BY <2>3 DEF Past
  <2>5. got = Search!SearchMoments(Past(page.offset), Limit, page.hybrid)
    BY <2>1, <2>2 DEF Keyworded
  <2>6. Limit \in Nat /\ ratio = 0
    BY <2>1, SearchIsGiven DEF Keyworded
  <2> HIDE DEF got
  <2>7. QED
    BY <2>3, <2>4, <2>5, <2>6, KeywordPage
<1> HIDE DEF got
<1>5. /\ DOMAIN page' = PageFields /\ page'.at = "resolve" /\ page'.offset = page.offset
      /\ page'.problem = page.problem /\ page'.served = page.served
      /\ page'.total = page.total /\ page'.artifacts = page.artifacts /\ page'.moments = got
  BY <1>2 DEF SearchInv, PageTyped, PageFields
<1>6. Found' = Found /\ Ranking' = Ranking /\ Keyworded' = Keyworded
  BY <1>1 DEF Others, Found, Ranking, Keyworded
<1>7. PageRead' /\ PageResolved'
  BY <1>3, <1>4, <1>5, <1>6 DEF PageRead, PageResolved, Window, Past
<1>8. QED
  BY <1>1, <1>5, <1>7, PageGoesOn

\* Postgres has some of the artifacts, in their order.
LEMMA SearchResolves == ASSUME SearchInv, Search!ResolveArtifacts PROVE SearchInv'
<1>1. page.at = "resolve" /\ UNCHANGED Others
  BY DEF Search!ResolveArtifacts, Others
<1> DEFINE there == Search!Among(page.artifacts, row.live)
<1>2. page' = [[page EXCEPT !.served = there, !.cited = Search!ResolvedDocuments(page.documents)] EXCEPT !.at = "resolve moments"]
  BY DEF Search!ResolveArtifacts, Search!Goes, Search!Resolved
<1>3. page.total = Len(Found) /\ page.artifacts \in Seq(FoundArtifacts) /\ Window(page.artifacts, Found, page.offset, page.offset + Limit)
  BY <1>1 DEF SearchInv, PageRead
<1>4. NoneTwice(page.artifacts)
  <2>1. Len(page.artifacts) \in Nat /\ DOMAIN page.artifacts = 1 .. Len(page.artifacts)
    BY <1>3
  <2>2. Len(Found) \in Nat /\ DOMAIN Found = 1 .. Len(Found) /\ page.offset \in Nat /\ Limit \in Nat
    BY PageAt
  <2>3. \A i \in 1 .. Len(page.artifacts) : page.artifacts[i] = Found[page.offset + i]
    BY <1>3 DEF Window
  <2>4. ASSUME NEW i \in 1 .. Len(page.artifacts) PROVE page.offset + i \in DOMAIN Found
    <3>1. Len(page.artifacts) = IF page.offset < Shorter(page.offset + Limit, Len(Found))
                                THEN Shorter(page.offset + Limit, Len(Found)) - page.offset ELSE 0
      BY <1>3 DEF Window
    <3>2. i \in Nat /\ 1 <= i /\ i <= Len(page.artifacts)
      BY <2>1
    <3>3. page.offset + i <= Len(Found)
      BY <2>1, <2>2, <3>1, <3>2 DEF Shorter
    <3>4. QED
      BY <2>2, <3>2, <3>3
  <2>5. ASSUME NEW i \in 1 .. Len(page.artifacts), NEW j \in 1 .. Len(page.artifacts), page.artifacts[i] = page.artifacts[j]
        PROVE  i = j
    <3>1. Found[page.offset + i] = Found[page.offset + j]
      BY <2>3, <2>5
    <3>2. page.offset + i = page.offset + j
      BY <2>4, <3>1 DEF SearchInv, IndexInv, NoneTwice
    <3>3. QED
      BY <2>2, <3>2
  <2>6. QED
    BY <2>1, <2>5 DEF NoneTwice
<1>5. /\ there \in Seq(FoundArtifacts)
      /\ Questions!ToSet(there) = Questions!ToSet(page.artifacts) \intersect row.live
      /\ Questions!IsInjective(page.artifacts) => Questions!IsInjective(there)
  <2>1. there = Questions!Among(page.artifacts, row.live)
    BY SearchPlaces
  <2> HIDE DEF there
  <2>2. page.artifacts \in Seq(FoundArtifacts)
    BY <1>3
  <2>3. QED
    BY <2>1, <2>2, AmongIs
<1>6. Len(there) <= Len(page.artifacts)
  BY <1>3, AmongFits
<1> HIDE DEF there
<1>7. NoneTwice(there)
  BY <1>4, <1>5 DEF NoneTwice, Questions!IsInjective
<1>8. Drawn(there, page.artifacts)
  BY <1>5 DEF Drawn, Questions!ToSet
<1>9. /\ DOMAIN page' = PageFields /\ page'.at = "resolve moments" /\ page'.offset = page.offset
      /\ page'.problem = page.problem /\ page'.served = there
      /\ page'.total = page.total /\ page'.artifacts = page.artifacts /\ page'.moments = page.moments
  BY <1>2 DEF SearchInv, PageTyped, PageFields
<1>10. Found' = Found /\ Ranking' = Ranking /\ Keyworded' = Keyworded /\ row' = row
  BY <1>1 DEF Others, Found, Ranking, Keyworded
<1>11. Keyworded => page.moments \in Seq(FoundMoments) /\ Window(page.moments, Ranking, Past(page.offset), Past(page.offset) + Limit)
  BY <1>1 DEF SearchInv, PageRead
<1>12. PageRead'
  BY <1>3, <1>9, <1>10, <1>11 DEF PageRead, Window, Past
<1>13. PageResolved'
  <2>1. Drawn(page.served, page.artifacts)'
    <3>1. page'.served = there /\ page'.artifacts = page.artifacts /\ row' = row
      BY <1>9, <1>10
    <3>2. QED
      BY <1>8, <3>1 DEF Drawn
  <2>2. NoneTwice(page.served)'
    BY <1>7, <1>9 DEF NoneTwice
  <2>3. QED
    BY <1>5, <1>6, <1>9, <2>1, <2>2 DEF PageResolved
<1>14. QED
  BY <1>1, <1>9, <1>12, <1>13, PageGoesOn

\* The moments fill what the artifacts' places leave, and the page is shown.
LEMMA SearchServes == ASSUME SearchInv, Search!ResolveMoments PROVE SearchInv'
<1>1. page.at = "resolve moments" /\ UNCHANGED <<searchIndex, row, ratio>>
  BY DEF Search!ResolveMoments
<1> DEFINE room == Limit - Len(page.artifacts)
           there == Search!Among(page.moments, row.live)
           more == SubSeq(there, 1, Search!Min({room, Len(there)}))
           served == page.served \o more
<1>2. page' = [[page EXCEPT !.served = served] EXCEPT !.at = "done"] /\ shown' = shown \o served
  BY DEF Search!ResolveMoments, Search!Goes, Search!Resolved, Search!MomentCapacity
<1>3. /\ page.artifacts \in Seq(FoundArtifacts) /\ Window(page.artifacts, Found, page.offset, page.offset + Limit)
      /\ page.served \in Seq(FoundArtifacts) /\ NoneTwice(page.served)
      /\ Drawn(page.served, page.artifacts) /\ Len(page.served) <= Len(page.artifacts)
  BY <1>1 DEF SearchInv, PageRead, PageResolved
<1>4. ASSUME Keyworded, FoundMoments \subseteq row.live
      PROVE  Covers(served, page.offset, page.offset + Limit) /\ Len(served) <= Limit
  <2>1. page.moments \in Seq(FoundMoments) /\ Window(page.moments, Ranking, Past(page.offset), Past(page.offset) + Limit)
    BY <1>1, <1>4 DEF SearchInv, PageRead
  <2>2. \A i \in DOMAIN page.moments : page.moments[i] \in row.live
    BY <1>4, <2>1
  <2>3. there = page.moments
    BY <2>1, <2>2, AllAmong
  <2>4. more = Search!Slice(page.moments, 0, room)
    BY <2>3 DEF Search!Slice
  <2>5. room \in Nat
    <3>1. Len(page.artifacts) \in Nat /\ Len(Found) \in Nat
      BY <1>3, PageAt
    <3>2. Len(page.artifacts) = IF page.offset < Shorter(page.offset + Limit, Len(Found))
                                THEN Shorter(page.offset + Limit, Len(Found)) - page.offset ELSE 0
      BY <1>3 DEF Window
    <3>3. page.offset \in Nat /\ Limit \in Nat
      BY PageAt
    <3>4. QED
      BY <3>1, <3>2, <3>3 DEF Shorter
  <2> HIDE DEF room, more, there
  <2>6. more \in Seq(FoundMoments) /\ Window(more, page.moments, 0, room)
    BY <2>1, <2>4, <2>5, SliceIs
  <2>7. IndexInv /\ Limit \in Nat /\ page.offset \in Nat
    BY PageAt DEF SearchInv
  <2>8. QED
    BY <1>3, <1>4, <2>1, <2>6, <2>7, PageCovers DEF room
<1> HIDE DEF served
<1>5. /\ DOMAIN page' = PageFields /\ page'.at = "done" /\ page'.problem = page.problem
      /\ page'.offset = page.offset /\ page'.served = served
  BY <1>2 DEF SearchInv, PageTyped, PageFields
<1>6. page.problem = "none" /\ page.offset \in Nat /\ Limit \in Nat
  BY <1>1, PageAt DEF SearchInv, PageTyped
<1>7. Wanted = page.offset /\ Wanted' = page.offset + Limit
  BY <1>1, <1>5, <1>6 DEF Wanted
<1>8. Found' = Found /\ Ranking' = Ranking /\ Keyworded' = Keyworded /\ row' = row /\ IndexInv'
  BY <1>1, SameFound DEF SameIndex, SearchInv
<1>9. PagesCover'
  <2>1. SUFFICES ASSUME Keyworded, FoundMoments \subseteq row.live
                 PROVE  Covers(shown, 0, Wanted)' /\ Len(page'.served) <= Limit
    BY <1>8 DEF PagesCover
  <2>2. Covers(shown, 0, page.offset)
    BY <1>7, <2>1 DEF SearchInv, PagesCover
  <2>3. Covers(served, page.offset, page.offset + Limit) /\ Len(served) <= Limit
    BY <1>4, <2>1
  <2>4. page.offset + Limit \in Nat /\ page.offset <= page.offset + Limit /\ IndexInv
    BY <1>6 DEF SearchInv
  <2>5. Covers(shown \o served, 0, page.offset + Limit)
    BY <1>6, <2>2, <2>3, <2>4, CoversOn
  <2> DEFINE sofar == shown \o served
  <2>6. /\ shown' = sofar /\ Wanted' = page.offset + Limit /\ Found' = Found /\ Ranking' = Ranking /\ row' = row
        /\ Covers(sofar, 0, page.offset + Limit)
    BY <1>2, <1>7, <1>8, <2>5
  <2> HIDE DEF sofar
  <2>7. Covers(shown, 0, Wanted)'
    BY <2>6 DEF Covers, Shorter, End, Placed, NoneTwice
  <2>8. QED
    BY <1>5, <2>3, <2>7
<1>10. PageTyped' /\ PageRead' /\ PageResolved'
  BY <1>5, <1>6 DEF PageTyped, PageRead, PageResolved
<1>11. QED
  BY <1>8, <1>9, <1>10 DEF SearchInv

LEMMA SearchTurns == ASSUME SearchInv, Search!NextPage PROVE SearchInv'
<1>1. page.at = "done" /\ UNCHANGED <<searchIndex, row, ratio>>
  BY DEF Search!NextPage
<1>2. Found' = Found /\ Ranking' = Ranking /\ Keyworded' = Keyworded /\ row' = row /\ IndexInv' /\ IndexInv
  BY <1>1, SameFound DEF SameIndex, SearchInv
<1>3. page.offset \in Nat /\ page.offset + Limit \in Nat
  BY PageAt
<1>4. CASE page' = [Search!Idle EXCEPT !.offset = IF page.problem = "none" THEN page.offset + Limit ELSE page.offset] /\ UNCHANGED shown
  <2> DEFINE next == IF page.problem = "none" THEN page.offset + Limit ELSE page.offset
  <2>1. next = Wanted /\ next \in Nat
    BY <1>1, <1>3 DEF Wanted
  <2>2. page' = [Search!Idle EXCEPT !.offset = next]
    BY <1>4
  <2> HIDE DEF next
  <2>3. /\ DOMAIN page' = PageFields /\ page'.at = "idle" /\ page'.offset = next
        /\ page'.problem = "none" /\ page'.served = <<>>
    BY <2>2 DEF Search!Idle, PageFields
  <2>4. Wanted' = Wanted
    BY <2>1, <2>3 DEF Wanted
  <2>5. UNCHANGED Others
    BY <1>1, <1>4 DEF Others
  <2>6. IndexInv' /\ DOMAIN row' = {"live", "version"} /\ PagesCover'
    BY <2>3, <2>4, <2>5, CoverKept
  <2>7. PageTyped' /\ PageRead' /\ PageResolved'
    BY <2>1, <2>3 DEF PageTyped, PageRead, PageResolved
  <2>8. QED
    BY <2>6, <2>7 DEF SearchInv
<1>5. CASE page' = Search!Idle /\ shown' = <<>>
  <2>1. /\ DOMAIN page' = PageFields /\ page'.at = "idle" /\ page'.offset = 0
        /\ page'.problem = "none" /\ page'.served = <<>>
    BY <1>5 DEF Search!Idle, PageFields
  <2>2. Wanted' = 0
    BY <2>1 DEF Wanted
  <2>3. Covers(<<>>, 0, 0)
    BY <1>2, NothingCovered
  <2>4. Covers(shown, 0, Wanted)'
    BY <1>2, <1>5, <2>2, <2>3 DEF Covers, Shorter, End, Placed, NoneTwice
  <2>5. PagesCover'
    BY <2>1, <2>4 DEF PagesCover
  <2>6. PageTyped' /\ PageRead' /\ PageResolved'
    BY <2>1 DEF PageTyped, PageRead, PageResolved
  <2>7. QED
    BY <1>2, <2>5, <2>6 DEF SearchInv
<1>6. QED
  BY <1>4, <1>5 DEF Search!NextPage

LEMMA SearchVanishes == ASSUME SearchInv, Search!Changes PROVE SearchInv'
<1>1. UNCHANGED <<searchIndex, ratio, page, shown>>
  BY DEF Search!Changes
<1>2. DOMAIN row' = {"live", "version"} /\ row'.live \subseteq row.live
  <2>1. CASE \E id \in row.live : row' = [row EXCEPT !.live = @ \ {id}]
    BY <2>1 DEF SearchInv
  <2>2. CASE \E d \in FoundDocuments : row' = [row EXCEPT !.version[d] = 2]
    BY <2>2 DEF SearchInv
  <2>3. QED
    BY <2>1, <2>2 DEF Search!Changes
<1>3. Found' = Found /\ Ranking' = Ranking /\ Keyworded' = Keyworded /\ SameIndex /\ IndexInv' /\ IndexInv
  BY <1>1, SameFound DEF SameIndex, SearchInv
<1>4. PagesCover'
  <2>1. SUFFICES ASSUME Keyworded, FoundMoments \subseteq row'.live
                 PROVE  Covers(shown, 0, Wanted)' /\ (page.at = "done" => Len(page.served) <= Limit)
    BY <1>1, <1>3 DEF PagesCover
  <2>2. FoundMoments \subseteq row.live
    BY <1>2, <2>1
  <2>3. Covers(shown, 0, Wanted) /\ (page.at = "done" => Len(page.served) <= Limit)
    BY <2>1, <2>2 DEF SearchInv, PagesCover
  <2>4. Covers(shown, 0, Wanted)'
    <3>1. Found' = Found /\ Ranking' = Ranking /\ shown' = shown /\ Wanted' = Wanted
      BY <1>1, <1>3 DEF Wanted
    <3>2. QED
      BY <1>2, <2>3, <3>1 DEF Covers, Shorter, End, Placed, NoneTwice
  <2>5. QED
    BY <2>3, <2>4
<1>5. PageTyped'
  BY <1>1 DEF SearchInv, PageTyped
<1>6. PageRead'
  BY <1>1, <1>3 DEF SearchInv, PageRead, Window, Past
<1>7. PageResolved'
  <2>1. SUFFICES ASSUME page.at = "resolve moments"
                 PROVE  /\ page.served \in Seq(FoundArtifacts) /\ NoneTwice(page.served)
                        /\ Drawn(page.served, page.artifacts)' /\ Len(page.served) <= Len(page.artifacts)
    BY <1>1 DEF PageResolved, NoneTwice
  <2>2. /\ page.served \in Seq(FoundArtifacts) /\ NoneTwice(page.served)
        /\ Drawn(page.served, page.artifacts) /\ Len(page.served) <= Len(page.artifacts)
    BY <2>1 DEF SearchInv, PageResolved
  <2>3. Drawn(page.served, page.artifacts)'
    BY <1>1, <1>2, <2>2 DEF Drawn
  <2>4. QED
    BY <2>2, <2>3
<1>8. QED
  BY <1>2, <1>3, <1>4, <1>5, <1>6, <1>7 DEF SearchInv

LEMMA SearchStands == ASSUME SearchInv, UNCHANGED searchVars PROVE SearchInv'
<1>1. UNCHANGED <<searchIndex, ratio, page, shown, row>>
  BY DEF searchVars
<1>2. Found' = Found /\ Ranking' = Ranking /\ Keyworded' = Keyworded /\ IndexInv'
  BY <1>1, SameFound DEF SameIndex, SearchInv
<1>3. PagesCover'
  <2>1. Wanted' = Wanted
    BY <1>1 DEF Wanted
  <2>2. QED
    BY <1>1, <2>1, CoverKept DEF SearchInv, PagesCover, Covers, Others, Shorter, End, Placed, NoneTwice, Found, Ranking, Keyworded
<1>4. PageTyped' /\ PageRead'
  BY <1>1, <1>2 DEF SearchInv, PageTyped, PageRead, Window, Past
<1>5. PageResolved'
  BY <1>1 DEF SearchInv, PageResolved, Drawn, NoneTwice
<1>6. QED
  BY <1>1, <1>2, <1>3, <1>4, <1>5 DEF SearchInv

LEMMA SearchNext == ASSUME SearchInv, Search!Next \/ UNCHANGED searchVars PROVE SearchInv'
  BY SearchEmbeds, SearchFinds, SearchListsDocuments, SearchRanksMoments, SearchResolves, SearchServes,
     SearchTurns, SearchVanishes, SearchStands DEF Search!Next

LEMMA PagesTileThen == ASSUME SearchInv PROVE Search!KeywordPagesTile
<1> SUFFICES ASSUME ratio = 0, ~searchIndex.missing, FoundMoments \subseteq row.live
             PROVE  /\ NoneTwice(shown) /\ Len(page.served) <= Limit
                    /\ Search!PastTheEnd => \A id \in row.live :
                         Search!Contains(Found, id) \/ Search!Contains(Ranking, id) => Search!Contains(shown, id)
  BY DEF Search!KeywordPagesTile, Search!NoRepeat, NoneTwice, Search!Reached, Found, Ranking
<1>1. Covers(shown, 0, Wanted) /\ (page.at = "done" => Len(page.served) <= Limit)
  BY DEF SearchInv, PagesCover, Keyworded
<1>2. Len(page.served) <= Limit
  <2>1. CASE page.at = "done"
    BY <1>1, <2>1
  <2>2. CASE page.at = "resolve moments"
    <3>1. Window(page.artifacts, Found, page.offset, page.offset + Limit) /\ Len(page.served) <= Len(page.artifacts)
          /\ page.artifacts \in Seq(FoundArtifacts) /\ page.served \in Seq(FoundArtifacts)
      BY <2>2 DEF SearchInv, PageRead, PageResolved
    <3>2. Len(page.artifacts) \in Nat /\ Len(page.served) \in Nat /\ page.offset \in Nat /\ Limit \in Nat /\ Len(Found) \in Nat
      BY <3>1, PageAt
    <3>3. Len(page.artifacts) <= Limit
      BY <3>1, <3>2 DEF Window, Shorter
    <3>4. QED
      BY <3>1, <3>2, <3>3
  <2>3. CASE page.at \notin {"resolve moments", "done"}
    <3>1. page.served = <<>>
      BY <2>3 DEF SearchInv, PageTyped
    <3>2. Len(page.served) = 0
      BY <3>1
    <3>3. QED
      BY <3>2, PageAt
  <2>4. QED
    BY <2>1, <2>2, <2>3
<1>3. ASSUME Search!PastTheEnd, NEW id \in row.live, Search!Contains(Found, id) \/ Search!Contains(Ranking, id)
      PROVE  Search!Contains(shown, id)
  <2>1. Wanted >= End /\ Wanted = page.offset + Limit
    BY <1>3 DEF Search!PastTheEnd, Search!Sequenced, Wanted, End, Found, Ranking
  <2>2. /\ Len(Found) \in Nat /\ Len(Ranking) \in Nat /\ Wanted \in Nat
    BY <2>1, PageAt
  <2>3. 0 + 1 .. Shorter(Wanted, End) = 1 .. End
    BY <2>1, <2>2 DEF Shorter, End
  <2>4. \E p \in 1 .. End : Placed(p) = id
    <3>1. CASE Search!Contains(Found, id)
      <4>1. PICK p \in 1 .. Len(Found) : Found[p] = id
        BY <3>1 DEF Search!Contains
      <4>2. p \in 1 .. End /\ Placed(p) = id
        BY <2>2, <4>1 DEF Placed, End
      <4>3. QED
        BY <4>2
    <3>2. CASE Search!Contains(Ranking, id)
      <4>1. PICK q \in 1 .. Len(Ranking) : Ranking[q] = id
        BY <3>2 DEF Search!Contains
      <4>2. Len(Found) + q \in 1 .. End /\ ~(Len(Found) + q <= Len(Found)) /\ (Len(Found) + q) - Len(Found) = q
        BY <2>2, <4>1 DEF End
      <4>3. Placed(Len(Found) + q) = id
        BY <4>1, <4>2 DEF Placed
      <4>4. QED
        BY <4>2, <4>3
    <3>3. QED
      BY <1>3, <3>1, <3>2
  <2>5. PICK p \in 1 .. End : Placed(p) = id
    BY <2>4
  <2>6. PICK i \in DOMAIN shown : shown[i] = Placed(p)
    BY <1>1, <1>3, <2>3, <2>5 DEF Covers
  <2>7. i \in 1 .. Len(shown)
    BY <1>1, <2>6 DEF Covers
  <2>8. QED
    BY <2>5, <2>6, <2>7 DEF Search!Contains
<1>4. QED
  BY <1>1, <1>2, <1>3 DEF Covers

\* The pages of a keyword search serve one sequence, artifacts then moments, each id
\* once and none skipped that still exists, whatever vanishes of the artifacts while
\* they are read (GET /search).
THEOREM KeywordPagesServeAll == Spec => []KeywordPagesTile
<1> DEFINE I == scene = "search" => SearchInv
<1>1. ASSUME Init PROVE I
  BY <1>1, SearchInitInv DEF Init
<1>2. ASSUME I, [Next]_all PROVE I'
  <2>1. SUFFICES ASSUME scene' = "search" PROVE SearchInv'
    OBVIOUS
  <2>2. scene = "search" /\ (Search!Next \/ UNCHANGED searchVars)
    BY <1>2, <2>1 DEF Next, all
  <2>3. QED
    BY <1>2, <2>2, SearchNext
<1>3. ASSUME I PROVE KeywordPagesTile
  BY <1>3, PagesTileThen DEF KeywordPagesTile
<1>4. QED
  BY <1>1, <1>2, <1>3, PTL DEF Spec

-----------------------------------------------------------------------------
(* A set in an order: where each of its elements stands.                    *)

LEMMA LineCounts == \A S : Timeline!Cardinality(S) = Cardinality(S)
  BY DEF Timeline!Cardinality, Cardinality

Orders(R, S) ==
  /\ \A x \in S : <<x, x>> \notin R
  /\ \A x, y, z \in S : <<x, y>> \in R /\ <<y, z>> \in R => <<x, z>> \in R
  /\ \A x, y \in S : x = y \/ <<x, y>> \in R \/ <<y, x>> \in R
BeforeIn(S, R, x) == {y \in S : <<y, x>> \in R}
RankIn(S, R, x) == Cardinality(BeforeIn(S, R, x))

LEMMA RanksStand ==
  ASSUME NEW S, NEW R, IsFiniteSet(S), Orders(R, S)
  PROVE  /\ Cardinality(S) \in Nat
         /\ \A x \in S : RankIn(S, R, x) \in 0 .. (Cardinality(S) - 1)
         /\ \A x, y \in S : <<x, y>> \in R => RankIn(S, R, x) < RankIn(S, R, y)
         /\ \A n \in 0 .. (Cardinality(S) - 1) : \E x \in S : RankIn(S, R, x) = n
<1>1. Cardinality(S) \in Nat
  BY FS_CardinalityType
<1>2. ASSUME NEW x \in S
      PROVE  /\ IsFiniteSet(BeforeIn(S, R, x)) /\ RankIn(S, R, x) \in Nat
             /\ RankIn(S, R, x) < Cardinality(S)
  <2>1. BeforeIn(S, R, x) \in SUBSET S /\ BeforeIn(S, R, x) # S
    BY DEF BeforeIn, Orders
  <2>2. /\ IsFiniteSet(BeforeIn(S, R, x)) /\ Cardinality(BeforeIn(S, R, x)) <= Cardinality(S)
        /\ Cardinality(BeforeIn(S, R, x)) # Cardinality(S)
    BY <2>1, FS_Subset
  <2>3. Cardinality(BeforeIn(S, R, x)) \in Nat
    BY <2>2, FS_CardinalityType
  <2>4. QED
    BY <1>1, <2>2, <2>3 DEF RankIn
<1>3. ASSUME NEW x \in S, NEW y \in S, <<x, y>> \in R PROVE RankIn(S, R, x) < RankIn(S, R, y)
  <2>1. BeforeIn(S, R, x) \in SUBSET BeforeIn(S, R, y)
    BY <1>3 DEF BeforeIn, Orders
  <2>2. x \in BeforeIn(S, R, y) /\ x \notin BeforeIn(S, R, x)
    BY <1>3 DEF BeforeIn, Orders
  <2>3. /\ Cardinality(BeforeIn(S, R, x)) <= Cardinality(BeforeIn(S, R, y))
        /\ Cardinality(BeforeIn(S, R, x)) # Cardinality(BeforeIn(S, R, y))
    BY <1>2, <2>1, <2>2, FS_Subset
  <2>4. QED
    BY <1>2, <2>3 DEF RankIn
<1> DEFINE N == Cardinality(S)
           f == [x \in S |-> RankIn(S, R, x)]
<1>4. f \in [S -> 0 .. (N - 1)] /\ \A x \in S : f[x] = RankIn(S, R, x)
  BY <1>1, <1>2
<1> HIDE DEF f
<1>5. ASSUME NEW x \in S, NEW y \in S, f[x] = f[y] PROVE x = y
  <2>1. ~ (<<x, y>> \in R) /\ ~ (<<y, x>> \in R)
    BY <1>2, <1>3, <1>4, <1>5
  <2>2. QED
    BY <2>1 DEF Orders
<1>6. f \in Injection(S, 0 .. (N - 1))
  BY <1>4, <1>5 DEF Injection, IsInjective
<1>7. IsFiniteSet(0 .. (N - 1)) /\ Cardinality(0 .. (N - 1)) = N
  BY <1>1, FS_Interval
<1>8. f \in Surjection(S, 0 .. (N - 1))
  BY <1>6, <1>7, FS_Injection
<1>9. \A n \in 0 .. (N - 1) : \E x \in S : RankIn(S, R, x) = n
  BY <1>4, <1>8 DEF Surjection
<1>10. QED
  BY <1>1, <1>2, <1>3, <1>9

LEMMA RankedIs ==
  ASSUME NEW S, NEW R, IsFiniteSet(S), Orders(R, S)
  PROVE  /\ DOMAIN Timeline!Ranked(S, R) = 1 .. Cardinality(S) /\ Cardinality(S) \in Nat
         /\ Timeline!Ranked(S, R) \in Seq(S) /\ Len(Timeline!Ranked(S, R)) = Cardinality(S)
         /\ \A x \in S : \E i \in 1 .. Cardinality(S) : Timeline!Ranked(S, R)[i] = x
         /\ \A i, j \in 1 .. Cardinality(S) : i < j => <<Timeline!Ranked(S, R)[i], Timeline!Ranked(S, R)[j]>> \in R
<1> DEFINE N == Cardinality(S)
           r == Timeline!Ranked(S, R)
<1>1. /\ N \in Nat
      /\ \A x \in S : RankIn(S, R, x) \in 0 .. (N - 1)
      /\ \A x, y \in S : <<x, y>> \in R => RankIn(S, R, x) < RankIn(S, R, y)
      /\ \A n \in 0 .. (N - 1) : \E x \in S : RankIn(S, R, x) = n
  BY RanksStand
<1>2. /\ DOMAIN r = 1 .. N /\ r = [n \in 1 .. N |-> r[n]]
      /\ \A n \in 1 .. N : r[n] = CHOOSE x \in S : RankIn(S, R, x) = n - 1
  <2>1. r = [n \in 1 .. N |-> CHOOSE x \in S : Timeline!Cardinality(BeforeIn(S, R, x)) = n - 1]
    BY LineCounts DEF Timeline!Ranked, BeforeIn
  <2>2. \A x : Timeline!Cardinality(BeforeIn(S, R, x)) = RankIn(S, R, x)
    BY LineCounts DEF RankIn
  <2>3. ASSUME NEW n \in 1 .. N PROVE r[n] = CHOOSE x \in S : RankIn(S, R, x) = n - 1
    BY <2>1, <2>2
  <2>4. QED
    BY <2>1, <2>3
<1> HIDE DEF r
<1>3. ASSUME NEW n \in 1 .. N PROVE r[n] \in S /\ RankIn(S, R, r[n]) = n - 1
  <2>1. \E x \in S : RankIn(S, R, x) = n - 1
    BY <1>1
  <2>2. QED
    BY <1>2, <2>1
<1>4. ASSUME NEW x \in S, NEW y \in S, RankIn(S, R, x) < RankIn(S, R, y) PROVE <<x, y>> \in R
  <2>1. RankIn(S, R, x) \in Nat /\ RankIn(S, R, y) \in Nat
    BY <1>1
  <2>2. x # y /\ ~ (RankIn(S, R, y) < RankIn(S, R, x))
    BY <1>4, <2>1
  <2>3. QED
    BY <1>1, <2>2 DEF Orders
<1>5. ASSUME NEW x \in S PROVE \E i \in 1 .. N : r[i] = x
  <2> DEFINE i == RankIn(S, R, x) + 1
  <2>1. i \in 1 .. N /\ i - 1 = RankIn(S, R, x)
    BY <1>1
  <2> HIDE DEF i
  <2>2. r[i] \in S /\ RankIn(S, R, r[i]) = RankIn(S, R, x)
    BY <1>3, <2>1
  <2>3. ~ (<<r[i], x>> \in R) /\ ~ (<<x, r[i]>> \in R)
    BY <1>1, <2>2
  <2>4. QED
    BY <2>1, <2>2, <2>3 DEF Orders
<1>6. ASSUME NEW i \in 1 .. N, NEW j \in 1 .. N, i < j PROVE <<r[i], r[j]>> \in R
  <2>1. RankIn(S, R, r[i]) < RankIn(S, R, r[j])
    BY <1>1, <1>3, <1>6
  <2>2. QED
    BY <1>3, <1>4, <2>1
<1>7. DOMAIN r = 1 .. N /\ r \in Seq(S) /\ Len(r) = N
  BY <1>1, <1>2, <1>3
<1>8. QED
  BY <1>1, <1>5, <1>6, <1>7 DEF r

\* The first so many of a set, or all of it.
LEMMA FirstRanks ==
  ASSUME NEW S, NEW R, IsFiniteSet(S), Orders(R, S), NEW P \in Nat
  PROVE  Cardinality({x \in S : RankIn(S, R, x) < P}) = IF P <= Cardinality(S) THEN P ELSE Cardinality(S)
<1> DEFINE N == Cardinality(S)
           K == IF P <= N THEN P ELSE N
           T == {x \in S : RankIn(S, R, x) < P}
           f == [x \in T |-> RankIn(S, R, x)]
<1>1. /\ N \in Nat
      /\ \A x \in S : RankIn(S, R, x) \in 0 .. (N - 1)
      /\ \A x, y \in S : <<x, y>> \in R => RankIn(S, R, x) < RankIn(S, R, y)
      /\ \A n \in 0 .. (N - 1) : \E x \in S : RankIn(S, R, x) = n
  BY RanksStand
<1>2. K \in Nat /\ K <= N /\ K <= P /\ (K = N \/ K = P)
  BY <1>1
<1>3. T \in SUBSET S /\ f \in [T -> 0 .. (K - 1)] /\ \A x \in T : f[x] = RankIn(S, R, x)
  BY <1>1, <1>2
<1>4. ASSUME NEW x \in T, NEW y \in T, f[x] = f[y] PROVE x = y
  <2>1. ~ (<<x, y>> \in R) /\ ~ (<<y, x>> \in R)
    BY <1>1, <1>3, <1>4
  <2>2. QED
    BY <1>3, <2>1 DEF Orders
<1>5. ASSUME NEW n \in 0 .. (K - 1) PROVE \E x \in T : f[x] = n
  <2>1. n \in 0 .. (N - 1) /\ n < P
    BY <1>1, <1>2
  <2>2. PICK x \in S : RankIn(S, R, x) = n
    BY <1>1, <2>1
  <2>3. QED
    BY <2>1, <2>2
<1> HIDE DEF f, T, K
<1>6. f \in Bijection(T, 0 .. (K - 1))
  BY <1>3, <1>4, <1>5 DEF Bijection, Injection, Surjection, IsInjective
<1>7. IsFiniteSet(T)
  BY <1>3, FS_Subset
<1>8. Cardinality(0 .. (K - 1)) = Cardinality(T)
  BY <1>6, <1>7, FS_Bijection DEF ExistsBijection
<1>9. Cardinality(0 .. (K - 1)) = K
  BY <1>2, FS_Interval
<1>10. QED
  BY <1>8, <1>9 DEF T, K

\* The sum of how many each part of a set has: how many the set has.
LEMMA PartsAddUp ==
  ASSUME NEW T, IsFiniteSet(T), NEW counts, NEW N \in Nat, NEW P \in [1 .. N -> SUBSET T],
         \A m \in T : \E i \in 1 .. N : m \in P[i],
         \A i, j \in 1 .. N : \A m \in T : m \in P[i] /\ m \in P[j] => i = j,
         Len(counts) = N, \A i \in 1 .. N : counts[i] = Cardinality(P[i])
  PROVE  Timeline!Sum(counts) = Cardinality(T)
<1> DEFINE Upto(n) == {m \in T : \E i \in 1 .. n : m \in P[i]}
           g == [n \in 0 .. N |-> Cardinality(Upto(n))]
           Rec(f) == f = [n \in 0 .. N |-> IF n = 0 THEN 0 ELSE f[n - 1] + counts[n]]
           up == CHOOSE f : Rec(f)
<1>1. Upto(0) = {} /\ Upto(N) = T
  OBVIOUS
<1>2. ASSUME NEW n \in 1 .. N PROVE Cardinality(Upto(n)) = Cardinality(Upto(n - 1)) + counts[n]
  <2>1. Upto(n) = Upto(n - 1) \union P[n] /\ Upto(n - 1) \intersect P[n] = {}
    <3>1. n \in Nat /\ n - 1 \in Nat /\ \A i : i \in 1 .. n <=> i \in 1 .. (n - 1) \/ i = n
      OBVIOUS
    <3>2. \A i \in 1 .. (n - 1) : i \in 1 .. N /\ i # n
      OBVIOUS
    <3>3. P[n] \in SUBSET T
      OBVIOUS
    <3>4. \A m : m \in Upto(n) <=> m \in Upto(n - 1) \union P[n]
      BY <3>1, <3>3
    <3>5. \A m \in T : ~ (m \in Upto(n - 1) /\ m \in P[n])
      BY <3>2
    <3>6. QED
      BY <3>4, <3>5
  <2>2. /\ IsFiniteSet(Upto(n - 1)) /\ IsFiniteSet(P[n])
        /\ Cardinality(Upto(n - 1)) \in Nat /\ Cardinality(P[n]) \in Nat
    <3>1. Upto(n - 1) \in SUBSET T /\ P[n] \in SUBSET T
      OBVIOUS
    <3>2. QED
      BY <3>1, FS_Subset, FS_CardinalityType
  <2> HIDE DEF Upto
  <2>3. Cardinality(Upto(n)) = Cardinality(Upto(n - 1)) + Cardinality(P[n]) - Cardinality({})
    BY <2>1, <2>2, FS_Union
  <2>4. QED
    BY <2>2, <2>3, FS_EmptySet
<1>3. g[0] = 0 /\ g[N] = Cardinality(T) /\ DOMAIN g = 0 .. N
  BY <1>1, FS_EmptySet
<1>4. ASSUME NEW n \in 1 .. N PROVE g[n] = g[n - 1] + counts[n]
  <2>1. n \in 0 .. N /\ n - 1 \in 0 .. N
    OBVIOUS
  <2>2. g[n] = Cardinality(Upto(n)) /\ g[n - 1] = Cardinality(Upto(n - 1))
    BY <2>1
  <2>3. QED
    BY <1>2, <2>2
<1>5. g = [n \in 0 .. N |-> g[n]]
  OBVIOUS
<1> HIDE DEF g, Upto
<1>6. Rec(g)
  BY <1>3, <1>4, <1>5
<1>7. Rec(up)
  BY <1>6
<1>8. \A n \in 0 .. N : up[n] = g[n]
  <2> DEFINE S == {n \in Nat : n \in 0 .. N => up[n] = g[n]}
  <2>1. 0 \in S
    BY <1>3, <1>7
  <2>2. ASSUME NEW n \in S PROVE n + 1 \in S
    <3>1. SUFFICES ASSUME n + 1 \in 0 .. N PROVE up[n + 1] = g[n + 1]
      OBVIOUS
    <3>2. n \in Nat /\ n \in 0 .. N /\ n + 1 \in 1 .. N /\ (n + 1) - 1 = n /\ n + 1 # 0
      BY <3>1
    <3>3. up[n] = g[n]
      BY <3>2
    <3>4. g[n + 1] = g[n] + counts[n + 1]
      BY <1>4, <3>2
    <3>5. up[n + 1] = up[n] + counts[n + 1]
      BY <1>7, <3>1, <3>2
    <3>6. QED
      BY <3>3, <3>4, <3>5
  <2> HIDE DEF S
  <2>3. S = Nat
    <3>1. S \in SUBSET Nat
      BY DEF S
    <3>2. QED
      BY <2>1, <2>2, <3>1, Counting
  <2>4. QED
    BY <2>3 DEF S
<1>9. Timeline!Sum(counts) = up[N]
  BY DEF Timeline!Sum
<1>10. QED
  BY <1>3, <1>8, <1>9

-----------------------------------------------------------------------------
(* A timeline and a trace: every statement reads what the first one froze,  *)
(* and the parts of a level part what the total counts.                     *)

LEMMA LineLeast ==
  ASSUME NEW T \in SUBSET Nat, T # {} PROVE Timeline!Min(T) \in T /\ \A x \in T : Timeline!Min(T) <= x
  BY LeastStands DEF Timeline!Min

LEMMA LineOfTwo ==
  ASSUME NEW a \in Int, NEW b \in Int
  PROVE  /\ Timeline!Max({a, b}) = IF a >= b THEN a ELSE b
         /\ Timeline!Min({a, b}) = IF a <= b THEN a ELSE b
<1>1. \E x \in {a, b} : \A y \in {a, b} : x >= y
  OBVIOUS
<1>2. \E x \in {a, b} : \A y \in {a, b} : x <= y
  OBVIOUS
<1>3. /\ Timeline!Max({a, b}) \in {a, b} /\ \A y \in {a, b} : Timeline!Max({a, b}) >= y
      /\ Timeline!Min({a, b}) \in {a, b} /\ \A y \in {a, b} : Timeline!Min({a, b}) <= y
  BY <1>1, <1>2 DEF Timeline!Max, Timeline!Min
<1>4. QED
  BY <1>3

LEMMA LineGreatest ==
  ASSUME NEW T \in SUBSET Nat, T # {}, IsFiniteSet(T)
  PROVE  Timeline!Max(T) \in T
<1> DEFINE R == {p \in T \X T : p[1] < p[2]}
           r == Timeline!Ranked(T, R)
           N == Cardinality(T)
<1>1. \A x, y \in T : <<x, y>> \in R <=> x < y
  OBVIOUS
<1> HIDE DEF R
<1>2. Orders(R, T)
  BY <1>1 DEF Orders
<1>3. /\ N \in Nat /\ r \in Seq(T) /\ Len(r) = N
      /\ \A x \in T : \E i \in 1 .. N : r[i] = x
      /\ \A i, j \in 1 .. N : i < j => <<r[i], r[j]>> \in R
  BY <1>2, RankedIs
<1>4. N # 0
  BY FS_EmptySet
<1> HIDE DEF r, N
<1>5. r[N] \in T /\ \A x \in T : x <= r[N]
  <2>1. N \in 1 .. N /\ r[N] \in T
    BY <1>3, <1>4
  <2>2. ASSUME NEW x \in T PROVE x <= r[N]
    <3>1. PICK i \in 1 .. N : r[i] = x
      BY <1>3
    <3>2. i = N \/ <<r[i], r[N]>> \in R
      BY <1>3, <2>1
    <3>3. CASE i = N
      BY <2>1, <3>1, <3>3
    <3>4. CASE <<r[i], r[N]>> \in R
      <4>1. r[i] \in T /\ r[i] < r[N]
        BY <1>1, <2>1, <3>1, <3>4
      <4>2. x \in Nat /\ r[N] \in Nat /\ x < r[N]
        BY <2>1, <3>1, <4>1
      <4>3. QED
        BY <4>2
    <3>5. QED
      BY <3>2, <3>3, <3>4
  <2>3. QED
    BY <2>1, <2>2
<1>6. QED
  BY <1>5 DEF Timeline!Max

\* What comes first and, of two that come together, whose id does.
LEMMA PairsAhead ==
  ASSUME NEW a \in Int, NEW b \in Int, NEW c \in Int, NEW d \in Int
  PROVE  Timeline!Ahead(<<a, b>>, <<c, d>>) <=> a < c \/ (a = c /\ b < d)
<1> DEFINE k == <<a, b>>
           l == <<c, d>>
<1>1. DOMAIN k = {1, 2} /\ k[1] = a /\ k[2] = b /\ l[1] = c /\ l[2] = d
  OBVIOUS
<1> HIDE DEF k, l
<1>2. 1 .. (1 - 1) = {} /\ 1 .. (2 - 1) = {1}
  OBVIOUS
<1>3. Timeline!Ahead(k, l) <=> k[1] < l[1] \/ (k[2] < l[2] /\ k[1] = l[1])
  BY <1>1, <1>2 DEF Timeline!Ahead
<1>4. QED
  BY <1>1, <1>3 DEF k, l

LEMMA PairsOrder ==
  ASSUME NEW S \in SUBSET Nat, NEW f \in [S -> Nat], NEW R \in SUBSET (S \X S),
         \A x, y \in S : <<x, y>> \in R <=> Timeline!Ahead(<<f[x], x>>, <<f[y], y>>)
  PROVE  Orders(R, S) /\ \A x, y \in S : <<x, y>> \in R => f[x] <= f[y]
<1>1. ASSUME NEW x \in S, NEW y \in S PROVE <<x, y>> \in R <=> f[x] < f[y] \/ (f[x] = f[y] /\ x < y)
  <2>1. f[x] \in Int /\ f[y] \in Int /\ x \in Int /\ y \in Int
    OBVIOUS
  <2>2. Timeline!Ahead(<<f[x], x>>, <<f[y], y>>) <=> f[x] < f[y] \/ (f[x] = f[y] /\ x < y)
    BY <2>1, PairsAhead
  <2>3. QED
    BY <2>2
<1>2. \A x \in S : f[x] \in Nat /\ x \in Nat
  OBVIOUS
<1>3. QED
  BY <1>1, <1>2 DEF Orders

\* What a level or a trace lists: each of its meetings once, the earliest first.
Lists(s, M, f) ==
  /\ Len(s) \in Nat /\ DOMAIN s = 1 .. Len(s) /\ \A i \in DOMAIN s : s[i] \in M
  /\ \A g \in M : \E i \in DOMAIN s : s[i] = g
  /\ \A i, j \in DOMAIN s : s[i] = s[j] => i = j
  /\ \A i, j \in DOMAIN s : i < j => f[s[i]] <= f[s[j]]

LEMMA ListedIs ==
  ASSUME NEW M \in SUBSET Nat, IsFiniteSet(M), NEW f \in [M -> Nat], NEW key,
         key = [g \in M |-> <<f[g], g>>], NEW r, r = Timeline!InOrder(M, key)
  PROVE  Lists(r, M, f)
<1> DEFINE R == {p \in M \X M : Timeline!Ahead(key[p[1]], key[p[2]])}
<1>1. \A x, y \in M : <<x, y>> \in R <=> Timeline!Ahead(<<f[x], x>>, <<f[y], y>>)
  OBVIOUS
<1>2. R \in SUBSET (M \X M)
  OBVIOUS
<1>3. r = Timeline!Ranked(M, R)
  BY DEF Timeline!InOrder
<1> HIDE DEF R
<1>4. Orders(R, M) /\ \A x, y \in M : <<x, y>> \in R => f[x] <= f[y]
  BY <1>1, <1>2, PairsOrder
<1>5. /\ r \in Seq(M) /\ Len(r) = Cardinality(M) /\ Cardinality(M) \in Nat /\ DOMAIN r = 1 .. Cardinality(M)
      /\ \A x \in M : \E i \in 1 .. Cardinality(M) : r[i] = x
      /\ \A i, j \in 1 .. Cardinality(M) : i < j => <<r[i], r[j]>> \in R
  <2>1. Orders(R, M)
    BY <1>4
  <2>2. /\ Timeline!Ranked(M, R) \in Seq(M) /\ Len(Timeline!Ranked(M, R)) = Cardinality(M)
        /\ Cardinality(M) \in Nat /\ DOMAIN Timeline!Ranked(M, R) = 1 .. Cardinality(M)
        /\ \A x \in M : \E i \in 1 .. Cardinality(M) : Timeline!Ranked(M, R)[i] = x
        /\ \A i, j \in 1 .. Cardinality(M) : i < j => <<Timeline!Ranked(M, R)[i], Timeline!Ranked(M, R)[j]>> \in R
    BY <2>1, RankedIs
  <2>3. QED
    BY <1>3, <2>2
<1>6. Len(r) \in Nat /\ DOMAIN r = 1 .. Len(r) /\ \A i \in DOMAIN r : r[i] \in M
  <2>1. \A i \in 1 .. Len(r) : r[i] \in M
    BY <1>5
  <2>2. QED
    BY <1>5, <2>1
<1>7. ASSUME NEW i \in DOMAIN r, NEW j \in DOMAIN r, i < j PROVE <<r[i], r[j]>> \in R /\ r[i] # r[j]
  <2>1. <<r[i], r[j]>> \in R
    <3>1. i \in 1 .. Cardinality(M) /\ j \in 1 .. Cardinality(M)
      BY <1>5
    <3>2. QED
      BY <1>5, <1>7, <3>1
  <2>2. r[i] \in M
    BY <1>6
  <2>3. QED
    BY <1>4, <2>1, <2>2 DEF Orders
<1>8. ASSUME NEW i \in DOMAIN r, NEW j \in DOMAIN r, r[i] = r[j] PROVE i = j
  <2>1. i \in Nat /\ j \in Nat /\ ~ (i < j) /\ ~ (j < i)
    <3>1. i \in Nat /\ j \in Nat
      BY <1>6
    <3>2. ~ (i < j) /\ ~ (j < i)
      BY <1>7, <1>8
    <3>3. QED
      BY <3>1, <3>2
  <2>2. QED
    BY <2>1
<1>9. \A i, j \in DOMAIN r : i < j => f[r[i]] <= f[r[j]]
  BY <1>4, <1>6, <1>7
<1>10. QED
  BY <1>5, <1>6, <1>8, <1>9 DEF Lists

-----------------------------------------------------------------------------
(* Times and buckets are integers.                                          *)

LEMMA Divided ==
  ASSUME NEW a \in Nat, NEW d \in Nat \ {0}
  PROVE  a \div d \in Nat /\ (a >= d => a \div d >= 1)
  OBVIOUS

LEMMA TimesDown ==
  ASSUME NEW a \in Nat, NEW b \in Nat
  PROVE  a * b \in Nat
  OBVIOUS

LEMMA Ranges ==
  ASSUME NEW n, NEW m \in 0 .. n
  PROVE  m \in Nat
  OBVIOUS

-----------------------------------------------------------------------------
(* A timeline and a trace: every statement reads what the first one froze,  *)
(* so the parts of an answer part what its total counts.                    *)

LineFields == {"at", "thread", "snapshot", "window", "totals", "bands", "meetings", "fine", "truncated",
               "mode", "ranked", "stops", "quoted", "complete"}
Frozen(db) ==
  /\ db.mention \in [LineMoments -> [thread : ThreadIds \union {None}, anchor : 0 .. 1]]
  /\ db.superseded \in SUBSET LineMoments

\* What a request's level selects, what its trace is of, and what of that is of one meeting.
LineIn(r) ==
  {m \in Timeline!Of(r.snapshot, r.thread) :
     r.window[1] <= Timeline!At(r.snapshot, m) /\ Timeline!At(r.snapshot, m) <= r.window[2]}
LineCandidates(r) ==
  (IF r.thread # None THEN Timeline!Of(r.snapshot, r.thread) ELSE r.ranked) \intersect Timeline!Live(r.snapshot)
Gathered(T, g) == {m \in T : LineMeeting[m] = g}

\* A list of meetings that parts some moments: each meeting once, with how many of them are its.
Parts(listed, T) ==
  /\ Len(listed) \in Nat /\ DOMAIN listed = 1 .. Len(listed)
  /\ \A m \in T : \E i \in DOMAIN listed : listed[i].meeting = LineMeeting[m]
  /\ \A i, j \in DOMAIN listed : listed[i].meeting = listed[j].meeting => i = j
StopsStand(r) ==
  /\ Parts(r.stops, LineCandidates(r))
  /\ \A i \in DOMAIN r.stops : r.stops[i].moments = Cardinality(Gathered(LineCandidates(r), r.stops[i].meeting))
  /\ \A i, j \in DOMAIN r.stops : i < j => r.stops[i].first <= r.stops[j].first

LineAdds(r) ==
  /\ r.mode = "bands" => Timeline!Sum(r.bands) = r.totals
  /\ r.mode = "meetings" => Timeline!Sum([i \in DOMAIN r.meetings |-> r.meetings[i].mentions]) = r.totals
  /\ r.mode = "fine" /\ ~ r.truncated =>
       Cardinality(LineIn(r) \intersect r.snapshot.superseded) + Len(r.fine) = r.totals
  /\ r.mode \in {"exhaustive", "sample"} =>
       /\ \A i \in DOMAIN r.stops :
            Cardinality({m \in r.quoted : LineMeeting[m] = r.stops[i].meeting}) =
              Timeline!Min({PerMeeting, r.stops[i].moments})
       /\ \A i, j \in DOMAIN r.stops : i < j => r.stops[i].first <= r.stops[j].first
       /\ r.complete =>
            r.mode = "exhaustive" /\ Timeline!Of(r.snapshot, r.thread) \ r.snapshot.superseded = r.quoted

LineAnswer(r) ==
  /\ DOMAIN r = LineFields /\ r.ranked \in SUBSET LineMoments
  /\ r.at \notin {"idle", "ranked"} => Frozen(r.snapshot)
  /\ r.at \in {"totals", "level"} => r.window[1] \in Int /\ r.window[2] \in Int
  /\ r.at = "level" => r.totals = Cardinality(LineIn(r))
  /\ r.at = "quotes" => StopsStand(r)
  /\ r.at # "done" => r.mode = "none"
  /\ r.at = "done" => LineAdds(r)
LineInv ==
  scene = "threads" => Frozen(Timeline!Now) /\ momentIndex \in SUBSET LineMoments /\ LineAnswer(reader)

LEMMA LineTimes ==
  ASSUME NEW db, Frozen(db)
  PROVE  \A m \in LineMoments : Timeline!At(db, m) \in Nat /\ Timeline!EvidenceAt(m) \in Nat
<1> SUFFICES ASSUME NEW m \in LineMoments PROVE Timeline!At(db, m) \in Nat /\ Timeline!EvidenceAt(m) \in Nat
  OBVIOUS
<1>1. /\ LineMeeting[m] \in Nat /\ StartMs[m] \in Nat /\ MeetingStart[LineMeeting[m]] \in Nat
      /\ db.mention[m].anchor \in 0 .. 1
  BY LineIsPlaced DEF Frozen
<1>2. Timeline!Truncated(LineMeeting[m]) \in Nat
  <2>1. Day \in Nat \ {0}
    BY LineIsPlaced
  <2>2. MeetingStart[LineMeeting[m]] \div Day \in Nat
    BY <1>1, <2>1, Divided
  <2>3. QED
    BY <2>1, <2>2, TimesDown DEF Timeline!Truncated
<1>3. StartMs[m] + db.mention[m].anchor \in Nat
  BY <1>1
<1>4. QED
  BY <1>1, <1>2, <1>3 DEF Timeline!At, Timeline!EvidenceAt, Timeline!OccurredAt

LEMMA LineMoment ==
  ASSUME NEW r, LineAnswer(r), r.at \notin {"idle", "ranked"}
  PROVE  /\ LineIn(r) \in SUBSET LineMoments /\ IsFiniteSet(LineIn(r))
         /\ LineCandidates(r) \in SUBSET LineMoments /\ IsFiniteSet(LineCandidates(r))
         /\ \A m \in LineMoments : LineMeeting[m] \in Nat /\ m \in Nat
<1>1. LineIn(r) \in SUBSET LineMoments /\ LineCandidates(r) \in SUBSET LineMoments
  BY DEF LineIn, LineCandidates, Timeline!Of, Timeline!Live, LineAnswer
<1>2. IsFiniteSet(LineMoments) /\ \A m \in LineMoments : LineMeeting[m] \in Nat /\ m \in Nat
  BY LineIsPlaced
<1>3. QED
  BY <1>1, <1>2, FS_Subset

\* The meetings of some moments, in the order of a time of each.
LEMMA MeetingsListed ==
  ASSUME NEW T \in SUBSET LineMoments, NEW M, M = {LineMeeting[m] : m \in T},
         NEW f \in [M -> Nat], NEW key, key = [g \in M |-> <<f[g], g>>],
         NEW s, s = Timeline!InOrder(M, key)
  PROVE  Lists(s, M, f)
<1>1. IsFiniteSet(T) /\ M \in SUBSET Nat
  <2>1. IsFiniteSet(LineMoments) /\ LineMeeting \in [LineMoments -> Nat]
    BY LineIsPlaced
  <2>2. QED
    BY <2>1, FS_Subset
<1>2. IsFiniteSet(M)
  <2> DEFINE h == [m \in T |-> LineMeeting[m]]
  <2>1. h \in Surjection(T, M)
    BY DEF Surjection
  <2>2. QED
    BY <1>1, <2>1, FS_Surjection
<1>3. QED
  BY <1>1, <1>2, ListedIs

\* What the meetings of a list count is what their moments number.
LEMMA PartsCount ==
  ASSUME NEW T \in SUBSET LineMoments, NEW listed, Parts(listed, T), NEW counts, Len(counts) = Len(listed),
         \A i \in DOMAIN listed : counts[i] = Cardinality(Gathered(T, listed[i].meeting))
  PROVE  Timeline!Sum(counts) = Cardinality(T)
<1> DEFINE N == Len(listed)
           P == [i \in 1 .. N |-> Gathered(T, listed[i].meeting)]
<1>1. IsFiniteSet(T)
  BY LineIsPlaced, FS_Subset
<1>2. N \in Nat /\ DOMAIN listed = 1 .. N
  BY DEF Parts
<1>3. P \in [1 .. N -> SUBSET T] /\ \A i \in 1 .. N : P[i] = Gathered(T, listed[i].meeting)
  BY DEF Gathered
<1>4. \A i \in 1 .. N : counts[i] = Cardinality(P[i])
  BY <1>2, <1>3
<1>5. \A m \in T : \E i \in 1 .. N : m \in P[i]
  BY <1>2, <1>3 DEF Parts, Gathered
<1>6. \A i, j \in 1 .. N : \A m \in T : m \in P[i] /\ m \in P[j] => i = j
  BY <1>2, <1>3 DEF Parts, Gathered
<1>7. Len(counts) = N
  OBVIOUS
<1> HIDE DEF P, N
<1>8. QED
  BY <1>1, <1>2, <1>3, <1>4, <1>5, <1>6, <1>7, PartsAddUp

LEMMA LineReads ==
  /\ Timeline!Snapshot = reader.snapshot
  /\ Timeline!In(Timeline!Snapshot, reader.window) = LineIn(reader)
  /\ Timeline!Candidates(Timeline!Snapshot) = LineCandidates(reader)
  BY DEF Timeline!Snapshot, Timeline!In, LineIn, Timeline!Candidates, LineCandidates

LEMMA OpenKeeps ==
  ASSUME LineAnswer(reader), Frozen(Timeline!Now), Timeline!OpenTimeline \/ Timeline!TraceSubject
  PROVE  LineAnswer(reader')
<1>1. PICK t \in ThreadIds, kind \in {"span", "stops"} :
        reader' = [Timeline!Idle EXCEPT !.at = kind, !.thread = t, !.snapshot = Timeline!Now]
  BY DEF Timeline!OpenTimeline, Timeline!TraceSubject, Timeline!Open
<1>2. /\ DOMAIN reader' = LineFields /\ reader'.ranked = {} /\ reader'.at = kind
      /\ reader'.snapshot = Timeline!Now /\ reader'.mode = "none"
  BY <1>1 DEF Timeline!Idle, LineFields
<1>3. QED
  BY <1>2 DEF LineAnswer

LEMMA SampleKeeps ==
  ASSUME LineAnswer(reader), Frozen(Timeline!Now), momentIndex \in SUBSET LineMoments,
         Timeline!TraceWording \/ Timeline!OpenSample \/ Timeline!Close
  PROVE  LineAnswer(reader')
<1>1. CASE Timeline!TraceWording
  <2>1. PICK ranked \in SUBSET momentIndex : reader' = [Timeline!Idle EXCEPT !.at = "ranked", !.ranked = ranked]
    BY <1>1 DEF Timeline!TraceWording
  <2>2. /\ DOMAIN reader' = LineFields /\ reader'.ranked \in SUBSET LineMoments /\ reader'.at = "ranked"
        /\ reader'.mode = "none"
    BY <2>1 DEF Timeline!Idle, LineFields
  <2>3. QED
    BY <2>2 DEF LineAnswer
<1>2. CASE Timeline!OpenSample
  <2>1. reader.at = "ranked" /\ reader' = [[reader EXCEPT !.snapshot = Timeline!Now] EXCEPT !.at = "stops"]
    BY <1>2 DEF Timeline!OpenSample, Timeline!Reads
  <2>2. DOMAIN reader = LineFields /\ reader.mode = "none" /\ reader.ranked \in SUBSET LineMoments
    BY <2>1 DEF LineAnswer
  <2>3. /\ DOMAIN reader' = LineFields /\ reader'.ranked = reader.ranked /\ reader'.at = "stops"
        /\ reader'.snapshot = Timeline!Now /\ reader'.mode = "none"
    BY <2>1, <2>2 DEF LineFields
  <2>4. QED
    BY <2>2, <2>3 DEF LineAnswer
<1>3. CASE Timeline!Close
  <2>1. reader' = Timeline!Idle
    BY <1>3 DEF Timeline!Close
  <2>2. DOMAIN reader' = LineFields /\ reader'.ranked = {} /\ reader'.at = "idle" /\ reader'.mode = "none"
    BY <2>1 DEF Timeline!Idle, LineFields
  <2>3. QED
    BY <2>2 DEF LineAnswer
<1>4. QED
  BY <1>1, <1>2, <1>3

LEMMA SpanKeeps ==
  ASSUME LineAnswer(reader), Timeline!ReadSpan PROVE LineAnswer(reader')
<1> DEFINE span == Timeline!Span(Timeline!Snapshot, reader.thread)
<1>1. /\ reader.at = "span" /\ DOMAIN reader = LineFields /\ reader.mode = "none"
      /\ reader.ranked \in SUBSET LineMoments /\ Frozen(reader.snapshot)
  BY DEF Timeline!ReadSpan, LineAnswer
<1>2. span \in SUBSET Nat /\ IsFiniteSet(span)
  <2> DEFINE T == Timeline!Of(reader.snapshot, reader.thread)
             h == [m \in T |-> Timeline!At(reader.snapshot, m)]
  <2>1. T \in SUBSET LineMoments /\ IsFiniteSet(T)
    BY LineIsPlaced, FS_Subset DEF Timeline!Of
  <2>2. span = {h[m] : m \in T}
    BY LineReads DEF Timeline!Span
  <2>3. \A m \in T : h[m] \in Nat
    BY <1>1, <2>1, LineTimes
  <2>4. h \in Surjection(T, span)
    BY <2>2 DEF Surjection
  <2>5. QED
    BY <2>1, <2>2, <2>3, <2>4, FS_Surjection
<1>3. \/ \E window : /\ window[1] \in Int /\ window[2] \in Int
                     /\ reader' = [[reader EXCEPT !.window = window] EXCEPT !.at = "totals"]
      \/ reader' = [reader EXCEPT !.at = "done"]
  <2>1. \/ span # {} /\ reader' = [[reader EXCEPT !.window = <<Timeline!Min(span), Timeline!Max(span)>>] EXCEPT !.at = "totals"]
        \/ \E window \in Timeline!Instants \X Timeline!Instants :
             reader' = [[reader EXCEPT !.window = window] EXCEPT !.at = "totals"]
        \/ reader' = [reader EXCEPT !.at = "done"]
    BY DEF Timeline!ReadSpan, Timeline!Reads
  <2>2. ASSUME span # {} PROVE Timeline!Min(span) \in Int /\ Timeline!Max(span) \in Int
    BY <1>2, <2>2, LineLeast, LineGreatest
  <2>3. \A window \in Timeline!Instants \X Timeline!Instants : window[1] \in Int /\ window[2] \in Int
    BY Ranges DEF Timeline!Instants
  <2> HIDE DEF span
  <2>4. CASE span # {} /\ reader' = [[reader EXCEPT !.window = <<Timeline!Min(span), Timeline!Max(span)>>] EXCEPT !.at = "totals"]
    <3> DEFINE window == <<Timeline!Min(span), Timeline!Max(span)>>
    <3>1. window[1] \in Int /\ window[2] \in Int
      BY <2>2, <2>4
    <3>2. QED
      BY <2>4, <3>1
  <2>5. QED
    BY <2>1, <2>3, <2>4
<1> HIDE DEF span
<1>4. ASSUME NEW window, window[1] \in Int, window[2] \in Int,
             reader' = [[reader EXCEPT !.window = window] EXCEPT !.at = "totals"]
      PROVE  LineAnswer(reader')
  <2>1. /\ DOMAIN reader' = LineFields /\ reader'.at = "totals" /\ reader'.window = window
        /\ reader'.ranked = reader.ranked /\ reader'.snapshot = reader.snapshot /\ reader'.mode = "none"
    BY <1>1, <1>4 DEF LineFields
  <2>2. QED
    BY <1>1, <1>4, <2>1 DEF LineAnswer
<1>5. ASSUME reader' = [reader EXCEPT !.at = "done"] PROVE LineAnswer(reader')
  <2>1. /\ DOMAIN reader' = LineFields /\ reader'.at = "done"
        /\ reader'.ranked = reader.ranked /\ reader'.snapshot = reader.snapshot /\ reader'.mode = "none"
    BY <1>1, <1>5 DEF LineFields
  <2>2. QED
    BY <1>1, <2>1 DEF LineAnswer, LineAdds
<1>6. QED
  BY <1>3, <1>4, <1>5

LEMMA TotalsKeeps ==
  ASSUME LineAnswer(reader), Timeline!ReadTotals PROVE LineAnswer(reader')
<1>1. /\ reader.at = "totals"
      /\ reader' = [[reader EXCEPT !.totals = Cardinality(LineIn(reader))] EXCEPT !.at = "level"]
  BY LineReads, LineCounts DEF Timeline!ReadTotals, Timeline!Reads
<1>2. /\ DOMAIN reader = LineFields /\ reader.mode = "none" /\ reader.ranked \in SUBSET LineMoments
      /\ Frozen(reader.snapshot) /\ reader.window[1] \in Int /\ reader.window[2] \in Int
  BY <1>1 DEF LineAnswer
<1>3. /\ DOMAIN reader' = LineFields /\ reader'.at = "level" /\ reader'.window = reader.window
      /\ reader'.ranked = reader.ranked /\ reader'.snapshot = reader.snapshot /\ reader'.mode = "none"
      /\ reader'.totals = Cardinality(LineIn(reader)) /\ reader'.thread = reader.thread
  BY <1>1, <1>2 DEF LineFields
<1>4. LineIn(reader') = LineIn(reader)
  BY <1>3 DEF LineIn
<1>5. QED
  BY <1>2, <1>3, <1>4 DEF LineAnswer

\* The buckets of a window number at least one, and each moment of it falls in one of them.
LEMMA Bucketed ==
  ASSUME NEW a \in Int, NEW b \in Int, NEW at \in Int, a <= at
  PROVE  LET plan == Timeline!PlanBuckets(<<a, b>>)
         IN plan.count \in Nat \ {0} /\ Timeline!BucketIndex(at - a, plan) \in 0 .. (plan.count - 1)
<1> DEFINE window == <<a, b>>
           span == Timeline!Max({1, window[2] - window[1]})
           fits == {w \in Ladder : Timeline!CeilDiv(span, w) <= TargetBuckets}
           width == IF fits # {} THEN Timeline!Min(fits) ELSE Timeline!CeilDiv(span, TargetBuckets)
           count == Timeline!Max({1, Timeline!CeilDiv(span, width)})
           plan == Timeline!PlanBuckets(window)
<1>1. span \in Nat \ {0}
  <2>1. window[2] - window[1] \in Int
    OBVIOUS
  <2> DEFINE d == window[2] - window[1]
  <2> HIDE DEF window
  <2>2. Timeline!Max({1, d}) = IF 1 >= d THEN 1 ELSE d
    BY <2>1, LineOfTwo
  <2>3. QED
    BY <2>1, <2>2
<1>2. plan.width = width /\ plan.count = count
  BY DEF Timeline!PlanBuckets
<1> HIDE DEF window, span, plan
<1>3. width \in Nat \ {0}
  <2>1. Ladder \subseteq Nat \ {0} /\ TargetBuckets \in Nat \ {0}
    BY LineIsPlaced
  <2>2. CASE fits # {}
    <3>1. fits \in SUBSET Nat /\ fits \in SUBSET (Nat \ {0})
      BY <2>1
    <3>2. QED
      BY <2>2, <3>1, LineLeast
  <2>3. CASE fits = {}
    <3>1. span + TargetBuckets - 1 \in Nat /\ span + TargetBuckets - 1 >= TargetBuckets
      BY <1>1, <2>1
    <3>2. (span + TargetBuckets - 1) \div TargetBuckets \in Nat \ {0}
      BY <2>1, <3>1, Divided
    <3>3. QED
      BY <2>3, <3>2 DEF Timeline!CeilDiv
  <2>4. QED
    BY <2>2, <2>3
<1> HIDE DEF width
<1>4. count \in Nat \ {0}
  <2>1. span + width - 1 \in Nat
    BY <1>1, <1>3
  <2>2. (span + width - 1) \div width \in Nat
    BY <1>3, <2>1, Divided
  <2>3. Timeline!CeilDiv(span, width) \in Nat
    BY <2>2 DEF Timeline!CeilDiv
  <2> DEFINE c == Timeline!CeilDiv(span, width)
  <2> HIDE DEF c
  <2>4. c \in Nat
    BY <2>3 DEF c
  <2>5. Timeline!Max({1, c}) = IF 1 >= c THEN 1 ELSE c
    BY <2>4, LineOfTwo
  <2>6. count = Timeline!Max({1, c})
    BY DEF c
  <2>7. QED
    BY <2>4, <2>5, <2>6
<1> HIDE DEF count
<1>5. Timeline!BucketIndex(at - a, plan) \in 0 .. (plan.count - 1)
  <2>1. at - a \in Nat
    OBVIOUS
  <2>2. (at - a) \div width \in Nat /\ count - 1 \in Nat
    BY <1>3, <1>4, <2>1, Divided
  <2> DEFINE q == (at - a) \div width
           last == count - 1
  <2>3. Timeline!BucketIndex(at - a, plan) = Timeline!Min({q, last})
    BY <1>2 DEF Timeline!BucketIndex
  <2>4. q \in Nat /\ last \in Nat
    BY <2>2
  <2> HIDE DEF q, last
  <2>5. Timeline!Min({q, last}) = IF q <= last THEN q ELSE last
    BY <2>4, LineOfTwo
  <2>6. Timeline!BucketIndex(at - a, plan) \in 0 .. last
    BY <2>3, <2>4, <2>5
  <2>7. QED
    BY <1>2, <2>6 DEF last
<1>6. QED
  BY <1>2, <1>4, <1>5 DEF plan, window

LEMMA BandsKeeps ==
  ASSUME LineAnswer(reader), Timeline!ReadBands PROVE LineAnswer(reader')
<1> DEFINE plan == Timeline!PlanBuckets(reader.window)
           band(i) == {m \in LineIn(reader) :
                         Timeline!BucketIndex(Timeline!At(reader.snapshot, m) - reader.window[1], plan) = i - 1}
           counts == [i \in 1 .. plan.count |-> Cardinality(band(i))]
           P == [i \in 1 .. plan.count |-> band(i)]
<1>1. /\ reader.at = "level"
      /\ reader' = [[reader EXCEPT !.mode = "bands", !.bands = counts] EXCEPT !.at = "done"]
  BY LineReads, LineCounts DEF Timeline!ReadBands, Timeline!Reads
<1>2. /\ DOMAIN reader = LineFields /\ reader.ranked \in SUBSET LineMoments
      /\ Frozen(reader.snapshot) /\ reader.window[1] \in Int /\ reader.window[2] \in Int
      /\ reader.totals = Cardinality(LineIn(reader))
  BY <1>1 DEF LineAnswer
<1>3. LineIn(reader) \in SUBSET LineMoments /\ IsFiniteSet(LineIn(reader))
  BY <1>1, LineMoment
<1>4. /\ plan.count \in Nat
      /\ \A m \in LineIn(reader) :
           Timeline!BucketIndex(Timeline!At(reader.snapshot, m) - reader.window[1], plan) \in 0 .. (plan.count - 1)
  <2>1. plan = Timeline!PlanBuckets(<<reader.window[1], reader.window[2]>>)
    BY DEF Timeline!PlanBuckets
  <2>2. \A m \in LineIn(reader) : Timeline!At(reader.snapshot, m) \in Int /\ reader.window[1] <= Timeline!At(reader.snapshot, m)
    BY <1>2, <1>3, LineTimes DEF LineIn
  <2> HIDE DEF plan
  <2>3. plan.count \in Nat
    <3> DEFINE a == reader.window[1]
               b == reader.window[2]
    <3>1. a \in Int /\ b \in Int /\ a <= a /\ plan = Timeline!PlanBuckets(<<a, b>>)
      BY <1>2, <2>1
    <3> HIDE DEF a, b
    <3>2. plan.count \in Nat \ {0}
      BY <3>1, Bucketed
    <3>3. QED
      BY <3>2
  <2>4. ASSUME NEW m \in LineIn(reader)
        PROVE  Timeline!BucketIndex(Timeline!At(reader.snapshot, m) - reader.window[1], plan) \in 0 .. (plan.count - 1)
    BY <1>2, <2>1, <2>2, Bucketed
  <2>5. QED
    BY <2>3, <2>4
<1> HIDE DEF plan
<1>5. P \in [1 .. plan.count -> SUBSET LineIn(reader)] /\ \A i \in 1 .. plan.count : P[i] = band(i)
  OBVIOUS
<1>6. \A m \in LineIn(reader) : \E i \in 1 .. plan.count : m \in P[i]
  <2> SUFFICES ASSUME NEW m \in LineIn(reader) PROVE \E i \in 1 .. plan.count : m \in P[i]
    OBVIOUS
  <2> DEFINE n == Timeline!BucketIndex(Timeline!At(reader.snapshot, m) - reader.window[1], plan)
  <2>1. n \in 0 .. (plan.count - 1)
    BY <1>4
  <2>2. n + 1 \in 1 .. plan.count /\ (n + 1) - 1 = n
    BY <1>4, <2>1
  <2>3. QED
    BY <1>5, <2>2
<1>7. \A i, j \in 1 .. plan.count : \A m \in LineIn(reader) : m \in P[i] /\ m \in P[j] => i = j
  <2> SUFFICES ASSUME NEW i \in 1 .. plan.count, NEW j \in 1 .. plan.count, NEW m \in P[i], m \in P[j] PROVE i = j
    OBVIOUS
  <2>1. i - 1 = j - 1
    BY <1>5
  <2>2. QED
    BY <1>4, <2>1
<1>8. Len(counts) = plan.count /\ \A i \in 1 .. plan.count : counts[i] = Cardinality(P[i])
  BY <1>4, <1>5
<1>9. Timeline!Sum(counts) = reader.totals
  <2> DEFINE N == plan.count
             C == counts
  <2>1. /\ N \in Nat /\ P \in [1 .. N -> SUBSET LineIn(reader)] /\ Len(C) = N
        /\ \A i \in 1 .. N : C[i] = Cardinality(P[i])
        /\ \A m \in LineIn(reader) : \E i \in 1 .. N : m \in P[i]
        /\ \A i, j \in 1 .. N : \A m \in LineIn(reader) : m \in P[i] /\ m \in P[j] => i = j
    BY <1>4, <1>5, <1>6, <1>7, <1>8
  <2> HIDE DEF N, C, P
  <2>2. Timeline!Sum(C) = Cardinality(LineIn(reader))
    BY <1>3, <2>1, PartsAddUp
  <2>3. QED
    BY <1>2, <2>2 DEF C
<1> HIDE DEF counts
<1>10. /\ DOMAIN reader' = LineFields /\ reader'.at = "done" /\ reader'.mode = "bands" /\ reader'.bands = counts
       /\ reader'.ranked = reader.ranked /\ reader'.snapshot = reader.snapshot /\ reader'.totals = reader.totals
  BY <1>1, <1>2 DEF LineFields
<1>11. QED
  BY <1>2, <1>9, <1>10 DEF LineAnswer, LineAdds

\* What ReadMeetings and ReadStops list: the meetings of some moments, by the first of a time of each.
ListsBy(T, time, M, f, key, s) ==
  /\ T \in SUBSET LineMoments /\ \A m \in T : time[m] \in Nat
  /\ M = {LineMeeting[m] : m \in T}
  /\ f = [g \in M |-> Timeline!Min({time[m] : m \in Gathered(T, g)})]
  /\ key = [g \in M |-> <<f[g], g>>] /\ s = Timeline!InOrder(M, key)

LEMMA ListsStand ==
  ASSUME NEW T, NEW time, NEW M, NEW f, NEW key, NEW s, ListsBy(T, time, M, f, key, s)
  PROVE  Lists(s, M, f)
<1>0. /\ T \in SUBSET LineMoments /\ \A m \in T : time[m] \in Nat
      /\ M = {LineMeeting[m] : m \in T}
      /\ f = [g \in M |-> Timeline!Min({time[m] : m \in Gathered(T, g)})]
      /\ key = [g \in M |-> <<f[g], g>>] /\ s = Timeline!InOrder(M, key)
  BY DEF ListsBy
<1>1. ASSUME NEW g \in M PROVE f[g] \in Nat
  <2> DEFINE D == {time[m] : m \in Gathered(T, g)}
  <2>1. D \in SUBSET Nat /\ D # {}
    BY <1>0 DEF Gathered
  <2> HIDE DEF D
  <2>2. Timeline!Min(D) \in Nat
    BY <2>1, LineLeast
  <2>3. QED
    BY <1>0, <2>2 DEF D
<1>2. f \in [M -> Nat]
  BY <1>0, <1>1
<1>3. QED
  BY <1>0, <1>2, MeetingsListed

LEMMA ListsPart ==
  ASSUME NEW T \in SUBSET LineMoments, NEW M, M = {LineMeeting[m] : m \in T}, NEW f, NEW s, Lists(s, M, f),
         NEW listed, DOMAIN listed = DOMAIN s, Len(listed) = Len(s), \A i \in DOMAIN s : listed[i].meeting = s[i]
  PROVE  Parts(listed, T)
<1>1. /\ Len(s) \in Nat /\ DOMAIN s = 1 .. Len(s) /\ \A g \in M : \E i \in DOMAIN s : s[i] = g
      /\ \A i, j \in DOMAIN s : s[i] = s[j] => i = j
  BY DEF Lists
<1>2. \A m \in T : LineMeeting[m] \in M
  OBVIOUS
<1>3. ASSUME NEW m \in T PROVE \E i \in DOMAIN listed : listed[i].meeting = LineMeeting[m]
  <2>1. PICK i \in DOMAIN s : s[i] = LineMeeting[m]
    BY <1>1, <1>2
  <2>2. i \in DOMAIN listed /\ listed[i].meeting = LineMeeting[m]
    BY <2>1
  <2>3. QED
    BY <2>2
<1>4. \A i, j \in DOMAIN listed : listed[i].meeting = listed[j].meeting => i = j
  BY <1>1
<1>5. QED
  BY <1>1, <1>3, <1>4 DEF Parts

LEMMA MeetingsKeeps ==
  ASSUME LineAnswer(reader), Timeline!ReadMeetings PROVE LineAnswer(reader')
<1> DEFINE T == LineIn(reader)
           time == [m \in T |-> Timeline!At(reader.snapshot, m)]
           M == {LineMeeting[m] : m \in T}
           f == [g \in M |-> Timeline!Min({time[m] : m \in Gathered(T, g)})]
           key == [g \in M |-> <<f[g], g>>]
           s == Timeline!InOrder(M, key)
           listed == [i \in DOMAIN s |-> [meeting |-> s[i], mentions |-> Cardinality(Gathered(T, s[i]))]]
           counts == [i \in DOMAIN listed |-> listed[i].mentions]
<1>1. /\ reader.at = "level"
      /\ reader' = [[reader EXCEPT !.mode = "meetings", !.meetings = listed] EXCEPT !.at = "done"]
  <2>1. \A g : {Timeline!At(Timeline!Snapshot, m) : m \in {n \in T : LineMeeting[n] = g}} = {time[m] : m \in Gathered(T, g)}
    BY LineReads DEF Gathered
  <2>2. key = [g \in M |-> <<Timeline!Min({Timeline!At(Timeline!Snapshot, m) : m \in {n \in T : LineMeeting[n] = g}}), g>>]
    <3> DEFINE D(g) == {time[m] : m \in Gathered(T, g)}
               E(g) == {Timeline!At(Timeline!Snapshot, m) : m \in {n \in T : LineMeeting[n] = g}}
    <3>1. \A g : D(g) = E(g)
      BY <2>1
    <3> HIDE DEF D, E
    <3>2. key = [g \in M |-> <<Timeline!Min(D(g)), g>>]
      BY DEF D
    <3>3. key = [g \in M |-> <<Timeline!Min(E(g)), g>>]
      BY <3>1, <3>2
    <3>4. QED
      BY <3>3 DEF E
  <2>3. \A g : Timeline!Cardinality({m \in T : LineMeeting[m] = g}) = Cardinality(Gathered(T, g))
    BY LineCounts DEF Gathered
  <2> HIDE DEF T, key
  <2>4. /\ reader.at = "level"
        /\ reader' = [[reader EXCEPT !.mode = "meetings", !.meetings =
             [i \in DOMAIN s |-> [meeting |-> s[i], mentions |-> Timeline!Cardinality({m \in T : LineMeeting[m] = s[i]})]]]
               EXCEPT !.at = "done"]
    BY <2>2, LineReads DEF T, Timeline!ReadMeetings, Timeline!Reads
  <2> HIDE DEF s
  <2>5. listed = [i \in DOMAIN s |-> [meeting |-> s[i], mentions |-> Timeline!Cardinality({m \in T : LineMeeting[m] = s[i]})]]
    BY <2>3
  <2>6. QED
    BY <2>4, <2>5
<1>2. /\ DOMAIN reader = LineFields /\ reader.ranked \in SUBSET LineMoments
      /\ Frozen(reader.snapshot) /\ reader.totals = Cardinality(T)
  BY <1>1 DEF LineAnswer
<1>3. T \in SUBSET LineMoments
  BY <1>1, LineMoment
<1>4. \A m \in T : time[m] \in Nat
  BY <1>2, <1>3, LineTimes
<1> HIDE DEF T, time
<1>5. Lists(s, M, f)
  <2>1. /\ M = {LineMeeting[m] : m \in T} /\ f = [g \in M |-> Timeline!Min({time[m] : m \in Gathered(T, g)})]
        /\ key = [g \in M |-> <<f[g], g>>] /\ s = Timeline!InOrder(M, key)
    OBVIOUS
  <2> HIDE DEF M, f, key, s
  <2>2. ListsBy(T, time, M, f, key, s)
    BY <1>3, <1>4, <2>1 DEF ListsBy
  <2>3. QED
    BY <2>2, ListsStand
<1> HIDE DEF s, key, f
<1>6. Len(s) \in Nat /\ DOMAIN s = 1 .. Len(s)
  BY <1>5 DEF Lists
<1>7. /\ DOMAIN listed = DOMAIN s /\ Len(listed) = Len(s) /\ \A i \in DOMAIN s : listed[i].meeting = s[i]
      /\ Len(counts) = Len(listed) /\ \A i \in DOMAIN listed : counts[i] = Cardinality(Gathered(T, listed[i].meeting))
  BY <1>6
<1>8. Parts(listed, T)
  BY <1>3, <1>5, <1>7, ListsPart
<1>9. DOMAIN counts = DOMAIN listed /\ counts = [i \in DOMAIN listed |-> listed[i].mentions]
  OBVIOUS
<1> HIDE DEF listed, M, counts
<1>10. Timeline!Sum(counts) = Cardinality(T)
  BY <1>3, <1>7, <1>8, PartsCount
<1>11. /\ DOMAIN reader' = LineFields /\ reader'.at = "done" /\ reader'.mode = "meetings" /\ reader'.meetings = listed
       /\ reader'.ranked = reader.ranked /\ reader'.snapshot = reader.snapshot /\ reader'.totals = reader.totals
  BY <1>1, <1>2 DEF LineFields
<1>12. QED
  BY <1>2, <1>9, <1>10, <1>11 DEF LineAnswer, LineAdds

LEMMA FineKeeps ==
  ASSUME LineAnswer(reader), Timeline!ReadFine PROVE LineAnswer(reader')
<1> DEFINE live == LineIn(reader) \intersect Timeline!Live(reader.snapshot)
           key == [m \in live |-> <<Timeline!EvidenceAt(m), LineMeeting[m], m>>]
           paged == Timeline!InOrder(live, key)
           fine == SubSeq(paged, 1, Timeline!Min({Len(paged), MomentLimit}))
<1>1. /\ reader.at = "level"
      /\ reader' = [[reader EXCEPT !.mode = "fine", !.fine = fine, !.truncated = (Len(paged) > MomentLimit)]
                      EXCEPT !.at = "done"]
  BY LineReads DEF Timeline!ReadFine, Timeline!Reads
<1>2. /\ DOMAIN reader = LineFields /\ reader.ranked \in SUBSET LineMoments
      /\ Frozen(reader.snapshot) /\ reader.totals = Cardinality(LineIn(reader))
  BY <1>1 DEF LineAnswer
<1>3. LineIn(reader) \in SUBSET LineMoments /\ IsFiniteSet(LineIn(reader))
  BY <1>1, LineMoment
<1>4. /\ live = LineIn(reader) \ reader.snapshot.superseded /\ IsFiniteSet(live)
      /\ Cardinality(live) \in Nat /\ Cardinality(LineIn(reader)) \in Nat
      /\ Cardinality(LineIn(reader) \intersect reader.snapshot.superseded) \in Nat
      /\ Cardinality(live) = Cardinality(LineIn(reader)) - Cardinality(LineIn(reader) \intersect reader.snapshot.superseded)
  <2>1. live = LineIn(reader) \ reader.snapshot.superseded
    BY <1>3 DEF Timeline!Live
  <2>2. IsFiniteSet(live) /\ IsFiniteSet(LineIn(reader) \intersect reader.snapshot.superseded)
    BY <1>3, <2>1, FS_Difference, FS_Intersection
  <2>3. Cardinality(LineIn(reader) \ reader.snapshot.superseded)
          = Cardinality(LineIn(reader)) - Cardinality(LineIn(reader) \intersect reader.snapshot.superseded)
    BY <1>3, FS_Difference
  <2>4. QED
    BY <1>3, <2>1, <2>2, <2>3, FS_CardinalityType
<1>5. Len(paged) = Cardinality(live) /\ \E S : paged \in Seq(S)
  <2> DEFINE N == Cardinality(live)
             pick(n) == CHOOSE x \in live :
               Timeline!Cardinality({y \in live : <<y, x>> \in {p \in live \X live : Timeline!Ahead(key[p[1]], key[p[2]])}}) = n - 1
  <2>1. paged = [n \in 1 .. N |-> pick(n)]
    BY LineCounts DEF Timeline!InOrder, Timeline!Ranked
  <2> HIDE DEF pick, paged
  <2>2. N \in Nat
    BY <1>4
  <2> HIDE DEF N
  <2>3. paged \in Seq({pick(n) : n \in 1 .. N}) /\ Len(paged) = N
    BY <2>1, <2>2
  <2>4. QED
    BY <2>3 DEF N
<1> HIDE DEF paged, live
<1>6. ASSUME ~ (Len(paged) > MomentLimit) PROVE Len(fine) = Len(paged)
  <2>1. MomentLimit \in Nat /\ Len(paged) \in Nat
    BY <1>4, <1>5, LineIsPlaced
  <2>2. Timeline!Min({Len(paged), MomentLimit}) = Len(paged)
    <3> DEFINE l == Len(paged)
    <3>1. l \in Nat
      BY <2>1
    <3>2. ~ (l > MomentLimit)
      BY <1>6
    <3> HIDE DEF l
    <3>3. l \in Int /\ MomentLimit \in Int
      BY <2>1, <3>1
    <3>4. Timeline!Min({l, MomentLimit}) = IF l <= MomentLimit THEN l ELSE MomentLimit
      BY <3>3, LineOfTwo
    <3>5. QED
      BY <2>1, <3>1, <3>2, <3>4 DEF l
  <2>3. QED
    BY <1>5, <2>1, <2>2, SubSeqProperties
<1> HIDE DEF fine
<1>7. /\ DOMAIN reader' = LineFields /\ reader'.at = "done" /\ reader'.mode = "fine" /\ reader'.fine = fine
      /\ reader'.truncated = (Len(paged) > MomentLimit) /\ reader'.window = reader.window /\ reader'.thread = reader.thread
      /\ reader'.ranked = reader.ranked /\ reader'.snapshot = reader.snapshot /\ reader'.totals = reader.totals
  BY <1>1, <1>2 DEF LineFields
<1>8. LineIn(reader') = LineIn(reader)
  BY <1>7 DEF LineIn
<1>9. ~ reader'.truncated => Cardinality(LineIn(reader) \intersect reader.snapshot.superseded) + Len(fine) = reader.totals
  <2> SUFFICES ASSUME ~ reader'.truncated
               PROVE  Cardinality(LineIn(reader) \intersect reader.snapshot.superseded) + Len(fine) = reader.totals
    OBVIOUS
  <2>1. ~ (Len(paged) > MomentLimit)
    BY <1>7
  <2>2. Len(fine) = Cardinality(live)
    BY <1>5, <1>6, <2>1
  <2> DEFINE gone == Cardinality(LineIn(reader) \intersect reader.snapshot.superseded)
             whole == Cardinality(LineIn(reader))
             kept == Cardinality(live)
  <2>3. gone \in Nat /\ whole \in Nat /\ kept = whole - gone /\ reader.totals = whole
    BY <1>2, <1>4
  <2> HIDE DEF gone, whole, kept
  <2>4. gone + kept = whole
    BY <2>3
  <2>5. QED
    BY <2>2, <2>3, <2>4 DEF gone, kept
<1>10. LineAdds(reader')
  BY <1>7, <1>8, <1>9 DEF LineAdds
<1>11. QED
  BY <1>2, <1>7, <1>10 DEF LineAnswer

LEMMA StopsKeeps ==
  ASSUME LineAnswer(reader), Timeline!ReadStops PROVE LineAnswer(reader')
<1> DEFINE db == reader.snapshot
           T == LineCandidates(reader)
           time == [m \in T |-> Timeline!When(db, m)]
           M == {LineMeeting[m] : m \in T}
           f == [g \in M |-> Timeline!Min({time[m] : m \in Gathered(T, g)})]
           key == [g \in M |-> <<f[g], g>>]
           s == Timeline!InOrder(M, key)
           listed == [i \in DOMAIN s |->
             [meeting |-> s[i], first |-> Timeline!FirstAt(db, s[i]), moments |-> Cardinality(Gathered(T, s[i]))]]
<1>1. \A g \in M : Timeline!FirstAt(db, g) = f[g]
  <2>1. \A g : {Timeline!When(db, m) : m \in {n \in T : LineMeeting[n] = g}} = {time[m] : m \in Gathered(T, g)}
    BY DEF Gathered
  <2>2. Timeline!Candidates(db) = T
    BY LineReads
  <2> HIDE DEF T, time, db
  <2>3. QED
    BY <2>1, <2>2 DEF Timeline!FirstAt
<1>2. reader.at = "stops" /\ reader' = [[reader EXCEPT !.stops = listed] EXCEPT !.at = "quotes"]
  <2>1. Timeline!Snapshot = db /\ Timeline!Candidates(db) = T
    BY LineReads
  <2>2. \A g : Timeline!Cardinality({m \in T : LineMeeting[m] = g}) = Cardinality(Gathered(T, g))
    BY LineCounts DEF Gathered
  <2>3. key = [g \in M |-> <<Timeline!FirstAt(db, g), g>>]
    <3> HIDE DEF M, f, T, time, db
    <3>1. QED
      BY <1>1
  <2> HIDE DEF T, key, db
  <2>4. /\ reader.at = "stops"
        /\ reader' = [[reader EXCEPT !.stops =
             [i \in DOMAIN s |-> [meeting |-> s[i], first |-> Timeline!FirstAt(db, s[i]),
                                  moments |-> Timeline!Cardinality({m \in T : LineMeeting[m] = s[i]})]]]
               EXCEPT !.at = "quotes"]
    BY <2>1, <2>3 DEF Timeline!ReadStops, Timeline!Reads
  <2> HIDE DEF s
  <2>5. listed = [i \in DOMAIN s |-> [meeting |-> s[i], first |-> Timeline!FirstAt(db, s[i]),
                                      moments |-> Timeline!Cardinality({m \in T : LineMeeting[m] = s[i]})]]
    BY <2>2
  <2>6. QED
    BY <2>4, <2>5
<1>3. /\ DOMAIN reader = LineFields /\ reader.ranked \in SUBSET LineMoments /\ Frozen(db) /\ reader.mode = "none"
  BY <1>2 DEF LineAnswer
<1>4. T \in SUBSET LineMoments
  BY <1>2, LineMoment
<1>5. \A m \in T : time[m] \in Nat
  BY <1>3, <1>4, LineTimes DEF Timeline!When
<1> HIDE DEF T, time
<1>6. Lists(s, M, f)
  <2>1. /\ M = {LineMeeting[m] : m \in T} /\ f = [g \in M |-> Timeline!Min({time[m] : m \in Gathered(T, g)})]
        /\ key = [g \in M |-> <<f[g], g>>] /\ s = Timeline!InOrder(M, key)
    OBVIOUS
  <2> HIDE DEF M, f, key, s
  <2>2. ListsBy(T, time, M, f, key, s)
    BY <1>4, <1>5, <2>1 DEF ListsBy
  <2>3. QED
    BY <2>2, ListsStand
<1> HIDE DEF s, key, f
<1>7. Len(s) \in Nat /\ DOMAIN s = 1 .. Len(s) /\ \A i \in DOMAIN s : s[i] \in M
  BY <1>6 DEF Lists
<1>8. /\ DOMAIN listed = DOMAIN s /\ Len(listed) = Len(s) /\ \A i \in DOMAIN s : listed[i].meeting = s[i]
      /\ \A i \in DOMAIN listed : listed[i].moments = Cardinality(Gathered(T, listed[i].meeting))
      /\ \A i \in DOMAIN listed : listed[i].first = f[s[i]]
  BY <1>1, <1>7
<1>9. M = {LineMeeting[m] : m \in T}
  OBVIOUS
<1> HIDE DEF listed, M
<1>10. Parts(listed, T)
  BY <1>4, <1>6, <1>8, <1>9, ListsPart
<1>11. \A i, j \in DOMAIN listed : i < j => listed[i].first <= listed[j].first
  BY <1>6, <1>8 DEF Lists
<1>12. /\ DOMAIN reader' = LineFields /\ reader'.at = "quotes" /\ reader'.mode = "none" /\ reader'.stops = listed
       /\ reader'.ranked = reader.ranked /\ reader'.snapshot = reader.snapshot /\ reader'.thread = reader.thread
  BY <1>2, <1>3 DEF LineFields
<1>13. LineCandidates(reader') = T
  BY <1>12 DEF LineCandidates, T
<1>14. StopsStand(reader')
  BY <1>8, <1>10, <1>11, <1>12, <1>13 DEF StopsStand
<1>15. QED
  BY <1>3, <1>12, <1>14 DEF LineAnswer

\* A trace quotes the first so many moments of each of its meetings.
LEMMA QuotedOfEach ==
  ASSUME NEW T \in SUBSET LineMoments, NEW g
  PROVE  Cardinality({m \in {n \in T : Timeline!Cardinality({k \in T : Timeline!Earlier(k, n)}) < PerMeeting} : LineMeeting[m] = g})
           = Timeline!Min({PerMeeting, Cardinality(Gathered(T, g))})
<1> DEFINE G == Gathered(T, g)
           R == {p \in G \X G : Timeline!Ahead(<<StartMs[p[1]], p[1]>>, <<StartMs[p[2]], p[2]>>)}
           Q == {m \in {n \in T : Timeline!Cardinality({k \in T : Timeline!Earlier(k, n)}) < PerMeeting} : LineMeeting[m] = g}
<1>1. /\ G \in SUBSET T /\ G \in SUBSET Nat /\ IsFiniteSet(G) /\ \A m \in G : StartMs[m] \in Nat
      /\ PerMeeting \in Nat /\ Cardinality(G) \in Nat
  <2>1. G \in SUBSET T
    BY DEF Gathered
  <2>2. IsFiniteSet(G)
    BY <2>1, LineIsPlaced, FS_Subset
  <2>3. QED
    BY <2>1, <2>2, LineIsPlaced, FS_CardinalityType
<1>2. Orders(R, G)
  <2> DEFINE h == [m \in G |-> StartMs[m]]
  <2>1. h \in [G -> Nat] /\ R \in SUBSET (G \X G)
    BY <1>1
  <2>2. \A x, y \in G : <<x, y>> \in R <=> Timeline!Ahead(<<h[x], x>>, <<h[y], y>>)
    OBVIOUS
  <2> HIDE DEF h, R, G
  <2>3. QED
    BY <1>1, <2>1, <2>2, PairsOrder
<1>3. \A m \in G : {k \in T : Timeline!Earlier(k, m)} = BeforeIn(G, R, m)
  BY DEF BeforeIn, Timeline!Earlier, Gathered
<1>4. \A m \in G : Timeline!Cardinality({k \in T : Timeline!Earlier(k, m)}) = RankIn(G, R, m)
  BY <1>3, LineCounts DEF RankIn
<1>5. Q = {m \in G : RankIn(G, R, m) < PerMeeting}
  <2>1. Q = {m \in G : Timeline!Cardinality({k \in T : Timeline!Earlier(k, m)}) < PerMeeting}
    BY DEF Gathered
  <2> HIDE DEF Q, R, G
  <2>2. QED
    BY <1>4, <2>1
<1> HIDE DEF G, R
<1>6. Cardinality(Q) = IF PerMeeting <= Cardinality(G) THEN PerMeeting ELSE Cardinality(G)
  <2> HIDE DEF Q
  <2>1. IsFiniteSet(G) /\ PerMeeting \in Nat
    BY <1>1
  <2>2. Cardinality({m \in G : RankIn(G, R, m) < PerMeeting}) = IF PerMeeting <= Cardinality(G) THEN PerMeeting ELSE Cardinality(G)
    BY <1>2, <2>1, FirstRanks
  <2>3. QED
    BY <1>5, <2>2
<1> DEFINE c == Cardinality(G)
<1>7. c \in Int /\ PerMeeting \in Int
  BY <1>1
<1> HIDE DEF c
<1>8. Timeline!Min({PerMeeting, c}) = IF PerMeeting <= c THEN PerMeeting ELSE c
  BY <1>7, LineOfTwo
<1>9. QED
  BY <1>6, <1>8 DEF c, G

LEMMA AssembleKeeps ==
  ASSUME LineAnswer(reader), Timeline!Assemble PROVE LineAnswer(reader')
<1> DEFINE db == reader.snapshot
           T == LineCandidates(reader)
           quoted == Timeline!Quoted(db)
           counts == [i \in DOMAIN reader.stops |-> reader.stops[i].moments]
           total == Timeline!Sum(counts)
           mode == IF reader.thread # None THEN "exhaustive" ELSE "sample"
<1>1. /\ reader.at = "quotes"
      /\ reader' = [[reader EXCEPT !.mode = mode, !.quoted = quoted,
                       !.complete = (mode = "exhaustive" /\ Timeline!Cardinality(quoted) >= total)] EXCEPT !.at = "done"]
  BY LineReads DEF Timeline!Assemble, Timeline!Reads
<1>2. /\ DOMAIN reader = LineFields /\ reader.ranked \in SUBSET LineMoments /\ Frozen(db) /\ StopsStand(reader)
  BY <1>1 DEF LineAnswer
<1>3. T \in SUBSET LineMoments /\ IsFiniteSet(T)
  BY <1>1, LineMoment
<1>4. quoted = {n \in T : Timeline!Cardinality({k \in T : Timeline!Earlier(k, n)}) < PerMeeting}
  BY LineReads DEF Timeline!Quoted
<1>5. quoted \in SUBSET T
  BY <1>4
<1> HIDE DEF T, quoted, db
<1>6. total = Cardinality(T)
  <2>1. /\ Parts(reader.stops, T)
        /\ \A i \in DOMAIN reader.stops : reader.stops[i].moments = Cardinality(Gathered(T, reader.stops[i].meeting))
    BY <1>2 DEF StopsStand, T
  <2>2. Len(counts) = Len(reader.stops) /\ \A i \in DOMAIN reader.stops : counts[i] = Cardinality(Gathered(T, reader.stops[i].meeting))
    BY <2>1 DEF Parts
  <2> HIDE DEF counts
  <2>3. QED
    BY <1>3, <2>1, <2>2, PartsCount
<1> HIDE DEF total
<1>7. \A i \in DOMAIN reader.stops :
        Cardinality({m \in quoted : LineMeeting[m] = reader.stops[i].meeting}) = Timeline!Min({PerMeeting, reader.stops[i].moments})
  <2> SUFFICES ASSUME NEW i \in DOMAIN reader.stops
               PROVE  Cardinality({m \in quoted : LineMeeting[m] = reader.stops[i].meeting}) =
                        Timeline!Min({PerMeeting, reader.stops[i].moments})
    OBVIOUS
  <2> DEFINE g == reader.stops[i].meeting
  <2>1. reader.stops[i].moments = Cardinality(Gathered(T, g))
    BY <1>2 DEF StopsStand, T
  <2> HIDE DEF g
  <2>2. Cardinality({m \in quoted : LineMeeting[m] = g}) = Timeline!Min({PerMeeting, Cardinality(Gathered(T, g))})
    BY <1>3, <1>4, QuotedOfEach
  <2>3. QED
    BY <2>1, <2>2 DEF g
<1>8. ASSUME mode = "exhaustive", Timeline!Cardinality(quoted) >= total
      PROVE  Timeline!Of(db, reader.thread) \ db.superseded = quoted
  <2>1. T = Timeline!Of(db, reader.thread) \ db.superseded
    BY <1>8 DEF T, LineCandidates, Timeline!Live, Timeline!Of, db
  <2>2. Cardinality(quoted) >= Cardinality(T)
    BY <1>6, <1>8, LineCounts
  <2>3. /\ IsFiniteSet(quoted) /\ Cardinality(quoted) <= Cardinality(T)
        /\ Cardinality(quoted) \in Nat /\ Cardinality(T) \in Nat
    BY <1>3, <1>5, FS_Subset, FS_CardinalityType
  <2>4. Cardinality(quoted) = Cardinality(T)
    BY <2>2, <2>3
  <2>5. quoted = T
    BY <1>3, <1>5, <2>4, FS_Subset
  <2>6. QED
    BY <2>1, <2>5
<1> HIDE DEF mode
<1>9. /\ DOMAIN reader' = LineFields /\ reader'.at = "done" /\ reader'.mode = mode /\ reader'.quoted = quoted
      /\ reader'.complete = (mode = "exhaustive" /\ Timeline!Cardinality(quoted) >= total)
      /\ reader'.ranked = reader.ranked /\ reader'.snapshot = db /\ reader'.thread = reader.thread /\ reader'.stops = reader.stops
  BY <1>1, <1>2 DEF LineFields, db
<1>10. mode \notin {"bands", "meetings", "fine"}
  BY DEF mode
<1>11. \A i, j \in DOMAIN reader.stops : i < j => reader.stops[i].first <= reader.stops[j].first
  BY <1>2 DEF StopsStand
<1>12. LineAdds(reader')
  <2>1. reader'.complete => reader'.mode = "exhaustive" /\ Timeline!Of(reader'.snapshot, reader'.thread) \ reader'.snapshot.superseded = reader'.quoted
    BY <1>8, <1>9
  <2>2. QED
    BY <1>7, <1>9, <1>10, <1>11, <2>1 DEF LineAdds
<1>13. QED
  BY <1>2, <1>9, <1>12 DEF LineAnswer

LEMMA LineWrites ==
  ASSUME Frozen(Timeline!Now), momentIndex \in SUBSET LineMoments, Timeline!Writes
  PROVE  Frozen(Timeline!Now)' /\ (momentIndex \in SUBSET LineMoments)'
<1> DEFINE Threaded == [thread : ThreadIds \union {None}, anchor : 0 .. 1]
<1>1. mention \in [LineMoments -> Threaded] /\ superseded \in SUBSET LineMoments
  BY DEF Frozen, Timeline!Now
<1>2. PICK m \in LineMoments :
       \/ /\ \E t \in (ThreadIds \union {None}) \ {mention[m].thread} : mention' = [mention EXCEPT ![m].thread = t]
          /\ UNCHANGED <<superseded, momentIndex>>
       \/ superseded' = superseded \union {m} /\ UNCHANGED <<mention, momentIndex>>
       \/ momentIndex' = (momentIndex \ {m}) \union ({m} \ momentIndex) /\ UNCHANGED <<mention, superseded>>
  BY DEF Timeline!Writes
<1>3. mention' \in [LineMoments -> Threaded]
  <2>1. ASSUME NEW t \in ThreadIds \union {None}, mention' = [mention EXCEPT ![m].thread = t]
        PROVE  mention' \in [LineMoments -> Threaded]
    <3>1. [mention[m] EXCEPT !.thread = t] \in Threaded
      <4>1. mention[m] \in Threaded
        BY <1>1
      <4>2. QED
        BY <4>1
    <3> HIDE DEF Threaded
    <3>2. mention' = [mention EXCEPT ![m] = [mention[m] EXCEPT !.thread = t]]
      BY <2>1
    <3>3. QED
      BY <1>1, <3>1, <3>2
  <2>2. QED
    BY <1>1, <1>2, <2>1
<1>4. superseded' \in SUBSET LineMoments /\ momentIndex' \in SUBSET LineMoments
  BY <1>1, <1>2
<1> HIDE DEF Threaded
<1>5. QED
  BY <1>3, <1>4 DEF Frozen, Timeline!Now, Threaded

LEMMA LineNext ==
  ASSUME LineInv, scene = "threads", scene' = scene, Timeline!Next PROVE LineInv'
<1>1. Frozen(Timeline!Now) /\ momentIndex \in SUBSET LineMoments /\ LineAnswer(reader)
  BY DEF LineInv
<1>2. LineAnswer(reader)'
  <2>1. CASE Timeline!OpenTimeline \/ Timeline!TraceSubject
    BY <1>1, <2>1, OpenKeeps
  <2>2. CASE Timeline!TraceWording \/ Timeline!OpenSample \/ Timeline!Close
    BY <1>1, <2>2, SampleKeeps
  <2>3. CASE Timeline!ReadSpan
    BY <1>1, <2>3, SpanKeeps
  <2>4. CASE Timeline!ReadTotals
    BY <1>1, <2>4, TotalsKeeps
  <2>5. CASE Timeline!ReadBands
    BY <1>1, <2>5, BandsKeeps
  <2>6. CASE Timeline!ReadMeetings
    BY <1>1, <2>6, MeetingsKeeps
  <2>7. CASE Timeline!ReadFine
    BY <1>1, <2>7, FineKeeps
  <2>8. CASE Timeline!ReadStops
    BY <1>1, <2>8, StopsKeeps
  <2>9. CASE Timeline!Assemble
    BY <1>1, <2>9, AssembleKeeps
  <2>10. CASE Timeline!Writes
    <3>1. reader' = reader
      BY <2>10 DEF Timeline!Writes
    <3>2. QED
      BY <1>1, <3>1
  <2>11. QED
    BY <2>1, <2>2, <2>3, <2>4, <2>5, <2>6, <2>7, <2>8, <2>9, <2>10 DEF Timeline!Next
<1>3. Frozen(Timeline!Now)' /\ (momentIndex \in SUBSET LineMoments)'
  <2>1. Timeline!Writes \/ UNCHANGED <<mention, superseded, momentIndex>>
    BY DEF Timeline!Next, Timeline!OpenTimeline, Timeline!TraceSubject, Timeline!Open, Timeline!TraceWording,
           Timeline!OpenSample, Timeline!Close, Timeline!ReadSpan, Timeline!ReadTotals, Timeline!ReadBands,
           Timeline!ReadMeetings, Timeline!ReadFine, Timeline!ReadStops, Timeline!Assemble, Timeline!Reads
  <2>2. CASE Timeline!Writes
    BY <1>1, <2>2, LineWrites
  <2>3. CASE UNCHANGED <<mention, superseded, momentIndex>>
    BY <1>1, <2>3 DEF Timeline!Now
  <2>4. QED
    BY <2>1, <2>2, <2>3
<1>4. QED
  BY <1>2, <1>3 DEF LineInv

LEMMA LineAnswers ==
  ASSUME LineInv, scene = "threads" PROVE Timeline!AnswerAddsUp
<1>1. LineAnswer(reader)
  BY DEF LineInv
<1>2. reader.at = "done" => LineAdds(reader)
  BY <1>1 DEF LineAnswer
<1>3. LineIn(reader) = Timeline!In(reader.snapshot, reader.window)
  BY LineReads DEF Timeline!Snapshot
<1>4. \A S : Timeline!Cardinality(S) = Cardinality(S)
  BY LineCounts
<1>5. QED
  BY <1>2, <1>3, <1>4 DEF LineAdds, Timeline!AnswerAddsUp

\* Whatever commits between its statements, a timeline's bands and its meetings sum to
\* the total above them and an uncut page lacks no live moment, and a trace keeps a
\* quoted stop for each of its meetings, in time order, and is complete only when it
\* quotes every live mention (GET /threads/{id}/timeline, GET /threads/trace).
THEOREM AnswersAddUp == Spec => []AnswerAddsUp
<1>1. ASSUME Init PROVE LineInv
  <2>1. SUFFICES ASSUME scene = "threads" PROVE LineInv
    BY DEF LineInv
  <2>2. Timeline!Init
    BY <1>1, <2>1 DEF Init
  <2>3. /\ Frozen(Timeline!Now) /\ momentIndex \in SUBSET LineMoments /\ reader = Timeline!Idle
    BY <2>2 DEF Timeline!Init, Frozen, Timeline!Now
  <2>4. LineAnswer(reader)
    BY <2>3 DEF LineAnswer, Timeline!Idle, LineFields
  <2>5. QED
    BY <2>3, <2>4 DEF LineInv
<1>2. ASSUME LineInv, [Next]_all PROVE LineInv'
  <2>1. SUFFICES ASSUME scene' = "threads" PROVE LineInv'
    BY DEF LineInv
  <2>2. scene = "threads" /\ (Timeline!Next \/ UNCHANGED timelineVars)
    BY <1>2, <2>1 DEF Next, all
  <2>3. CASE Timeline!Next
    BY <1>2, <2>1, <2>2, <2>3, LineNext
  <2>4. CASE UNCHANGED timelineVars
    BY <1>2, <2>1, <2>2, <2>4 DEF LineInv, timelineVars, Timeline!Now
  <2>5. QED
    BY <2>2, <2>3, <2>4
<1>3. ASSUME LineInv PROVE AnswerAddsUp
  BY <1>3, LineAnswers DEF AnswerAddsUp
<1>4. QED
  BY <1>1, <1>2, <1>3, PTL DEF Spec

-----------------------------------------------------------------------------
(* The live list: a snapshot and the events of a tick are the next one.     *)

\* A job that failed says why, and so does the stage it failed at; no other speaks of
\* an error of its own.
JobStands(job) ==
  /\ job \in Events!JobRows
  /\ job.state = "failed" <=> job.own # None
  /\ \A s \in Events!Range(Stages) : job.status[s] = "failed" => job.state = "failed" /\ job.error[s] \in Errors
Snapshot(jobs) == DOMAIN jobs = Jobs /\ \A j \in Jobs : jobs[j] # None => JobStands(jobs[j])
EventsInv ==
  /\ Snapshot(rows) /\ Snapshot(stream.previous)
  /\ DOMAIN stream = {"open", "previous", "watched", "failures"}
  /\ \A j \in Jobs : stream.previous[j] # None => rows[j] # None

LEMMA StagesStand ==
  /\ DOMAIN Stages = 1 .. Len(Stages) /\ Len(Stages) \in Nat /\ Len(Stages) > 0
  /\ \A i \in DOMAIN Stages : Stages[i] \in Events!Range(Stages)
  /\ \A s \in Events!Range(Stages) : \E i \in DOMAIN Stages : Stages[i] = s
  /\ None \notin Errors /\ None \notin Events!Range(Stages) /\ None \notin Events!JobRows
  /\ Evidence \subseteq Events!Range(Stages) /\ IsFiniteSet(Jobs)
<1>1. /\ None \notin Errors /\ None \notin Events!Range(Stages) /\ None \notin Events!JobRows
      /\ Evidence \subseteq Events!Range(Stages) /\ Stages \in Seq(Events!Range(Stages)) /\ Stages # <<>>
  BY EventsStaged DEF Events!Staged
<1>2. IsFiniteSet(Jobs)
  BY EventsStaged DEF Events!Staged, Events!IsFiniteSet, IsFiniteSet
<1>3. DOMAIN Stages = 1 .. Len(Stages) /\ Len(Stages) \in Nat
  BY <1>1
<1>4. Len(Stages) > 0
  BY <1>1, EmptySeq
<1>5. /\ \A i \in DOMAIN Stages : Stages[i] \in Events!Range(Stages)
      /\ \A s \in Events!Range(Stages) : \E i \in DOMAIN Stages : Stages[i] = s
  BY DEF Events!Range
<1>6. QED
  BY <1>1, <1>2, <1>3, <1>4, <1>5

LEMMA FirstStage ==
  ASSUME NEW I \in SUBSET DOMAIN Stages, I # {} PROVE Events!Min(I) \in I
<1>1. I \in SUBSET Nat
  BY StagesStand
<1>2. PICK i \in I : \A k \in I : i <= k
  BY <1>1, LeastStands
<1>3. QED
  BY <1>2 DEF Events!Min

LEMMA CurrentIs ==
  ASSUME NEW job
  PROVE  /\ Events!CurrentStage(job) \in Events!Range(Stages)
         /\ Events!Unsettled(job) # {} => job.status[Events!CurrentStage(job)] # "done"
         /\ Events!Failed(job) # {} => /\ Stages[Events!Min(Events!Failed(job))] \in Events!Range(Stages)
                                      /\ job.status[Stages[Events!Min(Events!Failed(job))]] = "failed"
<1>1. ASSUME Events!Unsettled(job) # {}
      PROVE  /\ Events!CurrentStage(job) \in Events!Range(Stages)
             /\ Events!Unsettled(job) # {} => job.status[Events!CurrentStage(job)] # "done"
  <2>1. Events!Min(Events!Unsettled(job)) \in Events!Unsettled(job)
    BY <1>1, FirstStage DEF Events!Unsettled
  <2>2. Events!CurrentStage(job) = Stages[Events!Min(Events!Unsettled(job))]
    BY <1>1 DEF Events!CurrentStage
  <2>3. Events!CurrentStage(job) \in Events!Range(Stages) /\ job.status[Events!CurrentStage(job)] # "done"
    BY <2>1, <2>2, StagesStand DEF Events!Unsettled
  <2>4. QED
    BY <2>3
<1>2. ASSUME Events!Unsettled(job) = {}
      PROVE  /\ Events!CurrentStage(job) \in Events!Range(Stages)
             /\ Events!Unsettled(job) # {} => job.status[Events!CurrentStage(job)] # "done"
  <2>1. Events!CurrentStage(job) = Stages[Len(Stages)]
    BY <1>2 DEF Events!CurrentStage, Events!Last
  <2>2. QED
    BY <1>2, <2>1, StagesStand
<1>3. ASSUME Events!Failed(job) # {}
      PROVE  /\ Stages[Events!Min(Events!Failed(job))] \in Events!Range(Stages)
             /\ job.status[Stages[Events!Min(Events!Failed(job))]] = "failed"
  <2>1. Events!Min(Events!Failed(job)) \in Events!Failed(job)
    BY <1>3, FirstStage DEF Events!Failed
  <2>2. QED
    BY <2>1, StagesStand DEF Events!Failed
<1>4. QED
  BY <1>1, <1>2, <1>3

-----------------------------------------------------------------------------
(* What the commits and the readings keep.                                  *)

LEMMA QueuedStands == JobStands(Events!Queued)
BY StagesStand DEF JobStands, Events!Queued, Events!JobRows

LEMMA MovesStand ==
  ASSUME NEW job, JobStands(job), NEW next \in Events!Moves(job) PROVE JobStands(next)
<1> DEFINE current == Events!CurrentStage(job)
           names == Events!Range(Stages)
<1>1. current \in names /\ (Events!Unsettled(job) # {} => job.status[current] # "done")
  BY CurrentIs
<1>2. /\ job.state \in {"queued", "running", "failed", "done"} /\ job.own \in Errors \union {None}
      /\ job.status \in [names -> {"queued", "failed", "done"}] /\ job.error \in [names -> Errors \union {None}]
      /\ DOMAIN job = {"state", "own", "status", "error"} /\ job \in Events!JobRows
      /\ job = [state |-> job.state, own |-> job.own, status |-> job.status, error |-> job.error]
      /\ job.state = "failed" <=> job.own # None
      /\ \A s \in names : job.status[s] = "failed" => job.state = "failed" /\ job.error[s] \in Errors
  BY DEF JobStands, Events!JobRows
<1>3. None \notin Errors
  BY StagesStand
<1> HIDE DEF current, names
<1>4. CASE job.state = "queued"
  <2>1. next = [job EXCEPT !.state = "running"]
    BY <1>4 DEF Events!Moves
  <2>2. QED
    BY <1>2, <1>4, <2>1 DEF JobStands, Events!JobRows, names
<1>5. CASE job.state = "running" /\ next = [job EXCEPT !.status[current] = "done"]
  BY <1>1, <1>2, <1>5 DEF JobStands, Events!JobRows, names
<1>6. CASE job.state = "running" /\ \E e \in Errors : next = Events!Fails(job, e)
  BY <1>2, <1>3, <1>6 DEF JobStands, Events!JobRows, names, Events!Fails
<1>7. CASE job.state = "running" /\
           \E e \in Errors : next = [Events!Fails(job, e) EXCEPT !.status[current] = "failed", !.error[current] = e]
  <2>1. PICK e \in Errors : next = [Events!Fails(job, e) EXCEPT !.status[current] = "failed", !.error[current] = e]
    BY <1>7
  <2>2. next = [state |-> "failed", own |-> e, status |-> [job.status EXCEPT ![current] = "failed"],
                error |-> [job.error EXCEPT ![current] = e]]
    BY <1>2, <2>1 DEF Events!Fails
  <2>3. QED
    BY <1>1, <1>2, <1>3, <2>2 DEF JobStands, Events!JobRows, names
<1>8. CASE job.state = "running" /\ next = [job EXCEPT !.state = "done"]
  BY <1>2, <1>8 DEF JobStands, Events!JobRows, names
<1>9. CASE job.state = "failed"
  <2>1. next = [state |-> "queued", own |-> None, error |-> [s \in names |-> None],
                status |-> [s \in names |-> IF job.status[s] = "failed" THEN "queued" ELSE job.status[s]]]
    BY <1>9 DEF Events!Moves, names
  <2>2. QED
    BY <1>2, <1>3, <2>1 DEF JobStands, Events!JobRows, names
<1>10. CASE job.state = "done"
  <2>1. next = [job EXCEPT !.state = "queued",
                  !.status = [s \in names |-> IF s \in Evidence THEN "queued" ELSE job.status[s]]]
    BY <1>10 DEF Events!Moves, names
  <2>2. next = [state |-> "queued", own |-> job.own, error |-> job.error,
                status |-> [s \in names |-> IF s \in Evidence THEN "queued" ELSE job.status[s]]]
    BY <1>2, <2>1
  <2>3. QED
    BY <1>2, <1>10, <2>2 DEF JobStands, Events!JobRows, names
<1>11. CASE job.state = "running"
  <2>1. \/ next = [job EXCEPT !.status[current] = "done"] \/ next = [job EXCEPT !.state = "done"]
        \/ \E e \in Errors : next = Events!Fails(job, e)
        \/ \E e \in Errors : next = [Events!Fails(job, e) EXCEPT !.status[current] = "failed", !.error[current] = e]
    BY <1>11, Zenon DEF Events!Moves, current
  <2>2. QED
    BY <1>5, <1>6, <1>7, <1>8, <1>11, <2>1
<1>12. QED
  BY <1>2, <1>4, <1>9, <1>10, <1>11

LEMMA EventsInitInv == ASSUME Events!Init PROVE EventsInv
BY DEF Events!Init, Events!NoSnapshot, Events!Closed, EventsInv, Snapshot

LEMMA EventsNext == ASSUME EventsInv, Events!Next \/ UNCHANGED eventVars PROVE EventsInv'
<1> USE DEF EventsInv, Snapshot
<1>1. \A job : JobStands(job) => job # None
  BY StagesStand DEF JobStands
<1>2. CASE Events!Move
  <2>1. PICK j \in Jobs : \E job \in IF rows[j] = None THEN {Events!Queued} ELSE Events!Moves(rows[j]) :
                            rows' = [rows EXCEPT ![j] = job]
    BY <1>2 DEF Events!Move
  <2>2. PICK job \in IF rows[j] = None THEN {Events!Queued} ELSE Events!Moves(rows[j]) : rows' = [rows EXCEPT ![j] = job]
    BY <2>1
  <2>3. JobStands(job)
    BY <2>2, QueuedStands, MovesStand
  <2>4. UNCHANGED stream
    BY <1>2 DEF Events!Move
  <2>5. \A k \in Jobs : rows'[k] = rows[k] \/ (k = j /\ rows'[k] = job)
    BY <2>2
  <2>6. DOMAIN rows' = Jobs /\ \A k \in Jobs : rows'[k] # None => JobStands(rows'[k])
    BY <2>2, <2>3, <2>5
  <2>7. \A k \in Jobs : rows[k] # None => rows'[k] # None
    BY <1>1, <2>3, <2>5
  <2>8. Snapshot(rows)' /\ Snapshot(stream.previous)'
    BY <2>4, <2>6 DEF JobStands
  <2>9. QED
    BY <2>4, <2>7, <2>8
<1>3. ASSUME UNCHANGED rows,
             \/ UNCHANGED stream
             \/ stream' = Events!Closed \/ stream' = [stream EXCEPT !.failures = @ + 1]
             \/ \E watched : stream' = [open |-> TRUE, previous |-> rows, watched |-> watched, failures |-> 0]
      PROVE  EventsInv'
  <2>1. /\ \/ stream'.previous = stream.previous \/ stream'.previous = rows
           \/ stream'.previous = Events!NoSnapshot
        /\ DOMAIN stream' = {"open", "previous", "watched", "failures"}
    BY <1>3 DEF Events!Closed
  <2>2. rows' = rows
    BY <1>3
  <2>3. /\ DOMAIN stream'.previous = Jobs
        /\ \A j \in Jobs : stream'.previous[j] # None => JobStands(stream'.previous[j]) /\ rows[j] # None
    BY <2>1 DEF Events!NoSnapshot
  <2>4. Snapshot(rows)' /\ Snapshot(stream.previous)'
    BY <2>2, <2>3 DEF JobStands
  <2>5. QED
    BY <2>1, <2>2, <2>3, <2>4
<1>4. CASE Events!Open \/ Events!ReadFails \/ Events!Breaks
  BY <1>3, <1>4 DEF Events!Open, Events!ReadFails, Events!Breaks
<1>5. CASE Events!Tick
  <2>1. UNCHANGED rows
    BY <1>5 DEF Events!Tick
  <2>2. \/ stream' = Events!Closed
        \/ \E watched : stream' = [open |-> TRUE, previous |-> rows, watched |-> watched, failures |-> 0]
    BY <1>5, Zenon DEF Events!Tick
  <2>3. QED
    BY <1>3, <2>1, <2>2
<1>6. CASE Events!Heartbeat \/ Events!Deliver \/ Events!ReadMeetings \/ Events!SeedArrives \/ Events!SeedFails
           \/ UNCHANGED eventVars
  <2>1. UNCHANGED <<rows, stream>>
    BY <1>6 DEF Events!Heartbeat, Events!Deliver, Events!ReadMeetings, Events!SeedArrives, Events!SeedFails, eventVars
  <2>2. QED
    BY <1>3, <2>1
<1>7. QED
  BY <1>2, <1>4, <1>5, <1>6 DEF Events!Next

-----------------------------------------------------------------------------
(* What a tick sends.                                                       *)

Has(frames, e) == \E n \in 1 .. Len(frames) : frames[n] = e
\* Everything that can be said of a job as it reads now.
FramesOf(j, job) ==
  {Events!StageEvent(j, job, s) : s \in Events!Range(Stages)} \union {Events!ErrorEvent(j, job), Events!DoneEvent(j, job)}
Frames == UNION {FramesOf(j, rows[j]) : j \in {k \in Jobs : rows[k] # None}}

\* An event carries the reading of its job, and of its stage if it names one.
Carries(e, job) ==
  /\ e.state = job.state /\ e.viewable = Events!EvidenceComplete(job)
  /\ \/ e.stage = None /\ (e.event = "job.error" => e.error = job.own)
     \/ e.stage \in Events!Range(Stages) /\ e.status = job.status[e.stage] /\ e.error = job.error[e.stage]

LEMMA FramesCarry ==
  ASSUME NEW j, NEW job, JobStands(job), NEW e \in FramesOf(j, job) PROVE e.job = j /\ Carries(e, job)
<1> DEFINE complete == Events!EvidenceComplete(job)
<1>1. CASE \E s \in Events!Range(Stages) : e = Events!StageEvent(j, job, s)
  <2>1. PICK s \in Events!Range(Stages) : e = Events!StageEvent(j, job, s)
    BY <1>1
  <2>2. e = [event |-> "job.stage", job |-> j, state |-> job.state, viewable |-> complete,
             stage |-> s, status |-> job.status[s], error |-> job.error[s]]
    BY <2>1 DEF Events!StageEvent, Events!Frame
  <2> HIDE DEF complete
  <2>3. /\ e.job = j /\ e.state = job.state /\ e.viewable = complete
        /\ e.stage = s /\ e.status = job.status[s] /\ e.error = job.error[s]
    BY <2>2
  <2>4. QED
    BY <2>1, <2>3 DEF Carries, complete
<1>2. CASE e = Events!ErrorEvent(j, job) /\ Events!Failed(job) = {}
  <2>1. e = [event |-> "job.error", job |-> j, state |-> job.state, viewable |-> complete,
             stage |-> None, status |-> None, error |-> job.own]
    BY <1>2 DEF Events!ErrorEvent, Events!Frame
  <2> HIDE DEF complete
  <2>2. e.job = j /\ e.state = job.state /\ e.viewable = complete /\ e.stage = None /\ e.error = job.own
    BY <2>1
  <2>3. QED
    BY <2>2 DEF Carries, complete
<1>3. CASE e = Events!ErrorEvent(j, job) /\ Events!Failed(job) # {}
  <2> DEFINE s == Stages[Events!Min(Events!Failed(job))]
  <2>1. s \in Events!Range(Stages) /\ job.status[s] = "failed"
    BY <1>3, CurrentIs
  <2>2. job.error[s] \in Errors /\ job.error[s] # None
    BY <2>1, StagesStand DEF JobStands
  <2>3. e = [event |-> "job.error", job |-> j, state |-> job.state, viewable |-> complete,
             stage |-> s, status |-> "failed", error |-> job.error[s]]
    BY <1>3, <2>2 DEF Events!ErrorEvent, Events!Frame
  <2> HIDE DEF complete, s
  <2>4. /\ e.job = j /\ e.state = job.state /\ e.viewable = complete
        /\ e.stage = s /\ e.status = "failed" /\ e.error = job.error[s]
    BY <2>3
  <2>5. QED
    BY <2>1, <2>4 DEF Carries, complete
<1>4. CASE e = Events!DoneEvent(j, job)
  <2>1. e = [event |-> "job.done", job |-> j, state |-> job.state, viewable |-> complete,
             stage |-> None, status |-> None, error |-> None]
    BY <1>4 DEF Events!DoneEvent, Events!Frame
  <2> HIDE DEF complete
  <2>2. e.job = j /\ e.state = job.state /\ e.viewable = complete /\ e.stage = None /\ e.event = "job.done"
    BY <2>1
  <2>3. QED
    BY <2>2 DEF Carries, complete
<1>5. QED
  BY <1>1, <1>2, <1>3, <1>4 DEF FramesOf

LEMMA HasJoined ==
  ASSUME NEW S, NEW a \in Seq(S), NEW b \in Seq(S)
  PROVE  a \o b \in Seq(S) /\ \A e : Has(a \o b, e) <=> Has(a, e) \/ Has(b, e)
<1>1. /\ Len(a) \in Nat /\ Len(b) \in Nat /\ Len(a \o b) = Len(a) + Len(b) /\ a \o b \in Seq(S)
      /\ \A n \in 1 .. Len(a) + Len(b) : (a \o b)[n] = IF n <= Len(a) THEN a[n] ELSE b[n - Len(a)]
  OBVIOUS
<1>2. ASSUME NEW e, Has(a \o b, e) PROVE Has(a, e) \/ Has(b, e)
  <2>1. PICK n \in 1 .. Len(a) + Len(b) : (a \o b)[n] = e
    BY <1>1, <1>2 DEF Has
  <2>2. CASE n <= Len(a)
    BY <1>1, <2>1, <2>2 DEF Has
  <2>3. CASE ~ (n <= Len(a))
    <3>1. n - Len(a) \in 1 .. Len(b) /\ b[n - Len(a)] = e
      BY <1>1, <2>1, <2>3
    <3>2. QED
      BY <3>1 DEF Has
  <2>4. QED
    BY <2>2, <2>3
<1>3. ASSUME NEW e, Has(a, e) PROVE Has(a \o b, e)
  <2>1. PICK n \in 1 .. Len(a) : a[n] = e
    BY <1>3 DEF Has
  <2>2. n \in 1 .. Len(a) + Len(b) /\ (a \o b)[n] = e
    BY <1>1, <2>1
  <2>3. QED
    BY <1>1, <2>2 DEF Has
<1>4. ASSUME NEW e, Has(b, e) PROVE Has(a \o b, e)
  <2>1. PICK n \in 1 .. Len(b) : b[n] = e
    BY <1>4 DEF Has
  <2>2. n + Len(a) \in 1 .. Len(a) + Len(b) /\ (a \o b)[n + Len(a)] = e
    BY <1>1, <2>1
  <2>3. QED
    BY <1>1, <2>2 DEF Has
<1>5. QED
  BY <1>1, <1>2, <1>3, <1>4

LEMMA HasEither ==
  ASSUME NEW S, NEW condition, NEW e \in S
  PROVE  /\ Events!Either(condition, <<e>>) \in Seq(S)
         /\ condition => Has(Events!Either(condition, <<e>>), e)
<1>1. <<>> \in Seq(S) /\ <<e>> \in Seq(S)
  OBVIOUS
<1>2. Len(<<e>>) = 1 /\ <<e>>[1] = e
  OBVIOUS
<1>3. Has(<<e>>, e)
  BY <1>2 DEF Has
<1>4. Events!Either(condition, <<e>>) = IF condition THEN <<e>> ELSE <<>>
  BY DEF Events!Either
<1>5. CASE condition
  BY <1>1, <1>3, <1>4, <1>5, Zenon
<1>6. CASE ~ condition
  BY <1>1, <1>4, <1>6, Zenon
<1>7. QED
  BY <1>5, <1>6

\* The stages that differ, each once.
LEMMA MovesTold ==
  ASSUME NEW j, NEW job, NEW I \in SUBSET DOMAIN Stages
  PROVE  LET p == Events!Picked(Stages, I)
             told == [n \in DOMAIN p |-> Events!StageEvent(j, job, p[n])]
         IN  told \in Seq(FramesOf(j, job)) /\ \A i \in I : Has(told, Events!StageEvent(j, job, Stages[i]))
<1> DEFINE p == Events!Picked(Stages, I)
           N == Cardinality(I)
           told == [n \in DOMAIN p |-> Events!StageEvent(j, job, p[n])]
<1>1. \A S : Events!Cardinality(S) = Questions!Cardinality(S)
  BY DEF Events!Cardinality, Questions!Cardinality
<1>2. \A J, n : Events!Nth(J, n) = Questions!Nth(J, n)
  BY <1>1 DEF Events!Nth, Questions!Nth
<1>3. p = Questions!Picked(Stages, I)
  BY <1>1, <1>2 DEF Events!Picked, Questions!Picked
<1>4. Stages \in Seq(Events!Range(Stages))
  BY EventsStaged DEF Events!Staged
<1> HIDE DEF p
<1> DEFINE q == Questions!Picked(Stages, I)
<1>5. /\ N \in Nat /\ DOMAIN p = 1 .. N
      /\ \A n \in 1 .. N : \E i \in I : p[n] = Stages[i]
      /\ \A i \in I : \E n \in 1 .. N : p[n] = Stages[i]
  <2>1. /\ N \in Nat /\ DOMAIN q = 1 .. N
        /\ \A n \in 1 .. N : \E i \in I : q[n] = Stages[i]
        /\ \A i \in I : \E n \in 1 .. N : q[n] = Stages[i]
    BY <1>4, PickedIs
  <2>2. p = q
    BY <1>3
  <2> HIDE DEF q, N
  <2>3. QED
    BY <2>1, <2>2
<1> HIDE DEF N
<1>6. \A n \in 1 .. N : p[n] \in Events!Range(Stages)
  BY <1>5, StagesStand
<1>7. \A n \in 1 .. N : Events!StageEvent(j, job, p[n]) \in FramesOf(j, job)
  BY <1>6 DEF FramesOf
<1>8. told \in Seq(FramesOf(j, job)) /\ Len(told) = N
  BY <1>5, <1>7
<1>9. ASSUME NEW i \in I PROVE Has(told, Events!StageEvent(j, job, Stages[i]))
  <2>1. PICK n \in 1 .. N : p[n] = Stages[i]
    BY <1>5
  <2>2. told[n] = Events!StageEvent(j, job, Stages[i])
    BY <1>5, <2>1
  <2>3. QED
    BY <1>8, <2>1, <2>2 DEF Has
<1>10. QED
  BY <1>8, <1>9 DEF p

\* The events about a job say of it what it is: every stage that moved, that it moved at
\* all, and why it failed.
LEMMA DiffTells ==
  ASSUME NEW j, NEW before, before = None \/ JobStands(before), NEW job, JobStands(job)
  PROVE  /\ Events!JobDiff(j, before, job) \in Seq(FramesOf(j, job))
         /\ before # None =>
              /\ \A i \in Events!Differ(before, job) : Has(Events!JobDiff(j, before, job), Events!StageEvent(j, job, Stages[i]))
              /\ before = job \/ \E e : Has(Events!JobDiff(j, before, job), e)
              /\ Events!HasFailure(job) /\ ~ Events!HasFailure(before) =>
                   Has(Events!JobDiff(j, before, job), Events!ErrorEvent(j, job))
<1> DEFINE S == FramesOf(j, job)
           failed == Events!ErrorEvent(j, job)
           done == Events!DoneEvent(j, job)
           moved == Events!JobEvent(j, job)
<1>1. failed \in S /\ done \in S /\ moved \in S
  BY CurrentIs DEF FramesOf, Events!JobEvent
<1> HIDE DEF S, failed, done, moved
<1>2. CASE before = None
  <2> DEFINE a == <<moved>>
             b == Events!Either(Events!HasFailure(job), <<failed>>)
             c == Events!Either(Events!EvidenceComplete(job), <<done>>)
  <2>1. a \in Seq(S) /\ b \in Seq(S) /\ c \in Seq(S)
    BY <1>1, HasEither
  <2>2. Events!JobDiff(j, before, job) = (a \o b) \o c
    BY <1>2 DEF Events!JobDiff, failed, done, moved
  <2> HIDE DEF a, b, c
  <2>3. QED
    BY <1>2, <2>1, <2>2 DEF S
<1>3. CASE before # None
  <2> DEFINE I == Events!Differ(before, job)
             p == Events!Picked(Stages, I)
             a == [n \in DOMAIN p |-> Events!StageEvent(j, job, p[n])]
             b == Events!Either(Events!RowMoved(before, job), <<moved>>)
             c == Events!Either(Events!HasFailure(job) /\ ~ Events!HasFailure(before), <<failed>>)
             d == Events!Either(Events!EvidenceComplete(job) /\ ~ Events!EvidenceComplete(before), <<done>>)
  <2>1. I \in SUBSET DOMAIN Stages
    BY DEF Events!Differ
  <2>2. a \in Seq(S) /\ \A i \in I : Has(a, Events!StageEvent(j, job, Stages[i]))
    <3> HIDE DEF I
    <3>1. QED
      BY <2>1, MovesTold DEF S
  <2>3. b \in Seq(S) /\ (Events!RowMoved(before, job) => Has(b, moved))
    BY <1>1, HasEither
  <2>4. c \in Seq(S) /\ (Events!HasFailure(job) /\ ~ Events!HasFailure(before) => Has(c, failed))
    BY <1>1, HasEither
  <2>5. d \in Seq(S)
    BY <1>1, HasEither
  <2>6. Events!JobDiff(j, before, job) = ((a \o b) \o c) \o d
    BY <1>3 DEF Events!JobDiff, failed, done, moved
  <2> HIDE DEF a, b, c, d
  <2>7. /\ ((a \o b) \o c) \o d \in Seq(S)
        /\ \A e : Has(a, e) \/ Has(b, e) \/ Has(c, e) => Has(((a \o b) \o c) \o d, e)
    <3>1. a \o b \in Seq(S) /\ \A e : Has(a, e) \/ Has(b, e) => Has(a \o b, e)
      BY <2>2, <2>3, HasJoined
    <3>2. (a \o b) \o c \in Seq(S) /\ \A e : Has(a \o b, e) \/ Has(c, e) => Has((a \o b) \o c, e)
      BY <2>4, <3>1, HasJoined
    <3>3. ((a \o b) \o c) \o d \in Seq(S) /\ \A e : Has((a \o b) \o c, e) => Has(((a \o b) \o c) \o d, e)
      BY <2>5, <3>2, HasJoined
    <3>4. QED
      BY <3>1, <3>2, <3>3
  <2>8. before = job \/ Events!RowMoved(before, job) \/ I # {}
    <3> SUFFICES ASSUME ~ Events!RowMoved(before, job), I = {} PROVE before = job
      OBVIOUS
    <3>1. \A s \in Events!Range(Stages) : job.status[s] = before.status[s] /\ job.error[s] = before.error[s]
      BY StagesStand DEF Events!Differ
    <3>2. job.state = before.state /\ job.own = before.own
      BY DEF Events!RowMoved
    <3>3. /\ job \in Events!JobRows /\ before \in Events!JobRows
      BY <1>3 DEF JobStands
    <3>4. job.status = before.status /\ job.error = before.error
      BY <3>1, <3>3 DEF Events!JobRows
    <3>5. QED
      BY <3>2, <3>3, <3>4 DEF Events!JobRows
  <2>9. before = job \/ \E e : Has(Events!JobDiff(j, before, job), e)
    BY <2>2, <2>3, <2>6, <2>7, <2>8
  <2> HIDE DEF I
  <2>10. QED
    BY <2>2, <2>4, <2>6, <2>7, <2>9 DEF S, I, failed
<1>4. QED
  BY <1>2, <1>3

-----------------------------------------------------------------------------
(* The jobs of a tick, each told of once.                                   *)

LEMMA JobsInOrder ==
  ASSUME NEW S \in SUBSET Jobs
  PROVE  LET order == Events!SetToSeq(S)
         IN  /\ Len(order) \in Nat /\ \A n \in 1 .. Len(order) : order[n] \in S
             /\ \A j \in S : \E n \in 1 .. Len(order) : order[n] = j
<1> DEFINE N == Cardinality(S)
           order == Events!SetToSeq(S)
<1>1. IsFiniteSet(S)
  BY StagesStand, FS_Subset
<1>2. N \in Nat /\ ExistsBijection(1 .. N, S)
  BY <1>1, FS_CardinalityType
<1>3. PICK f \in [1 .. N -> S] : Events!IsInjective(f)
  BY <1>2 DEF ExistsBijection, Bijection, Injection, IsInjective, Events!IsInjective
<1>4. order = CHOOSE g \in [1 .. N -> S] : Events!IsInjective(g)
  BY DEF Events!SetToSeq, Events!Cardinality, Cardinality
<1>5. order \in [1 .. N -> S] /\ Events!IsInjective(order)
  BY <1>3, <1>4
<1> HIDE DEF order
<1>6. order \in Injection(1 .. N, S)
  BY <1>5 DEF Injection, IsInjective, Events!IsInjective
<1>7. Cardinality(1 .. N) = N
  <2>1. 1 \in Int /\ N \in Int
    BY <1>2
  <2>2. Cardinality(1 .. N) = IF 1 > N THEN 0 ELSE N - 1 + 1
    BY <2>1, FS_Interval
  <2> HIDE DEF N
  <2>3. QED
    BY <1>2, <2>2
<1>8. order \in Surjection(1 .. N, S)
  BY <1>1, <1>6, <1>7, FS_Injection
<1>9. Len(order) = N
  <2> HIDE DEF N
  <2>1. QED
    BY <1>2, <1>5
<1>10. \A j \in S : \E n \in 1 .. N : order[n] = j
  BY <1>8 DEF Surjection
<1>11. QED
  BY <1>2, <1>5, <1>9, <1>10 DEF order

DiffOf(j) == Events!JobDiff(j, stream.previous[j], rows[j])
SentAlong(order, N, f) == f = [n \in 0 .. N |-> IF n = 0 THEN <<>> ELSE f[n - 1] \o DiffOf(order[n])]
LEMMA SentExists ==
  ASSUME NEW order, NEW N \in Nat PROVE \E f : SentAlong(order, N, f)
<1> DEFINE S == {n \in Nat : \E f : SentAlong(order, n, f)}
<1>1. 0 \in S
  <2> DEFINE f == [n \in 0 .. 0 |-> <<>>]
  <2>1. f = [n \in 0 .. 0 |-> IF n = 0 THEN <<>> ELSE f[n - 1] \o DiffOf(order[n])]
    OBVIOUS
  <2>2. QED
    BY <2>1 DEF SentAlong
<1>2. ASSUME NEW n \in S PROVE n + 1 \in S
  <2>1. PICK f : SentAlong(order, n, f)
    OBVIOUS
  <2> DEFINE g == [m \in 0 .. (n + 1) |-> IF m = n + 1 THEN f[n] \o DiffOf(order[n + 1]) ELSE f[m]]
             turn(m) == IF m = 0 THEN <<>> ELSE g[m - 1] \o DiffOf(order[m])
  <2>2. n \in Nat
    OBVIOUS
  <2>3. ASSUME NEW m \in 0 .. (n + 1) PROVE g[m] = turn(m)
    <3>1. CASE m = n + 1
      <4>1. m # 0 /\ m - 1 = n /\ n \in 0 .. (n + 1) /\ n # n + 1
        BY <2>2, <3>1
      <4>2. g[m] = f[n] \o DiffOf(order[m]) /\ g[m - 1] = f[n]
        BY <3>1, <4>1
      <4>3. QED
        BY <4>1, <4>2
    <3>2. CASE m = 0
      <4>1. m # n + 1 /\ m \in 0 .. n
        BY <2>2, <3>2
      <4>2. g[m] = f[m] /\ f[m] = <<>>
        BY <2>1, <3>2, <4>1 DEF SentAlong
      <4>3. QED
        BY <3>2, <4>2
    <3>3. CASE m # n + 1 /\ m # 0
      <4>1. m \in 0 .. n /\ m - 1 \in 0 .. (n + 1) /\ m - 1 # n + 1
        BY <2>2, <3>3
      <4>2. g[m] = f[m] /\ g[m - 1] = f[m - 1]
        BY <3>3, <4>1
      <4>3. f[m] = f[m - 1] \o DiffOf(order[m])
        BY <2>1, <3>3, <4>1 DEF SentAlong
      <4>4. QED
        BY <3>3, <4>2, <4>3
    <3>4. QED
      BY <3>1, <3>2, <3>3
  <2>4. g = [m \in 0 .. (n + 1) |-> g[m]]
    OBVIOUS
  <2>5. g = [m \in 0 .. (n + 1) |-> turn(m)]
    <3> HIDE DEF g, turn
    <3>1. QED
      BY <2>3, <2>4
  <2>6. SentAlong(order, n + 1, g)
    BY <2>5 DEF SentAlong
  <2>7. QED
    BY <2>6
<1> HIDE DEF S
<1>3. S = Nat
  <2>1. S \in SUBSET Nat
    BY DEF S
  <2>2. QED
    BY <1>1, <1>2, <2>1, Counting
<1>4. QED
  BY <1>3 DEF S


LEMMA TickTells ==
  ASSUME EventsInv
  PROVE  /\ Events!DiffSnapshots(stream.previous, rows) \in Seq(Frames)
         /\ \A j \in Jobs : rows[j] # None =>
              \A e : Has(DiffOf(j), e) => Has(Events!DiffSnapshots(stream.previous, rows), e)
<1> DEFINE S == {j \in Jobs : rows[j] # None}
           order == Events!SetToSeq(S)
           N == Len(order)
           sent == CHOOSE f : f = [n \in 0 .. N |-> IF n = 0 THEN <<>> ELSE f[n - 1] \o DiffOf(order[n])]
<1>1. Events!DiffSnapshots(stream.previous, rows) = sent[N]
  BY DEF Events!DiffSnapshots, DiffOf
<1>2. N \in Nat /\ (\A n \in 1 .. N : order[n] \in S) /\ \A j \in S : \E n \in 1 .. N : order[n] = j
  BY JobsInOrder
<1> HIDE DEF order, N
<1>3. sent = [n \in 0 .. N |-> IF n = 0 THEN <<>> ELSE sent[n - 1] \o DiffOf(order[n])]
  <2>1. PICK f : SentAlong(order, N, f)
    BY <1>2, SentExists
  <2>2. f = [n \in 0 .. N |-> IF n = 0 THEN <<>> ELSE f[n - 1] \o DiffOf(order[n])]
    BY <2>1 DEF SentAlong
  <2>3. QED
    BY <2>2
<1> HIDE DEF sent
<1>4. \A j \in S : DiffOf(j) \in Seq(Frames)
  <2> TAKE j \in S
  <2>1. JobStands(rows[j]) /\ (stream.previous[j] = None \/ JobStands(stream.previous[j]))
    BY DEF EventsInv, Snapshot
  <2>2. DiffOf(j) \in Seq(FramesOf(j, rows[j]))
    BY <2>1, DiffTells DEF DiffOf
  <2>3. FramesOf(j, rows[j]) \in SUBSET Frames
    BY DEF Frames
  <2>4. QED
    BY <2>2, <2>3
<1> DEFINE Good(n) == sent[n] \in Seq(Frames) /\ \A m \in 1 .. n : \A e : Has(DiffOf(order[m]), e) => Has(sent[n], e)
           T == {n \in Nat : n \in 0 .. N => Good(n)}
<1>5. 0 \in T
  BY <1>2, <1>3
<1>6. ASSUME NEW n \in T PROVE n + 1 \in T
  <2>1. SUFFICES ASSUME n + 1 \in 0 .. N PROVE Good(n + 1)
    OBVIOUS
  <2>2. n \in Nat /\ n \in 0 .. N /\ n + 1 \in 1 .. N /\ (n + 1) - 1 = n /\ n + 1 # 0
    BY <1>2, <2>1
  <2>3. Good(n)
    BY <2>2
  <2>4. sent[n + 1] = sent[n] \o DiffOf(order[n + 1])
    BY <1>3, <2>1, <2>2
  <2>5. DiffOf(order[n + 1]) \in Seq(Frames)
    BY <1>2, <1>4, <2>2
  <2>6. sent[n + 1] \in Seq(Frames) /\ \A e : Has(sent[n + 1], e) <=> Has(sent[n], e) \/ Has(DiffOf(order[n + 1]), e)
    BY <2>3, <2>4, <2>5, HasJoined
  <2>7. ASSUME NEW m \in 1 .. (n + 1), NEW e, Has(DiffOf(order[m]), e) PROVE Has(sent[n + 1], e)
    <3>1. CASE m = n + 1
      BY <2>6, <2>7, <3>1
    <3>2. CASE m # n + 1
      <4>1. m \in 1 .. n
        BY <2>2, <3>2
      <4>2. QED
        BY <2>3, <2>6, <2>7, <4>1
    <3>3. QED
      BY <3>1, <3>2
  <2>8. QED
    BY <2>6, <2>7
<1> HIDE DEF T
<1>7. T = Nat
  <2>1. T \in SUBSET Nat
    BY DEF T
  <2>2. QED
    BY <1>5, <1>6, <2>1, Counting
<1>8. Good(N)
  <2> HIDE DEF Good
  <2>1. N \in T /\ N \in 0 .. N
    BY <1>2, <1>7
  <2>2. QED
    BY <2>1 DEF T
<1>9. QED
  BY <1>1, <1>2, <1>8

-----------------------------------------------------------------------------
(* The browser's side: what a row shows after some of the events.           *)

Known == {j \in Jobs : stream.previous[j] # None}
ShownRows ==
  [state : {"queued", "running", "failed", "done"}, own : Errors \union {None},
   status : [Events!Range(Stages) -> {"queued", "failed", "done"}],
   error : [Events!Range(Stages) -> Errors \union {None}], viewable : BOOLEAN]
\* What an event does to a row that is shown of its job.
Turned(r, e, job, new) ==
  /\ new \in ShownRows /\ new.state = job.state /\ new.viewable = Events!EvidenceComplete(job)
  /\ \A s \in Events!Range(Stages) :
       IF s = e.stage THEN new.status[s] = job.status[s] /\ new.error[s] = job.error[s]
       ELSE new.status[s] = r.status[s] /\ new.error[s] = r.error[s]
  /\ job.state # "failed" => new.own = None
  /\ job.state = "failed" =>
       new.own = IF e.event = "job.error" /\ e.stage = None THEN job.own ELSE r.own

LEMMA RowIs == ASSUME NEW job, JobStands(job) PROVE
  /\ Events!Row(job) = [state |-> job.state, own |-> job.own, status |-> job.status, error |-> job.error,
                        viewable |-> Events!EvidenceComplete(job)]
  /\ Events!Row(job) \in ShownRows
<1>1. job # None /\ job \in Events!JobRows
  BY StagesStand DEF JobStands
<1>2. Events!Row(job) = [state |-> job.state, own |-> job.own, status |-> job.status, error |-> job.error,
                         viewable |-> Events!EvidenceComplete(job)]
  BY <1>1 DEF Events!Row
<1>3. Events!EvidenceComplete(job) \in BOOLEAN
  BY DEF Events!EvidenceComplete
<1> DEFINE complete == Events!EvidenceComplete(job)
<1> HIDE DEF complete
<1>4. complete \in BOOLEAN => [state |-> job.state, own |-> job.own, status |-> job.status, error |-> job.error,
                               viewable |-> complete] \in ShownRows
  BY <1>1 DEF ShownRows, Events!JobRows
<1>5. QED
  BY <1>2, <1>3, <1>4 DEF complete

LEMMA AppliedIs ==
  ASSUME NEW known, DOMAIN known = Jobs, NEW e, e.job \in Jobs, known[e.job] \in ShownRows,
         NEW job, JobStands(job), Carries(e, job)
  PROVE  /\ DOMAIN Events!Applied(known, e) = Jobs
         /\ \A j \in Jobs \ {e.job} : Events!Applied(known, e)[j] = known[j]
         /\ Turned(known[e.job], e, job, Events!Applied(known, e)[e.job])
<1> DEFINE r == known[e.job]
           complete == Events!EvidenceComplete(job)
           names == Events!Range(Stages)
           moved == IF e.stage = None THEN r
                    ELSE [r EXCEPT !.status[e.stage] = e.status, !.error[e.stage] = e.error]
           new == [moved EXCEPT !.state = e.state, !.viewable = e.viewable,
                     !.own = IF e.state # "failed" THEN None
                             ELSE IF e.event = "job.error" /\ e.stage = None /\ e.error # None THEN e.error ELSE @]
<1>1. Events!Applied(known, e) = [known EXCEPT ![e.job] = new]
  BY DEF Events!Applied
<1>2. None \notin Errors /\ None \notin names
  BY StagesStand
<1>3. /\ e.state = job.state /\ e.viewable = complete
      /\ \/ e.stage = None /\ (e.event = "job.error" => e.error = job.own)
         \/ e.stage \in names /\ e.status = job.status[e.stage] /\ e.error = job.error[e.stage]
  BY DEF Carries
<1>4. /\ job.state \in {"queued", "running", "failed", "done"} /\ job.own \in Errors \union {None}
      /\ job.status \in [names -> {"queued", "failed", "done"}] /\ job.error \in [names -> Errors \union {None}]
      /\ job.state = "failed" <=> job.own # None
  BY DEF JobStands, Events!JobRows
<1>5. complete \in BOOLEAN
  BY DEF Events!EvidenceComplete
<1>6. /\ r.state \in {"queued", "running", "failed", "done"} /\ r.own \in Errors \union {None}
      /\ r.status \in [names -> {"queued", "failed", "done"}] /\ r.error \in [names -> Errors \union {None}]
      /\ DOMAIN r = {"state", "own", "status", "error", "viewable"}
      /\ r = [state |-> r.state, own |-> r.own, status |-> r.status, error |-> r.error, viewable |-> r.viewable]
  BY DEF ShownRows
<1> HIDE DEF r, complete, names
<1> DEFINE status == IF e.stage = None THEN r.status ELSE [r.status EXCEPT ![e.stage] = e.status]
           error == IF e.stage = None THEN r.error ELSE [r.error EXCEPT ![e.stage] = e.error]
           own == IF e.state # "failed" THEN None
                  ELSE IF e.event = "job.error" /\ e.stage = None /\ e.error # None THEN e.error ELSE r.own
<1>7. moved = [state |-> r.state, own |-> r.own, status |-> status, error |-> error, viewable |-> r.viewable]
  <2>1. CASE e.stage = None
    BY <1>6, <2>1
  <2>2. CASE e.stage # None
    BY <1>6, <2>2
  <2>3. QED
    BY <2>1, <2>2
<1>8. /\ status \in [names -> {"queued", "failed", "done"}] /\ error \in [names -> Errors \union {None}]
      /\ \A s \in names : IF s = e.stage THEN status[s] = job.status[s] /\ error[s] = job.error[s]
                          ELSE status[s] = r.status[s] /\ error[s] = r.error[s]
  BY <1>2, <1>3, <1>4, <1>6
<1>9. /\ own \in Errors \union {None} /\ (job.state # "failed" => own = None)
      /\ job.state = "failed" => own = IF e.event = "job.error" /\ e.stage = None THEN job.own ELSE r.own
  BY <1>2, <1>3, <1>4, <1>6
<1> HIDE DEF status, error, moved
<1>10. new = [state |-> job.state, own |-> own, status |-> status, error |-> error, viewable |-> complete]
  <2>1. moved.own = r.own
    BY <1>7
  <2>2. new = [moved EXCEPT !.state = e.state, !.viewable = e.viewable, !.own = own]
    BY <2>1
  <2> HIDE DEF new, own
  <2>3. QED
    BY <1>3, <1>7, <2>2
<1> HIDE DEF own
<1> HIDE DEF new
<1>11. Turned(r, e, job, new)
  BY <1>4, <1>5, <1>8, <1>9, <1>10 DEF Turned, ShownRows, complete, names
<1>12. QED
  BY <1>1, <1>11 DEF r

Turn(E, shown0, n) == IF E[n].job \in Known THEN Events!Applied(shown0, E[n]) ELSE shown0
ToldAlong(E, N, f) == f = [n \in 0 .. N |-> IF n = 0 THEN Events!Listed(stream.previous) ELSE Turn(E, f[n - 1], n)]
LEMMA ToldExists ==
  ASSUME NEW E, NEW N \in Nat PROVE \E f : ToldAlong(E, N, f)
<1> DEFINE S == {n \in Nat : \E f : ToldAlong(E, n, f)}
<1>1. 0 \in S
  <2> DEFINE f == [n \in 0 .. 0 |-> Events!Listed(stream.previous)]
  <2>1. f = [n \in 0 .. 0 |-> IF n = 0 THEN Events!Listed(stream.previous) ELSE Turn(E, f[n - 1], n)]
    OBVIOUS
  <2>2. QED
    BY <2>1 DEF ToldAlong
<1>2. ASSUME NEW n \in S PROVE n + 1 \in S
  <2>1. PICK f : ToldAlong(E, n, f)
    OBVIOUS
  <2> DEFINE g == [m \in 0 .. (n + 1) |-> IF m = n + 1 THEN Turn(E, f[n], n + 1) ELSE f[m]]
             turn(m) == IF m = 0 THEN Events!Listed(stream.previous) ELSE Turn(E, g[m - 1], m)
  <2>2. n \in Nat
    OBVIOUS
  <2>3. ASSUME NEW m \in 0 .. (n + 1) PROVE g[m] = turn(m)
    <3>1. CASE m = n + 1
      <4>1. m # 0 /\ m - 1 = n /\ n \in 0 .. (n + 1) /\ n # n + 1
        BY <2>2, <3>1
      <4>2. g[m] = Turn(E, f[n], m) /\ g[m - 1] = f[n]
        BY <3>1, <4>1
      <4>3. QED
        BY <4>1, <4>2
    <3>2. CASE m = 0
      <4>1. m # n + 1 /\ m \in 0 .. n
        BY <2>2, <3>2
      <4>2. g[m] = f[m] /\ f[m] = Events!Listed(stream.previous)
        BY <2>1, <3>2, <4>1 DEF ToldAlong
      <4>3. QED
        BY <3>2, <4>2
    <3>3. CASE m # n + 1 /\ m # 0
      <4>1. m \in 0 .. n /\ m - 1 \in 0 .. (n + 1) /\ m - 1 # n + 1
        BY <2>2, <3>3
      <4>2. g[m] = f[m] /\ g[m - 1] = f[m - 1]
        BY <3>3, <4>1
      <4>3. f[m] = Turn(E, f[m - 1], m)
        BY <2>1, <3>3, <4>1 DEF ToldAlong
      <4>4. QED
        BY <3>3, <4>2, <4>3
    <3>4. QED
      BY <3>1, <3>2, <3>3
  <2>4. g = [m \in 0 .. (n + 1) |-> g[m]]
    OBVIOUS
  <2>5. g = [m \in 0 .. (n + 1) |-> turn(m)]
    <3> HIDE DEF g, turn
    <3>1. QED
      BY <2>3, <2>4
  <2>6. ToldAlong(E, n + 1, g)
    BY <2>5 DEF ToldAlong
  <2>7. QED
    BY <2>6
<1> HIDE DEF S
<1>3. S = Nat
  <2>1. S \in SUBSET Nat
    BY DEF S
  <2>2. QED
    BY <1>1, <1>2, <2>1, Counting
<1>4. QED
  BY <1>3 DEF S


\* What a row shows after n events: what they said of its job, and else what it showed.
Heard(E, n, j) == {m \in 1 .. n : E[m].job = j}
TellsOf(E, n, j, r) ==
  /\ r \in ShownRows
  /\ Heard(E, n, j) = {} => r = Events!Row(stream.previous[j])
  /\ Heard(E, n, j) # {} => /\ r.state = rows[j].state /\ r.viewable = Events!EvidenceComplete(rows[j])
                            /\ rows[j].state # "failed" => r.own = None
  /\ \A s \in Events!Range(Stages) :
       IF \E m \in Heard(E, n, j) : E[m].stage = s
       THEN r.status[s] = rows[j].status[s] /\ r.error[s] = rows[j].error[s]
       ELSE r.status[s] = stream.previous[j].status[s] /\ r.error[s] = stream.previous[j].error[s]
  /\ rows[j].state = "failed" =>
       \/ r.own = rows[j].own
       \/ /\ r.own = stream.previous[j].own
          /\ ~ \E m \in Heard(E, n, j) : E[m].event = "job.error" /\ E[m].stage = None

LEMMA TellsFirst ==
  ASSUME EventsInv, NEW E, NEW j \in Known PROVE TellsOf(E, 0, j, Events!Row(stream.previous[j]))
<1> DEFINE was == stream.previous[j]
           r == Events!Row(was)
           complete == Events!EvidenceComplete(was)
<1>1. JobStands(was)
  BY DEF EventsInv, Snapshot, Known
<1>2. r \in ShownRows
  BY <1>1, RowIs
<1>3. r = [state |-> was.state, own |-> was.own, status |-> was.status, error |-> was.error, viewable |-> complete]
  BY <1>1, RowIs
<1> HIDE DEF r, complete, was
<1>4. r.own = was.own /\ r.status = was.status /\ r.error = was.error
  BY <1>3
<1>5. Heard(E, 0, j) = {}
  BY DEF Heard
<1>6. QED
  BY <1>2, <1>4, <1>5 DEF TellsOf, r, was

LEMMA TellsOn ==
  ASSUME EventsInv, NEW E, NEW n \in Nat, NEW j \in Known, NEW r, TellsOf(E, n, j, r),
         NEW new, IF E[n + 1].job = j THEN Turned(r, E[n + 1], rows[j], new) ELSE new = r
  PROVE  TellsOf(E, n + 1, j, new)
<1> DEFINE e == E[n + 1]
           H == Heard(E, n, j)
           G == Heard(E, n + 1, j)
<1>1. G = IF e.job = j THEN H \union {n + 1} ELSE H
  <2>1. 1 .. (n + 1) = (1 .. n) \union {n + 1}
    OBVIOUS
  <2>2. QED
    BY <2>1 DEF Heard
<1>2. CASE e.job # j
  <2>1. G = H /\ new = r
    BY <1>1, <1>2
  <2>2. QED
    BY <2>1 DEF TellsOf
<1>3. CASE e.job = j
  <2>1. G = H \union {n + 1} /\ Turned(r, e, rows[j], new)
    BY <1>1, <1>3
  <2>2. \A s : (\E m \in G : E[m].stage = s) <=> (e.stage = s \/ \E m \in H : E[m].stage = s)
    BY <2>1
  <2>3. (\E m \in G : E[m].event = "job.error" /\ E[m].stage = None) <=>
          \/ e.event = "job.error" /\ e.stage = None
          \/ \E m \in H : E[m].event = "job.error" /\ E[m].stage = None
    BY <2>1
  <2>4. G # {}
    BY <2>1
  <2> HIDE DEF e, H, G
  <2>5. TellsOf(E, n, j, r)
    OBVIOUS
  <2>6. ASSUME NEW s \in Events!Range(Stages)
        PROVE  IF \E m \in G : E[m].stage = s
               THEN new.status[s] = rows[j].status[s] /\ new.error[s] = rows[j].error[s]
               ELSE new.status[s] = stream.previous[j].status[s] /\ new.error[s] = stream.previous[j].error[s]
    <3>1. IF s = e.stage THEN new.status[s] = rows[j].status[s] /\ new.error[s] = rows[j].error[s]
          ELSE new.status[s] = r.status[s] /\ new.error[s] = r.error[s]
      BY <2>1 DEF Turned
    <3>2. IF \E m \in H : E[m].stage = s
          THEN r.status[s] = rows[j].status[s] /\ r.error[s] = rows[j].error[s]
          ELSE r.status[s] = stream.previous[j].status[s] /\ r.error[s] = stream.previous[j].error[s]
      BY <2>5 DEF TellsOf, H
    <3>3. CASE s = e.stage
      BY <2>2, <3>1, <3>3
    <3>4. CASE s # e.stage /\ \E m \in H : E[m].stage = s
      BY <2>2, <3>1, <3>2, <3>4
    <3>5. CASE s # e.stage /\ ~ \E m \in H : E[m].stage = s
      BY <2>2, <3>1, <3>2, <3>5
    <3>6. QED
      BY <3>3, <3>4, <3>5
  <2>7. rows[j].state = "failed" =>
          \/ new.own = rows[j].own
          \/ /\ new.own = stream.previous[j].own
             /\ ~ \E m \in G : E[m].event = "job.error" /\ E[m].stage = None
    <3> SUFFICES ASSUME rows[j].state = "failed"
                 PROVE  \/ new.own = rows[j].own
                        \/ /\ new.own = stream.previous[j].own
                           /\ ~ \E m \in G : E[m].event = "job.error" /\ E[m].stage = None
      OBVIOUS
    <3>1. new.own = IF e.event = "job.error" /\ e.stage = None THEN rows[j].own ELSE r.own
      BY <2>1 DEF Turned
    <3>2. \/ r.own = rows[j].own
          \/ /\ r.own = stream.previous[j].own
             /\ ~ \E m \in H : E[m].event = "job.error" /\ E[m].stage = None
      BY <2>5 DEF TellsOf, H
    <3>3. CASE e.event = "job.error" /\ e.stage = None
      BY <3>1, <3>3
    <3>4. CASE ~ (e.event = "job.error" /\ e.stage = None)
      BY <2>3, <3>1, <3>2, <3>4
    <3>5. QED
      BY <3>3, <3>4
  <2>8. /\ new \in ShownRows /\ new.state = rows[j].state /\ new.viewable = Events!EvidenceComplete(rows[j])
        /\ rows[j].state # "failed" => new.own = None
    BY <2>1 DEF Turned
  <2>9. QED
    BY <2>4, <2>6, <2>7, <2>8 DEF TellsOf, G
<1>4. QED
  BY <1>2, <1>3

\* Over all the events of a tick.
LEMMA AllTold ==
  ASSUME EventsInv, NEW E \in Seq(Frames), NEW N \in Nat, N = Len(E), NEW told, ToldAlong(E, N, told)
  PROVE  \A j \in Known : TellsOf(E, N, j, told[N][j])
<1> DEFINE Good(n) == DOMAIN told[n] = Jobs /\ \A j \in Known : TellsOf(E, n, j, told[n][j])
           T == {n \in Nat : n \in 0 .. N => Good(n)}
<1>1. told = [n \in 0 .. N |-> IF n = 0 THEN Events!Listed(stream.previous) ELSE Turn(E, told[n - 1], n)]
  BY DEF ToldAlong
<1>2. 0 \in T
  <2>1. told[0] = Events!Listed(stream.previous)
    BY <1>1
  <2>2. DOMAIN told[0] = Jobs /\ \A j \in Known : told[0][j] = Events!Row(stream.previous[j])
    BY <2>1 DEF Events!Listed, Known
  <2>3. \A j \in Known : TellsOf(E, 0, j, told[0][j])
    BY <2>2, TellsFirst
  <2>4. QED
    BY <2>2, <2>3
<1>3. ASSUME NEW n \in T PROVE n + 1 \in T
  <2>1. SUFFICES ASSUME n + 1 \in 0 .. N PROVE Good(n + 1)
    OBVIOUS
  <2>2. n \in Nat /\ n \in 0 .. N /\ n + 1 \in 1 .. N /\ (n + 1) - 1 = n /\ n + 1 # 0
    BY <2>1
  <2>3. Good(n)
    BY <2>2
  <2> DEFINE e == E[n + 1]
  <2>4. told[n + 1] = Turn(E, told[n], n + 1)
    BY <1>1, <2>1, <2>2
  <2>5. e \in Frames
    BY <2>2
  <2>6. PICK k \in Jobs : rows[k] # None /\ e \in FramesOf(k, rows[k])
    BY <2>5 DEF Frames
  <2>7. e.job = k /\ Carries(e, rows[k]) /\ JobStands(rows[k])
    BY <2>6, FramesCarry DEF EventsInv, Snapshot
  <2> HIDE DEF T, e
  <2>8. CASE k \notin Known
    <3>1. told[n + 1] = told[n]
      BY <2>4, <2>7, <2>8 DEF Turn, e
    <3>2. \A j \in Known : E[n + 1].job # j
      BY <2>7, <2>8 DEF e
    <3>3. ASSUME NEW j \in Known PROVE TellsOf(E, n + 1, j, told[n + 1][j])
      <4>1. TellsOf(E, n, j, told[n][j]) /\ E[n + 1].job # j /\ told[n + 1][j] = told[n][j]
        BY <2>3, <3>1, <3>2
      <4>2. QED
        BY <2>2, <4>1, TellsOn
    <3>4. QED
      BY <2>3, <3>1, <3>3
  <2>9. CASE k \in Known
    <3>1. told[n + 1] = Events!Applied(told[n], e)
      BY <2>4, <2>7, <2>9 DEF Turn, e
    <3>2. DOMAIN told[n] = Jobs /\ told[n][e.job] \in ShownRows /\ e.job \in Jobs
      BY <2>3, <2>6, <2>7, <2>9 DEF TellsOf
    <3>3. /\ DOMAIN told[n + 1] = Jobs
          /\ \A j \in Jobs \ {k} : told[n + 1][j] = told[n][j]
          /\ Turned(told[n][k], e, rows[k], told[n + 1][k])
      BY <2>7, <3>1, <3>2, AppliedIs
    <3>4. ASSUME NEW j \in Known PROVE TellsOf(E, n + 1, j, told[n + 1][j])
      <4>1. TellsOf(E, n, j, told[n][j]) /\ j \in Jobs
        BY <2>3 DEF Known
      <4>2. IF E[n + 1].job = j THEN Turned(told[n][j], E[n + 1], rows[j], told[n + 1][j]) ELSE told[n + 1][j] = told[n][j]
        BY <2>7, <3>3, <4>1 DEF e
      <4>3. QED
        BY <2>2, <4>1, <4>2, TellsOn
    <3>5. QED
      BY <3>3, <3>4
  <2>10. QED
    BY <2>8, <2>9
<1> HIDE DEF T
<1>4. T = Nat
  <2>1. T \in SUBSET Nat
    BY DEF T
  <2>2. QED
    BY <1>2, <1>3, <2>1, Counting
<1>5. Good(N)
  <2> HIDE DEF Good
  <2>1. N \in T /\ N \in 0 .. N
    BY <1>4
  <2>2. QED
    BY <2>1 DEF T
<1>6. QED
  BY <1>5

LEMMA DifferenceTold ==
  ASSUME EventsInv, NEW E, E = Events!DiffSnapshots(stream.previous, rows), NEW j \in Known,
         NEW r, TellsOf(E, Len(E), j, r)
  PROVE  /\ [r EXCEPT !.own = None] = [Events!Row(rows[j]) EXCEPT !.own = None]
         /\ r.own = Events!Row(rows[j]).own \/ Events!FailedUnseen(j) \/ Events!Failed(rows[j]) # {}
<1> DEFINE was == stream.previous[j]
           job == rows[j]
           is == Events!Row(job)
           complete == Events!EvidenceComplete(job)
           names == Events!Range(Stages)
           N == Len(E)
<1>1. JobStands(was) /\ JobStands(job) /\ was # None /\ j \in Jobs /\ job # None
  BY DEF EventsInv, Snapshot, Known
<1>2. /\ E \in Seq(Frames) /\ \A e : Has(DiffOf(j), e) => Has(E, e)
  BY <1>1, TickTells
<1>3. N \in Nat /\ \A m \in 1 .. N : E[m] \in Frames
  BY <1>2
<1>4. /\ \A i \in Events!Differ(was, job) : Has(DiffOf(j), Events!StageEvent(j, job, Stages[i]))
      /\ was = job \/ \E e : Has(DiffOf(j), e)
      /\ Events!HasFailure(job) /\ ~ Events!HasFailure(was) => Has(DiffOf(j), Events!ErrorEvent(j, job))
      /\ DiffOf(j) \in Seq(FramesOf(j, job))
  BY <1>1, DiffTells DEF DiffOf
<1>5. /\ is = [state |-> job.state, own |-> job.own, status |-> job.status, error |-> job.error, viewable |-> complete]
      /\ is \in ShownRows
  BY <1>1, RowIs
<1>6. TellsOf(E, N, j, r)
  OBVIOUS
<1>7. \A e \in FramesOf(j, job) : e.job = j
  BY <1>1, FramesCarry
<1>8. ASSUME NEW e, Has(DiffOf(j), e) PROVE \E m \in Heard(E, N, j) : E[m] = e
  <2>1. PICK m \in 1 .. N : E[m] = e
    BY <1>2, <1>8 DEF Has
  <2>2. e \in FramesOf(j, job)
    <3>1. PICK k \in 1 .. Len(DiffOf(j)) : DiffOf(j)[k] = e
      BY <1>8 DEF Has
    <3>2. DiffOf(j)[k] \in FramesOf(j, job)
      BY <1>4, <3>1
    <3>3. QED
      BY <3>1, <3>2
  <2>3. QED
    BY <1>7, <2>1, <2>2 DEF Heard
<1> HIDE DEF is, complete, names, N, was, job
<1>9. Heard(E, N, j) = {} => was = job
  BY <1>4, <1>8
<1>10. r.state = job.state /\ r.viewable = complete
  <2>1. CASE Heard(E, N, j) = {}
    <3>1. r = Events!Row(job)
      BY <1>6, <1>9, <2>1 DEF TellsOf, was
    <3>2. r = is
      BY <3>1 DEF is
    <3>3. QED
      BY <1>5, <3>2
  <2>2. CASE Heard(E, N, j) # {}
    BY <1>6, <2>2 DEF TellsOf, job, complete
  <2>3. QED
    BY <2>1, <2>2
<1>11. ASSUME NEW s \in names PROVE r.status[s] = job.status[s] /\ r.error[s] = job.error[s]
  <2>1. IF \E m \in Heard(E, N, j) : E[m].stage = s
        THEN r.status[s] = job.status[s] /\ r.error[s] = job.error[s]
        ELSE r.status[s] = was.status[s] /\ r.error[s] = was.error[s]
    BY <1>6 DEF TellsOf, names, job, was
  <2>2. PICK i \in DOMAIN Stages : Stages[i] = s
    BY StagesStand DEF names
  <2>3. CASE i \in Events!Differ(was, job)
    <3>1. PICK m \in Heard(E, N, j) : E[m] = Events!StageEvent(j, job, s)
      BY <1>4, <1>8, <2>2, <2>3
    <3>2. Events!StageEvent(j, job, s).stage = s
      BY DEF Events!StageEvent, Events!Frame
    <3>3. QED
      BY <2>1, <3>1, <3>2
  <2>4. CASE i \notin Events!Differ(was, job)
    <3>1. job.status[s] = was.status[s] /\ job.error[s] = was.error[s]
      BY <2>2, <2>4 DEF Events!Differ
    <3>2. QED
      BY <2>1, <3>1
  <2>5. QED
    BY <2>3, <2>4
<1>12. r.status = job.status /\ r.error = job.error
  <2>1. /\ r.status \in [names -> {"queued", "failed", "done"}] /\ r.error \in [names -> Errors \union {None}]
        /\ job.status \in [names -> {"queued", "failed", "done"}] /\ job.error \in [names -> Errors \union {None}]
    BY <1>1, <1>6 DEF TellsOf, ShownRows, JobStands, Events!JobRows, names
  <2>2. QED
    BY <1>11, <2>1
<1>13. [r EXCEPT !.own = None] = [is EXCEPT !.own = None]
  <2>1. r = [state |-> r.state, own |-> r.own, status |-> r.status, error |-> r.error, viewable |-> r.viewable]
    BY <1>6 DEF TellsOf, ShownRows
  <2>2. [r EXCEPT !.own = None] =
          [state |-> r.state, own |-> None, status |-> r.status, error |-> r.error, viewable |-> r.viewable]
    BY <2>1
  <2>3. [is EXCEPT !.own = None] =
          [state |-> job.state, own |-> None, status |-> job.status, error |-> job.error, viewable |-> complete]
    BY <1>5
  <2>4. QED
    BY <1>10, <1>12, <2>2, <2>3
<1>14. is.own = job.own
  BY <1>5
<1>15. ASSUME Events!Failed(job) = {}, ~ Events!FailedUnseen(j) PROVE r.own = job.own
  <2>1. CASE Heard(E, N, j) = {}
    <3>1. r = is
      BY <1>6, <1>9, <2>1 DEF TellsOf, was, is
    <3>2. QED
      BY <1>14, <3>1
  <2>2. CASE Heard(E, N, j) # {} /\ job.state # "failed"
    <3>1. r.own = None
      BY <1>6, <2>2 DEF TellsOf, job
    <3>2. job.own = None
      BY <1>1, <2>2 DEF JobStands
    <3>3. QED
      BY <3>1, <3>2
  <2>3. CASE job.state = "failed"
    <3>1. \/ r.own = job.own
          \/ r.own = was.own /\ ~ \E m \in Heard(E, N, j) : E[m].event = "job.error" /\ E[m].stage = None
      BY <1>6, <2>3 DEF TellsOf, job, was
    <3>2. CASE Events!HasFailure(was)
      <4>1. was.state = "failed"
        <5>1. CASE Events!Failed(was) # {}
          <6>1. was.status[Stages[Events!Min(Events!Failed(was))]] = "failed"
                /\ Stages[Events!Min(Events!Failed(was))] \in Events!Range(Stages)
            BY <5>1, CurrentIs
          <6>2. QED
            BY <1>1, <6>1 DEF JobStands
        <5>2. QED
          BY <3>2, <5>1 DEF Events!HasFailure
      <4>2. was.own = job.own
        BY <1>15, <2>3, <4>1 DEF Events!FailedUnseen, was, job
      <4>3. QED
        BY <3>1, <4>2
    <3>3. CASE ~ Events!HasFailure(was)
      <4>1. Has(DiffOf(j), Events!ErrorEvent(j, job))
        BY <1>4, <2>3, <3>3 DEF Events!HasFailure
      <4>2. PICK m \in Heard(E, N, j) : E[m] = Events!ErrorEvent(j, job)
        BY <1>8, <4>1
      <4>3. Events!ErrorEvent(j, job).event = "job.error" /\ Events!ErrorEvent(j, job).stage = None
        BY <1>15 DEF Events!ErrorEvent, Events!Frame
      <4>4. QED
        BY <3>1, <4>2, <4>3
    <3>4. QED
      BY <3>2, <3>3
  <2>4. QED
    BY <2>1, <2>2, <2>3
<1>16. QED
  BY <1>13, <1>14, <1>15 DEF is, job

LEMMA EventsStand == EventsInv => Events!EventsCarryTheDifference
<1> SUFFICES ASSUME EventsInv PROVE Events!EventsCarryTheDifference
  OBVIOUS
<1> DEFINE E == Events!DiffSnapshots(stream.previous, rows)
           N == Len(E)
           told == CHOOSE f : f = [n \in 0 .. N |->
                     IF n = 0 THEN Events!Listed(stream.previous)
                     ELSE IF E[n].job \in Known THEN Events!Applied(f[n - 1], E[n]) ELSE f[n - 1]]
<1>1. E \in Seq(Frames) /\ N \in Nat
  <2>1. E \in Seq(Frames)
    BY TickTells
  <2> HIDE DEF E
  <2>2. QED
    BY <2>1
<1>2. Events!EventsCarryTheDifference <=>
        (stream.open => \A j \in Known :
           /\ [told[N][j] EXCEPT !.own = None] = [Events!Row(rows[j]) EXCEPT !.own = None]
           /\ told[N][j].own = Events!Row(rows[j]).own \/ Events!FailedUnseen(j) \/ Events!Failed(rows[j]) # {})
  BY DEF Events!EventsCarryTheDifference, Known
<1> HIDE DEF N, E
<1>3. ToldAlong(E, N, told)
  <2>1. PICK f : ToldAlong(E, N, f)
    BY <1>1, ToldExists
  <2>2. f = [n \in 0 .. N |->
                     IF n = 0 THEN Events!Listed(stream.previous)
                     ELSE IF E[n].job \in Known THEN Events!Applied(f[n - 1], E[n]) ELSE f[n - 1]]
    BY <2>1 DEF ToldAlong, Turn
  <2>3. told = [n \in 0 .. N |->
                     IF n = 0 THEN Events!Listed(stream.previous)
                     ELSE IF E[n].job \in Known THEN Events!Applied(told[n - 1], E[n]) ELSE told[n - 1]]
    BY <2>2
  <2>4. QED
    BY <2>3 DEF ToldAlong, Turn
<1> HIDE DEF told
<1>4. \A j \in Known : TellsOf(E, N, j, told[N][j])
  BY <1>1, <1>3, AllTold DEF N
<1>5. ASSUME NEW j \in Known
      PROVE  /\ [told[N][j] EXCEPT !.own = None] = [Events!Row(rows[j]) EXCEPT !.own = None]
             /\ told[N][j].own = Events!Row(rows[j]).own \/ Events!FailedUnseen(j) \/ Events!Failed(rows[j]) # {}
  <2>1. TellsOf(E, Len(E), j, told[N][j]) /\ E = Events!DiffSnapshots(stream.previous, rows)
    BY <1>4 DEF N, E
  <2>2. QED
    BY <2>1, DifferenceTold
<1>6. QED
  BY <1>2, <1>5

\* Whatever became of a job between two readings, the events of the tick turn the row
\* of the first into the row of the second, for any jobs, stages and errors: in its
\* state, its stages and their errors, and in its own error but for a job that failed
\* again unseen (api/events.py diff_snapshots, rows.ts applyEvent).
THEOREM EventsTellTheDifference == Spec => []EventsCarryTheDifference
<1> DEFINE Inv == scene = "events" => EventsInv
<1>1. Init => Inv
  BY EventsInitInv DEF Init
<1>2. Inv /\ [Next]_all => Inv'
  <2> SUFFICES ASSUME Inv, [Next]_all, scene = "events" PROVE EventsInv'
    BY DEF Next, all
  <2>1. Events!Next \/ UNCHANGED eventVars
    BY DEF Next, all
  <2>2. QED
    BY <2>1, EventsNext
<1>3. Inv => EventsCarryTheDifference
  BY EventsStand DEF EventsCarryTheDifference
<1>4. QED
  BY <1>1, <1>2, <1>3, PTL DEF Spec
=============================================================================
