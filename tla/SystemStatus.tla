---------------------------- MODULE SystemStatus ----------------------------
(***************************************************************************)
(* GET /status: the stores, every provider's key, the binding each LLM     *)
(* role is served by, and the worker.  The rows are read one after another *)
(* while the world changes, probes answer from a cache, and the payload is *)
(* the api process's reading, not the worker's.                            *)
(***************************************************************************)
EXTENDS ModelSelection

CONSTANTS ProviderOf,     \* each binding's provider
          NeedsKey,       \* providers reached with a key
          KeyLoaded,      \* of those, the ones this process loaded a key for
          Ttl,            \* ticks a probe answers for
          MaxEvents       \* bound: changes of the world and ticks of the clock

VARIABLES world,     \* [postgres, worker, health of each provider]
          cache,     \* each provider's last probe: [age, health], or none
          request,   \* the GET in progress
          payload,   \* the last one answered
          seen,      \* what the world was at each of its readings
          events
statusVars == <<catalog, stored, world, cache, request, payload, seen, events>>

Providers == {ProviderOf[b] : b \in Bindings}
Health == {"ok", "invalid-key", "unreachable"}
NoProbe == [age |-> Ttl, health |-> "unreachable"]
Waiting == [at |-> "idle", postgres |-> FALSE, rows |-> [p \in {} |-> FALSE], binding |-> None, source |-> "unknown",
            stale |-> FALSE, role |-> FALSE, worker |-> "unknown"]
NoReading == [stored |-> None, effective |-> None, worker |-> FALSE]
Init ==
  /\ SelectionInit
  /\ world = [postgres |-> TRUE, worker |-> TRUE, health |-> [p \in Providers |-> "ok"]]
  /\ cache = [p \in Providers |-> NoProbe] /\ request = Waiting /\ payload = Waiting /\ seen = NoReading /\ events = 0

-----------------------------------------------------------------------------
(* The world.                                                              *)

Happens == events < MaxEvents /\ events' = events + 1
Changes ==
  /\ Happens
  /\ \/ world' = [world EXCEPT !.postgres = ~@]
     \/ world' = [world EXCEPT !.worker = ~@]
     \/ \E p \in Providers, h \in Health : h # world.health[p] /\ world' = [world EXCEPT !.health[p] = h]
  /\ UNCHANGED <<catalog, stored, cache, request, payload, seen>>
Ticks ==
  /\ Happens
  /\ cache' = [p \in Providers |-> [cache[p] EXCEPT !.age = IF @ < Ttl THEN @ + 1 ELSE @]]
  /\ UNCHANGED <<catalog, stored, world, request, payload, seen>>
Selects ==
  /\ Happens /\ world.postgres /\ SelectRoleBinding
  /\ UNCHANGED <<world, cache, request, payload, seen>>

-----------------------------------------------------------------------------
(* Keys and endpoints.                                                     *)

\* A fresh answer serves again; a missing key is not worth a request.
Fresh(p) == cache[p].age < Ttl
Cached(p) == IF Fresh(p) THEN cache[p].health ELSE world.health[p]
Asked(p) == p \notin NeedsKey \/ p \in KeyLoaded
KeyHealth(p) == IF Asked(p) THEN Cached(p) = "ok" ELSE FALSE
Probed(providers) ==
  cache' = [p \in Providers |-> IF p \in providers /\ Asked(p) /\ ~Fresh(p)
                                THEN [age |-> 0, health |-> world.health[p]] ELSE cache[p]]

-----------------------------------------------------------------------------
(* The answer, row by row.                                                 *)

At(place) == request.at = place
Goes(place, fields) == request' = [fields EXCEPT !.at = place]

CheckStores ==
  /\ At("idle") /\ Goes("providers", [Waiting EXCEPT !.postgres = world.postgres]) /\ seen' = NoReading
  /\ UNCHANGED <<catalog, stored, world, cache, payload, events>>

ProviderRows ==
  /\ At("providers")
  /\ Goes("bindings", [request EXCEPT !.rows = [p \in Providers |-> KeyHealth(p)]])
  /\ Probed(Providers)
  /\ UNCHANGED <<catalog, stored, world, payload, seen, events>>

\* What is stored cannot be read: that is not the same as nothing stored.
NothingStored == Resolve(None)
Unread == [binding |-> Default, source |-> "unknown", stale |-> FALSE]
ResolveEffectiveBindings ==
  /\ At("bindings")
  /\ LET effective == IF request.postgres /\ world.postgres THEN Resolve(stored) ELSE Unread
     IN /\ Goes("roles", [request EXCEPT !.binding = effective.binding, !.source = effective.source, !.stale = effective.stale])
        /\ seen' = [seen EXCEPT !.stored = stored, !.effective = Resolve(stored).binding]
  /\ UNCHANGED <<catalog, stored, world, cache, payload, events>>

\* The probe is of the binding in force; a discarded choice is never healthy.
RoleRow ==
  /\ At("roles")
  /\ LET p == ProviderOf[request.binding]
     IN /\ Goes("worker", [request EXCEPT !.role = KeyHealth(p) /\ request.source # "unknown" /\ ~request.stale])
        /\ Probed({p})
  /\ UNCHANGED <<catalog, stored, world, payload, seen, events>>

\* The worker is seen by its advisory lock.  Postgres lost since the first
\* reading fails the whole request.
Answer(worker) ==
  /\ payload' = [request EXCEPT !.at = "idle", !.worker = worker] /\ request' = Waiting
WorkerStatus ==
  /\ At("worker")
  /\ \/ ~request.postgres /\ Answer("unknown") /\ UNCHANGED seen
     \/ request.postgres /\ world.postgres /\ Answer(IF world.worker THEN "running" ELSE "stopped")
        /\ seen' = [seen EXCEPT !.worker = world.worker]
     \/ request.postgres /\ ~world.postgres /\ request' = Waiting /\ UNCHANGED <<payload, seen>>
  /\ UNCHANGED <<catalog, stored, world, cache, events>>

Overall(answer) ==
  answer.postgres /\ (\A p \in Providers : answer.rows[p]) /\ answer.role /\ answer.worker # "stopped"

Next ==
  \/ Changes \/ Ticks \/ Selects
  \/ CheckStores \/ ProviderRows \/ ResolveEffectiveBindings \/ RoleRow \/ WorkerStatus
Spec == Init /\ [][Next]_statusVars

-----------------------------------------------------------------------------
\* An answer claims only what it read: a role row is healthy only for the binding
\* the choice stored at its reading puts in force, with nothing discarded; and
\* the whole reads green only with the worker's lock held at its reading.
ClaimsWhatWasRead ==
  payload' # payload =>
    /\ payload'.role => /\ payload'.binding = seen.effective
                        /\ seen.stored \in {None, payload'.binding}
    /\ Overall(payload') => seen'.worker /\ payload'.role
AnswersClaimOnlyWhatWasRead == [][ClaimsWhatWasRead]_statusVars
=============================================================================
