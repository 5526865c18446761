------------------------------- MODULE Threads -------------------------------
(***************************************************************************)
(* derive-threads: every stored topic, corpus-wide, partitioned by equal   *)
(* normalized names and by close embeddings; each part then meets the      *)
(* thread rows earlier passes left.  The extract stage replaces a          *)
(* meeting's topics wholesale in between, and an operator moves the        *)
(* threshold.                                                              *)
(***************************************************************************)
EXTENDS Naturals, Sequences, FiniteSets, FiniteSetsExt, Places

CONSTANTS Meetings, StartedAt,      \* meetings and when each began
          Names, Word, Raw,         \* topic names; normalized (0: nothing alphanumeric), case-folded
          Score,                    \* the clamped cosine of two names' vectors, by <<name, name>>
          Thresholds,               \* values of threads.embedding_similarity_threshold
          MaxThreads, MaxTopics     \* bounds: rows ever minted

\* Names have an order, and two vectors one cosine, whichever comes first.
Comparable ==
  /\ Word \in [Names -> Nat] /\ Raw \in [Names -> Nat]
  /\ \A a, b \in Names : Score[<<a, b>>] = Score[<<b, a>>]

VARIABLES topic,       \* id -> [meeting, name]
          thread,      \* id -> [key, name, threshold]
          member,      \* topic id -> [thread, linked]
          threshold,   \* what the file says
          minted,      \* topic ids used so far: uuidv7 sorts by time
          derived      \* the last pass saw today's topics and threshold
vars == <<topic, thread, member, threshold, minted, derived>>

Init ==
  /\ topic = <<>> /\ thread = <<>> /\ member = <<>> /\ minted = 0
  /\ threshold \in Thresholds /\ derived = FALSE

-----------------------------------------------------------------------------
(* The pure core.                                                          *)

Topics == DOMAIN topic
WordOf(t) == Word[topic[t].name]
Order(t) == <<StartedAt[topic[t].meeting], topic[t].meeting, WordOf(t), t>>
Before(a, b) ==
  LET x == Order(a)
      y == Order(b)
  IN \E i \in 1..4 : x[i] < y[i] /\ \A j \in 1..(i - 1) : x[j] = y[j]
Earliest(T) == CHOOSE t \in T : \A u \in T \ {t} : Before(t, u)

\* The two legs.  A name that is all punctuation matches nothing by name.
SameName(a, b) == WordOf(a) = WordOf(b) /\ WordOf(a) # 0
Close(a, b) == Score[<<topic[a].name, topic[b].name>>] >= threshold

\* Union-find: the pairs arrive in any order, the partition is theirs.
WithoutMerging(parts, pair) ==   \* mutant of the next
  {IF pair[1] \in P THEN P \union {pair[2]} ELSE P \ {pair[2]} : P \in parts} \ {{}}
Union(parts, pair) ==
  LET touched == {P \in parts : pair[1] \in P \/ pair[2] \in P}
  IN (parts \ touched) \union {UNION touched}
Pairs == {p \in Topics \X Topics : p[1] < p[2] /\ (SameName(p[1], p[2]) \/ Close(p[1], p[2]))}
Clusters ==
  LET alike == Pairs
      pairs == Ranked(alike, {q \in alike \X alike :
                 q[1][1] < q[2][1] \/ (q[1][1] = q[2][1] /\ q[1][2] < q[2][2])})
      merged[n \in 0..Len(pairs)] == IF n = 0 THEN {{t} : t \in Topics} ELSE Union(merged[n - 1], pairs[n])
  IN merged[Len(pairs)]

\* The first normalized name, or a digest of the first raw one: never an id or a date.
Digest(raw) == 100 + raw
IdentityKey(members) ==
  LET words == {WordOf(t) : t \in members} \ {0}
  IN IF words # {} THEN Min(words) ELSE Digest(Min({Raw[topic[t].name] : t \in members}))

Linked(t, members) ==
  IF t = Earliest(members) THEN "seed"
  ELSE IF \E u \in members \ {t} : SameName(t, u) THEN "normalized-name" ELSE "embedding-similarity"

\* Two parts with nothing but punctuation can claim one digest: the pass is refused.
KeysAreUnique == LET clusters == Clusters IN \A P, Q \in clusters : IdentityKey(P) = IdentityKey(Q) => P = Q

-----------------------------------------------------------------------------
(* The pass: one transaction, everything read and embedded before a write. *)

\* Every row one of the clusters names exactly is kept for that cluster.
ByFirstCome == {}
Reserved == LET keys == {IdentityKey(P) : P \in Clusters} IN {i \in DOMAIN thread : thread[i].key \in keys}

\* Else the first row of its members' that nobody claimed, else a new one.
Keyed(rows, a, b) == rows[a].key < rows[b].key
Attached(now, P) == {now.member[t].thread : t \in P \cap DOMAIN now.member}
Claims(now, P, free) ==
  LET exact == {i \in Reserved : now.thread[i].key = IdentityKey(P)}
  IN IF exact # {} THEN CHOOSE i \in exact : TRUE
     ELSE IF free # {} THEN CHOOSE i \in free : \A j \in free \ {i} : Keyed(now.thread, i, j)
     ELSE Cardinality(DOMAIN now.thread) + 1
AnyAttached(now, P) == Attached(now, P)
Available(now, P) == Attached(now, P) \ now.claimed

DeriveOne(now, P) ==
  LET i == Claims(now, P, Available(now, P))
      row == [key |-> IdentityKey(P), name |-> topic[Earliest(P)].name, threshold |-> threshold]
  IN [thread |-> [j \in DOMAIN now.thread \union {i} |-> IF j = i THEN row ELSE now.thread[j]],
      member |-> [t \in DOMAIN now.member \union P |->
                    IF t \in P THEN [thread |-> i, linked |-> Linked(t, P)] ELSE now.member[t]],
      claimed |-> now.claimed \union {i}]
DerivedRows ==
  LET clusters == Clusters
      parts == Ranked(clusters, {p \in clusters \X clusters : IdentityKey(p[1]) < IdentityKey(p[2])})
      pass[n \in 0..Len(parts)] ==
        IF n = 0 THEN [thread |-> thread, member |-> member, claimed |-> Reserved] ELSE DeriveOne(pass[n - 1], parts[n])
  IN pass[Len(parts)]

\* A dry run rolls back; a dead embedder or a refused partition wrote nothing.
DeriveThreads ==
  /\ topic # <<>> /\ KeysAreUnique
  /\ LET after == DerivedRows
     IN /\ Cardinality(DOMAIN after.thread) <= MaxThreads
        /\ thread' = after.thread /\ member' = after.member
  /\ derived' = TRUE
  /\ UNCHANGED <<topic, threshold, minted>>

-----------------------------------------------------------------------------
(* What happens between two passes.                                        *)

\* The extract stage deletes a meeting's topics, memberships going with them, and
\* inserts what it found: the threads stay.
ReplaceTopics ==
  \E m \in Meetings, new \in UNION {[1..n -> Names] : n \in 0..2} :
    LET kept == {t \in Topics : topic[t].meeting # m}
        ids == minted + 1 .. minted + Len(new)
    IN /\ minted + Len(new) <= MaxTopics /\ \A i, j \in DOMAIN new : new[i] = new[j] => i = j
       /\ topic' = [t \in kept \union ids |-> IF t \in kept THEN topic[t] ELSE [meeting |-> m, name |-> new[t - minted]]]
       /\ member' = [t \in kept \intersect DOMAIN member |-> member[t]]
       /\ minted' = minted + Len(new) /\ derived' = FALSE
       /\ UNCHANGED <<thread, threshold>>

EditThreshold ==
  /\ \E s \in Thresholds \ {threshold} : threshold' = s
  /\ derived' = FALSE /\ UNCHANGED <<topic, thread, member, minted>>

Next == DeriveThreads \/ ReplaceTopics \/ EditThreshold
Spec == Init /\ [][Next]_vars

-----------------------------------------------------------------------------
\* After a pass the threads that have members are the subjects: two topics share
\* a thread exactly when a chain of equal names and close vectors joins them,
\* and an embedding link has a close topic behind it.  Two products of a split
\* never sit on one row.
Joined(t) ==
  LET Reach[k \in 0..Cardinality(Topics)] ==
        IF k = 0 THEN {t}
        ELSE Reach[k - 1] \union {u \in Topics : \E v \in Reach[k - 1] : SameName(u, v) \/ Close(u, v)}
  IN Reach[Cardinality(Topics)]
ThreadsAreSubjects ==
  derived => /\ DOMAIN member = Topics
             /\ \A t, u \in Topics : member[t].thread = member[u].thread <=> u \in Joined(t)
             /\ \A t \in Topics : member[t].linked = "embedding-similarity" =>
                  \E u \in Topics \ {t} : Close(t, u) /\ member[u].thread = member[t].thread
             /\ \A i, j \in DOMAIN thread : thread[i].key = thread[j].key => i = j

\* A pass over what the last pass saw writes nothing; and a subject that a row
\* names exactly gets that row, whatever became of its topics in between, so what
\* is keyed on the thread's id still means the same subject.
SubjectsKept ==
  /\ derived /\ derived' => UNCHANGED <<thread, member>>
  /\ DOMAIN thread \subseteq DOMAIN thread'
  /\ \A i \in DOMAIN thread, t \in DOMAIN member' :
       thread[i].key = thread'[member'[t].thread].key => member'[t].thread = i
IdentityIsDurable == [][SubjectsKept]_vars
=============================================================================
