------------------------------ MODULE Speakers ------------------------------
(***************************************************************************)
(* Who spoke: the align stage attributes one meeting's transcript labels   *)
(* from the drop's participant graph, a curator names voices, renames and  *)
(* merges people in the api, and every naming re-arms the meeting's job so *)
(* that align derives the rows anew.  People are keyed by identity; nobody *)
(* is ever deleted here.                                                   *)
(***************************************************************************)
EXTENDS Naturals, Sequences, FiniteSets, SequencesExt

CONSTANTS Labels,             \* the transcript's labels: sequences of tokens
          Slots,              \* those of them that name a slot, not a person
          Rosters,            \* the graphs a drop may carry: sets of [key, name]
          Initial(_),         \* a token's first letter, and single letters themselves
          Names, None,        \* what a curator may type
          Curators, MaxEdits, MaxEmits    \* bounds: of the curators' requests, of re-emitted drops

VARIABLES roster,
          people,     \* identity key |-> display name
          alias,      \* absorbed key |-> survivor
          assigned,   \* label |-> the key it was assigned
          row,        \* the segments' attribution: label |-> [who, status]
          attends,    \* meeting_participant
          job, align, \* the worker: [at, held, ids]
          merge,      \* each curator's merge under way: [from, into]
          told,       \* label |-> the name its last assignment answered with (history)
          counts      \* [edits, emits]
vars == <<roster, people, alias, assigned, row, attends, job, align, merge, told, counts>>

Graph == {r.key : r \in UNION Rosters}
Curated == {<<"curated", l>> : l \in Labels}
Keys == Graph \union Curated
\* A person's key is not the absence of one, and a drop's graph is finite.
Keyed == None \notin Keys /\ \A graph \in Rosters : IsFiniteSet(graph)
Minted == {k \in Keys : people[k] # None}
NoAlign == [at |-> "idle", held |-> {}, gone |-> {}, ids |-> [k \in {} |-> None]]
NoMerge == [from |-> None, into |-> None]

Init ==
  /\ roster \in Rosters /\ people = [k \in Keys |-> None] /\ alias = [k \in Keys |-> None]
  /\ assigned = [l \in Labels |-> None] /\ row = [l \in Labels |-> None] /\ attends = {}
  /\ job = "queued" /\ align = NoAlign /\ merge = [c \in Curators |-> NoMerge]
  /\ told = [l \in Labels |-> None] /\ counts = [edits |-> 0, emits |-> 0]

-----------------------------------------------------------------------------
(* resolve_label: the entries one label fits.                              *)

Tokens(name) == ToSet(name)
Initials(name) == [i \in DOMAIN name |-> Initial(name[i])]
Fits(label, name) ==
  IF Len(label) = 1 THEN label[1] \in Tokens(name)
  ELSE IF \A i \in DOMAIN label : Initial(label[i]) = label[i] THEN Initials(name) = label
  ELSE Tokens(label) \subseteq Tokens(name)
NamesFitting(label) ==
  LET names == {r.name : r \in roster}
  IN IF label \in names THEN {label} ELSE {n \in names : Fits(label, n)}
\* One name that two identities write is as ambiguous as two names.
FirstOfThem(label) == LET fit == {r \in roster : r.name \in NamesFitting(label)} IN IF fit = {} THEN {} ELSE {CHOOSE r \in fit : TRUE}
Fitting(label) == {r \in roster : r.name \in NamesFitting(label)}
ResolveLabel(label) ==
  IF label \in Slots THEN [who |-> None, status |-> "placeholder"]
  ELSE IF Fitting(label) = {} THEN [who |-> None, status |-> "unresolved"]
  ELSE IF Cardinality(Fitting(label)) > 1 THEN [who |-> None, status |-> "ambiguous"]
  ELSE [who |-> (CHOOSE r \in Fitting(label) : TRUE).key, status |-> "resolved"]

-----------------------------------------------------------------------------
(* The align stage: one transaction of the worker's.                       *)

Claim ==
  /\ job = "queued" /\ job' = "running"
  /\ align' = [NoAlign EXCEPT !.at = "reads", !.gone = {k \in Keys : alias[k] # None}]
  /\ UNCHANGED <<roster, people, alias, assigned, row, attends, merge, told, counts>>

\* The alias first: somebody merged away is not made again.  What is made or
\* refreshed is locked until the commit.
Survivor(k) == IF alias[k] = None THEN k ELSE alias[k]
ResolveParticipants ==
  /\ align.at = "reads"
  /\ align' = [align EXCEPT !.at = "upserts", !.ids = [k \in {r.key : r \in roster} |-> Survivor(k)],
                            !.held = {r.key : r \in {q \in roster : alias[q.key] = None}}]
  /\ UNCHANGED <<roster, people, alias, assigned, row, attends, job, merge, told, counts>>
LockedByMerges == UNION {{merge[c].from, merge[c].into} : c \in Curators}
Upserts ==
  /\ align.at = "upserts" /\ align.held \intersect LockedByMerges = {}
  /\ align' = [align EXCEPT !.at = "writes"]
  /\ UNCHANGED <<roster, people, alias, assigned, row, attends, job, merge, told, counts>>

\* A curator's word overrides the roster's, one merge after it followed.
SpeakerAssignments == [l \in {m \in Labels : assigned[m] # None} |-> Survivor(assigned[l])]
Attributed(l) ==
  IF l \in DOMAIN SpeakerAssignments THEN [who |-> SpeakerAssignments[l], status |-> "resolved"]
  ELSE LET r == ResolveLabel(l) IN [who |-> IF r.who = None THEN None ELSE align.ids[r.who], status |-> r.status]
RosterRows == {align.ids[r.key] : r \in roster}
NobodyElse == {}   \* mutant of the next
AssignedRows == {SpeakerAssignments[l] : l \in DOMAIN SpeakerAssignments}
Attendance == RosterRows \union AssignedRows
AlignCommits ==
  /\ align.at = "writes" /\ job' = "done" /\ align' = NoAlign
  /\ people' = [k \in Keys |-> IF k \in align.held /\ people[k] = None THEN (CHOOSE r \in roster : r.key = k).name ELSE people[k]]
  /\ row' = [l \in Labels |-> Attributed(l)]
  /\ attends' = Attendance
  /\ UNCHANGED <<roster, alias, assigned, merge, told, counts>>
AlignFails ==
  /\ align.at # "idle" /\ job' = "failed" /\ align' = NoAlign
  /\ UNCHANGED <<roster, people, alias, assigned, row, attends, merge, told, counts>>

-----------------------------------------------------------------------------
(* The curators.                                                           *)

Edit == counts.edits < MaxEdits /\ counts' = [counts EXCEPT !.edits = @ + 1]
Locked == LockedByMerges \union (IF align.at = "writes" THEN align.held ELSE {})

\* Whom a voice is assigned: a name typed, somebody there is, or nobody.
TypedName(l, name) ==
  /\ <<"curated", l>> \notin Locked
  /\ people' = [people EXCEPT ![<<"curated", l>>] = name]
  /\ assigned' = [assigned EXCEPT ![l] = <<"curated", l>>]
  /\ told' = [m \in Labels |-> IF m = l \/ assigned[m] = <<"curated", l>> THEN name ELSE told[m]]   \* a re-typed name renames
Picked(l, k) ==
  /\ k \in Minted \ Locked /\ UNCHANGED people
  /\ assigned' = [assigned EXCEPT ![l] = k] /\ told' = [told EXCEPT ![l] = people[Survivor(k)]]
Unresolved(l) == assigned' = [assigned EXCEPT ![l] = None] /\ told' = [told EXCEPT ![l] = None] /\ UNCHANGED people

\* Refused while the worker is inside the job; else the job runs again.
AssignMeetingSpeaker(l) ==
  /\ job # "running" /\ row[l] # None /\ Edit
  /\ (\E name \in Names : TypedName(l, name)) \/ (\E k \in Keys : Picked(l, k)) \/ Unresolved(l)
  /\ job' = "queued"
  /\ UNCHANGED <<roster, alias, row, attends, align, merge>>

RenameParticipant(k, name) ==
  /\ k \in Minted \ Locked /\ Edit
  /\ IF alias[k] # None THEN UNCHANGED <<people, told>>          \* already-merged
     ELSE /\ people' = [people EXCEPT ![k] = name]
          /\ told' = [l \in Labels |-> IF assigned[l] # None /\ Survivor(assigned[l]) = k THEN name ELSE told[l]]
  /\ UNCHANGED <<roster, alias, assigned, row, attends, job, align, merge>>

\* Both rows are locked, in id order, before anything is asked of the aliases.
MergeLocks(c, a, b) ==
  /\ merge[c] = NoMerge /\ a # b /\ {a, b} \subseteq Minted \ Locked /\ Edit
  /\ merge' = [merge EXCEPT ![c] = [from |-> a, into |-> b]]
  /\ UNCHANGED <<roster, people, alias, assigned, row, attends, job, align, told>>
HasAbsorbedNobody(k) == FALSE
HasAbsorbedAliases(k) == \E other \in Keys : alias[other] = k
MergeRefused(a, b) == alias[a] # None \/ HasAbsorbedAliases(a) \/ alias[b] # None
MergeWrites(c) ==
  /\ merge[c] # NoMerge /\ merge' = [merge EXCEPT ![c] = NoMerge]
  /\ LET a == merge[c].from
         b == merge[c].into
     IN IF MergeRefused(a, b) THEN UNCHANGED <<alias, told>>
        ELSE /\ alias' = [alias EXCEPT ![a] = b]
             /\ told' = [l \in Labels |-> IF assigned[l] = a THEN people[b] ELSE told[l]]
  /\ UNCHANGED <<roster, people, assigned, row, attends, job, align, counts>>

\* Intake takes the drop again, with another graph.
Reemitted(r) ==
  /\ job # "running" /\ counts.emits < MaxEmits /\ counts' = [counts EXCEPT !.emits = @ + 1]
  /\ roster' = r /\ job' = "queued"
  /\ UNCHANGED <<people, alias, assigned, row, attends, align, merge, told>>

Next ==
  \/ Claim \/ ResolveParticipants \/ Upserts \/ AlignCommits \/ AlignFails
  \/ \E l \in Labels : AssignMeetingSpeaker(l)
  \/ \E k \in Keys, name \in Names : RenameParticipant(k, name)
  \/ \E c \in Curators : MergeWrites(c) \/ \E a, b \in Keys : MergeLocks(c, a, b)
  \/ \E r \in Rosters : Reemitted(r)
Spec == Init /\ [][Next]_vars

-----------------------------------------------------------------------------
\* A merge survives every rerun: what an align run writes names nobody who
\* had been merged away when it began, through however many merges, namings
\* and re-emitted graphs (the flat map of aliases, read by one lookup).
AlignDone == align.at = "writes" /\ align' = NoAlign /\ job' = "done"
MergesRespected == AlignDone => \A l \in Labels : row'[l].who \notin align.gone
MergesOutliveReruns == [][MergesRespected]_vars

\* Never a guess: in a settled meeting whoever a label names is the curator's
\* choice or the one identity of the graph the label fits; and whoever a label
\* names attends, or the graph would drop the edge in silence.
RowsAreEarned ==
  job = "done" =>
    \A l \in Labels : row[l].who # None =>
      /\ row[l].who \in attends
      /\ assigned[l] # None \/ (l \notin Slots /\ Cardinality({r \in roster : r.name \in NamesFitting(l)}) = 1)

\* A voice is called what the curator was last told it is called: the typed or
\* chosen person's name, followed through later renames and merges.
NamedAsTold == AlignDone => \A l \in Labels : assigned[l] # None => people'[row'[l].who] = told[l]
VoicesAreAsNamed == [][NamedAsTold]_vars
=============================================================================
