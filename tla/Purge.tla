------------------------------- MODULE Purge -------------------------------
(***************************************************************************)
(* The prune command: every meeting outside a named keep-set is deleted,   *)
(* rows first in one transaction, then, once that is committed, its        *)
(* produced content, its published documents and, if asked, its drop.  The *)
(* worker and the api go on meanwhile.                                     *)
(***************************************************************************)
EXTENDS Naturals, FiniteSets

CONSTANTS Meetings, People, Screens,
          MaxWrites, MaxRuns      \* bounds: of the others' writes, of commands run

VARIABLES meetings,   \* job and meeting rows
          link,       \* meeting_participant
          said,       \* the participants named by transcript segments
          shot,       \* the screens a meeting's screenshots point at
          people, screens,
          dirs, files, drops,   \* content directories; published documents; source drops
          prune,      \* the command: [at, plan, delete, drops]
          told,       \* what the last command ended with
          writes, runs
vars == <<meetings, link, said, shot, people, screens, dirs, files, drops, prune, told, writes, runs>>
database == <<meetings, link, said, shot, people, screens>>
disk == <<dirs, files, drops>>

NoPlan == [purge |-> {}, people |-> {}, screens |-> {}, files |-> {}, standing |-> {}]
Idle == [at |-> "idle", plan |-> NoPlan, drops |-> FALSE]
Init ==
  /\ meetings = Meetings /\ people = People /\ screens = Screens
  /\ link \in SUBSET (Meetings \X People) /\ said \in {s \in SUBSET (Meetings \X People) : s \subseteq link \/ Cardinality(s) = 1}
  /\ shot \in {s \in SUBSET (Meetings \X Screens) : Cardinality(s) <= 2}
  /\ dirs = Meetings /\ drops = Meetings
  /\ \E published \in {{}, Meetings} : files = [m \in Meetings |-> IF m \in published THEN "published" ELSE "absent"]
  /\ prune = Idle /\ told = "nothing yet" /\ writes = 0 /\ runs = 0

-----------------------------------------------------------------------------
(* The plan: computed before anything is removed.                          *)

Of(relation, set) == {r[2] : r \in {q \in relation : q[1] \in set}}
Touched(relation, purge, all, sweep) == IF sweep THEN all ELSE Of(relation, purge)

OrphanScreens(purge, sweep) == Touched(shot, purge, screens, sweep) \ Of(shot, meetings \ purge)
\* A participant a surviving segment still names is kept, linked or not.
UnlinkedOnly(purge, sweep) == Touched(link, purge, people, sweep) \ Of(link, meetings \ purge)
OrphanPeople(purge, sweep) ==
  (Touched(link, purge, people, sweep) \ Of(link, meetings \ purge)) \ Of(said, meetings \ purge)
PublishedFiles(purge) == {m \in purge : files[m] = "published"}

\* The keep-set is named, holds somebody, and leaves somebody out.
ResolveScope(keep, asked) ==
  /\ prune = Idle /\ runs < MaxRuns /\ runs' = runs + 1
  /\ LET kept == keep \intersect meetings
         purge == meetings \ kept
     IN IF ~(keep \subseteq meetings) \/ kept = {} THEN told' = "refused" /\ UNCHANGED prune
        ELSE IF purge = {} THEN told' = "nothing to purge" /\ UNCHANGED prune
        ELSE /\ told' = "running"
             /\ prune' = [at |-> "planned", drops |-> asked.drops,
                          plan |-> [purge |-> purge, people |-> OrphanPeople(purge, asked.sweep),
                                    screens |-> OrphanScreens(purge, asked.sweep), files |-> PublishedFiles(purge),
                                    standing |-> link \union said]]
  /\ UNCHANGED <<database, disk, writes>>

Ends(outcome) == prune' = Idle /\ told' = outcome
DryRun == prune.at = "planned" /\ Ends("reported") /\ UNCHANGED <<database, disk, writes, runs>>

\* Deleting the jobs cascades to all that hangs off them.  A screen somebody came to
\* use refuses the transaction; a participant goes with its links, and its name.
ExecutePurge ==
  /\ prune.at = "planned"
  /\ LET survivors(relation) == {r \in relation : r[1] \notin prune.plan.purge}
     IN IF Of(survivors(shot), meetings) \intersect prune.plan.screens # {}
        THEN Ends("refused") /\ UNCHANGED database
        ELSE /\ meetings' = meetings \ prune.plan.purge
             /\ people' = people \ prune.plan.people /\ screens' = screens \ prune.plan.screens
             /\ link' = {r \in survivors(link) : r[2] \notin prune.plan.people}
             /\ said' = {r \in survivors(said) : r[2] \notin prune.plan.people}
             /\ shot' = survivors(shot)
             /\ prune' = [prune EXCEPT !.at = "content"] /\ UNCHANGED told
  /\ UNCHANGED <<disk, writes, runs>>

-----------------------------------------------------------------------------
(* Past the commit: what is gone already is success.                       *)

RemoveContentDir ==
  /\ prune.at = "content"
  /\ IF prune.plan.purge \intersect dirs = {} THEN prune' = [prune EXCEPT !.at = "published"] /\ UNCHANGED dirs
     ELSE UNCHANGED prune /\ \E m \in prune.plan.purge \intersect dirs : dirs' = dirs \ {m}
  /\ UNCHANGED <<database, files, drops, told, writes, runs>>

\* The files go, then one commit records it; git refusing ends the command there.
RemovePublishedFiles ==
  /\ prune.at = "published"
  /\ \E recorded \in BOOLEAN :
       /\ recorded \/ prune.plan.files # {}
       /\ files' = [m \in Meetings |-> IF m \notin prune.plan.files THEN files[m]
                                       ELSE IF recorded THEN "absent" ELSE "unlinked"]
       /\ IF ~recorded THEN Ends("published files left")
          ELSE IF prune.drops THEN prune' = [prune EXCEPT !.at = "drops"] /\ UNCHANGED told ELSE Ends("done")
  /\ UNCHANGED <<database, dirs, drops, writes, runs>>
RemoveDrops ==
  /\ prune.at = "drops" /\ drops' = drops \ prune.plan.purge /\ Ends("done")
  /\ UNCHANGED <<database, dirs, files, writes, runs>>

\* It is killed, or a directory cannot be removed: a transaction begun is rolled back.
Dies == prune # Idle /\ Ends("died") /\ UNCHANGED <<database, disk, writes, runs>>

-----------------------------------------------------------------------------
(* The worker aligns a meeting, or takes its screenshots; the api publishes. *)

Writes == writes < MaxWrites /\ writes' = writes + 1
Align ==
  /\ Writes
  /\ \E m \in meetings, p \in People :
       people' = people \union {p} /\ link' = link \union {<<m, p>>} /\ said' = said \union {<<m, p>>}
  /\ UNCHANGED <<meetings, shot, screens, disk, prune, told, runs>>
Capture ==
  /\ Writes
  /\ \E m \in meetings, s \in Screens : screens' = screens \union {s} /\ shot' = shot \union {<<m, s>>}
  /\ UNCHANGED <<meetings, link, said, people, disk, prune, told, runs>>
Publish ==
  /\ Writes
  /\ \E m \in meetings : files[m] = "absent" /\ files' = [files EXCEPT ![m] = "published"]
  /\ UNCHANGED <<database, dirs, drops, prune, told, runs>>

Asked == [sweep : BOOLEAN, drops : BOOLEAN]
Next ==
  \/ \E keep \in SUBSET Meetings, asked \in Asked : ResolveScope(keep, asked)
  \/ DryRun \/ ExecutePurge \/ RemoveContentDir \/ RemovePublishedFiles \/ RemoveDrops \/ Dies
  \/ Align \/ Capture \/ Publish
Spec == Init /\ [][Next]_vars

-----------------------------------------------------------------------------
\* A purge takes only its own: of a kept meeting, no participant linked or named, and
\* no screen, that was there when the plan was made is lost with the purged ones.
OthersKept ==
  meetings' # meetings =>
    /\ \A r \in prune.plan.standing : r[1] \in meetings' => r \in link' \union said'
    /\ shot' = {r \in shot : r[1] \in meetings'} /\ Of(shot', meetings') \subseteq screens'
PurgeTakesOnlyItsOwn == [][OthersKept]_vars

\* "A purge re-run after an interrupted one must converge": told that nothing is left
\* to purge, an operator finds no directory and no document of a purged meeting.
InterruptedPurgeConverges ==
  told = "nothing to purge" => \A m \in Meetings \ meetings : m \notin dirs /\ files[m] = "absent"
=============================================================================
