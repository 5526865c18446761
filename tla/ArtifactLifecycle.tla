-------------------------- MODULE ArtifactLifecycle --------------------------
(***************************************************************************)
(* What the artifact table promises its readers: the one-way lifecycle.    *)
(* A draft may be proposed, withdrawn or published; a published artifact   *)
(* stays published, by the approval that published it, for ever; an id is  *)
(* never used twice.                                                       *)
(***************************************************************************)
CONSTANTS Artifacts, Requests, None

VARIABLES drafts,      \* the artifacts awaiting approval
          withdrawn,   \* drafts a later extraction replaced
          publisher    \* which approval published an artifact

vars == <<drafts, withdrawn, publisher>>

Published == {a \in Artifacts : publisher[a] # None}

Init ==
  /\ drafts = {} /\ withdrawn = {}
  /\ publisher = [a \in Artifacts |-> None]

\* A run of `extract` replaces drafts by new ones, in one transaction.
Propose(old, new) ==
  /\ old \subseteq drafts
  /\ new \subseteq Artifacts \ (drafts \union withdrawn \union Published)
  /\ drafts' = (drafts \ old) \union new
  /\ withdrawn' = withdrawn \union old
  /\ UNCHANGED publisher

\* An approval publishes drafts, all of them awaiting approval until now.
Publish(r, approved) ==
  /\ approved \subseteq drafts
  /\ drafts' = drafts \ approved
  /\ publisher' = [a \in Artifacts |-> IF a \in approved THEN r ELSE publisher[a]]
  /\ UNCHANGED withdrawn

Next ==
  \/ \E old, new \in SUBSET Artifacts : Propose(old, new)
  \/ \E r \in Requests, approved \in SUBSET Artifacts : Publish(r, approved)

Spec == Init /\ [][Next]_vars
=============================================================================
