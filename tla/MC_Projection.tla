--------------------------- MODULE MC_Projection ---------------------------
\* TLC: every artifact cites the meeting that sorts first.
EXTENDS Projection, TLC

FirstMeeting == [a \in Artifacts |-> CHOOSE m \in Meetings : TRUE]
Symmetry == Permutations(Artifacts) \union Permutations(Rebuilds)
=============================================================================
