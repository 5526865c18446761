-------------------------- MODULE MC_Acquisitions --------------------------
\* TLC: acquisitions are interchangeable, and so are sessions.
EXTENDS Acquisitions, TLC

Symmetry == Permutations(Acquisitions) \union Permutations(Sessions)
=============================================================================
