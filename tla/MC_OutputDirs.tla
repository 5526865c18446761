---------------------------- MODULE MC_OutputDirs ----------------------------
\* TLC: runs of the stage are interchangeable.
EXTENDS OutputDirs, TLC

Symmetry == Permutations(Runs)
=============================================================================
