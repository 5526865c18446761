---------------------------- MODULE MC_Artifacts ----------------------------
\* TLC: two shapes of one meeting's evidence, and approvals are interchangeable.
EXTENDS Artifacts, TLC

\* Between the two, a boundary moves (2 and 1), a capture is taken over by a
\* transcript boundary (1), one disappears (3), and nothing holds instant 0.
MCCuts == { [talk |-> {0, 2}, shots |-> {1}, end |-> 4],
            [talk |-> {1}, shots |-> {3}, end |-> 4] }
\* A re-derived transcript that loses a boundary and gains an end.
MCShort == { [talk |-> {0, 1}, shots |-> {}, end |-> 2],
             [talk |-> {0}, shots |-> {}, end |-> 3] }
Symmetry == Permutations(Requests)
=============================================================================
