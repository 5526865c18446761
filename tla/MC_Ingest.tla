----------------------------- MODULE MC_Ingest ------------------------------
(* The ingest queue on small instances: see the cfg files for the bounds.  *)
EXTENDS IngestJobs, TLC

Symmetry == Permutations(Posts)
=============================================================================
