---------------------------- MODULE MCStateFile ----------------------------
\* The shared state file, for TLC.
EXTENDS StateFile, TLC

Symmetry == Permutations(Procs)
=============================================================================
