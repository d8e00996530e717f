---------------------------- MODULE MCUsageArchive ---------------------------
(* Small instances of UsageArchive for TLC.                                *)
EXTENDS UsageArchive, TLC
CONSTANTS r1, r2
Symmetry == Permutations(Requests)
=============================================================================
