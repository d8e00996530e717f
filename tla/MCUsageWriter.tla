---------------------------- MODULE MCUsageWriter ----------------------------
(* Small instances of UsageWriter for TLC.                                 *)
EXTENDS UsageWriter, TLC
CONSTANTS r1, r2, r3, r4
Symmetry == Permutations(Requests)
=============================================================================
