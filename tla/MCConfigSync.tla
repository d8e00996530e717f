---------------------------- MODULE MCConfigSync ----------------------------
EXTENDS ConfigSync, TLC

CONSTANTS A, B, E, F

OldAndNew == A :> [major |-> 2, minor |-> 1] @@ B :> [major |-> 2, minor |-> 2]
==============================================================================
