---------------------------- MODULE MCDashboardSync ----------------------------
(* Small instances of DashboardSync for TLC.                               *)
EXTENDS DashboardSync, TLC
CONSTANT m1
=============================================================================
