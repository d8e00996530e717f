------------------------ MODULE MCAgentSubscriptions ------------------------
(* The instance of AgentSubscriptions that TLC checks: two agents compete  *)
(* for one subscription with two instances, over two periods of two days.  *)
EXTENDS AgentSubscriptions, TLC

Symmetry == Permutations(Software) \cup Permutations(Insts)
=============================================================================
