--------------------------- MODULE MCSchemaUpgrade ---------------------------
(* Two agents, which an old dashboard may have numbered the other way round.  *)
EXTENDS SchemaUpgrade
CONSTANTS a, b
const_AgentId == [x \in {a, b} |-> IF x = a THEN 1 ELSE 2]
=============================================================================
