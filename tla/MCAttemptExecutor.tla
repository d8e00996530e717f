-------------------------- MODULE MCAttemptExecutor --------------------------
(* Small instances of AttemptExecutor for TLC.                             *)
EXTENDS AttemptExecutor
CONSTANTS k1, k2, r1, r2
OneFirst  == [k \in Keys |-> IF k = k1 THEN 1 ELSE 0]
OneOrder  == {<<k1, k2>>}
NoLimit   == [k \in Keys |-> 0]
NoneLapsed == {{}}
AllOrNone == {{}, Keys}
=============================================================================
