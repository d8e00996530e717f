----------------------------- MODULE UsageLedger -----------------------------
(***************************************************************************)
(* What the accounting pipeline promises about one event, with no queue,   *)
(* file or database in sight: an accepted event is pending until it is     *)
(* recorded or given up, recorded and given up are final, and no event     *)
(* reaches either of them without having been accepted.                    *)
(***************************************************************************)
CONSTANT Requests

VARIABLE status  \* of every event: "none", "pending", "recorded" or "lost"

Init == status = [r \in Requests |-> "none"]

Pending == {r \in Requests : status[r] = "pending"}

Accept(r) ==
  /\ status[r] = "none"
  /\ status' = [status EXCEPT ![r] = "pending"]

(* A batch of pending events gets its rows in one transaction.             *)
Record(S) ==
  /\ S # {}
  /\ status' = [r \in Requests |-> IF r \in S THEN "recorded" ELSE status[r]]

(* A crash, a poison record or a failed shutdown gives pending events up.  *)
GiveUp(S) ==
  /\ S # {}
  /\ status' = [r \in Requests |-> IF r \in S THEN "lost" ELSE status[r]]

Next ==
  \/ \E r \in Requests : Accept(r)
  \/ \E S \in SUBSET Pending : Record(S) \/ GiveUp(S)

Spec == Init /\ [][Next]_status
=============================================================================
