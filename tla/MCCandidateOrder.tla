---------------------------- MODULE MCCandidateOrder ----------------------------
(* Small instances of CandidateOrder for TLC: three candidates in one or   *)
(* two groups, with usage snapshots of every kind the comparison tells apart.  *)
EXTENDS CandidateOrder

Window(p, r, s) == [percent |-> p, resets |-> r, state |-> s]
Snapshot(at, ws) ==
  [observed |-> at, inactive |-> FALSE, errorAt |-> 0, windows |-> ws]
Only(n, w) == [k \in {n} |-> w]

(* Now is 100 and a snapshot is fresh for 10.                              *)
Pressing  == Snapshot(95, Only("5h", Window(50, 110, "started")))
Stronger  == Snapshot(95, Only("5h", Window(0, 110, "started")))
Monthly   == Snapshot(95, [k \in {"month", "5h"} |->
               IF k = "month" THEN Window(90, 190, "started")
               ELSE Window(100, 99, "started")])
SpentSoon == Snapshot(50, Only("week", Window(100, 105, "started")))
SpentLate == Snapshot(95, Only("month", Window(100, 150, "started")))
SpentOpen == Snapshot(95, Only("5h", Window(100, 0, "unknown")))
SpentOld  == Snapshot(50, Only("5h", Window(100, 0, "unknown")))
LapsedKey == [Snapshot(50, Only("month", Window(50, 150, "started")))
              EXCEPT !.inactive = TRUE, !.errorAt = 90]

Cand(g, u, c) == [group |-> g, usage |-> u, cost |-> c, expected |-> 2]
Triples(U) ==
  {<<Cand(0, u, 1), Cand(0, v, 1), Cand(g, w, 0)>> :
     u \in U, v \in U, w \in U, g \in {0, 1}}
UsableLists == Triples({NoUsage, Pressing, Stronger, Monthly, SpentOld})
MixedLists  == Triples({NoUsage, SpentSoon, SpentLate, SpentOpen, LapsedKey})
AllLists    == UsableLists \union MixedLists
PlainLists  == Triples({NoUsage})
=============================================================================
