---------------------------- MODULE CandidateOrder ----------------------------
(***************************************************************************)
(* candidate_order (candidate_selection.h): the order in which a request   *)
(* tries its candidates.  Group by group the candidates are rotated by the *)
(* request's offset and sorted by `Before`; the spent ones of all groups   *)
(* are then moved behind the usable ones and the lapsed ones behind all.   *)
(*                                                                         *)
(* A comparison reads the requests in flight of two keys, which belong to  *)
(* other threads and change while the sort runs, so the sort asks one      *)
(* comparison per step.  It is libstdc++'s std::stable_sort on at most     *)
(* MaxGroup members: each half by insertion (a member is compared with the *)
(* front of its half, then backwards without looking for the front again), *)
(* then one merge, forwards for equal halves and else from the back.       *)
(***************************************************************************)
EXTENDS CandidateUsage, Sequences, SequencesExt

CONSTANTS
  Lists,       \* the candidate lists a request may have
  Offsets,     \* request counters (routing_rr_)
  Now,         \* the wall clock of the request
  MaxChanges   \* bound: starts and ends of other requests during the sort

MaxGroup == 14  \* two halves of seven, the library's chunk

(* A candidate: priority group, usage snapshot, accrued cost of its key in *)
(* the ledger and the cost the ledger expects of one request in flight.    *)
IsCandidate(c) ==
  c.group \in Nat /\ c.cost \in Nat /\ c.expected \in Nat

ASSUME OrderAssumption ==
  /\ \A l \in Lists : Len(l) > 0 /\ \A i \in 1..Len(l) : IsCandidate(l[i])
  /\ \A l \in Lists : \A i, j \in 1..Len(l) :
       (i < j /\ l[i].group = l[j].group) =>
          \A k \in i..j : l[k].group = l[i].group
  /\ \A l \in Lists : \A i \in 1..Len(l) :
       Cardinality({j \in 1..Len(l) : l[j].group = l[i].group}) <= MaxGroup
  /\ Offsets \subseteq Nat /\ Now \in Nat /\ MaxChanges \in Nat

VARIABLES
  cand,     \* the candidates
  bound,    \* index of the key the session is bound to, 0 = none
  offset,   \* rr_offset
  busy,     \* gate.in_flight of each candidate's key
  changes,  \* how often busy changed
  stage,    \* "group", "front", "back", "merge", "split", "done", "undefined"
  next,     \* first index of the next group
  members,  \* the group being sorted
  ins,      \* position of the member being inserted
  hole,     \* position it is compared with next
  merged,   \* what the merge has put in its place
  order,    \* the result so far
  told      \* answers of the current sort: <<a, b, whether a is before b>>

sortVars == <<members, ins, hole, merged, told>>
vars == <<cand, bound, offset, busy, changes, stage, next, sortVars, order>>

Indices == 1..Len(cand)
IsSpent(i)  == Exhausted(cand[i].usage, Now)
IsLapsed(i) == Lapsed(cand[i].usage, Now)
ResetOf(i)  == ExhaustedReset(cand[i].usage, Now)

(* KeyCostLedger::effective_cost with the live in-flight count.            *)
CostOf(i) == cand[i].cost + busy[i] * cand[i].expected

Init ==
  /\ cand \in Lists
  /\ bound \in 0..Len(cand)
  /\ offset \in Offsets
  /\ busy = [i \in Indices |-> 0] /\ changes = 0
  /\ stage = "group" /\ next = 1 /\ order = <<>>
  /\ members = <<>> /\ ins = 0 /\ hole = 0 /\ merged = <<>> /\ told = {}
-----------------------------------------------------------------------------
(* The first window, from the longest to the shortest, that tells a and b  *)
(* apart: by a signal against none, then by the stronger pressure.         *)
Windows == <<"month", "week", "5h">>
Tells(a, b, n) ==
  LET u == cand[a].usage  v == cand[b].usage IN
  \/ Presses(u, n, Now) # Presses(v, n, Now)
  \/ Presses(u, n, Now) /\ (PressesMore(u, v, n, Now) \/ PressesMore(v, u, n, Now))
Leads(a, b, n) ==
  LET u == cand[a].usage  v == cand[b].usage IN
  /\ Presses(u, n, Now)
  /\ Presses(v, n, Now) => PressesMore(u, v, n, Now)

UnderPressure(a, b) ==
  IF \E k \in 1..3 : Tells(a, b, Windows[k])
  THEN LET k == CHOOSE k \in 1..3 :
                  Tells(a, b, Windows[k]) /\ \A j \in 1..(k - 1) : ~Tells(a, b, Windows[j])
       IN IF Leads(a, b, Windows[k]) THEN "first" ELSE "second"
  ELSE "same"

SpentBefore(a, b) ==
  IF ResetOf(a) # ResetOf(b)
  THEN ResetOf(a) # 0 /\ (ResetOf(b) = 0 \/ ResetOf(a) < ResetOf(b))
  ELSE CostOf(a) < CostOf(b)

UsableBeforeCostly(a, b) ==  \* mutant: cost outweighs pressure
  IF (a = bound) # (b = bound) THEN a = bound
  ELSE CostOf(a) < CostOf(b)
UsableBefore(a, b) ==
  IF (a = bound) # (b = bound) THEN a = bound
  ELSE CASE UnderPressure(a, b) = "first" -> TRUE
         [] UnderPressure(a, b) = "second" -> FALSE
         [] OTHER -> CostOf(a) < CostOf(b)

Before(a, b) ==
  IF IsSpent(a) # IsSpent(b) THEN ~IsSpent(a)
  ELSE IF IsSpent(a) THEN SpentBefore(a, b) ELSE UsableBefore(a, b)
-----------------------------------------------------------------------------
GroupFrom(i) == {j \in Indices : j >= i /\ cand[j].group = cand[i].group}
Rotation(n) == offset % n
Rotated(i) ==
  LET n == Cardinality(GroupFrom(i)) IN
  [k \in 1..n |-> i + ((k - 1 + Rotation(n)) % n)]

StartGroup ==
  /\ stage = "group" /\ next <= Len(cand)
  /\ members' = Rotated(next)
  /\ next' = next + Cardinality(GroupFrom(next))
  /\ ins' = 2 /\ hole' = 1 /\ merged' = <<>> /\ told' = {}
  /\ stage' = "front"
  /\ UNCHANGED <<cand, bound, offset, busy, changes, order>>

Size == Len(members)
Mid == (Size + 1) \div 2
HalfFront(k) == IF k <= Mid THEN 1 ELSE Mid + 1
Ask(a, b) == told' = told \union {<<a, b, Before(a, b)>>}

(* The member is moved to position p, those from p on make room.           *)
Moved(s, from, p) == InsertAt(RemoveAt(s, from), p, s[from])

(* A member smaller than the front of its half goes to the front.          *)
AskFront ==
  /\ stage = "front" /\ ins <= Size /\ ins # Mid + 1
  /\ Ask(members[ins], members[HalfFront(ins)])
  /\ IF Before(members[ins], members[HalfFront(ins)])
     THEN /\ members' = Moved(members, ins, HalfFront(ins))
          /\ ins' = ins + 1
          /\ UNCHANGED <<hole, stage>>
     ELSE /\ hole' = ins - 1
          /\ stage' = "back"
          /\ UNCHANGED <<members, ins>>
  /\ UNCHANGED <<cand, bound, offset, busy, changes, next, merged, order>>

(* Otherwise it is compared backwards; the front is taken for a sentinel.  *)
AskBack ==
  /\ stage = "back" /\ hole >= 1
  /\ Ask(members[ins], members[hole])
  /\ IF Before(members[ins], members[hole])
     THEN hole' = hole - 1 /\ UNCHANGED <<members, ins, stage>>
     ELSE /\ members' = Moved(members, ins, hole + 1)
          /\ ins' = ins + 1 /\ stage' = "front"
          /\ UNCHANGED hole
  /\ UNCHANGED <<cand, bound, offset, busy, changes, next, merged, order>>

(* The sentinel did not hold: the sort reads before the start of members.  *)
RunPast ==
  /\ stage = "back" /\ hole < 1
  /\ stage' = "undefined"
  /\ UNCHANGED <<cand, bound, offset, busy, changes, next, sortVars, order>>

(* The second half starts with a member that needs no comparison.          *)
SecondHalf ==
  /\ stage = "front" /\ ins <= Size /\ ins = Mid + 1
  /\ ins' = ins + 1
  /\ UNCHANGED <<cand, bound, offset, busy, changes, stage, next, members,
                 hole, merged, told, order>>

(* hole and ins now point at the next members of the two halves.           *)
Forwards == Size = 2 * Mid
StartMerge ==
  /\ stage = "front" /\ ins > Size
  /\ hole' = IF Forwards THEN 1 ELSE Mid
  /\ ins' = IF Forwards THEN Mid + 1 ELSE Size
  /\ stage' = "merge"
  /\ UNCHANGED <<cand, bound, offset, busy, changes, next, members, merged,
                 told, order>>

Merging == stage = "merge" /\ hole \in 1..Mid /\ ins \in (Mid + 1)..Size
AskForwards ==
  /\ Merging /\ Forwards
  /\ Ask(members[ins], members[hole])
  /\ IF Before(members[ins], members[hole])
     THEN merged' = Append(merged, members[ins]) /\ ins' = ins + 1 /\ hole' = hole
     ELSE merged' = Append(merged, members[hole]) /\ hole' = hole + 1 /\ ins' = ins
  /\ UNCHANGED <<cand, bound, offset, busy, changes, stage, next, members, order>>
AskBackwards ==
  /\ Merging /\ ~Forwards
  /\ Ask(members[ins], members[hole])
  /\ IF Before(members[ins], members[hole])
     THEN merged' = <<members[hole]>> \o merged /\ hole' = hole - 1 /\ ins' = ins
     ELSE merged' = <<members[ins]>> \o merged /\ ins' = ins - 1 /\ hole' = hole
  /\ UNCHANGED <<cand, bound, offset, busy, changes, stage, next, members, order>>

(* One half is used up: the rest of the other one stays as it is.          *)
EndGroup ==
  /\ stage = "merge" /\ ~Merging
  /\ order' = order \o
       IF Forwards
       THEN merged \o SubSeq(members, hole, Mid) \o SubSeq(members, ins, Size)
       ELSE SubSeq(members, 1, hole) \o SubSeq(members, Mid + 1, ins) \o merged
  /\ stage' = IF next > Len(cand) THEN "split" ELSE "group"
  /\ UNCHANGED <<cand, bound, offset, busy, changes, next, sortVars>>

(* stable_partition, twice.                                                *)
Partitioned(s, Sinks(_)) ==
  LET Stays(i) == ~Sinks(i) IN SelectSeq(s, Stays) \o SelectSeq(s, Sinks)
Split ==
  /\ stage = "split"
  /\ order' = Partitioned(Partitioned(order, IsSpent), IsLapsed)
  /\ stage' = "done"
  /\ UNCHANGED <<cand, bound, offset, busy, changes, next, sortVars>>

(* Another request takes or returns a slot of a key.                       *)
OtherRequest(i) ==
  /\ stage \in {"front", "back", "merge"} /\ changes < MaxChanges
  /\ busy' = [busy EXCEPT ![i] = 1 - @]
  /\ changes' = changes + 1
  /\ UNCHANGED <<cand, bound, offset, stage, next, sortVars, order>>

Next ==
  \/ StartGroup \/ AskFront \/ AskBack \/ RunPast \/ SecondHalf
  \/ StartMerge \/ AskForwards \/ AskBackwards \/ EndGroup \/ Split
  \/ \E i \in Indices : OtherRequest(i)

Spec == Init /\ [][Next]_vars
-----------------------------------------------------------------------------
Position(i) == CHOOSE p \in 1..Len(order) : order[p] = i
Ahead(i, j) == Position(i) < Position(j)
Usable(i) == ~IsSpent(i) /\ ~IsLapsed(i)
Rivals(i, j) == Usable(i) /\ Usable(j) /\ cand[i].group = cand[j].group
Done == stage = "done"

TypeOK ==
  /\ bound \in 0..Len(cand)
  /\ busy \in [Indices -> 0..1] /\ changes \in 0..MaxChanges
  /\ stage \in {"group", "front", "back", "merge", "split", "done", "undefined"}
  /\ next \in 1..(Len(cand) + 1) /\ hole \in 0..Len(cand)
  /\ ToSet(order) \subseteq Indices /\ ToSet(members) \subseteq Indices
  /\ told \subseteq Indices \X Indices \X BOOLEAN

(* Whatever the comparisons answer, the request gets every candidate once. *)
EveryCandidateOnce ==
  Done => Len(order) = Len(cand) /\ ToSet(order) = Indices

(* "Never steer a request onto a more expensive upstream": usable          *)
(* candidates keep the order of their groups, spent ones come after them   *)
(* and lapsed ones last, whatever the counts did during the sort.          *)
Tier(i) == CASE IsLapsed(i) -> 2 [] Usable(i) -> 0 [] OTHER -> 1
GroupsAndTiers ==
  Done => \A i, j \in Indices :
    /\ Tier(i) < Tier(j) => Ahead(i, j)
    /\ (Tier(i) = Tier(j) /\ cand[i].group < cand[j].group) => Ahead(i, j)

(* The bound key of the session leads its group unless it cannot be used.  *)
BoundLeads ==
  (Done /\ bound # 0 /\ Usable(bound)) =>
    \A i \in Indices : (i # bound /\ Rivals(i, bound)) => Ahead(bound, i)

(* Among the others pressure decides, and it does so even while the counts *)
(* change: a candidate with expiring quota is never behind one without.    *)
PressureLeads ==
  Done => \A i, j \in Indices :
    (Rivals(i, j) /\ bound \notin {i, j} /\ UnderPressure(i, j) = "first")
      => Ahead(i, j)

(* Of two spent keys of a group the one that recovers first is tried first *)
(* and one whose recovery is not known last.                               *)
SoonestInGroup ==
  Done => \A i, j \in Indices :
    (/\ cand[i].group = cand[j].group /\ Tier(i) = 1 /\ Tier(j) = 1
     /\ ResetOf(i) # 0
     /\ ResetOf(j) = 0 \/ ResetOf(i) < ResetOf(j))
      => Ahead(i, j)

(* Candidates that tie exactly take turns: request number k starts the     *)
(* group at its k-th member.                                               *)
GroupOf(i) == {j \in Indices : cand[j].group = cand[i].group}
Turn(i) == (i - Min(GroupOf(i)) - offset) % Cardinality(GroupOf(i))
TiesRotate ==
  (Done /\ changes = 0) => \A i, j \in Indices :
    (Rivals(i, j) /\ ~Before(i, j) /\ ~Before(j, i) /\ Turn(i) < Turn(j))
      => Ahead(i, j)

(* The order a request is given, all of its rules together: however the    *)
(* counts moved while it was sorted, except that ties may then not rotate. *)
OrderKept ==
  /\ EveryCandidateOnce /\ GroupsAndTiers /\ BoundLeads
  /\ PressureLeads /\ SoonestInGroup /\ TiesRotate

(* candidate_selection.h:44-47 "keeps the ordering a strict weak ordering  *)
(* for std::stable_sort": one sort is never told both a < b and not a < b. *)
AskedTwiceSameAnswer ==
  \A a, b \in Indices : ~({<<a, b, TRUE>>, <<a, b, FALSE>>} \subseteq told)
=============================================================================
