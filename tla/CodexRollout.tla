---------------------------- MODULE CodexRollout ----------------------------
(***************************************************************************)
(* What Token Board reads out of one Codex session file: the parser of     *)
(* adapters/codex.py, which must see every request once although Codex     *)
(* writes its usage twice, and the lineage analysis of codex_replay.py,    *)
(* which finds how much of a forked session repeats its parent.            *)
(*                                                                         *)
(* A record is [k, r, cum, at]: its kind, the request whose usage it       *)
(* carries, the running total printed with it and the time it was written. *)
(*   "meta"     session_meta, the first line of every session              *)
(*   "turn"     task_started: a new turn begins                            *)
(*   "durable"  token_usage_record                                         *)
(*   "ui"       event_msg/token_count, the mirror shown to the user        *)
(* Two records have the same usage exactly when they have the same request.*)
(***************************************************************************)
EXTENDS Integers, Sequences, FiniteSets, FiniteSetsExt

NoRequest == 0

Record(k, r, cum, at) == [k |-> k, r |-> r, cum |-> cum, at |-> at]

IsUsage(rec) == rec.k \in {"durable", "ui"}

-----------------------------------------------------------------------------
(* The parser: one reading of a whole file, the first skip usage records    *)
(* left out as a replay                                                     *)

Rank(recs, i) == Cardinality({j \in 1..i : IsUsage(recs[j])})

\* The same running total again is a repeated snapshot.  The two series of
\* records have a total each, and it moves on every record of the series.
Repeated(recs, i) ==
    LET before == {j \in 1..(i - 1) : recs[j].k = recs[i].k}
    IN  before # {} /\ recs[Max(before)].cum = recs[i].cum

Taken(recs, skip) ==
    {i \in DOMAIN recs : IsUsage(recs[i]) /\ Rank(recs, i) > skip /\ ~Repeated(recs, i)}

\* A UI record with the same usage that follows a durable one, before any
\* other usage record and in the same turn, is its mirror.
Mirrored(recs, i) ==
    /\ recs[i].k = "durable" /\ i < Len(recs)
    /\ recs[i + 1].k = "ui" /\ recs[i + 1].r = recs[i].r

\* A durable record is held back until the next usage record or the end of
\* the file, and is an event of its own unless that record was its mirror.
Confirmed(recs, skip) ==
    {i \in Taken(recs, skip) : recs[i].k = "durable" /\ ~Mirrored(recs, i)}

\* A UI event is named by its line; the confirmed durable ones are numbered.
EventId(recs, skip, i) ==
    IF recs[i].k = "ui" THEN <<"line", i>>
    ELSE <<"record", Cardinality({j \in Confirmed(recs, skip) : j <= i})>>

RolloutEvents(recs, skip) ==
    {[id |-> EventId(recs, skip, i), r |-> recs[i].r] :
        i \in {j \in Taken(recs, skip) : recs[j].k = "ui"} \cup Confirmed(recs, skip)}

-----------------------------------------------------------------------------
(* Replayed prefixes                                                       *)

\* The fingerprint leaves the time out, which a fork writes anew.
Fingerprints(recs) ==
    LET usages == SelectSeq(recs, IsUsage)
    IN  [i \in DOMAIN usages |-> <<usages[i].k, usages[i].r, usages[i].cum>>]

PrefixSuffix(child, parent) ==
    LET sizes == {n \in 1..Len(child) : n <= Len(parent) /\
                    SubSeq(child, 1, n) = SubSeq(parent, Len(parent) - n + 1, Len(parent))}
    IN  Max(sizes \cup {0})

PrefixInside(child, parent) ==
    LET sizes == {n \in 1..Len(child) : \E i \in 0..(Len(parent) - n) :
                    SubSeq(child, 1, n) = SubSeq(parent, i + 1, i + n)}
    IN  Max(sizes \cup {0})

\* The usage records in front of the last turn that started when the session
\* did, which is the sub-agent's own task.
OwnTask(recs) ==
    LET tasks == {i \in DOMAIN recs : recs[i].k = "turn" /\ recs[i].at = recs[1].at}
    IN  IF tasks = {} THEN 0
        ELSE Len(SelectSeq(SubSeq(recs, 1, Max(tasks)), IsUsage))

\* How many usage records of a session repeat its parent: of the parent only
\* what was written when the session started can have been copied.
ReplaySkip(recs, parent, subagent) ==
    LET child == Fingerprints(recs)
        old == Fingerprints(SelectSeq(parent, LAMBDA rec : rec.at <= recs[1].at))
        copied == PrefixSuffix(child, old)
    IN  IF subagent THEN Max({copied, PrefixInside(child, old), OwnTask(recs)})
        ELSE copied
=============================================================================
