------------------------- MODULE AgentSubscriptions -------------------------
(***************************************************************************)
(* The subscriptions a user pays for local agent software: their separately *)
(* billed instances, the dated bindings that say which software a           *)
(* subscription belongs to, the monthly charges, each owned by the software *)
(* that was bound when it was written, their export events, and the         *)
(* removal of software, instances and subscriptions.                        *)
(*                                                                         *)
(* Every handler is one SQLite transaction, so an operation is a function  *)
(* on the database record db.  Dates are days; Month of them make a period.*)
(* Prices and labels are left out; Never stands for a NULL ends_on.        *)
(***************************************************************************)
EXTENDS Integers, FiniteSets

CONSTANTS
    Software,      \* agent software accounts
    Subs,          \* agent_subscriptions rows; AUTOINCREMENT never reuses one
    Insts,         \* agent_subscription_instances rows
    NoOne,         \* a NULL software_id
    Month,
    MaxDay,        \* bound on the clock
    MaxEdits       \* bound on the user's operations

ASSUME MonthAssumption == Month \in Nat \ {0}
ASSUME InstsAssumption == IsFiniteSet(Insts)
ASSUME NoOneAssumption == NoOne \notin Software

VARIABLES
    today,
    mode,    \* cancellation_mode: "immediate" or "end_of_period"
    fx,      \* an exchange rate is stored, so a foreign charge can be frozen
    db,      \* the live rows, the charges and the export events
    edits

vars == <<today, mode, fx, db, edits>>

Never == -1
After(end, t) == end = Never \/ end > t      \* ends_on IS NULL OR ends_on > t
Row(state) == [state |-> state, sub |-> NoOne, from |-> Never, ends |-> Never]

(* An upgraded database may hold a frozen charge nobody owns: version 2.1  *)
(* wrote a charge before it was allocated to a software.                   *)
Init ==
    /\ today = 0 /\ mode \in {"immediate", "end_of_period"} /\ fx \in BOOLEAN
    /\ edits = 0
    /\ \E s \in Subs, i \in Insts, migrated \in BOOLEAN :
         db = [software |-> {},
               subs |-> [r \in Subs |-> IF migrated /\ r = s
                           THEN [Row("live") EXCEPT !.from = 0] ELSE Row("new")],
               insts |-> [r \in Insts |-> IF migrated /\ r = i
                           THEN [Row("live") EXCEPT !.sub = s, !.from = 0]
                           ELSE Row("new")],
               bindings |-> {},
               charges |-> IF migrated
                           THEN {[inst |-> i, start |-> 0, owner |-> NoOne,
                                  final |-> TRUE]} ELSE {},
               events |-> {}]

------------------------------------------------------------------------------
(* Bindings and billing units.                                             *)

PeriodStart(from) == ((today - from) \div Month) * Month + from

EffectiveOn(b, day) == b.from <= day /\ After(b.ends, day)
Effective(d, s) == {b \in d.bindings : b.sub = s /\ EffectiveOn(b, today)}

(* ORDER BY valid_from DESC LIMIT 1.                                       *)
Owner(d, s) == IF Effective(d, s) = {} THEN NoOne
               ELSE (CHOOSE b \in Effective(d, s) :
                       \A c \in Effective(d, s) : c.from <= b.from).soft

AgentUnits(d, ended) ==
    {i \in Insts :
        LET inst == d.insts[i]
            sub == d.subs[inst.sub]
        IN /\ inst.state = "live"
           /\ Owner(d, inst.sub) \in d.software
           /\ inst.from <= today
           /\ ended \/ (After(sub.ends, today) /\ After(inst.ends, today))}

------------------------------------------------------------------------------
(* The materializer: own the unowned current rows, open and freeze the     *)
(* current period of every unit, and export what is frozen and owned.      *)

AttachAny(d, units) ==  \* mutant: an owner is replaced as well
    {IF c.inst \in units /\ c.start = PeriodStart(d.insts[c.inst].from)
     THEN [c EXCEPT !.owner = Owner(d, d.insts[c.inst].sub)] ELSE c : c \in d.charges}
AttachOwner(d, units) ==
    {IF /\ c.inst \in units /\ c.start = PeriodStart(d.insts[c.inst].from)
        /\ c.owner = NoOne
     THEN [c EXCEPT !.owner = Owner(d, d.insts[c.inst].sub)] ELSE c : c \in d.charges}

MaterializeStream(d, units, charges, rate) ==
    LET billed == {i \in units : \/ d.insts[i].ends = Never
                                 \/ PeriodStart(d.insts[i].from) < d.insts[i].ends}
        Current(c) == c.inst \in billed /\ c.start = PeriodStart(d.insts[c.inst].from)
        known == {c.inst : c \in {c \in charges : Current(c)}}
    IN {IF Current(c) THEN [c EXCEPT !.final = @ \/ rate] ELSE c : c \in charges}
       \cup {[inst |-> i, start |-> PeriodStart(d.insts[i].from),
              owner |-> Owner(d, d.insts[i].sub), final |-> rate]
               : i \in billed \ known}

DirectEvent(c) == [inst |-> c.inst, start |-> c.start, soft |-> c.owner]
ExportOwned(charges) ==  \* mutant: a charge is sent before it is frozen
    {DirectEvent(c) : c \in {c \in charges : c.owner # NoOne}}
ExportEvents(charges) ==
    {DirectEvent(c) : c \in {c \in charges : c.owner # NoOne /\ c.final}}

Materialized(d, rate, ended) ==
    LET units == AgentUnits(d, ended)
        charges == MaterializeStream(d, units, AttachOwner(d, units), rate)
    IN [d EXCEPT !.charges = charges, !.events = @ \cup ExportEvents(charges)]

CurrentCharged(d, s) ==
    \A i \in AgentUnits(d, FALSE) : d.insts[i].sub = s =>
        \E c \in d.charges : c.inst = i /\ c.start = PeriodStart(d.insts[i].from)
NewestFrozen(d, s) ==
    \A c \in d.charges :
        \/ c.final \/ d.insts[c.inst].state # "live" \/ d.insts[c.inst].sub # s
        \/ \E e \in d.charges : e.inst = c.inst /\ e.start > c.start /\ e.start <= today
\* mutant: written is enough, frozen or not
EnsureWritten(d, s) == CurrentCharged(d, s)
EnsureCharge(d, s) == CurrentCharged(d, s) /\ NewestFrozen(d, s)

------------------------------------------------------------------------------
(* Changes to the live rows.                                               *)

Live(d, s) == d.subs[s].state = "live" /\ After(d.subs[s].ends, today)
LiveInsts(d, s) == {i \in Insts : /\ d.insts[i].state = "live" /\ d.insts[i].sub = s
                                  /\ After(d.insts[i].ends, today)}

End(bindings, hit) ==
    {IF b \in hit /\ EffectiveOn(b, today) THEN [b EXCEPT !.ends = today] ELSE b
        : b \in bindings}

ReplaceKeeping(d, a, subs) ==  \* mutant: the other agents keep theirs
    LET kept == End(d.bindings, {b \in d.bindings : b.soft = a /\ b.sub \notin subs})
        mine == {[sub |-> s, soft |-> a, from |-> today, ends |-> Never] : s \in subs}
        Replaced(b) == \E m \in mine : b.sub = m.sub /\ b.soft = a /\ b.from = today
    IN [d EXCEPT !.bindings = {b \in kept : ~Replaced(b)} \cup mine]
ReplaceBindings(d, a, subs) ==
    LET dropped == {b \in d.bindings : b.soft = a /\ b.sub \notin subs}
        taken == {b \in d.bindings : b.soft # a /\ b.sub \in subs}
        kept == End(d.bindings, dropped \cup taken)
        mine == {[sub |-> s, soft |-> a, from |-> today, ends |-> Never] : s \in subs}
        Replaced(b) == \E m \in mine : b.sub = m.sub /\ b.soft = a /\ b.from = today
    IN [d EXCEPT !.bindings = {b \in kept : ~Replaced(b)} \cup mine]

UpdateInstanceRow(d, i, from) == [d EXCEPT !.insts[i].from = from]
InsertInstance(d, s, i, from) ==
    [d EXCEPT !.insts[i] = [Row("live") EXCEPT !.sub = s, !.from = from]]

PurgeInstances(d, insts) ==
    [d EXCEPT !.insts = [i \in Insts |-> IF i \in insts THEN Row("gone") ELSE @[i]]]
PurgeSubscriptions(d, subs) ==
    LET rest == PurgeInstances(d, {i \in Insts : d.insts[i].sub \in subs})
    IN [rest EXCEPT
         !.subs = [s \in Subs |-> IF s \in subs THEN Row("gone") ELSE @[s]],
         !.bindings = {b \in @ : b.sub \notin subs}]

SubscriptionEnd(from) ==
    IF mode = "immediate" THEN today ELSE PeriodStart(from) + Month
EndInstances(d, insts) ==
    [d EXCEPT !.insts = [i \in Insts |-> IF i \in insts
        THEN [@[i] EXCEPT !.ends = SubscriptionEnd(d.insts[i].from)] ELSE @[i]]]
RemoveInstances(d, insts) ==
    IF mode = "immediate" THEN PurgeInstances(d, insts) ELSE EndInstances(d, insts)

------------------------------------------------------------------------------
(* The user's operations.                                                  *)

Starts == {day \in today - 1 .. today : day >= 0}

CreateSoftware(a, subs) ==
    /\ a \notin db.software /\ \A s \in subs : Live(db, s)
    /\ ~\E c \in db.charges : c.owner = a       \* the id was never used
    /\ db' = Materialized(ReplaceBindings([db EXCEPT !.software = @ \cup {a}],
                                          a, subs), fx, FALSE)

UpdateSoftware(a, subs) ==
    /\ a \in db.software /\ \A s \in subs : Live(db, s)
    /\ db' = Materialized(ReplaceBindings(db, a, subs), fx, FALSE)

DeleteSoftware(a) ==
    /\ a \in db.software
    /\ db' = [Materialized(db, fx, FALSE) EXCEPT
                !.software = @ \ {a}, !.bindings = {b \in @ : b.soft # a}]

CreateSubscription(s, i, from) ==
    /\ db.subs[s].state = "new" /\ db.insts[i].state = "new"
    /\ db' = InsertInstance([db EXCEPT !.subs[s] = [Row("live") EXCEPT !.from = from]],
                            s, i, from)

CreateInstance(s, i, from) ==
    /\ db.subs[s].state = "live" /\ db.subs[s].ends = Never
    /\ db.insts[i].state = "new"
    /\ db' = Materialized(InsertInstance(db, s, i, from), fx, FALSE)

UpdateInstance(i, from) ==
    /\ db.insts[i].state = "live" /\ After(db.insts[i].ends, today)
    /\ db' = Materialized(UpdateInstanceRow(db, i, from), fx, FALSE)

DeleteInstance(i) ==
    LET d == Materialized(db, fx, FALSE)
    IN /\ db.insts[i].state = "live" /\ After(db.insts[i].ends, today)
       /\ EnsureCharge(d, db.insts[i].sub)
       /\ db' = RemoveInstances(d, {i})

(* The form lists the instances to keep; the others end, a new one starts. *)
UpdateSubscription(s, kept, new, from) ==
    LET d == Materialized(db, fx, FALSE)
    IN /\ Live(db, s) /\ kept \subseteq LiveInsts(db, s) /\ kept \cup new # {}
       /\ Cardinality(new) <= 1 /\ \A i \in new : db.insts[i].state = "new"
       /\ EnsureCharge(d, s)
       /\ LET added == [d EXCEPT !.insts = [i \in Insts |-> IF i \in new
                          THEN [Row("live") EXCEPT !.sub = s, !.from = from] ELSE @[i]]]
          IN db' = Materialized(RemoveInstances(added, LiveInsts(db, s) \ kept),
                                fx, FALSE)

DeleteSubscription(s) ==
    LET d == Materialized(db, fx, FALSE)
        insts == LiveInsts(db, s)
        ended == EndInstances(d, insts)
        ends == {ended.insts[i].ends : i \in insts}
        end == IF insts = {} THEN SubscriptionEnd(d.subs[s].from)
               ELSE CHOOSE e \in ends : \A f \in ends : f <= e
    IN /\ Live(db, s) /\ EnsureCharge(d, s)
       /\ db' = IF mode = "immediate" THEN PurgeSubscriptions(d, {s})
                ELSE [ended EXCEPT
                       !.subs[s].ends = end,
                       !.bindings = {IF b.sub = s /\ After(b.ends, today)
                                     THEN [b EXCEPT !.ends = end] ELSE b : b \in @}]

------------------------------------------------------------------------------
(* The maintenance process.                                                *)

(* A rate is fetched only while some unit needs one.                       *)
MaterializeWorker ==
    /\ \E got \in BOOLEAN :
         /\ fx' = (fx \/ (got /\ AgentUnits(db, FALSE) # {}))
         /\ db' = Materialized(db, fx', FALSE)
    /\ UNCHANGED <<today, mode, edits>>

Past(end) == end # Never /\ end < today
FinalizeDeferredDeletions ==
    LET d == Materialized(db, fx, TRUE)
        kept == [d EXCEPT !.bindings = {b \in @ : ~Past(b.ends)}]
        rest == PurgeInstances(kept, {i \in Insts : Past(d.insts[i].ends)})
        empty == {s \in Subs : /\ rest.subs[s].state = "live" /\ Past(rest.subs[s].ends)
                               /\ \A i \in Insts : rest.insts[i].sub # s}
    IN db' = PurgeSubscriptions(rest, empty) /\ UNCHANGED <<today, mode, fx, edits>>

Tick == today < MaxDay /\ today' = today + 1 /\ UNCHANGED <<mode, fx, db, edits>>

User ==
  /\ edits < MaxEdits /\ edits' = edits + 1 /\ UNCHANGED <<today, mode, fx>>
  /\ \/ \E a \in Software, subs \in SUBSET Subs : CreateSoftware(a, subs)
     \/ \E a \in Software, subs \in SUBSET Subs : UpdateSoftware(a, subs)
     \/ \E a \in Software : DeleteSoftware(a)
     \/ \E s \in Subs, i \in Insts, from \in Starts : CreateSubscription(s, i, from)
     \/ \E s \in Subs, i \in Insts, from \in Starts : CreateInstance(s, i, from)
     \/ \E i \in Insts, from \in Starts : UpdateInstance(i, from)
     \/ \E i \in Insts : DeleteInstance(i)
     \/ \E s \in Subs, kept, new \in SUBSET Insts, from \in Starts :
          UpdateSubscription(s, kept, new, from)
     \/ \E s \in Subs : DeleteSubscription(s)

Next == User \/ MaterializeWorker \/ FinalizeDeferredDeletions \/ Tick

Spec == Init /\ [][Next]_vars

------------------------------------------------------------------------------
(* On no day is a subscription bound to two agents: rebinding ends every   *)
(* other interval, also when a deletion has given it an end in the future, *)
(* when software is rebound twice a day, and when it is bound back.        *)
OneAgentADay ==
    \A b, c \in db.bindings :
        b.sub = c.sub /\ b.soft # c.soft =>
            \A day \in 0 .. MaxDay : ~(EffectiveOn(b, day) /\ EffectiveOn(c, day))

(* Each frozen charge with an owner was exported exactly once, under the   *)
(* owner it has, and nothing else was exported: an event is never sent for *)
(* a charge that can still change, and no transaction leaves one behind.   *)
ExportedOnce ==
    \A c \in db.charges :
        LET sent == {e \in db.events : e.inst = c.inst /\ e.start = c.start}
        IN sent = IF c.owner # NoOne /\ c.final
                  THEN {DirectEvent(c)} ELSE {}

(* A charge outlives its instance, its subscription and its agent, and     *)
(* neither an unbinding nor a rebinding moves it to another agent.         *)
OwnerFixed ==
    [][/\ \A c \in db.charges : \E e \in db'.charges :
            /\ e.inst = c.inst /\ e.start = c.start
            /\ c.owner # NoOne => e.owner = c.owner
            /\ c.final => e.final
       /\ db.events \subseteq db'.events]_vars

(* While a period is not charged and frozen, no instance billed in it is   *)
(* removed, nor given an end, by a user's operation.                       *)
CurrentFrozen(d, i) ==
    i \in AgentUnits(d, FALSE) =>
        \E c \in db'.charges :
            c.inst = i /\ c.start = PeriodStart(d.insts[i].from) /\ c.final
FrozenBeforeEnding ==
    [][\A i \in Insts :
         /\ edits' # edits
         /\ db.insts[i].state = "live" /\ db.insts[i].ends = Never
         /\ db'.insts[i].state = "gone" \/ db'.insts[i].ends # Never
         => CurrentFrozen(db, i)]_vars
=============================================================================
