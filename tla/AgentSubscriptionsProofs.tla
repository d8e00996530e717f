----------------------- MODULE AgentSubscriptionsProofs -----------------------
(***************************************************************************)
(* Machine-checked facts about AgentSubscriptions: who a subscription      *)
(* belongs to, who owns a charge, and what is exported, for any software,  *)
(* subscriptions and instances, any length of a period and any sequence of *)
(* the user's operations and maintenance runs.                             *)
(***************************************************************************)
EXTENDS AgentSubscriptions, TLAPS, FiniteSetTheorems, WellFoundedInduction

-----------------------------------------------------------------------------
(* The inductive invariant, as predicates on a database record d.          *)

Rows == [state: {"new", "live", "gone"}, sub: Subs \union {NoOne},
         from: Int, ends: Int]
Bindings == [sub: Subs, soft: Software, from: Nat, ends: Int]
Charges == [inst: Insts, start: Int, owner: Software \union {NoOne},
            final: BOOLEAN]
Sent == [inst: Insts, start: Int, soft: Software]
Databases == [software: SUBSET Software, subs: [Subs -> Rows],
              insts: [Insts -> Rows], bindings: SUBSET Bindings,
              charges: SUBSET Charges, events: SUBSET Sent]

(* A live instance belongs to a subscription and starts on a day.          *)
Owned(row) == row.state = "live" => row.sub \in Subs /\ row.from \in Nat
InstsOwned(d) == \A i \in Insts : Owned(d.insts[i])

(* One charge per instance and period; the events are exactly those of the *)
(* charges that are frozen and owned.                                      *)
SameKey(c, e) == c.inst = e.inst /\ c.start = e.start
Exportable(c) == c.owner # NoOne /\ c.final
Unique(charges) == \A c, e \in charges : SameKey(c, e) => c = e
AllSent(d) == \A c \in d.charges : Exportable(c) => DirectEvent(c) \in d.events
OnlySent(d) == \A v \in d.events :
                 \E c \in d.charges : Exportable(c) /\ v = DirectEvent(c)
Ledger(d) == Unique(d.charges) /\ AllSent(d) /\ OnlySent(d)

(* Bindings start today or earlier, and two agents are bound to the same   *)
(* subscription on no day, of the past or of the future.                   *)
Apart(b, c) == \A day \in Nat : ~ (EffectiveOn(b, day) /\ EffectiveOn(c, day))
Bound(d, t) ==
  /\ \A b \in d.bindings : b.from <= t
  /\ \A b, c \in d.bindings : b.sub = c.sub /\ b.soft # c.soft => Apart(b, c)

(* No charge is lost, loses its owner or thaws, no event is recalled, and  *)
(* without an exchange rate nothing freezes.                               *)
Later(c, f) ==
  /\ SameKey(c, f)
  /\ c.owner # NoOne => f.owner = c.owner
  /\ c.final => f.final
OnlyFrozen(C, B) == \A f \in B : f.final => \E c \in C : SameKey(c, f) /\ c.final
Extends(d, e) ==
  /\ \A c \in d.charges : \E f \in e.charges : Later(c, f)
  /\ d.events \subseteq e.events
  /\ fx \/ fx' \/ OnlyFrozen(d.charges, e.charges)

(* What every operation of a transaction keeps.                            *)
Good(d) == d \in Databases /\ InstsOwned(d) /\ Ledger(d) /\ Bound(d, today)

Types == today \in Nat /\ fx \in BOOLEAN

(* Without a rate only the charge of an upgraded database is frozen.       *)
Cold == fx \/ \A c \in db.charges : c.final => c.start <= 0
SubsInv == Types /\ Good(db) /\ Cold
-----------------------------------------------------------------------------
(* The materializer.                                                       *)

(* A period starts on a day.                                               *)
LEMMA PeriodStartType ==
  ASSUME today \in Nat, NEW from \in Int
  PROVE  PeriodStart(from) \in Int
  <1>1. today - from \in Int /\ Month \in Nat \ {0}
    BY MonthAssumption
  <1>2. (today - from) \div Month \in Int
    BY <1>1
  <1>3. ((today - from) \div Month) * Month \in Int
    BY <1>1, <1>2
  <1> QED BY <1>3 DEF PeriodStart

(* The period that runs today began today or earlier, after the start.     *)
LEMMA PeriodStartRange ==
  ASSUME today \in Nat, NEW from \in Nat, from <= today
  PROVE  from <= PeriodStart(from) /\ PeriodStart(from) <= today
  <1> DEFINE n == today - from
             q == n \div Month
             m == n % Month
  <1>1. n \in Nat /\ Month \in Nat /\ Month > 0
    BY MonthAssumption
  <1>2. q \in Nat /\ m \in Nat /\ n = Month * q + m
    BY <1>1
  <1>3. PeriodStart(from) = q * Month + from
    BY DEF PeriodStart
  <1>4. q * Month \in Nat /\ q * Month = n - m
    BY <1>1, <1>2
  <1> HIDE DEF q, m
  <1> QED BY <1>2, <1>3, <1>4

(* A billing unit is a live instance of a subscription whose agent is in   *)
(* the database.                                                           *)
LEMMA UnitFacts ==
  ASSUME NEW d, Good(d), NEW ended, NEW i \in AgentUnits(d, ended)
  PROVE  /\ i \in Insts /\ d.insts[i].state = "live"
         /\ d.insts[i].from \in Int /\ d.insts[i].from <= today
         /\ Owner(d, d.insts[i].sub) \in Software
  <1>1. d \in Databases
    BY DEF Good
  <1>2. /\ i \in Insts /\ d.insts[i].state = "live"
        /\ Owner(d, d.insts[i].sub) \in d.software /\ d.insts[i].from <= today
    BY DEF AgentUnits
  <1>3. d.insts[i] \in Rows /\ d.software \subseteq Software
    BY <1>1, <1>2 DEF Databases
  <1> QED BY <1>2, <1>3 DEF Rows

(* Unowned charges of current units find their owner; nothing else of a    *)
(* charge changes.                                                         *)
LEMMA AttachOwnerKeeps ==
  ASSUME NEW d, Good(d), NEW ended
  PROVE  LET B == AttachOwner(d, AgentUnits(d, ended)) IN
         /\ B \subseteq Charges /\ Unique(B) /\ OnlyFrozen(d.charges, B)
         /\ \A c \in d.charges : \E f \in B : Later(c, f)
  <1> DEFINE units == AgentUnits(d, ended)
             Hit(c) == /\ c.inst \in units
                       /\ c.start = PeriodStart(d.insts[c.inst].from)
                       /\ c.owner = NoOne
             New(c) == IF Hit(c)
                       THEN [c EXCEPT !.owner = Owner(d, d.insts[c.inst].sub)]
                       ELSE c
             B == AttachOwner(d, units)
  <1>1. B = {New(c) : c \in d.charges}
    BY DEF AttachOwner
  <1>2. d.charges \subseteq Charges /\ Unique(d.charges)
    BY DEF Good, Databases, Ledger
  <1>3. ASSUME NEW c \in d.charges
        PROVE  New(c) \in Charges /\ Later(c, New(c)) /\ New(c).final = c.final
    <2>1. c \in Charges
      BY <1>2
    <2>2. CASE Hit(c)
      <3>1. Owner(d, d.insts[c.inst].sub) \in Software
        BY <2>2, UnitFacts
      <3>2. /\ New(c) = [c EXCEPT !.owner = Owner(d, d.insts[c.inst].sub)]
            /\ c.owner = NoOne
        BY <2>2
      <3> HIDE DEF New
      <3> QED BY <2>1, <3>1, <3>2 DEF Charges, Later, SameKey
    <2>3. CASE ~ Hit(c)
      <3>1. New(c) = c
        BY <2>3
      <3> HIDE DEF New
      <3> QED BY <2>1, <3>1 DEF Later, SameKey
    <2> QED BY <2>2, <2>3
  <1> HIDE DEF New, units
  <1>4. Unique(B)
    <2> SUFFICES ASSUME NEW f \in B, NEW g \in B, SameKey(f, g)
                 PROVE  f = g
      BY DEF Unique
    <2>1. PICK c \in d.charges : f = New(c)
      BY <1>1
    <2>2. PICK e \in d.charges : g = New(e)
      BY <1>1
    <2>3. SameKey(c, e)
      BY <2>1, <2>2, <1>3 DEF Later, SameKey
    <2> QED BY <2>1, <2>2, <2>3, <1>2 DEF Unique
  <1>5. B \subseteq Charges /\ \A c \in d.charges : \E f \in B : Later(c, f)
    BY <1>1, <1>3
  <1>6. OnlyFrozen(d.charges, B)
    BY <1>1, <1>3 DEF OnlyFrozen, Later
  <1> QED BY <1>4, <1>5, <1>6 DEF units

(* The charges of the current period of the units without an end.          *)
RunningFinal(d, ended, B) ==
  \A f \in B : /\ f.inst \in AgentUnits(d, ended) /\ d.insts[f.inst].ends = Never
                /\ f.start = PeriodStart(d.insts[f.inst].from)
               => f.final

(* Current charges are frozen once a rate is known, and the units without  *)
(* a charge of the current period get one.                                 *)
LEMMA StreamKeeps ==
  ASSUME NEW d, Good(d), today \in Nat, NEW ended, NEW rate \in BOOLEAN,
         NEW A \in SUBSET Charges, Unique(A)
  PROVE  LET B == MaterializeStream(d, AgentUnits(d, ended), A, rate) IN
         /\ B \subseteq Charges /\ Unique(B)
         /\ \A c \in A : \E f \in B : Later(c, f)
         /\ rate \/ OnlyFrozen(A, B)
         /\ rate => RunningFinal(d, ended, B)
  <1> DEFINE units == AgentUnits(d, ended)
             billed == {i \in units : \/ d.insts[i].ends = Never
                                      \/ PeriodStart(d.insts[i].from) < d.insts[i].ends}
             Current(c) == c.inst \in billed /\ c.start = PeriodStart(d.insts[c.inst].from)
             known == {c.inst : c \in {c \in A : Current(c)}}
             Old(c) == IF Current(c) THEN [c EXCEPT !.final = @ \/ rate] ELSE c
             New(i) == [inst |-> i, start |-> PeriodStart(d.insts[i].from),
                        owner |-> Owner(d, d.insts[i].sub), final |-> rate]
             B == MaterializeStream(d, units, A, rate)
  <1>1. B = {Old(c) : c \in A} \union {New(i) : i \in billed \ known}
    BY DEF MaterializeStream
  <1>2. ASSUME NEW c \in A
        PROVE  /\ Old(c) \in Charges /\ Later(c, Old(c))
               /\ Old(c).final => c.final \/ rate
               /\ Current(c) /\ rate => Old(c).final
    <2>1. c \in Charges
      OBVIOUS
    <2>2. CASE Current(c)
      <3>1. Old(c) = [c EXCEPT !.final = @ \/ rate]
        BY <2>2
      <3> HIDE DEF Old
      <3>2. Old(c) = [c EXCEPT !.final = c.final \/ rate]
        BY <3>1, <2>1 DEF Charges
      <3>3. (c.final \/ rate) \in BOOLEAN
        BY <2>1 DEF Charges
      <3>4. /\ Old(c) \in Charges /\ Old(c).final = (c.final \/ rate)
            /\ Later(c, Old(c))
        BY <2>1, <3>2, <3>3 DEF Charges, Later, SameKey
      <3> HIDE DEF Current
      <3> QED BY <3>4
    <2>3. CASE ~ Current(c)
      <3>1. Old(c) = c
        BY <2>3
      <3> HIDE DEF Old, Current
      <3> QED BY <2>1, <2>3, <3>1 DEF Later, SameKey
    <2> QED BY <2>2, <2>3
  <1>3. ASSUME NEW i \in billed
        PROVE  /\ New(i) \in Charges /\ New(i).final = rate
               /\ New(i).inst = i /\ New(i).start = PeriodStart(d.insts[i].from)
    <2>1. i \in AgentUnits(d, ended)
      OBVIOUS
    <2>2. /\ i \in Insts /\ d.insts[i].from \in Int
          /\ Owner(d, d.insts[i].sub) \in Software
      BY <2>1, UnitFacts
    <2>3. PeriodStart(d.insts[i].from) \in Int
      BY <2>2, PeriodStartType
    <2> QED BY <2>2, <2>3 DEF Charges
  <1>4. ASSUME NEW c \in A, NEW i \in billed \ known
        PROVE  ~ (c.inst = i /\ c.start = PeriodStart(d.insts[i].from))
    OBVIOUS
  <1>8. \A i \in units : d.insts[i].ends = Never => i \in billed
    OBVIOUS
  <1> HIDE DEF Old, New, known, billed, units, B
  <1>5. Unique(B)
    <2> SUFFICES ASSUME NEW f \in B, NEW g \in B, SameKey(f, g)
                 PROVE  f = g
      BY DEF Unique
    <2>1. CASE f \in {Old(c) : c \in A} /\ g \in {Old(c) : c \in A}
      <3>1. PICK c \in A : f = Old(c)
        BY <2>1
      <3>2. PICK e \in A : g = Old(e)
        BY <2>1
      <3>3. SameKey(c, e)
        BY <3>1, <3>2, <1>2 DEF Later, SameKey
      <3> QED BY <3>1, <3>2, <3>3 DEF Unique
    <2>2. ASSUME NEW c \in A, NEW i \in billed \ known, SameKey(Old(c), New(i))
          PROVE  FALSE
      BY <2>2, <1>2, <1>3, <1>4 DEF Later, SameKey
    <2>3. ASSUME NEW i \in billed, NEW j \in billed, SameKey(New(i), New(j))
          PROVE  New(i) = New(j)
      <3>1. i = j
        BY <2>3, <1>3 DEF SameKey
      <3> QED BY <3>1
    <2>4. SameKey(g, f)
      BY DEF SameKey
    <2> QED BY <1>1, <2>1, <2>2, <2>3, <2>4
  <1>6. B \subseteq Charges
    BY <1>1, <1>2, <1>3
  <1>7. \A c \in A : \E f \in B : Later(c, f)
    BY <1>1, <1>2
  <1>9. rate \/ OnlyFrozen(A, B)
    BY <1>1, <1>2, <1>3 DEF OnlyFrozen, Later
  <1>10. ASSUME rate, NEW f \in B, f.inst \in units, d.insts[f.inst].ends = Never,
                f.start = PeriodStart(d.insts[f.inst].from)
         PROVE  f.final
    <2>1. CASE f \in {New(i) : i \in billed \ known}
      BY <1>3, <1>10, <2>1
    <2>2. CASE f \in {Old(c) : c \in A}
      <3>1. PICK c \in A : f = Old(c)
        BY <2>2
      <3>2. Current(c)
        BY <1>2, <1>8, <1>10, <3>1 DEF Later, SameKey
      <3> HIDE DEF Current
      <3> QED BY <1>2, <1>10, <3>1, <3>2
    <2> QED BY <1>1, <2>1, <2>2
  <1>11. rate => RunningFinal(d, ended, B)
    BY <1>10 DEF RunningFinal, units
  <1> QED BY <1>5, <1>6, <1>7, <1>9, <1>11 DEF B, units

(* Later is transitive.                                                    *)
LEMMA LaterTransitive ==
  ASSUME NEW c, NEW e, NEW f, Later(c, e), Later(e, f)
  PROVE  Later(c, f)
  BY DEF Later, SameKey

(* A later charge that may be exported is exported as the earlier one was. *)
LEMMA LaterExports ==
  ASSUME NEW c, NEW f, Later(c, f), Exportable(c)
  PROVE  Exportable(f) /\ DirectEvent(f) = DirectEvent(c)
  BY DEF Later, SameKey, Exportable, DirectEvent

(* The materializer extends the charges, exports what it froze, and        *)
(* touches nothing else.                                                   *)
LEMMA MaterializedKeeps ==
  ASSUME NEW d, Good(d), today \in Nat, NEW ended, NEW rate \in BOOLEAN,
         rate => fx \/ fx'
  PROVE  LET e == Materialized(d, rate, ended) IN
         /\ Good(e) /\ Extends(d, e)
         /\ rate => RunningFinal(d, ended, e.charges)
         /\ e.software = d.software /\ e.subs = d.subs /\ e.insts = d.insts
         /\ e.bindings = d.bindings
  <1> DEFINE A == AttachOwner(d, AgentUnits(d, ended))
             B == MaterializeStream(d, AgentUnits(d, ended), A, rate)
             e == Materialized(d, rate, ended)
  <1>1. /\ A \in SUBSET Charges /\ Unique(A)
        /\ \A c \in d.charges : \E f \in A : Later(c, f)
        /\ OnlyFrozen(d.charges, A)
    BY AttachOwnerKeeps
  <1>2. /\ B \subseteq Charges /\ Unique(B)
        /\ \A c \in A : \E f \in B : Later(c, f)
        /\ rate \/ OnlyFrozen(A, B)
        /\ rate => RunningFinal(d, ended, B)
    <2> HIDE DEF A
    <2> QED BY <1>1, StreamKeeps
  <1>3. e = [d EXCEPT !.charges = B, !.events = @ \cup ExportEvents(B)]
    BY DEF Materialized
  <1> HIDE DEF A, B, e
  <1>4. \A c \in d.charges : \E f \in B : Later(c, f)
    BY <1>1, <1>2, LaterTransitive
  <1>5. d \in Databases /\ InstsOwned(d) /\ Ledger(d) /\ Bound(d, today)
    BY DEF Good
  <1>6. /\ e = [software |-> d.software, subs |-> d.subs, insts |-> d.insts,
                bindings |-> d.bindings, charges |-> B,
                events |-> d.events \cup ExportEvents(B)]
    BY <1>3, <1>5 DEF Databases
  <1>7. ExportEvents(B) = {DirectEvent(c) : c \in {f \in B : Exportable(f)}}
    BY DEF ExportEvents, Exportable
  <1>8. ExportEvents(B) \subseteq Sent
    <2> SUFFICES ASSUME NEW c \in B, Exportable(c) PROVE DirectEvent(c) \in Sent
      BY <1>7
    <2>1. c \in Charges
      BY <1>2
    <2> QED BY <2>1 DEF Exportable, DirectEvent, Charges, Sent
  <1>9. e \in Databases
    BY <1>2, <1>5, <1>6, <1>8 DEF Databases
  <1>10. Ledger(e)
    <2>1. e.charges = B /\ e.events = d.events \cup ExportEvents(B)
      BY <1>6
    <2>2. AllSent(e)
      BY <2>1, <1>7 DEF AllSent
    <2>3. OnlySent(e)
      <3> SUFFICES ASSUME NEW v \in d.events \cup ExportEvents(B)
                   PROVE  \E c \in B : Exportable(c) /\ v = DirectEvent(c)
        BY <2>1 DEF OnlySent
      <3>1. CASE v \in ExportEvents(B)
        BY <3>1, <1>7
      <3>2. CASE v \in d.events
        <4>1. PICK c \in d.charges : Exportable(c) /\ v = DirectEvent(c)
          BY <3>2, <1>5 DEF Ledger, OnlySent
        <4>2. PICK f \in B : Later(c, f)
          BY <1>4
        <4> QED BY <4>1, <4>2, LaterExports
      <3> QED BY <3>1, <3>2
    <2> QED BY <2>1, <2>2, <2>3, <1>2 DEF Ledger
  <1>11. Extends(d, e)
    <2>1. rate \/ OnlyFrozen(d.charges, B)
      BY <1>1, <1>2 DEF OnlyFrozen, SameKey
    <2> QED BY <1>4, <1>6, <2>1 DEF Extends
  <1>12. InstsOwned(e) /\ Bound(e, today)
    BY <1>5, <1>6 DEF InstsOwned, Bound
  <1>13. Good(e)
    BY <1>9, <1>10, <1>12 DEF Good
  <1> QED BY <1>2, <1>6, <1>11, <1>13 DEF e
-----------------------------------------------------------------------------
(* Changes to the live rows.  None touches a charge or an event.           *)

LEMMA ExtendsReflexive ==
  ASSUME NEW d, NEW e, e.charges = d.charges, e.events = d.events
  PROVE  Extends(d, e)
  BY DEF Extends, OnlyFrozen, Later, SameKey

LEMMA ExtendsTransitive ==
  ASSUME NEW d, NEW e, NEW f, Extends(d, e), Extends(e, f)
  PROVE  Extends(d, f)
  <1>1. \A c \in d.charges : \E g \in f.charges : Later(c, g)
    BY LaterTransitive DEF Extends
  <1>2. fx \/ fx' \/ OnlyFrozen(d.charges, f.charges)
    BY DEF Extends, OnlyFrozen, SameKey
  <1> QED BY <1>1, <1>2 DEF Extends

(* A database that differs in its live rows only.                          *)
LEMMA RowsChange ==
  ASSUME NEW d, Good(d), NEW e \in Databases,
         e.charges = d.charges, e.events = d.events,
         InstsOwned(e), Bound(e, today)
  PROVE  Good(e) /\ Extends(d, e)
  <1>1. Ledger(e)
    BY DEF Good, Ledger, AllSent, OnlySent
  <1> QED BY <1>1, ExtendsReflexive DEF Good

(* A database that differs in its instances only.                          *)
LEMMA InstsChange ==
  ASSUME NEW d, Good(d), NEW X \in [Insts -> Rows],
         \A i \in Insts : Owned(X[i])
  PROVE  LET e == [d EXCEPT !.insts = X] IN
         /\ Good(e) /\ Extends(d, e) /\ e.insts = X /\ e.subs = d.subs
         /\ e.software = d.software /\ e.bindings = d.bindings
         /\ e.charges = d.charges
  <1> DEFINE e == [d EXCEPT !.insts = X]
  <1>1. d \in Databases /\ Bound(d, today)
    BY DEF Good
  <1>2. e = [software |-> d.software, subs |-> d.subs, insts |-> X,
             bindings |-> d.bindings, charges |-> d.charges,
             events |-> d.events]
    BY <1>1 DEF Databases
  <1> HIDE DEF e
  <1>3. e \in Databases
    BY <1>1, <1>2 DEF Databases
  <1>4. InstsOwned(e) /\ Bound(e, today)
    BY <1>1, <1>2 DEF InstsOwned, Bound
  <1>5. Good(e) /\ Extends(d, e)
    BY <1>2, <1>3, <1>4, RowsChange
  <1> QED BY <1>2, <1>5 DEF e

(* A database that differs in its subscriptions only.                      *)
LEMMA SubsChange ==
  ASSUME NEW d, Good(d), NEW X \in [Subs -> Rows]
  PROVE  LET e == [d EXCEPT !.subs = X] IN
         /\ Good(e) /\ Extends(d, e) /\ e.insts = d.insts /\ e.subs = X
         /\ e.software = d.software /\ e.bindings = d.bindings
         /\ e.charges = d.charges
  <1> DEFINE e == [d EXCEPT !.subs = X]
  <1>1. d \in Databases /\ Bound(d, today) /\ InstsOwned(d)
    BY DEF Good
  <1>2. e = [software |-> d.software, subs |-> X, insts |-> d.insts,
             bindings |-> d.bindings, charges |-> d.charges,
             events |-> d.events]
    BY <1>1 DEF Databases
  <1> HIDE DEF e
  <1>3. e \in Databases
    BY <1>1, <1>2 DEF Databases
  <1>4. InstsOwned(e) /\ Bound(e, today)
    BY <1>1, <1>2 DEF InstsOwned, Bound
  <1>5. Good(e) /\ Extends(d, e)
    BY <1>2, <1>3, <1>4, RowsChange
  <1> QED BY <1>2, <1>5 DEF e

(* A database that differs in its agents only.                             *)
LEMMA SoftwareChange ==
  ASSUME NEW d, Good(d), NEW S \in SUBSET Software
  PROVE  LET e == [d EXCEPT !.software = S] IN
         /\ Good(e) /\ Extends(d, e) /\ e.insts = d.insts /\ e.subs = d.subs
         /\ e.software = S /\ e.bindings = d.bindings /\ e.charges = d.charges
  <1> DEFINE e == [d EXCEPT !.software = S]
  <1>1. d \in Databases /\ InstsOwned(d) /\ Bound(d, today)
    BY DEF Good
  <1>2. e = [software |-> S, subs |-> d.subs, insts |-> d.insts,
             bindings |-> d.bindings, charges |-> d.charges,
             events |-> d.events]
    BY <1>1 DEF Databases
  <1> HIDE DEF e
  <1>3. e \in Databases
    BY <1>1, <1>2 DEF Databases
  <1>4. InstsOwned(e) /\ Bound(e, today)
    BY <1>1, <1>2 DEF InstsOwned, Bound
  <1>5. Good(e) /\ Extends(d, e)
    BY <1>2, <1>3, <1>4, RowsChange
  <1> QED BY <1>2, <1>5 DEF e

(* A set of bindings that keeps the agents apart.                          *)
AllApart(X, t) ==
  /\ \A b \in X : b.from <= t
  /\ \A b, c \in X : b.sub = c.sub /\ b.soft # c.soft => Apart(b, c)

(* A database that differs in its bindings only.                           *)
LEMMA BindingsChange ==
  ASSUME NEW d, Good(d), NEW X \in SUBSET Bindings, AllApart(X, today)
  PROVE  LET e == [d EXCEPT !.bindings = X] IN
         /\ Good(e) /\ Extends(d, e) /\ e.insts = d.insts /\ e.subs = d.subs
         /\ e.software = d.software /\ e.bindings = X /\ e.charges = d.charges
  <1> DEFINE e == [d EXCEPT !.bindings = X]
  <1>1. d \in Databases /\ InstsOwned(d)
    BY DEF Good
  <1>2. e = [software |-> d.software, subs |-> d.subs, insts |-> d.insts,
             bindings |-> X, charges |-> d.charges, events |-> d.events]
    BY <1>1 DEF Databases
  <1> HIDE DEF e
  <1>3. e \in Databases
    BY <1>1, <1>2 DEF Databases
  <1>4. InstsOwned(e) /\ Bound(e, today)
    BY <1>1, <1>2 DEF InstsOwned, Bound, AllApart
  <1>5. Good(e) /\ Extends(d, e)
    BY <1>2, <1>3, <1>4, RowsChange
  <1> QED BY <1>2, <1>5 DEF e

(* The rows an insertion writes.                                           *)
LEMMA RowType ==
  ASSUME NEW state \in {"new", "live", "gone"}
  PROVE  Row(state) \in Rows /\ Row(state).state = state
  BY DEF Row, Rows, Never

(* A row that neither goes nor gets another end.                           *)
SameEnd(d, e, i) == /\ e.insts[i].state = d.insts[i].state
                    /\ e.insts[i].ends = d.insts[i].ends

LEMMA UpdateInstanceKeeps ==
  ASSUME NEW d, Good(d), NEW i \in Insts, NEW from \in Nat
  PROVE  LET e == UpdateInstanceRow(d, i, from) IN
         Good(e) /\ Extends(d, e) /\ \A j \in Insts : SameEnd(d, e, j)
  <1> DEFINE X == [d.insts EXCEPT ![i] = [d.insts[i] EXCEPT !.from = from]]
  <1>1. d \in Databases /\ InstsOwned(d)
    BY DEF Good
  <1>2. d.insts \in [Insts -> Rows]
    BY <1>1 DEF Databases
  <1>3. [d.insts[i] EXCEPT !.from = from] \in Rows
    BY <1>2 DEF Rows
  <1>4. /\ [d.insts[i] EXCEPT !.from = from].state = d.insts[i].state
        /\ [d.insts[i] EXCEPT !.from = from].sub = d.insts[i].sub
        /\ [d.insts[i] EXCEPT !.from = from].ends = d.insts[i].ends
        /\ [d.insts[i] EXCEPT !.from = from].from = from
    BY <1>2 DEF Rows
  <1>5. X \in [Insts -> Rows]
    BY <1>2, <1>3
  <1>6. \A j \in Insts : Owned(X[j]) /\ X[j].state = d.insts[j].state
                          /\ X[j].ends = d.insts[j].ends
    BY <1>1, <1>2, <1>4 DEF InstsOwned, Owned
  <1>7. UpdateInstanceRow(d, i, from) = [d EXCEPT !.insts = X]
    BY DEF UpdateInstanceRow
  <1> HIDE DEF X
  <1> QED BY <1>5, <1>6, <1>7, InstsChange DEF SameEnd

LEMMA InsertInstanceKeeps ==
  ASSUME NEW d, Good(d), NEW s \in Subs, NEW i \in Insts, NEW from \in Nat
  PROVE  LET e == InsertInstance(d, s, i, from) IN
         Good(e) /\ Extends(d, e) /\ \A j \in Insts : j # i => SameEnd(d, e, j)
  <1> DEFINE R == [Row("live") EXCEPT !.sub = s, !.from = from]
             X == [d.insts EXCEPT ![i] = R]
  <1>1. d.insts \in [Insts -> Rows] /\ InstsOwned(d)
    BY DEF Good, Databases
  <1>2. R \in Rows /\ R.sub = s /\ R.from = from
    <2>1. R = [state |-> "live", sub |-> s, from |-> from, ends |-> Never]
      <3>1. R = [[Row("live") EXCEPT !.sub = s] EXCEPT !.from = from]
        OBVIOUS
      <3> HIDE DEF R
      <3>2. [Row("live") EXCEPT !.sub = s] =
              [state |-> "live", sub |-> s, from |-> Never, ends |-> Never]
        BY DEF Row
      <3> QED BY <3>1, <3>2
    <2> HIDE DEF R
    <2> QED BY <2>1 DEF Rows, Never
  <1>3. InsertInstance(d, s, i, from) = [d EXCEPT !.insts = X]
    BY DEF InsertInstance
  <1> HIDE DEF R
  <1>4. X \in [Insts -> Rows]
    BY <1>1, <1>2
  <1>5. \A j \in Insts : Owned(X[j]) /\ (j # i => X[j] = d.insts[j])
    BY <1>1, <1>2 DEF InstsOwned, Owned
  <1> HIDE DEF X
  <1> QED BY <1>3, <1>4, <1>5, InstsChange DEF SameEnd

LEMMA PurgeInstancesKeeps ==
  ASSUME NEW d, Good(d), NEW insts
  PROVE  LET e == PurgeInstances(d, insts) IN
         /\ Good(e) /\ Extends(d, e) /\ e.subs = d.subs
         /\ e.software = d.software /\ e.bindings = d.bindings
         /\ e.charges = d.charges
         /\ \A i \in Insts : i \notin insts => SameEnd(d, e, i)
  <1> DEFINE X == [i \in Insts |-> IF i \in insts THEN Row("gone") ELSE d.insts[i]]
  <1>1. d \in Databases /\ d.insts \in [Insts -> Rows] /\ InstsOwned(d)
    BY DEF Good, Databases
  <1>2. X \in [Insts -> Rows]
    BY <1>1, RowType
  <1>3. \A j \in Insts : Owned(X[j]) /\ (j \notin insts => X[j] = d.insts[j])
    BY <1>1, RowType DEF InstsOwned, Owned
  <1>4. PurgeInstances(d, insts) = [d EXCEPT !.insts = X]
    BY <1>1 DEF PurgeInstances, Databases
  <1> HIDE DEF X
  <1> QED BY <1>2, <1>3, <1>4, InstsChange DEF SameEnd

LEMMA EndInstancesKeeps ==
  ASSUME NEW d, Good(d), today \in Nat, NEW insts
  PROVE  LET e == EndInstances(d, insts) IN
         /\ Good(e) /\ Extends(d, e) /\ e.subs = d.subs
         /\ e.software = d.software /\ e.bindings = d.bindings
         /\ e.charges = d.charges
         /\ \A i \in Insts : i \in insts =>
              e.insts[i].ends = SubscriptionEnd(d.insts[i].from)
         /\ \A i \in Insts : SubscriptionEnd(d.insts[i].from) \in Int
         /\ \A i \in Insts : i \notin insts => SameEnd(d, e, i)
  <1> DEFINE E(i) == [d.insts[i] EXCEPT !.ends = SubscriptionEnd(d.insts[i].from)]
             X == [i \in Insts |-> IF i \in insts THEN E(i) ELSE d.insts[i]]
  <1>1. d \in Databases /\ d.insts \in [Insts -> Rows] /\ InstsOwned(d)
    BY DEF Good, Databases
  <1>2. ASSUME NEW i \in Insts
        PROVE  /\ SubscriptionEnd(d.insts[i].from) \in Int
               /\ E(i) \in Rows /\ E(i).state = d.insts[i].state
               /\ E(i).sub = d.insts[i].sub /\ E(i).from = d.insts[i].from
               /\ E(i).ends = SubscriptionEnd(d.insts[i].from)
    <2>1. d.insts[i] \in Rows /\ d.insts[i].from \in Int
      BY <1>1 DEF Rows
    <2>2. PeriodStart(d.insts[i].from) + Month \in Int
      BY <2>1, PeriodStartType, MonthAssumption
    <2>3. SubscriptionEnd(d.insts[i].from) \in Int
      BY <2>2 DEF SubscriptionEnd
    <2> QED BY <2>1, <2>3 DEF Rows
  <1>3. EndInstances(d, insts) = [d EXCEPT !.insts = X]
    BY <1>1 DEF EndInstances, Databases
  <1> HIDE DEF E
  <1>4. X \in [Insts -> Rows]
    BY <1>1, <1>2
  <1>5. \A j \in Insts : Owned(X[j]) /\ (j \notin insts => X[j] = d.insts[j])
    BY <1>1, <1>2 DEF InstsOwned, Owned
  <1>6. \A i \in Insts : i \in insts =>
          X[i].ends = SubscriptionEnd(d.insts[i].from)
    BY <1>2
  <1> HIDE DEF X
  <1> QED BY <1>2, <1>3, <1>4, <1>5, <1>6, InstsChange DEF SameEnd

LEMMA RemoveInstancesKeeps ==
  ASSUME NEW d, Good(d), today \in Nat, NEW insts
  PROVE  LET e == RemoveInstances(d, insts) IN
         /\ Good(e) /\ Extends(d, e) /\ e.charges = d.charges
         /\ \A i \in Insts : i \notin insts => SameEnd(d, e, i)
  BY PurgeInstancesKeeps, EndInstancesKeeps DEF RemoveInstances
-----------------------------------------------------------------------------
(* Bindings.                                                               *)

(* Some of the bindings.                                                   *)
LEMMA FewerBindings ==
  ASSUME NEW d, Good(d), NEW X \in SUBSET d.bindings
  PROVE  X \in SUBSET Bindings /\ AllApart(X, today)
  BY DEF Good, Databases, Bound, AllApart

(* Ended bindings shrink, and those that were hit reach no further than    *)
(* yesterday.                                                              *)
LEMMA EndShrinks ==
  ASSUME today \in Nat, NEW b \in Bindings, b.from <= today, NEW hit,
         NEW f, f = IF b \in hit /\ EffectiveOn(b, today)
                    THEN [b EXCEPT !.ends = today] ELSE b
  PROVE  /\ f \in Bindings /\ f.sub = b.sub /\ f.soft = b.soft
         /\ f.from = b.from
         /\ \A day \in Nat : EffectiveOn(f, day) => EffectiveOn(b, day)
         /\ b \in hit => \A day \in Nat : EffectiveOn(f, day) => day < today
  <1>1. b.from \in Nat /\ b.ends \in Int
    BY DEF Bindings
  <1>2. CASE b \in hit /\ EffectiveOn(b, today)
    <2>1. /\ f \in Bindings /\ f.sub = b.sub /\ f.soft = b.soft
          /\ f.from = b.from /\ f.ends = today
      BY <1>2 DEF Bindings
    <2>2. b.ends = Never \/ b.ends > today
      BY <1>2 DEF EffectiveOn, After
    <2>3. ASSUME NEW day \in Nat, EffectiveOn(f, day)
          PROVE  EffectiveOn(b, day) /\ day < today
      BY <2>1, <2>2, <2>3, <1>1 DEF EffectiveOn, After, Never
    <2> QED BY <2>1, <2>3
  <1>3. CASE ~ (b \in hit /\ EffectiveOn(b, today))
    <2>1. f = b
      BY <1>3
    <2>2. ASSUME b \in hit, NEW day \in Nat, EffectiveOn(b, day)
          PROVE  day < today
      BY <1>1, <1>3, <2>2 DEF EffectiveOn, After, Never
    <2> QED BY <2>1, <2>2
  <1> QED BY <1>2, <1>3

(* An agent takes its subscriptions from whoever had them, as of today.    *)
LEMMA ReplaceBindingsKeeps ==
  ASSUME NEW d, Good(d), today \in Nat, NEW a \in Software,
         NEW subs \in SUBSET Subs
  PROVE  LET e == ReplaceBindings(d, a, subs) IN
         Good(e) /\ Extends(d, e) /\ e.insts = d.insts
  <1> DEFINE dropped == {b \in d.bindings : b.soft = a /\ b.sub \notin subs}
             taken == {b \in d.bindings : b.soft # a /\ b.sub \in subs}
             hit == dropped \cup taken
             Cut(b) == IF b \in hit /\ EffectiveOn(b, today)
                       THEN [b EXCEPT !.ends = today] ELSE b
             kept == {Cut(b) : b \in d.bindings}
             mine == {[sub |-> s, soft |-> a, from |-> today, ends |-> Never]
                        : s \in subs}
             Replaced(b) == \E m \in mine :
                              b.sub = m.sub /\ b.soft = a /\ b.from = today
             X == {b \in kept : ~Replaced(b)} \cup mine
  <1>1. ReplaceBindings(d, a, subs) = [d EXCEPT !.bindings = X]
    BY DEF ReplaceBindings, End
  <1>2. /\ d.bindings \subseteq Bindings
        /\ \A b \in d.bindings : b.from <= today
        /\ \A b, c \in d.bindings :
             b.sub = c.sub /\ b.soft # c.soft => Apart(b, c)
    BY DEF Good, Databases, Bound
  <1>3. ASSUME NEW b \in d.bindings
        PROVE  /\ Cut(b) \in Bindings /\ Cut(b).sub = b.sub
               /\ Cut(b).soft = b.soft /\ Cut(b).from = b.from
               /\ \A day \in Nat : EffectiveOn(Cut(b), day) => EffectiveOn(b, day)
               /\ b \in hit =>
                    \A day \in Nat : EffectiveOn(Cut(b), day) => day < today
    <2>1. b \in Bindings /\ b.from <= today
      BY <1>2
    <2> HIDE DEF hit
    <2> QED BY <2>1, EndShrinks
  <1>4. ASSUME NEW m \in mine
        PROVE  /\ m \in Bindings /\ m.sub \in subs /\ m.soft = a
               /\ m.from = today
               /\ \A day \in Nat : EffectiveOn(m, day) => ~ (day < today)
    <2>1. PICK s \in subs :
            m = [sub |-> s, soft |-> a, from |-> today, ends |-> Never]
      OBVIOUS
    <2>2. s \in Subs
      OBVIOUS
    <2> HIDE DEF mine
    <2> QED BY <2>1, <2>2 DEF Bindings, Never, EffectiveOn
  <1>5. \A b \in d.bindings : b.soft # a /\ b.sub \in subs => b \in hit
    OBVIOUS
  <1>6. X \subseteq kept \cup mine
    OBVIOUS
  <1> HIDE DEF Cut, mine, X, hit
  <1>7. X \in SUBSET Bindings
    BY <1>3, <1>4, <1>6
  <1>8. AllApart(X, today)
    <2>1. \A f \in X : f.from <= today
      BY <1>2, <1>3, <1>4, <1>6
    <2>2. ASSUME NEW b \in d.bindings, NEW c \in d.bindings,
                 Cut(b).sub = Cut(c).sub, Cut(b).soft # Cut(c).soft
          PROVE  Apart(Cut(b), Cut(c))
      <3>1. Apart(b, c)
        BY <2>2, <1>2, <1>3
      <3> QED BY <3>1, <1>3 DEF Apart
    <2>3. ASSUME NEW b \in d.bindings, NEW m \in mine,
                 Cut(b).sub = m.sub, Cut(b).soft # m.soft
          PROVE  Apart(Cut(b), m) /\ Apart(m, Cut(b))
      <3>1. b \in hit
        BY <2>3, <1>3, <1>4, <1>5
      <3> QED BY <3>1, <1>3, <1>4 DEF Apart
    <2>4. \A m, n \in mine : m.soft = n.soft
      BY <1>4
    <2> SUFFICES ASSUME NEW f \in X, NEW g \in X, f.sub = g.sub, f.soft # g.soft
                 PROVE  Apart(f, g)
      BY <2>1 DEF AllApart
    <2> QED BY <1>6, <2>2, <2>3, <2>4
  <1>9. /\ Good([d EXCEPT !.bindings = X]) /\ Extends(d, [d EXCEPT !.bindings = X])
        /\ [d EXCEPT !.bindings = X].insts = d.insts
    BY <1>7, <1>8, BindingsChange
  <1> QED BY <1>1, <1>9

(* The open bindings of a subscription, ended on another day.              *)
MoveEnds(d, s, end) ==
    {IF b.sub = s /\ After(b.ends, today) THEN [b EXCEPT !.ends = end] ELSE b
        : b \in d.bindings}

(* The agent that has a subscription keeps it until a given day: at most   *)
(* one binding of it is open, so giving it another end crosses no other.   *)
LEMMA MoveEndApart ==
  ASSUME NEW d, Good(d), today \in Nat, NEW s, NEW end \in Int
  PROVE  /\ MoveEnds(d, s, end) \in SUBSET Bindings
         /\ AllApart(MoveEnds(d, s, end), today)
  <1> DEFINE Open(b) == b.sub = s /\ After(b.ends, today)
             Moved(b) == IF b.sub = s /\ After(b.ends, today)
                         THEN [b EXCEPT !.ends = end] ELSE b
             X == {Moved(b) : b \in d.bindings}
  <1>1. /\ d.bindings \subseteq Bindings
        /\ \A b \in d.bindings : b.from <= today
        /\ \A b, c \in d.bindings :
             b.sub = c.sub /\ b.soft # c.soft => Apart(b, c)
    BY DEF Good, Databases, Bound
  <1>2. ASSUME NEW b \in d.bindings
        PROVE  /\ Moved(b) \in Bindings /\ Moved(b).sub = b.sub
               /\ Moved(b).soft = b.soft /\ Moved(b).from = b.from
               /\ ~ Open(b) => Moved(b) = b
    <2>1. b \in Bindings
      BY <1>1
    <2> QED BY <2>1 DEF Bindings
  <1>3. ASSUME NEW b \in d.bindings, Open(b)
        PROVE  /\ EffectiveOn(b, today)
               /\ \A day \in Nat : EffectiveOn(Moved(b), day) /\ day < today
                                     => EffectiveOn(b, day)
    <2>1. /\ b.from \in Nat /\ b.ends \in Int /\ b.from <= today
          /\ (b.ends = Never \/ b.ends > today) /\ Moved(b).from = b.from
      BY <1>1, <1>2, <1>3 DEF Bindings, After
    <2> HIDE DEF Moved
    <2>2. ASSUME NEW day \in Nat, EffectiveOn(Moved(b), day), day < today
          PROVE  EffectiveOn(b, day)
      BY <2>1, <2>2 DEF EffectiveOn, After
    <2> QED BY <2>1, <2>2 DEF EffectiveOn, After
  <1>4. ASSUME NEW b \in d.bindings, b.sub = s, ~ Open(b),
               NEW day \in Nat, EffectiveOn(b, day)
        PROVE  day < today
    <2>1. b.ends \in Int /\ b.ends # Never /\ ~ (b.ends > today)
      BY <1>1, <1>4 DEF Bindings, After
    <2> QED BY <2>1, <1>4 DEF EffectiveOn, After
  <1>5. \A b \in d.bindings : Open(b) => b.sub = s
    OBVIOUS
  <1> HIDE DEF Moved, Open
  <1>6. ASSUME NEW b \in d.bindings, NEW c \in d.bindings,
               b.sub = c.sub, b.soft # c.soft
        PROVE  Apart(Moved(b), Moved(c))
    <2>1. \A day \in Nat : ~ (EffectiveOn(b, day) /\ EffectiveOn(c, day))
      BY <1>6, <1>1 DEF Apart
    <2>2. CASE Open(b) /\ Open(c)
      BY <2>1, <2>2, <1>3
    <2>3. CASE ~ Open(b) /\ ~ Open(c)
      BY <2>1, <2>3, <1>2 DEF Apart
    <2>4. CASE Open(b) /\ ~ Open(c)
      <3>1. Moved(c) = c /\ c.sub = s
        BY <2>4, <1>2, <1>5, <1>6
      <3> QED BY <2>1, <2>4, <3>1, <1>3, <1>4 DEF Apart
    <2>5. CASE ~ Open(b) /\ Open(c)
      <3>1. Moved(b) = b /\ b.sub = s
        BY <2>5, <1>2, <1>5, <1>6
      <3> QED BY <2>1, <2>5, <3>1, <1>3, <1>4 DEF Apart
    <2> QED BY <2>2, <2>3, <2>4, <2>5
  <1>7. X \in SUBSET Bindings
    BY <1>2
  <1>8. AllApart(X, today)
    <2>1. \A f \in X : f.from <= today
      BY <1>1, <1>2
    <2>2. \A f, g \in X : f.sub = g.sub /\ f.soft # g.soft => Apart(f, g)
      BY <1>2, <1>6
    <2> HIDE DEF X
    <2> QED BY <2>1, <2>2 DEF AllApart
  <1>9. X = MoveEnds(d, s, end)
    BY DEF Moved, MoveEnds
  <1> HIDE DEF X
  <1> QED BY <1>7, <1>8, <1>9

(* A finite, non-empty set of integers has a greatest element.             *)
LEMMA GreatestInteger ==
  ASSUME NEW S \in SUBSET Int, IsFiniteSet(S), S # {}
  PROVE  \E x \in S : \A y \in S : y <= x
  <1> DEFINE Above(x) == {y \in S : y > x}
             T == {Above(x) : x \in S}
             R == StrictSubsetOrdering(S)
  <1>1. T \subseteq FiniteSubsetsOf(S) /\ T # {}
    <2>1. ASSUME NEW x \in S
          PROVE  Above(x) \in FiniteSubsetsOf(S)
      <3>1. Above(x) \in SUBSET S
        OBVIOUS
      <3> HIDE DEF Above
      <3> QED BY <3>1, FS_Subset DEF FiniteSubsetsOf
    <2> HIDE DEF Above
    <2> QED BY <2>1
  <1>2. PICK U \in T : \A V \in T : ~ (<<V, U>> \in R)
    <2> HIDE DEF T
    <2> QED BY <1>1, FS_StrictSubsetOrderingWellFounded, WFMin
  <1>3. PICK x \in S : U = Above(x)
    OBVIOUS
  <1>4. ASSUME NEW z \in S, ~ (z <= x)
        PROVE  FALSE
    <2>1. x \in Int /\ z \in Int /\ z > x
      BY <1>4
    <2>2. z \in Above(x) /\ z \notin Above(z)
      BY <2>1
    <2>3. Above(z) \subseteq Above(x)
      <3> SUFFICES ASSUME NEW y \in S, y > z PROVE y > x
        OBVIOUS
      <3>1. y \in Int
        OBVIOUS
      <3> QED BY <2>1, <3>1
    <2>4. <<Above(z), Above(x)>> \in R
      BY <2>2, <2>3 DEF StrictSubsetOrdering
    <2> QED BY <2>4, <1>2, <1>3
  <1> QED BY <1>4

(* Purged subscriptions take their instances and bindings with them.       *)
LEMMA PurgeSubscriptionsKeeps ==
  ASSUME NEW d, Good(d), NEW subs
  PROVE  LET e == PurgeSubscriptions(d, subs) IN
         /\ Good(e) /\ Extends(d, e) /\ e.charges = d.charges
         /\ \A i \in Insts : d.insts[i].sub \notin subs => SameEnd(d, e, i)
  <1> DEFINE rest == PurgeInstances(d, {i \in Insts : d.insts[i].sub \in subs})
             S == [s \in Subs |-> IF s \in subs THEN Row("gone") ELSE rest.subs[s]]
             f == [rest EXCEPT !.subs = S]
             X == {b \in rest.bindings : b.sub \notin subs}
             e == PurgeSubscriptions(d, subs)
  <1>1. /\ Good(rest) /\ Extends(d, rest) /\ rest.charges = d.charges
        /\ \A i \in Insts : d.insts[i].sub \notin subs => SameEnd(d, rest, i)
    BY PurgeInstancesKeeps
  <1> HIDE DEF rest
  <1>2. rest \in Databases /\ rest.subs \in [Subs -> Rows]
    BY <1>1 DEF Good, Databases
  <1>3. S \in [Subs -> Rows]
    BY <1>2, RowType
  <1>4. e = [f EXCEPT !.bindings = X]
    <2>1. e = [rest EXCEPT
                !.subs = [s \in Subs |-> IF s \in subs THEN Row("gone") ELSE @[s]],
                !.bindings = {b \in @ : b.sub \notin subs}]
      BY DEF PurgeSubscriptions, rest
    <2> HIDE DEF e
    <2> QED BY <2>1, <1>2 DEF Databases
  <1>5. /\ Good(f) /\ Extends(rest, f) /\ f.bindings = rest.bindings
        /\ f.charges = rest.charges /\ f.insts = rest.insts
    <2> HIDE DEF S
    <2> QED BY <1>1, <1>3, SubsChange
  <1>6. X \in SUBSET f.bindings
    BY <1>5
  <1> HIDE DEF e, f, X
  <1>7. Good(e) /\ Extends(f, e) /\ e.charges = f.charges /\ e.insts = f.insts
    BY <1>4, <1>5, <1>6, FewerBindings, BindingsChange
  <1> QED BY <1>1, <1>5, <1>7, ExtendsTransitive DEF e, SameEnd
-----------------------------------------------------------------------------
(* The operations.  Each leads from a good database to a good one that     *)
(* extends it.                                                             *)

Leads(d, e) == Good(e) /\ Extends(d, e)

LEMMA LeadsOn ==
  ASSUME NEW d, NEW e, NEW f, Leads(d, e), Leads(e, f)
  PROVE  Leads(d, f)
  BY ExtendsTransitive DEF Leads

LEMMA MaterializedLeads ==
  ASSUME NEW d, Good(d), Types, NEW ended
  PROVE  Leads(d, Materialized(d, fx, ended)) /\ Materialized(d, fx, ended).insts = d.insts
  BY MaterializedKeeps DEF Leads, Types

(* No instance goes or gets an end, unless the deletion found the running  *)
(* period of its subscription charged and frozen, and built on that.       *)
Ensured(s) == LET d == Materialized(db, fx, FALSE) IN EnsureCharge(d, s) /\ Leads(d, db')
Careful == \A i \in Insts : db.insts[i].state = "live" /\ db.insts[i].ends = Never
             => SameEnd(db, db', i) \/ Ensured(db.insts[i].sub)

LEMMA CreateSoftwareLeads ==
  ASSUME SubsInv, NEW a \in Software, NEW subs \in SUBSET Subs,
         CreateSoftware(a, subs)
  PROVE  Leads(db, db') /\ Careful
  <1> DEFINE d == [db EXCEPT !.software = @ \cup {a}]
             e == ReplaceBindings(d, a, subs)
  <1>1. Good(db) /\ Types /\ db.software \in SUBSET Software
    BY DEF SubsInv, Good, Databases
  <1>2. d = [db EXCEPT !.software = db.software \cup {a}]
    BY <1>1 DEF Good, Databases
  <1>3. Leads(db, d) /\ d.insts = db.insts
    <2>1. db.software \cup {a} \in SUBSET Software
      BY <1>1
    <2> QED BY <1>1, <1>2, <2>1, SoftwareChange DEF Leads
  <1>4. db' = Materialized(e, fx, FALSE)
    BY DEF CreateSoftware
  <1> HIDE DEF d, e
  <1>5. Leads(d, e) /\ e.insts = d.insts
    BY <1>1, <1>3, ReplaceBindingsKeeps DEF Leads, Types, e
  <1>6. Leads(e, db') /\ db'.insts = e.insts
    BY <1>1, <1>4, <1>5, MaterializedLeads DEF Leads
  <1>7. Careful
    BY <1>3, <1>5, <1>6 DEF Careful, SameEnd
  <1> QED BY <1>3, <1>5, <1>6, <1>7, LeadsOn

LEMMA UpdateSoftwareLeads ==
  ASSUME SubsInv, NEW a \in Software, NEW subs \in SUBSET Subs,
         UpdateSoftware(a, subs)
  PROVE  Leads(db, db') /\ Careful
  <1> DEFINE e == ReplaceBindings(db, a, subs)
  <1>1. Good(db) /\ Types
    BY DEF SubsInv
  <1>2. db' = Materialized(e, fx, FALSE)
    BY DEF UpdateSoftware
  <1>3. Leads(db, e) /\ e.insts = db.insts
    BY <1>1, ReplaceBindingsKeeps DEF Leads, Types
  <1> HIDE DEF e
  <1>4. Leads(e, db') /\ db'.insts = e.insts
    BY <1>1, <1>2, <1>3, MaterializedLeads DEF Leads
  <1>5. Careful
    BY <1>3, <1>4 DEF Careful, SameEnd
  <1> QED BY <1>3, <1>4, <1>5, LeadsOn

LEMMA DeleteSoftwareLeads ==
  ASSUME SubsInv, NEW a \in Software, DeleteSoftware(a)
  PROVE  Leads(db, db') /\ Careful
  <1> DEFINE d == Materialized(db, fx, FALSE)
             e == [d EXCEPT !.software = d.software \ {a}]
             X == {b \in d.bindings : b.soft # a}
  <1>1. Good(db) /\ Types
    BY DEF SubsInv
  <1>2. db' = [d EXCEPT !.software = @ \ {a}, !.bindings = {b \in @ : b.soft # a}]
    BY DEF DeleteSoftware
  <1>3. Leads(db, d) /\ d.insts = db.insts
    BY <1>1, MaterializedLeads
  <1> HIDE DEF d
  <1>4. Good(d) /\ d \in Databases /\ d.software \ {a} \in SUBSET Software
    BY <1>3 DEF Leads, Good, Databases
  <1>5. Leads(d, e) /\ e.bindings = d.bindings /\ e.insts = d.insts
    BY <1>4, SoftwareChange DEF Leads
  <1>6. db' = [e EXCEPT !.bindings = X]
    BY <1>2, <1>4 DEF Databases
  <1>7. X \in SUBSET e.bindings /\ Good(e)
    BY <1>5 DEF Leads
  <1> HIDE DEF e, X
  <1>8. Leads(e, db') /\ db'.insts = e.insts
    BY <1>6, <1>7, FewerBindings, BindingsChange DEF Leads
  <1>9. Careful
    BY <1>3, <1>5, <1>8 DEF Careful, SameEnd
  <1> QED BY <1>3, <1>5, <1>8, <1>9, LeadsOn

LEMMA CreateSubscriptionLeads ==
  ASSUME SubsInv, NEW s \in Subs, NEW i \in Insts, NEW from \in Nat,
         CreateSubscription(s, i, from)
  PROVE  Leads(db, db') /\ Careful
  <1> DEFINE R == [Row("live") EXCEPT !.from = from]
             S == [db.subs EXCEPT ![s] = R]
             d == [db EXCEPT !.subs = S]
  <1>1. Good(db) /\ db \in Databases /\ db.subs \in [Subs -> Rows]
    BY DEF SubsInv, Good, Databases
  <1>2. db' = InsertInstance(d, s, i, from) /\ db.insts[i].state = "new"
    BY DEF CreateSubscription
  <1>3. R \in Rows
    BY DEF Row, Rows, Never
  <1> HIDE DEF R
  <1>4. S \in [Subs -> Rows]
    BY <1>1, <1>3
  <1> HIDE DEF S
  <1>5. Leads(db, d) /\ d.insts = db.insts
    BY <1>1, <1>4, SubsChange DEF Leads
  <1> HIDE DEF d
  <1>6. Leads(d, db') /\ \A j \in Insts : j # i => SameEnd(d, db', j)
    BY <1>2, <1>5, InsertInstanceKeeps DEF Leads
  <1>7. Careful
    BY <1>2, <1>5, <1>6 DEF Careful, SameEnd
  <1> QED BY <1>5, <1>6, <1>7, LeadsOn

LEMMA CreateInstanceLeads ==
  ASSUME SubsInv, NEW s \in Subs, NEW i \in Insts, NEW from \in Nat,
         CreateInstance(s, i, from)
  PROVE  Leads(db, db') /\ Careful
  <1> DEFINE e == InsertInstance(db, s, i, from)
  <1>1. Good(db) /\ Types
    BY DEF SubsInv
  <1>2. db' = Materialized(e, fx, FALSE) /\ db.insts[i].state = "new"
    BY DEF CreateInstance
  <1>3. Leads(db, e) /\ \A j \in Insts : j # i => SameEnd(db, e, j)
    BY <1>1, InsertInstanceKeeps DEF Leads
  <1> HIDE DEF e
  <1>4. Leads(e, db') /\ db'.insts = e.insts
    BY <1>1, <1>2, <1>3, MaterializedLeads DEF Leads
  <1>5. Careful
    BY <1>2, <1>3, <1>4 DEF Careful, SameEnd
  <1> QED BY <1>3, <1>4, <1>5, LeadsOn

LEMMA UpdateInstanceLeads ==
  ASSUME SubsInv, NEW i \in Insts, NEW from \in Nat, UpdateInstance(i, from)
  PROVE  Leads(db, db') /\ Careful
  <1> DEFINE e == UpdateInstanceRow(db, i, from)
  <1>1. Good(db) /\ Types
    BY DEF SubsInv
  <1>2. db' = Materialized(e, fx, FALSE)
    BY DEF UpdateInstance
  <1>3. Leads(db, e) /\ \A j \in Insts : SameEnd(db, e, j)
    BY <1>1, UpdateInstanceKeeps DEF Leads
  <1> HIDE DEF e
  <1>4. Leads(e, db') /\ db'.insts = e.insts
    BY <1>1, <1>2, <1>3, MaterializedLeads DEF Leads
  <1>5. Careful
    BY <1>3, <1>4 DEF Careful, SameEnd
  <1> QED BY <1>3, <1>4, <1>5, LeadsOn

LEMMA DeleteInstanceLeads ==
  ASSUME SubsInv, NEW i \in Insts, DeleteInstance(i)
  PROVE  Leads(db, db') /\ Careful
  <1> DEFINE d == Materialized(db, fx, FALSE)
  <1>1. Good(db) /\ Types /\ today \in Nat
    BY DEF SubsInv, Types
  <1>2. db' = RemoveInstances(d, {i}) /\ EnsureCharge(d, db.insts[i].sub)
    BY DEF DeleteInstance
  <1>3. Leads(db, d) /\ d.insts = db.insts
    BY <1>1, MaterializedLeads
  <1> HIDE DEF d
  <1>4. Leads(d, db') /\ \A j \in Insts : j # i => SameEnd(d, db', j)
    BY <1>1, <1>2, <1>3, RemoveInstancesKeeps DEF Leads
  <1>5. Careful
    <2>1. Ensured(db.insts[i].sub)
      BY <1>2, <1>4 DEF Ensured, d
    <2> QED BY <2>1, <1>3, <1>4 DEF Careful, SameEnd
  <1> QED BY <1>3, <1>4, <1>5, LeadsOn

LEMMA UpdateSubscriptionLeads ==
  ASSUME SubsInv, NEW s \in Subs, NEW kept \in SUBSET Insts,
         NEW new \in SUBSET Insts, NEW from \in Nat,
         UpdateSubscription(s, kept, new, from)
  PROVE  Leads(db, db') /\ Careful
  <1> DEFINE d == Materialized(db, fx, FALSE)
             R == [Row("live") EXCEPT !.sub = s, !.from = from]
             X == [i \in Insts |-> IF i \in new THEN R ELSE d.insts[i]]
             added == [d EXCEPT !.insts = X]
             e == RemoveInstances(added, LiveInsts(db, s) \ kept)
  <1>0. EnsureCharge(d, s) /\ \A i \in new : db.insts[i].state = "new"
    BY DEF UpdateSubscription
  <1>1. Good(db) /\ Types /\ today \in Nat
    BY DEF SubsInv, Types
  <1>2. Leads(db, d) /\ d.insts = db.insts
    BY <1>1, MaterializedLeads
  <1>3. d \in Databases /\ d.insts \in [Insts -> Rows] /\ InstsOwned(d) /\ Good(d)
    BY <1>2 DEF Leads, Good, Databases
  <1>4. db' = Materialized(e, fx, FALSE)
    <2>1. added = [d EXCEPT !.insts = [i \in Insts |-> IF i \in new
                     THEN [Row("live") EXCEPT !.sub = s, !.from = from] ELSE @[i]]]
      <3> HIDE DEF d
      <3> QED BY <1>3 DEF Databases
    <2> HIDE DEF added
    <2> QED BY <2>1 DEF UpdateSubscription
  <1> HIDE DEF d
  <1>5. R \in Rows /\ R.sub = s /\ R.from = from
    <2>1. R = [[Row("live") EXCEPT !.sub = s] EXCEPT !.from = from]
      OBVIOUS
    <2>2. [Row("live") EXCEPT !.sub = s] =
            [state |-> "live", sub |-> s, from |-> Never, ends |-> Never]
      BY DEF Row
    <2> HIDE DEF R
    <2>3. R = [state |-> "live", sub |-> s, from |-> from, ends |-> Never]
      BY <2>1, <2>2
    <2> QED BY <2>3 DEF Rows, Never
  <1> HIDE DEF R
  <1>6. X \in [Insts -> Rows]
    BY <1>3, <1>5
  <1>7. \A i \in Insts : Owned(X[i]) /\ (i \notin new => X[i] = d.insts[i])
    BY <1>3, <1>5 DEF InstsOwned, Owned
  <1> HIDE DEF X
  <1>8. Leads(d, added) /\ added.insts = X
    BY <1>3, <1>6, <1>7, InstsChange DEF Leads
  <1> HIDE DEF added
  <1>9. Leads(added, e) /\ \A i \in Insts : i \notin LiveInsts(db, s)
                                           => SameEnd(added, e, i)
    BY <1>1, <1>8, RemoveInstancesKeeps DEF Leads
  <1> HIDE DEF e
  <1>10. Leads(e, db') /\ db'.insts = e.insts
    BY <1>1, <1>4, <1>9, MaterializedLeads DEF Leads
  <1>11. Careful
    <2>1. Ensured(s)
      <3>1. Leads(d, db')
        BY <1>8, <1>9, <1>10, LeadsOn
      <3> QED BY <1>0, <3>1 DEF Ensured, d
    <2>2. ASSUME NEW i \in Insts, db.insts[i].state = "live", i \notin LiveInsts(db, s)
          PROVE  SameEnd(db, db', i)
      <3>1. i \notin new
        BY <1>0, <2>2
      <3> QED BY <1>2, <1>7, <1>8, <1>9, <1>10, <2>2, <3>1 DEF SameEnd
    <2>3. \A i \in LiveInsts(db, s) : db.insts[i].sub = s
      BY DEF LiveInsts
    <2> QED BY <2>1, <2>2, <2>3 DEF Careful
  <1> QED BY <1>2, <1>8, <1>9, <1>10, <1>11, LeadsOn

(* The last day of the instances that end, which are finitely many.        *)
LEMMA LatestEnd ==
  ASSUME NEW d, Good(d), NEW insts \in SUBSET Insts, insts # {}
  PROVE  LET ends == {d.insts[i].ends : i \in insts}
         IN (CHOOSE e \in ends : \A f \in ends : f <= e) \in Int
  <1> DEFINE ends == {d.insts[i].ends : i \in insts}
             g == [i \in insts |-> d.insts[i].ends]
  <1>1. \A i \in insts : d.insts[i].ends \in Int
    BY DEF Good, Databases, Rows
  <1>2. ends \in SUBSET Int /\ ends # {}
    BY <1>1
  <1>3. IsFiniteSet(ends)
    <2>1. g \in Surjection(insts, ends)
      BY DEF Surjection
    <2>2. IsFiniteSet(insts)
      BY InstsAssumption, FS_Subset
    <2> HIDE DEF g, ends
    <2> QED BY <2>1, <2>2, FS_Surjection
  <1> HIDE DEF ends
  <1>4. \E e \in ends : \A f \in ends : f <= e
    BY <1>2, <1>3, GreatestInteger
  <1>5. (CHOOSE e \in ends : \A f \in ends : f <= e) \in ends
    BY <1>4
  <1> QED BY <1>2, <1>5 DEF ends

LEMMA DeleteSubscriptionLeads ==
  ASSUME SubsInv, NEW s \in Subs, DeleteSubscription(s)
  PROVE  Leads(db, db') /\ Careful
  <1> DEFINE d == Materialized(db, fx, FALSE)
             insts == LiveInsts(db, s)
             ended == EndInstances(d, insts)
             ends == {ended.insts[i].ends : i \in insts}
             end == IF insts = {} THEN SubscriptionEnd(d.subs[s].from)
                    ELSE CHOOSE e \in ends : \A f \in ends : f <= e
             R == [ended.subs[s] EXCEPT !.ends = end]
             S == [ended.subs EXCEPT ![s] = R]
             e == [ended EXCEPT !.subs = S]
             X == {IF b.sub = s /\ After(b.ends, today)
                   THEN [b EXCEPT !.ends = end] ELSE b : b \in e.bindings}
             f == [e EXCEPT !.bindings = X]
  <1>0. EnsureCharge(d, s)
    BY DEF DeleteSubscription
  <1>1. Good(db) /\ Types /\ today \in Nat
    BY DEF SubsInv, Types
  <1>2. Leads(db, d) /\ d.insts = db.insts
    BY <1>1, MaterializedLeads
  <1>3. Good(d) /\ d.subs \in [Subs -> Rows]
    BY <1>2 DEF Leads, Good, Databases
  <1>4. \/ db' = PurgeSubscriptions(d, {s})
        \/ db' = [ended EXCEPT
                    !.subs[s].ends = end,
                    !.bindings = {IF b.sub = s /\ After(b.ends, today)
                                  THEN [b EXCEPT !.ends = end] ELSE b : b \in @}]
    BY DEF DeleteSubscription
  <1>5. insts \in SUBSET Insts /\ \A i \in insts : db.insts[i].sub = s
    BY DEF LiveInsts
  <1>8. ASSUME Leads(d, db'),
               \A i \in Insts : db.insts[i].sub # s => SameEnd(d, db', i)
        PROVE  Leads(db, db') /\ Careful
    <2>1. Ensured(s)
      BY <1>0, <1>8 DEF Ensured
    <2> HIDE DEF d
    <2>2. Careful
      BY <1>2, <1>8, <2>1 DEF Careful, SameEnd
    <2> QED BY <1>2, <1>8, <2>2, LeadsOn
  <1> HIDE DEF d, insts
  <1>6. CASE db' = PurgeSubscriptions(d, {s})
    <2>1. Leads(d, db') /\ \A i \in Insts : db.insts[i].sub # s => SameEnd(d, db', i)
      BY <1>2, <1>3, <1>6, PurgeSubscriptionsKeeps DEF Leads
    <2> QED BY <2>1, <1>8
  <1>7. CASE db' = [ended EXCEPT
                      !.subs[s].ends = end,
                      !.bindings = {IF b.sub = s /\ After(b.ends, today)
                                    THEN [b EXCEPT !.ends = end] ELSE b : b \in @}]
    <2>1. /\ Leads(d, ended) /\ ended.subs = d.subs
          /\ \A i \in Insts : i \notin insts => SameEnd(d, ended, i)
      BY <1>1, <1>3, EndInstancesKeeps DEF Leads
    <2> HIDE DEF ended
    <2>2. Good(ended) /\ ended \in Databases /\ ended.subs \in [Subs -> Rows]
      BY <2>1 DEF Leads, Good, Databases
    <2>3. end \in Int
      <3>1. CASE insts = {}
        <4>1. d.subs[s].from \in Int
          BY <1>3 DEF Rows
        <4>2. PeriodStart(d.subs[s].from) + Month \in Int
          BY <4>1, <1>1, PeriodStartType, MonthAssumption
        <4>3. SubscriptionEnd(d.subs[s].from) \in Int
          BY <4>2, <1>1 DEF SubscriptionEnd
        <4> QED BY <3>1, <4>3
      <3>2. CASE insts # {}
        <4>1. (CHOOSE x \in ends : \A y \in ends : y <= x) \in Int
          BY <3>2, <1>5, <2>2, LatestEnd
        <4> QED BY <3>2, <4>1
      <3> QED BY <3>1, <3>2
    <2> HIDE DEF end
    <2>4. R \in Rows
      BY <2>2, <2>3 DEF Rows
    <2>5. db' = f
      <3>1. db' = [[ended EXCEPT !.subs[s].ends = end] EXCEPT
                     !.bindings = {IF b.sub = s /\ After(b.ends, today)
                                   THEN [b EXCEPT !.ends = end] ELSE b
                                     : b \in ended.bindings}]
        BY <1>7, <2>2 DEF Databases
      <3>2. [ended EXCEPT !.subs[s].ends = end] = e
        BY <2>2 DEF Databases, Rows
      <3>3. e.bindings = ended.bindings
        BY <2>2 DEF Databases
      <3> HIDE DEF e
      <3> QED BY <3>1, <3>2, <3>3
    <2> HIDE DEF R
    <2>6. S \in [Subs -> Rows]
      BY <2>2, <2>4
    <2> HIDE DEF S
    <2>7. Leads(ended, e) /\ e.insts = ended.insts
      BY <2>2, <2>6, SubsChange DEF Leads
    <2> HIDE DEF e
    <2>8. X \in SUBSET Bindings /\ AllApart(X, today)
      <3>1. Good(e) /\ today \in Nat /\ end \in Int
        BY <1>1, <2>3, <2>7 DEF Leads
      <3>2. MoveEnds(e, s, end) \in SUBSET Bindings /\ AllApart(MoveEnds(e, s, end), today)
        BY <3>1, MoveEndApart
      <3>3. X = MoveEnds(e, s, end)
        BY DEF MoveEnds
      <3> QED BY <3>2, <3>3
    <2> HIDE DEF X
    <2>9. Leads(e, f) /\ f.insts = e.insts
      BY <2>7, <2>8, BindingsChange DEF Leads
    <2> HIDE DEF f
    <2>10. Leads(d, db')
      BY <2>1, <2>5, <2>7, <2>9, LeadsOn
    <2>11. \A i \in Insts : db.insts[i].sub # s => SameEnd(d, db', i)
      BY <1>5, <2>1, <2>5, <2>7, <2>9 DEF SameEnd
    <2> QED BY <1>8, <2>10, <2>11
  <1> QED BY <1>4, <1>6, <1>7

LEMMA WorkerLeads ==
  ASSUME SubsInv, MaterializeWorker
  PROVE  Leads(db, db') /\ fx' \in BOOLEAN /\ (fx => fx')
  <1>1. Good(db) /\ today \in Nat /\ fx \in BOOLEAN
    BY DEF SubsInv, Types
  <1>2. PICK got \in BOOLEAN :
          /\ fx' = (fx \/ (got /\ AgentUnits(db, FALSE) # {}))
          /\ db' = Materialized(db, fx', FALSE)
    BY DEF MaterializeWorker
  <1>3. fx' \in BOOLEAN /\ (fx => fx')
    BY <1>1, <1>2
  <1>4. Leads(db, Materialized(db, fx', FALSE))
    BY <1>1, <1>3, MaterializedKeeps DEF Leads
  <1> QED BY <1>2, <1>3, <1>4

LEMMA FinalizeLeads ==
  ASSUME SubsInv, FinalizeDeferredDeletions
  PROVE  Leads(db, db')
  <1> DEFINE d == Materialized(db, fx, TRUE)
             X == {b \in d.bindings : ~Past(b.ends)}
             kept == [d EXCEPT !.bindings = X]
             rest == PurgeInstances(kept, {i \in Insts : Past(d.insts[i].ends)})
             empty == {s \in Subs : /\ rest.subs[s].state = "live"
                                    /\ Past(rest.subs[s].ends)
                                    /\ \A i \in Insts : rest.insts[i].sub # s}
  <1>1. Good(db) /\ Types
    BY DEF SubsInv
  <1>2. Leads(db, d)
    BY <1>1, MaterializedLeads
  <1>3. Good(d) /\ d \in Databases
    BY <1>2 DEF Leads, Good
  <1>4. db' = PurgeSubscriptions(rest, empty)
    <2>1. kept = [d EXCEPT !.bindings = {b \in @ : ~Past(b.ends)}]
      <3> HIDE DEF d
      <3> QED BY <1>3 DEF Databases
    <2> HIDE DEF kept
    <2> QED BY <2>1 DEF FinalizeDeferredDeletions
  <1>5. X \in SUBSET d.bindings
    OBVIOUS
  <1> HIDE DEF d, X
  <1>6. Leads(d, kept)
    BY <1>3, <1>5, FewerBindings, BindingsChange DEF Leads
  <1> HIDE DEF kept
  <1>7. Leads(kept, rest)
    BY <1>6, PurgeInstancesKeeps DEF Leads
  <1> HIDE DEF rest, empty
  <1>8. Leads(rest, db')
    BY <1>4, <1>7, PurgeSubscriptionsKeeps DEF Leads
  <1> QED BY <1>2, <1>6, <1>7, <1>8, LeadsOn
-----------------------------------------------------------------------------
(* The theorems.                                                           *)

LEMMA InitSubsInv == Init => SubsInv
  <1> SUFFICES ASSUME Init PROVE SubsInv
    OBVIOUS
  <1>1. today = 0 /\ Types
    BY DEF Init, Types
  <1>2. PICK s \in Subs, i \in Insts, migrated \in BOOLEAN :
          db = [software |-> {},
                subs |-> [r \in Subs |-> IF migrated /\ r = s
                            THEN [Row("live") EXCEPT !.from = 0] ELSE Row("new")],
                insts |-> [r \in Insts |-> IF migrated /\ r = i
                            THEN [Row("live") EXCEPT !.sub = s, !.from = 0]
                            ELSE Row("new")],
                bindings |-> {},
                charges |-> IF migrated
                            THEN {[inst |-> i, start |-> 0, owner |-> NoOne,
                                   final |-> TRUE]} ELSE {},
                events |-> {}]
    BY DEF Init
  <1> DEFINE P == [Row("live") EXCEPT !.from = 0]
             Q == [Row("live") EXCEPT !.sub = s, !.from = 0]
             S == [r \in Subs |-> IF migrated /\ r = s THEN P ELSE Row("new")]
             X == [r \in Insts |-> IF migrated /\ r = i THEN Q ELSE Row("new")]
             C == IF migrated THEN {[inst |-> i, start |-> 0, owner |-> NoOne,
                                     final |-> TRUE]} ELSE {}
  <1>3. P \in Rows
    BY DEF Row, Rows, Never
  <1>4. Q \in Rows /\ Q.sub = s /\ Q.from = 0
    <2>1. Q = [[Row("live") EXCEPT !.sub = s] EXCEPT !.from = 0]
      OBVIOUS
    <2>2. [Row("live") EXCEPT !.sub = s] =
            [state |-> "live", sub |-> s, from |-> Never, ends |-> Never]
      BY DEF Row
    <2> HIDE DEF Q
    <2>3. Q = [state |-> "live", sub |-> s, from |-> 0, ends |-> Never]
      BY <2>1, <2>2
    <2> QED BY <2>3 DEF Rows, Never
  <1>5. db = [software |-> {}, subs |-> S, insts |-> X, bindings |-> {},
              charges |-> C, events |-> {}]
    BY <1>2
  <1> HIDE DEF P, Q
  <1>6. S \in [Subs -> Rows] /\ X \in [Insts -> Rows]
    BY <1>3, <1>4, RowType
  <1>7. \A r \in Insts : Owned(X[r])
    BY <1>4, RowType DEF Owned
  <1>8. /\ C \subseteq Charges /\ Unique(C)
        /\ \A c \in C : ~ Exportable(c) /\ c.start = 0
    <2> DEFINE c == [inst |-> i, start |-> 0, owner |-> NoOne, final |-> TRUE]
    <2>1. c \in Charges /\ ~ Exportable(c) /\ c.start = 0
      BY DEF Charges, Exportable
    <2>2. C = {} \/ C = {c}
      OBVIOUS
    <2> HIDE DEF c, C
    <2> QED BY <2>1, <2>2 DEF Unique
  <1> HIDE DEF S, X, C
  <1>9. db \in Databases
    BY <1>5, <1>6, <1>8 DEF Databases
  <1>10. InstsOwned(db) /\ Ledger(db) /\ Bound(db, today)
    BY <1>5, <1>7, <1>8 DEF InstsOwned, Ledger, AllSent, OnlySent, Bound
  <1>11. Cold
    BY <1>5, <1>8 DEF Cold
  <1> QED BY <1>1, <1>9, <1>10, <1>11 DEF SubsInv, Good

(* Every step but the clock's leads the database on.                       *)
LEMMA StepLeads ==
  ASSUME SubsInv, Next, ~ Tick
  PROVE  /\ Leads(db, db') /\ fx' \in BOOLEAN /\ (fx => fx') /\ today' = today
         /\ User => Careful /\ fx' = fx
  <1>0. today \in Nat /\ fx \in BOOLEAN
    BY DEF SubsInv, Types
  <1>1. CASE User
    <2>1. UNCHANGED <<today, mode, fx>>
      BY <1>1 DEF User
    <2>2. \A from \in Starts : from \in Nat
      BY <1>0 DEF Starts
    <2>3. Leads(db, db') /\ Careful
      BY <1>1, <2>2, CreateSoftwareLeads, UpdateSoftwareLeads,
         DeleteSoftwareLeads, CreateSubscriptionLeads, CreateInstanceLeads,
         UpdateInstanceLeads, DeleteInstanceLeads, UpdateSubscriptionLeads,
         DeleteSubscriptionLeads DEF User
    <2> QED BY <1>0, <2>1, <2>3
  <1>2. CASE ~ User /\ MaterializeWorker
    <2>1. today' = today
      BY <1>2 DEF MaterializeWorker
    <2> QED BY <1>2, <2>1, WorkerLeads
  <1>3. CASE ~ User /\ FinalizeDeferredDeletions
    <2>1. today' = today /\ fx' = fx
      BY <1>3, ZenonT(40) DEF FinalizeDeferredDeletions
    <2> QED BY <1>0, <1>3, <2>1, FinalizeLeads
  <1> QED BY <1>1, <1>2, <1>3 DEF Next

LEMMA NextSubsInv == SubsInv /\ [Next]_vars => SubsInv'
  <1> SUFFICES ASSUME SubsInv, [Next]_vars PROVE SubsInv'
    OBVIOUS
  <1>1. CASE Next /\ ~ Tick
    <2>1. Good(db') /\ fx' \in BOOLEAN /\ today' = today
      BY <1>1, StepLeads DEF Leads
    <2>2. Cold'
      <3>1. fx' \/ OnlyFrozen(db.charges, db'.charges)
        BY <1>1, StepLeads DEF Leads, Extends
      <3>2. fx => fx'
        BY <1>1, StepLeads
      <3>3. fx \/ \A c \in db.charges : c.final => c.start <= 0
        BY DEF SubsInv, Cold
      <3>4. OnlyFrozen(db.charges, db'.charges)
              /\ (\A c \in db.charges : c.final => c.start <= 0)
            => \A c \in db'.charges : c.final => c.start <= 0
        BY DEF OnlyFrozen, SameKey
      <3> QED BY <3>1, <3>2, <3>3, <3>4 DEF Cold
    <2> QED BY <2>1, <2>2 DEF SubsInv, Types, Good, Bound
  <1>2. CASE Tick
    <2>1. today' = today + 1 /\ fx' = fx /\ db' = db
      BY <1>2 DEF Tick
    <2>2. Good(db) /\ today \in Nat /\ fx \in BOOLEAN
      BY DEF SubsInv, Types
    <2>3. \A b \in db.bindings : b.from <= today + 1
      BY <2>2 DEF Good, Bound, Databases, Bindings
    <2> QED BY <2>1, <2>2, <2>3 DEF SubsInv, Types, Good, Bound, Cold
  <1>3. CASE UNCHANGED vars
    BY <1>3 DEF vars, SubsInv, Types, Good, Bound, Cold
  <1> QED BY <1>1, <1>2, <1>3

LEMMA AlwaysSubsInv == Spec => []SubsInv
  BY InitSubsInv, NextSubsInv, PTL DEF Spec

(* Rebinding ends every other interval from today on, whether it is open   *)
(* or a deletion has given it an end in the future; so on no day do two    *)
(* agents have one subscription, and no charge has two owners to choose.   *)
THEOREM NeverTwoAgents == Spec => []OneAgentADay
  <1>1. SubsInv => OneAgentADay
    <2>1. 0..MaxDay \subseteq Nat
      OBVIOUS
    <2> QED BY <2>1 DEF SubsInv, Good, Bound, Apart, OneAgentADay
  <1> QED BY <1>1, AlwaysSubsInv, PTL

(* The export events are exactly those of the frozen charges that have an  *)
(* owner, each once and under that owner, whatever is bound, moved or      *)
(* removed between the materializer's runs.                                *)
THEOREM FrozenAndOwnedIsSent == Spec => []ExportedOnce
  <1>1. SubsInv => ExportedOnce
    <2> SUFFICES ASSUME SubsInv, NEW c \in db.charges
                 PROVE  {e \in db.events : e.inst = c.inst /\ e.start = c.start}
                          = IF c.owner # NoOne /\ c.final
                            THEN {DirectEvent(c)} ELSE {}
      BY DEF ExportedOnce
    <2>1. Unique(db.charges) /\ AllSent(db) /\ OnlySent(db)
      BY DEF SubsInv, Good, Ledger
    <2>2. ASSUME NEW v \in db.events, v.inst = c.inst, v.start = c.start
          PROVE  Exportable(c) /\ v = DirectEvent(c)
      <3>1. PICK e \in db.charges : Exportable(e) /\ v = DirectEvent(e)
        BY <2>1 DEF OnlySent
      <3>2. SameKey(c, e)
        BY <3>1, <2>2 DEF SameKey, DirectEvent
      <3>3. c = e
        BY <2>1, <3>2 DEF Unique
      <3> QED BY <3>1, <3>3
    <2>3. Exportable(c) => /\ DirectEvent(c) \in db.events
                           /\ DirectEvent(c).inst = c.inst
                           /\ DirectEvent(c).start = c.start
      BY <2>1 DEF AllSent, DirectEvent
    <2> QED BY <2>2, <2>3 DEF Exportable
  <1> QED BY <1>1, AlwaysSubsInv, PTL

(* A deletion that passed the check on the materialized database found the *)
(* running period of every instance of the subscription charged.  It is    *)
(* final: with a rate the materializer has just frozen it; without one the *)
(* newest charge is final, so that of the upgraded database is the newest. *)
LEMMA RunningIsFinal ==
  ASSUME SubsInv, fx' = fx, NEW i \in AgentUnits(db, FALSE), db.insts[i].ends = Never,
         Ensured(db.insts[i].sub)
  PROVE  \E c \in db'.charges :
            c.inst = i /\ c.start = PeriodStart(db.insts[i].from) /\ c.final
  <1> DEFINE d == Materialized(db, fx, FALSE)
             p == PeriodStart(db.insts[i].from)
  <1>1. /\ Good(d) /\ Extends(db, d) /\ (fx => RunningFinal(db, FALSE, d.charges))
        /\ d.software = db.software /\ d.subs = db.subs /\ d.insts = db.insts
        /\ d.bindings = db.bindings
    BY MaterializedKeeps DEF SubsInv, Types
  <1>2. EnsureCharge(d, db.insts[i].sub) /\ Leads(d, db')
    BY DEF Ensured
  <1> HIDE DEF d
  <1>3. AgentUnits(d, FALSE) = AgentUnits(db, FALSE)
    BY <1>1 DEF AgentUnits, Owner, Effective
  <1>4. PICK c \in d.charges : c.inst = i /\ c.start = p
    BY <1>1, <1>2, <1>3 DEF EnsureCharge, CurrentCharged
  <1>5. c.final
    <2>1. CASE fx
      BY <1>1, <1>4, <2>1 DEF RunningFinal
    <2>2. CASE ~ fx
      <3>1. \A f \in d.charges : f.final => f.start <= 0
        <4>1. OnlyFrozen(db.charges, d.charges)
          BY <1>1, <2>2 DEF Extends
        <4>2. \A f \in db.charges : f.final => f.start <= 0
          BY <2>2 DEF SubsInv, Cold
        <4> QED BY <4>1, <4>2 DEF OnlyFrozen, SameKey
      <3>2. /\ i \in Insts /\ db.insts[i].state = "live" /\ today \in Nat
            /\ p \in Int /\ 0 <= p /\ p <= today
        <4>1. /\ i \in Insts /\ db.insts[i].state = "live"
              /\ db.insts[i].from <= today /\ Good(db) /\ today \in Nat
          BY UnitFacts DEF SubsInv, Types
        <4>2. db.insts[i].from \in Nat
          BY <4>1 DEF Good, InstsOwned, Owned
        <4> QED BY <4>1, <4>2, PeriodStartRange, PeriodStartType
      <3> HIDE DEF p
      <3> DEFINE mine == {f \in d.charges : f.inst = i /\ p <= f.start /\ f.start <= today}
                 S == {f.start : f \in mine}
      <3>3. \A f \in d.charges : f.start \in Int
        BY <1>1 DEF Good, Databases, Charges
      <3>4. PICK f \in mine : \A g \in mine : g.start <= f.start
        <4>1. S \in SUBSET (p..today) /\ S # {}
          BY <1>4, <3>2, <3>3
        <4>2. S \in SUBSET Int /\ IsFiniteSet(S)
          <5>1. IsFiniteSet(p..today) /\ p..today \subseteq Int
            BY <3>2, FS_Interval
          <5> HIDE DEF S
          <5> QED BY <4>1, <5>1, FS_Subset
        <4>3. PICK x \in S : \A y \in S : y <= x
          <5> HIDE DEF S
          <5> QED BY <4>1, <4>2, GreatestInteger
        <4> QED BY <4>3
      <3>5. f.final
        <4>1. \/ f.final
              \/ \E g \in d.charges : g.inst = i /\ g.start > f.start /\ g.start <= today
          BY <1>1, <1>2, <3>2, <3>4 DEF EnsureCharge, NewestFrozen
        <4>2. ASSUME NEW g \in d.charges, g.inst = i, g.start > f.start, g.start <= today
              PROVE  FALSE
          <5>1. g \in mine
            BY <3>2, <3>3, <3>4, <4>2
          <5> QED BY <3>3, <3>4, <4>2, <5>1
        <4> QED BY <4>1, <4>2
      <3>6. SameKey(f, c)
        <4>1. f.start <= 0 /\ p <= f.start /\ f.start \in Int
          BY <3>1, <3>3, <3>4, <3>5
        <4> QED BY <1>4, <3>2, <3>4, <4>1 DEF SameKey
      <3>7. f = c
        BY <1>1, <1>4, <3>4, <3>6 DEF Good, Ledger, Unique
      <3> QED BY <3>5, <3>7
    <2> QED BY <2>1, <2>2
  <1>6. \A e : Extends(d, e) => \E f \in e.charges : Later(c, f)
    BY DEF Extends
  <1> QED BY <1>2, <1>4, <1>5, <1>6 DEF Leads, Later, SameKey

(* No instance that is billed goes, or gets its end, by a user's operation *)
(* before its running period is charged and frozen, with a rate or without *)
(* one, whatever is bound, moved or removed in that operation.             *)
THEOREM RunningPeriodIsFrozen == Spec => FrozenBeforeEnding
  <1> DEFINE Frozen == \A i \in Insts :
                         /\ edits' # edits
                         /\ db.insts[i].state = "live" /\ db.insts[i].ends = Never
                         /\ db'.insts[i].state = "gone" \/ db'.insts[i].ends # Never
                         => CurrentFrozen(db, i)
  <1>1. SubsInv /\ [Next]_vars => [Frozen]_vars
    <2> SUFFICES ASSUME SubsInv, Next, NEW i \in Insts, edits' # edits,
                        db.insts[i].state = "live", db.insts[i].ends = Never,
                        db'.insts[i].state = "gone" \/ db'.insts[i].ends # Never,
                        i \in AgentUnits(db, FALSE)
                 PROVE  \E c \in db'.charges :
                          c.inst = i /\ c.start = PeriodStart(db.insts[i].from) /\ c.final
      BY DEF CurrentFrozen
    <2>1. User /\ ~ Tick
      <3>1. /\ Tick => edits' = edits
            /\ MaterializeWorker => edits' = edits
        BY DEF Tick, MaterializeWorker
      <3>2. FinalizeDeferredDeletions => edits' = edits
        BY ZenonT(40) DEF FinalizeDeferredDeletions
      <3> QED BY <3>1, <3>2 DEF Next
    <2>2. Careful /\ fx' = fx
      BY <2>1, StepLeads
    <2>3. ~ SameEnd(db, db', i)
      BY DEF SameEnd
    <2>4. Ensured(db.insts[i].sub)
      BY <2>2, <2>3 DEF Careful
    <2> QED BY <2>2, <2>4, RunningIsFinal
  <1>2. Spec => [][Frozen]_vars
    <2> HIDE DEF Frozen
    <2> QED BY <1>1, AlwaysSubsInv, PTL DEF Spec
  <1> QED BY <1>2 DEF FrozenBeforeEnding

(* A charge stays when its instance, its subscription or its agent goes,   *)
(* keeps its owner through every rebinding, and its event is never taken   *)
(* back.                                                                   *)
THEOREM ChargesKeepTheirOwner == Spec => OwnerFixed
  <1> DEFINE Fixed == /\ \A c \in db.charges : \E e \in db'.charges :
                           /\ e.inst = c.inst /\ e.start = c.start
                           /\ c.owner # NoOne => e.owner = c.owner
                           /\ c.final => e.final
                      /\ db.events \subseteq db'.events
  <1>1. SubsInv /\ [Next]_vars => [Fixed]_vars
    <2> SUFFICES ASSUME SubsInv, Next PROVE Fixed
      BY DEF Fixed
    <2>1. CASE ~ Tick
      <3>1. Extends(db, db')
        BY <2>1, StepLeads DEF Leads
      <3> QED BY <3>1 DEF Extends, Later, SameKey
    <2>2. CASE Tick
      <3>1. db' = db
        BY <2>2 DEF Tick
      <3> QED BY <3>1
    <2> QED BY <2>1, <2>2
  <1>2. Spec => [][Fixed]_vars
    <2> HIDE DEF Fixed
    <2> QED BY <1>1, AlwaysSubsInv, PTL DEF Spec
  <1> QED BY <1>2 DEF OwnerFixed
=============================================================================
