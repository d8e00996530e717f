-------------------------- MODULE PlanBillingProofs --------------------------
(***************************************************************************)
(* Machine-checked facts about PlanBilling: no instant is charged twice,   *)
(* what is final stays, a deletion leaves nothing open but what a later    *)
(* row in CNY hides, and a lapse is not charged but for an overwritten     *)
(* answer: for any keys, prices, currencies, lengths of a month and of a   *)
(* grace, any number of overlapping polls, and any sequence of polls,      *)
(* passes, edits and deletions.                                            *)
(***************************************************************************)
EXTENDS PlanBilling, TLAPS, WellFoundedInduction

(* What is recorded of a key: instants that have passed, or Never.         *)
Instants == Nat \cup {Never}
KeyRows == [state : {"new", "live", "gone"}, from : Instants, created : Instants,
            ends : Int]
Usages == [present : BOOLEAN, checked : Instants, error : BOOLEAN, errorAt : Instants,
           sub : {"none", "active", "inactive"}, resumed : Int, start : Int, end : Int]
Passed(u) == u \in Usages /\ u.start <= now /\ u.resumed <= now

Types ==
  /\ now \in Nat
  /\ keys \in [Keys -> KeyRows]
  /\ \A k \in Keys : keys[k].state = "live" => keys[k].from \in Nat
  /\ usage \in [Keys -> Usages] /\ \A k \in Keys : Passed(usage[k])
  /\ poll \in [Pollers -> [Keys -> Usages]]
  /\ \A p \in Pollers : \A k \in Keys : Passed(poll[p][k])
  /\ fx \subseteq Nat

(* The rows of the ledger: periods that have begun and are not empty.      *)
IsRow(c) == c = [key |-> c.key, start |-> c.start, end |-> c.end, price |-> c.price,
                 currency |-> c.currency, fx |-> c.fx, final |-> c.final]
Begun(c) == /\ IsRow(c) /\ c.key \in Keys /\ c.start \in Nat /\ c.end \in Nat
            /\ c.start <= now /\ c.start < c.end
Apart(c, d) == c.end <= d.start \/ d.end <= c.start
Rows(ch) == /\ \A c \in ch : Begun(c)
            /\ \A c, d \in ch : (c.key = d.key /\ c # d) => Apart(c, d)
Final(ch) == {c \in ch : c.final # Never}
(* A row is frozen in CNY, or when some exchange rate was stored.          *)
Payable(c) == c.currency = "CNY" \/ fx # {}

BillInv == Types /\ Rows(charges) /\ events = Final(charges)
           /\ \A c \in Final(charges) : Payable(c)
------------------------------------------------------------------------------
(* Periods.                                                                *)

(* The anchor period of an instant is a month that contains it.            *)
LEMMA PeriodSpan ==
  ASSUME NEW t \in Int, NEW a \in Int
  PROVE  /\ BillingPeriod(t, a).start \in Int
         /\ BillingPeriod(t, a).end = BillingPeriod(t, a).start + Month
         /\ BillingPeriod(t, a).start <= t
         /\ t < BillingPeriod(t, a).end
         /\ a <= t => a <= BillingPeriod(t, a).start
  <1> DEFINE n == t - a
             q == n \div Month
             r == n % Month
  <1>1. n \in Int /\ Month \in Nat /\ Month > 0
    BY MonthAssumption
  <1>2. q \in Int /\ r \in Int /\ 0 <= r /\ r < Month /\ n = Month * q + r
    BY <1>1
  <1>3. BillingPeriod(t, a).start = q * Month + a
    BY DEF BillingPeriod
  <1>4. q * Month \in Int /\ q * Month = n - r
    BY <1>1, <1>2
  <1>5. BillingPeriod(t, a).end = BillingPeriod(t, a).start + Month
    BY DEF BillingPeriod
  <1>6. 0 <= n => 0 <= q * Month
    BY <1>1, <1>2
  <1> QED BY <1>1, <1>2, <1>3, <1>4, <1>5, <1>6

LEMMA PeriodShape ==
  \A t, a : BillingPeriod(t, a) = [start |-> BillingPeriod(t, a).start,
                                  end |-> BillingPeriod(t, a).end]
  BY DEF BillingPeriod

(* A non-empty bounded set of naturals has a greatest element.             *)
LEMMA GreatestNatural ==
  ASSUME NEW n \in Nat, NEW S \in SUBSET (0..n), S # {}
  PROVE  \E k \in S : \A j \in S : j <= k
  <1> DEFINE T == {p \in Nat : n - p \in S}
             R == {ss \in Nat \X Nat : ss[1] < ss[2]}
  <1>1. T \subseteq Nat /\ T # {}
    <2>1. PICK k \in S : TRUE
      OBVIOUS
    <2>2. n - k \in Nat /\ n - (n - k) = k
      OBVIOUS
    <2> QED BY <2>1, <2>2
  <1>2. IsWellFoundedOn(R, Nat)
    BY NatLessThanWellFounded, Zenon DEF OpToRel
  <1>3. PICK x \in T : \A y \in T : ~(<<y, x>> \in R)
    <2> HIDE DEF T, R
    <2> QED BY <1>1, <1>2, WFMin
  <1>4. ASSUME NEW j \in S PROVE j <= n - x
    <2>1. n - j \in Nat /\ n - (n - j) = j
      OBVIOUS
    <2>2. n - j \in T /\ x \in Nat
      BY <2>1
    <2>3. ~(n - j < x)
      <3>1. <<n - j, x>> \in Nat \X Nat /\ <<n - j, x>>[1] = n - j /\ <<n - j, x>>[2] = x
        BY <2>1, <2>2
      <3> QED BY <1>3, <2>2, <3>1
    <2> QED BY <2>1, <2>2, <2>3
  <1> QED BY <1>3, <1>4

(* The newest row of a key: every other one has ended when it starts.      *)
LEMMA PreviousRow ==
  ASSUME now \in Nat, NEW ch, Rows(ch), NEW k
  PROVE  \/ /\ Previous(ch, k, now) = NoPeriod
            /\ \A c \in ch : c.key # k
         \/ \E c \in ch :
              /\ c.key = k
              /\ Previous(ch, k, now) = [start |-> c.start, end |-> c.end]
              /\ \A d \in ch : (d.key = k /\ d # c) => d.end <= c.start
  <1> DEFINE mine == {c \in ch : c.key = k /\ c.start <= now}
             c0 == CHOOSE c \in mine : \A d \in mine : d.start <= c.start
  <1>1. \A c \in ch : c.key = k => c \in mine
    BY DEF Rows, Begun
  <1>2. CASE mine = {}
    BY <1>1, <1>2 DEF Previous
  <1>3. CASE mine # {}
    <2>1. \E c \in mine : \A d \in mine : d.start <= c.start
      <3> DEFINE S == {c.start : c \in mine}
      <3>1. S \in SUBSET (0..now) /\ S # {}
        BY <1>3 DEF Rows, Begun
      <3>2. PICK s \in S : \A j \in S : j <= s
        <4> HIDE DEF S
        <4> QED BY <3>1, GreatestNatural
      <3> QED BY <3>2
    <2>2. c0 \in mine /\ \A d \in mine : d.start <= c0.start
      BY <2>1
    <2>3. Previous(ch, k, now) = [start |-> c0.start, end |-> c0.end]
      BY <1>3 DEF Previous
    <2> HIDE DEF c0
    <2>4. ASSUME NEW d \in ch, d.key = k, d # c0 PROVE d.end <= c0.start
      <3>1. d.start <= c0.start /\ Apart(d, c0) /\ Begun(d) /\ Begun(c0)
        BY <1>1, <2>2, <2>4 DEF Rows
      <3> QED BY <3>1 DEF Apart, Begun
    <2> QED BY <2>2, <2>3, <2>4
  <1> QED BY <1>2, <1>3

(* A period that is opened has begun, is not empty, and starts no earlier  *)
(* than the last one ended.                                                *)
Opens(p, last) ==
  /\ p = [start |-> p.start, end |-> p.end]
  /\ p.start \in Nat /\ p.end \in Nat /\ p.start <= now /\ p.start < p.end
  /\ last # Never => last <= p.start

LEMMA UnitFacts ==
  ASSUME Types, NEW k \in Units(now)
  PROVE  /\ k \in Keys /\ keys[k].from \in Nat /\ keys[k].from <= now
         /\ usage[k].start \in Int /\ usage[k].end \in Int /\ usage[k].resumed \in Int
         /\ usage[k].start <= now /\ usage[k].resumed <= now
  BY DEF Types, Units, Passed, Usages

LEMMA ObservedOpens ==
  ASSUME Types, NEW k \in Units(now), NEW last \in Int, last # Never => last <= now
  PROVE  Opens(ObservedPeriod(usage[k], k, last), last)
  <1> DEFINE u == usage[k]
             chain == IF last # Never THEN last ELSE u.start
             start == Larger(Larger(chain, u.resumed), keys[k].from)
             end == IF u.end > start THEN u.end ELSE BillingPeriod(start, keys[k].from).end
  <1>1. /\ keys[k].from \in Nat /\ keys[k].from <= now /\ now \in Nat
        /\ u.start \in Int /\ u.end \in Int /\ u.resumed \in Int
        /\ u.start <= now /\ u.resumed <= now
    BY UnitFacts DEF Types
  <1>2. ObservedPeriod(u, k, last) = [start |-> start, end |-> end]
    BY DEF ObservedPeriod
  <1>3. chain \in Int /\ chain <= now /\ (last # Never => last = chain)
    BY <1>1
  <1> HIDE DEF chain, u
  <1>4. start \in Nat /\ start <= now /\ chain <= start
    BY <1>1, <1>3 DEF Larger
  <1> HIDE DEF start
  <1>5. /\ BillingPeriod(start, keys[k].from).start \in Int
        /\ BillingPeriod(start, keys[k].from).end > start
        /\ BillingPeriod(start, keys[k].from).end \in Int
    BY <1>1, <1>4, PeriodSpan, MonthAssumption
  <1>6. end \in Nat /\ start < end
    BY <1>1, <1>4, <1>5
  <1> HIDE DEF end
  <1> QED BY <1>2, <1>3, <1>4, <1>6 DEF Opens, u

LEMMA AnchorOpens ==
  ASSUME Types, NEW k \in Units(now), NEW last \in Int, last # Never => last <= now,
         last = Never \/ last \in Nat
  PROVE  Opens(AnchorPeriod(usage[k], k, last, now), last)
  <1> DEFINE u == usage[k]
             anchor == BillingPeriod(now, keys[k].from)
             chain == IF last # Never THEN last ELSE anchor.start
             start == Larger(chain, u.resumed)
  <1>1. /\ keys[k].from \in Nat /\ keys[k].from <= now /\ now \in Nat
        /\ u.resumed \in Int /\ u.resumed <= now
    BY UnitFacts DEF Types
  <1>2. AnchorPeriod(u, k, last, now) = [start |-> start, end |-> anchor.end]
    BY DEF AnchorPeriod
  <1>3. /\ anchor.start \in Int /\ anchor.end \in Int /\ anchor.start <= now
        /\ now < anchor.end /\ keys[k].from <= anchor.start
    BY <1>1, PeriodSpan, MonthAssumption
  <1> HIDE DEF anchor
  <1>4. chain \in Nat /\ chain <= now /\ (last # Never => last = chain)
    BY <1>1, <1>3
  <1> HIDE DEF chain, u
  <1>5. start \in Nat /\ start <= now /\ chain <= start
    BY <1>1, <1>4 DEF Larger
  <1> HIDE DEF start
  <1> QED BY <1>1, <1>2, <1>3, <1>4, <1>5 DEF Opens, u

(* The period of a unit is the one of its newest row, or a new one after   *)
(* all its rows.                                                           *)
LEMMA ResolvedPeriod ==
  ASSUME Types, NEW ch, Rows(ch), NEW k \in Units(now)
  PROVE  \/ ResolvePeriod(ch, k, now) = NoPeriod
         \/ \E c \in ch : /\ c.key = k /\ now < c.end
                          /\ ResolvePeriod(ch, k, now) = [start |-> c.start, end |-> c.end]
         \/ /\ Opens(ResolvePeriod(ch, k, now), Never)
            /\ \A c \in ch : c.key = k => c.end <= ResolvePeriod(ch, k, now).start
  <1> DEFINE row == Previous(ch, k, now)
             p == ResolvePeriod(ch, k, now)
             u == usage[k]
  <1>1. now \in Nat
    BY DEF Types
  <1>2. \/ p = row /\ now < row.end
        \/ p = NoPeriod
        \/ /\ ~(now < row.end)
           /\ p \in {ObservedPeriod(u, k, row.end), AnchorPeriod(u, k, row.end, now)}
    BY DEF ResolvePeriod
  <1> HIDE DEF p
  <1>3. CASE row = NoPeriod /\ \A c \in ch : c.key # k
    <2>1. row.end = Never /\ Never \in Int
      BY <1>3 DEF NoPeriod, Never
    <2>2. Opens(ObservedPeriod(u, k, Never), Never) /\ Opens(AnchorPeriod(u, k, Never, now), Never)
      BY <2>1, ObservedOpens, AnchorOpens
    <2>3. ~(now < row.end)
      BY <1>1, <2>1 DEF Never
    <2> HIDE DEF row, u
    <2> QED BY <1>2, <1>3, <2>1, <2>2, <2>3 DEF p
  <1>4. ASSUME NEW c \in ch, c.key = k, row = [start |-> c.start, end |-> c.end],
               \A d \in ch : (d.key = k /\ d # c) => d.end <= c.start
        PROVE  \/ p = NoPeriod
               \/ p = [start |-> c.start, end |-> c.end] /\ now < c.end
               \/ Opens(p, Never) /\ \A d \in ch : d.key = k => d.end <= p.start
    <2>1. /\ c.start \in Nat /\ c.end \in Nat /\ c.start < c.end /\ row.end = c.end
          /\ c.end # Never
      BY <1>4 DEF Rows, Begun, Never
    <2>2. CASE now < row.end
      BY <1>2, <2>1, <2>2, <1>4
    <2>3. CASE ~(now < row.end)
      <3>1. c.end \in Int /\ c.end <= now
        BY <2>1, <2>3, <1>1
      <3>2. /\ Opens(ObservedPeriod(u, k, c.end), c.end)
            /\ Opens(AnchorPeriod(u, k, c.end, now), c.end)
        BY <2>1, <3>1, ObservedOpens, AnchorOpens
      <3>3. CASE Opens(p, c.end)
        <4>1. p.start \in Nat /\ c.end <= p.start
          BY <3>3, <2>1 DEF Opens
        <4>2. ASSUME NEW d \in ch, d.key = k PROVE d.end <= p.start
          <5>1. d.end \in Nat /\ (d = c \/ d.end <= c.start)
            BY <1>4, <4>2 DEF Rows, Begun
          <5> QED BY <5>1, <4>1, <2>1
        <4> QED BY <3>3, <4>2 DEF Opens
      <3> QED BY <1>2, <2>1, <2>3, <3>2, <3>3
    <2> QED BY <2>2, <2>3
  <1>5. \/ row = NoPeriod /\ \A c \in ch : c.key # k
        \/ \E c \in ch : /\ c.key = k /\ row = [start |-> c.start, end |-> c.end]
                         /\ \A d \in ch : (d.key = k /\ d # c) => d.end <= c.start
    BY <1>1, PreviousRow
  <1> HIDE DEF row
  <1>6. CASE row = NoPeriod /\ \A c \in ch : c.key # k
    BY <1>3, <1>6
  <1> QED BY <1>4, <1>5, <1>6 DEF p

(* While the newest row of a key runs, it is the period of the key.        *)
LEMMA RunningRow ==
  ASSUME now \in Nat, NEW ch, Rows(ch), NEW k, NEW c \in ch, c.key = k, now < c.end
  PROVE  ResolvePeriod(ch, k, now) = [start |-> c.start, end |-> c.end]
  <1>1. PICK d \in ch : /\ d.key = k
                        /\ Previous(ch, k, now) = [start |-> d.start, end |-> d.end]
                        /\ \A e \in ch : (e.key = k /\ e # d) => e.end <= d.start
    BY PreviousRow
  <1>2. d = c
    <2>1. Begun(c) /\ Begun(d)
      BY DEF Rows
    <2>2. c.end \in Nat /\ d.start \in Nat /\ d.start <= now
      BY <2>1 DEF Begun
    <2> QED BY <1>1, <2>2
  <1> DEFINE row == Previous(ch, k, now)
  <1>3. row = [start |-> c.start, end |-> c.end] /\ row.end = c.end
    BY <1>1, <1>2
  <1>4. c.end \in Nat
    BY DEF Rows, Begun
  <1> HIDE DEF row
  <1>5. now < row.end /\ ~(now >= row.end)
    BY <1>3, <1>4
  <1>6. ResolvePeriod(ch, k, now) = row
    BY <1>5 DEF ResolvePeriod, row
  <1> QED BY <1>3, <1>6

------------------------------------------------------------------------------
(* Exchange rates and rows.                                                *)

LEMMA NoRateNoDate ==
  ASSUME NEW day, FxDate(day) # Never
  PROVE  fx # {}
  BY DEF FxDate

(* With one rate stored, every day finds one.                              *)
LEMMA AnyRateADate ==
  ASSUME NEW day \in Nat, fx \subseteq Nat, fx # {}
  PROVE  FxDate(day) # Never
  <1> DEFINE earlier == {d \in fx : d <= day}
  <1>1. CASE day \in fx
    BY <1>1 DEF FxDate, Never
  <1>2. CASE day \notin fx /\ earlier # {}
    <2>1. \A d \in earlier : d \in fx /\ d \in 0..day
      BY SMT
    <2>2. PICK m \in earlier : \A j \in earlier : j <= m
      <3>1. earlier \in SUBSET (0..day)
        BY <2>1
      <3> HIDE DEF earlier
      <3> QED BY <3>1, <1>2, GreatestNatural
    <2>3. Max(earlier) \in earlier
      <3>1. \A j \in earlier : m >= j
        BY <2>1, <2>2
      <3> HIDE DEF earlier
      <3> QED BY <2>2, <3>1 DEF Max
    <2>4. FxDate(day) = Max(earlier)
      BY <1>2 DEF FxDate
    <2> QED BY <2>3, <2>4 DEF Never
  <1>3. CASE day \notin fx /\ earlier = {}
    <2> DEFINE R == {ss \in Nat \X Nat : ss[1] < ss[2]}
    <2>1. IsWellFoundedOn(R, Nat)
      BY NatLessThanWellFounded, Zenon DEF OpToRel
    <2>2. PICK m \in fx : \A y \in fx : ~(<<y, m>> \in R)
      <3> HIDE DEF R
      <3> QED BY <2>1, WFMin
    <2>3. ASSUME NEW j \in fx PROVE m <= j
      <3>1. <<j, m>> \in Nat \X Nat /\ <<j, m>>[1] = j /\ <<j, m>>[2] = m
        OBVIOUS
      <3>2. ~(j < m)
        BY <2>2, <3>1
      <3> QED BY <3>2
    <2>4. Min(fx) \in fx
      BY <2>3 DEF Min
    <2>5. FxDate(day) = Min(fx)
      BY <1>3 DEF FxDate
    <2> QED BY <2>4, <2>5 DEF Never
  <1> QED BY <1>1, <1>2, <1>3

LEMMA ChargeFacts ==
  ASSUME NEW k \in Keys, NEW p, Opens(p, Never)
  PROVE  /\ Begun(Charge(k, p, now))
         /\ Charge(k, p, now).key = k
         /\ Charge(k, p, now).start = p.start /\ Charge(k, p, now).end = p.end
         /\ Charge(k, p, now).final # Never => Payable(Charge(k, p, now))
         /\ (now \in Nat /\ fx \subseteq Nat /\ fx # {}) => Charge(k, p, now).final # Never
  <1>1. /\ Charge(k, p, now).key = k
        /\ Charge(k, p, now).start = p.start /\ Charge(k, p, now).end = p.end
    BY DEF Charge
  <1>2. IsRow(Charge(k, p, now))
    BY DEF Charge, IsRow
  <1>3. Charge(k, p, now).final # Never => Payable(Charge(k, p, now))
    BY NoRateNoDate DEF Charge, Convertible, Payable
  <1>4. (now \in Nat /\ fx \subseteq Nat /\ fx # {}) => Charge(k, p, now).final # Never
    BY AnyRateADate DEF Charge, Convertible, Opens, Never
  <1> QED BY <1>1, <1>2, <1>3, <1>4 DEF Begun, Opens

LEMMA FillFacts ==
  ASSUME NEW c, Begun(c)
  PROVE  /\ Begun(FillMissing(c, now))
         /\ FillMissing(c, now).key = c.key
         /\ FillMissing(c, now).start = c.start /\ FillMissing(c, now).end = c.end
         /\ c.final # Never => FillMissing(c, now) = c
         /\ FillMissing(c, now).final # Never
              => FillMissing(c, now) = c \/ Payable(FillMissing(c, now))
         /\ (now \in Nat /\ fx \subseteq Nat /\ fx # {})
               => FillMissing(c, now).final # Never
  <1> DEFINE f == FillMissing(c, now)
             ready == Convertible(c.currency, c.start)
             day == RateDay(c.currency, c.start)
             g == [key |-> c.key, start |-> c.start, end |-> c.end, price |-> c.price,
                   currency |-> c.currency, fx |-> day, final |-> now]
  <1>1. f = c \/ (ready /\ c.final = Never /\ f = g)
    <2>1. CASE c.final # Never \/ ~ready
      BY <2>1 DEF FillMissing
    <2>2. CASE c.final = Never /\ ready
      <3>1. f = [c EXCEPT !.fx = day, !.final = now]
        BY <2>2 DEF FillMissing
      <3>2. f = g
        BY <3>1 DEF Begun, IsRow
      <3> QED BY <2>2, <3>2
    <2> QED BY <2>1, <2>2
  <1>2. c.final # Never => f = c
    BY DEF FillMissing
  <1>3. ASSUME now \in Nat, fx \subseteq Nat, fx # {} PROVE f.final # Never
    <2>1. c.start \in Nat /\ ready
      BY <1>3, AnyRateADate DEF Begun, Convertible
    <2>2. CASE c.final # Never
      BY <2>2, <1>2
    <2>3. CASE c.final = Never
      <3>1. f = [c EXCEPT !.fx = day, !.final = now]
        BY <2>1, <2>3 DEF FillMissing
      <3>2. f.final = now
        BY <3>1 DEF Begun, IsRow
      <3> QED BY <3>2, <1>3 DEF Never
    <2> QED BY <2>2, <2>3
  <1>4. Begun(g) /\ g.key = c.key /\ g.start = c.start /\ g.end = c.end
    BY DEF Begun, IsRow
  <1>5. ready => Payable(g)
    BY NoRateNoDate DEF Convertible, Payable
  <1> HIDE DEF g, f, ready, day
  <1> QED BY <1>1, <1>2, <1>3, <1>4, <1>5 DEF f

------------------------------------------------------------------------------
(* One pass of the materializer over one unit, then over all of them.      *)

Mine(ch, k) == {c \in Stream(ch, k, now) : c.key = k}
(* The rows of a unit after a pass: still apart, nothing final is lost,    *)
(* nothing but a CNY row is frozen without a rate, and with one the        *)
(* running row is.                                                         *)
UnitRight(ch, k) ==
  /\ \A c \in Mine(ch, k) : Begun(c)
  /\ \A c, d \in Mine(ch, k) : c # d => Apart(c, d)
  /\ \A c \in ch : (c.key = k /\ c.final # Never) => c \in Mine(ch, k)
  /\ \A c \in Mine(ch, k) : c.final # Never => (c \in ch \/ Payable(c))
  /\ (fx # {} /\ UnitEnd(k) = keys[k].ends)
        => \A c \in Mine(ch, k) : now < c.end => c.final # Never

LEMMA UnitPasses ==
  ASSUME Types, NEW ch, Rows(ch), NEW k \in Units(now)
  PROVE  UnitRight(ch, k)
  <1> DEFINE p == ResolvePeriod(ch, k, now)
             row == {c \in ch : c.key = k /\ c.start = p.start}
  <1>1. /\ now \in Nat /\ fx \subseteq Nat /\ k \in Keys
        /\ keys[k].ends \in Int /\ After(keys[k].ends, now)
    BY DEF Types, Units, KeyRows
  <1>2. \A c \in ch : Begun(c) /\ c.start \in Nat /\ c.end \in Nat /\ c.start <= now
    BY DEF Rows, Begun
  <1>3. ASSUME NEW c \in ch, c.key = k, now < c.end
        PROVE  p # NoPeriod /\ c \in row
    <2>1. p = [start |-> c.start, end |-> c.end]
      BY <1>1, <1>3, RunningRow
    <2>2. p.start = c.start /\ c.start # Never
      BY <2>1, <1>2 DEF Never
    <2> QED BY <2>2, <1>3 DEF NoPeriod
  <1>4. (p # NoPeriod /\ UnitEnd(k) = keys[k].ends) => After(UnitEnd(k), p.start)
    <2>1. ASSUME p # NoPeriod PROVE p.start \in Nat /\ p.start <= now
      <3>1. \/ Opens(p, Never)
            \/ \E c \in ch : p = [start |-> c.start, end |-> c.end]
        BY <2>1, ResolvedPeriod
      <3> HIDE DEF p
      <3> QED BY <3>1, <1>2 DEF Opens
    <2> HIDE DEF p
    <2> QED BY <2>1, <1>1 DEF After
  <1>5. CASE p = NoPeriod \/ ~After(UnitEnd(k), p.start)
    <2>1. Stream(ch, k, now) = ch
      BY <1>5 DEF Stream
    <2>2. Mine(ch, k) = {c \in ch : c.key = k}
      BY <2>1 DEF Mine
    <2>3. \A c, d \in ch : (c.key = k /\ d.key = k /\ c # d) => Apart(c, d)
      BY DEF Rows
    <2> HIDE DEF p
    <2> QED BY <1>2, <1>3, <1>4, <1>5, <2>2, <2>3 DEF UnitRight
  <1>6. CASE p # NoPeriod /\ After(UnitEnd(k), p.start) /\ row = {}
    <2> DEFINE x == Charge(k, p, now)
    <2>1. Stream(ch, k, now) = ch \cup {x}
      BY <1>6 DEF Stream
    <2>2. Opens(p, Never) /\ \A c \in ch : c.key = k => c.end <= p.start
      <3>1. ASSUME NEW c \in ch, c.key = k, p = [start |-> c.start, end |-> c.end]
            PROVE  FALSE
        <4>1. p.start = c.start
          BY <3>1
        <4> HIDE DEF p
        <4> QED BY <4>1, <3>1, <1>6
      <3> QED BY <3>1, <1>6, ResolvedPeriod
    <2>3. /\ Begun(x) /\ x.key = k /\ x.start = p.start
          /\ x.final # Never => Payable(x)
          /\ fx # {} => x.final # Never
      BY <1>1, <2>2, ChargeFacts
    <2> HIDE DEF x, p
    <2>4. \A c : c \in Mine(ch, k) <=> (c = x \/ (c \in ch /\ c.key = k))
      BY <2>1, <2>3 DEF Mine
    <2>5. \A c \in ch : c.key = k => Apart(c, x) /\ Apart(x, c)
      BY <2>2, <2>3 DEF Apart
    <2>6. \A c, d \in ch : (c.key = k /\ d.key = k /\ c # d) => Apart(c, d)
      BY DEF Rows
    <2>7. \A c, d \in Mine(ch, k) : c # d => Apart(c, d)
      BY <2>4, <2>5, <2>6
    <2>8. \A c \in ch : c.key = k => ~(now < c.end)
      BY <1>3, <1>6
    <2> QED BY <1>2, <2>3, <2>4, <2>7, <2>8 DEF UnitRight
  <1>7. CASE p # NoPeriod /\ After(UnitEnd(k), p.start) /\ row # {}
    <2> DEFINE kept == {c \in ch : c.key = k /\ c.start # p.start}
    <2>1. Stream(ch, k, now) = (ch \ row) \cup {FillMissing(c, now) : c \in row}
      BY <1>7 DEF Stream
    <2>2. \A o \in row : /\ o \in ch /\ o.key = k /\ o.start = p.start
                         /\ Begun(FillMissing(o, now))
                         /\ FillMissing(o, now).key = o.key
                         /\ FillMissing(o, now).start = o.start
                         /\ FillMissing(o, now).end = o.end
                         /\ o.final # Never => FillMissing(o, now) = o
                         /\ FillMissing(o, now).final # Never
                              => (FillMissing(o, now) = o \/ Payable(FillMissing(o, now)))
                         /\ fx # {} => FillMissing(o, now).final # Never
      BY <1>1, <1>2, FillFacts
    <2>3. \A c \in kept : c \in ch /\ c.key = k /\ c.start # p.start /\ c \notin row
      OBVIOUS
    <2>4. \A c \in ch : c.key = k => (c \in kept \/ c \in row)
      OBVIOUS
    <2>5. \A c \in ch \ row : c.key = k => c \in kept
      OBVIOUS
    <2> HIDE DEF p, row, kept
    <2>6. \A c : c \in Mine(ch, k)
                  <=> (c \in kept \/ \E o \in row : c = FillMissing(o, now))
      BY <2>1, <2>2, <2>3, <2>5 DEF Mine
    <2>7. \A c, d \in ch : (c.key = k /\ d.key = k /\ c # d) => Apart(c, d)
      BY DEF Rows
    <2>8. ASSUME NEW c \in Mine(ch, k), NEW d \in Mine(ch, k), c # d PROVE Apart(c, d)
      <3>1. ASSUME NEW o \in row, NEW o2 \in row, o # o2
            PROVE  Apart(FillMissing(o, now), FillMissing(o2, now))
        BY <3>1, <2>2, <2>7 DEF Apart
      <3>2. ASSUME NEW o \in row, NEW e \in kept
            PROVE  Apart(FillMissing(o, now), e) /\ Apart(e, FillMissing(o, now))
        <4>1. o # e /\ Apart(o, e) /\ Apart(e, o)
          BY <3>2, <2>2, <2>3, <2>7
        <4> QED BY <4>1, <2>2 DEF Apart
      <3>3. ASSUME NEW e \in kept, NEW e2 \in kept, e # e2 PROVE Apart(e, e2)
        BY <3>3, <2>3, <2>7
      <3> QED BY <2>6, <2>8, <3>1, <3>2, <3>3
    <2>9. \A c \in Mine(ch, k) : Begun(c)
      BY <2>6, <2>2, <2>3, <1>2
    <2>10. \A c \in ch : (c.key = k /\ c.final # Never) => c \in Mine(ch, k)
      BY <2>4, <2>6, <2>2
    <2>11. \A c \in Mine(ch, k) : c.final # Never => (c \in ch \/ Payable(c))
      BY <2>6, <2>2, <2>3
    <2>12. fx # {} => \A c \in Mine(ch, k) : now < c.end => c.final # Never
      <3>1. \A e \in kept : ~(now < e.end)
        BY <2>3, <1>3
      <3> QED BY <3>1, <2>6, <2>2
    <2> QED BY <2>8, <2>9, <2>10, <2>11, <2>12 DEF UnitRight
  <1> HIDE DEF p, row
  <1> QED BY <1>5, <1>6, <1>7

(* The rows of a key after the pass are those of its unit, or untouched.   *)
LEMMA PassByKey ==
  ASSUME NEW ch, NEW c
  PROVE  c \in MaterializeCharges(ch, now)
            <=> \/ c \in ch /\ c.key \notin Units(now)
                \/ c.key \in Units(now) /\ c \in Mine(ch, c.key)
  <1> DEFINE of(k) == {d \in Stream(ch, k, now) : d.key = k}
  <1>1. \A k : c \in of(k) <=> (c.key = k /\ c \in Mine(ch, c.key))
    BY DEF Mine
  <1> HIDE DEF of
  <1> DEFINE all == {of(k) : k \in Units(now)}
             rest == {d \in ch : d.key \notin Units(now)}
  <1>2. \A s : s \in all <=> \E k \in Units(now) : s = of(k)
    OBVIOUS
  <1>3. MaterializeCharges(ch, now) = rest \cup UNION all
    BY DEF MaterializeCharges, of
  <1>4. c \in rest <=> (c \in ch /\ c.key \notin Units(now))
    OBVIOUS
  <1> HIDE DEF all, rest
  <1>5. c \in UNION all <=> (c.key \in Units(now) /\ c \in Mine(ch, c.key))
    <2>1. ASSUME c \in UNION all
          PROVE  c.key \in Units(now) /\ c \in Mine(ch, c.key)
      <3>1. PICK s \in all : c \in s
        BY <2>1
      <3> QED BY <3>1, <1>1, <1>2
    <2>2. ASSUME c.key \in Units(now), c \in Mine(ch, c.key)
          PROVE  c \in UNION all
      <3>1. of(c.key) \in all /\ c \in of(c.key)
        BY <2>2, <1>1, <1>2
      <3> QED BY <3>1
    <2> QED BY <2>1, <2>2
  <1> QED BY <1>3, <1>4, <1>5

(* A pass keeps the ledger right, keeps what is final as it is, and writes *)
(* nothing the exported events contradict.                                 *)
LEMMA PassIsRight ==
  ASSUME Types, Rows(charges)
  PROVE  LET ch == MaterializeCharges(charges, now)
         IN /\ Rows(ch)
            /\ Final(charges) \subseteq Final(ch)
            /\ \A c \in ch : c.final # Never => (c \in charges \/ Payable(c))
            /\ \A c \in ch, e \in Final(charges) :
                   (e.key = c.key /\ e.start = c.start) => e = c
  <1> DEFINE ch == MaterializeCharges(charges, now)
  <1>1. \A k \in Units(now) : UnitRight(charges, k)
    BY UnitPasses
  <1>2. \A c : c \in ch
                <=> \/ c \in charges /\ c.key \notin Units(now)
                    \/ c.key \in Units(now) /\ c \in Mine(charges, c.key)
    BY PassByKey
  <1> HIDE DEF ch
  <1>3. \A c \in ch : Begun(c)
    BY <1>1, <1>2 DEF UnitRight, Rows
  <1>4. \A c, d \in ch : (c.key = d.key /\ c # d) => Apart(c, d)
    BY <1>1, <1>2 DEF UnitRight, Rows
  <1>5. \A c \in charges : c.final # Never => c \in ch
    BY <1>1, <1>2 DEF UnitRight
  <1>6. \A c \in ch : c.final # Never => (c \in charges \/ Payable(c))
    BY <1>1, <1>2 DEF UnitRight
  <1>7. ASSUME NEW c \in ch, NEW e \in Final(charges), e.key = c.key, e.start = c.start
        PROVE  e = c
    <2>1. e \in ch
      BY <1>5 DEF Final
    <2>2. Begun(e) /\ Begun(c) /\ (e # c => Apart(e, c))
      BY <1>3, <1>4, <1>7, <2>1
    <2> QED BY <1>7, <2>2 DEF Begun, Apart
  <1>8. Rows(ch) /\ Final(charges) \subseteq Final(ch)
    BY <1>3, <1>4, <1>5 DEF Rows, Final
  <1> QED BY <1>6, <1>7, <1>8 DEF ch

------------------------------------------------------------------------------
(* The invariant, action by action.                                        *)

LEMMA LaterIsRight ==
  ASSUME Types, now' \in Nat, now <= now', UNCHANGED <<keys, usage, poll, fx>>
  PROVE  Types'
  <1>1. \A u : Passed(u) => (Passed(u))'
    BY DEF Passed, Types, Usages
  <1> QED BY <1>1 DEF Types

(* What a pass commits.                                                    *)
LEMMA CommitIsRight ==
  ASSUME BillInv, Types', fx' = fx, now' = now,
         Commit(MaterializeCharges(charges, now))
  PROVE  /\ BillInv'
         /\ Final(charges) \subseteq charges'
         /\ events \subseteq events'
  <1> DEFINE ch == MaterializeCharges(charges, now)
  <1>1. /\ Rows(ch) /\ Final(charges) \subseteq Final(ch)
        /\ \A c \in ch : c.final # Never => (c \in charges \/ Payable(c))
    BY PassIsRight DEF BillInv
  <1> HIDE DEF ch
  <1>2. charges' = ch /\ events' = events \cup {c \in ch : c.final # Never}
    BY DEF Commit, ExportEvents, ch
  <1>3. events' = Final(ch)
    BY <1>1, <1>2 DEF BillInv, Final
  <1>4. Rows(charges)' /\ Final(charges)' = Final(ch)
    BY <1>1, <1>2 DEF Rows, Begun, Final
  <1>5. \A c \in Final(ch) : Payable(c)
    BY <1>1 DEF Final, BillInv
  <1>6. BillInv'
    BY <1>3, <1>4, <1>5 DEF BillInv, Payable
  <1>7. Final(charges) \subseteq charges' /\ events \subseteq events'
    BY <1>1, <1>2 DEF Final
  <1> QED BY <1>6, <1>7

(* Steps that leave the ledger alone.                                      *)
LEMMA RestIsRight ==
  ASSUME BillInv, Types', UNCHANGED ledger, now <= now', fx \subseteq fx'
  PROVE  /\ BillInv'
         /\ Final(charges) \subseteq charges'
         /\ events \subseteq events'
  <1>1. now \in Nat /\ now' \in Nat /\ charges' = charges /\ events' = events
    BY DEF BillInv, Types, ledger
  <1>2. \A c : Begun(c) => (Begun(c))'
    BY <1>1 DEF Begun
  <1>3. Rows(charges)'
    BY <1>1, <1>2 DEF BillInv, Rows
  <1>4. Final(charges)' = Final(charges)
    BY <1>1 DEF Final
  <1>5. \A c : Payable(c) => (Payable(c))'
    BY DEF Payable
  <1>6. BillInv'
    BY <1>1, <1>3, <1>4, <1>5 DEF BillInv
  <1> QED BY <1>1, <1>6 DEF Final

LEMMA SuccessRight ==
  ASSUME now \in Nat, NEW u, Passed(u), NEW reset \in Int
  PROVE  Passed(Success(u, now, reset))
  <1>1. /\ u.start \in Int /\ u.end \in Int /\ u.resumed \in Int
        /\ u.start <= now /\ u.resumed <= now
    BY DEF Passed, Usages
  <1> DEFINE m == AdvanceMonthlyPeriod(u, now, reset)
             s == Success(u, now, reset)
  <1>2. m.start \in Int /\ m.start <= now /\ m.end \in Int
    <2>1. CASE u.start = Never
      BY <2>1, <1>1 DEF AdvanceMonthlyPeriod, Never
    <2>2. CASE u.start # Never
      <3> DEFINE start == IF u.end # Never /\ now >= u.end THEN u.end ELSE u.start
      <3>1. start \in Int /\ start <= now
        BY <1>1
      <3>2. m = [start |-> start, end |-> IF reset > start THEN reset ELSE u.end]
        BY <2>2 DEF AdvanceMonthlyPeriod
      <3> HIDE DEF start, m
      <3> QED BY <3>1, <3>2, <1>1
    <2> QED BY <2>1, <2>2
  <1> HIDE DEF m
  <1>3. s = [present |-> TRUE, checked |-> now, error |-> FALSE, errorAt |-> Never,
             sub |-> "active",
             resumed |-> IF u.sub = "inactive" THEN now ELSE u.resumed,
             start |-> m.start, end |-> m.end]
    BY DEF Success, m
  <1>4. s \in Usages
    BY <1>1, <1>2, <1>3 DEF Usages, Instants
  <1>5. s.start <= now /\ s.resumed <= now
    BY <1>1, <1>2, <1>3
  <1> QED BY <1>4, <1>5 DEF Passed

LEMMA FailureRight ==
  ASSUME now \in Nat, NEW u, Passed(u), NEW lapse \in BOOLEAN
  PROVE  Passed(Failure(u, lapse, now))
  <1> DEFINE s == Failure(u, lapse, now)
  <1>1. u \in Usages /\ u.start <= now /\ u.resumed <= now
    BY DEF Passed
  <1>2. s = [u EXCEPT !.present = TRUE, !.error = TRUE, !.errorAt = now,
                      !.sub = IF lapse THEN "inactive" ELSE u.sub]
    BY <1>1 DEF Failure, Usages
  <1> HIDE DEF s
  <1>3. s \in Usages /\ s.start = u.start /\ s.resumed = u.resumed
    BY <1>1, <1>2 DEF Usages, Instants
  <1> QED BY <1>1, <1>3 DEF Passed, s

LEMMA AnswerKeepsTypes ==
  ASSUME Types, NEW p \in Pollers, NEW k \in Keys, NEW answer, NEW reset,
         RecordUsageSnapshots(p, k, answer, reset),
         (answer = "ok" /\ reset \in Int) \/ answer \in {"refused", "failed"}
  PROVE  Types'
  <1>1. /\ now' = now /\ keys' = keys /\ fx' = fx
        /\ poll' = [poll EXCEPT ![p] = NoPoll]
        /\ usage' = usage \/ usage' = [usage EXCEPT ![k] = QueryUsage(p, k, answer, reset)]
    BY DEF RecordUsageSnapshots, live
  <1>2. Passed(QueryUsage(p, k, answer, reset))
    <2>1. Passed(poll[p][k]) /\ now \in Nat
      BY DEF Types
    <2>2. CASE answer = "ok" /\ reset \in Int
      BY <2>1, <2>2, SuccessRight DEF QueryUsage
    <2>3. CASE answer = "refused"
      BY <2>1, <2>3, FailureRight DEF QueryUsage
    <2>4. CASE answer = "failed"
      BY <2>1, <2>4, FailureRight DEF QueryUsage
    <2> QED BY <2>2, <2>3, <2>4
  <1>3. NoPoll \in [Keys -> Usages] /\ \A j \in Keys : Passed(NoPoll[j])
    <2>1. NoUsage \in Usages /\ NoUsage.start = -1 /\ NoUsage.resumed = -1
      BY DEF NoUsage, Usages, Instants, Never
    <2> DEFINE e == [NoUsage EXCEPT !.error = TRUE]
    <2>2. e \in Usages /\ e.start = -1 /\ e.resumed = -1
      BY <2>1 DEF Usages
    <2>3. NoPoll = [j \in Keys |-> e]
      BY DEF NoPoll
    <2> HIDE DEF e
    <2> QED BY <2>2, <2>3 DEF Passed, Types
  <1>4. \A u : (Passed(u))' <=> Passed(u)
    BY <1>1 DEF Passed
  <1>5. usage' \in [Keys -> Usages] /\ \A j \in Keys : Passed(usage'[j])
    BY <1>1, <1>2 DEF Types, Passed
  <1>6. poll' \in [Pollers -> [Keys -> Usages]]
        /\ \A q \in Pollers : \A j \in Keys : Passed(poll'[q][j])
    BY <1>1, <1>3 DEF Types
  <1>7. /\ now' \in Nat /\ keys' \in [Keys -> KeyRows] /\ fx' \subseteq Nat
        /\ \A j \in Keys : keys'[j].state = "live" => keys'[j].from \in Nat
    BY <1>1 DEF Types
  <1> QED BY <1>4, <1>5, <1>6, <1>7 DEF Types

(* A change of the keys that keeps every live one's anchor a past instant. *)
LEMMA KeysKeepTypes ==
  ASSUME Types, UNCHANGED <<now, usage, poll, fx>>, keys' \in [Keys -> KeyRows],
         \A k \in Keys : keys'[k].state = "live" => keys'[k].from \in Nat
  PROVE  Types'
  <1>1. \A u : (Passed(u))' <=> Passed(u)
    BY DEF Passed
  <1> QED BY <1>1 DEF Types

LEMMA PurgedKeys ==
  ASSUME Types, NEW gone
  PROVE  /\ PurgeKeys(gone) \in [Keys -> KeyRows]
         /\ \A k \in Keys : PurgeKeys(gone)[k].state = "live"
                            => PurgeKeys(gone)[k].from \in Nat
  <1>1. ASSUME NEW k \in Keys
        PROVE  /\ PurgeKeys(gone)[k] \in KeyRows
               /\ PurgeKeys(gone)[k].state = "live" => PurgeKeys(gone)[k].from \in Nat
    <2>1. keys[k] \in KeyRows /\ (keys[k].state = "live" => keys[k].from \in Nat)
      BY DEF Types
    <2>2. CASE k \in gone
      <3>1. PurgeKeys(gone)[k] = [keys[k] EXCEPT !.state = "gone"]
        BY <2>2 DEF PurgeKeys
      <3>2. PurgeKeys(gone)[k].state = "gone" /\ PurgeKeys(gone)[k] \in KeyRows
        BY <3>1, <2>1 DEF KeyRows
      <3> QED BY <3>2
    <2>3. CASE k \notin gone
      <3>1. PurgeKeys(gone)[k] = keys[k]
        BY <2>3 DEF PurgeKeys
      <3> QED BY <3>1, <2>1
    <2> QED BY <2>2, <2>3
  <1>2. PurgeKeys(gone) = [k \in Keys |-> PurgeKeys(gone)[k]]
    BY DEF PurgeKeys
  <1> QED BY <1>1, <1>2

LEMMA AddedKeyRight ==
  ASSUME now \in Nat
  PROVE  AddedKey(now) \in KeyRows /\ AddedKey(now).from \in Nat
  BY DEF AddedKey, KeyRows, Instants, Never

LEMMA EndedKeyRight ==
  ASSUME NEW r \in KeyRows, NEW e \in Int
  PROVE  /\ [r EXCEPT !.ends = e] \in KeyRows
         /\ [r EXCEPT !.ends = e].state = r.state
         /\ [r EXCEPT !.ends = e].from = r.from
  BY DEF KeyRows

(* What every step keeps: the invariant, the final rows and the events.    *)
Kept == BillInv' /\ Final(charges) \subseteq charges' /\ events \subseteq events'

LEMMA DeleteKeepsTypes ==
  ASSUME Types, NEW immediate \in BOOLEAN, DeleteAccount(immediate)
  PROVE  Types'
  <1> DEFINE end(k) == IF keys[k].ends = Never THEN CancellationEnd(k) ELSE keys[k].ends
             running == {k \in LiveKeys : After(keys[k].ends, now)}
             ended == [k \in Keys |-> IF k \in running
                          THEN [keys[k] EXCEPT !.ends = end(k)] ELSE keys[k]]
  <1>1. /\ UNCHANGED <<now, rates, fx, polls>>
        /\ keys' = PurgeKeys(LiveKeys) \/ keys' = ended
    BY DEF DeleteAccount
  <1>2. UNCHANGED <<now, usage, poll, fx>>
    BY <1>1 DEF polls
  <1>3. CASE keys' = PurgeKeys(LiveKeys)
    <2>1. /\ keys' \in [Keys -> KeyRows]
          /\ \A k \in Keys : keys'[k].state = "live" => keys'[k].from \in Nat
      BY <1>3, PurgedKeys
    <2> QED BY <1>2, <2>1, KeysKeepTypes
  <1>4. CASE keys' = ended
    <2>1. ASSUME NEW k \in running PROVE end(k) \in Int
      <3>1. k \in Keys /\ keys[k] \in KeyRows /\ keys[k].from \in Nat /\ now \in Nat
            /\ usage[k].end \in Int
        BY DEF Types, LiveKeys, Passed, Usages
      <3>2. BillingPeriod(now, keys[k].from).end \in Int
        <4>1. now \in Int /\ keys[k].from \in Int /\ Month \in Int
          BY <3>1, MonthAssumption
        <4> DEFINE b == BillingPeriod(now, keys[k].from)
        <4>2. b.start \in Int /\ b.end = b.start + Month
          BY <4>1, PeriodSpan
        <4> HIDE DEF b, ended
        <4>3. b.end \in Int
          BY <4>1, <4>2
        <4> QED BY <4>3 DEF b
      <3>3. CancellationEnd(k) \in Int
        BY <3>1, <3>2 DEF CancellationEnd
      <3> QED BY <3>1, <3>3 DEF KeyRows
    <2>2. running \subseteq Keys
      BY DEF LiveKeys
    <2>3. ASSUME NEW k \in Keys
          PROVE  /\ ended[k] \in KeyRows
                 /\ ended[k].state = "live" => ended[k].from \in Nat
      <3>1. keys[k] \in KeyRows /\ (keys[k].state = "live" => keys[k].from \in Nat)
        BY DEF Types
      <3>2. CASE k \in running
        <4>1. ended[k] = [keys[k] EXCEPT !.ends = end(k)] /\ end(k) \in Int
          BY <3>2, <2>1
        <4> HIDE DEF ended, end
        <4> QED BY <4>1, <3>1, EndedKeyRight
      <3>3. CASE k \notin running
        <4>1. ended[k] = keys[k]
          BY <3>3
        <4> HIDE DEF ended
        <4> QED BY <4>1, <3>1
      <3> QED BY <3>2, <3>3
    <2>4. ended = [k \in Keys |-> ended[k]]
      OBVIOUS
    <2> HIDE DEF ended
    <2>5. keys' \in [Keys -> KeyRows]
          /\ \A k \in Keys : keys'[k].state = "live" => keys'[k].from \in Nat
      BY <1>4, <2>3, <2>4
    <2> QED BY <1>2, <2>5, KeysKeepTypes
  <1> QED BY <1>1, <1>3, <1>4

LEMMA StepKeeps ==
  ASSUME BillInv, Next
  PROVE  Kept
  <1>1. Types /\ now \in Nat
    BY DEF BillInv, Types
  <1>2. ASSUME Types', UNCHANGED ledger, now <= now', fx \subseteq fx' PROVE Kept
    BY <1>2, RestIsRight DEF Kept
  <1>3. CASE Tick
    <2>1. now' \in Nat /\ now <= now' /\ UNCHANGED <<keys, usage, poll, fx>>
          /\ UNCHANGED ledger
      BY <1>1, <1>3 DEF Tick, live, polls
    <2>2. Types'
      BY <1>1, <2>1, LaterIsRight
    <2> QED BY <2>1, <2>2, <1>2
  <1>4. CASE MaterializePeriodCharges
    <2>1. UNCHANGED <<now, keys, usage, poll, fx>>
          /\ Commit(MaterializeCharges(charges, now))
      BY <1>4 DEF MaterializePeriodCharges, live, polls
    <2>2. Types'
      BY <1>1, <2>1, LaterIsRight
    <2> QED BY <2>1, <2>2, CommitIsRight DEF Kept
  <1>5. CASE FinalizeDeferredDeletions
    <2>1. UNCHANGED <<now, usage, poll, fx>> /\ UNCHANGED ledger
          /\ \E gone : keys' = PurgeKeys(gone)
      BY <1>5 DEF FinalizeDeferredDeletions, polls
    <2>2. Types'
      BY <1>1, <2>1, PurgedKeys, KeysKeepTypes
    <2> QED BY <1>1, <2>1, <2>2, <1>2
  <1>6. CASE CancelAccountDeletion
    <2> DEFINE renewed == [k \in Keys |-> IF keys[k].ends > now
                              THEN [keys[k] EXCEPT !.ends = Never] ELSE keys[k]]
    <2>1. UNCHANGED <<now, usage, poll, fx>> /\ UNCHANGED ledger /\ keys' = renewed
      BY <1>6 DEF CancelAccountDeletion, polls
    <2>2. ASSUME NEW k \in Keys
          PROVE  renewed[k] \in KeyRows /\ (renewed[k].state = "live" => renewed[k].from \in Nat)
      <3>1. keys[k] \in KeyRows /\ (keys[k].state = "live" => keys[k].from \in Nat)
        BY <1>1 DEF Types
      <3>2. renewed[k] = keys[k] \/ renewed[k] = [keys[k] EXCEPT !.ends = Never]
        OBVIOUS
      <3> HIDE DEF renewed
      <3>3. Never \in Int
        BY DEF Never
      <3> DEFINE r == [keys[k] EXCEPT !.ends = Never]
      <3>4. r \in KeyRows /\ r.state = keys[k].state /\ r.from = keys[k].from
        BY <3>1, <3>3, EndedKeyRight
      <3>5. renewed[k] = keys[k] \/ renewed[k] = r
        BY <3>2
      <3> HIDE DEF r
      <3> QED BY <3>1, <3>4, <3>5
    <2>3. renewed = [k \in Keys |-> renewed[k]]
      OBVIOUS
    <2> HIDE DEF renewed
    <2>4. keys' \in [Keys -> KeyRows]
          /\ \A k \in Keys : keys'[k].state = "live" => keys'[k].from \in Nat
      BY <2>1, <2>2, <2>3
    <2>5. Types'
      BY <1>1, <2>1, <2>4, KeysKeepTypes
    <2> QED BY <1>1, <2>1, <2>5, <1>2
  <1>7. ASSUME NEW k \in Keys, PrewarmFxRates(k) PROVE Kept
    <2> DEFINE day == ResolvePeriod(charges, k, now).start
    <2>1. /\ UNCHANGED <<now, keys, usage, poll>> /\ UNCHANGED ledger
          /\ fx' = fx \cup {day} /\ k \in Units(now)
          /\ ResolvePeriod(charges, k, now) # NoPeriod
      BY <1>7 DEF PrewarmFxRates, EnsureRate, live, polls
    <2>2. day \in Nat
      <3>1. \/ Opens(ResolvePeriod(charges, k, now), Never)
            \/ \E c \in charges : ResolvePeriod(charges, k, now)
                                     = [start |-> c.start, end |-> c.end]
        BY <1>1, <2>1, ResolvedPeriod DEF BillInv
      <3>2. \A c \in charges : c.start \in Nat
        BY DEF BillInv, Rows, Begun
      <3> QED BY <3>1, <3>2 DEF Opens
    <2> HIDE DEF day
    <2>3. \A u : (Passed(u))' <=> Passed(u)
      BY <2>1 DEF Passed
    <2>4. Types'
      BY <1>1, <2>1, <2>2, <2>3 DEF Types
    <2> QED BY <1>1, <2>1, <2>4, <1>2
  <1>8. CASE PrewarmToday
    <2>1. /\ UNCHANGED <<now, keys, usage, poll>> /\ UNCHANGED ledger
          /\ fx' = fx \cup {now}
      BY <1>8 DEF PrewarmToday, EnsureRate, live, polls
    <2>2. \A u : (Passed(u))' <=> Passed(u)
      BY <2>1 DEF Passed
    <2>3. Types'
      BY <1>1, <2>1, <2>2 DEF Types
    <2> QED BY <1>1, <2>1, <2>3, <1>2
  <1>9. ASSUME NEW new \in SUBSET Keys, NEW price, CreateAccount(new, price) PROVE Kept
    <2> DEFINE made == [k \in Keys |-> IF k \in new THEN AddedKey(now) ELSE keys[k]]
    <2>1. UNCHANGED <<now, usage, poll, fx>> /\ UNCHANGED ledger /\ keys' = made
      BY <1>9 DEF CreateAccount, polls
    <2>2. keys' \in [Keys -> KeyRows]
          /\ \A k \in Keys : keys'[k].state = "live" => keys'[k].from \in Nat
      BY <1>1, <2>1, AddedKeyRight DEF Types
    <2>3. Types'
      BY <1>1, <2>1, <2>2, KeysKeepTypes
    <2> QED BY <1>1, <2>1, <2>3, <1>2
  <1>10. ASSUME NEW price, NEW cur, UpdateAccount(price, cur) PROVE Kept
    <2>1. UNCHANGED <<now, keys, usage, poll, fx>> /\ UNCHANGED ledger
      BY <1>10 DEF UpdateAccount, polls
    <2>2. Types'
      BY <1>1, <2>1, LaterIsRight
    <2> QED BY <1>1, <2>1, <2>2, <1>2
  <1>11. ASSUME NEW k \in Keys, NEW named \in BOOLEAN, SetUpstreamKeys(k, named) PROVE Kept
    <2>1. /\ UNCHANGED <<now, usage, poll, fx>> /\ UNCHANGED ledger
          /\ \/ keys' = [keys EXCEPT ![k] = AddedKey(now)]
             \/ keys' = PurgeKeys({k})
      BY <1>11 DEF SetUpstreamKeys, polls
    <2>2. keys' \in [Keys -> KeyRows]
          /\ \A j \in Keys : keys'[j].state = "live" => keys'[j].from \in Nat
      <3>1. CASE keys' = [keys EXCEPT ![k] = AddedKey(now)]
        BY <1>1, <3>1, AddedKeyRight DEF Types
      <3>2. CASE keys' = PurgeKeys({k})
        BY <1>1, <3>2, PurgedKeys
      <3> QED BY <2>1, <3>1, <3>2
    <2>3. Types'
      BY <1>1, <2>1, <2>2, KeysKeepTypes
    <2> QED BY <1>1, <2>1, <2>3, <1>2
  <1>12. ASSUME NEW immediate \in BOOLEAN, DeleteAccount(immediate) PROVE Kept
    <2>1. /\ fx' = fx /\ now' = now
          /\ Commit(MaterializeCharges(charges, now))
      BY <1>12 DEF DeleteAccount
    <2>2. Types'
      BY <1>1, <1>12, DeleteKeepsTypes
    <2> QED BY <2>1, <2>2, CommitIsRight DEF Kept
  <1>13. ASSUME NEW p \in Pollers, PollRead(p) PROVE Kept
    <2>1. /\ UNCHANGED <<now, keys, usage, fx>> /\ UNCHANGED ledger
          /\ poll' = [poll EXCEPT ![p] = usage]
      BY <1>13 DEF PollRead, live
    <2>2. \A u : (Passed(u))' <=> Passed(u)
      BY <2>1 DEF Passed
    <2>3. Types'
      BY <1>1, <2>1, <2>2 DEF Types
    <2> QED BY <1>1, <2>1, <2>3, <1>2
  <1>14. ASSUME NEW p \in Pollers, NEW k \in Keys, NEW answer, NEW reset,
                RecordUsageSnapshots(p, k, answer, reset),
                (answer = "ok" /\ reset \in Int) \/ answer \in {"refused", "failed"}
         PROVE  Kept
    <2>1. UNCHANGED <<now, fx>> /\ UNCHANGED ledger
      BY <1>14 DEF RecordUsageSnapshots
    <2>2. Types'
      BY <1>1, <1>14, AnswerKeepsTypes
    <2> QED BY <1>1, <2>1, <2>2, <1>2
  <1>15. \A term \in Terms : now + term \in Int
    BY <1>1, TermsAssumption
  <1> QED
    BY <1>3, <1>4, <1>5, <1>6, <1>7, <1>8, <1>9, <1>10, <1>11, <1>12, <1>13, <1>14, <1>15
    DEF Next

LEMMA StutterKeeps ==
  ASSUME BillInv, UNCHANGED vars
  PROVE  Kept
  <1>1. UNCHANGED <<now, keys, usage, poll, fx>> /\ UNCHANGED ledger
    BY DEF vars, ledger
  <1>2. now \in Nat /\ Types
    BY DEF BillInv, Types
  <1>3. Types'
    BY <1>1, <1>2, LaterIsRight
  <1> QED BY <1>1, <1>2, <1>3, RestIsRight DEF Kept

LEMMA InitIsRight ==
  ASSUME Init
  PROVE  BillInv
  <1>1. NewKey \in KeyRows /\ NewKey.state # "live"
    BY DEF NewKey, KeyRows, Instants, Never
  <1>2. NoUsage \in Usages /\ NoUsage.start = -1 /\ NoUsage.resumed = -1
    BY DEF NoUsage, Usages, Instants, Never
  <1> DEFINE e == [NoUsage EXCEPT !.error = TRUE]
  <1>3. e \in Usages /\ e.start = -1 /\ e.resumed = -1
    BY <1>2 DEF Usages
  <1>4. NoPoll = [k \in Keys |-> e]
    BY DEF NoPoll
  <1> HIDE DEF e
  <1>5. now = 0 /\ keys = [k \in Keys |-> NewKey] /\ usage = [k \in Keys |-> NoUsage]
        /\ poll = [p \in Pollers |-> NoPoll] /\ fx = {} /\ charges = {} /\ events = {}
    BY DEF Init
  <1>6. Passed(NoUsage) /\ Passed(e)
    BY <1>2, <1>3, <1>5 DEF Passed
  <1>7. Types
    BY <1>1, <1>2, <1>3, <1>4, <1>5, <1>6 DEF Types
  <1> QED BY <1>5, <1>7 DEF BillInv, Rows, Final

LEMMA AlwaysRight == Spec => []BillInv
  <1>1. BillInv /\ [Next]_vars => BillInv'
    BY StepKeeps, StutterKeeps DEF Kept
  <1> QED BY <1>1, InitIsRight, PTL DEF Spec

(* No instant of a key is charged twice, whatever mix of anchors,          *)
(* observations, lapses and resumptions its periods came from, and however *)
(* the polls overlap.                                                      *)
THEOREM NoInstantTwice == Spec => []PeriodsDisjoint
  <1>1. BillInv => PeriodsDisjoint
    BY DEF BillInv, Rows, Apart, PeriodsDisjoint
  <1> QED BY <1>1, AlwaysRight, PTL

(* A final row and its event are never changed or removed, every final row *)
(* has exactly its event, and no pass of the materializer finds a row that *)
(* contradicts its event.                                                  *)
THEOREM FactsStay == Spec => FactsFrozen
  <1> DEFINE Frozen == /\ {c \in charges : c.final # Never} \subseteq charges'
                       /\ events \subseteq events'
                       /\ now' # now => ~PayloadChanged(MaterializeCharges(charges, now))
                       /\ events' = {c \in charges' : c.final # Never}
  <1>1. BillInv /\ [Next]_vars => [Frozen]_vars
    <2> SUFFICES ASSUME BillInv, [Next]_vars PROVE Frozen
      OBVIOUS
    <2>1. Kept
      BY StepKeeps, StutterKeeps
    <2>2. ~PayloadChanged(MaterializeCharges(charges, now))
      BY PassIsRight DEF BillInv, PayloadChanged
    <2>3. events' = {c \in charges' : c.final # Never}
      BY <2>1 DEF Kept, BillInv, Final
    <2> QED BY <2>1, <2>2, <2>3 DEF Kept, Final
  <1> QED BY <1>1, AlwaysRight, PTL DEF Spec, FactsFrozen

------------------------------------------------------------------------------
(* Deletion.                                                               *)

(* In a ledger with no row pending, every row of the newest start is final. *)
LEMMA NewestIsFinal ==
  ASSUME now \in Nat, NEW ch, Rows(ch), ch # {}, ~Pending(ch)
  PROVE  \E d \in ch : /\ d.final # Never /\ d.start <= now
                       /\ \A c \in ch : c.start <= d.start
                       /\ \A c \in ch : c.start = d.start => c.final # Never
  <1> DEFINE S == {c.start : c \in ch}
  <1>1. \A c \in ch : c.start \in Nat /\ c.start <= now
    BY DEF Rows, Begun
  <1>2. S \in SUBSET (0..now) /\ S # {}
    BY <1>1
  <1>3. PICK s \in S : \A j \in S : j <= s
    <2> HIDE DEF S
    <2> QED BY <1>2, GreatestNatural
  <1>4. PICK d \in ch : d.start = s
    OBVIOUS
  <1>5. \A c \in ch : c.start <= d.start
    BY <1>3, <1>4
  <1>6. \A c \in ch : c.start = d.start => c.final # Never
    BY <1>1, <1>5 DEF Pending
  <1> QED BY <1>1, <1>5, <1>6

(* A deletion commits only a ledger in which the running period of every   *)
(* unit is charged, and final unless a later row in CNY is the newest.     *)
LEMMA DeletionFreezes ==
  ASSUME BillInv, ends = Never, NEW k \in Units(now),
         ~Pending(MaterializeCharges(charges, now)),
         ResolvePeriod(MaterializeCharges(charges, now), k, now) # NoPeriod
  PROVE  \E c \in MaterializeCharges(charges, now) :
            /\ c.key = k
            /\ c.start = ResolvePeriod(MaterializeCharges(charges, now), k, now).start
            /\ \/ c.final # Never
               \/ \E d \in MaterializeCharges(charges, now) :
                     d.currency = "CNY" /\ d.start > c.start /\ d.start <= now
  <1> DEFINE ch == MaterializeCharges(charges, now)
             p == ResolvePeriod(ch, k, now)
  <1>1. Types /\ now \in Nat /\ fx \subseteq Nat
    BY DEF BillInv, Types
  <1>2. /\ Rows(ch)
        /\ \A c \in ch : c.final # Never => (c \in charges \/ Payable(c))
    BY PassIsRight DEF BillInv
  <1>3. \/ \E c \in ch : /\ c.key = k /\ now < c.end
                         /\ p = [start |-> c.start, end |-> c.end]
        \/ /\ Opens(p, Never)
           /\ \A c \in ch : c.key = k => c.end <= p.start
    BY <1>1, <1>2, ResolvedPeriod
  <1>4. \A c : c \in ch
                <=> \/ c \in charges /\ c.key \notin Units(now)
                    \/ c.key \in Units(now) /\ c \in Mine(charges, c.key)
    BY PassByKey
  <1>5. PICK b \in ch : b.key = k /\ b.start = p.start
    BY DEF Pending, BillingReady
  <1> HIDE DEF ch, p
  <1>6. ~(Opens(p, Never) /\ \A c \in ch : c.key = k => c.end <= p.start)
    BY <1>2, <1>5 DEF Rows, Begun, Opens
  <1>7. PICK c \in ch : /\ c.key = k /\ now < c.end
                        /\ p = [start |-> c.start, end |-> c.end]
    BY <1>3, <1>6
  <1>8. fx # {} => c.final # Never
    <2>1. UnitRight(charges, k) /\ UnitEnd(k) = keys[k].ends
      BY <1>1, UnitPasses DEF UnitEnd, BillInv
    <2> QED BY <2>1, <1>4, <1>7 DEF UnitRight
  <1>9. ASSUME c.final = Never
        PROVE  \E d \in ch : d.currency = "CNY" /\ d.start > c.start /\ d.start <= now
    <2>1. ch # {} /\ ~Pending(ch)
      BY <1>7 DEF ch
    <2>2. PICK d \in ch : /\ d.final # Never /\ d.start <= now
                          /\ \A e \in ch : e.start <= d.start
                          /\ \A e \in ch : e.start = d.start => e.final # Never
      BY <1>1, <1>2, <2>1, NewestIsFinal
    <2>3. d.currency = "CNY"
      <3>1. Payable(d)
        BY <1>2, <2>2 DEF BillInv, Final
      <3> QED BY <3>1, <1>8, <1>9 DEF Payable
    <2>4. d.start > c.start
      <3>1. c.start <= d.start /\ c.start # d.start
        BY <2>2, <1>7, <1>9
      <3>2. c.start \in Nat /\ d.start \in Nat
        BY <1>2 DEF Rows, Begun
      <3> QED BY <3>1, <3>2
    <2> QED BY <2>2, <2>3, <2>4
  <1>10. c.start = p.start
    BY <1>7
  <1> QED BY <1>7, <1>9, <1>10 DEF ch, p

(* An account that is deleted, or scheduled for deletion, leaves no        *)
(* billable key whose current period is not charged; the row is frozen and *)
(* exported too, unless a later row in CNY hides it from the pending check. *)
THEOREM DeletionLeavesNothingOpen == Spec => FrozenBeforeDeletion
  <1> DEFINE Frozen == \A k \in Units(now) : LET p == ResolvePeriod(charges', k, now)
                         IN p # NoPeriod =>
                              /\ \E c \in charges' : c.key = k /\ c.start = p.start
                              /\ Exported(k, p) \/ Masked(p)
  <1>1. BillInv /\ [Next]_vars => [DeletionCommits => Frozen]_vars
    <2> SUFFICES ASSUME BillInv, [Next]_vars, DeletionCommits PROVE Frozen
      OBVIOUS
    <2> USE DEF DeletionCommits
    <2>1. \E immediate \in BOOLEAN : DeleteAccount(immediate)
      <3>2. CASE UNCHANGED vars
        BY <3>2 DEF vars
      <3>3. CASE FinalizeDeferredDeletions
        BY <3>3 DEF FinalizeDeferredDeletions, After
      <3>4. CASE CancelAccountDeletion
        BY <3>4 DEF CancelAccountDeletion
      <3>5. ASSUME NEW new, NEW price, CreateAccount(new, price) PROVE FALSE
        BY <3>5 DEF CreateAccount
      <3>6. ASSUME NEW k, NEW named, SetUpstreamKeys(k, named) PROVE FALSE
        BY <3>6 DEF SetUpstreamKeys
      <3>7. CASE \/ Tick \/ MaterializePeriodCharges \/ PrewarmToday
                 \/ \E k \in Keys : PrewarmFxRates(k)
                 \/ \E price \in Prices, cur \in Currencies : UpdateAccount(price, cur)
                 \/ \E p \in Pollers : PollRead(p)
                 \/ \E p \in Pollers, k \in Keys, term \in Terms :
                        RecordUsageSnapshots(p, k, "ok", now + term)
                 \/ \E p \in Pollers, k \in Keys, answer \in {"refused", "failed"} :
                        RecordUsageSnapshots(p, k, answer, Never)
        <4>1. UNCHANGED <<account, ends>>
          BY <3>7 DEF Tick, MaterializePeriodCharges, PrewarmToday, PrewarmFxRates, UpdateAccount,
                      PollRead, RecordUsageSnapshots, live
        <4> QED BY <4>1
      <3> QED BY <3>2, <3>3, <3>4, <3>5, <3>6, <3>7 DEF Next
    <2>2. PICK immediate \in BOOLEAN : DeleteAccount(immediate)
      BY <2>1
    <2> DEFINE ch == MaterializeCharges(charges, now)
    <2>3. ~Pending(ch) /\ Commit(ch)
      BY <2>2 DEF DeleteAccount
    <2>4. charges' = ch /\ ends = Never
      BY <2>3 DEF Commit
    <2>5. ASSUME NEW k \in Units(now), ResolvePeriod(ch, k, now) # NoPeriod
          PROVE  LET p == ResolvePeriod(ch, k, now)
                 IN /\ \E c \in ch : c.key = k /\ c.start = p.start
                    /\ \/ \E e \in events' : e.key = k /\ e.start = p.start
                       \/ \E d \in ch : d.currency = "CNY" /\ d.start > p.start
                                         /\ d.start <= now
      <3>1. PICK c \in ch : /\ c.key = k
                            /\ c.start = ResolvePeriod(ch, k, now).start
                            /\ \/ c.final # Never
                               \/ \E d \in ch : d.currency = "CNY" /\ d.start > c.start
                                                 /\ d.start <= now
        BY <2>3, <2>4, <2>5, DeletionFreezes
      <3>2. c.final # Never => c \in events'
        BY <2>3, <3>1 DEF Commit, ExportEvents
      <3> HIDE DEF ch
      <3> QED BY <3>1, <3>2
    <2> HIDE DEF ch
    <2> QED BY <2>4, <2>5 DEF Exported, Masked
  <1> QED BY <1>1, AlwaysRight, PTL DEF Spec, FrozenBeforeDeletion
------------------------------------------------------------------------------
(* No charge for a lapse.                                                  *)

(* What the pollers saw of a key none of whose answers was overwritten:    *)
(* refused since its last answer it is inactive, and each gap it came out  *)
(* of begins before it resumed.                                            *)
GapInv ==
  /\ \A k \in Keys : /\ lapsed[k] \in Instants
                     /\ k \notin overwritten /\ lapsed[k] # Never
                          => usage[k].sub = "inactive"
  /\ \A g \in gaps : /\ g.key \in Keys /\ g.from \in Int
                     /\ g.key \notin overwritten => g.from < usage[g.key].resumed
LapsedTypes == lapsed \in [Keys -> Instants]

LEMMA AnswerKeepsGaps ==
  ASSUME BillInv, GapInv, LapsedTypes, NEW p \in Pollers, NEW k \in Keys,
         NEW answer \in {"ok", "refused", "failed"}, NEW reset,
         RecordUsageSnapshots(p, k, answer, reset)
  PROVE  (GapInv /\ LapsedTypes)'
  <1> DEFINE u == usage[k]
             prior == poll[p][k]
             v == QueryUsage(p, k, answer, reset)
  <1>1. /\ now \in Nat /\ poll \in [Pollers -> [Keys -> Usages]]
        /\ usage \in [Keys -> Usages] /\ \A j \in Keys : Passed(usage[j])
    BY DEF BillInv, Types
  <1>2. prior \in Usages
    BY <1>1
  <1>3. /\ u \in Usages /\ u.resumed \in Int /\ u.resumed <= now
    BY <1>1 DEF Passed, Usages
  <1>4. CASE UNCHANGED <<usage, lapsed, gaps, overwritten>>
    BY <1>4 DEF GapInv, LapsedTypes
  <1>5. CASE /\ usage' = [usage EXCEPT ![k] = v]
             /\ lapsed' = [lapsed EXCEPT ![k] =
                   IF answer = "refused" THEN now
                   ELSE IF answer = "ok" THEN Never ELSE @]
             /\ gaps' = IF answer = "ok" /\ lapsed[k] # Never /\ lapsed[k] < now
                       THEN gaps \cup {[key |-> k, from |-> lapsed[k], to |-> now]}
                       ELSE gaps
             /\ overwritten' = IF Overwrites(p, k, answer) THEN overwritten \cup {k}
                              ELSE overwritten
    <2>0. /\ overwritten \subseteq overwritten'
          /\ k \notin overwritten' =>
               k \notin overwritten /\ (prior = u \/ (answer = "ok" /\ prior.sub = "inactive"))
      BY <1>5 DEF Overwrites
    <2>1. /\ answer = "refused" => v.sub = "inactive" /\ v.resumed = prior.resumed
          /\ answer = "failed" => v.sub = prior.sub /\ v.resumed = prior.resumed
          /\ answer = "ok" => v.resumed = IF prior.sub = "inactive" THEN now
                                          ELSE prior.resumed
      <3>1. /\ v = CASE answer = "ok" -> Success(prior, now, reset)
                     [] answer = "refused" -> Failure(prior, TRUE, now)
                     [] answer = "failed" -> Failure(prior, FALSE, now)
        BY DEF QueryUsage
      <3>2. Success(prior, now, reset).resumed
               = IF prior.sub = "inactive" THEN now ELSE prior.resumed
        BY DEF Success
      <3>3. /\ Failure(prior, TRUE, now).sub = "inactive"
            /\ Failure(prior, TRUE, now).resumed = prior.resumed
            /\ Failure(prior, FALSE, now).sub = prior.sub
            /\ Failure(prior, FALSE, now).resumed = prior.resumed
        BY <1>2 DEF Failure, Usages
      <3> HIDE DEF prior, v
      <3> QED BY <3>1, <3>2, <3>3
    <2> HIDE DEF v, prior
    <2>2. /\ usage'[k] = v /\ \A j \in Keys : j # k => usage'[j] = usage[j]
          /\ lapsed'[k] = IF answer = "refused" THEN now
                          ELSE IF answer = "ok" THEN Never ELSE lapsed[k]
          /\ \A j \in Keys : j # k => lapsed'[j] = lapsed[j]
          /\ LapsedTypes'
      BY <1>1, <1>5 DEF LapsedTypes, Instants
    <2>3. ASSUME NEW j \in Keys
          PROVE  /\ lapsed'[j] \in Instants
                 /\ j \notin overwritten' /\ lapsed'[j] # Never
                      => usage'[j].sub = "inactive"
      <3>1. CASE j = k
        <4>1. lapsed'[j] \in Instants
          BY <2>2, <1>1 DEF LapsedTypes
        <4>2. ASSUME k \notin overwritten', lapsed'[k] # Never
              PROVE  v.sub = "inactive"
          <5>1. k \notin overwritten /\ answer # "ok" /\ prior = u
            BY <4>2, <2>0, <2>2
          <5>2. answer = "failed" => u.sub = "inactive"
            BY <4>2, <5>1, <2>2 DEF GapInv
          <5> QED BY <5>1, <5>2, <2>1
        <4> QED BY <3>1, <4>1, <4>2, <2>2
      <3>2. CASE j # k
        BY <3>2, <2>0, <2>2 DEF GapInv
      <3> QED BY <3>1, <3>2
    <2>4. ASSUME NEW g \in gaps'
          PROVE  /\ g.key \in Keys /\ g.from \in Int
                 /\ g.key \notin overwritten' => g.from < usage'[g.key].resumed
      <3>1. CASE g \in gaps
        <4>1. /\ g.key \in Keys /\ g.from \in Int
              /\ g.key \notin overwritten => g.from < usage[g.key].resumed
          BY <3>1 DEF GapInv
        <4>2. g.key = k /\ k \notin overwritten' => v.resumed \in {now, u.resumed}
          BY <2>0, <2>1
        <4> QED BY <4>1, <4>2, <2>0, <2>2, <1>1, <1>3
      <3>2. CASE g \notin gaps
        <4>1. /\ g = [key |-> k, from |-> lapsed[k], to |-> now]
              /\ answer = "ok" /\ lapsed[k] # Never /\ lapsed[k] < now
          BY <3>2, <1>5
        <4>2. lapsed[k] \in Int
          BY <4>1 DEF GapInv, Instants, Never
        <4>3. k \notin overwritten' => prior.sub = "inactive"
          BY <4>1, <2>0 DEF GapInv
        <4> QED BY <4>1, <4>2, <4>3, <2>1, <2>2
      <3> QED BY <3>1, <3>2
    <2> QED BY <2>2, <2>3, <2>4 DEF GapInv
  <1> QED BY <1>4, <1>5 DEF RecordUsageSnapshots

LEMMA GapStep ==
  ASSUME BillInv, GapInv, LapsedTypes, [Next]_vars
  PROVE  (GapInv /\ LapsedTypes)'
  <1>1. CASE UNCHANGED polls
    BY <1>1 DEF polls, GapInv, LapsedTypes
  <1>2. ASSUME NEW p \in Pollers, PollRead(p) PROVE (GapInv /\ LapsedTypes)'
    BY <1>2 DEF PollRead, GapInv, LapsedTypes
  <1>3. ASSUME NEW p \in Pollers, NEW k \in Keys, NEW answer \in {"ok", "refused", "failed"},
               NEW reset, RecordUsageSnapshots(p, k, answer, reset)
        PROVE  (GapInv /\ LapsedTypes)'
    BY <1>3, AnswerKeepsGaps
  <1>4. CASE UNCHANGED vars
    BY <1>1, <1>4 DEF vars, polls
  <1>5. CASE Next
    <2>1. (\/ Tick \/ MaterializePeriodCharges \/ FinalizeDeferredDeletions
           \/ CancelAccountDeletion \/ PrewarmToday) => UNCHANGED polls
      BY DEF Tick, MaterializePeriodCharges, FinalizeDeferredDeletions,
             CancelAccountDeletion, PrewarmToday
    <2>2. \A k \in Keys : PrewarmFxRates(k) => UNCHANGED polls
      BY DEF PrewarmFxRates
    <2>3. \A new, price : CreateAccount(new, price) => UNCHANGED polls
      BY DEF CreateAccount
    <2>4. /\ \A price, cur : UpdateAccount(price, cur) => UNCHANGED polls
          /\ \A k, named : SetUpstreamKeys(k, named) => UNCHANGED polls
      BY DEF UpdateAccount, SetUpstreamKeys
    <2>5. \A immediate : DeleteAccount(immediate) => UNCHANGED polls
      BY DEF DeleteAccount
    <2> QED BY <1>1, <1>2, <1>3, <1>5, <2>1, <2>2, <2>3, <2>4, <2>5 DEF Next
  <1> QED BY <1>4, <1>5

(* A period that no row has begins when the key resumed, or later.         *)
LEMMA NewPeriodResumes ==
  ASSUME Types, NEW ch, Rows(ch), NEW k \in Units(now),
         ResolvePeriod(ch, k, now) # NoPeriod,
         \A d \in ch : d.key = k => d.start # ResolvePeriod(ch, k, now).start
  PROVE  usage[k].resumed <= ResolvePeriod(ch, k, now).start
  <1> DEFINE row == Previous(ch, k, now)
             p == ResolvePeriod(ch, k, now)
             u == usage[k]
  <1>1. now \in Nat /\ k \in Keys /\ u \in Usages /\ u.resumed \in Int /\ u.start \in Int
        /\ keys[k].from \in Int
    BY UnitFacts DEF Types, Units, Usages, Instants, Never
  <1>2. \/ p = row /\ now < row.end
        \/ p \in {ObservedPeriod(u, k, row.end), AnchorPeriod(u, k, row.end, now)}
    BY DEF ResolvePeriod
  <1>3. \/ row = NoPeriod
        \/ \E c \in ch : c.key = k /\ row = [start |-> c.start, end |-> c.end]
    BY <1>1, PreviousRow
  <1>4. row.end \in Int
    <2> HIDE DEF row
    <2> QED BY <1>3 DEF NoPeriod, Never, Rows, Begun
  <1>5. ~(p = row /\ now < row.end)
    <2> SUFFICES ASSUME p = row, now < row.end PROVE FALSE
      OBVIOUS
    <2> HIDE DEF row, p
    <2>1. CASE row = NoPeriod
      BY <2>1, <1>1 DEF NoPeriod, Never
    <2>2. CASE \E c \in ch : c.key = k /\ row = [start |-> c.start, end |-> c.end]
      BY <2>2 DEF p
    <2> QED BY <1>3, <2>1, <2>2
  <1> HIDE DEF row, u
  <1>6. u.resumed <= ObservedPeriod(u, k, row.end).start
    BY <1>1, <1>4 DEF ObservedPeriod, Larger
  <1>7. u.resumed <= AnchorPeriod(u, k, row.end, now).start
    <2>1. BillingPeriod(now, keys[k].from).start \in Int
      BY <1>1, PeriodSpan
    <2> QED BY <1>1, <1>4, <2>1 DEF AnchorPeriod, Larger
  <1> HIDE DEF p
  <1> QED BY <1>2, <1>5, <1>6, <1>7 DEF p, u

LEMMA NewRowResumes ==
  ASSUME Types, NEW ch, Rows(ch), NEW c \in MaterializeCharges(ch, now),
         \A d \in ch : ~(d.key = c.key /\ d.start = c.start)
  PROVE  c.key \in Keys /\ c.start \in Int /\ usage[c.key].resumed <= c.start
  <1> DEFINE k == c.key
             p == ResolvePeriod(ch, k, now)
             row == {d \in ch : d.key = k /\ d.start = p.start}
  <1>1. c \notin ch
    OBVIOUS
  <1>2. k \in Units(now) /\ c \in Mine(ch, k)
    BY <1>1, PassByKey
  <1>3. c \in Stream(ch, k, now)
    BY <1>2 DEF Mine
  <1>4. ASSUME NEW o \in row PROVE c # FillMissing(o, now)
    <2>1. o.key = k /\ Begun(o) /\ o \in ch
      BY DEF Rows
    <2>2. FillMissing(o, now).key = o.key /\ FillMissing(o, now).start = o.start
      <3>1. now \in Nat /\ fx \subseteq Nat
        BY DEF Types
      <3> QED BY <2>1, <3>1, FillFacts
    <2> HIDE DEF row, p
    <2> QED BY <2>1, <2>2
  <1>5. p # NoPeriod /\ row = {} /\ c = Charge(k, p, now)
    <2> HIDE DEF p
    <2> QED BY <1>1, <1>3, <1>4 DEF Stream, p
  <1>6. c.start = p.start
    <2> HIDE DEF p
    <2> QED BY <1>5 DEF Charge
  <1>7. usage[k].resumed <= p.start
    BY <1>2, <1>5, NewPeriodResumes
  <1>8. k \in Keys
    BY <1>2 DEF Units
  <1>9. Begun(c)
    BY <1>2, UnitPasses DEF UnitRight
  <1> HIDE DEF p
  <1> QED BY <1>6, <1>7, <1>8, <1>9 DEF Begun

(* A key that is refused and answers again is not charged for the time in  *)
(* between: a period opened later begins when it resumed, however the      *)
(* polls overlap, unless one of its answers was replaced by a poll that    *)
(* had read before it.                                                     *)
THEOREM LapsesAreNotCharged == Spec => NoLapseBackfill
  <1> DEFINE Free == \A c \in charges' \ charges : Backfills(c) => c.key \in overwritten
  <1>1. Init => GapInv /\ LapsedTypes
    BY DEF Init, GapInv, LapsedTypes, Instants
  <1>2. BillInv /\ GapInv /\ LapsedTypes /\ [Next]_vars => (GapInv /\ LapsedTypes)'
    BY GapStep
  <1>3. BillInv /\ GapInv /\ [Next]_vars => [Free]_vars
    <2> SUFFICES ASSUME BillInv, GapInv, Next, NEW c \in charges', c \notin charges,
                        Backfills(c), c.key \notin overwritten
                 PROVE  FALSE
      OBVIOUS
    <2>0. /\ \A d \in charges : ~(d.key = c.key /\ d.start = c.start)
          /\ \E g \in gaps : g.key = c.key /\ c.start <= g.from /\ g.from < c.end
      BY DEF Backfills
    <2> PICK g \in gaps : g.key = c.key /\ c.start <= g.from /\ g.from < c.end
      BY <2>0
    <2>1. charges' = MaterializeCharges(charges, now)
      <3>1. charges' # charges
        OBVIOUS
      <3>2. (\/ Tick \/ FinalizeDeferredDeletions \/ CancelAccountDeletion \/ PrewarmToday)
              => charges' = charges
        BY DEF Tick, FinalizeDeferredDeletions, CancelAccountDeletion, PrewarmToday, ledger
      <3>3. \A k \in Keys : PrewarmFxRates(k) => charges' = charges
        BY DEF PrewarmFxRates, ledger
      <3>4. \A new, price : CreateAccount(new, price) => charges' = charges
        BY DEF CreateAccount, ledger
      <3>5. /\ \A price, cur : UpdateAccount(price, cur) => charges' = charges
            /\ \A k, named : SetUpstreamKeys(k, named) => charges' = charges
        BY DEF UpdateAccount, SetUpstreamKeys, ledger
      <3>6. /\ \A p : PollRead(p) => charges' = charges
            /\ \A p, k, answer, reset :
                 RecordUsageSnapshots(p, k, answer, reset) => charges' = charges
        BY DEF PollRead, RecordUsageSnapshots, ledger
      <3>7. /\ MaterializePeriodCharges => charges' = MaterializeCharges(charges, now)
            /\ \A immediate : DeleteAccount(immediate)
                                => charges' = MaterializeCharges(charges, now)
        BY DEF MaterializePeriodCharges, DeleteAccount, Commit
      <3> QED BY <3>1, <3>2, <3>3, <3>4, <3>5, <3>6, <3>7 DEF Next
    <2>2. c.key \in Keys /\ c.start \in Int /\ usage[c.key].resumed <= c.start
      BY <2>0, <2>1, NewRowResumes DEF BillInv
    <2>3. g.from \in Int /\ g.from < usage[c.key].resumed /\ usage[c.key].resumed \in Int
      BY <2>2 DEF GapInv, BillInv, Types, Usages
    <2> QED BY <2>2, <2>3
  <1> HIDE DEF Free
  <1>4. Spec => [][Free]_vars
    BY <1>1, <1>2, <1>3, AlwaysRight, PTL DEF Spec
  <1> QED BY <1>4 DEF NoLapseBackfill, Free
=============================================================================
