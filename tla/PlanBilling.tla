---------------------------- MODULE PlanBilling ----------------------------
(***************************************************************************)
(* The recurring charges of one Plan account whose keys are billed one by  *)
(* one: the usage pollers that observe each key's monthly reset, the       *)
(* materializer that opens, prices and freezes periods, the export events, *)
(* and the account's deletion, at once or at the end of the period.        *)
(*                                                                         *)
(* Time is counted in ticks; Month of them make an anchor period, and Age  *)
(* is how long an observation drives billing.  A credential that ends one  *)
(* second before the boundary b is live at the ticks below b, so its       *)
(* ends_at is b here.  Never stands for NULL.                              *)
(***************************************************************************)
EXTENDS Integers, FiniteSets, FiniteSetsExt

CONSTANTS
    Keys,       \* credential UUIDs, each created at most once
    Pollers,    \* usage polls that can overlap: the periodic one, the woken one
    Prices,     \* monthly prices
    Currencies, \* those a contract may have: CNY, or USD, which needs a rate
    Month, Age, Grace,
    Terms,      \* how far ahead an answer's monthly reset may lie
    MaxNow,     \* bound on the clock
    MaxPolls,   \* bound on the polls
    MaxFetches, \* bound on the exchange rates fetched
    MaxEdits,   \* bound on account and key changes and deletions
    MaxInputs   \* bound on polls, fetches and edits together

ASSUME MonthAssumption == Month \in Nat \ {0} /\ Age \in Nat /\ Grace \in Nat
ASSUME TermsAssumption == Terms \subseteq Int
ASSUME CurrenciesAssumption == Currencies \subseteq {"CNY", "USD"} /\ Currencies # {}
ASSUME PricesAssumption == Prices \subseteq Nat \ {0} /\ Prices # {}

VARIABLES
    now,
    account,   \* "none", "live" or "gone"
    ends,      \* billing_contracts.ends_at
    currency,  \* billing_contracts.currency
    keys,      \* [state, from, created, ends] of each upstream_credentials row
    usage,     \* usage_json of each key, NoUsage when NULL
    poll,      \* the priors a running poll read, NoPoll when it does not run
    rates,     \* billing_rate_events: the price effective from a tick
    fx,        \* the days whose USD exchange rate is stored
    charges,   \* billing_period_charges
    events,    \* billing_export_events
    edits, asked,
    lapsed,    \* instant of each key's last refused poll since its last answer
    gaps,      \* the unpaid gaps the pollers saw: [key, from, to]
    overwritten \* keys whose answer a poll replaced that had read before it

vars == <<now, account, ends, currency, keys, usage, poll, rates, fx, charges,
          events, edits, asked, lapsed, gaps, overwritten>>
live == <<account, ends, currency, keys>>
ledger == <<charges, events>>
polls == <<usage, poll, asked, lapsed, gaps, overwritten>>

Never == -1
NoUsage == [present |-> FALSE, checked |-> Never, error |-> FALSE,
            errorAt |-> Never, sub |-> "none", resumed |-> Never,
            start |-> Never, end |-> Never]
NoPoll == [k \in Keys |-> [NoUsage EXCEPT !.error = TRUE]]
NoPeriod == [start |-> Never, end |-> Never]
NewKey == [state |-> "new", from |-> Never, created |-> Never, ends |-> Never]

After(end, t) == end = Never \/ end > t      \* ends_at IS NULL OR ends_at > t
Inputs == asked + edits + Cardinality(fx)  \* what the bounds count
Larger(a, b) == IF a < b THEN b ELSE a

Init ==
    /\ now = 0 /\ account = "none" /\ ends = Never /\ edits = 0 /\ asked = 0
    /\ keys = [k \in Keys |-> NewKey]
    /\ usage = [k \in Keys |-> NoUsage]
    /\ poll = [p \in Pollers |-> NoPoll]
    /\ rates = [t \in 0 .. MaxNow |-> 0]
    /\ fx = {} /\ charges = {} /\ events = {}
    /\ currency \in Currencies
    /\ lapsed = [k \in Keys |-> Never] /\ gaps = {} /\ overwritten = {}

------------------------------------------------------------------------------
(* Periods.                                                                *)

BillingPeriod(t, anchor) ==
    LET start == ((t - anchor) \div Month) * Month + anchor
    IN [start |-> start, end |-> start + Month]

Fresh(at, t) == at # Never /\ t - at <= Age
Observed(u) == u.present /\ ~u.error /\ u.checked # Never
               /\ u.start # Never /\ u.end # Never
ObservedFresh(u, t) == Observed(u) /\ Fresh(u.checked, t)
LapseFresh(u, t) == u.sub = "inactive" /\ Fresh(u.errorAt, t)

Units(t) == {k \in Keys : account = "live" /\ keys[k].state = "live"
                          /\ keys[k].from <= t /\ After(keys[k].ends, t)}

(* The newest row of the key that has started, while there is one.         *)
Previous(ch, k, t) ==
    LET mine == {c \in ch : c.key = k /\ c.start <= t}
    IN IF mine = {} THEN NoPeriod
       ELSE LET c == CHOOSE c \in mine : \A d \in mine : d.start <= c.start
            IN [start |-> c.start, end |-> c.end]

ObservedUnresumed(u, k, last) ==  \* mutant: the resumption is ignored
    LET chain == IF last # Never THEN last ELSE u.start
        start == Larger(chain, keys[k].from)
    IN [start |-> start,
        end |-> IF u.end > start THEN u.end
                ELSE BillingPeriod(start, keys[k].from).end]
ObservedPeriod(u, k, last) ==
    LET chain == IF last # Never THEN last ELSE u.start
        start == Larger(Larger(chain, u.resumed), keys[k].from)
    IN [start |-> start,
        end |-> IF u.end > start THEN u.end
                ELSE BillingPeriod(start, keys[k].from).end]
AnchorPeriod(u, k, last, t) ==
    LET anchor == BillingPeriod(t, keys[k].from)
    IN [start |-> Larger(IF last # Never THEN last ELSE anchor.start, u.resumed),
        end |-> anchor.end]

ResolveNoChain(ch, k, t) ==  \* mutant: the ledger's last end is ignored
    LET row == Previous(ch, k, t) IN
    IF t < row.end THEN row
    ELSE IF ObservedFresh(usage[k], t) THEN ObservedPeriod(usage[k], k, Never)
    ELSE AnchorPeriod(usage[k], k, Never, t)
ResolvePeriod(ch, k, t) ==
    LET row == Previous(ch, k, t)
        u == usage[k]
    IN CASE t < row.end -> row
         [] t >= row.end /\ LapseFresh(u, t) -> NoPeriod
         [] t >= row.end /\ ~LapseFresh(u, t)
              /\ ~u.present /\ t - keys[k].created < Grace -> NoPeriod
         [] OTHER -> IF ObservedFresh(u, t) THEN ObservedPeriod(u, k, row.end)
                     ELSE AnchorPeriod(u, k, row.end, t)

------------------------------------------------------------------------------
(* The materializer, on the rows ch of a transaction at the instant t.     *)

RateFromTable(start) ==
    LET events_ == {d \in 0 .. MaxNow : d <= start /\ rates[d] # 0}
    IN IF events_ = {} THEN 0 ELSE rates[Max(events_)]

(* The stored rate nearest to a day, earlier ones first; Never if none.    *)
FxDate(day) ==
    LET earlier == {d \in fx : d <= day}
    IN IF day \in fx THEN day
       ELSE IF earlier # {} THEN Max(earlier)
       ELSE IF fx # {} THEN Min(fx) ELSE Never

(* CNY needs no rate; another currency needs any stored one.               *)
Convertible(cur, day) == cur = "CNY" \/ FxDate(day) # Never
RateDay(cur, day) == IF cur = "CNY" THEN Never ELSE FxDate(day)

(* A row is opened in the contract's currency of the moment.               *)
Charge(k, p, t) ==
    [key |-> k, start |-> p.start, end |-> p.end,
     price |-> RateFromTable(p.start), currency |-> currency,
     fx |-> RateDay(currency, p.start),
     final |-> IF Convertible(currency, p.start) THEN t ELSE Never]

\* mutant: frozen rows are filled in again
FillAll(c, t) == Charge(c.key, c, t)
(* An open row keeps its price and currency and waits for a rate; a final  *)
(* row is kept.                                                            *)
FillMissing(c, t) ==
    IF c.final # Never \/ ~Convertible(c.currency, c.start) THEN c
    ELSE [c EXCEPT !.fx = RateDay(c.currency, c.start), !.final = t]

UnitEnd(k) == IF ends = Never THEN keys[k].ends
              ELSE IF keys[k].ends = Never \/ ends < keys[k].ends THEN ends
              ELSE keys[k].ends
Stream(ch, k, t) ==
    LET p == ResolvePeriod(ch, k, t)
        row == {c \in ch : c.key = k /\ c.start = p.start}
    IN IF p = NoPeriod \/ ~After(UnitEnd(k), p.start) THEN ch
       ELSE IF row = {} THEN ch \cup {Charge(k, p, t)}
       ELSE (ch \ row) \cup {FillMissing(c, t) : c \in row}

(* The streams of different keys touch different rows.                     *)
MaterializeCharges(ch, t) ==
    {c \in ch : c.key \notin Units(t)}
        \cup UNION {{c \in Stream(ch, k, t) : c.key = k} : k \in Units(t)}

ExportEvents(ch) == events \cup {c \in ch : c.final # Never}
(* A source row whose payload differs from its event raises ValueError.    *)
PayloadChanged(ch) == \E c \in ch, e \in events :
    c.final # Never /\ e.key = c.key /\ e.start = c.start /\ e # c

BillingReady(ch, t) ==
    \A k \in Units(t) : LET p == ResolvePeriod(ch, k, t)
        IN p # NoPeriod => \E c \in ch : c.key = k /\ c.start = p.start

Commit(ch) == charges' = ch /\ events' = ExportEvents(ch)

EnsureRate(day) ==
    /\ Cardinality(fx) < MaxFetches /\ Inputs < MaxInputs
    /\ fx' = fx \cup {day}

(* Before the transaction, when the server answers: fetch the rate of a     *)
(* period that is not frozen, in the contract's currency: an open row of    *)
(* another currency is not asked for.                                       *)
PrewarmFxRates(k) ==
    /\ k \in Units(now) /\ currency # "CNY"
    /\ LET p == ResolvePeriod(charges, k, now)
       IN /\ p # NoPeriod /\ p.start >= 0
          /\ ~\E c \in charges : c.key = k /\ c.start = p.start /\ c.final # Never
          /\ EnsureRate(p.start)
    /\ UNCHANGED <<now, live, rates, ledger, edits, polls>>

(* Once a day the rate of the day is fetched, whatever the contracts need.  *)
PrewarmToday ==
    /\ now \notin fx /\ EnsureRate(now)
    /\ UNCHANGED <<now, live, rates, ledger, edits, polls>>

MaterializePeriodCharges ==
    /\ ~PayloadChanged(MaterializeCharges(charges, now))
    /\ Commit(MaterializeCharges(charges, now))
    /\ UNCHANGED <<now, live, rates, fx, edits, polls>>

------------------------------------------------------------------------------
(* The usage pollers.                                                      *)

AdvanceMonthlyPeriod(u, t, reset) ==
    IF u.start = Never
    THEN [start |-> IF reset = Never THEN Never ELSE t, end |-> reset]
    ELSE LET start == IF u.end # Never /\ t >= u.end THEN u.end ELSE u.start
         IN [start |-> start, end |-> IF reset > start THEN reset ELSE u.end]

(* Only a structured refusal sets the verdict; any other failure keeps it. *)
Failure(u, lapse, t) ==
    [u EXCEPT !.present = TRUE, !.error = TRUE, !.errorAt = t,
              !.sub = IF lapse THEN "inactive" ELSE @]

Success(u, t, reset) ==
    LET month == AdvanceMonthlyPeriod(u, t, reset)
    IN [present |-> TRUE, checked |-> t, error |-> FALSE, errorAt |-> Never,
        sub |-> "active",
        resumed |-> IF u.sub = "inactive" THEN t ELSE u.resumed,
        start |-> month.start, end |-> month.end]

(* usage_targets reads the priors, the requests run without a lock.        *)
PollRead(p) ==
    /\ poll[p] = NoPoll
    /\ asked < MaxPolls /\ Inputs < MaxInputs
    /\ asked' = asked + 1
    /\ \E k \in Keys : keys[k].state = "live" /\ After(keys[k].ends, now)
    /\ poll' = [poll EXCEPT ![p] = usage]
    /\ UNCHANGED <<now, live, usage, rates, fx, ledger, edits, lapsed, gaps,
                   overwritten>>

(* One answer per key; a credential deleted meanwhile matches no row.      *)
QueryUsage(p, k, answer, reset) ==
    LET prior == poll[p][k] IN
    CASE answer = "ok" -> Success(prior, now, reset)
      [] answer = "refused" -> Failure(prior, TRUE, now)
      [] answer = "failed" -> Failure(prior, FALSE, now)

(* Another poll recorded since this one read, and this one has not seen    *)
(* what it would lose; an answer after a refusal resumes in any case.      *)
Overwrites(p, k, answer) ==
    poll[p][k] # usage[k] /\ ~(answer = "ok" /\ poll[p][k].sub = "inactive")

RecordUsageSnapshots(p, k, answer, reset) ==
    /\ poll[p] # NoPoll
    /\ poll' = [poll EXCEPT ![p] = NoPoll]
    /\ IF keys[k].state = "live"
       THEN /\ usage' = [usage EXCEPT ![k] = QueryUsage(p, k, answer, reset)]
            /\ lapsed' = [lapsed EXCEPT ![k] =
                   IF answer = "refused" THEN now
                   ELSE IF answer = "ok" THEN Never ELSE @]
            /\ gaps' = IF answer = "ok" /\ lapsed[k] # Never /\ lapsed[k] < now
                       THEN gaps \cup {[key |-> k, from |-> lapsed[k], to |-> now]}
                       ELSE gaps
            /\ overwritten' = IF Overwrites(p, k, answer) THEN overwritten \cup {k}
                              ELSE overwritten
       ELSE UNCHANGED <<usage, lapsed, gaps, overwritten>>
    /\ UNCHANGED <<now, live, rates, fx, ledger, edits, asked>>

------------------------------------------------------------------------------
(* The account and its keys.                                               *)

AddedKey(from) == [state |-> "live", from |-> from, created |-> now, ends |-> Never]

PurgeKeys(gone) == [k \in Keys |-> IF k \in gone THEN [keys[k] EXCEPT !.state = "gone"]
                                   ELSE keys[k]]
LiveKeys == {k \in Keys : keys[k].state = "live"}

(* create_account opens the current charge in its own transaction, which   *)
(* the new key's grace leaves to the materializer.                         *)
CreateAccount(new, price) ==
    /\ account = "none"
    /\ account' = "live" /\ ends' = Never
    /\ keys' = [k \in Keys |-> IF k \in new THEN AddedKey(now) ELSE keys[k]]
    /\ rates' = [rates EXCEPT ![now] = price]
    /\ UNCHANGED <<now, currency, fx, ledger, edits, polls>>

Edit == edits < MaxEdits /\ Inputs < MaxInputs /\ edits' = edits + 1

(* A price event only when the price differs from the newest one; the      *)
(* contract takes the form's currency at once.                             *)
UpdateAccount(price, cur) ==
    /\ Edit /\ account = "live" /\ ends = Never
    /\ price # RateFromTable(MaxNow) \/ cur # currency
    /\ rates' = IF price # RateFromTable(MaxNow) THEN [rates EXCEPT ![now] = price]
                ELSE rates
    /\ currency' = cur
    /\ UNCHANGED <<now, account, ends, keys, fx, ledger, polls>>

(* The form's keys: kept, new, or removed at once.  While the account is   *)
(* ending the contract row is not found, so a request that names its type  *)
(* is refused (409, or a price event without a contract), and one that     *)
(* does not name it is taken for an api account and accepted.              *)
SetUpstreamKeys(k, named) ==
    /\ Edit /\ account = "live"
    /\ named => ends = Never
    /\ IF keys[k].state = "new"
       THEN keys' = [keys EXCEPT ![k] = AddedKey(now)]
       ELSE /\ k \in LiveKeys /\ After(keys[k].ends, now)
            /\ keys' = PurgeKeys({k})
    /\ UNCHANGED <<now, account, ends, currency, rates, fx, ledger, polls>>

CancellationEnd(k) ==
    IF ObservedFresh(usage[k], now) /\ usage[k].end > now THEN usage[k].end
    ELSE BillingPeriod(now, keys[k].from).end

\* mutant: nothing is ever pending
NotPending(ch) == FALSE
(* Every key needs a row, and the rows of the contract's newest period     *)
(* that has started must be final: an older one of another key is not seen.*)
Pending(ch) ==
    \/ ~BillingReady(ch, now)
    \/ \E c \in ch : /\ c.final = Never
                     /\ c.start <= now
                     /\ \A d \in ch : d.start <= now => d.start <= c.start

DeleteAccount(immediate) ==
    /\ Edit /\ account = "live"
    /\ ~(ends # Never /\ ends > now)
    /\ LET ch == MaterializeCharges(charges, now)
           running == {k \in LiveKeys : After(keys[k].ends, now)}
           end(k) == IF keys[k].ends = Never THEN CancellationEnd(k) ELSE keys[k].ends
       IN /\ ~PayloadChanged(ch) /\ ~Pending(ch)
          /\ Commit(ch)
          /\ IF immediate
             THEN account' = "gone" /\ ends' = Never /\ keys' = PurgeKeys(LiveKeys)
             ELSE /\ keys' = [k \in Keys |-> IF k \in running
                                 THEN [keys[k] EXCEPT !.ends = end(k)] ELSE keys[k]]
                  /\ ends' = Max({end(k) : k \in running} \cup {now})
                  /\ UNCHANGED account
    /\ UNCHANGED <<now, currency, rates, fx, polls>>

CancelAccountDeletion ==
    /\ account = "live"
    /\ ends # Never /\ ends > now
    /\ ends' = Never
    /\ keys' = [k \in Keys |-> IF keys[k].ends > now
                               THEN [keys[k] EXCEPT !.ends = Never] ELSE keys[k]]
    /\ UNCHANGED <<now, account, currency, rates, fx, ledger, edits, polls>>

FinalizeKeysOnly ==  \* mutant: the emptied account stays
    /\ {k \in LiveKeys : ~After(keys[k].ends, now)} # {}
    /\ keys' = PurgeKeys({k \in LiveKeys : ~After(keys[k].ends, now)})
    /\ UNCHANGED <<now, account, ends, currency, rates, fx, ledger, edits, polls>>
(* Every minute: the ended keys, then the ended account without keys.      *)
FinalizeDeferredDeletions ==
    LET expired == {k \in LiveKeys : ~After(keys[k].ends, now)}
        over == ~After(ends, now) /\ LiveKeys = expired
    IN /\ account = "live"
       /\ expired # {} \/ over
       /\ keys' = PurgeKeys(expired)
       /\ account' = IF over THEN "gone" ELSE account
       /\ ends' = IF over THEN Never ELSE ends
       /\ UNCHANGED <<now, currency, rates, fx, ledger, edits, polls>>

Tick ==
    /\ account = "live"
    /\ now < MaxNow /\ now' = now + 1
    /\ UNCHANGED <<live, rates, fx, ledger, edits, polls>>

Next ==
    \/ Tick \/ MaterializePeriodCharges \/ FinalizeDeferredDeletions
    \/ CancelAccountDeletion \/ PrewarmToday
    \/ \E k \in Keys : PrewarmFxRates(k)
    \/ \E new \in (SUBSET Keys) \ {{}} : CreateAccount(new, Min(Prices))
    \/ \E price \in Prices, cur \in Currencies : UpdateAccount(price, cur)
    \/ \E k \in Keys, named \in BOOLEAN : SetUpstreamKeys(k, named)
    \/ \E immediate \in BOOLEAN : DeleteAccount(immediate)
    \/ \E p \in Pollers : PollRead(p)
    \/ \E p \in Pollers, k \in Keys, term \in Terms :
           RecordUsageSnapshots(p, k, "ok", now + term)
    \/ \E p \in Pollers, k \in Keys, answer \in {"refused", "failed"} :
           RecordUsageSnapshots(p, k, answer, Never)

(* The finalizer of the dashboard runs every minute and the clock goes on. *)
Spec == Init /\ [][Next]_vars /\ WF_vars(FinalizeDeferredDeletions) /\ WF_vars(Tick)

------------------------------------------------------------------------------
(* No instant of a key is charged twice, whatever mix of anchors,          *)
(* observations, lapses and resumptions its periods came from.             *)
PeriodsDisjoint ==
    \A c, d \in charges : c.key = d.key /\ c # d => c.end <= d.start \/ d.end <= c.start

(* A finalized row and its event are financial facts: each final row has   *)
(* exactly its event, no later price, rate, poll or deletion changes or    *)
(* removes either, and so the export never refuses a row.                  *)
FactsFrozen == [][/\ {c \in charges : c.final # Never} \subseteq charges'
                  /\ events \subseteq events'
                  /\ now' # now => ~PayloadChanged(MaterializeCharges(charges, now))
                  /\ events' = {c \in charges' : c.final # Never}]_vars

(* A subscription seen again after a refusal never pays for the gap: no    *)
(* row opened after that covers the instant the upstream refused it.  Two  *)
(* pollers may overlap (maintenance.py:99-160); the exception is a key one *)
(* of whose answers was replaced by a poll that had read before it.        *)
Backfills(c) ==
    /\ ~\E d \in charges : d.key = c.key /\ d.start = c.start
    /\ \E g \in gaps : g.key = c.key /\ c.start <= g.from /\ g.from < c.end
NoLapseBackfill ==
    [][\A c \in charges' \ charges : Backfills(c) => c.key \in overwritten]_vars

(* Without the exception two overlapping polls violate it.                 *)
NoLapseBackfillEver == [][\A c \in charges' \ charges : ~Backfills(c)]_vars

Exported(k, p) == \E e \in events' : e.key = k /\ e.start = p.start
(* The contract's newest row is a later one, opened after a change to CNY. *)
Masked(p) == \E d \in charges' : d.currency = "CNY" /\ d.start > p.start /\ d.start <= now
DeletionCommits == /\ account = "live" /\ ends = Never
                   /\ account' = "gone" \/ ends' # Never

(* An account that is deleted or scheduled for deletion leaves no billable *)
(* key whose current period is not charged, and frozen and exported too,   *)
(* unless a later row of another key in CNY hides its open row from the    *)
(* pending check (lifecycle.py:39-46).                                     *)
FrozenBeforeDeletion ==
    [][DeletionCommits => \A k \in Units(now) :
          LET p == ResolvePeriod(charges', k, now)
          IN p # NoPeriod => /\ \E c \in charges' : c.key = k /\ c.start = p.start
                             /\ Exported(k, p) \/ Masked(p)]_vars

(* Without the exception a change of the currency violates it.             *)
AlwaysFrozenBeforeDeletion ==
    [][DeletionCommits => \A k \in Units(now) :
          LET p == ResolvePeriod(charges', k, now)
          IN p # NoPeriod => Exported(k, p)]_vars

(* An account that is ending takes no new key: every key it has ends too.  *)
(* Violated: a save that does not name the account's type is accepted.     *)
EndingTakesNoKey ==
    account = "live" /\ ends # Never => \A k \in LiveKeys : keys[k].ends # Never

(* A deferred deletion that is not cancelled ends: at its end the account  *)
(* goes, unless a key was saved while it was ending.                        *)
EndedAccountGoes ==
    (account = "live" /\ ends # Never /\ ends <= now)
        ~> (account = "gone" \/ \E k \in LiveKeys : keys[k].ends = Never)
==============================================================================
