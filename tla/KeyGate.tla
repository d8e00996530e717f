------------------------------- MODULE KeyGate -------------------------------
(***************************************************************************)
(* AccountGate (core/account_gate.h): per upstream key slot a count of the *)
(* requests in flight and the failure states that keep new requests away.  *)
(* A quota cooldown and one short-lived avoid entry exist side by side.    *)
(*                                                                         *)
(* Deadlines are kept as the time that is left of them, so a passed        *)
(* deadline is 0 and Tick, one unit of time, is the only clock.  The code  *)
(* erases a passed entry lazily, which no caller can tell apart.           *)
(***************************************************************************)
EXTENDS Integers, FiniteSets

CONSTANTS
  Keys,            \* upstream key slots
  MaxConcurrency,  \* max_concurrency of each slot, 0 = unlimited
  QuotaHolds,      \* durations a quota_cooldown_plan can yield
  RateHolds,       \* Retry-After of an ordinary 429, or RATE_LIMIT_AVOID
  AuthHold,        \* AUTH_ERROR_AVOID
  FaultHold        \* PROVIDER_FAULT_AVOID

ASSUME GateAssumption ==
  /\ IsFiniteSet(Keys)
  /\ MaxConcurrency \in [Keys -> Nat]
  /\ QuotaHolds \subseteq Nat \ {0} /\ QuotaHolds # {}
  /\ RateHolds \subseteq Nat \ {0} /\ RateHolds # {}
  /\ AuthHold \in Nat \ {0} /\ FaultHold \in Nat \ {0}

VARIABLES
  count,     \* requests in flight per slot
  cooldown,  \* time left of the quota cooldown
  avoid      \* the avoid entry: kind and time left

gateVars == <<count, cooldown, avoid>>

NoAvoid == [kind |-> "none", left |-> 0]
Avoids  == [kind : {"none", "rate", "auth", "fault"}, left : Nat]

GateInit ==
  /\ count = [k \in Keys |-> 0]
  /\ cooldown = [k \in Keys |-> 0]
  /\ avoid = [k \in Keys |-> NoAvoid]

(* try_acquire_eligible: cooldown, then avoid, then concurrency.           *)
Full(k) == MaxConcurrency[k] > 0 /\ count[k] >= MaxConcurrency[k]
Verdict(k) ==
  CASE cooldown[k] > 0   -> "cooldown"
    [] cooldown[k] = 0 /\ avoid[k].left > 0 -> avoid[k].kind
    [] cooldown[k] = 0 /\ avoid[k].left = 0 /\ Full(k) -> "full"
    [] OTHER -> "acquired"

Acquire(k) ==
  /\ Verdict(k) = "acquired"
  /\ count' = [count EXCEPT ![k] = @ + 1]
  /\ UNCHANGED <<cooldown, avoid>>

Release(k) ==
  count' = [count EXCEPT ![k] = IF @ > 0 THEN @ - 1 ELSE @]

MarkCooldown(k, d) ==
  /\ cooldown' = [cooldown EXCEPT ![k] = d]
  /\ UNCHANGED avoid

(* One entry per slot: the newest failure replaces the others.             *)
MarkAvoid(k, kind, d) ==
  /\ avoid' = [avoid EXCEPT ![k] = [kind |-> kind, left |-> d]]
  /\ UNCHANGED cooldown

NoteSuccessClearsAll(k) ==  \* mutant: a success lifts the quota cooldown too
  /\ avoid' = [avoid EXCEPT ![k] = NoAvoid]
  /\ cooldown' = [cooldown EXCEPT ![k] = 0]
NoteSuccess(k) ==
  /\ avoid' = [avoid EXCEPT ![k] = NoAvoid]
  /\ UNCHANGED cooldown

(* The recovery thread has its evidence (usage watch, or a probe with 2xx).*)
ClearCooldown(k) ==
  /\ cooldown[k] > 0
  /\ cooldown' = [cooldown EXCEPT ![k] = 0]
  /\ UNCHANGED <<count, avoid>>

Passed(n) == IF n > 0 THEN n - 1 ELSE 0
GateTick ==
  /\ cooldown' = [k \in Keys |-> Passed(cooldown[k])]
  /\ avoid' = [k \in Keys |->
                 IF avoid[k].left <= 1 THEN NoAvoid
                 ELSE [avoid[k] EXCEPT !.left = @ - 1]]
  /\ UNCHANGED count

GateTypeOK ==
  /\ count \in [Keys -> Nat]
  /\ cooldown \in [Keys -> Nat]
  /\ avoid \in [Keys -> Avoids]
=============================================================================
