---------------------------- MODULE CandidateUsage ----------------------------
(***************************************************************************)
(* What the scheduler reads out of the usage snapshot of a key             *)
(* (candidate_selection.h, first half): whether a window is spent, what    *)
(* pressure it exerts and whether the subscription has lapsed.  Operators  *)
(* only; times are wall seconds.                                           *)
(***************************************************************************)
EXTENDS Integers, FiniteSets, FiniteSetsExt

CONSTANTS
  FreshFor,   \* kUsageFreshSeconds
  LapseFor    \* kLapseEvidenceSeconds

ASSUME UsageAssumption ==
  /\ {FreshFor, LapseFor} \subseteq Nat \ {0}

(* A key without a snapshot: every test below answers no.                  *)
NoUsage ==
  [observed |-> 0, inactive |-> FALSE, errorAt |-> 0,
   windows |-> [n \in {} |-> 0]]

Fresh(u, now) == u.observed > 0 /\ now - u.observed <= FreshFor

Spent(w) == w.percent >= 100

(* A spent window counts until its reset; without a stamp, while fresh.    *)
Vetoes(u, w, now) ==
  Spent(w) /\ (w.resets > now \/ (w.resets = 0 /\ Fresh(u, now)))

Exhausted(u, now) ==
  \E n \in DOMAIN u.windows : Vetoes(u, u.windows[n], now)

TrustedResets(u, now) ==
  {u.windows[n].resets : n \in {k \in DOMAIN u.windows :
     Vetoes(u, u.windows[k], now) /\ u.windows[k].resets # 0}}

(* 0 = no trusted reset is known.                                          *)
ExhaustedReset(u, now) ==
  IF TrustedResets(u, now) = {} THEN 0 ELSE Min(TrustedResets(u, now))

Lapsed(u, now) ==
  u.inactive /\ u.errorAt > 0 /\ now - u.errorAt <= LapseFor

(* window_pressure: the quota left and the time it is left for.            *)
Presses(u, n, now) ==
  /\ Fresh(u, now)
  /\ n \in DOMAIN u.windows
  /\ IF n = "5h" THEN u.windows[n].state = "started"
     ELSE u.windows[n].state # "unknown"
  /\ ~Spent(u.windows[n])
  /\ u.windows[n].resets > now
Remaining(u, n) == 100 - u.windows[n].percent
Seconds(u, n, now) == u.windows[n].resets - now

(* Pressure of u over that of v, by cross-multiplication.                  *)
PressesMore(u, v, n, now) ==
  Remaining(u, n) * Seconds(v, n, now) > Remaining(v, n) * Seconds(u, n, now)
=============================================================================
