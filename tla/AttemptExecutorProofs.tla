------------------------ MODULE AttemptExecutorProofs ------------------------
(***************************************************************************)
(* Machine-checked facts about AttemptExecutor, for any number of requests *)
(* and keys, any candidate orders, limits, holds and budgets.              *)
(***************************************************************************)
EXTENDS AttemptExecutor, TLAPS, FiniteSetTheorems, SequenceTheorems

-----------------------------------------------------------------------------
(* The inductive invariant.                                                *)

InFlight == {"held", "forward", "returned", "marked"}
Attempting == {"forward", "returned", "marked"}

(* An avoid entry that still holds a key back says why.                    *)
AvoidHasKind == \A k \in Keys : avoid[k].left > 0 => avoid[k].kind # "none"

(* Where a request is in its order, and what it has done to get there.     *)
Placed(r) ==
  /\ pc[r] # "idle" => order[r] \in Orders
  /\ pc[r] \in InFlight => pos[r] <= Len(order[r])
  /\ pc[r] = "idle" => pos[r] = 1
  /\ pc[r] \in Attempting => Key(r) \in tried[r]
  /\ pos[r] > 1 => saw[r] \union tried[r] # {}

(* Bytes reach the client from the attempt under way only; a failed one    *)
(* that sent some is seen as a client that left.                           *)
OneWriter(r) ==
  /\ pc[r] \in {"idle", "next", "held"} => wrote[r] = {}
  /\ pc[r] \in Attempting => wrote[r] \subseteq {Key(r)}
  /\ pc[r] = "marked" /\ result[r] # "ok" /\ ~leaving[r] => wrote[r] = {}
  /\ \A j, k \in wrote[r] : j = k

(* The verdicts of FallbackSound on a request that has ended.              *)
Ended(r) ==
  pc[r] = "done" =>
    /\ (Retryable(result[r]) /\ ~leaving[r] /\ ~exhausted[r] /\ status[r] # 500)
         => pos[r] >= Len(order[r])
    /\ (tried[r] = {} /\ ~exhausted[r]) => reason[r] # "none"

Loop == \A r \in Requests : Placed(r) /\ OneWriter(r) /\ Ended(r)

IInv == TypeOK /\ AvoidHasKind /\ Loop /\ CountIsHolders /\ WithinConcurrency
-----------------------------------------------------------------------------
(* Types.                                                                  *)

(* A candidate order is a nonempty sequence of keys.                       *)
LEMMA OrderFacts ==
  ASSUME NEW o \in Orders
  PROVE  /\ o \in Seq(Keys) /\ Len(o) \in Nat \ {0}
         /\ \A i \in 1..Len(o) : o[i] \in Keys
  <1>1. o \in Seq(Keys) /\ Len(o) > 0
    BY ExecutorAssumption
  <1> QED BY <1>1, LenProperties, ElementOfSeq

(* The candidate a request stands at is a key.                             *)
LEMMA KeyType ==
  ASSUME TypeOK, Loop, NEW r \in Requests, pc[r] # "idle",
         pos[r] <= Len(order[r])
  PROVE  Key(r) \in Keys
  <1>1. order[r] \in Orders /\ pos[r] \in Nat \ {0}
    BY DEF TypeOK, Loop, Placed
  <1> QED BY <1>1, OrderFacts DEF Key

(* The gate refuses a key for one of the reasons the loop remembers.       *)
LEMMA VerdictType ==
  ASSUME TypeOK, AvoidHasKind, NEW k \in Keys
  PROVE  Verdict(k) \in {"acquired", "full", "cooldown", "rate", "auth", "fault"}
  BY DEF Verdict, TypeOK, GateTypeOK, Avoids, AvoidHasKind

(* Every final status is one the handlers send.                            *)
LEMMA StatusType ==
  ASSUME NEW res
  PROVE  StatusOf(res) \in {0, 200, 400, 401, 429, 499, 500, 502, 503, 504}
  BY DEF StatusOf

(* Giving a slot back keeps counts natural numbers.                        *)
LEMMA ReleaseType ==
  ASSUME count \in [Keys -> Nat], NEW k \in Keys, Release(k)
  PROVE  count' \in [Keys -> Nat]
  <1>1. count[k] > 0 => count[k] - 1 \in Nat
    OBVIOUS
  <1> QED BY <1>1 DEF Release

(* What complete() may do to the entries of a key.                         *)
Verdicts(k) ==
  \/ NoteSuccess(k)
  \/ \E d \in QuotaHolds : MarkCooldown(k, d)
  \/ \E d \in RateHolds : MarkAvoid(k, "rate", d)
  \/ MarkAvoid(k, "auth", AuthHold)
  \/ MarkAvoid(k, "fault", FaultHold)
  \/ UNCHANGED <<cooldown, avoid>>

LEMMA VerdictsType ==
  ASSUME GateTypeOK, AvoidHasKind, NEW k \in Keys, Verdicts(k)
  PROVE  /\ cooldown' \in [Keys -> Nat] /\ avoid' \in [Keys -> Avoids]
         /\ AvoidHasKind'
  <1>1. CASE NoteSuccess(k)
    BY <1>1 DEF NoteSuccess, GateTypeOK, AvoidHasKind, NoAvoid, Avoids
  <1>2. CASE \E d \in QuotaHolds : MarkCooldown(k, d)
    BY <1>2, GateAssumption DEF MarkCooldown, GateTypeOK, AvoidHasKind
  <1>3. ASSUME NEW kind \in {"rate", "auth", "fault"}, NEW d \in Nat,
               MarkAvoid(k, kind, d)
        PROVE  /\ cooldown' \in [Keys -> Nat] /\ avoid' \in [Keys -> Avoids]
               /\ AvoidHasKind'
    <2>1. [kind |-> kind, left |-> d] \in Avoids
      BY DEF Avoids
    <2> QED BY <1>3, <2>1 DEF MarkAvoid, GateTypeOK, AvoidHasKind
  <1>4. CASE UNCHANGED <<cooldown, avoid>>
    BY <1>4 DEF GateTypeOK, AvoidHasKind
  <1>5. RateHolds \subseteq Nat /\ AuthHold \in Nat /\ FaultHold \in Nat
    BY GateAssumption
  <1> QED BY <1>1, <1>2, <1>3, <1>4, <1>5 DEF Verdicts

LEMMA MarkResultVerdicts ==
  ASSUME NEW r \in Requests, MarkResult(r)
  PROVE  Verdicts(Key(r))
  BY DEF MarkResult, Verdicts

LEMMA BeginTypes ==
  ASSUME TypeOK, NEW r \in Requests, Begin(r)
  PROVE  TypeOK'
  BY ExecutorAssumption
  DEF TypeOK, GateTypeOK, Begin, gateVars, attemptVars, outcomeVars, Stages

LEMMA TakeTypes ==
  ASSUME TypeOK, Loop, NEW r \in Requests, Take(r)
  PROVE  TypeOK'
  <1>1. Key(r) \in Keys
    BY KeyType DEF Take
  <1> QED BY <1>1 DEF TypeOK, GateTypeOK, Take, Acquire, loopVars, attemptVars,
                      outcomeVars, Stages

LEMMA SkipTypes ==
  ASSUME TypeOK, AvoidHasKind, Loop, NEW r \in Requests, Skip(r)
  PROVE  TypeOK'
  <1>1. Key(r) \in Keys
    BY KeyType DEF Skip
  <1>2. AcquireVerdict(r) \in {"full", "cooldown", "rate", "auth", "fault", "lapsed"}
    BY <1>1, VerdictType DEF AcquireVerdict, Skip
  <1> QED BY <1>2 DEF TypeOK, GateTypeOK, Skip, Seen, gateVars, attemptVars,
                      outcomeVars

LEMMA RunOutTypes ==
  ASSUME TypeOK, NEW r \in Requests, RunOut(r)
  PROVE  TypeOK'
  <1> DEFINE why == IF tried[r] = {} THEN ReasonFor(saw[r]) ELSE "none"
  <1>1. why \in {"none", "capacity", "quota", "rate", "unavailable", "lapsed"}
    BY DEF ReasonFor
  <1>2. UnusedFinal(r, UnusedStatus(r, result[r], why))
          \in {0, 200, 400, 401, 429, 499, 500, 502, 503, 504}
    BY StatusType DEF UnusedFinal, UnusedStatus
  <1>3. /\ reason' = [reason EXCEPT ![r] = why]
        /\ status' = [status EXCEPT ![r] =
                         UnusedFinal(r, UnusedStatus(r, result[r], why))]
    BY DEF RunOut
  <1> HIDE DEF why
  <1>4. /\ reason' \in [Requests -> {"none", "capacity", "quota", "rate",
                                     "unavailable", "lapsed"}]
        /\ status' \in [Requests -> {0, 200, 400, 401, 429, 499, 500, 502, 503, 504}]
    BY <1>1, <1>2, <1>3 DEF TypeOK
  <1>5. pc' \in [Requests -> Stages]
    BY DEF TypeOK, RunOut, Stages
  <1>6. UNCHANGED <<gateVars, loopVars, left, attemptVars, gone, exhausted, used>>
    BY DEF RunOut
  <1> QED BY <1>4, <1>5, <1>6 DEF TypeOK, GateTypeOK, gateVars, loopVars, attemptVars

LEMMA BudgetSpentTypes ==
  ASSUME TypeOK, Loop, NEW r \in Requests, BudgetSpent(r)
  PROVE  TypeOK'
  <1>1. Key(r) \in Keys
    BY KeyType DEF BudgetSpent, Loop, Placed, InFlight
  <1>2. count' \in [Keys -> Nat]
    BY <1>1, ReleaseType DEF TypeOK, GateTypeOK, BudgetSpent
  <1>3. UnusedFinal(r, 504) \in {499, 504}
    BY DEF UnusedFinal
  <1> QED BY <1>2, <1>3 DEF TypeOK, GateTypeOK, BudgetSpent, loopVars, Stages,
                            Results, Answers

LEMMA ForwardTypes ==
  ASSUME TypeOK, Loop, NEW r \in Requests, Forward(r)
  PROVE  TypeOK'
  <1>1. Key(r) \in Keys
    BY KeyType DEF Forward, Loop, Placed, InFlight
  <1> QED BY <1>1 DEF TypeOK, GateTypeOK, Forward, gateVars, attemptVars,
                      outcomeVars, Stages

LEMMA WriteTypes ==
  ASSUME TypeOK, Loop, NEW r \in Requests, Write(r)
  PROVE  TypeOK'
  <1>1. Key(r) \in Keys
    BY KeyType DEF Write, Loop, Placed, InFlight
  <1> QED BY <1>1 DEF TypeOK, GateTypeOK, Write, gateVars, loopVars, outcomeVars

LEMMA ReturnTypes ==
  ASSUME TypeOK, NEW r \in Requests, NEW res \in Results, Return(r, res)
  PROVE  TypeOK'
  BY DEF TypeOK, GateTypeOK, Return, gateVars, loopVars, outcomeVars, Stages

LEMMA ThrowTypes ==
  ASSUME TypeOK, Loop, NEW r \in Requests, Throw(r)
  PROVE  TypeOK'
  <1>1. Key(r) \in Keys
    BY KeyType DEF Throw, Loop, Placed, InFlight
  <1>2. count' \in [Keys -> Nat]
    BY <1>1, ReleaseType DEF TypeOK, GateTypeOK, Throw
  <1> QED BY <1>2 DEF TypeOK, GateTypeOK, Throw, loopVars, attemptVars, Stages

LEMMA MarkResultTypes ==
  ASSUME TypeOK, AvoidHasKind, Loop, NEW r \in Requests, MarkResult(r)
  PROVE  TypeOK' /\ AvoidHasKind'
  <1>0. Key(r) \in Keys
    BY KeyType DEF MarkResult, Loop, Placed, InFlight
  <1>1. /\ cooldown' \in [Keys -> Nat] /\ avoid' \in [Keys -> Avoids]
        /\ AvoidHasKind'
    BY <1>0, MarkResultVerdicts, VerdictsType DEF TypeOK
  <1>2. DownstreamGone(r) \in BOOLEAN
    BY DEF DownstreamGone
  <1> QED BY <1>1, <1>2 DEF TypeOK, GateTypeOK, MarkResult, loopVars,
                            outcomeVars, Stages

LEMMA ConcludeTypes ==
  ASSUME TypeOK, Loop, NEW r \in Requests, Conclude(r)
  PROVE  TypeOK'
  <1>1. Key(r) \in Keys
    BY KeyType DEF Conclude, Loop, Placed, InFlight
  <1>2. UsedFinal(r) \in {0, 200, 400, 401, 429, 499, 500, 502, 503, 504}
    BY StatusType DEF UsedFinal
  <1>3. count' \in [Keys -> Nat]
    BY <1>1, ReleaseType DEF TypeOK, GateTypeOK, Conclude
  <1>4. CASE ShouldRetry(r)
    <2>1. /\ pos' = [pos EXCEPT ![r] = @ + 1]
          /\ pc' = [pc EXCEPT ![r] = "next"]
          /\ UNCHANGED <<used, status>>
      BY <1>4 DEF Conclude
    <2>2. pos' \in [Requests -> Nat \ {0}] /\ pc' \in [Requests -> Stages]
      BY <2>1 DEF TypeOK, Stages
    <2> QED BY <1>3, <2>1, <2>2 DEF TypeOK, GateTypeOK, Conclude, attemptVars
  <1>5. CASE ~ShouldRetry(r)
    <2>1. /\ used' = [used EXCEPT ![r] = Key(r)]
          /\ status' = [status EXCEPT ![r] = UsedFinal(r)]
          /\ pc' = [pc EXCEPT ![r] = "done"]
          /\ UNCHANGED pos
      BY <1>5 DEF Conclude
    <2>2. /\ used' \in [Requests -> Keys \union {None}]
          /\ status' \in [Requests -> {0, 200, 400, 401, 429, 499, 500, 502, 503, 504}]
          /\ pc' \in [Requests -> Stages]
      BY <1>1, <1>2, <2>1 DEF TypeOK, Stages
    <2> QED BY <1>3, <2>1, <2>2 DEF TypeOK, GateTypeOK, Conclude, attemptVars
  <1> QED BY <1>4, <1>5

LEMMA ClientLeavesTypes ==
  ASSUME TypeOK, NEW r \in Requests, ClientLeaves(r)
  PROVE  TypeOK'
  BY DEF TypeOK, GateTypeOK, ClientLeaves, gateVars, loopVars, attemptVars,
         outcomeVars

LEMMA RecoverTypes ==
  ASSUME TypeOK, NEW k \in Keys, Recover(k)
  PROVE  TypeOK'
  BY DEF TypeOK, GateTypeOK, Recover, ClearCooldown, loopVars, attemptVars,
         outcomeVars

LEMMA TickTypes ==
  ASSUME TypeOK, Tick
  PROVE  TypeOK'
  <1>1. avoid' \in [Keys -> Avoids]
    <2> SUFFICES ASSUME NEW k \in Keys
                 PROVE  (IF avoid[k].left <= 1 THEN NoAvoid
                         ELSE [avoid[k] EXCEPT !.left = @ - 1]) \in Avoids
      BY DEF Tick, GateTick
    <2>1. avoid[k] \in Avoids /\ avoid[k].left \in Nat
      BY DEF TypeOK, GateTypeOK, Avoids
    <2>2. CASE avoid[k].left <= 1
      BY <2>2 DEF Avoids, NoAvoid
    <2>3. CASE ~(avoid[k].left <= 1)
      <3>1. [avoid[k] EXCEPT !.left = @ - 1]
              = [kind |-> avoid[k].kind, left |-> avoid[k].left - 1]
        BY <2>1 DEF Avoids
      <3>2. avoid[k].left - 1 \in Nat
        BY <2>1, <2>3
      <3> QED BY <2>1, <2>3, <3>1, <3>2 DEF Avoids
    <2> QED BY <2>2, <2>3
  <1>2. cooldown' \in [Keys -> Nat] /\ left' \in [Requests -> 0..Budget]
    BY ExecutorAssumption DEF TypeOK, GateTypeOK, Tick, GateTick, Passed
  <1> QED BY <1>1, <1>2 DEF TypeOK, GateTypeOK, Tick, GateTick, loopVars,
                            attemptVars, outcomeVars

(* Every step keeps the types.                                             *)
LEMMA TypesStep ==
  ASSUME TypeOK, AvoidHasKind, Loop, [Next]_vars
  PROVE  TypeOK'
  <1>1. CASE \E r \in Requests : Advance(r)
    BY <1>1, BeginTypes, TakeTypes, SkipTypes, RunOutTypes, BudgetSpentTypes,
       ForwardTypes, ThrowTypes, MarkResultTypes, ConcludeTypes, ReturnTypes
    DEF Advance
  <1>2. CASE \E r \in Requests : Write(r) \/ ClientLeaves(r)
    BY <1>2, WriteTypes, ClientLeavesTypes
  <1>3. CASE (\E k \in Keys : Recover(k)) \/ Tick
    BY <1>3, RecoverTypes, TickTypes
  <1>4. CASE UNCHANGED vars
    BY <1>4 DEF vars, gateVars, loopVars, attemptVars, outcomeVars, TypeOK,
                GateTypeOK
  <1> QED BY <1>1, <1>2, <1>3, <1>4 DEF Next

(* Every step leaves a kind in the entries that hold a key back.           *)
LEMMA KindStep ==
  ASSUME TypeOK, AvoidHasKind, Loop, [Next]_vars
  PROVE  AvoidHasKind'
  <1>1. CASE UNCHANGED avoid
    BY <1>1 DEF AvoidHasKind
  <1>2. ASSUME NEW r \in Requests, MarkResult(r)
        PROVE  AvoidHasKind'
    BY <1>2, MarkResultTypes
  <1>3. CASE Tick
    BY <1>3 DEF Tick, GateTick, NoAvoid, AvoidHasKind, TypeOK, GateTypeOK, Avoids
  <1>4. UNCHANGED avoid \/ Tick \/ \E r \in Requests : MarkResult(r)
    BY DEF Next, Advance, Begin, Take, Acquire, Skip, RunOut, BudgetSpent, Forward,
           Write, Return, Throw, Conclude, ClientLeaves, Recover, ClearCooldown,
           vars, gateVars
  <1> QED BY <1>1, <1>2, <1>3, <1>4
-----------------------------------------------------------------------------
(* The loop of one request.                                                *)

Mine(q) == Placed(q) /\ OneWriter(q) /\ Ended(q)

(* Everything Mine speaks of, left alone.                                  *)
Kept(q) ==
  /\ pc'[q] = pc[q] /\ order'[q] = order[q] /\ pos'[q] = pos[q]
  /\ saw'[q] = saw[q] /\ tried'[q] = tried[q] /\ wrote'[q] = wrote[q]
  /\ result'[q] = result[q] /\ leaving'[q] = leaving[q]
  /\ exhausted'[q] = exhausted[q] /\ reason'[q] = reason[q]
  /\ status'[q] = status[q]

LEMMA KeptMine ==
  ASSUME NEW q \in Requests, Mine(q), Kept(q)
  PROVE  Mine(q)'
  <1>1. Placed(q)'
    BY DEF Mine, Kept, Placed, Key
  <1>2. OneWriter(q)'
    BY DEF Mine, Kept, OneWriter, Key
  <1>3. Ended(q)'
    BY DEF Mine, Kept, Ended, Retryable
  <1> QED BY <1>1, <1>2, <1>3 DEF Mine

(* A request's step leaves the other requests alone.                       *)
LEMMA OthersKept ==
  ASSUME TypeOK, NEW r \in Requests, NEW q \in Requests, q # r,
         Advance(r) \/ Write(r) \/ ClientLeaves(r)
  PROVE  Kept(q)
  <1> USE DEF TypeOK, Kept, loopVars, attemptVars, outcomeVars
  <1>1. CASE Begin(r)
    BY <1>1 DEF Begin
  <1>2. CASE Take(r)
    BY <1>2 DEF Take
  <1>3. CASE Skip(r)
    BY <1>3 DEF Skip
  <1>4. CASE RunOut(r)
    BY <1>4 DEF RunOut
  <1>5. CASE BudgetSpent(r)
    BY <1>5 DEF BudgetSpent
  <1>6. CASE Forward(r)
    BY <1>6 DEF Forward
  <1>7. CASE Throw(r)
    BY <1>7 DEF Throw
  <1>8. CASE MarkResult(r)
    BY <1>8 DEF MarkResult
  <1>9. CASE Conclude(r)
    BY <1>9 DEF Conclude
  <1>10. CASE \E res \in Results : Return(r, res)
    BY <1>10 DEF Return
  <1>11. CASE Write(r)
    BY <1>11 DEF Write
  <1>12. CASE ClientLeaves(r)
    BY <1>12 DEF ClientLeaves
  <1> QED BY <1>1, <1>2, <1>3, <1>4, <1>5, <1>6, <1>7, <1>8, <1>9, <1>10, <1>11,
             <1>12 DEF Advance

LEMMA BeginMine ==
  ASSUME TypeOK, NEW r \in Requests, Mine(r), Begin(r)
  PROVE  Mine(r)'
  <1>1. /\ pc'[r] = "next" /\ order'[r] \in Orders /\ pos'[r] = pos[r]
        /\ wrote'[r] = wrote[r] /\ pc[r] = "idle"
    BY DEF Begin, TypeOK, attemptVars
  <1> QED BY <1>1 DEF Mine, Placed, OneWriter, Ended, InFlight, Attempting

LEMMA TakeMine ==
  ASSUME TypeOK, NEW r \in Requests, Mine(r), Take(r)
  PROVE  Mine(r)'
  <1>1. /\ pc[r] = "next" /\ pc'[r] = "held" /\ pos[r] <= Len(order[r])
        /\ UNCHANGED <<order, pos, saw, tried, wrote>>
    BY DEF Take, TypeOK, loopVars, attemptVars
  <1> QED BY <1>1 DEF Mine, Placed, OneWriter, Ended, InFlight, Attempting

LEMMA SkipMine ==
  ASSUME TypeOK, NEW r \in Requests, Mine(r), Skip(r)
  PROVE  Mine(r)'
  <1>1. /\ pc[r] = "next" /\ pc'[r] = "next"
        /\ UNCHANGED <<order, tried, wrote>>
        /\ saw'[r] = saw[r] \union {AcquireVerdict(r)}
    BY DEF Skip, Seen, TypeOK, attemptVars
  <1> QED BY <1>1 DEF Mine, Placed, OneWriter, Ended, InFlight, Attempting

(* A request that skipped something has a reason to report.                *)
LEMMA ReasonOfSkips ==
  ASSUME NEW flags \in SUBSET {"full", "cooldown", "rate", "auth", "fault",
                               "lapsed"},
         flags # {}
  PROVE  ReasonFor(flags) # "none"
  <1>1. "full" \in flags \/ "cooldown" \in flags \/ "rate" \in flags
          \/ "auth" \in flags \/ "fault" \in flags \/ flags = {"lapsed"}
    OBVIOUS
  <1>2. CASE "full" \in flags
    BY <1>2 DEF ReasonFor
  <1>3. CASE "full" \notin flags /\ "cooldown" \in flags
    BY <1>3 DEF ReasonFor
  <1>4. CASE flags \intersect {"full", "cooldown"} = {} /\ "rate" \in flags
    BY <1>4 DEF ReasonFor
  <1>5. CASE /\ flags \intersect {"full", "cooldown", "rate"} = {}
             /\ flags \intersect {"auth", "fault"} # {}
    BY <1>5 DEF ReasonFor
  <1>6. CASE flags = {"lapsed"}
    BY <1>6 DEF ReasonFor
  <1> QED BY <1>1, <1>2, <1>3, <1>4, <1>5, <1>6

LEMMA RunOutMine ==
  ASSUME TypeOK, NEW r \in Requests, Mine(r), RunOut(r)
  PROVE  Mine(r)'
  <1> DEFINE why == IF tried[r] = {} THEN ReasonFor(saw[r]) ELSE "none"
  <1>1. /\ pc[r] = "next" /\ pc'[r] = "done" /\ pos[r] > Len(order[r])
        /\ UNCHANGED <<order, pos, saw, tried, wrote>>
        /\ reason'[r] = why
    BY DEF RunOut, TypeOK, loopVars, attemptVars
  <1>2. pos[r] \in Nat /\ order[r] \in Orders
    BY <1>1 DEF TypeOK, Mine, Placed
  <1>3. saw[r] \union tried[r] # {} /\ pos[r] >= Len(order[r])
    BY <1>1, <1>2, OrderFacts DEF Mine, Placed
  <1>4. ASSUME tried[r] = {}
        PROVE  why # "none"
    <2>1. saw[r] \in SUBSET {"full", "cooldown", "rate", "auth", "fault", "lapsed"}
      BY DEF TypeOK
    <2>2. ReasonFor(saw[r]) # "none"
      BY <1>3, <1>4, <2>1, ReasonOfSkips
    <2> QED BY <1>4, <2>2
  <1> HIDE DEF why
  <1> QED BY <1>1, <1>2, <1>3, <1>4
          DEF Mine, Placed, OneWriter, Ended, InFlight, Attempting

LEMMA BudgetSpentMine ==
  ASSUME TypeOK, NEW r \in Requests, Mine(r), BudgetSpent(r)
  PROVE  Mine(r)'
  <1>1. /\ pc[r] = "held" /\ pc'[r] = "done" /\ exhausted'[r]
        /\ UNCHANGED <<order, pos, saw, tried, wrote>>
    BY DEF BudgetSpent, TypeOK, loopVars
  <1> QED BY <1>1 DEF Mine, Placed, OneWriter, Ended, InFlight, Attempting

LEMMA ForwardMine ==
  ASSUME TypeOK, NEW r \in Requests, Mine(r), Forward(r)
  PROVE  Mine(r)'
  <1>1. /\ pc[r] = "held" /\ pc'[r] = "forward"
        /\ tried'[r] = tried[r] \union {Key(r)}
        /\ UNCHANGED <<order, pos, saw, wrote>>
    BY DEF Forward, TypeOK, attemptVars
  <1> QED BY <1>1 DEF Mine, Placed, OneWriter, Ended, InFlight, Attempting, Key

LEMMA WriteMine ==
  ASSUME TypeOK, NEW r \in Requests, Mine(r), Write(r)
  PROVE  Mine(r)'
  <1>1. /\ pc[r] = "forward" /\ pc'[r] = "forward"
        /\ wrote'[r] = wrote[r] \union {Key(r)}
        /\ UNCHANGED <<order, pos, saw, tried>>
    BY DEF Write, TypeOK, loopVars
  <1> QED BY <1>1 DEF Mine, Placed, OneWriter, Ended, InFlight, Attempting, Key

LEMMA ReturnMine ==
  ASSUME TypeOK, NEW r \in Requests, NEW res \in Results, Mine(r), Return(r, res)
  PROVE  Mine(r)'
  <1>1. /\ pc[r] = "forward" /\ pc'[r] = "returned"
        /\ UNCHANGED <<order, pos, saw, tried, wrote>>
    BY DEF Return, TypeOK, loopVars
  <1> QED BY <1>1 DEF Mine, Placed, OneWriter, Ended, InFlight, Attempting, Key

LEMMA ThrowMine ==
  ASSUME TypeOK, NEW r \in Requests, Mine(r), Throw(r)
  PROVE  Mine(r)'
  <1>1. /\ pc[r] = "forward" /\ pc'[r] = "done" /\ status'[r] = 500
        /\ UNCHANGED <<order, pos, saw, tried, wrote>>
    BY DEF Throw, TypeOK, loopVars, attemptVars
  <1> QED BY <1>1 DEF Mine, Placed, OneWriter, Ended, InFlight, Attempting, Key

LEMMA MarkResultMine ==
  ASSUME TypeOK, NEW r \in Requests, Mine(r), MarkResult(r)
  PROVE  Mine(r)'
  <1>1. /\ pc[r] = "returned" /\ pc'[r] = "marked"
        /\ leaving'[r] = DownstreamGone(r)
        /\ UNCHANGED <<order, pos, saw, tried, wrote, result>>
    BY DEF MarkResult, TypeOK, loopVars
  <1> QED BY <1>1 DEF Mine, Placed, OneWriter, Ended, InFlight, Attempting, Key,
                      DownstreamGone, Committed

LEMMA ConcludeMine ==
  ASSUME TypeOK, NEW r \in Requests, Mine(r), Conclude(r)
  PROVE  Mine(r)'
  <1>1. /\ pc[r] = "marked"
        /\ UNCHANGED <<order, saw, tried, wrote, result, leaving, exhausted>>
    BY DEF Conclude, attemptVars
  <1>2. Key(r) \in tried[r]
    BY <1>1 DEF Mine, Placed, Attempting
  <1>3. CASE ShouldRetry(r)
    <2>1. pc'[r] = "next" /\ pos'[r] = pos[r] + 1
      BY <1>3 DEF Conclude, TypeOK
    <2>2. ~leaving[r] /\ result[r] # "ok"
      BY <1>3 DEF ShouldRetry, Retryable, StatusOf, TimedOut
    <2> QED BY <1>1, <1>2, <2>1, <2>2
            DEF Mine, Placed, OneWriter, Ended, InFlight, Attempting
  <1>4. CASE ~ShouldRetry(r)
    <2>1. pc'[r] = "done" /\ pos'[r] = pos[r]
      BY <1>4 DEF Conclude, TypeOK
    <2>2. Retryable(result[r]) /\ ~leaving[r] => pos[r] >= Len(order[r])
      <3>1. order[r] \in Orders /\ pos[r] \in Nat
        BY <1>1 DEF Mine, Placed, TypeOK
      <3> QED BY <1>4, <3>1, OrderFacts DEF ShouldRetry, HasNext
    <2> QED BY <1>1, <1>2, <2>1, <2>2
            DEF Mine, Placed, OneWriter, Ended, InFlight, Attempting, Retryable
  <1> QED BY <1>3, <1>4

LEMMA ClientLeavesMine ==
  ASSUME NEW r \in Requests, Mine(r), ClientLeaves(r)
  PROVE  Mine(r)'
  BY KeptMine DEF Kept, ClientLeaves, loopVars, attemptVars, outcomeVars

(* Every step keeps every request's place in its loop.                     *)
LEMMA LoopStep ==
  ASSUME TypeOK, Loop, [Next]_vars
  PROVE  Loop'
  <1> SUFFICES ASSUME NEW q \in Requests
               PROVE  Mine(q)'
    BY DEF Loop, Mine
  <1>0. Mine(q)
    BY DEF Loop, Mine
  <1>1. ASSUME NEW r \in Requests, Advance(r) \/ Write(r) \/ ClientLeaves(r)
        PROVE  Mine(q)'
    <2>1. CASE q # r
      BY <1>0, <1>1, <2>1, OthersKept, KeptMine
    <2>2. CASE q = r
      BY <1>0, <1>1, <2>2, BeginMine, TakeMine, SkipMine, RunOutMine,
         BudgetSpentMine, ForwardMine, WriteMine, ReturnMine, ThrowMine,
         MarkResultMine, ConcludeMine, ClientLeavesMine
      DEF Advance
    <2> QED BY <2>1, <2>2
  <1>2. CASE (\E k \in Keys : Recover(k)) \/ Tick \/ UNCHANGED vars
    <2>1. Kept(q)
      BY <1>2 DEF Kept, Recover, Tick, vars, loopVars, attemptVars, outcomeVars
    <2> QED BY <1>0, <2>1, KeptMine
  <1> QED BY <1>1, <1>2 DEF Next
-----------------------------------------------------------------------------
(* Slots.                                                                  *)

Slots == CountIsHolders /\ WithinConcurrency

LEMMA HoldersFinite ==
  ASSUME NEW k
  PROVE  IsFiniteSet(Holders(k)) /\ Cardinality(Holders(k)) \in Nat
  <1>1. Holders(k) \subseteq Requests
    BY DEF Holders
  <1> QED BY <1>1, ExecutorAssumption, FS_Subset, FS_CardinalityType

(* A step that neither takes nor gives back a slot keeps the balance.      *)
LEMMA SlotsUntouched ==
  ASSUME Slots, count' = count,
         \A q \in Requests : \A k \in Keys : Holds(q, k)' <=> Holds(q, k)
  PROVE  Slots'
  <1>1. ASSUME NEW k \in Keys
        PROVE  Holders(k)' = Holders(k)
    BY DEF Holders
  <1> QED BY <1>1 DEF Slots, CountIsHolders, WithinConcurrency

(* What taking and giving back a slot do to the counts.                    *)
LEMMA AcquireFacts ==
  ASSUME GateTypeOK, NEW n \in Keys, Acquire(n)
  PROVE  /\ count'[n] = count[n] + 1
         /\ \A k \in Keys \ {n} : count'[k] = count[k]
         /\ ~Full(n)
  <1>1. /\ count'[n] = count[n] + 1
        /\ \A k \in Keys \ {n} : count'[k] = count[k]
    BY DEF Acquire, GateTypeOK
  <1>2. /\ cooldown[n] \in Nat /\ avoid[n].left \in Nat
        /\ avoid[n].kind # "acquired"
    BY DEF GateTypeOK, Avoids
  <1>3. ~Full(n)
    <2>1. Verdict(n) = "acquired"
      BY DEF Acquire
    <2>2. cooldown[n] = 0 /\ avoid[n].left = 0
      BY <1>2, <2>1 DEF Verdict
    <2> QED BY <2>1, <2>2 DEF Verdict
  <1> QED BY <1>1, <1>3

LEMMA ReleaseFacts ==
  ASSUME GateTypeOK, NEW n \in Keys, Release(n), count[n] > 0
  PROVE  /\ count'[n] = count[n] - 1
         /\ \A k \in Keys \ {n} : count'[k] = count[k]
  BY DEF Release, GateTypeOK

(* A request that takes a free slot is one holder more.                    *)
LEMMA SlotTaken ==
  ASSUME TypeOK, Slots, NEW r \in Requests, NEW n \in Keys, Acquire(n),
         \A k \in Keys : ~Holds(r, k),
         \A k \in Keys : Holds(r, k)' <=> k = n,
         \A q \in Requests \ {r} : \A k \in Keys : Holds(q, k)' <=> Holds(q, k)
  PROVE  Slots'
  <1>1. /\ count'[n] = count[n] + 1
        /\ \A k \in Keys \ {n} : count'[k] = count[k]
        /\ ~Full(n)
    BY AcquireFacts DEF TypeOK
  <1>2. count \in [Keys -> Nat] /\ MaxConcurrency \in [Keys -> Nat]
    BY GateAssumption DEF TypeOK, GateTypeOK
  <1>3. Holders(n)' = Holders(n) \union {r} /\ r \notin Holders(n)
    BY DEF Holders
  <1>4. Cardinality(Holders(n) \union {r}) = Cardinality(Holders(n)) + 1
    BY <1>3, HoldersFinite, FS_AddElement
  <1>5. ASSUME NEW k \in Keys \ {n}
        PROVE  Holders(k)' = Holders(k)
    BY DEF Holders
  <1>6. CountIsHolders'
    BY <1>1, <1>3, <1>4, <1>5 DEF Slots, CountIsHolders
  <1>7. WithinConcurrency'
    BY <1>1, <1>2 DEF Slots, WithinConcurrency, Full
  <1> QED BY <1>6, <1>7 DEF Slots

(* A request that gives its slot back is one holder less.                  *)
LEMMA SlotGiven ==
  ASSUME TypeOK, Slots, NEW r \in Requests, NEW n \in Keys, Release(n),
         \A k \in Keys : Holds(r, k) <=> k = n,
         \A k \in Keys : ~Holds(r, k)',
         \A q \in Requests \ {r} : \A k \in Keys : Holds(q, k)' <=> Holds(q, k)
  PROVE  Slots'
  <1>1. Holders(n)' = Holders(n) \ {r} /\ r \in Holders(n)
    BY DEF Holders
  <1>2. /\ Cardinality(Holders(n) \ {r}) = Cardinality(Holders(n)) - 1
        /\ Cardinality(Holders(n)) \in Nat
        /\ Cardinality(Holders(n) \ {r}) \in Nat
    <2>1. IsFiniteSet(Holders(n)) /\ IsFiniteSet(Holders(n) \ {r})
      BY HoldersFinite, FS_Subset, Holders(n) \ {r} \subseteq Holders(n)
    <2> QED BY <1>1, <2>1, FS_RemoveElement, FS_CardinalityType
  <1>3. count[n] = Cardinality(Holders(n)) /\ count[n] > 0
    BY <1>2 DEF Slots, CountIsHolders
  <1>0. count \in [Keys -> Nat] /\ MaxConcurrency \in [Keys -> Nat]
    BY GateAssumption DEF TypeOK, GateTypeOK
  <1>4. /\ count'[n] = count[n] - 1
        /\ \A k \in Keys \ {n} : count'[k] = count[k]
    BY <1>3, ReleaseFacts DEF TypeOK
  <1>5. ASSUME NEW k \in Keys \ {n}
        PROVE  Holders(k)' = Holders(k)
    BY DEF Holders
  <1>6. CountIsHolders'
    BY <1>1, <1>2, <1>3, <1>4, <1>5 DEF Slots, CountIsHolders
  <1>7. WithinConcurrency'
    BY <1>0, <1>4 DEF Slots, WithinConcurrency
  <1> QED BY <1>6, <1>7 DEF Slots

LEMMA KeptHolds ==
  ASSUME NEW q \in Requests, NEW k, Kept(q)
  PROVE  Holds(q, k)' <=> Holds(q, k)
  BY DEF Kept, Holds, Key

(* Every step keeps the balance of slots.                                  *)
LEMMA SlotsStep ==
  ASSUME TypeOK, Loop, Slots, [Next]_vars
  PROVE  Slots'
  <1>1. ASSUME NEW r \in Requests, Advance(r) \/ Write(r) \/ ClientLeaves(r)
        PROVE  Slots'
    <2>1. \A q \in Requests \ {r} : \A k \in Keys : Holds(q, k)' <=> Holds(q, k)
      BY <1>1, OthersKept, KeptHolds
    <2>2. CASE Take(r)
      <3>1. Key(r) \in Keys /\ Acquire(Key(r))
        BY <2>2, KeyType DEF Take
      <3>2. /\ pc[r] = "next" /\ pc'[r] = "held"
            /\ order'[r] = order[r] /\ pos'[r] = pos[r]
        BY <2>2 DEF Take, TypeOK, loopVars
      <3>3. \A k \in Keys : ~Holds(r, k) /\ (Holds(r, k)' <=> k = Key(r))
        BY <3>2 DEF Holds, Key
      <3> QED BY <2>1, <3>1, <3>3, SlotTaken
    <2>3. CASE BudgetSpent(r) \/ Throw(r) \/ Conclude(r)
      <3>1. pc[r] \in InFlight /\ pc'[r] \in {"next", "done"} /\ Release(Key(r))
        BY <2>3 DEF BudgetSpent, Throw, Conclude, InFlight, TypeOK
      <3>2. Key(r) \in Keys
        BY <3>1, KeyType DEF Loop, Placed, InFlight
      <3>3. \A k \in Keys : (Holds(r, k) <=> k = Key(r)) /\ ~Holds(r, k)'
        BY <3>1 DEF Holds, InFlight
      <3> QED BY <2>1, <3>1, <3>2, <3>3, SlotGiven
    <2>4. CASE \/ Begin(r) \/ Skip(r) \/ RunOut(r) \/ Forward(r) \/ Write(r)
               \/ MarkResult(r) \/ ClientLeaves(r)
               \/ \E res \in Results : Return(r, res)
      <3>1. count' = count
        BY <2>4 DEF Begin, Skip, RunOut, Forward, Write, Return, MarkResult,
                    ClientLeaves, gateVars
      <3>2. \/ pc[r] \notin InFlight /\ pc'[r] \notin InFlight
            \/ /\ pc[r] \in InFlight /\ pc'[r] \in InFlight
               /\ order'[r] = order[r] /\ pos'[r] = pos[r]
            \/ UNCHANGED <<pc, order, pos>>
        BY <2>4 DEF Begin, Skip, RunOut, Forward, Write, Return, MarkResult,
                    ClientLeaves, InFlight, TypeOK, loopVars
      <3>3. \A k \in Keys : Holds(r, k)' <=> Holds(r, k)
        BY <3>2 DEF Holds, Key, InFlight
      <3> QED BY <2>1, <3>1, <3>3, SlotsUntouched
    <2> QED BY <1>1, <2>2, <2>3, <2>4 DEF Advance
  <1>2. CASE (\E k \in Keys : Recover(k)) \/ Tick \/ UNCHANGED vars
    <2>1. count' = count /\ \A q \in Requests : Kept(q)
      BY <1>2 DEF Kept, Recover, ClearCooldown, Tick, GateTick, vars, gateVars,
                  loopVars, attemptVars, outcomeVars
    <2> QED BY <2>1, KeptHolds, SlotsUntouched
  <1> QED BY <1>1, <1>2 DEF Next
-----------------------------------------------------------------------------
(* The invariant holds in every state.                                     *)

LEMMA IInvInit ==
  ASSUME Init
  PROVE  IInv
  <1>1. TypeOK /\ AvoidHasKind
    BY ExecutorAssumption
    DEF Init, GateInit, TypeOK, GateTypeOK, AvoidHasKind, Avoids, NoAvoid, Stages,
        Results
  <1>2. Loop
    BY DEF Init, Loop, Placed, OneWriter, Ended, InFlight, Attempting
  <1>3. ASSUME NEW k \in Keys
        PROVE  Holders(k) = {}
    BY DEF Init, Holders, Holds
  <1>4. ASSUME NEW k \in Keys
        PROVE  /\ count[k] = 0 /\ Cardinality(Holders(k)) = 0
               /\ MaxConcurrency[k] \in Nat
    BY <1>3, FS_EmptySet, GateAssumption DEF Init, GateInit
  <1>5. CountIsHolders /\ WithinConcurrency
    BY <1>4 DEF CountIsHolders, WithinConcurrency
  <1> QED BY <1>1, <1>2, <1>5 DEF IInv

LEMMA IInvStep ==
  ASSUME IInv, [Next]_vars
  PROVE  IInv'
  BY TypesStep, KindStep, LoopStep, SlotsStep DEF IInv, Slots

LEMMA IInvHolds == Spec => []IInv
  BY IInvInit, IInvStep, PTL DEF Spec

(* Types: the variables of gate and loop keep their ranges.                *)
THEOREM TypeCorrect == Spec => []TypeOK
  <1>1. IInv => TypeOK
    BY DEF IInv
  <1> QED BY <1>1, IInvHolds, PTL

(* account_gate.h:40-42: a slot's count is the number of requests that     *)
(* hold it, on every path, and never exceeds max_concurrency.              *)
THEOREM SlotsBalance == Spec => []SlotsRight
  <1>1. IInv => SlotsRight
    BY DEF IInv, SlotsRight
  <1> QED BY <1>1, IInvHolds, PTL

(* Whatever the order of candidates, a client gets the bytes of one        *)
(* attempt, no retryable failure ends a request early, and a request that  *)
(* could not try anything says why.                                        *)
THEOREM FallbackIsSound == Spec => []FallbackSound
  <1>1. ASSUME IInv
        PROVE  FallbackSound
    <2>1. ASSUME NEW r \in Requests
          PROVE  Cardinality(wrote[r]) <= 1
      <3>1. \A j, k \in wrote[r] : j = k
        BY <1>1 DEF IInv, Loop, OneWriter
      <3>2. CASE wrote[r] = {}
        BY <3>2, FS_EmptySet
      <3>3. CASE wrote[r] # {}
        <4>1. PICK k \in wrote[r] : TRUE
          BY <3>3
        <4>2. wrote[r] = {k}
          BY <3>1, <4>1
        <4> QED BY <4>2, FS_Singleton
      <3> QED BY <3>2, <3>3
    <2>2. GivesUpLast /\ SkippedHasReason
      BY <1>1 DEF IInv, Loop, Ended, GivesUpLast, SkippedHasReason
    <2> QED BY <2>1, <2>2 DEF FallbackSound, OneSource
  <1> QED BY <1>1, IInvHolds, PTL

(* What complete() does to a key's entries follows from how the attempt    *)
(* with it ended.                                                          *)
LEMMA MarkResultBlames ==
  ASSUME TypeOK, NEW r \in Requests, Key(r) \in Keys, MarkResult(r)
  PROVE  BlameFits /\ CooldownNeedsEvidence
  <1> DEFINE n == Key(r)
             res == result[r]
  <1>0. /\ GateTypeOK /\ pc[r] = "returned"
        /\ \A k \in Keys : cooldown[k] \in Nat /\ avoid[k].left \in Nat
    BY DEF TypeOK, MarkResult, GateTypeOK, Avoids
  <1>1. ASSUME NEW kind \in {"rate", "auth", "fault"}, NEW d, MarkAvoid(n, kind, d)
        PROVE  /\ cooldown' = cooldown
               /\ avoid'[n].kind = kind /\ avoid'[n].left = d
               /\ \A k \in Keys \ {n} : avoid'[k] = avoid[k]
    BY <1>0, <1>1 DEF MarkAvoid, GateTypeOK
  <1>2. CASE res = "ok" /\ NoteSuccess(n)
    <2>1. cooldown' = cooldown /\ \A k \in Keys : avoid'[k] = avoid[k] \/ avoid'[k].left = 0
      BY <1>0, <1>2 DEF NoteSuccess, NoAvoid, GateTypeOK
    <2> QED BY <1>0, <2>1 DEF BlameFits, CooldownNeedsEvidence
  <1>3. CASE res = "quota" /\ n \in Extended /\ \E d \in QuotaHolds : MarkCooldown(n, d)
    <2>1. avoid' = avoid /\ \A k \in Keys \ {n} : cooldown'[k] = cooldown[k]
      BY <1>0, <1>3 DEF MarkCooldown, GateTypeOK
    <2> QED BY <1>0, <1>3, <2>1 DEF BlameFits, BlamedFor, CooldownNeedsEvidence
  <1>4. CASE /\ res = "rate" \/ res = "quota"
             /\ \E d \in RateHolds : MarkAvoid(n, "rate", d)
    <2> PICK d : MarkAvoid(n, "rate", d)
      BY <1>4
    <2> QED BY <1>0, <1>1, <1>4 DEF BlameFits, BlamedFor, CooldownNeedsEvidence
  <1>5. CASE res = "auth" /\ MarkAvoid(n, "auth", AuthHold)
    BY <1>0, <1>1, <1>5 DEF BlameFits, BlamedFor, CooldownNeedsEvidence
  <1>6. CASE res \in ProviderFault /\ MarkAvoid(n, "fault", FaultHold)
    BY <1>0, <1>1, <1>6 DEF BlameFits, BlamedFor, CooldownNeedsEvidence, ProviderFault
  <1>7. CASE UNCHANGED <<cooldown, avoid>>
    BY <1>0, <1>7 DEF BlameFits, CooldownNeedsEvidence
  <1> QED BY <1>2, <1>3, <1>4, <1>5, <1>6, <1>7 DEF MarkResult

(* Time lets every hold run down.                                          *)
LEMMA TickBlames ==
  ASSUME TypeOK, Tick
  PROVE  BlameFits /\ CooldownNeedsEvidence
  <1>1. ASSUME NEW k \in Keys
        PROVE  cooldown'[k] <= cooldown[k] /\ avoid'[k].left <= avoid[k].left
    <2>1. cooldown[k] \in Nat /\ avoid[k] \in Avoids /\ avoid[k].left \in Nat
      BY DEF TypeOK, GateTypeOK, Avoids
    <2>2. cooldown'[k] = Passed(cooldown[k])
      BY DEF Tick, GateTick
    <2>3. avoid'[k].left <= avoid[k].left
      <3>1. avoid'[k] = IF avoid[k].left <= 1 THEN NoAvoid
                        ELSE [avoid[k] EXCEPT !.left = @ - 1]
        BY DEF Tick, GateTick
      <3> QED BY <2>1, <3>1 DEF NoAvoid, Avoids
    <2> QED BY <2>1, <2>2, <2>3 DEF Passed
  <1>2. \A k \in Keys : /\ cooldown[k] \in Nat /\ avoid[k].left \in Nat
                       /\ cooldown'[k] \in Nat /\ avoid'[k].left \in Nat
    <2>1. TypeOK'
      BY TickTypes
    <2> QED BY <2>1 DEF TypeOK, GateTypeOK, Avoids
  <1> QED BY <1>1, <1>2 DEF BlameFits, CooldownNeedsEvidence

(* account_gate.h:146-148, attempt_executor.cpp:41-83: a cooldown, a rate  *)
(* or an auth hold needs the matching answer of the key's own upstream, an *)
(* attempt that failed before it was sent costs a provider-fault hold at   *)
(* most, and a quota cooldown ends by time, by the recovery thread's       *)
(* evidence or by a newer quota answer.                                    *)
THEOREM BlameNeedsEvidence == Spec => EvidenceOnly
  <1>1. ASSUME IInv, [Next]_vars
        PROVE  [BlameFits /\ CooldownNeedsEvidence]_vars
    <2>0. \A k \in Keys : cooldown[k] \in Nat /\ avoid[k].left \in Nat
      BY <1>1 DEF IInv, TypeOK, GateTypeOK, Avoids
    <2>1. CASE UNCHANGED <<cooldown, avoid>>
      BY <2>0, <2>1 DEF BlameFits, CooldownNeedsEvidence
    <2>2. ASSUME NEW r \in Requests, MarkResult(r)
          PROVE  BlameFits /\ CooldownNeedsEvidence
      <3>1. Key(r) \in Keys
        BY <1>1, <2>2, KeyType DEF IInv, MarkResult, Loop, Placed, InFlight
      <3> QED BY <1>1, <2>2, <3>1, MarkResultBlames DEF IInv
    <2>3. CASE Tick
      BY <1>1, <2>3, TickBlames DEF IInv
    <2>4. ASSUME NEW n \in Keys, Recover(n)
          PROVE  BlameFits /\ CooldownNeedsEvidence
      <3>1. /\ cooldown' = [cooldown EXCEPT ![n] = 0] /\ avoid' = avoid
            /\ cooldown \in [Keys -> Nat]
        BY <1>1, <2>4 DEF Recover, ClearCooldown, IInv, TypeOK, GateTypeOK
      <3>2. BlameFits
        BY <2>0, <3>1 DEF BlameFits
      <3>3. CooldownNeedsEvidence
        <4> SUFFICES ASSUME NEW k \in Keys, cooldown'[k] < cooldown[k]
                     PROVE  Recover(k)
          BY DEF CooldownNeedsEvidence
        <4>1. k = n
          BY <2>0, <3>1
        <4> QED BY <2>4, <4>1
      <3> QED BY <3>2, <3>3
    <2>5. \/ UNCHANGED vars \/ UNCHANGED <<cooldown, avoid>> \/ Tick
          \/ (\E r \in Requests : MarkResult(r)) \/ \E n \in Keys : Recover(n)
      BY <1>1 DEF Next, Advance, Begin, Take, Acquire, Skip, RunOut, BudgetSpent,
                  Forward, Write, Return, Throw, Conclude, ClientLeaves, gateVars
    <2> QED BY <2>1, <2>2, <2>3, <2>4, <2>5
  <1> QED BY <1>1, IInvHolds, PTL DEF Spec, EvidenceOnly
=============================================================================
