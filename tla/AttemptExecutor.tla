--------------------------- MODULE AttemptExecutor ---------------------------
(***************************************************************************)
(* The candidate loop of a request (AttemptExecutor::run) over the shared  *)
(* gate.  A request walks its candidates in order: it skips those the gate *)
(* refuses, forwards to the others, reports every result to the gate and   *)
(* falls back to the next candidate while nothing has reached the client,  *)
(* the failure is of a kind another key may not have, and the budget lasts.*)
(*                                                                         *)
(* candidate_order is any order of any set of candidates here; a candidate *)
(* is its key slot.  Chat, embedding and streaming requests differ in one  *)
(* thing: a streaming attempt writes to the client while it runs.          *)
(***************************************************************************)
EXTENDS KeyGate, Sequences

CONSTANTS
  Requests,   \* the requests of a behaviour
  Streaming,  \* those that stream
  Extended,   \* key slots of accounts with extended_usage_limit_cooldown
  Orders,     \* the candidate orders a request may get
  LapsedSets, \* the sets of keys a snapshot may call lapsed
  Budget,     \* the retry budget (first-byte or total timeout)
  None        \* no candidate

ASSUME ExecutorAssumption ==
  /\ IsFiniteSet(Requests) /\ Streaming \subseteq Requests
  /\ Extended \subseteq Keys
  /\ Orders \subseteq {s \in Seq(Keys) :
       Len(s) > 0 /\ \A i, j \in 1..Len(s) : s[i] = s[j] => i = j}
  /\ LapsedSets \subseteq SUBSET Keys
  /\ Budget \in Nat \ {0}
  /\ None \notin Keys

VARIABLES
  pc,         \* where each request is in the loop
  order,      \* its candidates
  pos,        \* position in order
  lapsed,     \* candidates its snapshot calls "subscription inactive"
  left,       \* time left of its budget
  result,     \* what the last attempt returned
  tried,      \* candidates it forwarded to
  saw,        \* why it skipped candidates
  wrote,      \* candidates whose bytes reached the client
  gone,       \* clients that have left
  leaving,    \* downstream_gone of the last attempt
  exhausted,  \* budget_exhausted
  used,       \* AttemptOutcome::used
  reason,     \* no_candidate_reason
  status      \* the final status of the request, 0 = none yet

loopVars    == <<order, pos, lapsed, tried, saw>>
attemptVars == <<result, wrote, leaving>>
outcomeVars == <<exhausted, used, reason, status>>
vars == <<gateVars, pc, loopVars, left, attemptVars, gone, outcomeVars>>

Stages  == {"idle", "next", "held", "forward", "returned", "marked", "done"}
(* What an attempt returns: success; what the upstream answered or that it *)
(* did not answer in time; a failure before anything was sent to it (no    *)
(* lease of the origin, a wrong base_url or no address, DNS or budget out  *)
(* of time); a request that cannot be converted or is wrong; a client that *)
(* left.                                                                   *)
Answers == {"quota", "rate", "auth", "fault", "timeout"}
Unsent  == {"no_lease", "no_origin", "too_late"}
Results == {"none", "ok", "conversion", "invalid", "closed"} \union Answers \union Unsent
TimedOut == {"timeout", "too_late"}  \* is_timeout

StatusOf(res) ==
  CASE res = "ok" -> 200
    [] res \in {"quota", "rate"} -> 429
    [] res = "auth" -> 401
    [] res \in {"fault", "conversion", "no_origin"} -> 502
    [] res = "no_lease" -> 503
    [] res \in TimedOut -> 504
    [] res = "invalid" -> 400
    [] res = "closed" -> 499
    [] OTHER -> 0

Key(r) == order[r][pos[r]]
Holds(r, k) ==
  pc[r] \in {"held", "forward", "returned", "marked"} /\ Key(r) = k
Holders(k) == {r \in Requests : Holds(r, k)}
Committed(r) == wrote[r] # {}

Init ==
  /\ GateInit
  /\ pc = [r \in Requests |-> "idle"]
  /\ order = [r \in Requests |-> <<>>] /\ pos = [r \in Requests |-> 1]
  /\ lapsed = [r \in Requests |-> {}] /\ left = [r \in Requests |-> 0]
  /\ result = [r \in Requests |-> "none"]
  /\ tried = [r \in Requests |-> {}] /\ saw = [r \in Requests |-> {}]
  /\ wrote = [r \in Requests |-> {}] /\ gone = {}
  /\ leaving = [r \in Requests |-> FALSE]
  /\ exhausted = [r \in Requests |-> FALSE]
  /\ used = [r \in Requests |-> None]
  /\ reason = [r \in Requests |-> "none"]
  /\ status = [r \in Requests |-> 0]
-----------------------------------------------------------------------------
Begin(r) ==
  /\ pc[r] = "idle"
  /\ \E o \in Orders : order' = [order EXCEPT ![r] = o]
  /\ \E L \in LapsedSets : lapsed' = [lapsed EXCEPT ![r] = L]
  /\ left' = [left EXCEPT ![r] = Budget]
  /\ pc' = [pc EXCEPT ![r] = "next"]
  /\ UNCHANGED <<gateVars, pos, tried, saw, attemptVars, gone, outcomeVars>>

(* AttemptExecutor::acquire: the lapse verdict comes before the gate.      *)
AcquireVerdict(r) ==
  IF Key(r) \in lapsed[r] THEN "lapsed" ELSE Verdict(Key(r))

Take(r) ==
  /\ pc[r] = "next" /\ pos[r] <= Len(order[r])
  /\ Key(r) \notin lapsed[r]
  /\ Acquire(Key(r))
  /\ pc' = [pc EXCEPT ![r] = "held"]
  /\ UNCHANGED <<loopVars, left, attemptVars, gone, outcomeVars>>

(* The flags saw_* of the loop.                                            *)
Seen(r, v) == saw[r] \union {v}
Skip(r) ==
  /\ pc[r] = "next" /\ pos[r] <= Len(order[r])
  /\ AcquireVerdict(r) # "acquired"
  /\ saw' = [saw EXCEPT ![r] = Seen(r, AcquireVerdict(r))]
  /\ pos' = [pos EXCEPT ![r] = @ + 1]
  /\ UNCHANGED <<gateVars, pc, order, lapsed, tried, left, attemptVars, gone,
                 outcomeVars>>

(* no_candidate_reason, in its order of precedence.                        *)
ReasonFor(flags) ==
  CASE "full" \in flags -> "capacity"
    [] "full" \notin flags /\ "cooldown" \in flags -> "quota"
    [] flags \intersect {"full", "cooldown"} = {} /\ "rate" \in flags
         -> "rate"
    [] flags \intersect {"full", "cooldown", "rate"} = {}
         /\ flags \intersect {"auth", "fault"} # {} -> "unavailable"
    [] flags = {"lapsed"} -> "lapsed"
    [] OTHER -> "none"

(* no_upstream_status, when no candidate is `used`.                        *)
UnusedStatus(r, res, why) ==
  CASE res \in TimedOut -> 504
    [] res \notin TimedOut /\ tried[r] = {} ->
         IF why \in {"quota", "rate"} THEN 429 ELSE 503
    [] OTHER -> StatusOf(res)

(* A streaming handler looks at the client first, the others render first. *)
UnusedFinal(r, s) == IF r \in gone /\ r \in Streaming THEN 499 ELSE s
UsedFinal(r) ==
  IF r \in gone /\ (r \notin Streaming \/ result[r] # "ok") THEN 499
  ELSE StatusOf(result[r])

(* The order is used up: nothing is `used`, even after failed attempts.    *)
RunOut(r) ==
  /\ pc[r] = "next" /\ pos[r] > Len(order[r])
  /\ LET why == IF tried[r] = {} THEN ReasonFor(saw[r]) ELSE "none" IN
     /\ reason' = [reason EXCEPT ![r] = why]
     /\ status' = [status EXCEPT ![r] =
                      UnusedFinal(r, UnusedStatus(r, result[r], why))]
  /\ pc' = [pc EXCEPT ![r] = "done"]
  /\ UNCHANGED <<gateVars, loopVars, left, attemptVars, gone, exhausted, used>>

BudgetSpentLeaks(r) ==  \* mutant: the slot is not released
  /\ pc[r] = "held" /\ left[r] = 0
  /\ UNCHANGED count
  /\ exhausted' = [exhausted EXCEPT ![r] = TRUE]
  /\ result' = [result EXCEPT ![r] = "timeout"]
  /\ status' = [status EXCEPT ![r] = UnusedFinal(r, 504)]
  /\ pc' = [pc EXCEPT ![r] = "done"]
  /\ UNCHANGED <<cooldown, avoid, loopVars, left, wrote, leaving, gone, used,
                 reason>>
BudgetSpent(r) ==
  /\ pc[r] = "held" /\ left[r] = 0
  /\ Release(Key(r))
  /\ exhausted' = [exhausted EXCEPT ![r] = TRUE]
  /\ result' = [result EXCEPT ![r] = "timeout"]
  /\ status' = [status EXCEPT ![r] = UnusedFinal(r, 504)]
  /\ pc' = [pc EXCEPT ![r] = "done"]
  /\ UNCHANGED <<cooldown, avoid, loopVars, left, wrote, leaving, gone, used,
                 reason>>

Forward(r) ==
  /\ pc[r] = "held" /\ left[r] > 0
  /\ tried' = [tried EXCEPT ![r] = @ \union {Key(r)}]
  /\ pc' = [pc EXCEPT ![r] = "forward"]
  /\ UNCHANGED <<gateVars, order, pos, lapsed, saw, left, attemptVars, gone,
                 outcomeVars>>

(* A streaming attempt writes its first bytes to the client.               *)
Write(r) ==
  /\ pc[r] = "forward" /\ r \in Streaming /\ r \notin gone
  /\ wrote' = [wrote EXCEPT ![r] = @ \union {Key(r)}]
  /\ UNCHANGED <<gateVars, pc, loopVars, left, result, leaving, gone,
                 outcomeVars>>

(* The attempt ends.  Only a client that left can have closed it; a local  *)
(* conversion failure has status 502 in a stream and 400 elsewhere.        *)
Return(r, res) ==
  /\ pc[r] = "forward"
  /\ res \in Results \ {"none"}
  /\ res = "closed" => r \in gone
  /\ res = "conversion" => r \in Streaming
  /\ res \in Unsent => Key(r) \notin wrote[r]
  /\ result' = [result EXCEPT ![r] = res]
  /\ pc' = [pc EXCEPT ![r] = "returned"]
  /\ UNCHANGED <<gateVars, loopVars, left, wrote, leaving, gone, outcomeVars>>

(* The forward callback throws: GateLease gives the slot back, the request *)
(* ends without an outcome.                                                *)
Throw(r) ==
  /\ pc[r] = "forward"
  /\ Release(Key(r))
  /\ status' = [status EXCEPT ![r] = 500]
  /\ pc' = [pc EXCEPT ![r] = "done"]
  /\ UNCHANGED <<cooldown, avoid, loopVars, left, attemptVars, gone, exhausted,
                 used, reason>>

(* disconnected(): the client is gone, or has part of a failed stream.     *)
DownstreamGone(r) ==
  r \in gone \/ (Committed(r) /\ result[r] # "ok")

(* The failures complete() blames on the key as a provider fault: every    *)
(* 5xx and timeout but a conversion, whether or not the upstream heard of  *)
(* the request.                                                            *)
ProviderFault == {"fault", "timeout"} \union Unsent

(* complete(), up to the release.                                          *)
MarkResult(r) ==
  LET k == Key(r)  res == result[r] IN
  /\ pc[r] = "returned"
  /\ leaving' = [leaving EXCEPT ![r] = DownstreamGone(r)]
  /\ \/ res = "ok" /\ NoteSuccess(k)
     \/ res = "quota" /\ k \in Extended
          /\ \E d \in QuotaHolds : MarkCooldown(k, d)
     \/ (res = "rate" \/ (res = "quota" /\ k \notin Extended))
          /\ \E d \in RateHolds : MarkAvoid(k, "rate", d)
     \/ res = "auth" /\ MarkAvoid(k, "auth", AuthHold)
     \/ res \in ProviderFault /\ MarkAvoid(k, "fault", FaultHold)
     \/ /\ res \in {"invalid", "closed", "conversion"} \ ProviderFault
        /\ UNCHANGED <<cooldown, avoid>>
  /\ pc' = [pc EXCEPT ![r] = "marked"]
  /\ UNCHANGED <<count, loopVars, left, result, wrote, gone, outcomeVars>>

(* candidate_failure_retryable and should_retry.                           *)
Retryable(res) == StatusOf(res) \in {401, 403, 429} \/ StatusOf(res) >= 500
HasNextShort(r) == pos[r] + 1 < Len(order[r])  \* mutant: off by one
HasNext(r) == pos[r] < Len(order[r])
ShouldRetry(r) == HasNext(r) /\ ~leaving[r] /\ Retryable(result[r])

(* complete() releases the slot; the loop goes on or ends here.            *)
Conclude(r) ==
  /\ pc[r] = "marked"
  /\ Release(Key(r))
  /\ IF ShouldRetry(r)
     THEN /\ pos' = [pos EXCEPT ![r] = @ + 1]
          /\ pc' = [pc EXCEPT ![r] = "next"]
          /\ UNCHANGED <<used, status>>
     ELSE /\ used' = [used EXCEPT ![r] = Key(r)]
          /\ status' = [status EXCEPT ![r] = UsedFinal(r)]
          /\ pc' = [pc EXCEPT ![r] = "done"]
          /\ UNCHANGED pos
  /\ UNCHANGED <<cooldown, avoid, order, lapsed, tried, saw, left, attemptVars,
                 gone, exhausted, reason>>

ClientLeaves(r) ==
  /\ pc[r] \notin {"idle", "done"} /\ r \notin gone
  /\ gone' = gone \union {r}
  /\ UNCHANGED <<gateVars, pc, loopVars, left, attemptVars, outcomeVars>>

(* run_usage_watch_cycle or run_cooldown_probe_cycle found its evidence.   *)
Recover(k) ==
  /\ ClearCooldown(k)
  /\ UNCHANGED <<pc, loopVars, left, attemptVars, gone, outcomeVars>>

Tick ==
  /\ GateTick
  /\ left' = [r \in Requests |-> Passed(left[r])]
  /\ UNCHANGED <<pc, loopVars, attemptVars, gone, outcomeVars>>

Advance(r) ==
  \/ Begin(r) \/ Take(r) \/ Skip(r) \/ RunOut(r) \/ BudgetSpent(r)
  \/ Forward(r) \/ Throw(r) \/ MarkResult(r) \/ Conclude(r)
  \/ \E res \in Results : Return(r, res)

Next ==
  \/ \E r \in Requests : Advance(r) \/ Write(r) \/ ClientLeaves(r)
  \/ \E k \in Keys : Recover(k)
  \/ Tick

Spec == Init /\ [][Next]_vars

-----------------------------------------------------------------------------
TypeOK ==
  /\ GateTypeOK
  /\ pc \in [Requests -> Stages]
  /\ pos \in [Requests -> Nat \ {0}]
  /\ order \in [Requests -> {<<>>} \union Orders]
  /\ lapsed \in [Requests -> SUBSET Keys] /\ tried \in [Requests -> SUBSET Keys]
  /\ saw \in [Requests -> SUBSET {"full", "cooldown", "rate", "auth", "fault",
                                  "lapsed"}]
  /\ wrote \in [Requests -> SUBSET Keys] /\ gone \subseteq Requests
  /\ left \in [Requests -> 0..Budget]
  /\ result \in [Requests -> Results]
  /\ leaving \in [Requests -> BOOLEAN] /\ exhausted \in [Requests -> BOOLEAN]
  /\ used \in [Requests -> Keys \union {None}]
  /\ reason \in [Requests -> {"none", "capacity", "quota", "rate",
                              "unavailable", "lapsed"}]
  /\ status \in [Requests -> {0, 200, 400, 401, 429, 499, 500, 502, 503, 504}]

(* account_gate.h:40-42 "every successful acquire has a matching release": *)
(* the count of a slot is the number of requests that hold it, on every    *)
(* path of success, fallback, exhausted budget and exception.              *)
CountIsHolders == \A k \in Keys : count[k] = Cardinality(Holders(k))

(* max_concurrency of a key is never exceeded.                             *)
WithinConcurrency ==
  \A k \in Keys : MaxConcurrency[k] > 0 => count[k] <= MaxConcurrency[k]

(* The bytes a client receives come from one upstream attempt: after the   *)
(* first byte no fallback may continue the response with another one.      *)
OneSource == \A r \in Requests : Cardinality(wrote[r]) <= 1

(* Fallback is exhaustive: a request gives up on a retryable failure only  *)
(* if every later candidate was skipped or tried, the client has left or   *)
(* has bytes already, or the budget is spent.                              *)
GivesUpLast ==
  \A r \in Requests :
    (pc[r] = "done" /\ Retryable(result[r]) /\ ~leaving[r]
       /\ ~exhausted[r] /\ status[r] # 500)
      => pos[r] >= Len(order[r])

(* A request that could not even try a candidate names the reason.         *)
SkippedHasReason ==
  \A r \in Requests :
    (pc[r] = "done" /\ tried[r] = {} /\ ~exhausted[r]) => reason[r] # "none"

(* A key is held back only by an attempt that was made with it, and for    *)
(* long only by its upstream's own answer: a cooldown needs an explicit    *)
(* quota answer, a rate or auth entry a 429, 401 or 403.  An attempt that  *)
(* never reached the upstream costs the key the short provider-fault hold  *)
(* at most (attempt_executor.cpp:75-80), and a conversion failure, a wrong *)
(* request or a client that left cost it nothing.                          *)
BlamedFor(k, S) ==
  \E r \in Requests : pc[r] = "returned" /\ Key(r) = k /\ result[r] \in S
BlameFits ==
  \A k \in Keys :
    /\ cooldown'[k] > cooldown[k] => k \in Extended /\ BlamedFor(k, {"quota"})
    /\ avoid'[k].left > avoid[k].left =>
         \/ avoid'[k].kind = "rate" /\ BlamedFor(k, {"rate", "quota"})
         \/ avoid'[k].kind = "auth" /\ BlamedFor(k, {"auth"})
         \/ /\ avoid'[k].kind = "fault" /\ avoid'[k].left = FaultHold
            /\ BlamedFor(k, {"fault", "timeout"} \union Unsent)

(* account_gate.h:146-148: a quota cooldown ends by time or by evidence,   *)
(* never by the late success of a request that was in flight before it.    *)
CooldownNeedsEvidence ==
  \A k \in Keys :
    cooldown'[k] < cooldown[k] =>
      \/ Tick \/ Recover(k)
      \/ \E r \in Requests : pc[r] = "returned" /\ result[r] = "quota"

(* Slots balance and are never over-committed.                             *)
SlotsRight == CountIsHolders /\ WithinConcurrency

(* Falling back neither splices answers, nor gives up early, nor ends      *)
(* without a reason.                                                       *)
FallbackSound == OneSource /\ GivesUpLast /\ SkippedHasReason

(* Keys are held back as their failures deserve, and let go again on       *)
(* evidence only.                                                          *)
EvidenceOnly == [][BlameFits /\ CooldownNeedsEvidence]_vars

(* account_gate.h:32 "provider fault: 5xx/timeouts hold the key": what     *)
(* holds a key back is something its provider did.                         *)
OnlyUpstreamBlames ==
  [][\A k \in Keys :
       (cooldown'[k] > cooldown[k] \/ avoid'[k].left > avoid[k].left) =>
         BlamedFor(k, Answers)]_vars

(* account_gate.h:30-31 "auth error: 401/403 holds the key for 15 minutes; *)
(* a later success clears it".                                             *)
AuthHoldIsKept ==
  [][\A k \in Keys :
       (avoid[k].kind = "auth" /\ avoid'[k].left < avoid[k].left) =>
         \/ Tick
         \/ \E r \in Requests :
              pc[r] = "returned" /\ Key(r) = k /\ result[r] = "ok"]_vars
=============================================================================
