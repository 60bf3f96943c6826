----------------------------- MODULE Gatekeeper -----------------------------
(***************************************************************************)
(* ApiGatekeeper.execute (shared/gatekeeper.py): the doorway of one        *)
(* service, entered by several threads at once.  Model calls run in worker *)
(* threads that the turn abandons at its deadline (strategy/llm_tactics.py *)
(* and strategy/llm_hints.py), so the call of an earlier turn may still be *)
(* inside when the next one comes.                                         *)
(*                                                                         *)
(* Every locked region is one action, and so is what is read outside the   *)
(* lock and used within it: the date.  The limiter is RateLimiter's, of    *)
(* which the calls of Acquire and LimiterStep are made here.  Pauses       *)
(* between two attempts are left out: any step may come late.              *)
(***************************************************************************)
EXTENDS RateLimiter

CONSTANTS
  MaxRetries,          \* limits.max_retries
  DailyQuota,          \* limits.daily_quota
  CircuitThreshold,    \* limits.circuit_breaker_failures
  Cooldown,            \* limits.circuit_breaker_cooldown_seconds, in ticks
  ConcurrentMax,       \* limits.concurrent_max
  MaxDays              \* bound: how often midnight comes

ASSUME GatekeeperAssumption ==
  /\ Callers # {}
  /\ MaxRetries \in Nat /\ DailyQuota \in Nat /\ MaxDays \in Nat
  /\ CircuitThreshold \in Nat \ {0} /\ ConcurrentMax \in Nat \ {0}
  /\ Cooldown \in Nat

VARIABLES
  pc,                     \* where each caller stands in execute()
  attempt,                \* its loop variable
  seen,                   \* the date it read last, its variable today
  permits,                \* the value of the semaphore _concurrency
  calls_today,            \* ApiGatekeeper._calls_today
  day,                    \* ApiGatekeeper._day
  today,                  \* the date
  consecutive_failures,   \* ApiGatekeeper._consecutive_failures
  circuit_open,           \* _circuit_opened_at is set
  cooling,                \* what is left of the cooldown
  made,                   \* history: calls begun today
  leaks                   \* history: calls begun by each caller in this open period

guardVars == <<calls_today, day, consecutive_failures, circuit_open, cooling, leaks>>
vars == <<limiterVars, pc, attempt, seen, permits, guardVars, today, made>>

Init ==
  /\ LimiterInit
  /\ pc = [c \in Callers |-> "idle"] /\ attempt = [c \in Callers |-> 0]
  /\ seen = [c \in Callers |-> 0]
  /\ permits = ConcurrentMax
  /\ calls_today = 0 /\ day = 0 /\ today = 0
  /\ consecutive_failures = 0 /\ circuit_open = FALSE /\ cooling = 0
  /\ made = 0 /\ leaks = [c \in Callers |-> 0]

Goto(c, label) == pc' = [pc EXCEPT ![c] = label]

-----------------------------------------------------------------------------
Execute(c) ==
  /\ pc[c] = "idle"
  /\ Goto(c, "guard") /\ attempt' = [attempt EXCEPT ![c] = 1]
  /\ UNCHANGED <<limiterVars, seen, permits, guardVars, today, made>>

(* A faulty variant: a retry goes by the date that its first attempt read. *)
ReadDateOnce(c) ==
  /\ pc[c] = "guard"
  /\ seen' = IF attempt[c] = 1 THEN [seen EXCEPT ![c] = today] ELSE seen
  /\ Goto(c, "check")
  /\ UNCHANGED <<limiterVars, attempt, permits, guardVars, today, made>>

(* _check_guards reads the date before it takes the lock: by the time it has  *)
(* the lock midnight may have passed and other callers gone by the new date.  *)
ReadDate(c) ==
  /\ pc[c] = "guard"
  /\ seen' = [seen EXCEPT ![c] = today]
  /\ Goto(c, "check")
  /\ UNCHANGED <<limiterVars, attempt, permits, guardVars, today, made>>

CallsCounted(c) == IF seen[c] # day THEN 0 ELSE calls_today

QuotaLeft(c) == CallsCounted(c) < DailyQuota

CircuitRefuses == circuit_open /\ cooling > 0

CloseCircuit ==
  IF circuit_open
    THEN /\ circuit_open' = FALSE /\ consecutive_failures' = 0
         /\ leaks' = [c \in Callers |-> 0]
    ELSE UNCHANGED <<circuit_open, consecutive_failures, leaks>>

(* A faulty variant: a retry is not asked for the guards again. *)
GuardFirstAttempt(c) ==
  /\ pc[c] = "check"
  /\ day' = seen[c] /\ calls_today' = CallsCounted(c)
  /\ IF attempt[c] = 1 /\ (~QuotaLeft(c) \/ CircuitRefuses)
       THEN Goto(c, "idle") /\ UNCHANGED <<circuit_open, consecutive_failures, leaks>>
       ELSE Goto(c, "acquire")
            /\ IF attempt[c] = 1 THEN CloseCircuit
                                 ELSE UNCHANGED <<circuit_open, consecutive_failures, leaks>>
  /\ UNCHANGED <<limiterVars, attempt, seen, permits, cooling, today, made>>

(* The locked region of _check_guards, before every attempt: the count starts *)
(* anew on another day than the last caller's, be it later or earlier; the    *)
(* quota is looked at, then the breaker, which closes after its cooldown.  A  *)
(* refusal leaves execute().                                                  *)
CheckGuards(c) ==
  /\ pc[c] = "check"
  /\ day' = seen[c] /\ calls_today' = CallsCounted(c)
  /\ IF ~QuotaLeft(c) \/ CircuitRefuses
       THEN Goto(c, "idle") /\ UNCHANGED <<circuit_open, consecutive_failures, leaks>>
       ELSE Goto(c, "acquire") /\ CloseCircuit
  /\ UNCHANGED <<limiterVars, attempt, seen, permits, cooling, today, made>>

(* The limiter's own steps, within acquire(). *)
InLimiter(c) ==
  /\ pc[c] = "acquire"
  /\ Acquire(c) \/ LimiterStep(c)
  /\ UNCHANGED <<pc, attempt, seen, permits, guardVars, today, made>>

(* acquire() raised: the error leaves execute() without another attempt. *)
Refused(c) ==
  /\ pc[c] = "acquire" /\ at[c] = "refused"
  /\ Stage(c, "out") /\ Goto(c, "idle")
  /\ UNCHANGED <<grants, waiting, left, recent, attempt, seen, permits, guardVars, today, made>>

(* The call is counted once the limiter lets it through. *)
CountCall(c) ==
  /\ pc[c] = "acquire" /\ at[c] = "granted"
  /\ Stage(c, "out") /\ Goto(c, "permit")
  /\ calls_today' = calls_today + 1
  /\ UNCHANGED <<grants, waiting, left, recent, attempt, seen, permits, day,
                 consecutive_failures, circuit_open, cooling, leaks, today, made>>

(* The semaphore, then the call.  A call begun while the breaker is open is   *)
(* one that had passed the guards before it opened.                           *)
BeginCall(c) ==
  /\ pc[c] = "permit" /\ permits > 0
  /\ permits' = permits - 1
  /\ Goto(c, "calling")
  /\ made' = made + 1
  /\ leaks' = IF circuit_open /\ leaks[c] < 2 THEN [leaks EXCEPT ![c] = @ + 1] ELSE leaks
  /\ UNCHANGED <<limiterVars, attempt, seen, calls_today, day, consecutive_failures,
                 circuit_open, cooling, today>>

(* A faulty variant: a failed call keeps its permit. *)
FailureKeepsPermit(c) ==
  /\ pc[c] = "calling"
  /\ \E outcome \in {"succeeded", "failed", "idle"} :
       /\ Goto(c, outcome)
       /\ permits' = IF outcome = "succeeded" THEN permits + 1 ELSE permits
  /\ UNCHANGED <<limiterVars, attempt, seen, guardVars, today, made>>

(* The call ends and gives its permit back: a result, a ProviderError, or     *)
(* another exception, which leaves execute() at once and counts for nothing.  *)
EndCall(c) ==
  /\ pc[c] = "calling"
  /\ permits' = permits + 1
  /\ \E outcome \in {"succeeded", "failed", "idle"} : Goto(c, outcome)
  /\ UNCHANGED <<limiterVars, attempt, seen, guardVars, today, made>>

Succeed(c) ==
  /\ pc[c] = "succeeded"
  /\ consecutive_failures' = 0
  /\ Goto(c, "idle")
  /\ UNCHANGED <<limiterVars, attempt, seen, permits, calls_today, day, circuit_open,
                 cooling, leaks, today, made>>

(* A failure is counted in one locked region and judged in the next. *)
CountFailure(c) ==
  /\ pc[c] = "failed"
  /\ consecutive_failures' = consecutive_failures + 1
  /\ Goto(c, "trip")
  /\ UNCHANGED <<limiterVars, attempt, seen, permits, calls_today, day, circuit_open,
                 cooling, leaks, today, made>>

(* A faulty variant: only a caller with no attempt left trips the breaker. *)
TripOnLastAttempt(c) ==
  consecutive_failures >= CircuitThreshold /\ attempt[c] > MaxRetries

Trips(c) == consecutive_failures >= CircuitThreshold

(* The breaker opens, or opens again; then the next attempt or the end.       *)
Trip(c) ==
  /\ pc[c] = "trip"
  /\ IF Trips(c) THEN circuit_open' = TRUE /\ cooling' = Cooldown
                 ELSE UNCHANGED <<circuit_open, cooling>>
  /\ \/ /\ attempt[c] <= MaxRetries
        /\ attempt' = [attempt EXCEPT ![c] = @ + 1] /\ Goto(c, "guard")
     \/ /\ attempt[c] > MaxRetries
        /\ Goto(c, "idle") /\ UNCHANGED attempt
  /\ UNCHANGED <<limiterVars, seen, permits, calls_today, day, consecutive_failures, leaks,
                 today, made>>

Step(c) ==
  \/ ReadDate(c) \/ CheckGuards(c) \/ InLimiter(c) \/ Refused(c) \/ CountCall(c)
  \/ BeginCall(c) \/ EndCall(c) \/ Succeed(c) \/ CountFailure(c) \/ Trip(c)

Tick ==
  /\ LimiterTick
  /\ cooling' = IF cooling > 0 THEN cooling - 1 ELSE 0
  /\ UNCHANGED <<pc, attempt, seen, permits, calls_today, day, consecutive_failures,
                 circuit_open, leaks, today, made>>

Midnight ==
  /\ today < MaxDays
  /\ today' = today + 1 /\ made' = 0
  /\ UNCHANGED <<limiterVars, pc, attempt, seen, permits, guardVars>>

Next == (\E c \in Callers : Execute(c) \/ Step(c)) \/ Tick \/ Midnight

(* Threads are scheduled, time passes and a call ends (the providers give     *)
(* theirs a timeout); nobody has to make a call.                              *)
Fairness == (\A c \in Callers : WF_vars(Step(c))) /\ WF_vars(Tick)

Spec == Init /\ [][Next]_vars /\ Fairness

-----------------------------------------------------------------------------
Labels == {"idle", "guard", "check", "acquire", "permit", "calling",
           "succeeded", "failed", "trip"}

(* Types; the limiter is only entered from "acquire", and the permits that are *)
(* out are those of the calls under way.                                       *)
TypeOK ==
  /\ LimiterTypeOK
  /\ pc \in [Callers -> Labels]
  /\ attempt \in [Callers -> 0 .. MaxRetries + 1]
  /\ permits = ConcurrentMax - Cardinality({c \in Callers : pc[c] = "calling"})
  /\ permits \in Nat
  /\ calls_today \in Nat /\ made \in Nat
  /\ today \in 0 .. MaxDays /\ day \in 0 .. today /\ seen \in [Callers -> 0 .. today]
  /\ consecutive_failures \in Nat
  /\ circuit_open \in BOOLEAN /\ cooling \in 0 .. Cooldown
  /\ leaks \in [Callers -> 0 .. 2]
  /\ \A c \in Callers : at[c] # "out" => pc[c] = "acquire"

(* The quota is tested before the wait and counted after it, so callers that   *)
(* pass the test together overshoot it: on one day by one call for every other *)
(* caller.  A midnight costs more.  Each caller may bring along a call that    *)
(* had passed the test before.  And a caller that read the date before         *)
(* midnight and gets the lock after it sets the day back and clears the count, *)
(* which the next caller clears once more: every caller but one can do so, and *)
(* each time the quota is made again, with the overshoot of those that are     *)
(* past the test by then.  No day can hold more calls than this.               *)
QuotaSlack ==
  LET callers == Cardinality(Callers) IN
  made <= IF today = 0 THEN DailyQuota + callers - 1
                       ELSE callers * DailyQuota + (callers * (callers + 1)) \div 2

(* An open breaker lets through only the calls that had passed the guards when *)
(* it opened: one for every caller at most, and none of the caller that opened *)
(* it.  In particular a retry never passes an open breaker.                    *)
BreakerStopsCalls ==
  /\ \A c \in Callers : leaks[c] <= 1
  /\ \E c \in Callers : leaks[c] = 0

(* A failure is counted in one locked region and judged in the next, and the   *)
(* judgement is of the counter as it is by then: a success or the end of a     *)
(* cooldown in between zeroes it, and that run of failures opens nothing.  But *)
(* while the counter stands no failure goes unjudged: for every failure from   *)
(* the threshold on, the breaker is open or a caller is about to open it.  So  *)
(* a closed breaker never has the threshold of failures in a row and as many   *)
(* more as there are callers.                                                  *)
FailuresAreJudged ==
  ~circuit_open =>
    consecutive_failures
      <= CircuitThreshold - 1 + Cardinality({c \in Callers : pc[c] = "trip"})

(* The doorway never keeps a caller: every execute() returns or raises, though *)
(* callers wait for one another in the queue and at the semaphore.             *)
ExecuteEnds == \A c \in Callers : pc[c] # "idle" ~> pc[c] = "idle"

=============================================================================
