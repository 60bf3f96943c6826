---------------------------- MODULE RateLimiter ----------------------------
(***************************************************************************)
(* RateLimiter (shared/rate_limiter.py): a sliding window of grants with a *)
(* first-come-first-served queue behind it, entered by several threads.    *)
(*                                                                         *)
(* The clock is relative: a grant is kept by its age, counted up to        *)
(* Window, and a deadline by the time it has left, counted down to 0.  A   *)
(* ticket is drawn fresh and a caller holds at most one, so a ticket is    *)
(* written as the caller that holds it.  A sleep lasts as long as the      *)
(* scheduler likes.                                                        *)
(***************************************************************************)
EXTENDS Integers, Sequences, FiniteSets

CONSTANTS
  Callers,     \* the threads that enter the limiter
  Rpm,         \* limits.requests_per_minute
  MaxDepth,    \* queue.max_depth
  Window,      \* WINDOW_SECONDS, in ticks of the clock
  Timeout      \* queue.timeout_seconds, in ticks

ASSUME LimiterAssumption ==
  /\ IsFiniteSet(Callers)
  /\ Rpm \in Nat /\ MaxDepth \in Nat
  /\ Window \in Nat \ {0} /\ Timeout \in Nat

VARIABLES
  grants,      \* RateLimiter._grants: ages, oldest first
  waiting,     \* RateLimiter._waiting
  at,          \* where each caller stands in acquire()
  left,        \* what each caller has left of its deadline
  recent       \* history: the ages of the grants of the last Window ticks

limiterVars == <<grants, waiting, at, left, recent>>

Waiters == {"queued", "check", "asleep", "expired"}
Stages == Waiters \cup {"out", "granted", "refused"}

LimiterInit ==
  /\ grants = <<>> /\ waiting = <<>> /\ recent = <<>>
  /\ at = [c \in Callers |-> "out"]
  /\ left = [c \in Callers |-> 0]

Stage(c, stage) == at' = [at EXCEPT ![c] = stage]

-----------------------------------------------------------------------------
(* The loop of _prune: ages leave at the front, the oldest first, until one is *)
(* below the limit.                                                            *)
Leading(ages, limit) ==
  CHOOSE n \in 0 .. Len(ages) :
    /\ \A i \in 1 .. n : ages[i] >= limit
    /\ n < Len(ages) => ages[n + 1] < limit

DropAged(ages, limit) == SubSeq(ages, Leading(ages, limit) + 1, Len(ages))

(* A faulty variant: a grant is forgotten one tick too soon. *)
PrunedEarly(ages) == DropAged(ages, Window - 1)

(* _prune: the grants that left the window are dropped. *)
Pruned(ages) == DropAged(ages, Window)

HasSlot == Len(Pruned(grants)) < Rpm

(* _try_grant_locked prunes whether it grants or not. *)
Grant ==
  /\ HasSlot
  /\ grants' = Append(Pruned(grants), 0)
  /\ recent' = Append(recent, 0)

NoGrant ==
  /\ ~HasSlot
  /\ grants' = Pruned(grants)
  /\ UNCHANGED recent

(* A faulty variant: a newcomer takes a free slot past the queue. *)
BargingAcquire(c) ==
  /\ at[c] = "out"
  /\ \/ Grant /\ Stage(c, "granted") /\ UNCHANGED waiting
     \/ /\ NoGrant
        /\ IF Len(waiting) >= MaxDepth
             THEN Stage(c, "refused") /\ UNCHANGED waiting
             ELSE Stage(c, "queued") /\ waiting' = Append(waiting, c)
  /\ UNCHANGED left

(* The first locked region of acquire(): a slot at once when nobody waits,   *)
(* else a place in the queue, else a refusal.                                *)
Acquire(c) ==
  /\ at[c] = "out"
  /\ \/ waiting = <<>> /\ Grant /\ Stage(c, "granted") /\ UNCHANGED waiting
     \/ /\ (waiting = <<>> /\ NoGrant) \/ (waiting # <<>> /\ UNCHANGED <<grants, recent>>)
        /\ IF Len(waiting) >= MaxDepth
             THEN Stage(c, "refused") /\ UNCHANGED waiting
             ELSE Stage(c, "queued") /\ waiting' = Append(waiting, c)
  /\ UNCHANGED left

SetDeadline(c) ==
  /\ at[c] = "queued"
  /\ left' = [left EXCEPT ![c] = Timeout]
  /\ Stage(c, "check")
  /\ UNCHANGED <<grants, waiting, recent>>

(* The loop test, made before each sleep and not after it. *)
CheckDeadline(c) ==
  /\ at[c] = "check"
  /\ Stage(c, IF left[c] > 0 THEN "asleep" ELSE "expired")
  /\ UNCHANGED <<grants, waiting, left, recent>>

(* Out of the sleep, only the head of the queue asks for a slot. *)
Wake(c) ==
  /\ at[c] = "asleep"
  /\ \/ /\ Head(waiting) = c /\ Grant
        /\ waiting' = Tail(waiting) /\ Stage(c, "granted")
     \/ /\ Head(waiting) = c /\ NoGrant
        /\ Stage(c, "check") /\ UNCHANGED waiting
     \/ /\ Head(waiting) # c
        /\ Stage(c, "check") /\ UNCHANGED <<grants, waiting, recent>>
  /\ UNCHANGED left

(* A faulty variant: a caller that gives up leaves its ticket behind. *)
GiveUpQuietly(c) ==
  /\ at[c] = "expired"
  /\ Stage(c, "refused")
  /\ UNCHANGED <<grants, waiting, left, recent>>

(* deque.remove, of an element that is there once. *)
Without(s, place) == SubSeq(s, 1, place - 1) \o SubSeq(s, place + 1, Len(s))

PlaceOf(c) == CHOOSE i \in DOMAIN waiting : waiting[i] = c

(* The timeout is raised through the finally clause, which removes the ticket. *)
GiveUp(c) ==
  /\ at[c] = "expired"
  /\ waiting' = Without(waiting, PlaceOf(c))
  /\ Stage(c, "refused")
  /\ UNCHANGED <<grants, left, recent>>

LimiterStep(c) == SetDeadline(c) \/ CheckDeadline(c) \/ Wake(c) \/ GiveUp(c)

(* The clock: grants age, deadlines run down. *)
Older(ages) == [i \in DOMAIN ages |-> IF ages[i] < Window THEN ages[i] + 1 ELSE Window]

LimiterTick ==
  /\ grants' = Older(grants)
  /\ recent' = DropAged(Older(recent), Window)
  /\ left' = [c \in Callers |-> IF left[c] > 0 THEN left[c] - 1 ELSE 0]
  /\ UNCHANGED <<waiting, at>>

-----------------------------------------------------------------------------
(* The limiter by itself: callers come and go as they like. *)
Return(c) ==
  /\ at[c] \in {"granted", "refused"}
  /\ Stage(c, "out")
  /\ UNCHANGED <<grants, waiting, left, recent>>

LimiterNext ==
  \/ \E c \in Callers : Acquire(c) \/ LimiterStep(c) \/ Return(c)
  \/ LimiterTick

LimiterSpec == LimiterInit /\ [][LimiterNext]_limiterVars

-----------------------------------------------------------------------------
(* Types.  A caller is in the queue exactly while it waits, and only once;    *)
(* the queue never grows past its limit.                                      *)
LimiterTypeOK ==
  /\ grants \in Seq(0 .. Window) /\ Len(grants) <= Rpm
  /\ recent \in Seq(0 .. Window - 1)
  /\ at \in [Callers -> Stages]
  /\ left \in [Callers -> 0 .. Timeout]
  /\ waiting \in Seq(Callers) /\ Len(waiting) <= MaxDepth
  /\ \A i, j \in DOMAIN waiting : waiting[i] = waiting[j] => i = j
  /\ {waiting[i] : i \in DOMAIN waiting} = {c \in Callers : at[c] \in Waiters}

(* At no time have more than Rpm grants been given within one window, however *)
(* lazily the limiter forgets the old ones.                                   *)
WindowBound == Len(recent) <= Rpm

(* Served(c): this step gives c its slot. *)
Served(c) == at[c] # "granted" /\ at'[c] = "granted"

(* First come, first served: nobody gets a slot while somebody who came       *)
(* earlier still waits, whether by the queue or by the direct way in.         *)
FirstComeFirstServed ==
  [][\A c \in Callers : Served(c) =>
       \A i \in DOMAIN waiting :
         waiting[i] = c \/ \E j \in 1 .. i - 1 : waiting[j] = c]_limiterVars

=============================================================================
