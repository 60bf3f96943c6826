-------------------------- MODULE GatekeeperProofs --------------------------
(***************************************************************************)
(* The limiter, the gatekeeper that stands before it and the gatekeeper's  *)
(* breaker, for any number of callers, any limits, any window, timeout and *)
(* cooldown.                                                               *)
(*                                                                         *)
(* The limiter is proved with the history beside it: what it remembers is  *)
(* the grants of the last window behind some that are due to be forgotten  *)
(* (Lagging).  The gatekeeper keeps that invariant, since its steps are    *)
(* steps of the limiter or leave it alone, and adds its own count of the   *)
(* callers that have passed the test of the quota (QuotaInv).              *)
(***************************************************************************)
EXTENDS Gatekeeper, SequenceTheorems, FiniteSetTheorems, WellFoundedInduction, TLAPS

-----------------------------------------------------------------------------
(* The limiter. *)

(* The grants of the last window are the last ones the limiter remembers, and  *)
(* whatever it remembers beside them is due to be forgotten.                   *)
Lagging ==
  /\ Len(recent) <= Len(grants)
  /\ \A i \in 1 .. Len(recent) : recent[i] = grants[Len(grants) - Len(recent) + i]
  /\ \A i \in 1 .. Len(grants) - Len(recent) : grants[i] >= Window
  /\ \A i, j \in 1 .. Len(recent) : i <= j => recent[i] >= recent[j]

LimiterInv == LimiterTypeOK /\ Lagging

(* The least of some numbers, by the well-foundedness of their order. *)
LEMMA LeastNumber ==
  ASSUME NEW T, T \subseteq Nat, T # {}
  PROVE  \E x \in T : \A y \in T : x <= y
<1> DEFINE R == OpToRel(<, Nat)
<1>1. IsWellFoundedOn(R, Nat)
  BY NatLessThanWellFounded
<1>2. \A x, y \in Nat : x < y => <<x, y>> \in R
  BY DEF OpToRel
<1> HIDE DEF R
<1>3. PICK x \in T : \A y \in T : <<y, x>> \notin R
  BY <1>1, WFMin
<1>4. \A y \in T : x <= y
  <2> TAKE y \in T
  <2>1. x \in Nat /\ y \in Nat
    OBVIOUS
  <2>2. ~(y < x)
    BY <1>2, <1>3, <2>1
  <2> QED BY <2>1, <2>2
<1> QED BY <1>4

(* The loop of _prune ends somewhere. *)
LEMMA LeadingExists ==
  ASSUME NEW ages \in Seq(Nat), NEW limit \in Nat
  PROVE  /\ Leading(ages, limit) \in 0 .. Len(ages)
         /\ \A i \in 1 .. Leading(ages, limit) : ages[i] >= limit
         /\ Leading(ages, limit) < Len(ages) => ages[Leading(ages, limit) + 1] < limit
<1> DEFINE Fresh == {n \in Nat : n < Len(ages) /\ ages[n + 1] < limit} \cup {Len(ages)}
           Stops(n) == /\ \A i \in 1 .. n : ages[i] >= limit
                       /\ n < Len(ages) => ages[n + 1] < limit
<1>1. Len(ages) \in Nat /\ \A i \in 1 .. Len(ages) : ages[i] \in Nat
  OBVIOUS
<1>2. PICK n \in Fresh : \A m \in Fresh : n <= m
  BY <1>1, LeastNumber
<1>3. n \in 0 .. Len(ages) /\ (n < Len(ages) => ages[n + 1] < limit)
  BY <1>1, <1>2
<1>4. \A i \in 1 .. n : ages[i] >= limit
  <2> SUFFICES ASSUME NEW i \in 1 .. n, ages[i] < limit PROVE FALSE
    BY <1>1, <1>3
  <2>1. i - 1 \in Fresh
    BY <1>1, <1>3
  <2> QED BY <1>2, <1>3, <2>1
<1>5. \E k \in 0 .. Len(ages) : Stops(k)
  BY <1>3, <1>4
<1> QED BY <1>5 DEF Leading

(* What DropAged drops and what it keeps, when the place of the cut is known. *)
LEMMA Cut ==
  ASSUME NEW S, NEW ages \in Seq(S), NEW limit, Leading(ages, limit) \in 0 .. Len(ages)
  PROVE  /\ DropAged(ages, limit) \in Seq(S)
         /\ Len(DropAged(ages, limit)) = Len(ages) - Leading(ages, limit)
         /\ \A i \in 1 .. Len(ages) - Leading(ages, limit) :
              DropAged(ages, limit)[i] = ages[Leading(ages, limit) + i]
<1> DEFINE n == Leading(ages, limit)
<1>1. DropAged(ages, limit) = SubSeq(ages, n + 1, Len(ages))
  BY DEF DropAged
<1> HIDE DEF n
<1>2. Len(ages) \in Nat /\ n \in 0 .. Len(ages) /\ \A i \in n + 1 .. Len(ages) : ages[i] \in S
  BY DEF n
<1> QED BY <1>1, <1>2, SubSeqProperties DEF n

(* Pruning leaves exactly the grants of the last window. *)
LEMMA PrunedIsRecent ==
  ASSUME LimiterInv
  PROVE  Pruned(grants) = recent
<1> DEFINE k == Len(grants) - Len(recent)
<1>1. /\ grants \in Seq(0 .. Window) /\ recent \in Seq(0 .. Window - 1)
      /\ Len(grants) \in Nat /\ Len(recent) \in Nat /\ Window \in Nat
      /\ Len(recent) <= Len(grants)
  BY LimiterAssumption DEF LimiterInv, LimiterTypeOK, Lagging
<1>2. k \in 0 .. Len(grants)
  BY <1>1
<1>3. \A i \in 1 .. k : grants[i] >= Window
  BY DEF LimiterInv, Lagging
<1>4. k < Len(grants) => grants[k + 1] < Window
  <2> SUFFICES ASSUME k < Len(grants) PROVE grants[k + 1] < Window
    OBVIOUS
  <2>1. 1 \in 1 .. Len(recent)
    BY <1>1
  <2>2. recent[1] = grants[k + 1] /\ recent[1] \in 0 .. Window - 1
    BY <1>1, <2>1 DEF LimiterInv, Lagging
  <2> QED BY <1>1, <2>2
<1> HIDE DEF k
<1>5. Leading(grants, Window) = k
  <2> DEFINE n == Leading(grants, Window)
  <2>1. /\ n \in 0 .. Len(grants) /\ \A i \in 1 .. n : grants[i] >= Window
        /\ n < Len(grants) => grants[n + 1] < Window
    <3>1. grants \in Seq(Nat)
      BY <1>1, SeqMonotonic
    <3> QED BY <1>1, <3>1, LeadingExists
  <2> HIDE DEF n
  <2>2. ~(n < k)
    <3> SUFFICES ASSUME n < k PROVE FALSE
      OBVIOUS
    <3>1. n + 1 \in 1 .. k /\ n < Len(grants)
      BY <1>1, <1>2, <2>1
    <3>2. grants[n + 1] \in 0 .. Window
      BY <1>1, <1>2, <3>1, ElementOfSeq
    <3> QED BY <1>1, <1>3, <2>1, <3>1, <3>2
  <2>3. ~(k < n)
    <3> SUFFICES ASSUME k < n PROVE FALSE
      OBVIOUS
    <3>1. k + 1 \in 1 .. n /\ k < Len(grants)
      BY <1>1, <1>2, <2>1
    <3>2. grants[k + 1] \in 0 .. Window
      BY <1>1, <1>2, <3>1, <2>1, ElementOfSeq
    <3> QED BY <1>1, <1>4, <2>1, <3>1, <3>2
  <2> QED BY <1>1, <1>2, <2>1, <2>2, <2>3 DEF n
<1>6. /\ Pruned(grants) \in Seq(0 .. Window) /\ Len(Pruned(grants)) = Len(recent)
      /\ \A i \in 1 .. Len(recent) : Pruned(grants)[i] = grants[k + i]
  <2>1. Len(grants) - k = Len(recent)
    BY <1>1 DEF k
  <2>2. /\ Pruned(grants) \in Seq(0 .. Window) /\ Len(Pruned(grants)) = Len(grants) - k
        /\ \A i \in 1 .. Len(grants) - k : Pruned(grants)[i] = grants[k + i]
    <3>1. Leading(grants, Window) \in 0 .. Len(grants)
      BY <1>2, <1>5
    <3>2. /\ Pruned(grants) \in Seq(0 .. Window)
          /\ Len(Pruned(grants)) = Len(grants) - Leading(grants, Window)
          /\ \A i \in 1 .. Len(grants) - Leading(grants, Window) :
               Pruned(grants)[i] = grants[Leading(grants, Window) + i]
      BY <1>1, <3>1, Cut DEF Pruned
    <3>3. Len(Pruned(grants)) = Len(grants) - k
      BY <1>5, <3>2
    <3>4. \A i \in 1 .. Len(grants) - k : Pruned(grants)[i] = grants[k + i]
      BY <1>5, <3>2
    <3> QED BY <3>2, <3>3, <3>4
  <2> QED BY <2>1, <2>2
<1>7. \A i \in 1 .. Len(recent) : Pruned(grants)[i] = recent[i]
  BY <1>6 DEF LimiterInv, Lagging, k
<1>8. recent \in Seq(0 .. Window)
  BY <1>1, SeqMonotonic
<1> QED BY <1>6, <1>7, <1>8, SeqEqual

LEMMA Narrower ==
  ASSUME NEW S, NEW T, NEW s \in Seq(S), \A i \in 1 .. Len(s) : s[i] \in T
  PROVE  s \in Seq(T)
<1>1. s = [i \in 1 .. Len(s) |-> s[i]] /\ Len(s) \in Nat
  OBVIOUS
<1>2. [i \in 1 .. Len(s) |-> s[i]] \in Seq(T)
  BY <1>1, IsASeq
<1> QED BY <1>1, <1>2

(* A sequence without the element at one place. *)
LEMMA WithoutPlace ==
  ASSUME NEW S, NEW s \in Seq(S), NEW p \in 1 .. Len(s)
  PROVE  /\ Without(s, p) \in Seq(S) /\ Len(Without(s, p)) = Len(s) - 1
         /\ \A i \in 1 .. Len(s) - 1 :
              Without(s, p)[i] = IF i < p THEN s[i] ELSE s[i + 1]
<1> DEFINE n == Len(s)
           front == SubSeq(s, 1, p - 1)
           back == SubSeq(s, p + 1, n)
           t == Without(s, p)
<1>1. n \in Nat /\ p \in 1 .. n /\ \A i \in 1 .. n : s[i] \in S
  OBVIOUS
<1>2. /\ front \in Seq(S) /\ Len(front) = p - 1
      /\ \A i \in 1 .. p - 1 : front[i] = s[i]
  <2>1. \A i \in 1 .. p - 1 : s[i] \in S
    BY <1>1
  <2> QED BY <1>1, <2>1, SubSeqProperties
<1>3. /\ back \in Seq(S) /\ Len(back) = n - p
      /\ \A i \in 1 .. n - p : back[i] = s[p + i]
  <2>1. \A i \in p + 1 .. n : s[i] \in S
    BY <1>1
  <2> QED BY <1>1, <2>1, SubSeqProperties
<1>4. t = front \o back
  BY DEF Without
<1> HIDE DEF front, back, n, t
<1>5. t \in Seq(S) /\ Len(t) = n - 1
  <2>1. t \in Seq(S) /\ Len(t) = Len(front) + Len(back)
    BY <1>2, <1>3, <1>4, ConcatProperties
  <2> QED BY <1>1, <1>2, <1>3, <2>1
<1>6. ASSUME NEW i \in 1 .. n - 1
      PROVE  t[i] = IF i < p THEN s[i] ELSE s[i + 1]
  <2>1. t[i] = IF i <= p - 1 THEN front[i] ELSE back[i - (p - 1)]
    BY <1>1, <1>2, <1>3, <1>4, ConcatProperties
  <2>2. CASE i < p
    BY <1>1, <1>2, <2>1, <2>2
  <2>3. CASE i >= p
    <3>1. i - (p - 1) \in 1 .. n - p /\ p + (i - (p - 1)) = i + 1 /\ ~(i <= p - 1)
      BY <1>1, <2>3
    <3> QED BY <1>1, <1>3, <2>1, <2>3, <3>1
  <2> QED BY <1>1, <2>2, <2>3
<1> QED BY <1>5, <1>6 DEF n, t

(* It has the elements of the other places, each once if each was there once. *)
LEMMA ElementsWithout ==
  ASSUME NEW S, NEW s \in Seq(S), NEW p \in DOMAIN s,
         \A i, j \in DOMAIN s : s[i] = s[j] => i = j
  PROVE  /\ Without(s, p) \in Seq(S) /\ Len(Without(s, p)) = Len(s) - 1
         /\ \A i, j \in DOMAIN Without(s, p) : Without(s, p)[i] = Without(s, p)[j] => i = j
         /\ {Without(s, p)[i] : i \in DOMAIN Without(s, p)}
              = {s[i] : i \in DOMAIN s} \ {s[p]}
<1> DEFINE n == Len(s)
           t == Without(s, p)
<1>0. /\ n \in Nat /\ DOMAIN s = 1 .. n /\ p \in 1 .. n
      /\ t \in Seq(S) /\ Len(t) = n - 1 /\ DOMAIN t = 1 .. n - 1
      /\ \A i \in 1 .. n - 1 : t[i] = IF i < p THEN s[i] ELSE s[i + 1]
  <2>1. n \in Nat /\ DOMAIN s = 1 .. n
    BY LenProperties
  <2>2. p \in 1 .. Len(s)
    BY <2>1
  <2>3. /\ t \in Seq(S) /\ Len(t) = n - 1
        /\ \A i \in 1 .. n - 1 : t[i] = IF i < p THEN s[i] ELSE s[i + 1]
    BY <2>2, WithoutPlace
  <2>4. DOMAIN t = 1 .. n - 1
    BY <2>3, LenProperties
  <2> QED BY <2>1, <2>2, <2>3, <2>4
<1>a. \A i, j \in 1 .. n : s[i] = s[j] => i = j
  BY <1>0
<1> HIDE DEF n, t
<1>1. \A i \in 1 .. n - 1 : \E j \in 1 .. n :
        j # p /\ t[i] = s[j] /\ j = IF i < p THEN i ELSE i + 1
  BY <1>0
<1>2. \A j \in 1 .. n : j # p => \E i \in 1 .. n - 1 : t[i] = s[j]
  <2> SUFFICES ASSUME NEW j \in 1 .. n, j # p PROVE \E i \in 1 .. n - 1 : t[i] = s[j]
    OBVIOUS
  <2>1. CASE j < p
    BY <1>0, <2>1
  <2>2. CASE j > p
    <3>1. j - 1 \in 1 .. n - 1 /\ ~(j - 1 < p) /\ (j - 1) + 1 = j
      BY <1>0, <2>2
    <3> QED BY <1>0, <3>1
  <2> QED BY <1>0, <2>1, <2>2
<1>3. \A i, j \in 1 .. n - 1 : t[i] = t[j] => i = j
  <2> SUFFICES ASSUME NEW i \in 1 .. n - 1, NEW j \in 1 .. n - 1, t[i] = t[j] PROVE i = j
    OBVIOUS
  <2> DEFINE a == IF i < p THEN i ELSE i + 1
             b == IF j < p THEN j ELSE j + 1
  <2>1. a \in 1 .. n /\ b \in 1 .. n /\ s[a] = s[b] /\ a # p /\ b # p
    BY <1>0
  <2>2. a = b
    <3> HIDE DEF a, b
    <3> QED BY <1>a, <2>1
  <2> QED BY <1>0, <2>2
<1>4. \A i \in 1 .. n - 1 : t[i] \in {s[j] : j \in 1 .. n} \ {s[p]}
  BY <1>0, <1>a, <1>1
<1>5. \A j \in 1 .. n : s[j] # s[p] => s[j] \in {t[i] : i \in 1 .. n - 1}
  BY <1>0, <1>2
<1>6. {t[i] : i \in 1 .. n - 1} = {s[i] : i \in 1 .. n} \ {s[p]}
  BY <1>4, <1>5
<1> QED BY <1>0, <1>3, <1>6 DEF n, t

(* A ticket taken out of the queue leaves the others in their order. *)
LEMMA OneLeaves ==
  ASSUME waiting \in Seq(Callers), NEW c, c \in {waiting[i] : i \in DOMAIN waiting},
         \A i, j \in DOMAIN waiting : waiting[i] = waiting[j] => i = j,
         waiting' = Without(waiting, PlaceOf(c))
  PROVE  /\ waiting' \in Seq(Callers) /\ Len(waiting') = Len(waiting) - 1
         /\ \A i, j \in DOMAIN waiting' : waiting'[i] = waiting'[j] => i = j
         /\ {waiting'[i] : i \in DOMAIN waiting'} = {waiting[i] : i \in DOMAIN waiting} \ {c}
<1>1. PlaceOf(c) \in DOMAIN waiting /\ waiting[PlaceOf(c)] = c
  <2>1. \E i \in DOMAIN waiting : waiting[i] = c
    OBVIOUS
  <2> QED BY <2>1 DEF PlaceOf
<1> DEFINE p == PlaceOf(c)
           t == Without(waiting, p)
<1>2. p \in DOMAIN waiting /\ waiting[p] = c /\ waiting' = t
  BY <1>1
<1> HIDE DEF p
<1>3. /\ t \in Seq(Callers) /\ Len(t) = Len(waiting) - 1
      /\ \A i, j \in DOMAIN t : t[i] = t[j] => i = j
      /\ {t[i] : i \in DOMAIN t} = {waiting[i] : i \in DOMAIN waiting} \ {waiting[p]}
  BY <1>2, ElementsWithout
<1> HIDE DEF t
<1>4. {t[i] : i \in DOMAIN t} = {waiting[i] : i \in DOMAIN waiting} \ {c}
  BY <1>2, <1>3
<1>5. waiting' = t
  BY <1>2
<1> QED BY ONLY <1>3, <1>4, <1>5

LEMMA LimiterStart == LimiterInit => LimiterInv
<1> SUFFICES ASSUME LimiterInit PROVE LimiterInv
  OBVIOUS
<1>1. DOMAIN waiting = {} /\ Len(waiting) = 0 /\ Len(grants) = 0 /\ Len(recent) = 0
  BY DEF LimiterInit
<1>2. waiting \in Seq(Callers) /\ grants \in Seq(0 .. Window) /\ recent \in Seq(0 .. Window - 1)
  BY EmptySeq DEF LimiterInit
<1>3. at \in [Callers -> Stages] /\ left \in [Callers -> 0 .. Timeout]
      /\ {c \in Callers : at[c] \in Waiters} = {}
  BY LimiterAssumption DEF LimiterInit, Stages, Waiters
<1>4. {waiting[i] : i \in DOMAIN waiting} = {}
  BY <1>1
<1> QED BY <1>1, <1>2, <1>3, <1>4, LimiterAssumption DEF LimiterInv, LimiterTypeOK, Lagging

(* Time: what the limiter remembers ages, and what has left the window leaves *)
(* the history.                                                               *)
LEMMA LimiterAges == LimiterInv /\ LimiterTick => LimiterInv'
<1> SUFFICES ASSUME LimiterInv, LimiterTick PROVE LimiterInv'
  OBVIOUS
<1> DEFINE k == Len(grants) - Len(recent)
           old == Older(recent)
           n == Leading(old, Window)
<1>1. /\ grants \in Seq(0 .. Window) /\ recent \in Seq(0 .. Window - 1)
      /\ Len(grants) \in Nat /\ Len(recent) \in Nat /\ Window \in Nat \ {0}
      /\ Len(recent) <= Len(grants) /\ Len(grants) <= Rpm
      /\ DOMAIN grants = 1 .. Len(grants) /\ DOMAIN recent = 1 .. Len(recent)
  BY LimiterAssumption DEF LimiterInv, LimiterTypeOK, Lagging
<1>2. /\ grants' = [i \in 1 .. Len(grants) |-> IF grants[i] < Window THEN grants[i] + 1 ELSE Window]
      /\ recent' = DropAged(old, Window)
      /\ old = [i \in 1 .. Len(recent) |-> IF recent[i] < Window THEN recent[i] + 1 ELSE Window]
      /\ left' = [c \in Callers |-> IF left[c] > 0 THEN left[c] - 1 ELSE 0]
      /\ UNCHANGED <<waiting, at>>
  BY <1>1 DEF LimiterTick, Older
<1>3. \A i \in 1 .. Len(grants) : grants[i] \in 0 .. Window
  BY <1>1
<1>4. \A i \in 1 .. Len(recent) : recent[i] \in 0 .. Window - 1 /\ old[i] = recent[i] + 1
  BY <1>1, <1>2
<1>5. grants' \in Seq(0 .. Window) /\ Len(grants') = Len(grants)
  BY <1>1, <1>2, <1>3
<1>6. old \in Seq(Nat) /\ Len(old) = Len(recent)
  BY <1>1, <1>2, <1>4
<1> HIDE DEF old
<1>7. /\ n \in 0 .. Len(recent) /\ (\A i \in 1 .. n : old[i] >= Window)
      /\ n < Len(recent) => old[n + 1] < Window
  BY <1>1, <1>6, LeadingExists
<1>8. /\ Len(recent') = Len(recent) - n
      /\ \A i \in 1 .. Len(recent) - n : recent'[i] = old[n + i]
      /\ recent' \in Seq(Nat)
  <2>1. n \in 0 .. Len(old) /\ recent' = DropAged(old, Window)
    BY <1>2, <1>6, <1>7
  <2>2. /\ DropAged(old, Window) \in Seq(Nat)
        /\ Len(DropAged(old, Window)) = Len(old) - n
        /\ \A i \in 1 .. Len(old) - n : DropAged(old, Window)[i] = old[n + i]
    BY <1>6, <2>1, <1>7, Cut
  <2> QED BY <1>6, <2>1, <2>2
<1> HIDE DEF n
<1>9. \A i, j \in 1 .. Len(recent) : i <= j => recent[i] >= recent[j]
  BY DEF LimiterInv, Lagging
<1>10. \A i \in 1 .. Len(recent) - n :
         recent'[i] = recent[n + i] + 1 /\ recent'[i] \in 0 .. Window - 1
  <2> SUFFICES ASSUME NEW i \in 1 .. Len(recent) - n
               PROVE  recent'[i] = recent[n + i] + 1 /\ recent'[i] \in 0 .. Window - 1
    OBVIOUS
  <2>0. n \in Nat /\ i \in Nat /\ i >= 1 /\ Len(recent) \in Nat /\ n + i <= Len(recent)
    BY <1>1, <1>7
  <2>1. n + i \in 1 .. Len(recent) /\ n + 1 \in 1 .. Len(recent) /\ n + 1 <= n + i
    BY <2>0
  <2>2. recent'[i] = recent[n + i] + 1 /\ recent[n + i] \in 0 .. Window - 1
    BY <1>4, <1>8, <2>1
  <2>3. recent[n + 1] >= recent[n + i]
    BY <1>9, <2>1
  <2>4. old[n + 1] < Window /\ old[n + 1] = recent[n + 1] + 1 /\ recent[n + 1] \in 0 .. Window - 1
    <3>1. n < Len(recent)
      BY <2>0
    <3> QED BY <1>4, <1>7, <2>1, <3>1
  <2>5. \A x, y \in 0 .. Window - 1 : x >= y /\ x + 1 < Window => y + 1 \in 0 .. Window - 1
    BY LimiterAssumption
  <2>6. recent[n + i] + 1 \in 0 .. Window - 1
    BY <2>2, <2>3, <2>4, <2>5
  <2> QED BY <2>2, <2>6
<1>11. recent' \in Seq(0 .. Window - 1)
  <2>1. \A i \in 1 .. Len(recent') : recent'[i] \in 0 .. Window - 1
    BY <1>1, <1>8, <1>10
  <2> QED BY <1>8, <2>1, Narrower
<1>12. Lagging'
  <2>1. Len(recent') <= Len(grants')
    BY <1>1, <1>5, <1>7, <1>8
  <2>2. ASSUME NEW i \in 1 .. Len(recent')
        PROVE  recent'[i] = grants'[Len(grants') - Len(recent') + i]
    <3>1. n + i \in 1 .. Len(recent) /\ k + (n + i) \in 1 .. Len(grants)
          /\ Len(grants') - Len(recent') + i = k + (n + i) /\ i \in 1 .. Len(recent) - n
      BY <1>1, <1>5, <1>7, <1>8
    <3>2. recent[n + i] = grants[k + (n + i)]
      BY <3>1 DEF LimiterInv, Lagging
    <3>3. recent[n + i] \in 0 .. Window - 1 /\ recent'[i] = recent[n + i] + 1
      BY <1>4, <1>10, <3>1
    <3>4. grants'[k + (n + i)] = grants[k + (n + i)] + 1
      BY <1>1, <1>2, <3>1, <3>2, <3>3
    <3> QED BY <3>1, <3>2, <3>3, <3>4
  <2>3. ASSUME NEW i \in 1 .. Len(grants') - Len(recent') PROVE grants'[i] >= Window
    <3>1. i \in 1 .. k + n /\ i \in 1 .. Len(grants)
      BY <1>1, <1>5, <1>7, <1>8
    <3>2. CASE i <= k
      <4>1. grants[i] >= Window
        BY <1>1, <3>1, <3>2 DEF LimiterInv, Lagging
      <4> QED BY <1>1, <1>2, <1>3, <3>1, <4>1
    <3>3. CASE i > k
      <4>1. i - k \in 1 .. n /\ i - k \in 1 .. Len(recent) /\ k + (i - k) = i
        BY <1>1, <1>7, <3>1, <3>3
      <4>2. recent[i - k] = grants[i]
        BY <4>1 DEF LimiterInv, Lagging
      <4>3. recent[i - k] + 1 >= Window
        BY <1>4, <1>7, <4>1
      <4> QED BY <1>1, <1>2, <1>3, <3>1, <4>2, <4>3
    <3> QED BY <1>1, <3>1, <3>2, <3>3
  <2>4. ASSUME NEW i \in 1 .. Len(recent'), NEW j \in 1 .. Len(recent'), i <= j
        PROVE  recent'[i] >= recent'[j]
    <3>1. n + i \in 1 .. Len(recent) /\ n + j \in 1 .. Len(recent) /\ n + i <= n + j
          /\ i \in 1 .. Len(recent) - n /\ j \in 1 .. Len(recent) - n
      BY <1>1, <1>7, <1>8, <2>4
    <3>2. recent[n + i] >= recent[n + j]
      BY <1>9, <3>1
    <3> QED BY <1>4, <1>10, <3>1, <3>2
  <2> QED BY <2>1, <2>2, <2>3, <2>4 DEF Lagging
<1>13. left' \in [Callers -> 0 .. Timeout]
  BY <1>2, LimiterAssumption DEF LimiterInv, LimiterTypeOK
<1>14. LimiterTypeOK'
  BY <1>1, <1>2, <1>5, <1>11, <1>13 DEF LimiterInv, LimiterTypeOK
<1> QED BY <1>12, <1>14 DEF LimiterInv

(* What the limiter holds when one caller moves on, its queue and its grants  *)
(* as they were: it may neither begin nor cease to wait.                      *)
LEMMA LimiterUntouched ==
  ASSUME LimiterInv, NEW c \in Callers, NEW stage \in Stages, Stage(c, stage),
         stage \in Waiters <=> at[c] \in Waiters,
         left' \in [Callers -> 0 .. Timeout],
         UNCHANGED <<grants, waiting, recent>>
  PROVE  LimiterInv'
<1>1. at' = [at EXCEPT ![c] = stage] /\ at \in [Callers -> Stages]
  BY DEF Stage, LimiterInv, LimiterTypeOK
<1>2. at' \in [Callers -> Stages]
  BY <1>1
<1>3. {d \in Callers : at'[d] \in Waiters} = {d \in Callers : at[d] \in Waiters}
  BY <1>1
<1>4. LimiterTypeOK'
  BY <1>2, <1>3 DEF LimiterInv, LimiterTypeOK
<1>5. Lagging'
  BY DEF LimiterInv, Lagging
<1> QED BY <1>4, <1>5 DEF LimiterInv

(* The limiter gives a slot, or finds none: either way it forgets what is due.  *)
LEMMA AskedForASlot ==
  ASSUME LimiterInv, Grant \/ NoGrant
  PROVE  /\ grants' \in Seq(0 .. Window) /\ Len(grants') <= Rpm
         /\ recent' \in Seq(0 .. Window - 1)
         /\ Lagging'
<1> DEFINE n == Len(recent)
<1>1. /\ Pruned(grants) = recent /\ recent \in Seq(0 .. Window - 1) /\ n \in Nat
      /\ Window \in Nat \ {0} /\ Rpm \in Nat /\ Len(grants) \in Nat
      /\ n <= Len(grants) /\ Len(grants) <= Rpm
      /\ \A i, j \in 1 .. n : i <= j => recent[i] >= recent[j]
  BY PrunedIsRecent, LimiterAssumption, LenProperties DEF LimiterInv, LimiterTypeOK, Lagging
<1> HIDE DEF n
<1>2. CASE NoGrant
  <2>1. grants' = recent /\ recent' = recent
    BY <1>1, <1>2 DEF NoGrant
  <2>2. grants' \in Seq(0 .. Window)
    BY <1>1, <2>1, SeqMonotonic
  <2> QED BY <1>1, <2>1, <2>2 DEF Lagging, n
<1>3. CASE Grant
  <2>1. grants' = Append(recent, 0) /\ recent' = Append(recent, 0) /\ n < Rpm
    BY <1>1, <1>3 DEF Grant, HasSlot, n
  <2>2. 0 \in 0 .. Window - 1
    BY <1>1
  <2>3. /\ recent' \in Seq(0 .. Window - 1) /\ Len(recent') = n + 1
        /\ recent'[n + 1] = 0 /\ \A i \in 1 .. n : recent'[i] = recent[i]
    BY <1>1, <2>1, <2>2, AppendProperties DEF n
  <2>4. grants' \in Seq(0 .. Window) /\ grants' = recent'
    BY <1>1, <2>1, <2>3, SeqMonotonic
  <2>5. \A i \in 1 .. n : recent[i] \in 0 .. Window - 1
    BY <1>1, ElementOfSeq DEF n
  <2>6. ASSUME NEW i \in 1 .. n + 1, NEW j \in 1 .. n + 1, i <= j
        PROVE  recent'[i] >= recent'[j]
    <3>1. CASE j <= n
      <4>1. i \in 1 .. n /\ j \in 1 .. n
        BY <1>1, <2>6, <3>1
      <4>2. recent'[i] = recent[i] /\ recent'[j] = recent[j]
        BY <2>3, <4>1
      <4> QED BY <1>1, <2>6, <4>1, <4>2
    <3>2. CASE j = n + 1 /\ i <= n
      BY <1>1, <2>3, <2>5, <2>6, <3>2
    <3>3. CASE j = n + 1 /\ i = n + 1
      BY <2>3, <3>3
    <3> QED BY <1>1, <2>6, <3>1, <3>2, <3>3
  <2>7. Lagging'
    <3>1. Len(grants') = n + 1 /\ Len(recent') = n + 1 /\ Len(grants') - Len(recent') = 0
      BY <1>1, <2>3, <2>4
    <3>2. \A i \in 1 .. n + 1 : recent'[i] = grants'[0 + i]
      BY <1>1, <2>4
    <3>3. \A i \in 1 .. 0 : grants'[i] >= Window
      OBVIOUS
    <3>4. Len(recent') <= Len(grants')
      BY <1>1, <3>1
    <3> QED BY <2>6, <3>1, <3>2, <3>3, <3>4 DEF Lagging
  <2> QED BY <1>1, <2>1, <2>3, <2>4, <2>7
<1> QED BY <1>2, <1>3

(* The first locked region: at once, at the end of the queue, or not at all.  *)
LEMMA AcquireKeeps ==
  ASSUME LimiterInv, NEW c \in Callers, Acquire(c)
  PROVE  LimiterInv'
<1> DEFINE Inside == {d \in Callers : at[d] \in Waiters}
<1>1. at[c] = "out" /\ UNCHANGED left /\ at \in [Callers -> Stages]
      /\ waiting \in Seq(Callers) /\ Len(waiting) \in Nat /\ Len(waiting) <= MaxDepth
      /\ DOMAIN waiting = 1 .. Len(waiting)
  BY LenProperties DEF Acquire, LimiterInv, LimiterTypeOK
<1>2. Grant \/ NoGrant \/ UNCHANGED <<grants, recent>>
  BY DEF Acquire
<1>3. /\ grants' \in Seq(0 .. Window) /\ Len(grants') <= Rpm
      /\ recent' \in Seq(0 .. Window - 1) /\ Lagging'
  BY <1>2, AskedForASlot DEF LimiterInv, LimiterTypeOK, Lagging
<1>4. CASE UNCHANGED waiting /\ \E stage \in {"granted", "refused"} : Stage(c, stage)
  <2>1. PICK stage \in {"granted", "refused"} : at' = [at EXCEPT ![c] = stage]
    BY <1>4 DEF Stage
  <2>2. at' \in [Callers -> Stages] /\ {d \in Callers : at'[d] \in Waiters} = Inside
    BY <1>1, <2>1 DEF Stages, Waiters
  <2> QED BY <1>1, <1>3, <1>4, <2>2 DEF LimiterInv, LimiterTypeOK
<1>5. CASE /\ Len(waiting) < MaxDepth
           /\ Stage(c, "queued") /\ waiting' = Append(waiting, c)
  <2>1. at' \in [Callers -> Stages] /\ {d \in Callers : at'[d] \in Waiters} = Inside \cup {c}
    BY <1>1, <1>5 DEF Stage, Stages, Waiters
  <2>2. c \notin Inside
    BY <1>1 DEF Waiters
  <2>3. /\ waiting' \in Seq(Callers) /\ Len(waiting') = Len(waiting) + 1
        /\ waiting'[Len(waiting) + 1] = c /\ \A i \in 1 .. Len(waiting) : waiting'[i] = waiting[i]
        /\ DOMAIN waiting' = 1 .. Len(waiting) + 1
    BY <1>1, <1>5, AppendProperties, LenProperties
  <2>4. {waiting[i] : i \in 1 .. Len(waiting)} = Inside
        /\ \A i, j \in 1 .. Len(waiting) : waiting[i] = waiting[j] => i = j
    BY <1>1 DEF LimiterInv, LimiterTypeOK
  <2>5. \A i \in 1 .. Len(waiting) : waiting[i] # c
    BY <2>2, <2>4
  <2>6. \A i, j \in DOMAIN waiting' : waiting'[i] = waiting'[j] => i = j
    BY <1>1, <2>3, <2>4, <2>5
  <2>7. {waiting'[i] : i \in DOMAIN waiting'} = Inside \cup {c}
    <3>1. \A i \in 1 .. Len(waiting) + 1 : waiting'[i] \in Inside \cup {c}
      BY <1>1, <2>3, <2>4
    <3>2. \A d \in Inside \cup {c} : \E i \in 1 .. Len(waiting) + 1 : waiting'[i] = d
      <4> SUFFICES ASSUME NEW d \in Inside \cup {c}
                   PROVE  \E i \in 1 .. Len(waiting) + 1 : waiting'[i] = d
        OBVIOUS
      <4>1. CASE d = c
        BY <1>1, <2>3, <4>1
      <4>2. CASE d \in Inside
        <5>1. PICK i \in 1 .. Len(waiting) : waiting[i] = d
          BY <2>4, <4>2
        <5> QED BY <1>1, <2>3, <5>1
      <4> QED BY <4>1, <4>2
    <3> QED BY <2>3, <3>1, <3>2
  <2>8. Len(waiting') <= MaxDepth
    BY <1>1, <1>5, <2>3, LimiterAssumption
  <2> QED BY <1>1, <1>3, <2>1, <2>3, <2>6, <2>7, <2>8 DEF LimiterInv, LimiterTypeOK
<1> QED BY <1>1, <1>4, <1>5, LimiterAssumption DEF Acquire

(* Whoever waits is in the queue, so its head is there. *)
LEMMA WaitersAreQueued ==
  ASSUME LimiterInv, NEW c \in Callers, at[c] \in Waiters
  PROVE  /\ c \in {waiting[i] : i \in DOMAIN waiting} /\ waiting # <<>>
         /\ Head(waiting) = waiting[1] /\ 1 \in DOMAIN waiting
         /\ Tail(waiting) = Without(waiting, 1)
<1>1. c \in {waiting[i] : i \in DOMAIN waiting} /\ waiting \in Seq(Callers)
  BY DEF LimiterInv, LimiterTypeOK
<1>2. Len(waiting) \in Nat \ {0} /\ waiting # <<>>
  BY <1>1
<1>3. Head(waiting) = waiting[1] /\ 1 \in DOMAIN waiting
  BY <1>1, <1>2
<1>4. SubSeq(waiting, 1, 0) = <<>>
  BY <1>1, <1>2, SubSeqEmpty
<1>5. Tail(waiting) = SubSeq(waiting, 2, Len(waiting)) /\ Tail(waiting) \in Seq(Callers)
  BY <1>1, <1>2, TailIsSubSeq, HeadTailProperties
<1>6. <<>> \o Tail(waiting) = Tail(waiting)
  BY <1>5, ConcatEmptySeq
<1> QED BY <1>1, <1>2, <1>3, <1>4, <1>5, <1>6 DEF Without

(* A caller leaves the queue, with a slot or without one. *)
LEMMA LeavesQueue ==
  ASSUME LimiterInv, NEW c \in Callers, at[c] \in Waiters, NEW stage \in {"granted", "refused"},
         Stage(c, stage), waiting' = Without(waiting, PlaceOf(c)), UNCHANGED left,
         grants' \in Seq(0 .. Window), Len(grants') <= Rpm, recent' \in Seq(0 .. Window - 1),
         Lagging'
  PROVE  LimiterInv'
<1>1. /\ waiting \in Seq(Callers) /\ c \in {waiting[i] : i \in DOMAIN waiting}
      /\ \A i, j \in DOMAIN waiting : waiting[i] = waiting[j] => i = j
  BY WaitersAreQueued DEF LimiterInv, LimiterTypeOK
<1>2. /\ waiting' \in Seq(Callers) /\ Len(waiting') = Len(waiting) - 1
      /\ \A i, j \in DOMAIN waiting' : waiting'[i] = waiting'[j] => i = j
      /\ {waiting'[i] : i \in DOMAIN waiting'} = {waiting[i] : i \in DOMAIN waiting} \ {c}
  BY <1>1, OneLeaves
<1>3. at' = [at EXCEPT ![c] = stage] /\ at \in [Callers -> Stages]
  BY DEF Stage, LimiterInv, LimiterTypeOK
<1>4. at' \in [Callers -> Stages]
      /\ {d \in Callers : at'[d] \in Waiters} = {d \in Callers : at[d] \in Waiters} \ {c}
  BY <1>3 DEF Stages, Waiters
<1>5. {waiting'[i] : i \in DOMAIN waiting'} = {d \in Callers : at'[d] \in Waiters}
  BY <1>2, <1>4 DEF LimiterInv, LimiterTypeOK
<1>6. Len(waiting') <= MaxDepth
  <2>1. Len(waiting) \in Nat /\ Len(waiting) <= MaxDepth
    BY <1>1, LenProperties DEF LimiterInv, LimiterTypeOK
  <2> QED BY <1>2, <2>1, LimiterAssumption
<1> QED BY <1>2, <1>4, <1>5, <1>6 DEF LimiterInv, LimiterTypeOK

(* The loop of acquire(), and what becomes of a caller that waits. *)
LEMMA LimiterStepKeeps ==
  ASSUME LimiterInv, NEW c \in Callers, LimiterStep(c)
  PROVE  LimiterInv'
<1>0. /\ left \in [Callers -> 0 .. Timeout] /\ waiting \in Seq(Callers)
      /\ \A i, j \in DOMAIN waiting : waiting[i] = waiting[j] => i = j
      /\ grants \in Seq(0 .. Window) /\ Len(grants) <= Rpm /\ recent \in Seq(0 .. Window - 1)
      /\ Lagging
  BY DEF LimiterInv, LimiterTypeOK
<1>1. CASE SetDeadline(c)
  <2>1. left' \in [Callers -> 0 .. Timeout]
    BY <1>0, <1>1, LimiterAssumption DEF SetDeadline
  <2> QED BY <1>1, <2>1, LimiterUntouched DEF SetDeadline, Stages, Waiters
<1>2. CASE CheckDeadline(c)
  <2>1. left' \in [Callers -> 0 .. Timeout] /\ at[c] = "check"
        /\ UNCHANGED <<grants, waiting, recent>>
    BY <1>0, <1>2 DEF CheckDeadline
  <2>2. Stage(c, "asleep") \/ Stage(c, "expired")
    BY <1>2 DEF CheckDeadline
  <2> QED BY <2>1, <2>2, LimiterUntouched DEF Stages, Waiters
<1>3. CASE Wake(c)
  <2>1. at[c] = "asleep" /\ at[c] \in Waiters /\ UNCHANGED left
    BY <1>3 DEF Wake, Waiters
  <2>2. CASE Head(waiting) = c /\ Grant /\ waiting' = Tail(waiting) /\ Stage(c, "granted")
    <3>1. waiting[1] = c /\ 1 \in DOMAIN waiting /\ Tail(waiting) = Without(waiting, 1)
      BY <2>1, <2>2, WaitersAreQueued
    <3>2. PlaceOf(c) = 1
      <4>1. PlaceOf(c) \in DOMAIN waiting /\ waiting[PlaceOf(c)] = c
        BY <3>1 DEF PlaceOf
      <4> QED BY <1>0, <3>1, <4>1
    <3>3. waiting' = Without(waiting, PlaceOf(c))
      BY <2>2, <3>1, <3>2
    <3>4. /\ grants' \in Seq(0 .. Window) /\ Len(grants') <= Rpm
          /\ recent' \in Seq(0 .. Window - 1) /\ Lagging'
      BY <2>2, AskedForASlot
    <3> QED BY <2>1, <2>2, <3>3, <3>4, LeavesQueue
  <2>3. CASE Head(waiting) = c /\ NoGrant /\ Stage(c, "check") /\ UNCHANGED waiting
    <3>1. /\ grants' \in Seq(0 .. Window) /\ Len(grants') <= Rpm
          /\ recent' \in Seq(0 .. Window - 1) /\ Lagging'
      BY <2>3, AskedForASlot
    <3>2. at' = [at EXCEPT ![c] = "check"] /\ at \in [Callers -> Stages]
      BY <2>3 DEF Stage, LimiterInv, LimiterTypeOK
    <3>3. at' \in [Callers -> Stages]
          /\ {d \in Callers : at'[d] \in Waiters} = {d \in Callers : at[d] \in Waiters}
      BY <2>1, <3>2 DEF Stages, Waiters
    <3> QED BY <2>1, <2>3, <3>1, <3>3 DEF LimiterInv, LimiterTypeOK
  <2>4. CASE Stage(c, "check") /\ UNCHANGED <<grants, waiting, recent>>
    BY <1>0, <2>1, <2>4, LimiterUntouched DEF Stages, Waiters
  <2> QED BY <1>3, <2>2, <2>3, <2>4 DEF Wake
<1>4. CASE GiveUp(c)
  <2>1. /\ at[c] \in Waiters /\ Stage(c, "refused") /\ waiting' = Without(waiting, PlaceOf(c))
        /\ UNCHANGED <<grants, left, recent>>
    BY <1>4 DEF GiveUp, Waiters
  <2>2. Lagging'
    BY <1>0, <2>1 DEF Lagging
  <2> QED BY <1>0, <2>1, <2>2, LeavesQueue
<1> QED BY <1>1, <1>2, <1>3, <1>4 DEF LimiterStep

(* A caller takes its slot, or its refusal, with it. *)
LEMMA LeavesLimiter ==
  ASSUME LimiterInv, NEW c \in Callers, at[c] \in {"granted", "refused"}, Stage(c, "out"),
         UNCHANGED <<grants, waiting, left, recent>>
  PROVE  LimiterInv'
<1>1. left' \in [Callers -> 0 .. Timeout] /\ "out" \in Stages
      /\ ("out" \in Waiters <=> at[c] \in Waiters)
  BY DEF LimiterInv, LimiterTypeOK, Stages, Waiters
<1> QED BY <1>1, LimiterUntouched

LEMMA LimiterKeeps == LimiterInv /\ [LimiterNext]_limiterVars => LimiterInv'
<1> SUFFICES ASSUME LimiterInv, [LimiterNext]_limiterVars PROVE LimiterInv'
  OBVIOUS
<1>1. ASSUME NEW c \in Callers, Return(c) PROVE LimiterInv'
  BY <1>1, LeavesLimiter DEF Return
<1>2. CASE UNCHANGED limiterVars
  BY <1>2 DEF limiterVars, LimiterInv, LimiterTypeOK, Lagging
<1> QED BY <1>1, <1>2, AcquireKeeps, LimiterStepKeeps, LimiterAges DEF LimiterNext

THEOREM LimiterInvariance == LimiterSpec => []LimiterInv
<1> QED BY LimiterStart, LimiterKeeps, PTL DEF LimiterSpec

(* The queue never grows past its limit, and a caller has its place in it      *)
(* exactly while it waits: no timeout or refusal leaves a ticket behind.       *)
THEOREM LimiterTypes == LimiterSpec => []LimiterTypeOK
<1>1. LimiterInv => LimiterTypeOK
  BY DEF LimiterInv
<1> QED BY <1>1, LimiterInvariance, PTL

LEMMA WindowIsKept == LimiterInv => WindowBound
<1> SUFFICES ASSUME LimiterInv PROVE WindowBound
  OBVIOUS
<1>1. /\ Len(recent) \in Nat /\ Len(grants) \in Nat /\ Rpm \in Nat
      /\ Len(recent) <= Len(grants) /\ Len(grants) <= Rpm
  BY LenProperties, LimiterAssumption DEF LimiterInv, LimiterTypeOK, Lagging
<1> QED BY <1>1 DEF WindowBound

(* However lazily old grants are forgotten, and whoever asks meanwhile, no     *)
(* window ever holds more than Rpm of them.                                    *)
THEOREM WindowHolds == LimiterSpec => []WindowBound
<1> QED BY WindowIsKept, LimiterInvariance, PTL

(* A slot goes to a caller that nobody has come before: the direct way in is   *)
(* open only to an empty queue, and of the queue only the head is asked.       *)
THEOREM FirstIsServedFirst == LimiterSpec => FirstComeFirstServed
<1> DEFINE NobodyPassed ==
      \A c \in Callers : Served(c) =>
        \A i \in DOMAIN waiting : waiting[i] = c \/ \E j \in 1 .. i - 1 : waiting[j] = c
<1>1. LimiterInv /\ [LimiterNext]_limiterVars => [NobodyPassed]_limiterVars
  <2> SUFFICES ASSUME LimiterInv, LimiterNext, NEW c \in Callers, Served(c),
                      NEW i \in DOMAIN waiting
               PROVE  waiting[i] = c \/ \E j \in 1 .. i - 1 : waiting[j] = c
    BY DEF NobodyPassed
  <2>1. at \in [Callers -> Stages] /\ waiting \in Seq(Callers) /\ i \in 1 .. Len(waiting)
    BY LenProperties DEF LimiterInv, LimiterTypeOK
  <2>2. PICK d \in Callers : Acquire(d) \/ Wake(d)
    BY <2>1 DEF LimiterNext, LimiterStep, LimiterTick, SetDeadline, CheckDeadline, GiveUp, Return,
                Served, Stage
  <2>3. d = c
    BY <2>1, <2>2 DEF Acquire, Wake, Served, Stage
  <2>4. waiting # <<>>
    BY <2>1
  <2>5. Wake(c) /\ Stage(c, "granted") => Head(waiting) = c
    BY <2>1 DEF Wake, Stage
  <2>6. ~Acquire(c)
    BY <2>1, <2>4 DEF Acquire, Served, Stage
  <2>7. Head(waiting) = c
    BY <2>1, <2>2, <2>3, <2>6 DEF Wake, Served, Stage
  <2>8. waiting[1] = c
    BY <2>1, <2>4, <2>7
  <2> QED BY <2>1, <2>8
<1> HIDE DEF NobodyPassed
<1>2. LimiterSpec => [][NobodyPassed]_limiterVars
  BY <1>1, LimiterInvariance, PTL DEF LimiterSpec
<1> QED BY <1>2 DEF FirstComeFirstServed, NobodyPassed


-----------------------------------------------------------------------------
(* The gatekeeper. *)

(* How many callers stand at a label, and how many there are. *)
There(label) == Cardinality({c \in Callers : pc[c] = label})
Peers == Cardinality(Callers)

(* The limiter's invariant carries over, whatever else execute() does. *)
GatekeeperInv == TypeOK /\ Lagging

(* Stale: the callers that are about to take the lock with the date of an      *)
(* earlier day.  Active: how many are not.  Only a stale caller can set the    *)
(* day back, and it does so once: its next attempt reads the date anew.        *)
Stale == {c \in Callers : pc[c] = "check" /\ seen[c] # today}
Active == Cardinality(Callers \ Stale)

(* Twice the calls that may have been let through on a day when the count      *)
(* starts anew and n callers are active.  The first brings a call along; each  *)
(* one more lets the count start once more, behind the quota, the callers that *)
(* were past the test with it, and its own call.                               *)
Most(n) == IF n = 0 THEN 0 ELSE 2 + 2 * ((n - 1) * DailyQuota) + n * (n - 1)

(* What the quota has let through or may still let through.  While the count   *)
(* is today's, the callers that passed the test and are not counted yet are at *)
(* most the active ones, and what the count does not hold was let through      *)
(* before it started anew.  While it is another day's, whoever is on its way   *)
(* was let through already.                                                    *)
QuotaInv ==
  /\ today = 0 => made + There("permit") <= calls_today
  /\ day = today => calls_today + There("acquire") <= DailyQuota - 1 + Active
  /\ day = today /\ today # 0 =>
       /\ Active >= 1
       /\ 2 * (made + There("permit")) <= Most(Active) + 2 * calls_today
  /\ day # today => 2 * (made + There("acquire") + There("permit")) <= Most(Active)

LEMMA Counted ==
  /\ Peers \in Nat \ {0}
  /\ \A label : There(label) \in 0 .. Peers
  /\ There("acquire") + There("permit") <= Peers
  /\ \A label : (\E c \in Callers : pc[c] # label) => There(label) <= Peers - 1
<1> DEFINE At(label) == {c \in Callers : pc[c] = label}
<1>1. IsFiniteSet(Callers) /\ Peers \in Nat \ {0}
  BY LimiterAssumption, GatekeeperAssumption, FS_CardinalityType, FS_EmptySet DEF Peers
<1>2. \A label : IsFiniteSet(At(label)) /\ There(label) \in 0 .. Peers
  <2> TAKE label
  <2>1. IsFiniteSet(At(label)) /\ Cardinality(At(label)) <= Cardinality(Callers)
    BY <1>1, FS_Subset
  <2>2. Cardinality(At(label)) \in Nat
    BY <2>1, FS_CardinalityType
  <2> QED BY <1>1, <2>1, <2>2 DEF There, Peers
<1>3. There("acquire") + There("permit") <= Peers
  <2>1. At("acquire") \cap At("permit") = {} /\ At("acquire") \cup At("permit") \subseteq Callers
    OBVIOUS
  <2>2. Cardinality(At("acquire") \cup At("permit"))
          = Cardinality(At("acquire")) + Cardinality(At("permit"))
              - Cardinality(At("acquire") \cap At("permit"))
    <3> HIDE DEF At
    <3> QED BY <1>2, FS_Union
  <2>3. Cardinality(At("acquire") \cup At("permit")) <= Cardinality(Callers)
    <3> HIDE DEF At
    <3> QED BY <1>1, <2>1, FS_Subset
  <2>4. Cardinality(At("acquire") \cap At("permit")) = 0
    BY <2>1, FS_EmptySet
  <2>5. There("acquire") = Cardinality(At("acquire")) /\ There("permit") = Cardinality(At("permit"))
    BY DEF There
  <2> HIDE DEF At
  <2>6. There("acquire") \in Nat /\ There("permit") \in Nat
    BY <1>1, <1>2
  <2> QED BY <1>1, <2>2, <2>3, <2>4, <2>5, <2>6 DEF Peers
<1>4. \A label : (\E c \in Callers : pc[c] # label) => There(label) <= Peers - 1
  <2> SUFFICES ASSUME NEW label, NEW c \in Callers, pc[c] # label
               PROVE  There(label) <= Peers - 1
    OBVIOUS
  <2>1. At(label) \subseteq Callers \ {c} /\ IsFiniteSet(Callers \ {c})
        /\ Cardinality(Callers \ {c}) = Cardinality(Callers) - 1
    BY <1>1, FS_RemoveElement
  <2>2. Cardinality(At(label)) <= Cardinality(Callers \ {c})
    BY <2>1, FS_Subset
  <2> QED BY <2>1, <2>2 DEF There, Peers
<1> QED BY <1>1, <1>2, <1>3, <1>4

(* A caller that moves on is counted where it comes to and not where it was.  *)
LEMMA Moves ==
  ASSUME pc \in [Callers -> Labels], NEW c \in Callers, NEW to \in Labels, Goto(c, to),
         NEW label
  PROVE  There(label)' = There(label) + (IF to = label THEN 1 ELSE 0)
                                      - (IF pc[c] = label THEN 1 ELSE 0)
<1> DEFINE At == {d \in Callers : pc[d] = label}
<1>1. pc' = [pc EXCEPT ![c] = to]
  BY DEF Goto
<1>2. IsFiniteSet(At) /\ Cardinality(At) \in Nat
  BY LimiterAssumption, FS_Subset, FS_CardinalityType
<1>a. There(label) = Cardinality(At) /\ There(label)' = Cardinality(At')
  BY DEF There
<1>3. CASE to = label /\ pc[c] # label
  <2>1. At' = At \cup {c} /\ c \notin At
    BY <1>1, <1>3
  <2>2. Cardinality(At \cup {c}) = Cardinality(At) + 1
    BY <1>2, <2>1, FS_AddElement
  <2> QED BY <1>a, <1>2, <1>3, <2>1, <2>2
<1>4. CASE to # label /\ pc[c] = label
  <2>1. At' = At \ {c} /\ c \in At
    BY <1>1, <1>4
  <2>2. Cardinality(At \ {c}) = Cardinality(At) - 1
    BY <1>2, <2>1, FS_RemoveElement
  <2> QED BY <1>a, <1>2, <1>4, <2>1, <2>2
<1>5. CASE (to = label) = (pc[c] = label)
  <2>1. At' = At
    BY <1>1, <1>5
  <2> QED BY <1>a, <1>2, <1>5, <2>1
<1> QED BY <1>3, <1>4, <1>5

(* The part of the types that concerns execute() itself. *)
ExecuteTypes ==
  /\ pc \in [Callers -> Labels]
  /\ attempt \in [Callers -> 0 .. MaxRetries + 1]
  /\ permits = ConcurrentMax - There("calling")
  /\ permits \in Nat
  /\ calls_today \in Nat /\ made \in Nat
  /\ today \in 0 .. MaxDays /\ day \in 0 .. today /\ seen \in [Callers -> 0 .. today]
  /\ consecutive_failures \in Nat
  /\ circuit_open \in BOOLEAN /\ cooling \in 0 .. Cooldown
  /\ leaks \in [Callers -> 0 .. 2]
  /\ \A c \in Callers : at[c] # "out" => pc[c] = "acquire"

LEMMA Parts == GatekeeperInv <=> LimiterInv /\ ExecuteTypes
BY DEF GatekeeperInv, LimiterInv, TypeOK, ExecuteTypes, There

LEMMA ExecuteStart == Init => ExecuteTypes
<1> SUFFICES ASSUME Init PROVE ExecuteTypes
  OBVIOUS
<1>1. {c \in Callers : pc[c] = "calling"} = {}
  BY DEF Init
<1>2. There("calling") = 0
  BY <1>1, FS_EmptySet DEF There
<1>3. permits = ConcurrentMax - There("calling") /\ permits \in Nat
  BY <1>2, GatekeeperAssumption DEF Init
<1>4. /\ pc \in [Callers -> Labels] /\ attempt \in [Callers -> 0 .. MaxRetries + 1]
      /\ leaks \in [Callers -> 0 .. 2] /\ \A c \in Callers : at[c] = "out"
  BY GatekeeperAssumption DEF Init, LimiterInit, Labels
<1>5. /\ calls_today \in Nat /\ made \in Nat
      /\ today \in 0 .. MaxDays /\ day \in 0 .. today /\ seen \in [Callers -> 0 .. today]
      /\ consecutive_failures \in Nat
      /\ circuit_open \in BOOLEAN /\ cooling \in 0 .. Cooldown
  <2>1. /\ calls_today = 0 /\ made = 0 /\ today = 0 /\ day = 0 /\ consecutive_failures = 0
        /\ circuit_open = FALSE /\ cooling = 0 /\ seen = [c \in Callers |-> 0]
    BY DEF Init
  <2>2. 0 \in 0 .. MaxDays /\ 0 \in 0 .. 0 /\ 0 \in 0 .. Cooldown
    BY GatekeeperAssumption
  <2> QED BY <2>1, <2>2
<1> QED BY <1>3, <1>4, <1>5 DEF ExecuteTypes

(* Every step of the doorway is one of the limiter, or leaves the limiter as   *)
(* it is: a caller that is refused or let through returns from it.             *)
LEMMA StepsOfTheLimiter == [Next]_vars => [LimiterNext]_limiterVars
<1> SUFFICES ASSUME [Next]_vars PROVE LimiterNext \/ UNCHANGED limiterVars
  OBVIOUS
<1>1. CASE UNCHANGED vars \/ Midnight
  BY <1>1 DEF vars, Midnight
<1>2. CASE Tick
  BY <1>2 DEF Tick, LimiterNext
<1>3. ASSUME NEW c \in Callers, Execute(c) \/ Step(c)
      PROVE  LimiterNext \/ UNCHANGED limiterVars
  <2>1. CASE InLimiter(c)
    BY <2>1 DEF InLimiter, LimiterNext
  <2>2. CASE Refused(c) \/ CountCall(c)
    <3>1. Return(c)
      BY <2>2 DEF Refused, CountCall, Return
    <3> QED BY <3>1 DEF LimiterNext
  <2>3. CASE \/ Execute(c) \/ ReadDate(c) \/ CheckGuards(c) \/ BeginCall(c) \/ EndCall(c)
             \/ Succeed(c) \/ CountFailure(c) \/ Trip(c)
    BY <2>3 DEF Execute, ReadDate, CheckGuards, BeginCall, EndCall, Succeed, CountFailure, Trip
  <2> QED BY <1>3, <2>1, <2>2, <2>3 DEF Step
<1> QED BY <1>1, <1>2, <1>3 DEF Next

(***************************************************************************)
(* The gatekeeper implements the limiter: whatever execute() does about    *)
(* quotas, permits, retries and the breaker, the limiter inside it sees    *)
(* callers that come, queue and leave as they do where it stands alone.    *)
(***************************************************************************)
THEOREM ImplementsLimiter == Spec => LimiterSpec
<1>1. Init => LimiterInit
  BY DEF Init
<1> QED BY <1>1, StepsOfTheLimiter, PTL DEF Spec, LimiterSpec

(* One step of a caller, or a step of the clock, keeps the types.  A caller    *)
(* whose place in execute() changes changes the count of the places it leaves  *)
(* and comes to.                                                               *)
LEMMA ExecuteKeeps == GatekeeperInv /\ [Next]_vars => ExecuteTypes'
<1> SUFFICES ASSUME GatekeeperInv, [Next]_vars PROVE ExecuteTypes'
  OBVIOUS
<1> USE DEF Labels
<1>1. /\ ExecuteTypes /\ at \in [Callers -> Stages] /\ There("calling") \in Nat
      /\ Cooldown \in Nat /\ MaxRetries \in Nat
      /\ DailyQuota \in Nat /\ MaxDays \in Nat
  BY Parts, Counted, GatekeeperAssumption DEF LimiterInv, LimiterTypeOK
<1>2. CASE UNCHANGED vars
  BY <1>1, <1>2 DEF vars, limiterVars, guardVars, ExecuteTypes, There
<1>3. CASE Tick \/ Midnight
  <2>1. /\ UNCHANGED <<pc, attempt, permits, calls_today, day, consecutive_failures,
                       circuit_open, leaks, at>>
        /\ made' \in Nat /\ today' \in 0 .. MaxDays /\ day \in 0 .. today'
        /\ seen' \in [Callers -> 0 .. today']
        /\ cooling' \in 0 .. Cooldown
    BY <1>1, <1>3 DEF Tick, LimiterTick, Midnight, limiterVars, guardVars, ExecuteTypes
  <2> QED BY <1>1, <2>1 DEF ExecuteTypes, There
<1>4. ASSUME NEW c \in Callers, NEW to \in Labels, Goto(c, to), pc[c] # "acquire",
             UNCHANGED <<at, today>>
      PROVE  /\ pc' \in [Callers -> Labels]
             /\ \A d \in Callers : at'[d] # "out" => pc'[d] = "acquire"
             /\ pc[c] # "calling" /\ to # "calling" => There("calling")' = There("calling")
             /\ pc[c] = "calling" /\ to # "calling" => There("calling")' = There("calling") - 1
             /\ pc[c] # "calling" /\ to = "calling" => There("calling")' = There("calling") + 1
  <2>1. pc' \in [Callers -> Labels] /\ \A d \in Callers \ {c} : pc'[d] = pc[d]
    BY <1>1, <1>4 DEF Goto, ExecuteTypes
  <2>2. There("calling")' = There("calling") + (IF to = "calling" THEN 1 ELSE 0)
                              - (IF pc[c] = "calling" THEN 1 ELSE 0)
    BY <1>1, <1>4, Moves DEF ExecuteTypes
  <2> QED BY <1>1, <1>4, <2>1, <2>2 DEF ExecuteTypes
<1>5. ASSUME NEW c \in Callers,
             \/ Execute(c) \/ ReadDate(c) \/ CheckGuards(c) \/ Succeed(c)
             \/ CountFailure(c) \/ Trip(c)
      PROVE  ExecuteTypes'
  <2>1. PICK to \in Labels \ {"calling"} : Goto(c, to)
    BY <1>5 DEF Execute, ReadDate, CheckGuards, Succeed, CountFailure, Trip
  <2>2. /\ pc[c] \notin {"acquire", "calling"} /\ UNCHANGED <<at, today, permits, made>>
        /\ (attempt' = attempt \/ attempt' = [attempt EXCEPT ![c] = 1]
            \/ (attempt[c] <= MaxRetries /\ attempt' = [attempt EXCEPT ![c] = @ + 1]))
    BY <1>5 DEF Execute, ReadDate, CheckGuards, Succeed, CountFailure, Trip, limiterVars
  <2>3. attempt' \in [Callers -> 0 .. MaxRetries + 1]
    BY <1>1, <2>2 DEF ExecuteTypes
  <2>4. /\ calls_today' \in Nat /\ day' \in 0 .. today /\ seen' \in [Callers -> 0 .. today]
    BY <1>1, <1>5 DEF Execute, ReadDate, CheckGuards, Succeed, CountFailure, Trip, guardVars,
                      CallsCounted, ExecuteTypes
  <2>5. /\ consecutive_failures' \in Nat
        /\ circuit_open' \in BOOLEAN /\ cooling' \in 0 .. Cooldown
        /\ leaks' \in [Callers -> 0 .. 2]
    <3>1. CASE Execute(c) \/ ReadDate(c)
      BY <1>1, <3>1 DEF Execute, ReadDate, guardVars, ExecuteTypes
    <3>2. CASE CheckGuards(c)
      <4>1. /\ UNCHANGED cooling
            /\ UNCHANGED <<circuit_open, consecutive_failures, leaks>> \/ CloseCircuit
        BY <3>2 DEF CheckGuards
      <4>2. circuit_open' \in BOOLEAN
        BY <1>1, <4>1 DEF CloseCircuit, ExecuteTypes
      <4>3. consecutive_failures' \in Nat /\ leaks' \in [Callers -> 0 .. 2]
        <5>1. \/ UNCHANGED <<consecutive_failures, leaks>>
              \/ consecutive_failures' = 0 /\ leaks' = [d \in Callers |-> 0]
          BY <4>1 DEF CloseCircuit
        <5> QED BY <1>1, <5>1 DEF ExecuteTypes
      <4>4. cooling' \in 0 .. Cooldown
        BY <1>1, <4>1 DEF ExecuteTypes
      <4> QED BY <4>2, <4>3, <4>4
    <3>3. CASE Succeed(c) \/ CountFailure(c)
      <4>1. UNCHANGED <<circuit_open, cooling, leaks>>
        BY <3>3 DEF Succeed, CountFailure
      <4>2. consecutive_failures' \in Nat
        BY <1>1, <3>3 DEF Succeed, CountFailure, ExecuteTypes
      <4> QED BY <1>1, <4>1, <4>2 DEF ExecuteTypes
    <3>4. CASE Trip(c)
      <4>1. /\ UNCHANGED <<consecutive_failures, leaks>>
            /\ (circuit_open' = TRUE /\ cooling' = Cooldown) \/ UNCHANGED <<circuit_open, cooling>>
        BY <3>4 DEF Trip
      <4>2. circuit_open' \in BOOLEAN
        BY <1>1, <4>1 DEF ExecuteTypes
      <4>3. cooling' \in 0 .. Cooldown
        BY <1>1, <4>1 DEF ExecuteTypes
      <4>4. consecutive_failures' \in Nat /\ leaks' \in [Callers -> 0 .. 2]
        BY <1>1, <4>1 DEF ExecuteTypes
      <4> QED BY <4>2, <4>3, <4>4
    <3> QED BY <1>5, <3>1, <3>2, <3>3, <3>4
  <2>6. /\ pc' \in [Callers -> Labels]
        /\ \A d \in Callers : at'[d] # "out" => pc'[d] = "acquire"
        /\ There("calling")' = There("calling")
    BY <1>4, <2>1, <2>2
  <2> QED BY <1>1, <2>2, <2>3, <2>4, <2>5, <2>6 DEF ExecuteTypes
<1>6. ASSUME NEW c \in Callers, BeginCall(c) \/ EndCall(c)
      PROVE  ExecuteTypes'
  <2>1. /\ UNCHANGED <<at, attempt, seen, calls_today, day, consecutive_failures, circuit_open,
                       cooling, today>>
        /\ made' \in Nat /\ leaks' \in [Callers -> 0 .. 2]
    BY <1>1, <1>6 DEF BeginCall, EndCall, limiterVars, guardVars, ExecuteTypes
  <2>2. /\ pc' \in [Callers -> Labels] /\ \A d \in Callers : at'[d] # "out" => pc'[d] = "acquire"
        /\ permits' = ConcurrentMax - There("calling")' /\ permits' \in Nat
    <3>1. CASE BeginCall(c)
      <4>1. /\ pc[c] = "permit" /\ permits > 0 /\ permits' = permits - 1
            /\ Goto(c, "calling") /\ UNCHANGED <<at, today>>
        BY <3>1 DEF BeginCall, limiterVars
      <4>2. /\ pc' \in [Callers -> Labels] /\ There("calling")' = There("calling") + 1
            /\ \A d \in Callers : at'[d] # "out" => pc'[d] = "acquire"
        BY <1>4, <4>1
      <4> QED BY <1>1, <4>1, <4>2, GatekeeperAssumption DEF ExecuteTypes
    <3>2. CASE EndCall(c)
      <4>1. PICK to \in {"succeeded", "failed", "idle"} : Goto(c, to)
        BY <3>2 DEF EndCall
      <4>2. pc[c] = "calling" /\ permits' = permits + 1 /\ UNCHANGED <<at, today>>
        BY <3>2 DEF EndCall, limiterVars
      <4>3. /\ pc' \in [Callers -> Labels] /\ There("calling")' = There("calling") - 1
            /\ \A d \in Callers : at'[d] # "out" => pc'[d] = "acquire"
        BY <1>4, <4>1, <4>2
      <4> QED BY <1>1, <4>2, <4>3, GatekeeperAssumption DEF ExecuteTypes
    <3> QED BY <1>6, <3>1, <3>2
  <2> QED BY <1>1, <2>1, <2>2 DEF ExecuteTypes
<1>7. ASSUME NEW c \in Callers, InLimiter(c)
      PROVE  ExecuteTypes'
  <2>1. pc[c] = "acquire" /\ UNCHANGED <<pc, attempt, seen, permits, guardVars, today, made>>
        /\ \E stage : at' = [at EXCEPT ![c] = stage]
    BY <1>7 DEF InLimiter, Acquire, LimiterStep, SetDeadline, CheckDeadline, Wake, GiveUp, Stage
  <2>2. \A d \in Callers : at'[d] # "out" => pc'[d] = "acquire"
    BY <1>1, <2>1 DEF ExecuteTypes
  <2> QED BY <1>1, <2>1, <2>2 DEF guardVars, ExecuteTypes, There
<1>8. ASSUME NEW c \in Callers, Refused(c) \/ CountCall(c)
      PROVE  ExecuteTypes'
  <2>1. /\ pc[c] = "acquire" /\ at' = [at EXCEPT ![c] = "out"] /\ calls_today' \in Nat
        /\ UNCHANGED <<attempt, seen, permits, day, consecutive_failures, circuit_open, cooling,
                       leaks, today, made>>
    BY <1>1, <1>8 DEF Refused, CountCall, Stage, guardVars, ExecuteTypes
  <2>2. PICK to \in {"idle", "permit"} : Goto(c, to)
    BY <1>8 DEF Refused, CountCall
  <2>3. There("calling")' = There("calling") + (IF to = "calling" THEN 1 ELSE 0)
                              - (IF pc[c] = "calling" THEN 1 ELSE 0)
    BY <1>1, <2>2, Moves DEF ExecuteTypes
  <2>4. There("calling")' = There("calling")
    BY <1>1, <2>1, <2>2, <2>3
  <2>5. pc' \in [Callers -> Labels] /\ \A d \in Callers : at'[d] # "out" => pc'[d] = "acquire"
    BY <1>1, <2>1, <2>2 DEF Goto, ExecuteTypes
  <2> QED BY <1>1, <2>1, <2>4, <2>5 DEF ExecuteTypes
<1> QED BY <1>2, <1>3, <1>5, <1>6, <1>7, <1>8 DEF Next, Step


(* Whoever is past the test is active, and so is a caller with today's date.  *)
LEMMA ActiveCounted ==
  /\ Active \in 0 .. Peers
  /\ There("acquire") + There("permit") <= Active
  /\ \A c \in Callers \ Stale : pc[c] \notin {"acquire", "permit"} =>
       There("acquire") + There("permit") <= Active - 1
<1> DEFINE At(label) == {c \in Callers : pc[c] = label}
           Past2 == At("acquire") \cup At("permit")
           Rest == Callers \ Stale
<1>1. IsFiniteSet(Callers) /\ IsFiniteSet(At("acquire")) /\ IsFiniteSet(At("permit"))
      /\ IsFiniteSet(Rest) /\ IsFiniteSet(Past2)
  BY LimiterAssumption, FS_Subset
<1>2. /\ Cardinality(Rest) \in Nat /\ Cardinality(Callers) \in Nat
      /\ Cardinality(At("acquire")) \in Nat /\ Cardinality(At("permit")) \in Nat
      /\ Cardinality(Rest) <= Cardinality(Callers)
  BY <1>1, FS_CardinalityType, FS_Subset
<1>3. Cardinality(Past2) = Cardinality(At("acquire")) + Cardinality(At("permit"))
  <2>1. At("acquire") \cap At("permit") = {}
    OBVIOUS
  <2>2. Cardinality(At("acquire") \cap At("permit")) = 0
    BY <2>1, FS_EmptySet
  <2> HIDE DEF At
  <2>3. Cardinality(At("acquire") \cup At("permit"))
          = Cardinality(At("acquire")) + Cardinality(At("permit"))
              - Cardinality(At("acquire") \cap At("permit"))
    BY <1>1, FS_Union
  <2> QED BY <1>2, <2>2, <2>3
<1>4. Past2 \subseteq Rest
  BY DEF Stale
<1>5. Cardinality(Past2) <= Cardinality(Rest)
  <2> HIDE DEF Past2, Rest
  <2> QED BY <1>1, <1>4, FS_Subset
<1>6. ASSUME NEW c \in Rest, pc[c] \notin {"acquire", "permit"}
      PROVE  Cardinality(Past2) <= Cardinality(Rest) - 1
  <2>1. Past2 \subseteq Rest \ {c}
    BY <1>4, <1>6
  <2> HIDE DEF Past2, Rest
  <2>2. IsFiniteSet(Rest \ {c}) /\ Cardinality(Rest \ {c}) = Cardinality(Rest) - 1
    BY <1>1, <1>6, FS_RemoveElement
  <2> QED BY <2>1, <2>2, FS_Subset
<1>7. /\ There("acquire") = Cardinality(At("acquire")) /\ There("permit") = Cardinality(At("permit"))
      /\ Active = Cardinality(Rest) /\ Peers = Cardinality(Callers)
  BY DEF There, Active, Peers
<1>8. Active \in 0 .. Peers /\ There("acquire") + There("permit") <= Active
  <2> HIDE DEF At, Past2, Rest
  <2> QED BY <1>2, <1>3, <1>5, <1>7
<1>9. ASSUME NEW c \in Rest, pc[c] \notin {"acquire", "permit"}
      PROVE  There("acquire") + There("permit") <= Active - 1
  <2>1. Cardinality(Past2) <= Cardinality(Rest) - 1
    BY <1>6, <1>9
  <2> HIDE DEF At, Past2, Rest
  <2> QED BY <1>2, <1>3, <1>7, <2>1
<1> QED BY <1>8, <1>9

(* The same of the state a step leads to, and of the callers before the       *)
(* judgement of a failure.                                                     *)
Fits == /\ Active \in Nat /\ There("acquire") + There("permit") <= Active
        /\ There("trip") \in Nat

LEMMA FitsNext == Fits'
<1>1. Fits
  BY Counted, ActiveCounted DEF Fits
<1> QED BY <1>1, PTL

(* A stale caller that goes on is active. *)
LEMMA ActiveMoves ==
  ASSUME pc \in [Callers -> Labels], NEW c \in Callers, NEW to \in Labels, Goto(c, to),
         to # "check", UNCHANGED <<seen, today>>
  PROVE  Active' = IF c \in Stale THEN Active + 1 ELSE Active
<1>1. Stale' = Stale \ {c}
  BY DEF Goto, Stale
<1>2. CASE c \in Stale
  <2>1. Callers \ Stale' = (Callers \ Stale) \cup {c} /\ c \notin Callers \ Stale
    BY <1>1, <1>2
  <2>2. IsFiniteSet(Callers \ Stale)
    BY LimiterAssumption, FS_Subset
  <2>3. Cardinality((Callers \ Stale) \cup {c}) = Cardinality(Callers \ Stale) + 1
    BY <2>1, <2>2, FS_AddElement
  <2> QED BY <1>2, <2>1, <2>3 DEF Active
<1>3. CASE c \notin Stale
  <2>1. Stale' = Stale
    BY <1>1, <1>3
  <2> QED BY <1>3, <2>1 DEF Active
<1> QED BY <1>2, <1>3

LEMMA MostGrows ==
  /\ \A n \in Nat : Most(n) \in Nat /\ 2 * n <= Most(n) /\ Most(n) + 2 <= Most(n + 1)
  /\ \A n \in Nat \ {0} : Most(n + 1) = Most(n) + 2 * DailyQuota + 2 * n
  /\ \A m, n \in Nat : m <= n => Most(m) <= Most(n)
<1>1. DailyQuota \in Nat
  BY GatekeeperAssumption
<1>2. \A m, n \in Nat : m * n \in Nat
  OBVIOUS
<1>3. \A n \in Nat \ {0} : /\ (n - 1) * DailyQuota \in Nat /\ n * (n - 1) \in Nat
                           /\ n * DailyQuota = (n - 1) * DailyQuota + DailyQuota
                           /\ (n + 1) * n = n * (n - 1) + 2 * n
                           /\ 2 * n <= 2 + n * (n - 1)
  <2> TAKE n \in Nat \ {0}
  <2>1. PICK k \in Nat : n = k + 1
    <3>1. n - 1 \in Nat /\ n = (n - 1) + 1
      OBVIOUS
    <3> QED BY <3>1
  <2>2. k * DailyQuota \in Nat /\ n * k \in Nat
    BY <1>1, <1>2, <2>1
  <2>3. (k + 1) * DailyQuota = k * DailyQuota + DailyQuota
    BY <1>1, <2>1
  <2>4. (n + 1) * n = n * k + 2 * n
    BY <2>1
  <2>5. 2 * n <= 2 + n * k
    <3>1. CASE k = 0
      BY <2>1, <3>1
    <3>2. CASE k >= 1
      <4>1. PICK l \in Nat : k = l + 1
        <5>1. k - 1 \in Nat /\ k = (k - 1) + 1
          BY <2>1, <3>2
        <5> QED BY <5>1
      <4>2. n * k = l * l + 3 * l + 2 /\ l * l \in Nat
        BY <1>2, <2>1, <4>1
      <4> QED BY <2>1, <4>1, <4>2
    <3> QED BY <2>1, <3>1, <3>2
  <2>6. n - 1 = k
    BY <2>1
  <2> QED BY <2>1, <2>2, <2>3, <2>4, <2>5, <2>6
<1>4. \A n \in Nat \ {0} : /\ Most(n) \in Nat /\ 2 * n <= Most(n)
                           /\ Most(n + 1) = Most(n) + 2 * DailyQuota + 2 * n
  <2> TAKE n \in Nat \ {0}
  <2>1. Most(n) = 2 + 2 * ((n - 1) * DailyQuota) + n * (n - 1)
    BY DEF Most
  <2>2. Most(n + 1) = 2 + 2 * (n * DailyQuota) + (n + 1) * n
    <3>1. (n + 1) - 1 = n /\ n + 1 # 0
      OBVIOUS
    <3> QED BY <3>1 DEF Most
  <2>3. /\ (n - 1) * DailyQuota \in Nat /\ n * (n - 1) \in Nat
        /\ n * DailyQuota = (n - 1) * DailyQuota + DailyQuota
        /\ (n + 1) * n = n * (n - 1) + 2 * n
        /\ 2 * n <= 2 + n * (n - 1)
    BY <1>3
  <2> QED BY <1>1, <2>1, <2>2, <2>3
<1>5. Most(0) = 0 /\ Most(1) = 2
  BY <1>1 DEF Most
<1>6. \A n \in Nat : Most(n) \in Nat /\ 2 * n <= Most(n) /\ Most(n + 1) >= Most(n) + 2
  <2> TAKE n \in Nat
  <2>1. CASE n = 0
    BY <1>5, <2>1
  <2>2. CASE n # 0
    BY <1>1, <1>4, <2>2
  <2> QED BY <2>1, <2>2
<1>7. \A m, n \in Nat : m <= n => Most(m) <= Most(n)
  <2> SUFFICES ASSUME NEW m \in Nat, NEW n \in Nat, m <= n PROVE Most(m) <= Most(n)
    OBVIOUS
  <2>1. CASE m = 0
    BY <1>5, <1>6, <2>1
  <2>2. CASE m # 0
    <3>1. m - 1 <= n - 1 /\ m - 1 \in Nat /\ n - 1 \in Nat
      BY <2>2
    <3>2. (m - 1) * DailyQuota <= (n - 1) * DailyQuota
      BY <1>1, <3>1
    <3>3. m * (m - 1) <= n * (n - 1)
      BY <3>1
    <3>4. /\ (m - 1) * DailyQuota \in Nat /\ (n - 1) * DailyQuota \in Nat
          /\ m * (m - 1) \in Nat /\ n * (n - 1) \in Nat
      BY <1>1, <1>2, <3>1
    <3> QED BY <2>2, <3>1, <3>2, <3>3, <3>4 DEF Most
  <2> QED BY <2>1, <2>2
<1> QED BY <1>4, <1>6, <1>7

LEMMA QuotaStart == Init => QuotaInv
<1> SUFFICES ASSUME Init PROVE QuotaInv
  OBVIOUS
<1>1. /\ {c \in Callers : pc[c] = "acquire"} = {} /\ {c \in Callers : pc[c] = "permit"} = {}
      /\ Stale = {}
  BY DEF Init, Stale
<1>2. There("acquire") = 0 /\ There("permit") = 0 /\ Active = Peers
  BY <1>1, FS_EmptySet DEF There, Active, Peers
<1>3. calls_today = 0 /\ made = 0 /\ today = 0 /\ day = 0
  BY DEF Init
<1> QED BY <1>2, <1>3, Counted, GatekeeperAssumption DEF QuotaInv

(* Where a step that moves one active caller, and makes and counts nothing,    *)
(* takes it: towards the call only past the test.                              *)
LEMMA QuotaUntouched ==
  ASSUME GatekeeperInv, QuotaInv, NEW c \in Callers, NEW to \in Labels, Goto(c, to),
         to \notin {"acquire", "permit"}, Active' = Active,
         UNCHANGED <<calls_today, day, today, made>>
  PROVE  QuotaInv'
<1>1. /\ There("acquire")' = There("acquire") - (IF pc[c] = "acquire" THEN 1 ELSE 0)
      /\ There("permit")' = There("permit") - (IF pc[c] = "permit" THEN 1 ELSE 0)
  <2>1. /\ There("acquire") \in Nat /\ There("permit") \in Nat
    BY Counted
  <2>2. pc \in [Callers -> Labels]
    BY DEF GatekeeperInv, TypeOK
  <2>3. \A label : There(label)' = There(label) + (IF to = label THEN 1 ELSE 0)
                                   - (IF pc[c] = label THEN 1 ELSE 0)
    BY <2>2, Moves
  <2> QED BY <2>1, <2>3
<1>2. /\ There("acquire") \in Nat /\ There("permit") \in Nat /\ Active \in Nat
      /\ calls_today \in Nat /\ made \in Nat /\ DailyQuota \in Nat
      /\ Most(Active) \in Nat /\ Most(Active)' = Most(Active)
  BY Counted, ActiveCounted, MostGrows, GatekeeperAssumption DEF GatekeeperInv, TypeOK, Most
<1>3. /\ There("acquire")' <= There("acquire") /\ There("permit")' <= There("permit")
      /\ There("acquire")' \in Int /\ There("permit")' \in Int
  BY <1>1, <1>2
<1> QED BY <1>2, <1>3 DEF QuotaInv

LEMMA QuotaKeeps == GatekeeperInv /\ QuotaInv /\ [Next]_vars => QuotaInv'
<1> SUFFICES ASSUME GatekeeperInv, QuotaInv, [Next]_vars PROVE QuotaInv'
  OBVIOUS
<1>1. /\ pc \in [Callers -> Labels] /\ calls_today \in Nat /\ made \in Nat
      /\ today \in Nat /\ day \in 0 .. today /\ seen \in [Callers -> 0 .. today]
      /\ DailyQuota \in Nat
  BY GatekeeperAssumption DEF GatekeeperInv, TypeOK
<1>2. /\ Active \in Nat /\ There("acquire") \in Nat /\ There("permit") \in Nat
      /\ There("acquire") + There("permit") <= Active
  BY Counted, ActiveCounted
<1>3. /\ \A n \in Nat : Most(n) \in Nat /\ 2 * n <= Most(n) /\ Most(n) + 2 <= Most(n + 1)
      /\ \A n \in Nat \ {0} : Most(n + 1) = Most(n) + 2 * DailyQuota + 2 * n
      /\ Most(Active)' = Most(Active')
  BY MostGrows DEF Most
<1>4. CASE UNCHANGED <<pc, seen, calls_today, day, today, made>>
  <2>1. UNCHANGED <<Stale, There("acquire"), There("permit")>>
    BY <1>4 DEF There, Stale
  <2>2. UNCHANGED Active
    BY <2>1 DEF Active
  <2> QED BY <1>3, <1>4, <2>1, <2>2 DEF QuotaInv
<1>5. CASE Midnight
  <2>1. /\ UNCHANGED <<pc, calls_today, day>> /\ today' = today + 1 /\ made' = 0
    BY <1>5 DEF Midnight, guardVars
  <2>2. There("acquire")' = There("acquire") /\ There("permit")' = There("permit")
    BY <2>1 DEF There
  <2>3. /\ Active' \in Nat /\ There("acquire")' + There("permit")' <= Active'
    BY FitsNext DEF Fits
  <2>4. 2 * Active' <= Most(Active')
    BY <1>3, <2>3
  <2>5. day' # today' /\ today' # 0
    BY <1>1, <2>1
  <2>6. Most(Active') \in Nat
    BY <1>3, <2>3
  <2> QED BY <1>2, <1>3, <2>1, <2>2, <2>3, <2>4, <2>5, <2>6 DEF QuotaInv
<1>6. ASSUME NEW c \in Callers, ReadDate(c) PROVE QuotaInv'
  <2>1. /\ pc[c] = "guard" /\ Goto(c, "check") /\ seen' = [seen EXCEPT ![c] = today]
        /\ UNCHANGED <<calls_today, day, today, made>>
    BY <1>6 DEF ReadDate, guardVars
  <2>2. Stale' = Stale
    BY <1>1, <2>1 DEF Goto, Stale
  <2>3. Active' = Active
    BY <2>2 DEF Active
  <2> QED BY <2>1, <2>3, QuotaUntouched DEF Labels
<1>7. ASSUME NEW c \in Callers, CheckGuards(c) PROVE QuotaInv'
  <2>1. /\ pc[c] = "check" /\ UNCHANGED <<seen, today, made>>
        /\ day' = seen[c] /\ calls_today' = CallsCounted(c)
    BY <1>7 DEF CheckGuards
  <2>2. /\ There("permit")' = There("permit")
        /\ \/ There("acquire")' = There("acquire")
           \/ QuotaLeft(c) /\ There("acquire")' = There("acquire") + 1
        /\ Active' = IF c \in Stale THEN Active + 1 ELSE Active
    <3>1. (QuotaLeft(c) /\ Goto(c, "acquire")) \/ Goto(c, "idle")
      BY <1>7 DEF CheckGuards
    <3>2. CASE QuotaLeft(c) /\ Goto(c, "acquire")
      <4>1. /\ \A label : There(label)' = There(label) + (IF "acquire" = label THEN 1 ELSE 0)
                                           - (IF pc[c] = label THEN 1 ELSE 0)
            /\ Active' = IF c \in Stale THEN Active + 1 ELSE Active
        BY <1>1, <2>1, <3>2, Moves, ActiveMoves DEF Labels
      <4> QED BY <1>2, <2>1, <3>2, <4>1
    <3>3. CASE Goto(c, "idle")
      <4>1. /\ \A label : There(label)' = There(label) + (IF "idle" = label THEN 1 ELSE 0)
                                           - (IF pc[c] = label THEN 1 ELSE 0)
            /\ Active' = IF c \in Stale THEN Active + 1 ELSE Active
        BY <1>1, <2>1, <3>3, Moves, ActiveMoves DEF Labels
      <4> QED BY <1>2, <2>1, <4>1
    <3> QED BY <3>1, <3>2, <3>3
  <2>3. CASE c \in Stale
    <3>1. day' # today' /\ today' # 0 /\ Active' = Active + 1
      BY <1>1, <2>1, <2>2, <2>3 DEF Stale
    <3>2. /\ There("acquire")' \in Nat /\ There("acquire")' <= There("acquire") + 1
      BY <1>2, <2>2
    <3>3. CASE day # today
      <4>1. 2 * (made + There("acquire") + There("permit")) + 2 <= Most(Active + 1)
        BY <1>1, <1>2, <1>3, <3>3 DEF QuotaInv
      <4> QED BY <1>1, <1>2, <1>3, <2>1, <2>2, <3>1, <3>2, <4>1 DEF QuotaInv
    <3>4. CASE day = today
      <4>1. /\ Active \in Nat \ {0} /\ calls_today + There("acquire") <= DailyQuota - 1 + Active
            /\ 2 * (made + There("permit")) <= Most(Active) + 2 * calls_today
        BY <1>1, <1>2, <2>1, <3>1, <3>4 DEF QuotaInv
      <4>2. Most(Active + 1) = Most(Active) + 2 * DailyQuota + 2 * Active /\ Most(Active) \in Nat
        BY <1>3, <4>1
      <4>3. 2 * (made + There("permit") + There("acquire")) + 2 <= Most(Active + 1)
        BY <1>1, <1>2, <4>1, <4>2
      <4> QED BY <1>1, <1>2, <1>3, <2>1, <2>2, <3>1, <3>2, <4>2, <4>3 DEF QuotaInv
    <3> QED BY <3>3, <3>4
  <2>4. CASE c \notin Stale
    <3>1. day' = today' /\ Active' = Active /\ seen[c] = today
      BY <2>1, <2>2, <2>4 DEF Stale
    <3>2. There("acquire") + There("permit") <= Active - 1
      BY <2>1, <2>4, ActiveCounted
    <3>3. CASE day = today
      <4>1. calls_today' = calls_today /\ (QuotaLeft(c) => calls_today < DailyQuota)
        BY <2>1, <3>1, <3>3 DEF CallsCounted, QuotaLeft
      <4>2. calls_today' + There("acquire")' <= DailyQuota - 1 + Active'
        BY <1>1, <1>2, <2>2, <3>1, <3>2, <3>3, <4>1 DEF QuotaInv
      <4> QED BY <1>1, <1>2, <1>3, <2>1, <2>2, <3>1, <3>3, <4>1, <4>2 DEF QuotaInv
    <3>4. CASE day # today
      <4>1. calls_today' = 0 /\ (QuotaLeft(c) => 0 < DailyQuota) /\ today # 0
        BY <1>1, <2>1, <3>1, <3>4 DEF CallsCounted, QuotaLeft
      <4>2. calls_today' + There("acquire")' <= DailyQuota - 1 + Active' /\ Active' >= 1
        BY <1>1, <1>2, <2>2, <3>1, <3>2, <4>1
      <4>3. 2 * (made + There("permit")) <= Most(Active)
        BY <1>1, <1>2, <1>3, <3>4 DEF QuotaInv
      <4> QED BY <1>1, <1>2, <1>3, <2>1, <2>2, <3>1, <4>1, <4>2, <4>3 DEF QuotaInv
    <3> QED BY <3>3, <3>4
  <2> QED BY <2>3, <2>4
<1>8. ASSUME NEW c \in Callers, CountCall(c) PROVE QuotaInv'
  <2>1. /\ pc[c] = "acquire" /\ Goto(c, "permit") /\ calls_today' = calls_today + 1
        /\ UNCHANGED <<seen, day, today, made>>
    BY <1>8 DEF CountCall
  <2>2. \A label : There(label)' = There(label) + (IF "permit" = label THEN 1 ELSE 0)
                                    - (IF pc[c] = label THEN 1 ELSE 0)
    BY <1>1, <2>1, Moves DEF Labels
  <2>3. There("acquire")' = There("acquire") - 1 /\ There("permit")' = There("permit") + 1
    BY <1>2, <2>1, <2>2
  <2>4. Active' = Active /\ Most(Active)' = Most(Active) /\ Most(Active) \in Nat
    BY <1>1, <1>2, <1>3, <2>1, ActiveMoves DEF Labels, Stale
  <2> QED BY <1>1, <1>2, <2>1, <2>3, <2>4 DEF QuotaInv
<1>9. ASSUME NEW c \in Callers, BeginCall(c) PROVE QuotaInv'
  <2>1. /\ pc[c] = "permit" /\ Goto(c, "calling") /\ made' = made + 1
        /\ UNCHANGED <<seen, calls_today, day, today>>
    BY <1>9 DEF BeginCall
  <2>2. \A label : There(label)' = There(label) + (IF "calling" = label THEN 1 ELSE 0)
                                    - (IF pc[c] = label THEN 1 ELSE 0)
    BY <1>1, <2>1, Moves DEF Labels
  <2>3. There("acquire")' = There("acquire") /\ There("permit")' = There("permit") - 1
    BY <1>2, <2>1, <2>2
  <2>4. Active' = Active /\ Most(Active)' = Most(Active) /\ Most(Active) \in Nat
    BY <1>1, <1>2, <1>3, <2>1, ActiveMoves DEF Labels, Stale
  <2> QED BY <1>1, <1>2, <2>1, <2>3, <2>4 DEF QuotaInv
<1>10. ASSUME NEW c \in Callers,
              Execute(c) \/ Refused(c) \/ EndCall(c) \/ Succeed(c) \/ CountFailure(c) \/ Trip(c)
       PROVE  QuotaInv'
  <2>1. /\ pc[c] # "check" /\ UNCHANGED <<seen, calls_today, day, today, made>>
    BY <1>10 DEF Execute, Refused, EndCall, Succeed, CountFailure, Trip, guardVars
  <2>2. PICK to \in Labels \ {"acquire", "permit", "check"} : Goto(c, to)
    BY <1>10 DEF Execute, Refused, EndCall, Succeed, CountFailure, Trip, Labels
  <2>3. Active' = Active
    BY <1>1, <2>1, <2>2, ActiveMoves DEF Stale
  <2> QED BY <2>1, <2>2, <2>3, QuotaUntouched
<1>11. ASSUME UNCHANGED vars \/ Tick \/ \E c \in Callers : InLimiter(c)
       PROVE  UNCHANGED <<pc, seen, calls_today, day, today, made>>
  BY <1>11 DEF vars, guardVars, Tick, InLimiter
<1> QED BY <1>4, <1>5, <1>6, <1>7, <1>8, <1>9, <1>10, <1>11 DEF Next, Step

LEMMA QuotaBounds == GatekeeperInv /\ QuotaInv => QuotaSlack
<1> SUFFICES ASSUME GatekeeperInv, QuotaInv PROVE QuotaSlack
  OBVIOUS
<1>1. /\ calls_today \in Nat /\ made \in Nat /\ today \in Nat /\ day \in 0 .. today
      /\ DailyQuota \in Nat
  BY GatekeeperAssumption DEF GatekeeperInv, TypeOK
<1>2. /\ Peers \in Nat \ {0} /\ There("acquire") \in Nat /\ There("permit") \in Nat
      /\ Active \in Nat /\ Active <= Peers
  BY Counted, ActiveCounted
<1>3. CASE today = 0
  <2>1. made <= DailyQuota + Peers - 1
    BY <1>1, <1>2, <1>3 DEF QuotaInv
  <2> QED BY <1>3, <2>1 DEF QuotaSlack, Peers
<1>4. CASE today # 0
  <2>1. Most(Active) \in Nat /\ Most(Peers) \in Nat /\ Most(Active) <= Most(Peers)
    BY <1>2, MostGrows
  <2>2. 2 * made <= Most(Peers) + 2 * DailyQuota + 2 * Peers - 2
    BY <1>1, <1>2, <1>4, <2>1 DEF QuotaInv
  <2>3. Most(Peers) + 2 * DailyQuota + 2 * Peers = Most(Peers + 1)
    BY <1>2, MostGrows
  <2>4. Most(Peers + 1) = 2 + 2 * (Peers * DailyQuota) + Peers * (Peers + 1)
    <3>1. Peers + 1 # 0 /\ (Peers + 1) - 1 = Peers /\ (Peers + 1) * Peers = Peers * (Peers + 1)
      BY <1>2
    <3> QED BY <3>1 DEF Most
  <2>5. Peers * DailyQuota \in Nat /\ Peers * (Peers + 1) \in Nat
    BY <1>1, <1>2
  <2>6. 2 * made <= 2 * (Peers * DailyQuota) + Peers * (Peers + 1)
    BY <1>1, <1>2, <2>1, <2>2, <2>3, <2>4, <2>5
  <2>7. made <= Peers * DailyQuota + (Peers * (Peers + 1)) \div 2
    <3> DEFINE q == Peers * DailyQuota
               m == Peers * (Peers + 1)
    <3>1. q \in Nat /\ m \in Nat /\ 2 * made <= 2 * q + m
      BY <2>5, <2>6
    <3> HIDE DEF q, m
    <3>2. made <= q + m \div 2
      BY <1>1, <3>1
    <3> QED BY <3>2 DEF q, m
  <2> QED BY <1>4, <2>7 DEF QuotaSlack, Peers
<1> QED BY <1>3, <1>4

LEMMA GatekeeperInvariance == Spec => [](LimiterInv /\ GatekeeperInv /\ QuotaInv)
<1> DEFINE Inv == LimiterInv /\ GatekeeperInv /\ QuotaInv
<1>1. Init => Inv
  BY LimiterStart, ExecuteStart, QuotaStart, Parts DEF Init
<1>2. Inv /\ [Next]_vars => Inv'
  <2>1. Inv /\ [Next]_vars => LimiterInv' /\ ExecuteTypes' /\ QuotaInv'
    BY StepsOfTheLimiter, LimiterKeeps, ExecuteKeeps, QuotaKeeps, Parts
  <2>2. LimiterInv' /\ ExecuteTypes' => GatekeeperInv'
    BY Parts, PTL
  <2> QED BY <2>1, <2>2
<1> QED BY <1>1, <1>2, PTL DEF Spec

(* The types of the doorway and of its limiter; every permit that is out is    *)
(* the permit of a call under way, and nobody is inside the limiter but from   *)
(* the line that enters it.                                                    *)
THEOREM GatekeeperTypes == Spec => []TypeOK
<1>1. GatekeeperInv => TypeOK
  BY DEF GatekeeperInv
<1> QED BY <1>1, GatekeeperInvariance, PTL

(* The quota, tested before the wait and counted after it by callers that read *)
(* the date before they take the lock, is overshot by no more than one call    *)
(* for every other caller on the first day, and on a later day by no more than *)
(* the same again for every caller that can start the count anew.              *)
THEOREM QuotaHolds == Spec => []QuotaSlack
<1> QED BY GatekeeperInvariance, QuotaBounds, PTL

(* What the limiter promises by itself it keeps behind the doorway: no window  *)
(* holds more than Rpm grants, whatever callers are retried or refused.        *)
THEOREM WindowHoldsBehindTheDoor == Spec => []WindowBound
<1> QED BY ImplementsLimiter, WindowHolds, PTL

(* And so it keeps the order: a caller on its second attempt does not pass one *)
(* that waits on its first.                                                    *)
THEOREM OrderHoldsBehindTheDoor == Spec => FirstComeFirstServed
<1> QED BY ImplementsLimiter, FirstIsServedFirst, PTL

-----------------------------------------------------------------------------
(* The breaker. *)

(* Past(c): c has passed the guards of an attempt whose call has not begun. *)
Past(c) == pc[c] \in {"acquire", "permit"}

BreakerTypes ==
  /\ pc \in [Callers -> Labels]
  /\ consecutive_failures \in Nat
  /\ circuit_open \in BOOLEAN
  /\ leaks \in [Callers -> Nat]

(* A closed breaker remembers no leak; a caller that leaked is back before the *)
(* guards or still in its call; and whoever opened the breaker has no call     *)
(* ahead of it that the guards would not see.                                  *)
BreakerInv ==
  /\ BreakerTypes
  /\ ~circuit_open => \A c \in Callers : leaks[c] = 0
  /\ \A c \in Callers : leaks[c] <= 1 /\ (leaks[c] = 1 => ~Past(c))
  /\ circuit_open => \E c \in Callers : leaks[c] = 0 /\ ~Past(c)
  /\ FailuresAreJudged

-----------------------------------------------------------------------------
LEMMA BreakerInit ==
  Init => BreakerInv
<1> SUFFICES ASSUME Init PROVE BreakerInv
  OBVIOUS
<1>1. BreakerTypes
  BY DEF Init, BreakerTypes, Labels
<1>2. FailuresAreJudged
  <2>1. There("trip") \in Nat /\ CircuitThreshold \in Nat \ {0}
    BY Counted, GatekeeperAssumption
  <2> QED BY <2>1 DEF Init, FailuresAreJudged, There
<1> QED
  BY <1>1, <1>2 DEF Init, BreakerInv

(* What a step that leaves the breaker alone has to show: where callers stand *)
(* may change, but none gets past the guards and none leaves the trip region. *)
LEMMA BreakerUntouched ==
  ASSUME BreakerInv, pc' \in [Callers -> Labels],
         UNCHANGED <<consecutive_failures, circuit_open, leaks>>,
         \A c \in Callers : Past(c)' => Past(c),
         \A c \in Callers : pc[c] = "trip" <=> pc'[c] = "trip"
  PROVE  BreakerInv'
<1>1. BreakerTypes'
  BY DEF BreakerInv, BreakerTypes
<1>2. FailuresAreJudged'
  <2>1. {c \in Callers : pc'[c] = "trip"} = {c \in Callers : pc[c] = "trip"}
    OBVIOUS
  <2> QED BY <2>1 DEF BreakerInv, FailuresAreJudged
<1>3. (~circuit_open => \A c \in Callers : leaks[c] = 0)'
  BY DEF BreakerInv
<1>4. (\A c \in Callers : leaks[c] <= 1 /\ (leaks[c] = 1 => ~Past(c)))'
  BY DEF BreakerInv
<1>5. (circuit_open => \E c \in Callers : leaks[c] = 0 /\ ~Past(c))'
  BY DEF BreakerInv
<1> QED
  BY <1>1, <1>2, <1>3, <1>4, <1>5 DEF BreakerInv

LEMMA BreakerStep ==
  BreakerInv /\ [Next]_vars => BreakerInv'
<1> SUFFICES ASSUME BreakerInv, [Next]_vars PROVE BreakerInv'
  OBVIOUS
<1> USE DEF Labels
<1>1. CASE UNCHANGED vars \/ Tick \/ Midnight
  BY <1>1, BreakerUntouched
  DEF vars, guardVars, Tick, Midnight, BreakerInv, BreakerTypes, Past
<1>2. ASSUME NEW c \in Callers,
             Execute(c) \/ ReadDate(c) \/ InLimiter(c) \/ Refused(c) \/ EndCall(c)
      PROVE  BreakerInv'
  BY <1>2, BreakerUntouched
  DEF Execute, ReadDate, InLimiter, Refused, EndCall, Goto, guardVars, BreakerInv, BreakerTypes, Past
<1>3. ASSUME NEW c \in Callers, CountCall(c)
      PROVE  BreakerInv'
  BY <1>3, BreakerUntouched DEF CountCall, Goto, BreakerInv, BreakerTypes, Past
<1>4. ASSUME NEW c \in Callers, CheckGuards(c)
      PROVE  BreakerInv'
  <2>1. CASE ~QuotaLeft(c) \/ CircuitRefuses
    BY <1>4, <2>1, BreakerUntouched
    DEF CheckGuards, Goto, BreakerInv, BreakerTypes, Past
  <2>2. CASE QuotaLeft(c) /\ ~CircuitRefuses
    <3>1. /\ pc' \in [Callers -> Labels] /\ pc[c] = "check"
          /\ There("trip")' = There("trip") /\ There("trip") \in Nat
      <4>1. pc[c] = "check" /\ Goto(c, "acquire")
        BY <1>4, <2>2 DEF CheckGuards
      <4>2. There("trip")' = There("trip") + (IF "acquire" = "trip" THEN 1 ELSE 0)
                               - (IF pc[c] = "trip" THEN 1 ELSE 0)
        BY <4>1, Moves DEF BreakerInv, BreakerTypes
      <4> QED BY <4>1, <4>2, Counted DEF Goto, BreakerInv, BreakerTypes
    <3>2. /\ ~circuit_open' /\ leaks' \in [Callers -> Nat]
          /\ \A d \in Callers : leaks'[d] = 0
          /\ consecutive_failures' \in Nat
          /\ circuit_open' \in BOOLEAN
      BY <1>4, <2>2 DEF CheckGuards, CloseCircuit, BreakerInv, BreakerTypes
    <3>3. FailuresAreJudged'
      <4>1. CASE circuit_open
        <5>1. consecutive_failures' = 0
          BY <1>4, <2>2, <4>1 DEF CheckGuards, CloseCircuit
        <5> QED BY <3>1, <5>1, GatekeeperAssumption DEF FailuresAreJudged, There
      <4>2. CASE ~circuit_open
        <5>1. UNCHANGED consecutive_failures
          BY <1>4, <2>2, <4>2 DEF CheckGuards, CloseCircuit
        <5> QED BY <3>1, <4>2, <5>1 DEF BreakerInv, FailuresAreJudged, There
      <4> QED BY <4>1, <4>2
    <3> QED
      BY <3>1, <3>2, <3>3 DEF BreakerInv, BreakerTypes
  <2> QED
    BY <2>1, <2>2
<1>5. ASSUME NEW c \in Callers, BeginCall(c)
      PROVE  BreakerInv'
  <2>1. /\ pc' = [pc EXCEPT ![c] = "calling"] /\ pc[c] = "permit"
        /\ pc' \in [Callers -> Labels]
    BY <1>5 DEF BeginCall, Goto, BreakerInv, BreakerTypes
  <2>2. UNCHANGED <<consecutive_failures, circuit_open>>
    BY <1>5 DEF BeginCall
  <2>3. leaks[c] = 0
    BY <2>1 DEF BreakerInv, BreakerTypes, Past
  <2>4. CASE ~circuit_open
    BY <1>5, <2>1, <2>4, BreakerUntouched DEF BeginCall, Past, BreakerInv, BreakerTypes
  <2>5. CASE circuit_open
    <3>1. leaks' = [leaks EXCEPT ![c] = 1]
      BY <1>5, <2>3, <2>5 DEF BeginCall, BreakerInv, BreakerTypes
    <3>2. BreakerTypes'
      BY <2>1, <2>2, <3>1 DEF BreakerInv, BreakerTypes
    <3>3. PICK d \in Callers : leaks[d] = 0 /\ ~Past(d)
      BY <2>5 DEF BreakerInv
    <3>4. d # c
      BY <2>1, <3>3 DEF Past
    <3>5. leaks'[d] = 0 /\ ~Past(d)'
      BY <2>1, <3>1, <3>3, <3>4 DEF Past, BreakerInv, BreakerTypes
    <3>6. \A e \in Callers : leaks'[e] <= 1 /\ (leaks'[e] = 1 => ~Past(e)')
      BY <2>1, <3>1 DEF Past, BreakerInv, BreakerTypes
    <3>7. FailuresAreJudged'
      BY <2>2, <2>5 DEF FailuresAreJudged
    <3> QED
      BY <2>2, <2>5, <3>2, <3>5, <3>6, <3>7 DEF BreakerInv
  <2> QED
    BY <2>4, <2>5 DEF BreakerInv, BreakerTypes
<1>6. ASSUME NEW c \in Callers, Succeed(c)
      PROVE  BreakerInv'
  <2>1. /\ BreakerTypes' /\ UNCHANGED <<circuit_open, leaks>>
        /\ \A d \in Callers : Past(d)' => Past(d)
    BY <1>6 DEF Succeed, Goto, BreakerInv, BreakerTypes, Past
  <2>2. FailuresAreJudged'
    <3>1. There("trip")' \in Nat
      BY FitsNext DEF Fits
    <3>2. consecutive_failures' = 0
      BY <1>6 DEF Succeed
    <3> QED BY <3>1, <3>2, GatekeeperAssumption DEF FailuresAreJudged, There
  <2> QED
    BY <2>1, <2>2 DEF BreakerInv
<1>7. ASSUME NEW c \in Callers, CountFailure(c)
      PROVE  BreakerInv'
  <2>1. /\ BreakerTypes' /\ UNCHANGED <<circuit_open, leaks>>
        /\ \A d \in Callers : Past(d)' => Past(d)
    BY <1>7, GatekeeperAssumption DEF CountFailure, Goto, BreakerInv, BreakerTypes, Past
  <2>2. FailuresAreJudged'
    <3>1. pc[c] = "failed" /\ Goto(c, "trip") /\ consecutive_failures' = consecutive_failures + 1
      BY <1>7 DEF CountFailure
    <3>2. There("trip")' = There("trip") + (IF "trip" = "trip" THEN 1 ELSE 0)
                             - (IF pc[c] = "trip" THEN 1 ELSE 0)
      BY <3>1, Moves DEF BreakerInv, BreakerTypes
    <3>3. There("trip") \in Nat /\ There("trip")' = There("trip") + 1
      BY <3>1, <3>2, Counted
    <3> QED BY <2>1, <3>1, <3>3, GatekeeperAssumption
            DEF BreakerInv, BreakerTypes, FailuresAreJudged, There
  <2> QED
    BY <2>1, <2>2 DEF BreakerInv
<1>8. ASSUME NEW c \in Callers, Trip(c)
      PROVE  BreakerInv'
  <2>1. /\ pc[c] = "trip" /\ pc' \in [Callers -> Labels] /\ ~Past(c) /\ ~Past(c)'
        /\ UNCHANGED <<consecutive_failures, leaks>>
        /\ \A d \in Callers : Past(d)' => Past(d)
        /\ \A d \in Callers \ {c} : pc'[d] = pc[d]
    BY <1>8 DEF Trip, Goto, BreakerInv, BreakerTypes, Past
  <2>2. CASE Trips(c)
    <3>1. circuit_open'
      BY <1>8, <2>2 DEF Trip
    <3>2. BreakerTypes' /\ FailuresAreJudged'
      BY <1>8, <2>1, <2>2, <3>1 DEF Trip, BreakerInv, BreakerTypes, FailuresAreJudged
    <3>3. \E d \in Callers : leaks'[d] = 0 /\ ~Past(d)'
      BY <2>1 DEF BreakerInv
    <3> QED
      BY <2>1, <3>1, <3>2, <3>3 DEF BreakerInv
  <2>3. CASE ~Trips(c)
    <3>1. UNCHANGED circuit_open
      BY <1>8, <2>3 DEF Trip
    <3>2. BreakerTypes'
      BY <2>1, <3>1 DEF BreakerInv, BreakerTypes
    <3>3. FailuresAreJudged'
      <4>1. There("trip")' \in Nat
        BY FitsNext DEF Fits
      <4>2. consecutive_failures' \in Nat /\ ~(consecutive_failures' >= CircuitThreshold)
        BY <2>1, <2>3 DEF Trips, BreakerInv, BreakerTypes
      <4> QED BY <4>1, <4>2, GatekeeperAssumption DEF FailuresAreJudged, There
    <3> QED
      BY <2>1, <3>1, <3>2, <3>3 DEF BreakerInv
  <2> QED
    BY <2>2, <2>3
<1> QED
  BY <1>1, <1>2, <1>3, <1>4, <1>5, <1>6, <1>7, <1>8 DEF Next, Step

-----------------------------------------------------------------------------
(* What the guards, the failure count and the leaks are at every moment, the   *)
(* locked regions of execute() interleaved in any way.                         *)
THEOREM BreakerInvariance == Spec => []BreakerInv
<1>1. Init => BreakerInv
  BY BreakerInit
<1>2. BreakerInv /\ [Next]_vars => BreakerInv'
  BY BreakerStep
<1> QED
  BY <1>1, <1>2, PTL DEF Spec

(* However many callers share a service, each begins at most one call while    *)
(* the breaker is open, and at least one of them, the one that opened it, none. *)
THEOREM BreakerHolds == Spec => []BreakerStopsCalls
<1>1. BreakerInv => BreakerStopsCalls
  <2> SUFFICES ASSUME BreakerInv PROVE BreakerStopsCalls
    OBVIOUS
  <2>1. CASE circuit_open
    BY <2>1 DEF BreakerInv, BreakerStopsCalls
  <2>2. CASE ~circuit_open
    BY <2>2, GatekeeperAssumption DEF BreakerInv, BreakerStopsCalls
  <2> QED
    BY <2>1, <2>2
<1> QED
  BY <1>1, BreakerInvariance, PTL

(* While the breaker is closed, every failure counted from the threshold on    *)
(* has its caller before the judgement, so with N callers fewer than the       *)
(* threshold and N failures in a row are ever counted before it opens.  What a *)
(* success or the end of a cooldown zeroes in between is not judged at all.    *)
THEOREM BreakerTrips == Spec => []FailuresAreJudged
<1>1. BreakerInv => FailuresAreJudged
  BY DEF BreakerInv
<1> QED
  BY <1>1, BreakerInvariance, PTL

=============================================================================
