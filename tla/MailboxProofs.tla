--------------------------- MODULE MailboxProofs ---------------------------
(***************************************************************************)
(* Theorems of Mailbox, for any ids, hashes and envelopes, any number of   *)
(* calls in flight and any clock.                                          *)
(***************************************************************************)
EXTENDS Mailbox, SequenceTheorems, TLAPS

(* An accepted message with an id is remembered as delivered. *)
Remembered ==
  /\ \A m \in held : m.id \in delivered_ids /\ m.id # NoId
  /\ \A i \in DOMAIN puts : puts[i].id = NoId \/ puts[i].id \in delivered_ids

(* Until its reveal, or an expired one, an acknowledged commitment stays, and  *)
(* every later one acknowledged for its id has its hash.                       *)
Stands ==
  \A a \in acks :
    a[1] \in delivered_ids \cup lapsed
      \/ /\ Pending(a[1]) /\ <<a[1], pending_commits[a[1]]>> \in acks
         /\ a[2].commit = pending_commits[a[1]].commit

Inv == TypeOK /\ Remembered /\ DeliveredOnce /\ Stands /\ RevealsHonourAcks

-----------------------------------------------------------------------------
(* It holds of empty inboxes. *)
LEMMA InitInv == Init => Inv
<1> SUFFICES ASSUME Init PROVE Inv
  OBVIOUS
<1>1. <<>> \in Seq(Messages)
  BY EmptySeq
<1>2. DOMAIN pending_commits = {} /\ DOMAIN puts = {}
  BY DEF Init
<1>3. TypeOK
  BY <1>1, <1>2, LimitAssumption DEF Init, TypeOK
<1>4. Remembered /\ DeliveredOnce /\ Stands /\ RevealsHonourAcks
  BY <1>2 DEF Init, Remembered, DeliveredOnce, Stands, RevealsHonourAcks, Accepted
<1> QED BY <1>3, <1>4 DEF Inv

(* What one more message put on the queue leaves of those before it. *)
LEMMA Appended ==
  ASSUME NEW s \in Seq(Messages), NEW m \in Messages
  PROVE  /\ Append(s, m) \in Seq(Messages)
         /\ DOMAIN Append(s, m) = DOMAIN s \cup {Len(s) + 1} /\ Len(s) + 1 \notin DOMAIN s
         /\ \A i \in DOMAIN s : Append(s, m)[i] = s[i]
         /\ Append(s, m)[Len(s) + 1] = m
         /\ {Append(s, m)[i] : i \in DOMAIN Append(s, m)} = {s[i] : i \in DOMAIN s} \cup {m}
<1>1. /\ Append(s, m) \in Seq(Messages) /\ Len(s) \in Nat
      /\ DOMAIN s = 1 .. Len(s) /\ DOMAIN Append(s, m) = 1 .. Len(s) + 1
  OBVIOUS
<1>2. DOMAIN Append(s, m) = DOMAIN s \cup {Len(s) + 1} /\ Len(s) + 1 \notin DOMAIN s
  BY <1>1
<1>3. (\A i \in DOMAIN s : Append(s, m)[i] = s[i]) /\ Append(s, m)[Len(s) + 1] = m
  BY <1>1
<1>4. {Append(s, m)[i] : i \in DOMAIN Append(s, m)} = {s[i] : i \in DOMAIN s} \cup {m}
  <2> DEFINE longer == Append(s, m)
  <2>1. {longer[i] : i \in DOMAIN s} = {s[i] : i \in DOMAIN s}
    BY <1>3
  <2>2. {longer[i] : i \in DOMAIN s \cup {Len(s) + 1}}
          = {longer[i] : i \in DOMAIN s} \cup {longer[Len(s) + 1]}
    OBVIOUS
  <2> QED BY <1>2, <1>3, <2>1, <2>2
<1> QED BY <1>1, <1>2, <1>3, <1>4

-----------------------------------------------------------------------------
(* Every call, and every step of the runtime, keeps it. *)
LEMMA StepInv == Inv /\ [Next]_vars => Inv'
<1> SUFFICES ASSUME Inv, [Next]_vars PROVE Inv'
  OBVIOUS
<1>1. TypeOK /\ Remembered /\ DeliveredOnce /\ Stands /\ RevealsHonourAcks
  BY DEF Inv
<1>2. CASE AcceptCommit
  <2>1. PICK id \in Ids, commitment \in Commitments :
          /\ ~Conflicts(id, commitment)
          /\ pending_commits' =
               [i \in DOMAIN pending_commits \cup {id} |->
                  IF i = id THEN commitment ELSE pending_commits[i]]
          /\ acks' = IF id \in delivered_ids THEN acks ELSE acks \cup {<<id, commitment>>}
          /\ UNCHANGED <<delivered_ids, held, turns, clock, puts, lapsed>>
    BY <1>2 DEF AcceptCommit
  <2>2. TypeOK'
    BY <1>1, <2>1 DEF TypeOK
  <2>3. Remembered' /\ DeliveredOnce'
    BY <1>1, <2>1 DEF Remembered, DeliveredOnce
  <2>4. Stands'
    <3> SUFFICES ASSUME NEW a \in acks', a[1] \notin delivered_ids \cup lapsed
                 PROVE  /\ a[1] \in DOMAIN pending_commits'
                        /\ <<a[1], pending_commits'[a[1]]>> \in acks'
                        /\ a[2].commit = pending_commits'[a[1]].commit
      BY <2>1 DEF Stands, Pending
    <3>1. CASE a[1] # id
      <4>1. a \in acks
        BY <2>1, <3>1
      <4>2. pending_commits'[a[1]] = pending_commits[a[1]] /\ a[1] \in DOMAIN pending_commits
        BY <1>1, <2>1, <3>1, <4>1 DEF Stands, Pending
      <4> QED BY <1>1, <2>1, <4>1, <4>2 DEF Stands
    <3>2. CASE a[1] = id
      <4>1. pending_commits'[id] = commitment /\ id \in DOMAIN pending_commits'
            /\ <<id, commitment>> \in acks'
        BY <2>1, <3>2
      <4>2. CASE a = <<id, commitment>>
        BY <3>2, <4>1, <4>2
      <4>3. CASE a \in acks
        <5>1. Pending(id) /\ a[2].commit = pending_commits[id].commit
          BY <1>1, <3>2, <4>3 DEF Stands
        <5>2. pending_commits[id].commit = commitment.commit
          BY <2>1, <5>1 DEF Conflicts
        <5> QED BY <3>2, <4>1, <5>1, <5>2
      <4> QED BY <2>1, <4>2, <4>3
    <3> QED BY <3>1, <3>2
  <2>5. RevealsHonourAcks'
    <3>1. Accepted' = Accepted
      BY <2>1 DEF Accepted
    <3>2. \A m \in Accepted : m.id # NoId => m.id \in delivered_ids
      BY <1>1 DEF Accepted, Remembered
    <3>3. \A m \in Accepted : {a \in acks' : a[1] = m.id} = {a \in acks : a[1] = m.id}
      BY <2>1, <3>2, IdAssumption
    <3>4. \A m \in Accepted : Honours(m)' <=> Honours(m)
      BY <3>3 DEF Honours
    <3> QED BY <1>1, <2>1, <3>1, <3>4 DEF RevealsHonourAcks
  <2> QED BY <2>2, <2>3, <2>4, <2>5 DEF Inv
<1>3. CASE AcceptReveal
  <2>1. PICK m \in Messages :
          /\ m.id # NoId /\ ~Duplicate(m) /\ Matches(m)
          /\ pending_commits' = Without(m.id)
          /\ delivered_ids' = delivered_ids \cup {m.id}
          /\ held' = held \cup {m}
          /\ UNCHANGED <<turns, clock, puts, acks, lapsed>>
    BY <1>3 DEF AcceptReveal
  <2>2. m.id \in Ids /\ m.id \notin delivered_ids
    BY <2>1 DEF Messages, Duplicate
  <2>3. TypeOK'
    BY <1>1, <2>1, <2>2 DEF TypeOK, Without
  <2>4. Remembered'
    BY <1>1, <2>1, <2>2 DEF Remembered
  <2>5. DeliveredOnce'
    <3>1. \A n \in held : n.id # m.id
      BY <1>1, <2>2 DEF Remembered
    <3>2. m.id \notin {puts[i].id : i \in DOMAIN puts}
      BY <1>1, <2>1, <2>2 DEF Remembered
    <3> QED BY <1>1, <2>1, <3>1, <3>2 DEF DeliveredOnce
  <2>6. Stands'
    <3>1. \A a \in acks : a[1] \notin delivered_ids' =>
            /\ Pending(a[1])' = Pending(a[1])
            /\ Pending(a[1]) => pending_commits'[a[1]] = pending_commits[a[1]]
      BY <2>1 DEF Pending, Without
    <3> QED BY <1>1, <2>1, <3>1 DEF Stands
  <2>7. RevealsHonourAcks'
    <3>1. Accepted' = Accepted \cup {m}
      BY <2>1 DEF Accepted
    <3>2. m.id \notin lapsed => Honours(m)
      <4> SUFFICES ASSUME m.id \notin lapsed, NEW b \in acks, b[1] = m.id
                   PROVE  /\ \A a \in acks : a[1] = m.id => a[2].commit = m.commit
                          /\ \E a \in acks : a[1] = m.id
                                             /\ a[2].envelope \in {m.envelope, NoEnvelope}
        BY DEF Honours
      <4>1. Pending(m.id) /\ <<m.id, pending_commits[m.id]>> \in acks
        BY <1>1, <2>2 DEF Stands
      <4>2. /\ pending_commits[m.id].commit = m.commit
            /\ pending_commits[m.id].envelope \in {m.envelope, NoEnvelope}
        BY <2>1, <4>1 DEF Matches
      <4>3. \A a \in acks : a[1] = m.id => a[2].commit = m.commit
        BY <1>1, <2>2, <4>2 DEF Stands
      <4> QED BY <4>1, <4>2, <4>3
    <3>3. \A n \in Messages : Honours(n)' <=> Honours(n)
      BY <2>1 DEF Honours
    <3>4. Accepted' \subseteq Messages
      <4>1. \A i \in DOMAIN puts : puts[i] \in Messages
        BY <1>1, ElementOfSeq, LenProperties DEF TypeOK
      <4> QED BY <1>1, <3>1, <4>1 DEF TypeOK, Accepted
    <3> QED BY <1>1, <2>1, <3>1, <3>2, <3>3, <3>4 DEF RevealsHonourAcks
  <2> QED BY <2>3, <2>4, <2>5, <2>6, <2>7 DEF Inv
<1>4. CASE RefuseExpired
  <2>1. PICK m \in Messages :
          /\ m.id # NoId /\ ~Duplicate(m)
          /\ pending_commits' = Without(m.id)
          /\ lapsed' = lapsed \cup {m.id}
          /\ UNCHANGED <<delivered_ids, held, turns, clock, puts, acks>>
    BY <1>4 DEF RefuseExpired
  <2>2. m.id \in Ids
    BY <2>1 DEF Messages
  <2>3. TypeOK'
    BY <1>1, <2>1, <2>2 DEF TypeOK, Without
  <2>4. Remembered' /\ DeliveredOnce'
    BY <1>1, <2>1 DEF Remembered, DeliveredOnce
  <2>5. Stands'
    <3>1. \A a \in acks : a[1] # m.id =>
            /\ Pending(a[1])' = Pending(a[1])
            /\ Pending(a[1]) => pending_commits'[a[1]] = pending_commits[a[1]]
      BY <2>1 DEF Pending, Without
    <3> QED BY <1>1, <2>1, <3>1 DEF Stands
  <2>6. RevealsHonourAcks'
    BY <1>1, <2>1 DEF RevealsHonourAcks, Accepted, Honours
  <2> QED BY <2>3, <2>4, <2>5, <2>6 DEF Inv
<1>5. CASE Put
  <2>1. PICK m \in held :
          /\ held' = held \ {m} /\ turns' = Append(turns, m) /\ puts' = Append(puts, m)
          /\ UNCHANGED <<pending_commits, delivered_ids, clock, acks, lapsed>>
    BY <1>5 DEF Put
  <2>2. m \in Messages /\ puts \in Seq(Messages) /\ turns \in Seq(Messages)
    BY <1>1, <2>1 DEF TypeOK
  <2>3. TypeOK'
    BY <1>1, <2>1, <2>2, Appended DEF TypeOK
  <2>4. Remembered'
    BY <1>1, <2>1, <2>2, Appended DEF Remembered
  <2>5. DeliveredOnce'
    <3>1. \A i \in DOMAIN puts : puts[i].id # m.id
      BY <1>1, <2>1 DEF DeliveredOnce
    <3>2. \A n \in held' : n.id # m.id
      BY <1>1, <2>1 DEF DeliveredOnce
    <3> QED BY <1>1, <2>1, <2>2, <3>1, <3>2, Appended DEF DeliveredOnce
  <2>6. Stands'
    BY <1>1, <2>1 DEF Stands, Pending
  <2>7. RevealsHonourAcks'
    <3>1. Accepted' = Accepted
      BY <2>1, <2>2, Appended DEF Accepted
    <3> QED BY <1>1, <2>1, <3>1 DEF RevealsHonourAcks, Honours
  <2> QED BY <2>3, <2>4, <2>5, <2>6, <2>7 DEF Inv
<1>6. CASE PutAnonymous
  <2>1. PICK m \in Messages :
          m.id = NoId /\ turns' = Append(turns, m) /\ puts' = Append(puts, m)
    BY <1>6 DEF PutAnonymous
  <2>2. puts \in Seq(Messages) /\ turns \in Seq(Messages)
        /\ UNCHANGED <<pending_commits, delivered_ids, held, clock, acks, lapsed>>
    BY <1>1, <1>6 DEF TypeOK, PutAnonymous
  <2>3. TypeOK'
    BY <1>1, <2>1, <2>2, Appended DEF TypeOK
  <2>4. Remembered'
    BY <1>1, <2>1, <2>2, Appended DEF Remembered
  <2>5. DeliveredOnce'
    <3>1. \A n \in held : n.id # m.id
      BY <1>1, <2>1 DEF Remembered
    <3> QED BY <1>1, <2>1, <2>2, <3>1, Appended DEF DeliveredOnce
  <2>6. Stands'
    BY <1>1, <2>2 DEF Stands, Pending
  <2>7. RevealsHonourAcks'
    <3>1. Accepted' = Accepted \cup {m}
      BY <2>1, <2>2, Appended DEF Accepted
    <3>2. {a \in acks : a[1] = m.id} = {}
      BY <1>1, <2>1, IdAssumption DEF TypeOK
    <3>3. Honours(m)
      BY <3>2 DEF Honours
    <3> QED BY <1>1, <2>2, <3>1, <3>3 DEF RevealsHonourAcks, Honours
  <2> QED BY <2>3, <2>4, <2>5, <2>6, <2>7 DEF Inv
<1>7. CASE PollTurn \/ DrainInboxes \/ Tick \/ UNCHANGED vars
  <2>1. UNCHANGED <<pending_commits, delivered_ids, held, puts, acks, lapsed>>
    BY <1>7 DEF PollTurn, DrainInboxes, Tick, vars
  <2>2. turns' \in Seq(Messages)
    BY <1>1, <1>7, HeadTailProperties, EmptySeq DEF TypeOK, PollTurn, DrainInboxes, Tick, vars
  <2>3. clock' \in 1 .. MaxClock
    BY <1>1, <1>7, LimitAssumption DEF TypeOK, PollTurn, DrainInboxes, Tick, vars
  <2>4. TypeOK'
    BY <1>1, <2>1, <2>2, <2>3 DEF TypeOK
  <2>5. Remembered' /\ DeliveredOnce' /\ Stands' /\ RevealsHonourAcks'
    BY <1>1, <2>1
       DEF Remembered, DeliveredOnce, Stands, Pending, RevealsHonourAcks, Accepted, Honours
  <2> QED BY <2>4, <2>5 DEF Inv
<1> QED BY <1>2, <1>3, <1>4, <1>5, <1>6, <1>7 DEF Next

(* The inductive invariant holds in every reachable state. *)
THEOREM Invariance == Spec => []Inv
<1> QED BY InitInv, StepInv, PTL DEF Spec

(* Whatever is called in whatever order, only commitments of known ids wait,   *)
(* and only messages as the calls carry them are held or queued.               *)
THEOREM MailboxTypes == Spec => []TypeOK
<1>1. Inv => TypeOK
  BY DEF Inv
<1> QED BY <1>1, Invariance, PTL

(* A message id is queued at most once, with one content, whatever the retries *)
(* and the interleaving of the calls.                                          *)
THEOREM AtMostOnce == Spec => []DeliveredOnce
<1>1. Inv => DeliveredOnce
  BY DEF Inv
<1> QED BY <1>1, Invariance, PTL

(* An accepted reveal honours the commitments acknowledged for its id, unless  *)
(* an expired reveal took them away.                                           *)
THEOREM CommitmentsHonoured == Spec => []RevealsHonourAcks
<1>1. Inv => RevealsHonourAcks
  BY DEF Inv
<1> QED BY <1>1, Invariance, PTL
=============================================================================
