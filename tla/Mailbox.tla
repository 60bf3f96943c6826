------------------------------ MODULE Mailbox ------------------------------
(***************************************************************************)
(* PeerInboxes (infra/mcp_server.py): the mailbox that the Police's calls  *)
(* fill and the runtime drains.  Calls run concurrently on the server's    *)
(* threads; accept_commit and the checks of accept_reveal hold the lock,   *)
(* but the message is put on the queue after the lock is released, so a    *)
(* call may be between the two when others run.                            *)
(*                                                                         *)
(* The caller retries what it thinks has failed, so any call may come any  *)
(* number of times, with the same content or with another.                 *)
(***************************************************************************)
EXTENDS Integers, Sequences, FiniteSets

CONSTANTS
  Ids,           \* the message ids the Police uses
  NoId,          \* an absent or empty message_id
  Hashes,        \* commit hashes
  Envelopes,     \* what the envelope keys of a message may hold, as one value
  NoEnvelope,    \* a commitment that carries none of the envelope keys
  MaxClock,      \* bound: the wall clock stops there
  MaxAnonymous   \* bound: messages without an id

ASSUME IdAssumption == NoId \notin Ids
ASSUME EnvelopeAssumption == NoEnvelope \notin Envelopes
ASSUME LimitAssumption == MaxClock \in Nat \ {0} /\ MaxAnonymous \in Nat

VARIABLES
  pending_commits,  \* id -> the commitment that waits for its reveal
  delivered_ids,    \* ids that were accepted
  held,             \* messages accepted, their call not yet at the queue
  turns,            \* the queue the runtime polls
  clock,            \* time.time(), coarsely; 0 is no expiry, so it starts at 1
  puts,             \* history: every message put, in order
  acks,             \* history: commitments acknowledged before a delivery
  lapsed            \* history: ids whose commitment an expired reveal removed

vars == <<pending_commits, delivered_ids, held, turns, clock, puts, acks, lapsed>>

Messages == [id : Ids \cup {NoId}, commit : Hashes, envelope : Envelopes, expires : 0 .. MaxClock - 1]
Commitments == [commit : Hashes, envelope : Envelopes \cup {NoEnvelope}]

Init ==
  /\ pending_commits = <<>> /\ delivered_ids = {}
  /\ held = {} /\ turns = <<>> /\ clock = 1
  /\ puts = <<>> /\ acks = {} /\ lapsed = {}

-----------------------------------------------------------------------------
Pending(id) == id \in DOMAIN pending_commits

(* A faulty variant: a later commitment simply replaces the first. *)
NeverConflicts(id, commitment) == FALSE

Conflicts(id, commitment) ==
  Pending(id) /\ pending_commits[id].commit # commitment.commit

(* accept_commit: a commitment is stored over one with the same hash, and a   *)
(* conflicting one is refused; delivered_ids is not looked at.                *)
AcceptCommit ==
  \E id \in Ids, commitment \in Commitments :
    /\ ~Conflicts(id, commitment)
    /\ pending_commits' =
         [i \in DOMAIN pending_commits \cup {id} |->
            IF i = id THEN commitment ELSE pending_commits[i]]
    /\ acks' = IF id \in delivered_ids THEN acks ELSE acks \cup {<<id, commitment>>}
    /\ UNCHANGED <<delivered_ids, held, turns, clock, puts, lapsed>>

(* A faulty variant: a retry is a duplicate once its message is on the queue, *)
(* not from the moment it was accepted.                                       *)
DuplicateOnceQueued(m) == \E i \in DOMAIN puts : puts[i].id = m.id

Duplicate(m) == m.id \in delivered_ids

(* A faulty variant: the hash is compared, the envelope is not. *)
MatchesHash(m) == Pending(m.id) => pending_commits[m.id].commit = m.commit

(* The reveal agrees with the commitment that waits for it, if one does: on    *)
(* the hash, and on each envelope key the commitment carries.                 *)
Matches(m) ==
  Pending(m.id) =>
    /\ pending_commits[m.id].commit = m.commit
    /\ pending_commits[m.id].envelope \in {m.envelope, NoEnvelope}

Expired(m) == m.expires # 0 /\ clock > m.expires

(* A faulty variant: the commitment is blanked, not popped. *)
Blanked(id) ==
  [i \in DOMAIN pending_commits |->
     IF i = id THEN [commit |-> NoEnvelope, envelope |-> NoEnvelope] ELSE pending_commits[i]]

Without(id) == [i \in DOMAIN pending_commits \ {id} |-> pending_commits[i]]

(* accept_reveal up to the release of the lock, for a message to be queued. *)
AcceptReveal ==
  \E m \in Messages :
    /\ m.id # NoId /\ ~Duplicate(m) /\ Matches(m) /\ ~Expired(m)
    /\ pending_commits' = Without(m.id)
    /\ delivered_ids' = delivered_ids \cup {m.id}
    /\ held' = held \cup {m}
    /\ UNCHANGED <<turns, clock, puts, acks, lapsed>>

(* The commitment is removed before the expiry is looked at, so an expired     *)
(* reveal that matches is refused but takes the commitment with it.           *)
RefuseExpired ==
  \E m \in Messages :
    /\ m.id # NoId /\ ~Duplicate(m) /\ Matches(m) /\ Expired(m)
    /\ Pending(m.id)
    /\ pending_commits' = Without(m.id)
    /\ lapsed' = lapsed \cup {m.id}
    /\ UNCHANGED <<delivered_ids, held, turns, clock, puts, acks>>

(* A duplicate is acknowledged, and a conflicting commitment, a mismatched     *)
(* reveal or an expired one without a commitment raises: none changes a thing. *)

(* A faulty variant: a queue of one, whose put waits for the runtime. *)
PutWhenEmpty ==
  \E m \in held :
    /\ turns = <<>>
    /\ held' = held \ {m}
    /\ turns' = Append(turns, m)
    /\ puts' = Append(puts, m)
    /\ UNCHANGED <<pending_commits, delivered_ids, clock, acks, lapsed>>

(* The accepted call reaches the queue. *)
Put ==
  \E m \in held :
    /\ held' = held \ {m}
    /\ turns' = Append(turns, m)
    /\ puts' = Append(puts, m)
    /\ UNCHANGED <<pending_commits, delivered_ids, clock, acks, lapsed>>

(* A reveal without an id skips the lock and every check. *)
PutAnonymous ==
  /\ Cardinality({i \in DOMAIN puts : puts[i].id = NoId}) < MaxAnonymous
  /\ \E m \in Messages :
       /\ m.id = NoId
       /\ turns' = Append(turns, m)
       /\ puts' = Append(puts, m)
  /\ UNCHANGED <<pending_commits, delivered_ids, held, clock, acks, lapsed>>

(* The runtime: poll_turn takes the oldest, drain_inboxes discards them all     *)
(* and forgets neither commitments nor delivered ids.                          *)
PollTurn ==
  /\ turns # <<>>
  /\ turns' = Tail(turns)
  /\ UNCHANGED <<pending_commits, delivered_ids, held, clock, puts, acks, lapsed>>

DrainInboxes ==
  /\ turns # <<>>
  /\ turns' = <<>>
  /\ UNCHANGED <<pending_commits, delivered_ids, held, clock, puts, acks, lapsed>>

Tick ==
  /\ clock < MaxClock
  /\ clock' = clock + 1
  /\ UNCHANGED <<pending_commits, delivered_ids, held, turns, puts, acks, lapsed>>

Next ==
  \/ AcceptCommit \/ AcceptReveal \/ RefuseExpired \/ Put \/ PutAnonymous
  \/ PollTurn \/ DrainInboxes \/ Tick

Spec == Init /\ [][Next]_vars

(* A call that was accepted runs to its end: the server thread is not blocked,  *)
(* for the queue has no bound.                                                  *)
FairSpec == Spec /\ WF_vars(Put)

-----------------------------------------------------------------------------
TypeOK ==
  /\ DOMAIN pending_commits \subseteq Ids
  /\ \A id \in DOMAIN pending_commits : pending_commits[id] \in Commitments
  /\ delivered_ids \subseteq Ids
  /\ held \subseteq Messages
  /\ turns \in Seq(Messages) /\ puts \in Seq(Messages)
  /\ clock \in 1 .. MaxClock
  /\ acks \subseteq Ids \X Commitments /\ lapsed \subseteq Ids

(* What the mailbox has accepted, on the queue or on its way there. *)
Accepted == held \cup {puts[i] : i \in DOMAIN puts}

(* Retries, concurrent calls and a drain in between notwithstanding, a message *)
(* id is queued at most once, and with one content.                            *)
DeliveredOnce ==
  /\ \A i, j \in DOMAIN puts : i # j /\ puts[i].id = puts[j].id => puts[i].id = NoId
  /\ \A m \in held : m.id \notin {puts[i].id : i \in DOMAIN puts}
  /\ \A m, n \in held : m # n => m.id # n.id

(* An accepted reveal has the hash of every commitment acknowledged for its id *)
(* before it, and the envelope of one of them, unless an expired reveal had    *)
(* removed the commitment meanwhile.                                           *)
Honours(m) ==
  LET mine == {a \in acks : a[1] = m.id} IN
  mine # {} =>
    /\ \A a \in mine : a[2].commit = m.commit
    /\ \E a \in mine : a[2].envelope \in {m.envelope, NoEnvelope}

RevealsHonourAcks == \A m \in Accepted : m.id \notin lapsed => Honours(m)

(* A reveal acknowledged as accepted, or as a duplicate of an accepted one,    *)
(* does reach the queue, whether or not the runtime is polling.                *)
AcceptedReachesQueue ==
  \A id \in Ids : id \in delivered_ids ~> id \in {puts[i].id : i \in DOMAIN puts}

(* accept_reveal's docstring: "a genuine prior commitment, when there is one,  *)
(* is still checked in full".                                                  *)
CommitmentCheckedInFull == \A m \in Accepted : Honours(m)
=============================================================================
