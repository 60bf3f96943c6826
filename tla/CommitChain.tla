---------------------------- MODULE CommitChain ----------------------------
(***************************************************************************)
(* The end-of-game audit of a peer's sealed records (domain/crypto.py).    *)
(*                                                                         *)
(* A commit is SHA256(payload | nonce) with a nonce drawn per seal, so two *)
(* seals never share a commit: a commit is the number of the seal it came  *)
(* from.  A record keeps what the audit reads: its step, its commit, the   *)
(* prior_commit inside its payload, and whether payload and nonce open the *)
(* commit (CommitReveal.verify).                                           *)
(***************************************************************************)
EXTENDS Integers, Sequences

NoCommit == 0      \* the empty prior_commit of the first record
Unlinked == -1     \* a payload that carries no prior_commit key

Commits == Nat \ {0}

(* A faulty variant: no record points back. *)
SealUnchained(commit, prior, step, position) ==
  [commit |-> commit, prior |-> NoCommit, step |-> step,
   position |-> position, opens |-> TRUE]

(* CommitReveal.seal over a payload: the fresh commit opens by itself. *)
Seal(commit, prior, step, position) ==
  [commit |-> commit, prior |-> prior, step |-> step,
   position |-> position, opens |-> TRUE]

(* The commit that the next record must carry as its prior_commit. *)
LastCommit(records) ==
  IF records = <<>> THEN NoCommit ELSE records[Len(records)].commit

(* A record fails when it does not open its commit or breaks the chain.    *)
(* A first record may not point at anything; a later one is compared with  *)
(* its predecessor only when it carries the key.                           *)
Fails(records, i) ==
  \/ ~records[i].opens
  \/ i = 1 /\ records[i].prior \notin {NoCommit, Unlinked}
  \/ i > 1 /\ records[i].prior \notin {records[i - 1].commit, Unlinked}

AuditPasses(records) == \A i \in DOMAIN records : ~Fails(records, i)

=============================================================================
