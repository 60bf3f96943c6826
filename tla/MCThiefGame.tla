---------------------------- MODULE MCThiefGame ----------------------------
(* Instances of ThiefGame for TLC. *)
EXTENDS ThiefGame

Nothing == [barrier |-> {}, claim |-> {}, win |-> FALSE]

BarrierAt(c) == [Nothing EXCEPT !.barrier = {c}]
ClaimAt(c) == [Nothing EXCEPT !.claim = {c}]

(* Every barrier alone, every claim alone, every barrier with one claim on its *)
(* own cell, a declared ending with and without a claim, and an empty turn.    *)
AllPlays ==
  {Nothing, [Nothing EXCEPT !.win = TRUE]}
    \cup {BarrierAt(c) : c \in Cells} \cup {ClaimAt(c) : c \in Cells}
    \cup {[BarrierAt(c) EXCEPT !.claim = {<<0, 0>>}] : c \in Cells}
    \cup {[ClaimAt(<<0, 0>>) EXCEPT !.win = TRUE]}

FewPlays == {ClaimAt(<<0, 0>>)}

(* An honest log, one without chain links, one that breaks its chain, and one  *)
(* whose last record does not open.                                            *)
HonestLog == <<Seal(1, NoCommit, 1, <<0, 0>>), Seal(2, 1, 2, <<0, 0>>)>>

SampleLogs ==
  {HonestLog,
   <<Seal(1, Unlinked, 1, <<0, 0>>), Seal(2, Unlinked, 2, <<0, 0>>)>>,
   <<HonestLog[1], [HonestLog[2] EXCEPT !.prior = 7]>>,
   <<HonestLog[1], [HonestLog[2] EXCEPT !.opens = FALSE]>>}

HonestLogs == {HonestLog}

Corner == <<0, 0>>
=============================================================================
