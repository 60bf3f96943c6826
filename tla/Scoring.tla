------------------------------ MODULE Scoring ------------------------------
(***************************************************************************)
(* What a series is worth: the points of a sub-game and the result of a    *)
(* series (domain/scoring.py), the row a sub-game gets in the result file  *)
(* (report/subgame_entry.py), and the block both peers sign                *)
(* (report/emit.py).  Pure functions of the summaries, which are computed  *)
(* by each peer on its own.                                                *)
(*                                                                         *)
(* Groups are numbers in the order of their ids; a signature is the block  *)
(* it covers, since SHA-256 is taken to be free of collisions.             *)
(***************************************************************************)
EXTENDS Integers, FiniteSets

None == -1   \* no group
MaxGames == 6   \* _series_count refuses more

Decisive == {"capture", "survival"}
Forfeits == {"timeout", "technical_loss", "quit", "opponent_quit", "tamper_forfeit_opponent"}
Results == Decisive \cup Forfeits
Roles == {"police", "thief"}

(* The agreed table: points by outcome and role. *)
Tables == [capture : [Roles -> Nat], survival : [Roles -> Nat], technical_loss : Nat, tie_score : Nat]

(* _FIXED_SCORING: Appendix F, which a shared configuration must carry. *)
FixedTable ==
  [capture |-> [police |-> 20, thief |-> 5], survival |-> [police |-> 5, thief |-> 10],
   technical_loss |-> 0, tie_score |-> 2]

(* summary.py: who has won, whatever it is called.                            *)
WinnerRole(result) == IF result \in {"survival", "tamper_forfeit_opponent"} THEN "thief" ELSE "police"

Other(role) == IF role = "police" THEN "thief" ELSE "police"

(* _roles: a dictionary, in which the opponent comes last. *)
RolesOf(own, opp, role) == [g \in {own, opp} |-> IF g = opp THEN Other(role) ELSE role]

(* score_subgame. *)
ScoreSubgame(result, roles, table) ==
  [g \in DOMAIN roles |->
     IF result \in Decisive THEN table[result][roles[g]] ELSE table.technical_loss]

(* subgame_entry: the row of a sub-game, and what of it both peers sign.      *)
Row(own, opp, role, result, table) ==
  LET roles == RolesOf(own, opp, role)
      winners == {g \in DOMAIN roles : roles[g] = WinnerRole(result)}
  IN [roles |-> roles, result |-> result, score |-> ScoreSubgame(result, roles, table),
      winner_group |-> IF winners = {} THEN None ELSE CHOOSE g \in winners : TRUE]

(* aggregate: who has the best of one sub-game's scores. *)
Best(score) == {g \in DOMAIN score : \A h \in DOMAIN score : score[h] <= score[g]}
WonBy(scores, g) == {i \in DOMAIN scores : Best(scores[i]) = {g}}
Tied(scores) == {i \in DOMAIN scores : \A g \in DOMAIN scores[i] : Best(scores[i]) # {g}}

(* The sum over the series, six sub-games at most. *)
Sum(scores, g) ==
  LET points(i) == IF i \in DOMAIN scores THEN scores[i][g] ELSE 0
  IN points(1) + points(2) + points(3) + points(4) + points(5) + points(6)

(* A level series has no winner, and both get the bonus. *)
SeriesTie(scores, own, opp) == own # opp /\ Sum(scores, own) = Sum(scores, opp)

Final(scores, g, own, opp, table) ==
  Sum(scores, g) + IF SeriesTie(scores, own, opp) THEN table.tie_score ELSE 0

Aggregate(scores, own, opp, table) ==
  [total_score |-> [g \in {own, opp} |-> Final(scores, g, own, opp, table)],
   sub_games_won |-> [g \in {own, opp} |-> Cardinality(WonBy(scores, g))],
   ties |-> Cardinality(Tied(scores)),
   winner_group |-> IF SeriesTie(scores, own, opp) THEN None
                    ELSE IF Sum(scores, own) >= Sum(scores, opp) THEN own ELSE opp]

-----------------------------------------------------------------------------
Series == UNION {[1 .. n -> Results] : n \in 1 .. MaxGames}

(* The rows and scores of a series as the peer of one group sees it, with the *)
(* opponent it believes to have.                                              *)
RowsOf(results, own, opp, role, table) ==
  [i \in DOMAIN results |-> Row(own, opp, role, results[i], table)]

ScoresOf(results, own, opp, role, table) ==
  [i \in DOMAIN results |-> Row(own, opp, role, results[i], table).score]

(* emit_series: what both peers sign. *)
Symmetric(results, own, opp, role, table) ==
  [aggregate |-> Aggregate(ScoresOf(results, own, opp, role, table), own, opp, table),
   sub_games |-> RowsOf(results, own, opp, role, table)]

(* A peer that sent no identity leaves the other one alone in its files. *)
Opponent(own, identity) == IF identity = None THEN own ELSE identity

=============================================================================
