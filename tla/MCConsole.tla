----------------------------- MODULE MCConsole -----------------------------
(* An instance of Console for TLC: a match of two own steps and three messages *)
(* received, one that ends the other way round, and a log artifact.  And       *)
(* bounded checks of the pure modules.                                         *)
EXTENDS Console

R == INSTANCE Report
A == INSTANCE Agreement
Sums == INSTANCE FiniteSetsExt

Match == [kind |-> "match", my_log |-> <<<<0, 0>>, <<0, 1>>>>,
          history |-> <<{}, {<<1, 1>>}, {<<1, 0>>}>>]
Summary == [Match EXCEPT !.kind = "summary", !.my_log = <<<<1, 1>>>>, !.history = <<>>]
Artifact == [Match EXCEPT !.kind = "artifact"]

SampleFiles == {Match, Summary, Artifact}

(* Of every series of at most three sub-games: the sum is the sum, the two      *)
(* peers sign the same, and nobody has earned more than the table gives.        *)
Short == UNION {[1 .. n -> R!Results] : n \in 1 .. 3}

ASSUME ScoreSample ==
  \A results \in Short :
    LET scores == R!ScoresOf(results, 1, 2, "thief", R!FixedTable)
        block == R!Symmetric(results, 1, 2, "thief", R!FixedTable)
    IN /\ \A g \in {1, 2} : R!Sum(scores, g) =
            Sums!MapThenSumSet(LAMBDA i : scores[i][g], DOMAIN scores)
       /\ block = R!Symmetric(results, 2, 1, "police", R!FixedTable)
       /\ block.aggregate.winner_group \in {1, 2, R!None}
       /\ (\A i \in DOMAIN results : results[i] \in R!Forfeits)
            => block.aggregate.winner_group = R!None /\ block.aggregate.ties = Len(results)

(* The files of a series of two sub-games. *)
TwoGames ==
  [summaries |-> [n \in 1 .. 2 |->
     [result |-> IF n = 1 THEN "capture" ELSE "survival", role |-> "thief", passed |-> TRUE,
      tokens |-> n, records |-> "records"]],
   own |-> 1, identity |-> 2, game_id |-> "one-vs-two", shared |-> "hash", table |-> R!FixedTable]

ASSUME FilesSample ==
  LET files == R!Emission(TwoGames)
  IN /\ [k \in 1 .. 6 |-> files[k].name.kind]
          = << "declaration", "config", "log", "config", "log", "result" >>
     /\ [k \in 1 .. 6 |-> files[k].name.number] = << 0, 1, 1, 2, 2, 0 >>

(* The game.json that is shipped, with a private file of nothing but what a     *)
(* peer must know of itself, is agreed on.                                      *)
Shipped ==
  [s \in A!SharedKeys |->
     IF s \in DOMAIN A!Fixed THEN A!Fixed[s]
     ELSE IF s \in DOMAIN A!Least THEN A!Least[s]
     ELSE IF s \in {"llm_tactics_allowed", "contract_version"} THEN A!Missing
     ELSE IF s = "num_games" THEN 1
     ELSE IF s = "thief_start" THEN 24 ELSE IF s = "pheromone_min_center_intensity" THEN 500 ELSE 0]

Itself == [k \in A!Keys |-> IF k \in {"opponent_url", "my_port", "group_id"} THEN 1 ELSE A!Missing]

ASSUME AgreementSample ==
  /\ A!AgreementOk(Itself, Shipped)
  /\ ~A!AgreementOk(Itself, [s \in A!SharedKeys |-> A!Missing])
  /\ \A s \in DOMAIN A!Fixed \cup DOMAIN A!Least \cup {"num_games", "cop_start"} :
       ~A!AgreementOk(Itself, [Shipped EXCEPT ![s] = A!Missing])
  /\ \A s \in DOMAIN A!Least : ~A!AgreementOk(Itself, [Shipped EXCEPT ![s] = @ - 1])
=============================================================================
