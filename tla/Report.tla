------------------------------- MODULE Report -------------------------------
(***************************************************************************)
(* The files a peer writes when a series is over (report/emit.py,          *)
(* report/artifacts.py, report/artifact_helpers.py): what each of them     *)
(* says that another one must agree with, and their names, which are all   *)
(* derived from the game id.  Hardware, members, clocks and the wording    *)
(* are left out; a hash is what it is taken of.                            *)
(*                                                                         *)
(* A series is the summaries of its sub-games, numbered from one, with the *)
(* ids the handshake left.                                                 *)
(***************************************************************************)
EXTENDS Scoring

Summaries ==
  [result : Results, role : {"thief"}, passed : BOOLEAN, tokens : Nat, records : STRING]

AllSeries ==
  [summaries : UNION {[1 .. n -> Summaries] : n \in 1 .. MaxGames},
   own : Nat, identity : Nat \cup {None}, game_id : STRING, shared : STRING, table : Tables]

Opp(series) == Opponent(series.own, series.identity)

(* config_filename and its like: per sub-game, or of the whole series (0). *)
Name(kind, game_id, n) == [kind |-> kind, game_id |-> game_id, number |-> n]

(* links: the names of the per sub-game files leave the number open. *)
Links(game_id) ==
  [declaration |-> Name("declaration", game_id, 0), result |-> Name("result", game_id, 0),
   config |-> [n \in Nat |-> Name("config", game_id, n)],
   log |-> [n \in Nat |-> Name("log", game_id, n)]]

(* build_declaration. *)
Declaration(series) ==
  [links |-> Links(series.game_id), num_sub_games |-> Cardinality(DOMAIN series.summaries),
   groups |-> <<series.own, Opp(series)>>]

(* build_config_artifact: the hash is of the shared terms. *)
ConfigArtifact(series, n) ==
  [links |-> Links(series.game_id), sub_game_number |-> n,
   config_name |-> Name("config", series.game_id, n), config_sha256 |-> series.shared]

(* build_log. *)
LogArtifact(series, n) ==
  LET summary == series.summaries[n]
  IN [links |-> Links(series.game_id),
      summary |-> [sub_game_number |-> n, group_id |-> series.own, role |-> summary.role,
                   result |-> summary.result, winner_role |-> WinnerRole(summary.result)],
      records |-> summary.records,
      mutual_agreement |-> [opponent_group_id |-> Opp(series), sha256 |-> summary.records,
                            confirmed |-> summary.passed]]

ResultsOf(series) == [n \in DOMAIN series.summaries |-> series.summaries[n].result]

(* The part of subgame_entry that only this peer knows: each group's tokens   *)
(* and log, which for the opponent are zero and a promise; one group twice    *)
(* keeps what was put last.                                                   *)
OwnColumns(series, n) ==
  [sub_game_number |-> n,
   tokens |-> [g \in {series.own, Opp(series)} |-> IF g = Opp(series) THEN 0 ELSE series.summaries[n].tokens],
   log_files |-> [g \in {series.own, Opp(series)} |-> <<g, Name("log", series.game_id, n)>>],
   log_verified |-> series.summaries[n].passed]

(* build_result. *)
ResultArtifact(series) ==
  LET block == Symmetric(ResultsOf(series), series.own, Opp(series), "thief", series.table)
  IN [links |-> Links(series.game_id), groups |-> {series.own, Opp(series)},
      sub_games |-> block.sub_games, final_result |-> block.aggregate,
      columns |-> [n \in DOMAIN series.summaries |-> OwnColumns(series, n)],
      mutual_agreement |->
        [sha256 |-> block,
         confirmed |-> \A n \in DOMAIN series.summaries : OwnColumns(series, n).log_verified]]

(* emit_series: the files in the order they are written, each in the folder   *)
(* of the own group.                                                          *)
Emission(series) ==
  LET N == Cardinality(DOMAIN series.summaries)
      file(name, body) == [folder |-> series.own, name |-> name, body |-> body]
  IN [k \in 1 .. 2 * N + 2 |->
        IF k = 1 THEN file(Name("declaration", series.game_id, 0), Declaration(series))
        ELSE IF k = 2 * N + 2 THEN file(Name("result", series.game_id, 0), ResultArtifact(series))
        ELSE IF k % 2 = 0 THEN file(Name("config", series.game_id, k \div 2), ConfigArtifact(series, k \div 2))
        ELSE file(Name("log", series.game_id, k \div 2), LogArtifact(series, k \div 2))]

=============================================================================
