----------------------------- MODULE Agreement -----------------------------
(***************************************************************************)
(* What two peers agree on before they play: the configuration of a peer,  *)
(* its private file overlaid by the shared one (shared/config.py,          *)
(* shared/config_translate.py), the checks before a port is opened         *)
(* (peer/sealing.py, shared/agreement.py), and the handshake               *)
(* (peer/handshake.py, domain/negotiation.py, domain/game_ids.py).         *)
(*                                                                         *)
(* A value is a number: intensities and the decay in thousandths, what is  *)
(* a text or a position in the code as the number of it.  A signature is   *)
(* what it is taken of, and so is a uid.                                   *)
(***************************************************************************)
EXTENDS Integers

Missing == -1
Values == Nat \cup {Missing}

(* translate_shared: the shared setting behind each setting of the program. *)
Source == [
  board_size |-> "grid_size", thief_start |-> "thief_start", cop_start |-> "cop_start",
  axis_origin_corner |-> "axis_origin_corner", axis_start_index |-> "axis_start_index",
  setting |-> "map_area", hint_max_words |-> "hint_max_words", move_set |-> "move_set",
  barriers_max |-> "max_barriers", max_steps |-> "max_moves",
  survival_threshold |-> "survival_threshold",
  emit_intensity |-> "pheromone_center_intensity", decay_per_step |-> "pheromone_decay",
  smell_grid_size |-> "pheromone_grid_size",
  min_center_intensity |-> "pheromone_min_center_intensity", num_games |-> "num_games",
  turn_timeout_seconds |-> "response_timeout_sec",
  response_timeout_seconds |-> "response_timeout_sec",
  watchdog_timeout_seconds |-> "watchdog_timeout_sec",
  llm_tactics_allowed |-> "llm_tactics_allowed", llm_contract_version |-> "contract_version",
  capture_cop |-> "capture_cop", capture_thief |-> "capture_thief",
  survival_cop |-> "survival_cop", survival_thief |-> "survival_thief",
  tie_score |-> "tie_score", technical_loss |-> "technical_loss"]

(* What the shared file declares and no setting is made of. *)
Unused ==
  {"num_agents", "diversity_reward", "min_games_to_pass", "max_games_per_team",
   "requests_per_minute", "concurrent_requests", "retry_backoff_sec", "max_retries", "queue_depth"}

SharedKeys == {Source[k] : k \in DOMAIN Source} \cup Unused
Keys == {"opponent_url", "my_port", "group_id", "llm_mode"} \cup DOMAIN Source

Privates == [Keys -> Values]
Shareds == [SharedKeys -> Values]   \* of a game.json; all missing if there is none

(* ConfigManager, deep_merge: what the shared file declares wins. *)
Merged(private, shared) ==
  [k \in Keys |->
     IF k \in DOMAIN Source /\ shared[Source[k]] # Missing THEN shared[Source[k]] ELSE private[k]]

-----------------------------------------------------------------------------
(* terms_from_config: the settings both peers must match on, where some have  *)
(* a default ("", "top-left" and zero are number 0).                          *)
Default == [
  smell_grid_size |-> 5, decay_per_step |-> 100, emit_intensity |-> 900, min_center_intensity |-> 500,
  setting |-> 0, hint_max_words |-> 15, axis_origin_corner |-> 0, axis_start_index |-> 0, num_games |-> 1]

TermKeys ==
  DOMAIN Default \cup {"board_size", "max_steps", "barriers_max", "thief_start", "cop_start"}

Terms(config) ==
  [k \in TermKeys |-> IF k \in DOMAIN Default /\ config[k] = Missing THEN Default[k] ELSE config[k]]

REQUIRED_TERMS ==
  {"board_size", "smell_grid_size", "decay_per_step", "emit_intensity", "min_center_intensity",
   "max_steps", "barriers_max", "thief_start", "cop_start"}

(* validate_config, and the only check of the play command.  A url that has   *)
(* no scheme counts as missing.                                               *)
ConfigOk(config) ==
  \A k \in {"board_size", "max_steps", "survival_threshold", "thief_start", "cop_start",
            "opponent_url", "my_port"} : config[k] # Missing

(* validate_shared_config: what must be exactly so, and at least so.          *)
Fixed == [
  num_agents |-> 2, move_set |-> 0,
  capture_cop |-> 20, capture_thief |-> 5, survival_cop |-> 5, survival_thief |-> 10,
  tie_score |-> 2, technical_loss |-> 0,
  pheromone_center_intensity |-> 900, pheromone_decay |-> 100, pheromone_grid_size |-> 5,
  diversity_reward |-> 10, max_games_per_team |-> 10]

Least == [
  grid_size |-> 7, max_barriers |-> 14, max_moves |-> 35, survival_threshold |-> 35,
  min_games_to_pass |-> 2, requests_per_minute |-> 30, concurrent_requests |-> 2,
  retry_backoff_sec |-> 5, max_retries |-> 3, queue_depth |-> 100]

SharedOk(shared) ==
  /\ \A s \in DOMAIN Fixed : shared[s] = Fixed[s]
  /\ \A s \in DOMAIN Least : shared[s] >= Least[s]
  /\ shared["num_games"] \in 1 .. 6
  /\ shared["llm_tactics_allowed"] \notin {0, Missing} => shared["contract_version"] = 1

(* validate_agreement, before a series is played.  An empty shared file is    *)
(* not looked at.                                                             *)
AgreementOk(private, shared) ==
  LET config == Merged(private, shared)
  IN /\ ConfigOk(config)
     /\ \A k \in REQUIRED_TERMS : Terms(config)[k] # Missing
     /\ config["llm_mode"] = 1 => /\ config["llm_tactics_allowed"] \notin {0, Missing}
                                  /\ config["llm_contract_version"] = 1
     /\ (\E s \in SharedKeys : shared[s] # Missing) => SharedOk(shared)

-----------------------------------------------------------------------------
(* Negotiation.signed: the identity is sent beside what is signed. *)
Signed(config, nonce) ==
  [terms |-> Terms(config), nonce |-> nonce,
   signature |-> <<Terms(config), nonce>>, identity |-> config["group_id"]]

(* verify_peer. *)
Verifies(config, message) ==
  /\ message.terms = Terms(config)
  /\ message.signature = <<message.terms, message.nonce>>

(* identity_from_config, negotiate: a missing group id is the unknown group.  *)
GroupOf(identity) == IF identity = Missing THEN 0 ELSE identity

(* derive_game_ids: of the sorted pair. *)
Sorted(a, b) == IF a <= b THEN <<a, b>> ELSE <<b, a>>

GameIds(terms, a, b) == [game_id |-> Sorted(a, b), game_uid |-> <<terms, Sorted(a, b)>>]

(* negotiate: the ids a peer plays under once it has verified a message. *)
IdsAfter(config, message) ==
  GameIds(Terms(config), GroupOf(config["group_id"]), GroupOf(message.identity))

=============================================================================
