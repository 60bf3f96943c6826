----------------------------- MODULE Lifecycle -----------------------------
(***************************************************************************)
(* ProtocolStateMachine (domain/state_machine.py): the states of a match   *)
(* and of a turn, and the trace of them.  Nothing in the peer builds one;  *)
(* whoever does may call its methods in any order.                         *)
(***************************************************************************)
EXTENDS Integers, Sequences

VARIABLES match, turn, history

vars == <<match, turn, history>>

(* _MATCH_NEXT. *)
MatchNext == [
  BOOTSTRAP |-> {"NEGOTIATING", "STEP_ZERO", "ABORTED"}, NEGOTIATING |-> {"STEP_ZERO", "ABORTED"},
  STEP_ZERO |-> {"RUNNING_SUBGAME", "ABORTED"}, RUNNING_SUBGAME |-> {"FINAL_AUDIT", "ABORTED"},
  FINAL_AUDIT |-> {"AGREEING_RESULT", "ABORTED"}, AGREEING_RESULT |-> {"REPORTING", "ABORTED"},
  REPORTING |-> {"FINISHED", "ABORTED"}]

Ended == {"FINISHED", "ABORTED"}
MatchStates == DOMAIN MatchNext \cup Ended
TurnStates ==
  {"WAITING_FOR_OPPONENT", "COMPUTING_MOVE", "COMMITTING", "AWAITING_REVEAL", "VERIFYING", "TECHNICAL_LOSS"}

Entry(scope, state) == [scope |-> scope, state |-> state]

Init ==
  /\ match = "BOOTSTRAP" /\ turn = "WAITING_FOR_OPPONENT"
  /\ history = <<Entry("match", "BOOTSTRAP")>>

(* Any other target is refused with ProtocolStateError. *)
transition_match(target) ==
  /\ match \in DOMAIN MatchNext /\ target \in MatchNext[match]
  /\ match' = target
  /\ history' = Append(history, Entry("match", target))
  /\ UNCHANGED turn

(* The whole local sequence at once; not even a technical loss is in its way. *)
local_turn ==
  /\ turn' = "WAITING_FOR_OPPONENT"
  /\ history' = history \o << Entry("turn", "COMPUTING_MOVE"), Entry("turn", "COMMITTING"),
                             Entry("turn", "AWAITING_REVEAL"), Entry("turn", "VERIFYING"),
                             Entry("turn", "WAITING_FOR_OPPONENT") >>
  /\ UNCHANGED match

verified_incoming ==
  /\ turn' = "VERIFYING"
  /\ history' = Append(history, Entry("turn", "VERIFYING"))
  /\ UNCHANGED match

technical_loss ==
  /\ turn' = "TECHNICAL_LOSS"
  /\ history' = Append(history, Entry("turn", "TECHNICAL_LOSS"))
  /\ UNCHANGED match

Next ==
  (\E target \in MatchStates : transition_match(target)) \/ local_turn \/ verified_incoming \/ technical_loss

Spec == Init /\ [][Next]_vars

-----------------------------------------------------------------------------
Recorded(state) == \E i \in 1 .. Len(history) : history[i] = Entry("match", state)

(* The stages a match has behind it, however it was driven. *)
Behind == [
  BOOTSTRAP |-> {}, NEGOTIATING |-> {}, STEP_ZERO |-> {},
  RUNNING_SUBGAME |-> {"STEP_ZERO"}, FINAL_AUDIT |-> {"STEP_ZERO", "RUNNING_SUBGAME"},
  AGREEING_RESULT |-> {"STEP_ZERO", "RUNNING_SUBGAME", "FINAL_AUDIT"},
  REPORTING |-> {"STEP_ZERO", "RUNNING_SUBGAME", "FINAL_AUDIT", "AGREEING_RESULT"},
  FINISHED |-> {"STEP_ZERO", "RUNNING_SUBGAME", "FINAL_AUDIT", "AGREEING_RESULT", "REPORTING"},
  ABORTED |-> {}]

(* A match that is finished has taken every stage, the audit and the agreed   *)
(* result among them, and its trace shows it.                                 *)
NoStageSkipped == \A state \in Behind[match] \cup {match} : Recorded(state)

(* What has ended stays as it is. *)
EndIsFinal == [][(match \in Ended) => match' = match]_vars

=============================================================================
