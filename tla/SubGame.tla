------------------------------ MODULE SubGame ------------------------------
(***************************************************************************)
(* What one sub-game promises, whatever happens to messages, buttons and   *)
(* control signals on the way: the two sides alternate strictly, the Thief *)
(* first; a capture is decided only on a Police turn; the Thief survives   *)
(* by completing its last turn, or on the word of the Police; and a decided*)
(* game takes no further turn.  ThiefGame implements it.                   *)
(***************************************************************************)
EXTENDS Integers

CONSTANT SurvivalThreshold

VARIABLES
  mine,     \* completed turns of the Thief
  theirs,   \* accepted turns of the Police
  status    \* "open", a result, or "aborted" when an exception ended the run

subGameVars == <<mine, theirs, status>>

Decided == {"capture", "survival"}
Abandoned == {"timeout", "technical_loss", "quit", "opponent_quit"}
Statuses ==
  {"open", "aborted", "tamper_forfeit_opponent"} \cup Decided \cup Abandoned

Init == mine = 0 /\ theirs = 0 /\ status = "open"

MyTurn ==
  /\ status = "open" /\ mine = theirs /\ mine < SurvivalThreshold
  /\ mine' = mine + 1
  /\ UNCHANGED <<theirs, status>>

TheirTurn ==
  /\ status = "open" /\ theirs = mine - 1
  /\ theirs' = theirs + 1
  /\ status' \in Decided \cup {"open", "aborted"}
  /\ UNCHANGED mine

Survive ==
  /\ status = "open" /\ mine = SurvivalThreshold /\ theirs = mine - 1
  /\ status' = "survival"
  /\ UNCHANGED <<mine, theirs>>

(* Only a turn awaited can time out; a quit is taken before a turn of mine. *)
Abandon ==
  /\ status = "open"
  /\ \/ status' = "technical_loss"
     \/ status' = "timeout" /\ theirs = mine - 1
     \/ status' \in {"quit", "opponent_quit"} /\ theirs = mine
  /\ UNCHANGED <<mine, theirs>>

(* A Police log that fails its audit overturns a game that was decided. *)
Forfeit ==
  /\ status \in Decided
  /\ status' = "tamper_forfeit_opponent"
  /\ UNCHANGED <<mine, theirs>>

Abort ==
  /\ status \notin {"aborted", "tamper_forfeit_opponent"}
  /\ status' = "aborted"
  /\ UNCHANGED <<mine, theirs>>

Next == MyTurn \/ TheirTurn \/ Survive \/ Abandon \/ Forfeit \/ Abort

Spec == Init /\ [][Next]_subGameVars
=============================================================================
