------------------------------ MODULE Console ------------------------------
(***************************************************************************)
(* The two windows of the command line (cli.py): "gui" opens the live one  *)
(* (Player), "replay" the viewer of a saved match (Replay).  A process     *)
(* opens one of them and keeps to it.                                      *)
(***************************************************************************)
EXTENDS Player, Replay

VARIABLE command   \* the subcommand

vars == <<command, liveVars, replayVars>>

Init == command \in {"gui", "replay"} /\ LiveInit /\ ReplayInit

Next ==
  \/ command = "gui" /\ LiveNext /\ UNCHANGED <<command, replayVars>>
  \/ command = "replay" /\ ReplayNext /\ UNCHANGED <<command, liveVars>>

Spec == Init /\ [][Next]_vars /\ LiveFairness /\ ReplayFairness

-----------------------------------------------------------------------------
(* Types of both windows. *)
TypeOK == LiveTypeOK /\ ReplayTypeOK

(* What either window has under way comes to its end: the live one learns that *)
(* its series is over, and a playback, with every callback it has scheduled.   *)
Settles == WindowSettles /\ PlaybackEnds /\ ChainsEnd

=============================================================================
