------------------------------- MODULE Replay -------------------------------
(***************************************************************************)
(* The replay viewer (gui/replay.py, gui/replay_controls.py,               *)
(* gui/replay_data.py): a saved match, a play head that moves over it step *)
(* by step, and the belief map, barriers and visited cells rebuilt on the  *)
(* way.  The timer of the playback is a chain of callbacks that schedules  *)
(* itself; pressing Play begins another one.                               *)
(*                                                                         *)
(* A handler of the Tk thread runs alone.  Only goto loops; its steps are  *)
(* taken one by one here, and nothing else moves meanwhile.                *)
(***************************************************************************)
EXTENDS Board, Sequences

CONSTANTS
  Saved,       \* the files there are to open
  MaxChains,   \* bound: playback chains scheduled at once
  MaxPresses   \* bound: presses of a button

(* A saved file: the summary of a run, bare or in a match file beside the     *)
(* report, or the log artifact of a sub-game; the own positions, and the      *)
(* barrier of each message received (a set of none or one).                   *)
SavedFiles ==
  [kind : {"summary", "match", "artifact"}, my_log : Seq(Cells), history : Seq(SUBSET Cells)]

ASSUME ReplayAssumption ==
  Saved \subseteq SavedFiles /\ MaxChains \in Nat \ {0} /\ MaxPresses \in Nat

(* normalize_log: the tracks of a file.  The summary of a log artifact        *)
(* (report/artifacts.py) holds none, only the records beside it.              *)
Tracks(file) ==
  IF file.kind = "artifact" THEN [my_log |-> <<>>, history |-> <<>>]
  ELSE [my_log |-> file.my_log, history |-> file.history]

(* What is replayed: a file, and the positions of a second one if given. *)
Opened ==
  {[my_log |-> Tracks(f).my_log, history |-> Tracks(f).history, opponent |-> o] :
     f \in Saved, o \in {<<>>} \cup {Tracks(g).my_log : g \in Saved}}

VARIABLES
  log,        \* what is replayed
  index,      \* _index: steps replayed since the last reset
  visited, barriers,
  folded,     \* messages the belief was diffused and observed with
  playing, chains,   \* _playing; scheduled calls of _tick
  left,       \* iterations left of a goto under way
  presses

head == <<index, visited, barriers, folded>>
replayVars == <<log, head, playing, chains, left, presses>>

Larger(a, b) == IF a >= b THEN a ELSE b

(* _total_steps. *)
Total == Larger(Len(log.my_log), Larger(Len(log.history), Len(log.opponent)))

ReplayInit ==
  /\ log \in Opened
  /\ index = 0 /\ visited = {} /\ barriers = {} /\ folded = 0
  /\ playing = FALSE /\ chains = 0 /\ left = 0 /\ presses = 0

(* A faulty variant: the barriers of the run before stay on the board. *)
ResetKeepingBarriers == index' = 0 /\ visited' = {} /\ folded' = 0 /\ UNCHANGED barriers

(* _reset_state. *)
Reset == index' = 0 /\ visited' = {} /\ barriers' = {} /\ folded' = 0

(* A faulty variant: the end of the log is not looked at. *)
AdvancePastTheEnd ==
  /\ visited' = IF index < Len(log.my_log) THEN visited \cup {log.my_log[index + 1]} ELSE visited
  /\ index' = index + 1
  /\ UNCHANGED <<folded, barriers>>

(* advance() where there is a step: my own track moves on while it lasts, and *)
(* so does the Police's.                                                      *)
Advance ==
  /\ index < Total
  /\ visited' = IF index < Len(log.my_log) THEN visited \cup {log.my_log[index + 1]} ELSE visited
  /\ IF index < Len(log.history)
       THEN folded' = folded + 1 /\ barriers' = barriers \cup log.history[index + 1]
       ELSE UNCHANGED <<folded, barriers>>
  /\ index' = index + 1

(* advance(): at the end it only stops the playback. *)
AdvanceOrStop ==
  \/ Advance /\ UNCHANGED playing
  \/ index >= Total /\ playing' = FALSE /\ UNCHANGED head

Pressed == left = 0 /\ presses < MaxPresses /\ presses' = presses + 1

(* The Step button. *)
PressStep == Pressed /\ AdvanceOrStop /\ UNCHANGED <<log, chains, left>>

(* restart(). *)
PressAgain == Pressed /\ Reset /\ playing' = FALSE /\ UNCHANGED <<log, chains, left>>

(* goto: at least one step is taken, and no more than there are. *)
PressGo ==
  /\ Pressed
  /\ \E step \in -1 .. Total + 1 :
       left' = Larger(1, IF step <= Total THEN step ELSE Total)
  /\ Reset
  /\ UNCHANGED <<log, playing, chains>>

GoOn ==
  /\ left > 0
  /\ left' = left - 1
  /\ AdvanceOrStop
  /\ UNCHANGED <<log, chains, presses>>

(* toggle(): to play is to take a step and schedule the next. *)
PressPlay ==
  /\ Pressed
  /\ \/ playing /\ playing' = FALSE /\ UNCHANGED <<head, chains>>
     \/ /\ ~playing /\ chains < MaxChains
        /\ chains' = chains + 1
        /\ \/ Advance /\ playing' = TRUE
           \/ index >= Total /\ UNCHANGED <<head, playing>>
  /\ UNCHANGED <<log, left>>

(* _tick: a chain ends where it finds the playback stopped. *)
Tick ==
  /\ left = 0 /\ chains > 0
  /\ \/ ~playing /\ chains' = chains - 1 /\ UNCHANGED <<head, playing>>
     \/ playing /\ AdvanceOrStop /\ UNCHANGED chains
  /\ UNCHANGED <<log, left, presses>>

ReplayNext == PressStep \/ PressAgain \/ PressGo \/ GoOn \/ PressPlay \/ Tick

ReplayFairness == WF_replayVars(Tick) /\ WF_replayVars(GoOn)

-----------------------------------------------------------------------------
(* Where _render puts the Thief: at its last step so far, frozen at its end. *)
Position ==
  IF index = 0 \/ log.my_log = <<>> THEN {}
  ELSE {log.my_log[IF index <= Len(log.my_log) THEN index ELSE Len(log.my_log)]}

ReplayTypeOK ==
  /\ log \in Opened
  /\ index \in 0 .. Total /\ folded \in 0 .. Len(log.history)
  /\ visited \subseteq Cells /\ barriers \subseteq Cells
  /\ playing \in BOOLEAN /\ chains \in 0 .. MaxChains
  /\ left \in 0 .. Total + 1 /\ presses \in 0 .. MaxPresses

Upto(track) == IF index <= Len(track) THEN index ELSE Len(track)

(* Wherever the head stands and however it came there, forwards, by a jump or *)
(* by several playbacks at once, the board shows the first steps of the log   *)
(* and nothing else.                                                          *)
ShowsThePrefix ==
  /\ visited = {log.my_log[i] : i \in 1 .. Upto(log.my_log)}
  /\ barriers = UNION {log.history[i] : i \in 1 .. Upto(log.history)}
  /\ folded = Upto(log.history)
  /\ Position \subseteq visited

(* A playback that is not interfered with comes to its end, and no callback   *)
(* is left behind.                                                            *)
PlaybackEnds == playing ~> ~playing
ChainsEnd == chains > 0 ~> chains = 0 \/ playing

=============================================================================
