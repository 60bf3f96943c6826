------------------------------- MODULE Player -------------------------------
(***************************************************************************)
(* The live window (gui/player.py, gui/live_controls.py): the Tk thread    *)
(* with its buttons and callbacks, the worker thread that plays a series   *)
(* and writes its artifacts (sdk/series_runner.py, report/emit.py), and    *)
(* the queue of events between them.  Every press that starts the game     *)
(* anew is a pass; each pass has a worker and controls of its own, and all *)
(* passes write files of the same names, which depend on nothing but the   *)
(* two groups.                                                             *)
(*                                                                         *)
(* The series itself is one step here (Series has it), pause, play and     *)
(* stop reach nothing but that step, and what is drawn is left out.        *)
(***************************************************************************)
EXTENDS Integers

CONSTANTS
  NumGames,   \* game.num_games
  MaxPasses   \* bound: passes begun, over all launches of the program

ASSUME PlayerAssumption == NumGames \in Nat \ {0} /\ MaxPasses \in Nat \ {0}

Passes == 1 .. MaxPasses

(* The files in the order of writing: the declaration, the configuration and  *)
(* the log of each sub-game, the result (emit_series), and the match log      *)
(* (_save_log) that the replay viewer opens.                                  *)
ResultAt == 2 * NumGames + 2
MatchAt == ResultAt + 1
Files == 1 .. MatchAt

VARIABLES
  open,         \* the window is there, and with it the process
  closing,      \* its destruction is scheduled
  in_progress,  \* _in_progress
  pass,         \* number of the last pass begun
  phase,        \* where the worker of each pass stands
  written,      \* files it has written
  asked,        \* passes whose controls hold a request to restart
  rebuilds,     \* scheduled calls of _rebuild_and_start
  events,       \* the queue: kinds of event and the pass they are of
  summary,      \* _summary: the pass it is of, or 0
  disk,         \* of each file: the pass it is of (0: none), and is it whole
  shown         \* history: passes announced complete

liveWindow == <<open, closing, in_progress, pass, rebuilds, summary>>
liveVars == <<liveWindow, phase, written, asked, events, disk, shown>>

LiveInit ==
  /\ open = TRUE /\ closing = FALSE /\ in_progress = FALSE /\ pass = 0
  /\ phase = [p \in Passes |-> "none"] /\ written = [p \in Passes |-> 0]
  /\ asked = {} /\ rebuilds = 0 /\ events = {} /\ summary = 0
  /\ disk = [f \in Files |-> [pass |-> 0, whole |-> TRUE]] /\ shown = {}

-----------------------------------------------------------------------------
(* The Tk thread: one button or callback at a time. *)

(* start(): a worker for the pass. *)
Start ==
  /\ pass < MaxPasses
  /\ in_progress' = TRUE
  /\ pass' = pass + 1
  /\ phase' = [phase EXCEPT ![pass + 1] = "setup"]
  /\ UNCHANGED <<open, closing, written, events, disk, shown>>

(* The button is there until the first start of this window. *)
PressStart ==
  /\ open /\ ~in_progress /\ \A p \in Passes : phase[p] \in {"none", "killed"}
  /\ Start
  /\ UNCHANGED <<rebuilds, asked, summary>>

(* _rebuild_and_start: new controls, no summary; the request to restart is    *)
(* not carried over to them.                                                  *)
RebuildAndStart == Start /\ summary' = 0 /\ UNCHANGED asked

(* A faulty variant: a rebuild whether or not a worker owns the agent. *)
PressRestartAtOnce ==
  /\ open
  /\ RebuildAndStart /\ UNCHANGED rebuilds

(* restart(): a game in progress is asked to restart through its controls.    *)
PressRestart ==
  /\ open
  /\ \/ /\ in_progress
        /\ asked' = asked \cup {pass}
        /\ UNCHANGED <<liveWindow, phase, written, events, disk, shown>>
     \/ ~in_progress /\ RebuildAndStart /\ UNCHANGED rebuilds

(* The callback that a worker has scheduled. *)
Rebuild ==
  /\ open /\ rebuilds > 0
  /\ rebuilds' = rebuilds - 1
  /\ RebuildAndStart

Finals == {"series_complete", "error"}

(* _drain: the whole queue is applied; a final event ends the game. *)
Drain ==
  /\ open /\ events # {}
  /\ in_progress' = (in_progress /\ ~\E e \in events : e.kind \in Finals)
  /\ shown' = shown \cup {e.pass : e \in {x \in events : x.kind = "series_complete"}}
  /\ events' = {}
  /\ UNCHANGED <<open, closing, pass, rebuilds, summary, phase, written, asked, disk>>

(* quit(): the window goes a moment later, and the workers with the process,  *)
(* which are daemons, wherever they stand.                                    *)
PressQuit ==
  /\ open /\ ~closing
  /\ closing' = TRUE
  /\ UNCHANGED <<open, in_progress, pass, rebuilds, summary, phase, written, asked, events, disk, shown>>

Destroy ==
  /\ open /\ closing
  /\ open' = FALSE
  /\ phase' = [p \in Passes |-> IF phase[p] = "none" THEN "none" ELSE "killed"]
  /\ UNCHANGED <<closing, in_progress, pass, rebuilds, summary, written, asked, events, disk, shown>>

(* The program is started again in the same directory. *)
Launch ==
  /\ ~open
  /\ open' = TRUE /\ closing' = FALSE /\ in_progress' = FALSE
  /\ rebuilds' = 0 /\ events' = {} /\ summary' = 0 /\ asked' = {}
  /\ UNCHANGED <<pass, phase, written, disk, shown>>

-----------------------------------------------------------------------------
(* The worker of pass p: _worker around play_series. *)
Goes(p, from, to) ==
  /\ open /\ phase[p] = from
  /\ phase' = [phase EXCEPT ![p] = to]

Post(kind, p) == events' = events \cup {[kind |-> kind, pass |-> p]}

(* The agreement, the model, the brain and the mailbox are there. *)
Prepare(p) ==
  /\ Goes(p, "setup", "series")
  /\ UNCHANGED <<liveWindow, written, asked, events, disk, shown>>

(* One sub-game or restart more: run_series restarts by itself.  _series_listener *)
(* renames what would otherwise end the window's game.                        *)
PlayOn(p) ==
  /\ Goes(p, "series", "series")
  /\ \/ Post("sub_game_over", p) /\ UNCHANGED asked
     \/ Post("series_restart", p) /\ asked' = asked \ {p}
  /\ UNCHANGED <<liveWindow, written, disk, shown>>

EndSeries(p) ==
  /\ Goes(p, "series", "emit")
  /\ UNCHANGED <<liveWindow, written, asked, events, disk, shown>>

(* One restart too many leaves run_series, and the pass. *)
RestartStorm(p) ==
  /\ Goes(p, "series", "over") /\ pass < MaxPasses
  /\ rebuilds' = rebuilds + 1
  /\ UNCHANGED <<open, closing, in_progress, pass, summary, written, asked, events, disk, shown>>

(* A faulty variant: the result goes first. *)
ResultFirst(n) ==
  IF n = 0 THEN ResultAt ELSE IF n < ResultAt THEN n ELSE n + 1

(* The file that is next when n are written. *)
NextFile(n) == n + 1

(* write_text: the old file is emptied, then the new one is there. *)
OpenFile(p) ==
  /\ Goes(p, "emit", "write") /\ written[p] < MatchAt
  /\ disk' = [disk EXCEPT ![NextFile(written[p])] = [pass |-> p, whole |-> FALSE]]
  /\ UNCHANGED <<liveWindow, written, asked, events, shown>>

FillFile(p) ==
  /\ Goes(p, "write", "emit")
  /\ disk' = [disk EXCEPT ![NextFile(written[p])].whole = TRUE]
  /\ written' = [written EXCEPT ![p] = @ + 1]
  /\ UNCHANGED <<liveWindow, asked, events, shown>>

(* send_report has drafted, sent or refused; the listener hears of the end. *)
Announce(p) ==
  /\ Goes(p, "emit", "announced") /\ written[p] = MatchAt
  /\ Post("series_complete", p)
  /\ UNCHANGED <<liveWindow, written, asked, disk, shown>>

(* play_series returns to the worker, which keeps what it returned. *)
Return(p) ==
  /\ Goes(p, "announced", "over")
  /\ summary' = p
  /\ UNCHANGED <<open, closing, in_progress, pass, rebuilds, written, asked, events, disk, shown>>

(* A faulty variant: an exception is left to the thread. *)
FailSilently(p) ==
  /\ phase[p] \in {"setup", "series", "emit", "write"}
  /\ Goes(p, phase[p], "over")
  /\ UNCHANGED <<liveWindow, written, asked, events, disk, shown>>

(* Any other exception, from the agreement to the mail, a full disk among them. *)
Fail(p) ==
  /\ phase[p] \in {"setup", "series", "emit", "write"}
  /\ Goes(p, phase[p], "over")
  /\ Post("error", p)
  /\ UNCHANGED <<liveWindow, written, asked, disk, shown>>

Emit(p) == OpenFile(p) \/ FillFile(p) \/ Announce(p)

Worker(p) ==
  \/ Prepare(p) \/ PlayOn(p) \/ EndSeries(p) \/ RestartStorm(p) \/ Emit(p) \/ Return(p) \/ Fail(p)

Tk == PressStart \/ PressRestart \/ Rebuild \/ Drain \/ PressQuit \/ Destroy \/ Launch

LiveNext == Tk \/ \E p \in Passes : Worker(p)

(* The callbacks of Tk run, and a worker that writes its artifacts goes on.    *)
LiveFairness == WF_liveVars(Drain) /\ WF_liveVars(Rebuild) /\ \A p \in Passes : WF_liveVars(Emit(p) \/ Fail(p))

-----------------------------------------------------------------------------
Phases == {"none", "setup", "series", "emit", "write", "announced", "over", "killed"}
Kinds == Finals \cup {"sub_game_over", "series_restart"}

(* Types; what is written, asked or queued is of a pass that was begun. *)
LiveTypeOK ==
  /\ open \in BOOLEAN /\ closing \in BOOLEAN /\ in_progress \in BOOLEAN
  /\ pass \in 0 .. MaxPasses /\ summary \in 0 .. pass /\ rebuilds \in Nat
  /\ phase \in [Passes -> Phases] /\ \A p \in Passes : phase[p] = "none" <=> p > pass
  /\ written \in [Passes -> 0 .. MatchAt]
  /\ asked \subseteq 1 .. pass /\ shown \subseteq 1 .. pass
  /\ events \subseteq [kind : Kinds, pass : 1 .. pass]
  /\ disk \in [Files -> [pass : 0 .. pass, whole : BOOLEAN]]

Owns(p) == phase[p] \in {"setup", "series", "emit", "write"}

(* _worker: "never two runtimes racing".  A worker that owns the agent is of  *)
(* the last pass, the window knows of it, and no rebuild is scheduled and no  *)
(* final event queued that would let another one begin beside it.             *)
OneRuntime ==
  \A p \in Passes : Owns(p) =>
    /\ p = pass /\ in_progress /\ rebuilds = 0
    /\ \A e \in events : e.kind \notin Finals

(* Whatever fails or is killed between two files, the result on disk never    *)
(* runs ahead of what it refers to: declaration, configurations and logs are  *)
(* of its pass or of a later one, whole if of its pass; and a series          *)
(* announced as complete has all its files written.                           *)
ResultBacked ==
  /\ disk[ResultAt].pass > 0 => \A f \in 1 .. ResultAt - 1 :
       /\ disk[f].pass >= disk[ResultAt].pass
       /\ disk[f].pass = disk[ResultAt].pass => disk[f].whole
  /\ \A p \in shown : \A f \in Files : disk[f].pass >= p

(* Once the series is over, the window gets to know, if it is not closed:     *)
(* without that a restart would be asked of controls that nobody reads.       *)
WindowSettles ==
  \A p \in Passes :
    phase[p] \in {"emit", "write", "announced", "over"} ~> ~open \/ ~in_progress \/ pass # p

=============================================================================
