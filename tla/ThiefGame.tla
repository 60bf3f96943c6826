----------------------------- MODULE ThiefGame -----------------------------
(***************************************************************************)
(* One sub-game of the Thief peer: ThiefRuntime.run (peer/runtime.py) with *)
(* the turn it sends (peer/turn_sender.py), the turn it receives           *)
(* (peer/turn_handler.py), the control channel it pumps                    *)
(* (peer/runtime_control.py, peer/control_link.py), the buttons the GUI    *)
(* thread presses meanwhile (peer/controls.py) and the end-of-game audit   *)
(* (peer/summary.py).                                                      *)
(*                                                                         *)
(* Three threads interleave: the runtime, which stands at `pc`; the GUI,   *)
(* which sets and clears the events of GameControls; and the server        *)
(* thread, which fills the two inboxes with what the Police sends.  The    *)
(* Police is a program of another repository: its actions say only what    *)
(* the code here and its test double rely on.                              *)
(*                                                                         *)
(* An optional cell is a set with at most one cell in it.                  *)
(***************************************************************************)
EXTENDS Board, CommitChain, FiniteSets

CONSTANTS
  ThiefStart,          \* positions.thief_start
  SurvivalThreshold,   \* rules.survival_threshold
  Plays,               \* what a Police turn may carry: [barrier, claim, win]
  PoliceLogs,          \* the record lists the Police may reveal at the audit
  Buttons,             \* the GUI controls this instance exercises
  Signals,             \* the control messages the Police may send
  MaxSignals,          \* bound: control messages the Police sends
  MaxRepeats,          \* bound: repeated deliveries of a Police turn
  Faults               \* TRUE when the Police may send a turn it should not

ASSUME StartAssumption == ThiefStart \in Cells
ASSUME ThresholdAssumption == SurvivalThreshold \in Nat \ {0}
ASSUME PlaysAssumption ==
  Plays \subseteq [barrier : SUBSET Cells, claim : SUBSET Cells, win : BOOLEAN]
ASSUME ControlAssumption ==
  /\ Buttons \subseteq {"pause", "play", "stop", "restart", "quit", "enable"}
  /\ Signals \subseteq {"enable", "restart", "quit", "malformed"}
ASSUME BoundsAssumption == MaxSignals \in Nat /\ MaxRepeats \in Nat /\ Faults \in BOOLEAN

VARIABLES
  pc,             \* where run() stands
  error,          \* the exception that left run(), or "none"
  result,         \* ThiefRuntime._result, "none" while undecided
  position,       \* OwnGameState.position
  barriers,       \* OwnGameState.barriers
  step_number,    \* OwnGameState.step_number
  incoming_step,  \* TurnHandler.incoming_step
  seen_turns,     \* TurnHandler._seen_turns, by commit
  history,        \* TurnHandler.history
  disputes,       \* len(TurnHandler.disputes)
  response,       \* the claim_response in hand for the next message
  records,        \* ThiefRuntime.records
  seals,          \* how many seals were drawn: the next commit is seals + 1
  controls,       \* the GameControls events that are set
  link,           \* the ControlLink flags that are set
  turns,          \* PeerInboxes.turns
  signals,        \* PeerInboxes.controls
  sent,           \* the well-formed turns the Police has sent so far
  heard,          \* commits of the Thief messages the Police has taken
  verdict,        \* what the Police has learnt of the end of the game
  wire,           \* Thief messages on their way to the Police
  used,           \* [signals, repeats] the environment has spent
  faulty          \* the Police has sent a turn it should not have

gameVars == <<position, barriers, step_number, records, seals>>
handlerVars == <<incoming_step, seen_turns, history, disputes>>
policeVars == <<sent, heard, verdict, used, faulty>>
vars == <<pc, error, result, gameVars, handlerVars, response, controls, link,
          turns, signals, policeVars, wire>>

-----------------------------------------------------------------------------
(* A Police turn as the handler reads it. *)
Turn(step, commit, play) ==
  [step |-> step, commit |-> commit, barrier |-> play.barrier,
   claim |-> play.claim, win |-> play.win]

OffBoard == <<BoardSize, 0>>

NoResponse == [claim |-> {}, caught |-> FALSE]

(* A Thief message: smell grid, hint and timestamps are left out. *)
Message(step, commit, answer, win) ==
  [step |-> step, commit |-> commit, response |-> answer, win |-> win]

(* The results AuditPayload accepts (domain/control_protocol.py), and those *)
(* that a failed Police audit does not overturn (peer/summary.py).          *)
AuditClaims == {"capture", "survival", "timeout", "technical_loss"}
NoForfeitResults == {"timeout", "technical_loss", "quit", "opponent_quit"}

Final == {"returned", "raised"}

Raise(why) == pc' = "raised" /\ error' = why

Goto(label) == pc' = label /\ UNCHANGED error

Active == {"i_enabled", "peer_enabled"} \subseteq link

Init ==
  /\ pc = "negotiate" /\ error = "none" /\ result = "none"
  /\ position = ThiefStart /\ barriers = {} /\ step_number = 0
  /\ incoming_step = 0 /\ seen_turns = {} /\ history = <<>> /\ disputes = 0
  /\ response = NoResponse /\ records = <<>> /\ seals = 0
  /\ controls = {"resume"} /\ link = {}
  /\ turns = <<>> /\ signals = <<>>
  /\ sent = <<>> /\ heard = {} /\ verdict = "none" /\ wire = <<>>
  /\ used = [signals |-> 0, repeats |-> 0] /\ faulty = FALSE

-----------------------------------------------------------------------------
(* The runtime thread. *)

(* exchange_agreement returned a matching agreement, or the handshake raised *)
(* (no reply, other terms, a bad signature, an unreachable opponent).        *)
Negotiate ==
  /\ pc = "negotiate"
  /\ Goto("enter") \/ Raise("handshake")
  /\ UNCHANGED <<result, gameVars, handlerVars, response, controls, link, turns,
                 signals, policeVars, wire>>

(* runtime_control.pump, before and after the pause: it enables the channel  *)
(* on request, then ControlLink.drain handles every message that waits.      *)
OptIn ==
  /\ pc \in {"enter", "reenter"}
  /\ link' = IF "enable" \in controls THEN link \cup {"i_enabled"} ELSE link
  /\ Goto(IF pc = "enter" THEN "drain" ELSE "redrain")
  /\ UNCHANGED <<result, gameVars, handlerVars, response, controls, turns, signals,
                 policeVars, wire>>

(* A faulty variant: a restart is granted to a peer that never opted in. *)
HandledBlindly(signal) ==
  CASE signal = "enable"  -> {"peer_enabled"}
    [] signal = "quit"    -> {"opponent_quit"}
    [] signal = "restart" -> {"pending_restart"}
    [] OTHER              -> {}

(* ControlLink._handle: a restart is granted only while both sides are        *)
(* enabled, a quit always is, and a status or an unknown kind changes nothing. *)
Handled(signal) ==
  CASE signal = "enable"             -> {"peer_enabled"}
    [] signal = "quit"               -> {"opponent_quit"}
    [] signal = "restart" /\ Active  -> {"pending_restart"}
    [] OTHER                         -> {}

(* A message that ControlMessage.from_dict refuses ends the run.              *)
DrainSignal ==
  /\ pc \in {"drain", "redrain"} /\ signals # <<>>
  /\ link' = link \cup Handled(Head(signals))
  /\ signals' = Tail(signals)
  /\ IF Head(signals) = "malformed" THEN Raise("control") ELSE UNCHANGED <<pc, error>>
  /\ UNCHANGED <<result, gameVars, handlerVars, response, controls, turns,
                 policeVars, wire>>

EndPump ==
  /\ pc \in {"drain", "redrain"} /\ signals = <<>>
  /\ Goto(IF pc = "drain" THEN "gate" ELSE "check")
  /\ UNCHANGED <<result, gameVars, handlerVars, response, controls, link, turns,
                 signals, policeVars, wire>>

(* wait_if_paused, then the stop test: at the top of a turn and at the top   *)
(* of the receive loop.                                                      *)
PassGate ==
  /\ pc \in {"gate", "loop"}
  /\ "resume" \in controls /\ "stop" \notin controls
  /\ Goto(IF pc = "gate" THEN "reenter" ELSE "poll")
  /\ UNCHANGED <<result, gameVars, handlerVars, response, controls, link, turns,
                 signals, policeVars, wire>>

(* A faulty variant of StopAtGate: a pause pressed after the stop hides it. *)
StopUnlessPaused ==
  /\ pc \in {"gate", "loop"} /\ {"stop", "resume"} \subseteq controls
  /\ result' = "technical_loss"
  /\ Goto("finish")
  /\ UNCHANGED <<gameVars, handlerVars, response, controls, link, turns, signals,
                 policeVars, wire>>

(* A stop ends the wait, paused or not, and loses the sub-game. *)
StopAtGate ==
  /\ pc \in {"gate", "loop"} /\ "stop" \in controls
  /\ result' = "technical_loss"
  /\ Goto("finish")
  /\ UNCHANGED <<gameVars, handlerVars, response, controls, link, turns, signals,
                 policeVars, wire>>

(* runtime_control.check: a quit of mine comes before a quit of the Police,  *)
(* and both before a restart of mine and a restart of the Police.  The GUI   *)
(* may press between the two reads of its events.                            *)
CheckQuit ==
  /\ pc = "check"
  /\ IF "quit" \in controls THEN result' = "quit" /\ Goto("finish")
     ELSE IF "opponent_quit" \in link THEN result' = "opponent_quit" /\ Goto("finish")
     ELSE UNCHANGED result /\ Goto("check_restart")
  /\ UNCHANGED <<gameVars, handlerVars, response, controls, link, turns, signals,
                 policeVars, wire>>

CheckRestart ==
  /\ pc = "check_restart"
  /\ \/ /\ "restart" \in controls
        /\ controls' = controls \ {"restart"} /\ Raise("restart")
        /\ UNCHANGED link
     \/ /\ "restart" \notin controls /\ "pending_restart" \in link
        /\ link' = link \ {"pending_restart"} /\ Raise("restart")
        /\ UNCHANGED controls
     \/ /\ "restart" \notin controls /\ "pending_restart" \notin link
        /\ Goto("decide")
        /\ UNCHANGED <<controls, link>>
  /\ UNCHANGED <<result, gameVars, handlerVars, response, turns, signals, policeVars, wire>>

(* A faulty variant: a step is taken without asking the board. *)
UncheckedStep(action) ==
  IF action \in Directions THEN Neighbor(position, action) ELSE position

(* OwnGameState.apply_move: an illegal step leaves the state untouched, and  *)
(* take_turn then applies a hold, so every turn advances step_number by one. *)
Destination(action) ==
  IF action \in Directions /\ Neighbor(position, action) \in LegalMoves(position, barriers)
    THEN Neighbor(position, action) ELSE position

(* The brain decides, the move is applied and a record sealed onto the chain. *)
DecideAndSeal ==
  /\ pc = "decide"
  /\ \E action \in Directions \cup {"HOLD"} : position' = Destination(action)
  /\ step_number' = step_number + 1
  /\ seals' = seals + 1
  /\ records' = Append(records, Seal(seals', LastCommit(records), step_number', position'))
  /\ Goto("send")
  /\ UNCHANGED <<result, barriers, handlerVars, response, controls, link, turns, signals,
                 policeVars, wire>>

(* McpTransport.send_turn: retried until it succeeds, so a call that failed   *)
(* after delivery arrives twice; it may also give up, delivered or not.       *)
Delivered(message, copies) == wire' = wire \o [i \in 1 .. copies |-> message]

(* A faulty variant: survival is declared one step too soon. *)
SurvivalEarly == step_number + 1 >= SurvivalThreshold

(* GameRules.survival_result. *)
SurvivalReached == step_number >= SurvivalThreshold

SendTurn ==
  LET message == Message(step_number, LastCommit(records), response, SurvivalReached) IN
  /\ pc = "send"
  /\ \E copies \in 1 .. 2 : Delivered(message, copies)
  /\ IF SurvivalReached THEN result' = "survival" /\ Goto("finish")
                        ELSE Goto("loop") /\ UNCHANGED result
  /\ UNCHANGED <<gameVars, handlerVars, response, controls, link, turns, signals,
                 policeVars>>

SendTurnFails ==
  LET message == Message(step_number, LastCommit(records), response, SurvivalReached) IN
  /\ pc = "send"
  /\ \E copies \in 0 .. 1 : Delivered(message, copies)
  /\ Raise("connection")
  /\ UNCHANGED <<result, gameVars, handlerVars, response, controls, link, turns, signals,
                 policeVars>>

(* A faulty variant: a poll that waits without a timeout. *)
PollForever == pc = "poll" /\ turns = <<>> /\ UNCHANGED vars

(* poll_turn gave up: no turn came within turn_timeout_seconds. *)
PollTimeout ==
  /\ pc = "poll" /\ turns = <<>>
  /\ result' = "timeout" /\ Goto("finish")
  /\ UNCHANGED <<gameVars, handlerVars, response, controls, link, turns, signals,
                 policeVars, wire>>

(* A faulty variant: no turn is ever recognised as a repeat. *)
RepeatUnnoticed(turn) == FALSE

Replayed(turn) == turn.commit \in seen_turns

(* A faulty variant: any turn that is ahead is taken for the next one. *)
Ahead(turn) == turn.step > incoming_step

InOrder(turn) == turn.step = incoming_step + 1

(* A faulty variant of ReceiveReplay: a repeat is answered with a turn. *)
ReplayTakesTurn ==
  /\ pc = "poll" /\ turns # <<>> /\ Replayed(Head(turns))
  /\ disputes' = disputes + 1
  /\ turns' = Tail(turns)
  /\ Goto("enter")
  /\ UNCHANGED <<result, gameVars, incoming_step, seen_turns, history, response, controls,
                 link, signals, policeVars, wire>>

(* TurnHandler.process on a commit it has seen: noted, and the loop goes on. *)
ReceiveReplay ==
  /\ pc = "poll" /\ turns # <<>> /\ Replayed(Head(turns))
  /\ disputes' = disputes + 1
  /\ turns' = Tail(turns)
  /\ Goto("loop")
  /\ UNCHANGED <<result, gameVars, incoming_step, seen_turns, history, response, controls,
                 link, signals, policeVars, wire>>

(* A turn out of order is a ProtocolError before anything is touched.        *)
ReceiveOutOfOrder ==
  /\ pc = "poll" /\ turns # <<>>
  /\ ~Replayed(Head(turns)) /\ ~InOrder(Head(turns))
  /\ turns' = Tail(turns)
  /\ result' = "technical_loss" /\ Raise("turn")
  /\ UNCHANGED <<gameVars, handlerVars, response, controls, link, signals, policeVars, wire>>

(* A faulty variant: the Police's claim is believed without a look at the cell. *)
TrustingOutcome(turn, known) ==
  IF ~(turn.barrier \subseteq Cells) THEN "reject"
  ELSE IF turn.barrier # {} /\ Trapped(position, turn.barrier, known) THEN "trapped"
  ELSE IF turn.win THEN "survival"
  ELSE IF turn.claim # {} THEN "caught"
  ELSE "continue"

(* The next turn is recorded first; then its barrier, its win claim and its  *)
(* capture claim are looked at in this order, each of which may decide.      *)
Outcome(turn, known) ==
  IF ~(turn.barrier \subseteq Cells) THEN "reject"
  ELSE IF turn.barrier # {} /\ Trapped(position, turn.barrier, known) THEN "trapped"
  ELSE IF turn.win THEN "survival"
  ELSE IF position \in turn.claim THEN "caught"
  ELSE "continue"

(* A faulty variant: an old answer stays in hand until the next claim. *)
StaleAnswer(turn, outcome) ==
  IF outcome \in {"caught", "continue"} /\ turn.claim # {}
    THEN [claim |-> turn.claim, caught |-> outcome = "caught"]
    ELSE response

Answer(turn, outcome) ==
  IF outcome \in {"caught", "continue"} /\ turn.claim # {}
    THEN [claim |-> turn.claim, caught |-> outcome = "caught"]
    ELSE NoResponse

ReceiveTurn ==
  LET turn == Head(turns)
      known == barriers \cup (turn.barrier \cap Cells)
      outcome == Outcome(turn, known) IN
  /\ pc = "poll" /\ turns # <<>>
  /\ ~Replayed(turn) /\ InOrder(turn)
  /\ seen_turns' = seen_turns \cup {turn.commit}
  /\ incoming_step' = turn.step
  /\ history' = Append(history, turn)
  /\ turns' = Tail(turns)
  /\ barriers' = known
  /\ response' = Answer(turn, outcome)
  /\ \/ /\ outcome = "reject"
        /\ result' = "technical_loss" /\ Raise("turn")
     \/ /\ outcome \in {"trapped", "caught"}
        /\ result' = "capture" /\ Goto("terminal")
     \/ /\ outcome = "survival"
        /\ result' = "survival" /\ Goto("finish")
     \/ /\ outcome = "continue"
        /\ Goto("enter") /\ UNCHANGED result
  /\ UNCHANGED <<position, step_number, records, seals, disputes, controls, link, signals,
                 policeVars, wire>>

(* A faulty variant: the terminal message reuses the commit of the last turn. *)
ReusedCommit == LastCommit(records)

(* _send_terminal tells the Police of the capture under a commit of its own: *)
(* the Police ignores a commit it has already taken.                         *)
TerminalCommit == seals + 1

SendTerminal ==
  LET message == Message(step_number, TerminalCommit, response, FALSE) IN
  /\ pc = "terminal"
  /\ seals' = seals + 1
  /\ \/ /\ \E copies \in 1 .. 2 : Delivered(message, copies)
        /\ Goto("finish")
     \/ /\ \E copies \in 0 .. 1 : Delivered(message, copies)
        /\ Raise("connection")
  /\ UNCHANGED <<result, position, barriers, step_number, records, handlerVars, response,
                 controls, link, turns, signals, policeVars>>

(* summary.exchange_audit: the payload is validated before it is sent, and   *)
(* the send may give up.                                                     *)
SendAudit ==
  /\ pc = "finish"
  /\ \/ result \notin AuditClaims /\ Raise("audit_claim")
     \/ result \in AuditClaims /\ (Goto("audit") \/ Raise("connection"))
  /\ UNCHANGED <<result, gameVars, handlerVars, response, controls, link, turns, signals,
                 policeVars, wire>>

(* A faulty variant: a failed Police log overturns whatever the result was. *)
JudgedAlways(log) ==
  IF ~AuditPasses(log) /\ AuditPasses(records) THEN "tamper_forfeit_opponent" ELSE result

(* The Police reveals its records, something else, or nothing in time.       *)
Judged(log) ==
  IF ~AuditPasses(log) /\ AuditPasses(records) /\ result \notin NoForfeitResults
    THEN "tamper_forfeit_opponent" ELSE result

ReceiveAudit ==
  /\ pc = "audit"
  /\ \/ \E log \in PoliceLogs : result' = Judged(log) /\ Goto("returned")
     \/ UNCHANGED result /\ Goto("returned")
     \/ UNCHANGED result /\ Raise("audit_payload")
  /\ UNCHANGED <<gameVars, handlerVars, response, controls, link, turns, signals,
                 policeVars, wire>>

Runtime ==
  \/ Negotiate \/ OptIn \/ DrainSignal \/ EndPump \/ PassGate \/ StopAtGate
  \/ CheckQuit \/ CheckRestart \/ DecideAndSeal \/ SendTurn \/ SendTurnFails \/ PollTimeout
  \/ ReceiveReplay \/ ReceiveOutOfOrder \/ ReceiveTurn \/ SendTerminal
  \/ SendAudit \/ ReceiveAudit

-----------------------------------------------------------------------------
(* The GUI thread: GameControls.  Nothing clears a stop or a quit.  Presses   *)
(* after run() has ended are of no effect here and are left out.              *)
Pressed(button) ==
  CASE button = "pause"  -> controls \ {"resume"}
    [] button = "play"   -> controls \cup {"resume"}
    [] button = "enable" -> controls \cup {"enable"}
    [] OTHER             -> controls \cup {button, "resume"}

Press ==
  /\ pc \notin Final
  /\ \E button \in Buttons : controls' = Pressed(button)
  /\ UNCHANGED <<pc, error, result, gameVars, handlerVars, response, link, turns, signals,
                 policeVars, wire>>

-----------------------------------------------------------------------------
(* The Police peer. *)

(* It takes a Thief message; a commit it has taken before reads as a repeat. *)
PoliceTake ==
  LET m == Head(wire) IN
  /\ wire # <<>>
  /\ wire' = Tail(wire)
  /\ heard' = heard \cup {m.commit}
  /\ verdict' = IF m.commit \in heard \/ verdict # "none" THEN verdict
                ELSE IF m.response.caught THEN "capture"
                ELSE IF m.win THEN "survival" ELSE "none"
  /\ UNCHANGED <<pc, error, result, gameVars, handlerVars, response, controls, link, turns,
                 signals, sent, used, faulty>>

(* It answers each fresh message with one turn until it knows the end.  One   *)
(* that claims the end of the game is its last.                               *)
PoliceTurn ==
  LET k == Len(sent) + 1 IN
  /\ pc \notin Final /\ verdict = "none" /\ Cardinality(heard) >= k
  /\ \E play \in Plays :
       /\ sent' = Append(sent, Turn(k, k, play))
       /\ verdict' = IF play.win THEN "survival" ELSE verdict
  /\ turns' = Append(turns, sent'[k])
  /\ UNCHANGED <<pc, error, result, gameVars, handlerVars, response, controls, link, signals,
                 heard, used, faulty, wire>>

(* A retry, or a call that was slow to arrive, delivers a turn once more. *)
PoliceRepeat ==
  /\ pc \notin Final /\ used.repeats < MaxRepeats
  /\ \E i \in DOMAIN sent : turns' = Append(turns, sent[i])
  /\ used' = [used EXCEPT !.repeats = @ + 1]
  /\ UNCHANGED <<pc, error, result, gameVars, handlerVars, response, controls, link, signals,
                 sent, heard, verdict, faulty, wire>>

(* A turn the protocol does not allow: a step ahead, or a barrier off the board. *)
PoliceFault ==
  LET k == Len(sent) + 1
      nothing == [barrier |-> {}, claim |-> {}, win |-> FALSE] IN
  /\ pc \notin Final /\ Faults /\ ~faulty
  /\ \/ turns' = Append(turns, Turn(k + 1, k + 1, nothing))
     \/ turns' = Append(turns, Turn(k, k, [nothing EXCEPT !.barrier = {OffBoard}]))
  /\ faulty' = TRUE
  /\ UNCHANGED <<pc, error, result, gameVars, handlerVars, response, controls, link, signals,
                 sent, heard, verdict, used, wire>>

PoliceSignal ==
  /\ pc \notin Final /\ used.signals < MaxSignals
  /\ \E s \in Signals : signals' = Append(signals, s)
  /\ used' = [used EXCEPT !.signals = @ + 1]
  /\ UNCHANGED <<pc, error, result, gameVars, handlerVars, response, controls, link, turns,
                 sent, heard, verdict, faulty, wire>>

Police == PoliceTake \/ PoliceTurn \/ PoliceRepeat \/ PoliceFault \/ PoliceSignal

(* run() is over and the mailbox empty: the system may rest here. *)
Rest == pc \in Final /\ wire = <<>> /\ UNCHANGED vars

Next == Runtime \/ Press \/ Police \/ Rest

Spec == Init /\ [][Next]_vars

(* The code justifies fairness for the runtime thread alone: every wait in it *)
(* is bounded (poll_turn, the send deadline, the audit poll, the timeouts of  *)
(* the model providers) but wait_if_paused, which PassGate and StopAtGate end. *)
(* Neither the user nor the Police owes it anything.                          *)
FairSpec == Spec /\ WF_vars(Runtime)

-----------------------------------------------------------------------------
(* Types, used by the proofs as well. *)
PlayTypes == [barrier : SUBSET (Cells \cup {OffBoard}), claim : SUBSET Cells, win : BOOLEAN]
TurnTypes == [step : Nat, commit : Nat, barrier : SUBSET (Cells \cup {OffBoard}),
              claim : SUBSET Cells, win : BOOLEAN]
ResponseTypes == [claim : SUBSET Cells, caught : BOOLEAN]
MessageTypes == [step : Nat, commit : Nat, response : ResponseTypes, win : BOOLEAN]
RecordTypes == [commit : Commits, prior : Nat, step : Nat, position : Cells, opens : {TRUE}]
Labels == {"negotiate", "enter", "drain", "gate", "reenter", "redrain", "check",
           "check_restart", "decide", "send", "loop", "poll", "terminal", "finish",
           "audit"} \cup Final
Errors == {"none", "handshake", "control", "restart", "connection", "turn", "audit_claim",
           "audit_payload"}
Results == AuditClaims \cup NoForfeitResults \cup {"none", "tamper_forfeit_opponent"}

(* Every variable holds a value of its kind. *)
TypeOK ==
  /\ pc \in Labels /\ error \in Errors /\ result \in Results
  /\ position \in Cells /\ barriers \subseteq Cells /\ step_number \in Nat
  /\ incoming_step \in Nat /\ seen_turns \subseteq Nat /\ history \in Seq(TurnTypes)
  /\ disputes \in Nat
  /\ response \in ResponseTypes /\ records \in Seq(RecordTypes) /\ seals \in Nat
  /\ controls \subseteq {"resume", "stop", "restart", "quit", "enable"}
  /\ link \subseteq {"i_enabled", "peer_enabled", "pending_restart", "opponent_quit"}
  /\ turns \in Seq(TurnTypes) /\ signals \in Seq(Signals)
  /\ sent \in Seq(TurnTypes) /\ heard \subseteq Nat
  /\ verdict \in {"none", "capture", "survival"} /\ wire \in Seq(MessageTypes)
  /\ used \in [signals : Nat, repeats : Nat] /\ faulty \in BOOLEAN

(* An undecided game never leaves the Thief on a barrier or without a step,   *)
(* so the shipped brain's HOLD for "no legal moves" is never what it plays:   *)
(* only a barrier can trap, and every barrier is judged when it is noted.     *)
NeverTrapped ==
  result = "none" => position \notin barriers /\ ~IsConfined(position, barriers)

(* Where the Thief is to move: from the first pump of a turn to its decision. *)
MyMove == {"enter", "drain", "gate", "reenter", "redrain", "check", "check_restart", "decide"}

(* The turn token: the Thief has made as many turns as it has accepted while  *)
(* it is to move, one more while it waits; no turn is made past the survival  *)
(* threshold.  Repeats, stops and faults do not break the alternation.        *)
TurnsAlternate ==
  /\ pc \in MyMove \cup {"terminal"} => step_number = incoming_step
  /\ pc \in {"send", "loop", "poll"} => step_number = incoming_step + 1
  /\ incoming_step <= step_number /\ step_number <= SurvivalThreshold

(* Every accepted Police turn is folded in once and in order, however often   *)
(* it was delivered: history is turns 1, 2, ... and seen_turns their commits. *)
FoldedOnce ==
  /\ incoming_step = Len(history)
  /\ \A i \in DOMAIN history : history[i].step = i
  /\ seen_turns = {history[i].commit : i \in DOMAIN history}
  /\ \A i, j \in DOMAIN history : i # j => history[i].commit # history[j].commit

(* The Thief's own log passes the audit at every moment, with one record per  *)
(* turn made, in order.                                                       *)
OwnLogPasses ==
  /\ AuditPasses(records)
  /\ Len(records) = step_number
  /\ \A i \in DOMAIN records : records[i].step = i

(* Each message on the wire answers the capture claim of the Police turn it   *)
(* follows, truthfully about where the Thief stood when it was made: no claim *)
(* is lost, answered late or answered after the next move.  A message whose   *)
(* commit is no record's is the terminal one, which follows the turn of its   *)
(* own step; it answers nothing when a barrier decided the game.              *)
IsTerminal(m) == records[m.step].commit # m.commit

AnsweredTurn(m) == IF IsTerminal(m) THEN m.step ELSE m.step - 1

AnswersClaims ==
  \A i \in DOMAIN wire :
    LET m == wire[i]
        k == AnsweredTurn(m)
        truth == [claim |-> history[k].claim,
                  caught |-> records[k].position \in history[k].claim]
    IN  k > 0 => \/ m.response = truth
                 \/ m.response = NoResponse /\ history[k].claim = {}
                 \/ m.response = NoResponse /\ IsTerminal(m) /\ history[k].barrier # {}

(* A capture is never declared without its cause: the last Police turn put a  *)
(* barrier that traps the Thief, or claims the cell of its last record.       *)
CaptureIsReal ==
  result = "capture" =>
    LET last == history[Len(history)] IN
    \/ last.barrier # {} /\ Trapped(position, last.barrier, barriers)
    \/ records[Len(records)].position \in last.claim

(* When the Thief's run has told the Police the end of the game and the Police *)
(* has taken its mail, both hold the same outcome: in particular the terminal  *)
(* message is not taken for a repeat of the last turn.  And the Police never   *)
(* learns of a capture that is not one.                                        *)
OutcomesAgree ==
  /\ wire = <<>> /\ pc \in {"finish", "audit", "returned"} =>
       /\ response.caught => verdict = "capture"
       /\ step_number > incoming_step /\ result = "survival" => verdict = "survival"
  /\ verdict = "capture" => result \in {"capture", "tamper_forfeit_opponent"}

(* Only a turn the protocol forbids makes the handler raise: repeats and late  *)
(* deliveries of proper turns never end the game.                              *)
TurnErrorNeedsFault == error = "turn" => faulty

(* A peer's restart ends the run only once both sides had opted in; otherwise  *)
(* only this peer's own button does.                                           *)
RestartNeedsConsent ==
  [][error' = "restart" /\ error # "restart" => "restart" \in controls \/ Active]_vars

(* A decided game is final: no turn is made or folded in after the verdict,    *)
(* and the verdict changes only by a forfeit at the audit.                     *)
VerdictIsFinal ==
  [][result # "none" =>
       /\ UNCHANGED <<position, barriers, step_number, records, history>>
       /\ \/ result' = result
          \/ /\ pc = "audit" /\ result \in {"capture", "survival"}
             /\ result' = "tamper_forfeit_opponent"]_vars

(* The run ends if the user does not leave it paused for good. *)
EndsUnlessPaused ==
  <>[]({"resume", "stop"} \cap controls # {} \/ pc \in Final) => <>(pc \in Final)

(* A stop ends the run even while it is paused. *)
StopEnds == "stop" \in controls ~> pc \in Final

(* The abstract sub-game. *)
Status == IF pc = "raised" THEN "aborted" ELSE IF result = "none" THEN "open" ELSE result

Promise == INSTANCE SubGame WITH
  mine <- step_number, theirs <- incoming_step, status <- Status

(* Every step of the runtime, however interleaved, is a step the abstract      *)
(* sub-game allows.                                                            *)
ImplementsSubGame == Promise!Spec

(* A clean quit ends the game with a summary, as peer/controls.py and          *)
(* peer/summary.py (_NO_FORFEIT_RESULTS) mean it to.                           *)
QuitIsClean == result \in {"quit", "opponent_quit"} => pc # "raised"
=============================================================================
