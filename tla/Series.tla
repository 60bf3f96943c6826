------------------------------- MODULE Series -------------------------------
(***************************************************************************)
(* A series of sub-games over one transport: run_series and _play_all      *)
(* (sdk/series.py).  The four inboxes and the ControlLink outlive the      *)
(* sub-games, each of which gets a fresh runtime and TurnHandler; a        *)
(* RestartSeries drains three of the inboxes and plays again from the      *)
(* first sub-game.                                                         *)
(*                                                                         *)
(* A sub-game is coarse here: where it handshakes, makes a turn, waits for *)
(* one and exchanges audits.  ThiefGame has its detail: board, replays,    *)
(* pauses and the steps of a pump.  Every Police message carries the pass  *)
(* and the sub-game the Police was in when it sent it; the code compares   *)
(* neither, so no guard below looks at them.                               *)
(*                                                                         *)
(* A call that failed after its message was delivered is made again, on    *)
(* either side (mcp_client.py 60-74).  The second copy of a turn is known  *)
(* for one by its message_id (Mailbox), which the Police's client sends    *)
(* (mcp_server.py 60-67) as the Thief's does, or by its commit where it    *)
(* has none, as the terminal message (step_records.py 107-110): turns come *)
(* once here.  Agreements and audits bear nothing of the kind and lie in   *)
(* the inbox twice (mcp_server.py 102-105, 118-121).  A copy is taken to   *)
(* arrive before its sender goes on, which awaits the end of its call.     *)
(***************************************************************************)
EXTENDS Integers, Sequences

CONSTANTS
  NumGames,            \* game.num_games
  SurvivalThreshold,   \* rules.survival_threshold
  MaxRestarts,         \* MAX_RESTARTS
  Courses              \* bounds: what else may happen in a series, see course

ASSUME SizeAssumption == NumGames \in 1 .. 6 /\ SurvivalThreshold \in Nat \ {0}
ASSUME RestartAssumption == MaxRestarts \in Nat

Buttons == {"stop", "restart", "enable"}
Signals == {"enable", "restart", "quit"}

(* A course: which buttons the user presses, as often as he likes, which       *)
(* control messages the Police sends of its own and at most how many, and at   *)
(* most how many messages arrive twice.                                        *)
ASSUME CourseAssumption ==
  Courses \subseteq
    [buttons : SUBSET Buttons, signals : SUBSET Signals, signalled : Nat, resent : Nat]

VARIABLES
  course,          \* the one of Courses this series takes, which never changes
  stage,           \* where the runtime of the current sub-game stands
  ending,          \* how run_series ended: "none", "returned" or "raised"
  attempt,         \* restarts so far, which also names the pass
  game,            \* sub_game_number
  step,            \* OwnGameState.step_number
  incoming_step,   \* TurnHandler.incoming_step
  result,          \* ThiefRuntime._result
  used,            \* history: <<kind, tag>> of what this sub-game consumed
  summaries,       \* of each sub-game of this pass: [tag, lost, own]
  controls,        \* the GameControls events that are set
  link,            \* the ControlLink flags that are set
  agreements, turns, audits, signals,   \* PeerInboxes
  police,          \* where the Police stands: [stage, attempt, game, turns it made]
  mail,            \* what the Police has been sent: [agreements, turns, signals]
  signalled,       \* control messages the Police has sent on its own
  resent,          \* history: how often a message of a kind was delivered once more
  gave_up          \* history: a wait of either side has timed out

runVars == <<stage, ending, attempt, game, step, incoming_step, result, used, summaries>>
inboxes == <<agreements, turns, audits, signals>>
policeVars == <<police, signalled, resent>>
vars == <<course, runVars, controls, link, inboxes, policeVars, mail, gave_up>>

-----------------------------------------------------------------------------
Tag(who) == [attempt |-> who.attempt, game |-> who.game]
Here == [attempt |-> attempt, game |-> game]

EmptyMail == [agreements |-> <<>>, turns |-> <<>>, signals |-> <<>>]

(* A Thief message as the Police reads it: over when it tells the end of the   *)
(* game, as a win claim or a confirmed capture claim does.                     *)
Sent(over) == [tag |-> Here, over |-> over]

(* What may lie in an inbox twice: an agreement or an audit of the Police, and *)
(* of the Thief its agreement (its greeting) or the announcement of a restart. *)
Repeatable == {"agreement", "audit", "greeting", "restart"}

Resend(kind) ==
  /\ resent["agreement"] + resent["audit"] + resent["greeting"] + resent["restart"]
       < course.resent
  /\ resent' = [resent EXCEPT ![kind] = @ + 1]

Active == {"i_enabled", "peer_enabled"} \subseteq link

Init ==
  /\ course \in Courses
  /\ stage = "greet" /\ ending = "none" /\ attempt = 0 /\ game = 1
  /\ step = 0 /\ incoming_step = 0 /\ result = "none" /\ used = {} /\ summaries = <<>>
  /\ controls = {} /\ link = {}
  /\ agreements = <<>> /\ turns = <<>> /\ audits = <<>> /\ signals = <<>>
  /\ police = [stage |-> "greet", attempt |-> 0, game |-> 1, made |-> 0]
  /\ mail = EmptyMail /\ signalled = 0 /\ gave_up = FALSE
  /\ resent = [kind \in Repeatable |-> 0]

-----------------------------------------------------------------------------
(* ThiefRuntime.__init__: every sub-game starts afresh. *)
NewRuntime ==
  stage' = "greet" /\ step' = 0 /\ incoming_step' = 0 /\ result' = "none" /\ used' = {}

(* An exception other than RestartSeries leaves run_series with no result. *)
Raise ==
  /\ ending' = "raised" /\ stage' = "over"
  /\ UNCHANGED <<attempt, game, step, incoming_step, result, used, summaries>>

Goto(next) ==
  /\ stage' = next
  /\ UNCHANGED <<ending, attempt, game, step, incoming_step, result, used, summaries>>

Lose(outcome) ==
  /\ result' = outcome /\ stage' = "reveal"
  /\ UNCHANGED <<ending, attempt, game, step, incoming_step, used, summaries>>

(* runtime_control.check, once the pump is done, lets a turn be made. *)
MayMove ==
  /\ stage = "check" /\ "restart" \notin controls
  /\ {"pending_restart", "opponent_quit"} \cap link = {}

(* A send that gives up raises ConnectionError out of the series. *)
SendFails ==
  /\ stage \in {"greet", "reveal"} \/ MayMove
  /\ Raise
  /\ UNCHANGED <<course, controls, link, inboxes, policeVars, mail, gave_up>>

SendAgreement ==
  /\ stage = "greet"
  /\ mail' = [mail EXCEPT !.agreements = Append(@, Here)]
  /\ \/ Goto("await_agreement") /\ UNCHANGED resent
     \/ Resend("greeting") /\ UNCHANGED runVars
  /\ UNCHANGED <<course, controls, link, inboxes, police, signalled, gave_up>>

ReceiveAgreement ==
  /\ stage = "await_agreement" /\ agreements # <<>>
  /\ agreements' = Tail(agreements)
  /\ used' = used \cup {<<"agreement", Head(agreements)>>}
  /\ stage' = "turn"
  /\ UNCHANGED <<course, ending, attempt, game, step, incoming_step, result, summaries, controls,
                 link, turns, audits, signals, policeVars, mail, gave_up>>

(* A faulty variant: the handshake waits without a timeout. *)
WaitForAgreement == stage = "await_agreement" /\ agreements = <<>> /\ UNCHANGED vars

AgreementTimeout ==
  /\ stage = "await_agreement" /\ agreements = <<>>
  /\ Raise
  /\ gave_up' = TRUE
  /\ UNCHANGED <<course, controls, link, inboxes, policeVars, mail>>

(* The pump before a turn: the user may have opted in since the last one, and  *)
(* each waiting control message is handled.  One that comes after the pump     *)
(* waits for the next.                                                         *)
OptIn ==
  /\ stage = "turn" /\ "enable" \in course.buttons /\ "i_enabled" \notin link
  /\ link' = link \cup {"i_enabled"}
  /\ UNCHANGED <<course, runVars, controls, inboxes, policeVars, mail, gave_up>>

DrainSignal ==
  /\ stage = "turn" /\ signals # <<>>
  /\ link' = link \cup
       CASE Head(signals) = "enable"             -> {"peer_enabled"}
         [] Head(signals) = "quit"               -> {"opponent_quit"}
         [] Head(signals) = "restart" /\ Active  -> {"pending_restart"}
         [] OTHER                                -> {}
  /\ signals' = Tail(signals)
  /\ UNCHANGED <<course, runVars, controls, agreements, turns, audits, policeVars, mail, gave_up>>

EndPump ==
  /\ stage = "turn" /\ signals = <<>> /\ "stop" \notin controls
  /\ Goto("check")
  /\ UNCHANGED <<course, controls, link, inboxes, policeVars, mail, gave_up>>

(* A stop is honoured at the top of a turn and of the receive loop.  Nothing   *)
(* ever clears it.                                                             *)
Stop ==
  /\ stage \in {"turn", "loop"} /\ "stop" \in controls
  /\ Lose("technical_loss")
  /\ UNCHANGED <<course, controls, link, inboxes, policeVars, mail, gave_up>>

PassLoop ==
  /\ stage = "loop" /\ "stop" \notin controls
  /\ Goto("poll")
  /\ UNCHANGED <<course, controls, link, inboxes, policeVars, mail, gave_up>>

OpponentQuit ==
  /\ stage = "check" /\ "opponent_quit" \in link
  /\ Lose("opponent_quit")
  /\ UNCHANGED <<course, controls, link, inboxes, policeVars, mail, gave_up>>

(* A faulty variant: the summaries of the abandoned pass are kept. *)
KeptSummaries == summaries

FreshSummaries == <<>>

(* A faulty variant: the backstop never bites. *)
Forgiving == FALSE

TooManyRestarts == attempt + 1 > MaxRestarts

(* Its send is best-effort: the announcement of a restart may not arrive.      *)
Announce ==
  \/ mail' = [mail EXCEPT !.signals = Append(@, "restart")] /\ UNCHANGED resent
  \/ mail' = [mail EXCEPT !.signals = @ \o <<"restart", "restart">>] /\ Resend("restart")
  \/ UNCHANGED <<mail, resent>>

(* A restart of mine is announced and comes before one of the Police; either   *)
(* drains turns, audits and controls, but not the agreements, and keeps the    *)
(* link as it is.  One restart too many is re-raised.                          *)
Restart ==
  /\ stage = "check" /\ "opponent_quit" \notin link
  /\ \/ /\ "restart" \in controls
        /\ controls' = controls \ {"restart"}
        /\ Announce
        /\ UNCHANGED link
     \/ /\ "restart" \notin controls /\ "pending_restart" \in link
        /\ link' = link \ {"pending_restart"}
        /\ UNCHANGED <<controls, mail, resent>>
  /\ attempt' = attempt + 1
  /\ turns' = <<>> /\ audits' = <<>> /\ signals' = <<>>
  /\ IF TooManyRestarts
       THEN /\ ending' = "raised" /\ stage' = "over"
            /\ UNCHANGED <<game, step, incoming_step, result, used, summaries>>
       ELSE /\ game' = 1 /\ summaries' = FreshSummaries /\ NewRuntime
            /\ UNCHANGED ending
  /\ UNCHANGED <<course, agreements, police, signalled, gave_up>>

Survived == step + 1 >= SurvivalThreshold

TakeTurn ==
  /\ MayMove
  /\ step' = step + 1
  /\ mail' = [mail EXCEPT !.turns = Append(@, Sent(Survived))]
  /\ IF Survived THEN result' = "survival" /\ stage' = "reveal"
                 ELSE stage' = "loop" /\ UNCHANGED result
  /\ UNCHANGED <<course, ending, attempt, game, incoming_step, used, summaries, controls, link,
                 inboxes, policeVars, gave_up>>

(* The handler knows the step of a turn and not the sub-game it belongs to.    *)
(* A capture is followed by a terminal message, which confirms a claim and     *)
(* says nothing of a barrier.                                                  *)
ReceiveTurn ==
  LET turn == Head(turns) IN
  /\ stage = "poll" /\ turns # <<>> /\ turn.step = incoming_step + 1
  /\ turns' = Tail(turns)
  /\ incoming_step' = turn.step
  /\ used' = used \cup {<<"turn", turn.tag>>}
  /\ result' = IF turn.ends \in {"claim", "barrier"} THEN "capture" ELSE turn.ends
  /\ stage' = IF turn.ends = "none" THEN "turn" ELSE "reveal"
  /\ mail' = IF result' # "capture" THEN mail
             ELSE [mail EXCEPT !.turns = Append(@, Sent(turn.ends = "claim"))]
  /\ UNCHANGED <<course, ending, attempt, game, step, summaries, controls, link, agreements, audits,
                 signals, policeVars, gave_up>>

ReceiveOutOfOrder ==
  /\ stage = "poll" /\ turns # <<>> /\ Head(turns).step # incoming_step + 1
  /\ turns' = Tail(turns)
  /\ Raise
  /\ UNCHANGED <<course, controls, link, agreements, audits, signals, policeVars, mail, gave_up>>

PollTimeout ==
  /\ stage = "poll" /\ turns = <<>>
  /\ Lose("timeout")
  /\ gave_up' = TRUE
  /\ UNCHANGED <<course, controls, link, inboxes, policeVars, mail>>

(* AuditPayload refuses the result of a quit before anything is sent. *)
SendAudit ==
  /\ stage = "reveal"
  /\ IF result = "opponent_quit" THEN Raise ELSE Goto("await_audit")
  /\ UNCHANGED <<course, controls, link, inboxes, policeVars, mail, gave_up>>

(* How many sub-games too old an agreement or an audit may be: each copy puts  *)
(* the ones after it off by one.  A turn may be none.                          *)
Late(kind) == IF kind = "turn" THEN 0 ELSE resent[kind]

Own(consumed, tag) ==
  \A u \in consumed : /\ u[2].attempt = tag.attempt
                      /\ u[2].game \in tag.game - Late(u[1]) .. tag.game

(* The sub-game's summary is kept, and the next sub-game or the end follows.   *)
(* Of the summary: whether it is a technical loss, and (a history) whether the *)
(* sub-game consumed its own messages, but for copies.                         *)
EndGame(consumed) ==
  /\ summaries' = Append(summaries, [tag |-> Here, lost |-> result = "technical_loss",
                                      own |-> Own(consumed, Here)])
  /\ IF game < NumGames
       THEN game' = game + 1 /\ NewRuntime /\ UNCHANGED ending
       ELSE ending' = "returned" /\ stage' = "over"
            /\ UNCHANGED <<game, step, incoming_step, result, used>>
  /\ UNCHANGED attempt

(* A faulty variant: the audit of the Police is looked at and left in the inbox. *)
PeekAudit ==
  /\ stage = "await_audit" /\ audits # <<>>
  /\ EndGame(used \cup {<<"audit", Head(audits)>>})
  /\ UNCHANGED <<course, controls, link, inboxes, policeVars, mail, gave_up>>

ReceiveAudit ==
  /\ stage = "await_audit" /\ audits # <<>>
  /\ audits' = Tail(audits)
  /\ EndGame(used \cup {<<"audit", Head(audits)>>})
  /\ UNCHANGED <<course, controls, link, agreements, turns, signals, policeVars, mail, gave_up>>

AuditTimeout ==
  /\ stage = "await_audit" /\ audits = <<>>
  /\ EndGame(used)
  /\ gave_up' = TRUE
  /\ UNCHANGED <<course, controls, link, inboxes, policeVars, mail>>

Thief ==
  \/ SendFails \/ SendAgreement \/ ReceiveAgreement \/ AgreementTimeout \/ OptIn \/ DrainSignal
  \/ EndPump \/ Stop \/ PassLoop \/ OpponentQuit \/ Restart \/ TakeTurn \/ ReceiveTurn
  \/ ReceiveOutOfOrder \/ PollTimeout \/ SendAudit \/ ReceiveAudit \/ AuditTimeout

(* The GUI thread. *)
Press ==
  /\ ending = "none"
  /\ \E button \in course.buttons \ {"enable"} : controls' = controls \cup {button}
  /\ UNCHANGED <<course, runVars, link, inboxes, policeVars, mail, gave_up>>

-----------------------------------------------------------------------------
(* The Police peer, as series.py relies on it: it plays the same sub-games in  *)
(* the same order, answers each turn once, sends its audit when its game is    *)
(* over, and drains its own inboxes when it restarts.  It may be slow.         *)
Endings == {"none", "claim", "barrier", "survival"}

PoliceGoesTo(next) == police' = [police EXCEPT !.stage = next]

PoliceRejoins ==
  /\ police' = [stage |-> "greet", attempt |-> police.attempt + 1, game |-> 1, made |-> 0]
  /\ mail' = [EmptyMail EXCEPT !.agreements = mail.agreements]

PoliceGreets ==
  /\ police.stage = "greet"
  /\ agreements' = Append(agreements, Tag(police))
  /\ \/ PoliceGoesTo("meet") /\ UNCHANGED resent
     \/ Resend("agreement") /\ UNCHANGED police
  /\ UNCHANGED <<course, runVars, controls, link, turns, audits, signals, signalled, mail,
                 gave_up>>

PoliceMeets ==
  /\ police.stage = "meet" /\ mail.agreements # <<>>
  /\ mail' = [mail EXCEPT !.agreements = Tail(@)]
  /\ PoliceGoesTo("wait")
  /\ UNCHANGED <<course, runVars, controls, link, inboxes, signalled, resent, gave_up>>

(* It ignores a turn of another pass or sub-game. *)
PoliceHears ==
  LET turn == Head(mail.turns) IN
  /\ police.stage = "wait" /\ mail.turns # <<>>
  /\ mail' = [mail EXCEPT !.turns = Tail(@)]
  /\ police' = IF turn.tag # Tag(police) THEN police
               ELSE [police EXCEPT !.stage = IF turn.over THEN "reveal" ELSE "think"]
  /\ UNCHANGED <<course, runVars, controls, link, inboxes, signalled, resent, gave_up>>

PoliceAnswers ==
  /\ police.stage = "think"
  /\ \E ends \in Endings :
       /\ turns' = Append(turns, [tag |-> Tag(police), step |-> police.made + 1, ends |-> ends])
       /\ police' = [police EXCEPT !.made = @ + 1,
                                   !.stage = IF ends = "survival" THEN "reveal" ELSE "wait"]
  /\ UNCHANGED <<course, runVars, controls, link, agreements, audits, signals, signalled, resent,
                 mail, gave_up>>

PoliceGivesUp ==
  /\ police.stage = "wait" /\ mail.turns = <<>>
  /\ PoliceGoesTo("reveal")
  /\ gave_up' = TRUE
  /\ UNCHANGED <<course, runVars, controls, link, inboxes, signalled, resent, mail>>

PoliceMovesOn ==
  police' = IF police.game < NumGames
              THEN [police EXCEPT !.stage = "greet", !.game = @ + 1, !.made = 0]
              ELSE [police EXCEPT !.stage = "done"]

(* Its audit may arrive twice, as its agreement may. *)
PoliceReveals ==
  /\ police.stage = "reveal"
  /\ audits' = Append(audits, Tag(police))
  /\ \/ PoliceMovesOn /\ UNCHANGED resent
     \/ Resend("audit") /\ UNCHANGED police
  /\ UNCHANGED <<course, runVars, controls, link, agreements, turns, signals, signalled, mail,
                 gave_up>>

(* It signals while a game is on; after a quit it is heard of no more.         *)
PoliceSignals ==
  /\ police.stage \in {"wait", "think"} /\ signalled < course.signalled
  /\ \E signal \in course.signals :
       /\ signals' = Append(signals, signal)
       /\ CASE signal = "enable"  -> UNCHANGED <<police, mail>>
            [] signal = "restart" -> PoliceRejoins
            [] signal = "quit"    -> PoliceGoesTo("done") /\ UNCHANGED mail
  /\ signalled' = signalled + 1
  /\ UNCHANGED <<course, runVars, controls, link, agreements, turns, audits, resent, gave_up>>

PoliceRestarts ==
  /\ police.stage # "done" /\ mail.signals # <<>>
  /\ PoliceRejoins
  /\ UNCHANGED <<course, runVars, controls, link, inboxes, signalled, resent, gave_up>>

Police ==
  /\ ending = "none"
  /\ \/ PoliceGreets \/ PoliceMeets \/ PoliceHears \/ PoliceAnswers \/ PoliceGivesUp
     \/ PoliceReveals \/ PoliceSignals \/ PoliceRestarts

(* The series is over. *)
Rest == ending # "none" /\ UNCHANGED vars

Next == Thief \/ Press \/ Police \/ Rest

Spec == Init /\ [][Next]_vars

(* Every wait of the runtime has a timeout, so it always comes to its next     *)
(* step; nothing is asked of the user or of the Police.                        *)
FairSpec == Spec /\ WF_vars(Thief)

-----------------------------------------------------------------------------
Tags == [attempt : Nat, game : 1 .. NumGames]
Results == {"none", "capture", "survival", "timeout", "technical_loss", "opponent_quit"}
Consumed == SUBSET ({"agreement", "turn", "audit"} \X Tags)

(* Every variable holds a value of its kind. *)
TypeOK ==
  /\ course \in Courses
  /\ stage \in {"greet", "await_agreement", "turn", "check", "loop", "poll", "reveal",
                "await_audit", "over"}
  /\ ending \in {"none", "returned", "raised"} /\ (ending = "none" <=> stage # "over")
  /\ attempt \in 0 .. MaxRestarts + 1 /\ game \in 1 .. NumGames
  /\ step \in 0 .. SurvivalThreshold /\ incoming_step \in 0 .. SurvivalThreshold
  /\ result \in Results /\ used \in Consumed
  /\ summaries \in Seq([tag : Tags, lost : BOOLEAN, own : BOOLEAN])
  /\ controls \subseteq {"stop", "restart"}
  /\ link \subseteq {"i_enabled", "peer_enabled", "pending_restart", "opponent_quit"}
  /\ agreements \in Seq(Tags) /\ audits \in Seq(Tags)
  /\ turns \in Seq([tag : Tags, step : Nat, ends : Endings])
  /\ signals \in Seq(Signals) /\ signalled \in Nat /\ gave_up \in BOOLEAN
  /\ resent \in [Repeatable -> Nat]
  /\ police.stage \in {"greet", "meet", "wait", "think", "reveal", "done"} /\ Tag(police) \in Tags
  /\ mail.agreements \in Seq(Tags) /\ mail.signals \in Seq({"restart"})
  /\ mail.turns \in Seq([tag : Tags, over : BOOLEAN])

(* A series that returns has one summary per sub-game, in order, all of the    *)
(* last pass: a restart leaves nothing of the passes before it.                *)
CompleteSeries ==
  /\ ending # "raised" =>
       \A i \in DOMAIN summaries : summaries[i].tag = [attempt |-> attempt, game |-> i]
  /\ ending = "none" => Len(summaries) = game - 1
  /\ ending = "returned" => Len(summaries) = NumGames

(* While nobody has given up waiting and nothing was restarted, a sub-game     *)
(* consumes no turn of another, and of the agreements and audits none of a     *)
(* later one, and an older one only as old as sends were repeated: its own, if *)
(* none was.  No message is checked for its sub-game; the order of the calls   *)
(* keeps the shared inboxes in step, and a repeat puts off one kind for good,  *)
(* but never the turns.                                                        *)
GamesDoNotMix ==
  ~gave_up /\ attempt = 0 /\ police.attempt = 0 =>
    /\ Own(used, Here)
    /\ \A i \in DOMAIN summaries : summaries[i].own

(* The series ends, however often a restart is asked for. *)
SeriesEnds == <>(ending # "none")

(* series.py, on the drain at a restart: stale messages of the aborted pass    *)
(* are cleared "so the restarted series never consumes them".                  *)
RestartIsFresh ==
  ending = "none" => \A u \in used : u[1] = "turn" => u[2].attempt >= attempt

(* The GUI says of a stop that it is "abandoning this sub-game": the later     *)
(* ones are not lost by it.                                                    *)
StopAbandonsOneGame ==
  \A i, j \in DOMAIN summaries :
    summaries[i].lost /\ summaries[j].lost => i = j
=============================================================================
