---------------------------- MODULE SeriesProofs ----------------------------
(***************************************************************************)
(* Theorems of Series, for any number of sub-games, any threshold, any     *)
(* number of restarts, and any controls, signals and repeats.              *)
(***************************************************************************)
EXTENDS Series, SequenceTheorems, TLAPS

PoliceStages == {"greet", "meet", "wait", "think", "reveal", "done"}
PoliceTurns == [tag : Tags, step : Nat, ends : Endings]
ThiefTurns == [tag : Tags, over : BOOLEAN]
Summaries == [tag : Tags, lost : BOOLEAN, own : BOOLEAN]
Polices == [stage : PoliceStages, attempt : Nat, game : 1 .. NumGames, made : Nat]
Mails == [agreements : Seq(Tags), turns : Seq(ThiefTurns), signals : Seq({"restart"})]

(* How the own steps and the ones of the Police follow each other: outside a   *)
(* turn they are level, and the threshold is not reached before the last turn. *)
Progress ==
  /\ 0 <= incoming_step /\ incoming_step <= step /\ step <= SurvivalThreshold
  /\ stage \in {"greet", "await_agreement", "turn", "check"} =>
       step = incoming_step /\ step < SurvivalThreshold
  /\ stage \in {"loop", "poll"} => step = incoming_step + 1 /\ step < SurvivalThreshold
  /\ ending = "none" => attempt <= MaxRestarts

RunTypes ==
  /\ stage \in {"greet", "await_agreement", "turn", "check", "loop", "poll", "reveal",
                "await_audit", "over"}
  /\ ending \in {"none", "returned", "raised"} /\ (ending = "none" <=> stage # "over")
  /\ attempt \in 0 .. MaxRestarts + 1 /\ game \in 1 .. NumGames
  /\ step \in Int /\ incoming_step \in Int /\ result \in Results /\ used \in Consumed
  /\ summaries \in Seq(Summaries)

ControlTypes ==
  /\ controls \subseteq {"stop", "restart"}
  /\ link \subseteq {"i_enabled", "peer_enabled", "pending_restart", "opponent_quit"}
  /\ course \in Courses

InboxTypes ==
  /\ agreements \in Seq(Tags) /\ audits \in Seq(Tags) /\ turns \in Seq(PoliceTurns)
  /\ signals \in Seq(Signals)

PeerTypes ==
  /\ police \in Polices /\ mail \in Mails
  /\ signalled \in Nat /\ gave_up \in BOOLEAN
  /\ resent \in [Repeatable -> Nat]

Types == RunTypes /\ Progress /\ ControlTypes /\ InboxTypes /\ PeerTypes

LEMMA TypesInit == Init => Types
<1> SUFFICES ASSUME Init PROVE Types
  OBVIOUS
<1>1. <<>> \in Seq(Tags) /\ <<>> \in Seq(PoliceTurns) /\ <<>> \in Seq(ThiefTurns)
      /\ <<>> \in Seq(Summaries) /\ <<>> \in Seq(Signals) /\ <<>> \in Seq({"restart"})
  BY EmptySeq
<1>2. NumGames \in 1 .. 6 /\ SurvivalThreshold \in Nat \ {0} /\ MaxRestarts \in Nat
  BY SizeAssumption, RestartAssumption
<1>3. RunTypes /\ Progress
  BY <1>1, <1>2 DEF Init, RunTypes, Progress, Results, Consumed
<1>4. ControlTypes /\ InboxTypes
  BY <1>1 DEF Init, ControlTypes, InboxTypes
<1>5. PeerTypes
  <2>1. /\ mail = [agreements |-> <<>>, turns |-> <<>>, signals |-> <<>>]
        /\ police = [stage |-> "greet", attempt |-> 0, game |-> 1, made |-> 0]
        /\ signalled = 0 /\ gave_up = FALSE /\ resent = [kind \in Repeatable |-> 0]
    BY DEF Init, EmptyMail
  <2>2. 1 \in 1 .. NumGames /\ 0 \in Nat /\ "greet" \in PoliceStages
    BY <1>2 DEF PoliceStages
  <2> QED BY <1>1, <2>1, <2>2 DEF PeerTypes, Polices, Mails
<1> QED BY <1>3, <1>4, <1>5 DEF Types

(* A course presses the buttons there are and sends the messages there are.    *)
LEMMA OfCourse ==
  ASSUME Types
  PROVE  course.buttons \subseteq Buttons /\ course.signals \subseteq Signals
BY CourseAssumption DEF Types, ControlTypes

LEMMA Positions ==
  ASSUME Types
  PROVE  /\ Here \in Tags /\ Tag(police) \in Tags
         /\ \A over \in BOOLEAN : Sent(over) \in ThiefTurns
<1>1. attempt \in Nat /\ game \in 1 .. NumGames
  BY RestartAssumption DEF Types, RunTypes
<1>2. police.attempt \in Nat /\ police.game \in 1 .. NumGames
  BY DEF Types, PeerTypes, Polices
<1> QED BY <1>1, <1>2 DEF Here, Tag, Tags, Sent, ThiefTurns

(* What else they may come to be. *)
LEMMA Changes ==
  ASSUME Types
  PROVE  /\ police.game \in 1 .. NumGames /\ police.attempt \in Nat /\ police.made \in Nat
         /\ \A s \in PoliceStages : [police EXCEPT !.stage = s] \in Polices
         /\ mail.agreements \in Seq(Tags) /\ mail.turns \in Seq(ThiefTurns)
         /\ mail.signals \in Seq({"restart"})
         /\ \A s \in Seq(Tags) : [mail EXCEPT !.agreements = s] \in Mails
         /\ \A s \in Seq(ThiefTurns) : [mail EXCEPT !.turns = s] \in Mails
         /\ \A s \in Seq({"restart"}) : [mail EXCEPT !.signals = s] \in Mails
BY DEF Types, PeerTypes, Polices, Mails

(* A repeat counts for its own kind. *)
LEMMA Repeats ==
  ASSUME resent \in [Repeatable -> Nat], NEW kind \in Repeatable, Resend(kind)
  PROVE  /\ resent' \in [Repeatable -> Nat] /\ resent'[kind] = resent[kind] + 1
         /\ \A other \in Repeatable : other # kind => resent'[other] = resent[other]
BY DEF Resend

(* Steps of the Thief up to its turn. *)
LEMMA TurnTypes ==
  ASSUME Types
  PROVE  /\ SendFails => Types'
         /\ SendAgreement => Types'
         /\ ReceiveAgreement => Types'
         /\ AgreementTimeout => Types'
         /\ OptIn => Types'
         /\ DrainSignal => Types'
         /\ EndPump => Types'
         /\ Stop => Types'
         /\ PassLoop => Types'
         /\ OpponentQuit => Types'
<1>. USE DEF Types
<1>1. SendFails => Types'
  BY DEF SendFails, Raise, RunTypes, Progress, ControlTypes, InboxTypes, PeerTypes, MayMove,
         inboxes, policeVars
<1>2. SendAgreement => Types'
  <2> SUFFICES ASSUME SendAgreement PROVE Types'
    OBVIOUS
  <2>1. Append(mail.agreements, Here) \in Seq(Tags)
    BY Positions, Changes
  <2>2. resent' \in [Repeatable -> Nat]
    BY Repeats DEF SendAgreement, PeerTypes, Repeatable
  <2>3. PeerTypes'
    BY <2>1, <2>2, Changes DEF SendAgreement, PeerTypes
  <2>4. /\ \/ Goto("await_agreement") /\ stage = "greet"
           \/ UNCHANGED runVars
        /\ UNCHANGED <<course, controls, link, inboxes>>
    BY DEF SendAgreement
  <2> QED
    BY <2>3, <2>4 DEF Goto, RunTypes, Progress, ControlTypes, InboxTypes, inboxes, runVars
<1>3. ReceiveAgreement => Types'
  BY DEF ReceiveAgreement, RunTypes, Progress, ControlTypes, InboxTypes, PeerTypes,
         policeVars, Consumed
<1>4. AgreementTimeout => Types'
  BY DEF AgreementTimeout, Raise, RunTypes, Progress, ControlTypes, InboxTypes, PeerTypes,
         inboxes, policeVars
<1>5. OptIn => Types'
  BY DEF OptIn, RunTypes, Progress, ControlTypes, InboxTypes, PeerTypes,
         inboxes, policeVars, runVars
<1>6. DrainSignal => Types'
  BY DEF DrainSignal, RunTypes, Progress, ControlTypes, InboxTypes, PeerTypes,
         policeVars, runVars
<1>7. EndPump => Types'
  BY DEF EndPump, Goto, RunTypes, Progress, ControlTypes, InboxTypes, PeerTypes,
         inboxes, policeVars
<1>8. Stop => Types'
  BY DEF Stop, Lose, RunTypes, Progress, ControlTypes, InboxTypes, PeerTypes, Results,
         inboxes, policeVars
<1>9. PassLoop => Types'
  BY DEF PassLoop, Goto, RunTypes, Progress, ControlTypes, InboxTypes, PeerTypes,
         inboxes, policeVars
<1>10. OpponentQuit => Types'
  BY DEF OpponentQuit, Lose, RunTypes, Progress, ControlTypes, InboxTypes, PeerTypes, Results,
         inboxes, policeVars
<1> QED BY <1>1, <1>2, <1>3, <1>4, <1>5, <1>6, <1>7, <1>8, <1>9, <1>10

(* Its turns, and a restart. *)
LEMMA LoopTypes ==
  ASSUME Types
  PROVE  /\ Restart => Types'
         /\ TakeTurn => Types'
         /\ ReceiveTurn => Types'
         /\ ReceiveOutOfOrder => Types'
         /\ PollTimeout => Types'
<1>. USE DEF Types
<1>1. Restart => Types'
  <2> SUFFICES ASSUME Restart PROVE Types'
    OBVIOUS
  <2>0. <<>> \in Seq(Tags) /\ <<>> \in Seq(PoliceTurns) /\ <<>> \in Seq(Signals)
        /\ <<>> \in Seq(Summaries)
    BY EmptySeq
  <2>1. InboxTypes'
    BY <2>0 DEF Restart, InboxTypes
  <2>2. /\ Append(mail.signals, "restart") \in Seq({"restart"})
        /\ mail.signals \o <<"restart", "restart">> \in Seq({"restart"})
    BY Changes
  <2>3. PeerTypes'
    <3>1. UNCHANGED <<mail, resent>> \/ Announce
      BY DEF Restart
    <3>2. mail' \in Mails /\ resent' \in [Repeatable -> Nat]
      BY <2>2, <3>1, Changes, Repeats DEF Announce, PeerTypes, Repeatable
    <3> QED BY <3>2 DEF Restart, PeerTypes
  <2>4. ControlTypes'
    BY DEF Restart, ControlTypes
  <2>5. attempt' = attempt + 1 /\ attempt \in 0 .. MaxRestarts /\ MaxRestarts \in Nat
    BY RestartAssumption DEF Restart, RunTypes, Progress
  <2>6. 1 \in 1 .. NumGames /\ SurvivalThreshold \in Nat \ {0}
    BY SizeAssumption
  <2>7. RunTypes' /\ Progress'
    <3>1. CASE TooManyRestarts
      BY <2>5, <3>1 DEF Restart, RunTypes, Progress
    <3>2. CASE ~TooManyRestarts
      <4>1. /\ stage' = "greet" /\ step' = 0 /\ incoming_step' = 0 /\ result' = "none"
            /\ used' = {} /\ summaries' = <<>> /\ game' = 1 /\ ending' = ending
        BY <3>2 DEF Restart, NewRuntime, FreshSummaries
      <4>2. attempt' \in 0 .. MaxRestarts /\ stage # "over"
        BY <2>5, <3>2 DEF TooManyRestarts, Restart
      <4> QED
        BY <2>0, <2>5, <2>6, <4>1, <4>2 DEF RunTypes, Progress, Results, Consumed
    <3> QED BY <3>1, <3>2
  <2> QED BY <2>1, <2>3, <2>4, <2>7
<1>2. TakeTurn => Types'
  <2> SUFFICES ASSUME TakeTurn PROVE Types'
    OBVIOUS
  <2>0. Survived \in BOOLEAN
    BY DEF Survived
  <2>1. Sent(Survived) \in ThiefTurns
    BY <2>0, Positions
  <2>2. Append(mail.turns, Sent(Survived)) \in Seq(ThiefTurns)
    BY <2>1, Changes
  <2>3. PeerTypes'
    BY <2>2, Changes DEF TakeTurn, PeerTypes, policeVars
  <2>4. RunTypes' /\ Progress'
    BY SizeAssumption DEF TakeTurn, MayMove, Survived, RunTypes, Progress, Results
  <2> QED BY <2>3, <2>4 DEF TakeTurn, ControlTypes, InboxTypes, inboxes
<1>3. ReceiveTurn => Types'
  <2> SUFFICES ASSUME ReceiveTurn PROVE Types'
    OBVIOUS
  <2> DEFINE turn == Head(turns)
  <2>1. turns \in Seq(PoliceTurns) /\ turns # <<>>
    BY DEF ReceiveTurn, InboxTypes
  <2>2. turn \in PoliceTurns /\ Tail(turns) \in Seq(PoliceTurns)
    BY <2>1, HeadTailProperties
  <2>3. /\ stage = "poll" /\ turn.step = incoming_step + 1 /\ incoming_step' = turn.step
        /\ used' = used \cup {<<"turn", turn.tag>>}
        /\ result' = IF turn.ends \in {"claim", "barrier"} THEN "capture" ELSE turn.ends
        /\ stage' = IF turn.ends = "none" THEN "turn" ELSE "reveal"
        /\ turns' = Tail(turns)
        /\ mail' = IF result' # "capture" THEN mail
                   ELSE [mail EXCEPT !.turns = Append(@, Sent(turn.ends = "claim"))]
        /\ UNCHANGED <<course, ending, attempt, game, step, summaries, controls, link, agreements,
                       audits, signals, policeVars, gave_up>>
    BY DEF ReceiveTurn
  <2>4. turn.tag \in Tags /\ turn.ends \in Endings
    BY <2>2 DEF PoliceTurns
  <2> HIDE DEF turn
  <2>5. Append(mail.turns, Sent(turn.ends = "claim")) \in Seq(ThiefTurns)
    <3>1. (turn.ends = "claim") \in BOOLEAN
      OBVIOUS
    <3>2. Sent(turn.ends = "claim") \in ThiefTurns
      BY <3>1, Positions
    <3> QED BY <3>2, Changes
  <2>6. PeerTypes'
    BY <2>3, <2>5, Changes DEF PeerTypes, policeVars
  <2>7. RunTypes' /\ Progress'
    BY <2>3, <2>4 DEF RunTypes, Progress, Results, Consumed, Endings
  <2> QED BY <2>2, <2>3, <2>6, <2>7 DEF ControlTypes, InboxTypes
<1>4. ReceiveOutOfOrder => Types'
  BY DEF ReceiveOutOfOrder, Raise, RunTypes, Progress, ControlTypes, InboxTypes, PeerTypes,
         policeVars
<1>5. PollTimeout => Types'
  BY DEF PollTimeout, Lose, RunTypes, Progress, ControlTypes, InboxTypes, PeerTypes, Results,
         inboxes, policeVars
<1> QED BY <1>1, <1>2, <1>3, <1>4, <1>5

(* The end of a sub-game, whatever it consumed. *)
LEMMA EndTypes ==
  ASSUME Types, stage # "over", NEW consumed, EndGame(consumed)
  PROVE  RunTypes' /\ Progress'
<1>1. /\ Here \in Tags /\ Own(consumed, Here) \in BOOLEAN
  BY Positions DEF Own
<1>2. [tag |-> Here, lost |-> result = "technical_loss", own |-> Own(consumed, Here)] \in Summaries
  BY <1>1 DEF Summaries
<1>3. summaries' \in Seq(Summaries)
  BY <1>2 DEF EndGame, Types, RunTypes
<1>4. NumGames \in 1 .. 6 /\ SurvivalThreshold \in Nat \ {0}
  BY SizeAssumption
<1>5. CASE game < NumGames
  <2>1. /\ stage' = "greet" /\ step' = 0 /\ incoming_step' = 0 /\ result' = "none"
        /\ used' = {} /\ game' = game + 1 /\ ending' = ending /\ attempt' = attempt
    BY <1>5 DEF EndGame, NewRuntime
  <2> QED BY <1>3, <1>4, <1>5, <2>1 DEF Types, RunTypes, Progress, Results, Consumed
<1>6. CASE ~(game < NumGames)
  <2>1. /\ ending' = "returned" /\ stage' = "over" /\ attempt' = attempt
        /\ UNCHANGED <<game, step, incoming_step, result, used>>
    BY <1>6 DEF EndGame
  <2> QED BY <1>3, <2>1 DEF Types, RunTypes, Progress
<1> QED BY <1>5, <1>6

(* Its audit, and the user. *)
LEMMA AuditTypes ==
  ASSUME Types
  PROVE  /\ SendAudit => Types'
         /\ ReceiveAudit => Types'
         /\ AuditTimeout => Types'
         /\ Press => Types'
<1>1. SendAudit => Types'
  BY DEF SendAudit, Raise, Goto, Types, RunTypes, Progress, ControlTypes, InboxTypes, PeerTypes,
         inboxes, policeVars
<1>2. ReceiveAudit => Types'
  <2> SUFFICES ASSUME ReceiveAudit PROVE Types'
    OBVIOUS
  <2>1. EndGame(used \cup {<<"audit", Head(audits)>>}) /\ stage # "over"
    BY DEF ReceiveAudit
  <2>2. RunTypes' /\ Progress'
    BY <2>1, EndTypes
  <2> QED BY <2>2 DEF ReceiveAudit, Types, ControlTypes, InboxTypes, PeerTypes, policeVars
<1>3. AuditTimeout => Types'
  <2> SUFFICES ASSUME AuditTimeout PROVE Types'
    OBVIOUS
  <2>1. EndGame(used) /\ stage # "over"
    BY DEF AuditTimeout
  <2>2. RunTypes' /\ Progress'
    BY <2>1, EndTypes
  <2> QED BY <2>2 DEF AuditTimeout, Types, ControlTypes, InboxTypes, PeerTypes, inboxes, policeVars
<1>4. Press => Types'
  BY OfCourse DEF Press, Buttons, Types, RunTypes, Progress, ControlTypes, InboxTypes, PeerTypes,
         runVars, inboxes, policeVars
<1> QED BY <1>1, <1>2, <1>3, <1>4

(* The Police. *)
LEMMA PoliceTypes ==
  ASSUME Types
  PROVE  /\ PoliceGreets => Types'
         /\ PoliceMeets => Types'
         /\ PoliceHears => Types'
         /\ PoliceAnswers => Types'
         /\ PoliceGivesUp => Types'
         /\ PoliceReveals => Types'
         /\ PoliceSignals => Types'
         /\ PoliceRestarts => Types'
<1>. USE DEF Types
<1>0. \A s \in PoliceStages : PoliceGoesTo(s) => police' \in Polices
  BY Changes DEF PoliceGoesTo
<1>1. PoliceGreets => Types'
  <2> SUFFICES ASSUME PoliceGreets PROVE Types'
    OBVIOUS
  <2>1. police' \in Polices /\ resent' \in [Repeatable -> Nat]
    BY <1>0, Repeats DEF PoliceGreets, PoliceStages, PeerTypes, Repeatable
  <2> QED
    BY <2>1, Positions DEF PoliceGreets, RunTypes, Progress, ControlTypes, InboxTypes, PeerTypes,
                           runVars
<1>2. PoliceMeets => Types'
  <2> SUFFICES ASSUME PoliceMeets PROVE Types'
    OBVIOUS
  <2>1. police' \in Polices
    BY <1>0 DEF PoliceMeets, PoliceStages
  <2>2. mail' \in Mails
    <3>1. mail.agreements # <<>> /\ mail.agreements \in Seq(Tags)
      BY Changes DEF PoliceMeets
    <3>2. Tail(mail.agreements) \in Seq(Tags)
      BY <3>1, HeadTailProperties
    <3> QED BY <3>2, Changes DEF PoliceMeets
  <2> QED
    BY <2>1, <2>2 DEF PoliceMeets, RunTypes, Progress, ControlTypes, InboxTypes, PeerTypes,
                      runVars, inboxes
<1>3. PoliceHears => Types'
  <2> SUFFICES ASSUME PoliceHears PROVE Types'
    OBVIOUS
  <2>1. police' \in Polices
    BY Changes DEF PoliceHears, PoliceStages, PeerTypes
  <2>2. mail' \in Mails
    <3>1. mail.turns # <<>> /\ mail.turns \in Seq(ThiefTurns)
      BY Changes DEF PoliceHears
    <3>2. Tail(mail.turns) \in Seq(ThiefTurns)
      BY <3>1, HeadTailProperties
    <3> QED BY <3>2, Changes DEF PoliceHears
  <2> QED
    BY <2>1, <2>2 DEF PoliceHears, RunTypes, Progress, ControlTypes, InboxTypes, PeerTypes,
                      runVars, inboxes
<1>4. PoliceAnswers => Types'
  <2> SUFFICES ASSUME PoliceAnswers PROVE Types'
    OBVIOUS
  <2>1. PICK ends \in Endings :
          /\ turns' = Append(turns, [tag |-> Tag(police), step |-> police.made + 1, ends |-> ends])
          /\ police' = [police EXCEPT !.made = @ + 1,
                                      !.stage = IF ends = "survival" THEN "reveal" ELSE "wait"]
    BY DEF PoliceAnswers
  <2>2. [tag |-> Tag(police), step |-> police.made + 1, ends |-> ends] \in PoliceTurns
    BY Positions, Changes DEF PoliceTurns
  <2>3. InboxTypes'
    BY <2>1, <2>2 DEF PoliceAnswers, InboxTypes
  <2>4. police' \in Polices
    <3>1. police \in Polices /\ police.made + 1 \in Nat
      BY Changes DEF PeerTypes
    <3> QED BY <2>1, <3>1 DEF Polices, PoliceStages
  <2> QED
    BY <2>3, <2>4 DEF PoliceAnswers, RunTypes, Progress, ControlTypes, PeerTypes, runVars
<1>5. PoliceGivesUp => Types'
  <2> SUFFICES ASSUME PoliceGivesUp PROVE Types'
    OBVIOUS
  <2>1. police' \in Polices
    BY <1>0 DEF PoliceGivesUp, PoliceStages
  <2> QED
    BY <2>1 DEF PoliceGivesUp, RunTypes, Progress, ControlTypes, InboxTypes, PeerTypes,
                runVars, inboxes
<1>6. PoliceReveals => Types'
  <2> SUFFICES ASSUME PoliceReveals PROVE Types'
    OBVIOUS
  <2>0. /\ PoliceMovesOn \/ UNCHANGED police
        /\ resent' \in [Repeatable -> Nat]
    BY Repeats DEF PoliceReveals, PeerTypes, Repeatable
  <2>1. PoliceMovesOn => police' \in Polices
    <3> SUFFICES ASSUME PoliceMovesOn PROVE police' \in Polices
      OBVIOUS
    <3>1. CASE police.game < NumGames
      <4>1. police' = [police EXCEPT !.stage = "greet", !.game = @ + 1, !.made = 0]
        BY <3>1 DEF PoliceMovesOn
      <4>2. police \in Polices /\ police.game + 1 \in 1 .. NumGames /\ 0 \in Nat
        BY <3>1, Changes, SizeAssumption DEF PeerTypes
      <4> QED BY <4>1, <4>2 DEF Polices, PoliceStages
    <3>2. CASE ~(police.game < NumGames)
      BY <3>2, Changes DEF PoliceMovesOn, PoliceStages
    <3> QED BY <3>1, <3>2
  <2> QED
    BY <2>0, <2>1, Positions DEF PoliceReveals, RunTypes, Progress, ControlTypes, InboxTypes,
                                 PeerTypes, runVars
<1>7. PoliceRejoins => police' \in Polices /\ mail' \in Mails
  <2> SUFFICES ASSUME PoliceRejoins PROVE police' \in Polices /\ mail' \in Mails
    OBVIOUS
  <2>1. <<>> \in Seq(ThiefTurns) /\ <<>> \in Seq({"restart"}) /\ <<>> \in Seq(Tags)
    BY EmptySeq
  <2>2. EmptyMail \in Mails
    BY <2>1 DEF EmptyMail, Mails
  <2>3. mail' \in Mails
    BY <2>2, Changes DEF PoliceRejoins, Mails
  <2>4. 1 \in 1 .. NumGames /\ police.attempt + 1 \in Nat /\ 0 \in Nat
    BY Changes, SizeAssumption
  <2>5. police' \in Polices
    BY <2>4 DEF PoliceRejoins, Polices, PoliceStages
  <2> QED BY <2>3, <2>5
<1>8. PoliceSignals => Types'
  <2> SUFFICES ASSUME PoliceSignals PROVE Types'
    OBVIOUS
  <2>1. PICK signal \in Signals :
          /\ signals' = Append(signals, signal)
          /\ CASE signal = "enable"  -> UNCHANGED <<police, mail>>
               [] signal = "restart" -> PoliceRejoins
               [] signal = "quit"    -> PoliceGoesTo("done") /\ UNCHANGED mail
    BY OfCourse DEF PoliceSignals
  <2>2. signal \in {"enable", "restart", "quit"}
    BY DEF Signals
  <2>3. InboxTypes'
    BY <2>1 DEF PoliceSignals, InboxTypes
  <2>4. police' \in Polices /\ mail' \in Mails
    BY <1>0, <1>7, <2>1, <2>2 DEF PeerTypes, PoliceStages
  <2> QED
    BY <2>3, <2>4 DEF PoliceSignals, RunTypes, Progress, ControlTypes, PeerTypes, runVars
<1>9. PoliceRestarts => Types'
  BY <1>7 DEF PoliceRestarts, RunTypes, Progress, ControlTypes, InboxTypes, PeerTypes,
         runVars, inboxes
<1> QED BY <1>1, <1>2, <1>3, <1>4, <1>5, <1>6, <1>8, <1>9

LEMMA TypesStep == Types /\ [Next]_vars => Types'
<1> SUFFICES ASSUME Types, [Next]_vars PROVE Types'
  OBVIOUS
<1>1. CASE Thief
  BY <1>1, TurnTypes, LoopTypes, AuditTypes DEF Thief
<1>2. CASE Press
  BY <1>2, AuditTypes
<1>3. CASE Police
  BY <1>3, PoliceTypes DEF Police
<1>4. CASE UNCHANGED vars
  BY <1>4 DEF vars, runVars, inboxes, policeVars, Types, RunTypes, Progress, ControlTypes,
              InboxTypes, PeerTypes
<1> QED BY <1>1, <1>2, <1>3, <1>4 DEF Next, Rest

LEMMA TypesHold == Spec => []Types
BY TypesInit, TypesStep, PTL DEF Spec

(***************************************************************************)
(* Every variable holds a value of its kind: neither side's steps pass the *)
(* threshold, though the handler never compares the two counts, and no     *)
(* more than one restart too many is counted.                              *)
(***************************************************************************)
THEOREM SeriesTypes == Spec => []TypeOK
<1>1. Types => TypeOK
  <2> SUFFICES ASSUME Types PROVE TypeOK
    OBVIOUS
  <2>1. /\ step \in 0 .. SurvivalThreshold /\ incoming_step \in 0 .. SurvivalThreshold
    BY SizeAssumption DEF Types, RunTypes, Progress
  <2>2. /\ police.stage \in PoliceStages
        /\ mail.agreements \in Seq(Tags) /\ mail.signals \in Seq({"restart"})
        /\ mail.turns \in Seq(ThiefTurns)
    BY Changes DEF Types, PeerTypes, Polices
  <2> QED
    BY <2>1, <2>2, Positions DEF Types, RunTypes, ControlTypes, InboxTypes, PeerTypes, TypeOK,
                                 Summaries, PoliceTurns, ThiefTurns, PoliceStages
<1> QED BY <1>1, TypesHold, PTL

-----------------------------------------------------------------------------
(* Sequences as the inboxes use them. *)
LEMMA Tailed ==
  ASSUME NEW T, NEW s \in Seq(T), s # <<>>
  PROVE  /\ Tail(s) \in Seq(T) /\ Len(s) \in Nat /\ Len(Tail(s)) = Len(s) - 1
         /\ 1 \in DOMAIN s /\ Head(s) = s[1] /\ s[1] \in T
         /\ \A i \in DOMAIN Tail(s) :
              i \in Nat /\ i >= 1 /\ i + 1 \in DOMAIN s /\ Tail(s)[i] = s[i + 1]
OBVIOUS

LEMMA Longer ==
  ASSUME NEW T, NEW s \in Seq(T), NEW e \in T
  PROVE  /\ Append(s, e) \in Seq(T) /\ Len(s) \in Nat /\ Len(Append(s, e)) = Len(s) + 1
         /\ \A i \in DOMAIN Append(s, e) :
              \/ i \in DOMAIN s /\ Append(s, e)[i] = s[i]
              \/ i = Len(s) + 1 /\ Append(s, e)[i] = e
         /\ \A i \in DOMAIN s :
              i \in 1 .. Len(s) /\ i \in DOMAIN Append(s, e) /\ Append(s, e)[i] = s[i]
OBVIOUS

-----------------------------------------------------------------------------
(* Of what sub-games the messages on the way are. *)
LEMMA Numbers ==
  ASSUME Types
  PROVE  /\ \A i \in DOMAIN agreements : i \in Nat /\ agreements[i].game \in Int
         /\ \A i \in DOMAIN audits : i \in Nat /\ audits[i].game \in Int
         /\ \A i \in DOMAIN turns : turns[i].tag.game \in Int
         /\ \A i \in DOMAIN mail.turns : mail.turns[i].tag.game \in Int
<1>1. \A tag \in Tags : tag.game \in Int
  BY SizeAssumption DEF Tags
<1>2. \A i \in DOMAIN agreements : i \in Nat /\ agreements[i] \in Tags
  BY DEF Types, InboxTypes
<1>3. \A i \in DOMAIN audits : i \in Nat /\ audits[i] \in Tags
  BY DEF Types, InboxTypes
<1>4. \A i \in DOMAIN turns : turns[i].tag \in Tags
  <2>1. \A i \in DOMAIN turns : turns[i] \in PoliceTurns
    BY DEF Types, InboxTypes
  <2> QED BY <2>1 DEF PoliceTurns
<1>5. \A i \in DOMAIN mail.turns : mail.turns[i].tag \in Tags
  <2>1. \A i \in DOMAIN mail.turns : mail.turns[i] \in ThiefTurns
    BY Changes
  <2> QED BY <2>1 DEF ThiefTurns
<1> QED BY <1>1, <1>2, <1>3, <1>4, <1>5

-----------------------------------------------------------------------------
(* Most steps leave the summaries alone. *)
LEMMA Untouched ==
  ASSUME CompleteSeries, UNCHANGED <<attempt, game, summaries>>,
         ending' = ending \/ ending' = "raised"
  PROVE  CompleteSeries'
BY DEF CompleteSeries

LEMMA EndComplete ==
  ASSUME Types, CompleteSeries, stage # "over", NEW consumed, EndGame(consumed)
  PROVE  CompleteSeries'
<1> DEFINE summary == [tag |-> Here, lost |-> result = "technical_loss",
                       own |-> Own(consumed, Here)]
<1>1. summary \in Summaries /\ summary.tag = [attempt |-> attempt, game |-> game]
  <2>1. Here \in Tags /\ Own(consumed, Here) \in BOOLEAN
    BY Positions DEF Own
  <2> QED BY <2>1 DEF Summaries, Here
<1>2. summaries' = Append(summaries, summary) /\ attempt' = attempt
  BY DEF EndGame
<1>3. summaries \in Seq(Summaries) /\ game \in 1 .. NumGames /\ NumGames \in Nat
  BY SizeAssumption DEF Types, RunTypes
<1>4. ending = "none" /\ Len(summaries) = game - 1
      /\ \A i \in DOMAIN summaries : summaries[i].tag = [attempt |-> attempt, game |-> i]
  BY DEF Types, RunTypes, CompleteSeries
<1> HIDE DEF summary
<1>5. \A i \in DOMAIN summaries' : summaries'[i].tag = [attempt |-> attempt', game |-> i]
  BY <1>1, <1>2, <1>3, <1>4, Longer
<1>6. Len(summaries') = game
  BY <1>1, <1>2, <1>3, <1>4, Longer
<1>7. CASE game < NumGames
  <2>1. game' = game + 1 /\ ending' = "none"
    BY <1>4, <1>7 DEF EndGame
  <2> QED BY <1>3, <1>5, <1>6, <2>1 DEF CompleteSeries
<1>8. CASE ~(game < NumGames)
  <2>1. game = NumGames /\ ending' = "returned"
    BY <1>3, <1>8 DEF EndGame
  <2> QED BY <1>5, <1>6, <2>1 DEF CompleteSeries
<1> QED BY <1>7, <1>8

LEMMA CompleteStep == Types /\ CompleteSeries /\ [Next]_vars => CompleteSeries'
<1> SUFFICES ASSUME Types, CompleteSeries, [Next]_vars PROVE CompleteSeries'
  OBVIOUS
<1>1. CASE SendFails \/ AgreementTimeout \/ ReceiveOutOfOrder
  BY <1>1, Untouched DEF SendFails, AgreementTimeout, ReceiveOutOfOrder, Raise
<1>2. CASE SendAgreement \/ ReceiveAgreement \/ EndPump \/ PassLoop \/ Stop \/ OpponentQuit
  BY <1>2, Untouched DEF SendAgreement, ReceiveAgreement, EndPump, PassLoop, Stop, OpponentQuit,
                         Goto, Lose, runVars
<1>3. CASE TakeTurn \/ ReceiveTurn \/ PollTimeout
  BY <1>3, Untouched DEF TakeTurn, ReceiveTurn, PollTimeout, Lose
<1>4. CASE SendAudit
  BY <1>4, Untouched DEF SendAudit, Goto, Raise
<1>5. CASE ReceiveAudit
  BY <1>5, EndComplete DEF ReceiveAudit
<1>6. CASE AuditTimeout
  BY <1>6, EndComplete DEF AuditTimeout
<1>7. CASE Restart
  <2>1. CASE TooManyRestarts
    BY <1>7, <2>1 DEF Restart, CompleteSeries
  <2>2. CASE ~TooManyRestarts
    <3>1. /\ game' = 1 /\ summaries' = <<>> /\ ending' = ending
      BY <1>7, <2>2 DEF Restart, FreshSummaries
    <3>2. ending = "none"
      BY <1>7 DEF Restart, Types, RunTypes
    <3>3. DOMAIN summaries' = {} /\ Len(summaries') = 0
      BY <3>1
    <3> QED BY <3>1, <3>2, <3>3 DEF CompleteSeries
  <2> QED BY <2>1, <2>2
<1>8. CASE OptIn \/ DrainSignal \/ Press
  BY <1>8, Untouched DEF OptIn, DrainSignal, Press, runVars
<1>9. CASE Police
  BY <1>9, Untouched DEF Police, PoliceGreets, PoliceMeets, PoliceHears, PoliceAnswers,
     PoliceGivesUp, PoliceReveals, PoliceSignals, PoliceRestarts, runVars
<1>10. CASE UNCHANGED vars
  BY <1>10, Untouched DEF vars, runVars
<1> QED
  BY <1>1, <1>2, <1>3, <1>4, <1>5, <1>6, <1>7, <1>8, <1>9, <1>10 DEF Next, Thief, Rest

(***************************************************************************)
(* A series that returns has one summary per sub-game, in order and all of *)
(* its last pass, wherever restarts came (run_series, _play_all).          *)
(***************************************************************************)
THEOREM SeriesIsComplete == Spec => []CompleteSeries
<1>1. Init => CompleteSeries
  BY DEF Init, CompleteSeries
<1> QED BY <1>1, TypesHold, CompleteStep, PTL DEF Spec

-----------------------------------------------------------------------------
(* Why the sub-games do not mix.  The two sides greet, play and reveal in the  *)
(* same order, so how many messages of a kind are on the way tells how far one *)
(* side is ahead of the other, and how many of them are copies.                *)
Clean == ending = "none" /\ ~gave_up /\ attempt = 0 /\ police.attempt = 0

Present == police.stage # "done"

(* How many sub-games the Thief has met the Police for, and the Police greeted *)
(* for.                                                                        *)
Met == IF stage \in {"greet", "await_agreement"} THEN game - 1 ELSE game
PoliceGreeted == IF police.stage = "greet" THEN police.game - 1 ELSE police.game

AgreementsInOrder ==
  /\ \A i \in DOMAIN agreements :
       /\ agreements[i].attempt = 0
       /\ agreements[i].game <= Met + i /\ Met + i <= agreements[i].game + resent["agreement"]
  /\ Present => /\ PoliceGreeted <= Met + Len(agreements)
                /\ Met + Len(agreements) <= PoliceGreeted + resent["agreement"]

AuditsInOrder ==
  /\ \A i \in DOMAIN audits :
       /\ audits[i].attempt = 0
       /\ audits[i].game < game + i /\ game + i <= audits[i].game + 1 + resent["audit"]
  /\ Present => /\ police.game <= game + Len(audits)
                /\ game + Len(audits) <= police.game + resent["audit"]

(* Of turns this is not so: some may be left when their sub-game is over.  But *)
(* none is of a sub-game that either side has not come to.                     *)
NoneAhead ==
  /\ \A i \in DOMAIN turns : /\ turns[i].tag.attempt = 0
                             /\ turns[i].tag.game <= game /\ turns[i].tag.game <= police.game
  /\ \A i \in DOMAIN mail.turns : mail.turns[i].tag.game <= game
  /\ police.stage = "think" => police.game <= game

(* The Police has no cause to answer in this sub-game, and has not done so.    *)
Quiet ==
  /\ \A i \in DOMAIN turns : turns[i].tag.game # game
  /\ \A i \in DOMAIN mail.turns : mail.turns[i].tag.game = game => mail.turns[i].over
  /\ police.stage = "think" => police.game # game

(* Before the first turn of the Thief, and if a sub-game is over without one   *)
(* of the Police, there is none to come, unless the user stopped it.           *)
QuietStart == step = 0 => Quiet

QuietEnd ==
  stage \in {"reveal", "await_audit"} =>
    \/ "stop" \in controls
    \/ result = "opponent_quit" /\ stage = "reveal"
    \/ incoming_step >= 1
    \/ Quiet

(* Of one sub-game at most the first turn in the inbox has the number one, and *)
(* none has once it was received.                                              *)
Numbered ==
  /\ \A i, j \in DOMAIN turns :
       i < j /\ turns[i].tag.game = turns[j].tag.game => turns[j].step >= 2
  /\ \A i \in DOMAIN turns : turns[i].tag.game = police.game => police.made >= 1
  /\ incoming_step >= 1 =>
       /\ \A i \in DOMAIN turns : turns[i].tag.game = game => turns[i].step >= 2
       /\ police.game >= game
       /\ police.game = game => police.made >= 1

(* So a turn left over from an earlier sub-game is never received in a later   *)
(* one: either a stop, which nothing clears, keeps the Thief from receiving    *)
(* any, or it comes first and has a number that is refused.                    *)
LeftOver == \E i \in DOMAIN turns : turns[i].tag.game < game

NeverReaches == {"greet", "await_agreement", "turn", "reveal", "await_audit"}

Halted == "stop" \in controls /\ stage \in NeverReaches

LeftOversRefused ==
  LeftOver => \/ Halted
              \/ turns[1].tag.game < game /\ turns[1].step >= 2 /\ incoming_step = 0

(* A copy of an audit may take the Thief on while the Police is still in the   *)
(* sub-game before; what it may answer there is not its first turn.            *)
AnsweredOnce(number) ==
  number < police.game \/ (number = police.game /\ police.made >= 1)

Outrun ==
  \/ Halted
  \/ /\ \A i \in DOMAIN mail.turns :
          mail.turns[i].tag.game < game /\ ~mail.turns[i].over =>
            AnsweredOnce(mail.turns[i].tag.game)
     /\ police.stage = "think" /\ police.game < game => police.made >= 1

Calls == AgreementsInOrder /\ AuditsInOrder
Turns ==
  /\ NoneAhead /\ QuietStart /\ QuietEnd /\ Numbered /\ LeftOversRefused
  /\ Present => Outrun

(* It is kept up only while nobody has given up waiting, nothing was restarted *)
(* and the series is on; the property itself outlives the series.              *)
InStep == (Clean => Calls /\ Turns) /\ GamesDoNotMix

LEMMA InStepInit == Init => InStep
<1> SUFFICES ASSUME Init PROVE InStep
  OBVIOUS
<1>1. /\ agreements = <<>> /\ audits = <<>> /\ turns = <<>> /\ summaries = <<>> /\ used = {}
      /\ mail.turns = <<>>
      /\ stage = "greet" /\ game = 1 /\ step = 0 /\ incoming_step = 0
      /\ police.stage = "greet" /\ police.game = 1
  BY DEF Init, EmptyMail
<1>2. Calls
  <2>1. DOMAIN agreements = {} /\ DOMAIN audits = {}
        /\ Len(agreements) = 0 /\ Len(audits) = 0
    BY <1>1
  <2>2. Met = 0 /\ PoliceGreeted = 0
    BY <1>1 DEF Met, PoliceGreeted
  <2>3. resent["agreement"] = 0 /\ resent["audit"] = 0
    BY DEF Init, Repeatable
  <2> QED BY <1>1, <2>1, <2>2, <2>3 DEF Calls, AgreementsInOrder, AuditsInOrder
<1>3. Turns
  BY <1>1 DEF Turns, NoneAhead, QuietStart, Quiet, QuietEnd, Numbered, LeftOversRefused, LeftOver,
              Outrun
<1>4. GamesDoNotMix
  BY <1>1 DEF GamesDoNotMix, Own
<1> QED BY <1>2, <1>3, <1>4 DEF InStep

(* The repeats of the Police are left alone by most steps. *)
NoRepeat == resent'["agreement"] = resent["agreement"] /\ resent'["audit"] = resent["audit"]

(* A step that changes none of what the invariant speaks of. *)
LEMMA NothingMoves ==
  ASSUME Calls, Turns, NoRepeat,
         UNCHANGED <<stage, game, step, incoming_step, result, agreements, audits, turns,
                     police>>,
         mail'.turns = mail.turns,
         "stop" \in controls => "stop" \in controls'
  PROVE  Calls' /\ Turns'
<1>1. Calls'
  BY DEF Calls, AgreementsInOrder, AuditsInOrder, Met, PoliceGreeted, Present, NoRepeat
<1>2. Halted => Halted'
  BY DEF Halted
<1>3. Turns'
  BY <1>2 DEF Turns, NoneAhead, QuietStart, Quiet, QuietEnd, Numbered, LeftOversRefused, LeftOver,
              Outrun, AnsweredOnce, Present
<1> QED BY <1>1, <1>3

(* A step of the Thief from one stage to another that is neither a meeting nor *)
(* the way out of a turn.                                                      *)
LEMMA StageMoves ==
  ASSUME Calls, Turns, NoRepeat, Met' = Met,
         UNCHANGED <<game, step, incoming_step, agreements, audits, turns, police, controls>>,
         mail'.turns = mail.turns,
         QuietEnd', Halted => Halted'
  PROVE  Calls' /\ Turns'
<1>1. Calls'
  BY DEF Calls, AgreementsInOrder, AuditsInOrder, PoliceGreeted, Present, NoRepeat
<1>2. Turns'
  BY DEF Turns, NoneAhead, QuietStart, Quiet, Numbered, LeftOversRefused, LeftOver,
         Outrun, AnsweredOnce, Present
<1> QED BY <1>1, <1>2

(* The handshake of the Thief. *)
LEMMA GreetingKeepsStep ==
  ASSUME Types, Calls, Turns, SendAgreement
  PROVE  Calls' /\ Turns'
<1>1. /\ stage = "greet" /\ stage' \in {"greet", "await_agreement"}
      /\ mail' = [mail EXCEPT !.agreements = Append(@, Here)]
      /\ UNCHANGED <<game, step, incoming_step, agreements, audits, turns, police, controls>>
      /\ UNCHANGED resent \/ Resend("greeting")
  BY DEF SendAgreement, Goto, inboxes, runVars
<1>2. mail'.turns = mail.turns
  BY <1>1 DEF Types, PeerTypes, Mails
<1>3. NoRepeat
  BY <1>1, Repeats DEF NoRepeat, Repeatable, Types, PeerTypes
<1>4. Met' = Met /\ QuietEnd' /\ (Halted => Halted')
  BY <1>1 DEF Met, QuietEnd, Halted, NeverReaches
<1> QED BY <1>1, <1>2, <1>3, <1>4, StageMoves

LEMMA MeetingKeepsStep ==
  ASSUME Types, Calls, Turns, ReceiveAgreement
  PROVE  /\ Calls' /\ Turns'
         /\ Head(agreements).attempt = 0
         /\ Head(agreements).game \in game - resent["agreement"] .. game
<1>1. /\ stage = "await_agreement" /\ stage' = "turn"
      /\ agreements # <<>> /\ agreements' = Tail(agreements)
      /\ UNCHANGED <<game, step, incoming_step, result, audits, turns, police, mail, controls,
                     resent>>
  BY DEF ReceiveAgreement, policeVars
<1>2. /\ Len(agreements') = Len(agreements) - 1 /\ Len(agreements) \in Nat
      /\ 1 \in DOMAIN agreements /\ Head(agreements) = agreements[1]
      /\ Head(agreements) \in Tags
      /\ \A i \in DOMAIN agreements' :
           i \in Nat /\ i + 1 \in DOMAIN agreements /\ agreements'[i] = agreements[i + 1]
  BY <1>1, Tailed DEF Types, InboxTypes
<1>3. game \in Int /\ Met = game - 1 /\ Met' = game
  BY <1>1 DEF Met, Types, RunTypes
<1>4. /\ PoliceGreeted' = PoliceGreeted /\ Present' = Present
      /\ PoliceGreeted \in Int /\ resent["agreement"] \in Nat
  BY <1>1, Changes DEF PoliceGreeted, Present, Types, PeerTypes, Repeatable
<1>5. \A i \in DOMAIN agreements :
        /\ agreements[i].attempt = 0
        /\ agreements[i].game <= Met + i /\ Met + i <= agreements[i].game + resent["agreement"]
  BY DEF Calls, AgreementsInOrder
<1>6. Head(agreements).attempt = 0
      /\ Head(agreements).game \in game - resent["agreement"] .. game
  BY <1>2, <1>3, <1>4, <1>5 DEF Tags
<1>7. AgreementsInOrder'
  <2>1. ASSUME NEW i \in DOMAIN agreements'
        PROVE  /\ agreements'[i].attempt = 0
               /\ agreements'[i].game <= Met' + i
               /\ Met' + i <= agreements'[i].game + resent["agreement"]
    <3>1. /\ agreements'[i] = agreements[i + 1] /\ i \in Nat
          /\ agreements[i + 1].attempt = 0
          /\ agreements[i + 1].game <= Met + (i + 1)
          /\ Met + (i + 1) <= agreements[i + 1].game + resent["agreement"]
      BY <1>2, <1>5
    <3>2. Met + (i + 1) = Met' + i
      BY <1>3, <3>1
    <3> QED BY <3>1, <3>2
  <2>2. Met' + Len(agreements') = Met + Len(agreements)
    BY <1>2, <1>3
  <2>3. Present' => /\ PoliceGreeted' <= Met' + Len(agreements')
                    /\ Met' + Len(agreements') <= PoliceGreeted' + resent["agreement"]
    BY <1>4, <2>2 DEF Calls, AgreementsInOrder
  <2> QED BY <1>1, <2>1, <2>3 DEF AgreementsInOrder
<1>8. AuditsInOrder'
  BY <1>1, <1>4 DEF Calls, AuditsInOrder
<1>9. QuietEnd' /\ (Halted => Halted')
  BY <1>1 DEF QuietEnd, Halted, NeverReaches
<1>10. Turns'
  BY <1>1, <1>9 DEF Turns, NoneAhead, QuietStart, Quiet, Numbered, LeftOversRefused, LeftOver,
                    Outrun, AnsweredOnce, Present
<1> QED BY <1>6, <1>7, <1>8, <1>10 DEF Calls

(* Steps that only lead from one stage of a turn to another. *)
LEMMA PacingKeepsStep ==
  ASSUME Types, Calls, Turns,
         \/ EndPump \/ PassLoop \/ Stop \/ OpponentQuit
         \/ SendAudit /\ ending' = "none"
  PROVE  Calls' /\ Turns'
<1> DEFINE Paced == /\ stage \notin {"greet", "await_agreement"}
                    /\ stage' \notin {"greet", "await_agreement"}
                    /\ UNCHANGED <<game, step, incoming_step, agreements, audits, turns, police,
                                   mail, controls, resent>>
<1>1. CASE EndPump
  <2>1. Paced /\ stage' = "check" /\ "stop" \notin controls
    BY <1>1 DEF EndPump, Goto, inboxes, policeVars
  <2>2. QuietEnd' /\ (Halted => Halted') /\ Met' = Met /\ NoRepeat
    BY <2>1 DEF QuietEnd, Halted, Met, NoRepeat
  <2> QED BY <2>1, <2>2, StageMoves
<1>2. CASE PassLoop
  <2>1. Paced /\ stage = "loop" /\ stage' = "poll"
    BY <1>2 DEF PassLoop, Goto, inboxes, policeVars
  <2>2. QuietEnd' /\ (Halted => Halted') /\ Met' = Met /\ NoRepeat
    BY <2>1 DEF QuietEnd, Halted, Met, NoRepeat, NeverReaches
  <2> QED BY <2>1, <2>2, StageMoves
<1>3. CASE Stop
  <2>1. Paced /\ stage' = "reveal" /\ "stop" \in controls
    BY <1>3 DEF Stop, Lose, inboxes, policeVars
  <2>2. QuietEnd' /\ (Halted => Halted') /\ Met' = Met /\ NoRepeat
    BY <2>1 DEF QuietEnd, Halted, Met, NoRepeat, NeverReaches
  <2> QED BY <2>1, <2>2, StageMoves
<1>4. CASE OpponentQuit
  <2>1. Paced /\ stage = "check" /\ stage' = "reveal" /\ result' = "opponent_quit"
    BY <1>4 DEF OpponentQuit, Lose, inboxes, policeVars
  <2>2. QuietEnd' /\ (Halted => Halted') /\ Met' = Met /\ NoRepeat
    BY <2>1 DEF QuietEnd, Halted, Met, NoRepeat, NeverReaches
  <2> QED BY <2>1, <2>2, StageMoves
<1>5. CASE SendAudit /\ ending' = "none"
  <2>1. /\ Paced /\ stage = "reveal" /\ result # "opponent_quit" /\ stage' = "await_audit"
        /\ result' = result
    BY <1>5 DEF SendAudit, Goto, Raise, inboxes, policeVars
  <2>2. QuietEnd'
    BY <2>1 DEF Turns, QuietEnd, Quiet
  <2>3. (Halted => Halted') /\ Met' = Met /\ NoRepeat
    BY <2>1 DEF Halted, Met, NoRepeat, NeverReaches
  <2> QED BY <2>1, <2>2, <2>3, StageMoves
<1> QED BY <1>1, <1>2, <1>3, <1>4, <1>5

(* A turn of the Thief: the last one tells the Police that it is over. *)
LEMMA TurnKeepsStep ==
  ASSUME Types, Calls, Turns, TakeTurn
  PROVE  Calls' /\ Turns'
<1>1. /\ stage = "check" /\ step' = step + 1 /\ stage' \in {"reveal", "loop"}
      /\ stage' = "reveal" => Survived
      /\ mail' = [mail EXCEPT !.turns = Append(@, Sent(Survived))]
      /\ UNCHANGED <<game, incoming_step, agreements, audits, turns, police, controls, resent>>
  BY DEF TakeTurn, MayMove, inboxes, policeVars
<1>2. mail.turns \in Seq(ThiefTurns) /\ Sent(Survived) \in ThiefTurns
  <2>1. Survived \in BOOLEAN
    BY DEF Survived
  <2> QED BY <2>1, Changes, Positions
<1>3. /\ mail'.turns = Append(mail.turns, Sent(Survived))
      /\ Sent(Survived).tag.game = game /\ Sent(Survived).over = Survived
  BY <1>1 DEF Types, PeerTypes, Mails, Sent, Here
<1>4. \A i \in DOMAIN mail'.turns :
        \/ i \in DOMAIN mail.turns /\ mail'.turns[i] = mail.turns[i]
        \/ mail'.turns[i] = Sent(Survived)
  BY <1>2, <1>3, Longer
<1>5. step \in Int /\ 0 <= step /\ step = incoming_step /\ game \in Int
  BY <1>1 DEF Types, RunTypes, Progress
<1>6. Calls'
  BY <1>1 DEF Calls, AgreementsInOrder, AuditsInOrder, Met, PoliceGreeted, Present
<1>7. NoneAhead'
  BY <1>1, <1>3, <1>4, <1>5 DEF Turns, NoneAhead
<1>8. QuietStart'
  BY <1>1, <1>5 DEF QuietStart
<1>9. QuietEnd'
  <2> SUFFICES ASSUME stage' = "reveal", ~(incoming_step >= 1) PROVE Quiet'
    BY <1>1 DEF QuietEnd
  <2>1. Quiet /\ Survived
    BY <1>1, <1>5 DEF Turns, QuietStart, Types, RunTypes
  <2> QED BY <1>1, <1>3, <1>4, <2>1 DEF Quiet
<1>10. ~Halted
  BY <1>1 DEF Halted, NeverReaches
<1>11. Numbered' /\ LeftOversRefused'
  BY <1>1, <1>10 DEF Turns, Numbered, LeftOversRefused, LeftOver
<1>12. Present' => Outrun'
  <2>1. \A i \in DOMAIN mail'.turns :
          mail'.turns[i].tag.game < game =>
            i \in DOMAIN mail.turns /\ mail'.turns[i] = mail.turns[i]
    BY <1>3, <1>4, <1>5
  <2> QED BY <1>1, <1>10, <2>1 DEF Turns, Outrun, AnsweredOnce, Present
<1> QED BY <1>6, <1>7, <1>8, <1>9, <1>11, <1>12 DEF Turns

(* A turn of the Police: it is one of this sub-game. *)
LEMMA ReceivingKeepsStep ==
  ASSUME Types, Calls, Turns, ReceiveTurn
  PROVE  /\ Calls' /\ Turns'
         /\ Head(turns).tag = [attempt |-> 0, game |-> game]
<1> DEFINE turn == Head(turns)
<1>1. /\ stage = "poll" /\ turns # <<>> /\ turn.step = incoming_step + 1
      /\ turns' = Tail(turns) /\ incoming_step' = turn.step /\ stage' \in {"turn", "reveal"}
      /\ mail' = IF result' # "capture" THEN mail
                 ELSE [mail EXCEPT !.turns = Append(@, Sent(turn.ends = "claim"))]
      /\ UNCHANGED <<game, step, agreements, audits, police, controls, resent>>
  BY DEF ReceiveTurn, policeVars
<1>2. turns \in Seq(PoliceTurns) /\ game \in Int /\ incoming_step \in Int /\ incoming_step >= 0
      /\ police.game \in Int
  BY Changes DEF Types, InboxTypes, RunTypes, Progress
<1>3. /\ 1 \in DOMAIN turns /\ turn = turns[1] /\ turns[1] \in PoliceTurns
      /\ \A i \in DOMAIN turns' :
           i \in Nat /\ i >= 1 /\ i + 1 \in DOMAIN turns /\ turns'[i] = turns[i + 1]
  BY <1>1, <1>2, Tailed
<1>4. \A i \in DOMAIN turns : turns[i] \in PoliceTurns
  BY <1>2
<1>5. turn.tag.game \in Int /\ turn.tag \in Tags
  BY <1>3 DEF PoliceTurns, Tags
<1> HIDE DEF turn
<1>6. ~Halted /\ ~(turns[1].step >= 2 /\ incoming_step = 0)
  BY <1>1, <1>2, <1>3 DEF Halted, NeverReaches
<1>7. ~LeftOver
  BY <1>6 DEF Turns, LeftOversRefused
<1>8. turn.tag.game = game /\ turn.tag.attempt = 0 /\ police.game >= game
  BY <1>2, <1>3, <1>5, <1>7 DEF LeftOver, Turns, NoneAhead
<1>9. turn.tag = [attempt |-> 0, game |-> game]
  BY <1>5, <1>8 DEF Tags
<1>10. \A i \in DOMAIN mail'.turns :
         \/ i \in DOMAIN mail.turns /\ mail'.turns[i] = mail.turns[i]
         \/ mail'.turns[i].tag.game = game
  <2>1. CASE result' # "capture"
    BY <1>1, <2>1
  <2>2. CASE result' = "capture"
    <3>1. /\ Sent(turn.ends = "claim") \in ThiefTurns /\ Sent(turn.ends = "claim").tag.game = game
      <4>1. (turn.ends = "claim") \in BOOLEAN
        OBVIOUS
      <4> QED BY <4>1, Positions DEF Sent, Here
    <3>2. mail'.turns = Append(mail.turns, Sent(turn.ends = "claim"))
      BY <1>1, <2>2 DEF Types, PeerTypes, Mails
    <3> QED BY <3>1, <3>2, Changes, Longer
  <2> QED BY <2>1, <2>2
<1>11. Calls'
  BY <1>1 DEF Calls, AgreementsInOrder, AuditsInOrder, Met, PoliceGreeted, Present
<1>12. NoneAhead'
  BY <1>1, <1>2, <1>3, <1>10 DEF Turns, NoneAhead
<1>13. QuietStart' /\ QuietEnd'
  BY <1>1, <1>2 DEF QuietStart, QuietEnd, Types, Progress
<1>14. Numbered'
  <2>1. \A i, j \in DOMAIN turns' :
          i < j /\ turns'[i].tag.game = turns'[j].tag.game => turns'[j].step >= 2
    <3> SUFFICES ASSUME NEW i \in DOMAIN turns', NEW j \in DOMAIN turns', i < j,
                        turns'[i].tag.game = turns'[j].tag.game
                 PROVE  turns'[j].step >= 2
      OBVIOUS
    <3>1. i + 1 \in DOMAIN turns /\ j + 1 \in DOMAIN turns /\ i + 1 < j + 1
          /\ turns'[i] = turns[i + 1] /\ turns'[j] = turns[j + 1]
      BY <1>3
    <3> QED BY <3>1 DEF Turns, Numbered
  <2>2. \A i \in DOMAIN turns' : turns'[i].tag.game = police'.game => police'.made >= 1
    BY <1>1, <1>3 DEF Turns, Numbered
  <2>3. \A i \in DOMAIN turns' : turns'[i].tag.game = game' => turns'[i].step >= 2
    <3> SUFFICES ASSUME NEW i \in DOMAIN turns', turns'[i].tag.game = game
                 PROVE  turns'[i].step >= 2
      BY <1>1
    <3>1. i + 1 \in DOMAIN turns /\ 1 < i + 1 /\ turns'[i] = turns[i + 1]
          /\ turns[1].tag.game = game
      BY <1>3, <1>8
    <3> QED BY <1>3, <3>1 DEF Turns, Numbered
  <2>4. police'.game = game' => police'.made >= 1
    BY <1>1, <1>3, <1>8 DEF Turns, Numbered
  <2> QED BY <1>1, <1>8, <2>1, <2>2, <2>3, <2>4 DEF Numbered
<1>15. LeftOversRefused'
  <2>1. ~LeftOver'
    BY <1>1, <1>3, <1>7 DEF LeftOver
  <2> QED BY <2>1 DEF LeftOversRefused
<1>16. Present' => Outrun'
  <2>1. \A i \in DOMAIN mail'.turns :
          mail'.turns[i].tag.game < game =>
            i \in DOMAIN mail.turns /\ mail'.turns[i] = mail.turns[i]
    BY <1>2, <1>10
  <2> QED BY <1>1, <1>6, <2>1 DEF Turns, Outrun, AnsweredOnce, Present
<1> QED BY <1>9, <1>11, <1>12, <1>13, <1>14, <1>15, <1>16 DEF Turns, turn

(* The audit of the Police, or a copy of an earlier one, and on to the next    *)
(* sub-game: what is left of the turns of this one cannot be received in the   *)
(* next.                                                                       *)
LEMMA AuditKeepsStep ==
  ASSUME Types, Calls, Turns, ReceiveAudit
  PROVE  /\ Head(audits).attempt = 0
         /\ Head(audits).game \in game - resent["audit"] .. game
         /\ ending' = "none" => Calls' /\ Turns'
<1>1. /\ stage = "await_audit" /\ audits # <<>> /\ audits' = Tail(audits)
      /\ EndGame(used \cup {<<"audit", Head(audits)>>})
      /\ UNCHANGED <<agreements, turns, police, mail, controls, resent>>
  BY DEF ReceiveAudit, policeVars
<1>2. /\ Len(audits') = Len(audits) - 1 /\ Len(audits) \in Nat
      /\ 1 \in DOMAIN audits /\ Head(audits) = audits[1] /\ Head(audits) \in Tags
      /\ \A i \in DOMAIN audits' :
           i \in Nat /\ i + 1 \in DOMAIN audits /\ audits'[i] = audits[i + 1]
  BY <1>1, Tailed DEF Types, InboxTypes
<1>3. /\ game \in Int /\ police.game \in Int /\ police.made \in Int
      /\ incoming_step \in Int /\ resent["audit"] \in Nat
  BY Changes DEF Types, RunTypes, PeerTypes, Repeatable
<1>4. \A i \in DOMAIN audits :
        /\ audits[i].attempt = 0
        /\ audits[i].game < game + i /\ game + i <= audits[i].game + 1 + resent["audit"]
  BY DEF Calls, AuditsInOrder
<1>5. Head(audits).attempt = 0 /\ Head(audits).game \in game - resent["audit"] .. game
  BY <1>2, <1>3, <1>4 DEF Tags
<1>6. SUFFICES ASSUME ending' = "none" PROVE Calls' /\ Turns'
  BY <1>5
<1>7. /\ game' = game + 1 /\ stage' = "greet" /\ step' = 0 /\ incoming_step' = 0
      /\ result' = "none"
  BY <1>1, <1>6 DEF EndGame, NewRuntime
<1>8. Calls'
  <2>1. Met' = Met
    BY <1>1, <1>3, <1>7 DEF Met
  <2>2. PoliceGreeted' = PoliceGreeted /\ Present' = Present
    BY <1>1 DEF PoliceGreeted, Present
  <2>3. AgreementsInOrder'
    BY <1>1, <2>1, <2>2 DEF Calls, AgreementsInOrder
  <2>4. ASSUME NEW i \in DOMAIN audits'
        PROVE  /\ audits'[i].attempt = 0
               /\ audits'[i].game < game' + i
               /\ game' + i <= audits'[i].game + 1 + resent["audit"]
    <3>1. /\ audits'[i] = audits[i + 1] /\ i \in Nat /\ audits[i + 1].attempt = 0
          /\ audits[i + 1].game < game + (i + 1)
          /\ game + (i + 1) <= audits[i + 1].game + 1 + resent["audit"]
      BY <1>2, <1>4
    <3>2. game + (i + 1) = game' + i
      BY <1>3, <1>7, <3>1
    <3> QED BY <3>1, <3>2
  <2>5. game' + Len(audits') = game + Len(audits)
    BY <1>2, <1>3, <1>7
  <2>6. Present' => /\ police'.game <= game' + Len(audits')
                    /\ game' + Len(audits') <= police'.game + resent["audit"]
    BY <1>1, <2>2, <2>5 DEF Calls, AuditsInOrder
  <2> QED BY <1>1, <2>3, <2>4, <2>6 DEF Calls, AuditsInOrder
<1>9. /\ \A i \in DOMAIN turns : turns[i].tag.game \in Int /\ turns[i].tag.game <= game
      /\ \A i \in DOMAIN mail.turns :
           mail.turns[i].tag.game \in Int /\ mail.turns[i].tag.game <= game
  <2>1. \A i \in DOMAIN turns : turns[i] \in PoliceTurns
    BY DEF Types, InboxTypes
  <2>2. \A i \in DOMAIN mail.turns : mail.turns[i] \in ThiefTurns
    BY Changes
  <2> QED BY <2>1, <2>2 DEF PoliceTurns, ThiefTurns, Tags, Turns, NoneAhead
<1>10. NoneAhead'
  BY <1>1, <1>3, <1>7, <1>9 DEF Turns, NoneAhead
<1>11. QuietStart' /\ QuietEnd'
  <2>1. police.stage = "think" => police.game # game + 1
    BY <1>3 DEF Turns, NoneAhead
  <2> QED BY <1>1, <1>3, <1>7, <1>9, <2>1 DEF QuietStart, Quiet, QuietEnd
<1>12. Numbered'
  BY <1>1, <1>7 DEF Turns, Numbered
<1>13. Halted' <=> "stop" \in controls
  BY <1>1, <1>7 DEF Halted, NeverReaches
<1>14. LeftOversRefused'
  <2> SUFFICES ASSUME LeftOver'
               PROVE  \/ "stop" \in controls
                      \/ turns[1].tag.game < game + 1 /\ turns[1].step >= 2
    BY <1>1, <1>7, <1>13 DEF LeftOversRefused
  <2>1. 1 \in DOMAIN turns
    <3>1. turns # <<>> /\ turns \in Seq(PoliceTurns)
      BY <1>1 DEF LeftOver, Types, InboxTypes
    <3> QED BY <3>1, Tailed
  <2>2. CASE LeftOver
    <3>1. "stop" \in controls \/ turns[1].step >= 2
      BY <2>2 DEF Turns, LeftOversRefused, Halted
    <3> QED BY <1>3, <1>9, <2>1, <3>1
  <2>3. CASE ~LeftOver
    <3>1. turns[1].tag.game = game
      BY <1>3, <1>9, <2>1, <2>3 DEF LeftOver
    <3>2. "stop" \in controls \/ incoming_step >= 1
      BY <1>1, <2>1, <3>1 DEF Turns, QuietEnd, Quiet
    <3>3. incoming_step >= 1 => turns[1].step >= 2
      BY <2>1, <3>1 DEF Turns, Numbered
    <3> QED BY <1>3, <3>1, <3>2, <3>3
  <2> QED BY <2>2, <2>3
<1>15. Present' => Outrun'
  <2> SUFFICES ASSUME Present, ~("stop" \in controls) PROVE Outrun'
    BY <1>1, <1>13 DEF Outrun, Present
  <2>1. /\ \A i \in DOMAIN mail.turns :
             mail.turns[i].tag.game < game /\ ~mail.turns[i].over =>
               AnsweredOnce(mail.turns[i].tag.game)
        /\ police.stage = "think" /\ police.game < game => police.made >= 1
    BY DEF Turns, Outrun, Halted
  <2>2. \/ incoming_step >= 1 /\ police.game >= game
           /\ (police.game = game => police.made >= 1)
        \/ Quiet
    BY <1>1 DEF Turns, QuietEnd, Numbered
  <2>3. ASSUME NEW i \in DOMAIN mail.turns, mail.turns[i].tag.game < game + 1,
               ~mail.turns[i].over
        PROVE  AnsweredOnce(mail.turns[i].tag.game)
    <3>1. CASE mail.turns[i].tag.game < game
      BY <2>1, <2>3, <3>1
    <3>2. CASE mail.turns[i].tag.game = game
      BY <1>3, <2>2, <2>3, <3>2 DEF AnsweredOnce, Quiet
    <3> QED BY <1>3, <1>9, <2>3, <3>1, <3>2
  <2>4. police.stage = "think" /\ police.game < game + 1 => police.made >= 1
    BY <1>3, <2>1, <2>2 DEF Quiet
  <2> QED BY <1>1, <1>7, <2>3, <2>4 DEF Outrun, AnsweredOnce
<1> QED BY <1>8, <1>10, <1>11, <1>12, <1>14, <1>15 DEF Turns

-----------------------------------------------------------------------------
(* The steps of the Police that leave its turns and those for it alone. *)
LEMMA StillTurns ==
  ASSUME Turns, Present,
         UNCHANGED <<stage, game, step, incoming_step, result, turns, controls>>,
         mail'.turns = mail.turns, police'.game = police.game, police'.made = police.made,
         police'.stage = "think" => police.stage = "think"
  PROVE  Turns'
<1>1. Halted' = Halted
  BY DEF Halted
<1> QED
  BY <1>1 DEF Turns, NoneAhead, QuietStart, Quiet, QuietEnd, Numbered, LeftOversRefused, LeftOver,
              Outrun, AnsweredOnce

LEMMA PoliceGreetingKeepsStep ==
  ASSUME Types, Clean, Calls, Turns, PoliceGreets
  PROVE  Calls' /\ Turns'
<1>1. /\ police.stage = "greet"
      /\ \/ police' = [police EXCEPT !.stage = "meet"] /\ resent' = resent
         \/ police' = police /\ Resend("agreement")
      /\ agreements' = Append(agreements, Tag(police))
      /\ UNCHANGED <<stage, game, step, incoming_step, result, audits, turns, mail, controls>>
  BY DEF PoliceGreets, PoliceGoesTo, runVars
<1>2. /\ police'.game = police.game /\ police'.made = police.made
      /\ Tag(police) \in Tags /\ Tag(police) = [attempt |-> 0, game |-> police.game]
  BY <1>1, Positions DEF Types, PeerTypes, Polices, Tag, Clean
<1>3. game \in Int /\ police.game \in Int /\ Met \in Int /\ Len(agreements) \in Nat
  BY Changes DEF Types, RunTypes, InboxTypes, Met
<1>4. /\ Present /\ Present' /\ PoliceGreeted = police.game - 1 /\ Met' = Met
      /\ resent["agreement"] \in Nat /\ resent'["audit"] = resent["audit"]
      /\ \/ PoliceGreeted' = police.game /\ resent'["agreement"] = resent["agreement"]
         \/ PoliceGreeted' = police.game - 1 /\ resent'["agreement"] = resent["agreement"] + 1
  <2>1. resent \in [Repeatable -> Nat] /\ "agreement" \in Repeatable /\ "audit" \in Repeatable
    BY DEF Types, PeerTypes, Repeatable
  <2>2. CASE police' = [police EXCEPT !.stage = "meet"] /\ resent' = resent
    <3>1. police'.stage = "meet"
      BY <2>2 DEF Types, PeerTypes, Polices
    <3> QED BY <1>1, <1>2, <2>1, <2>2, <3>1 DEF Present, PoliceGreeted, Met
  <2>3. CASE police' = police /\ Resend("agreement")
    BY <1>1, <2>1, <2>3, Repeats DEF Present, PoliceGreeted, Met
  <2> QED BY <1>1, <2>2, <2>3
<1>5. /\ police.game - 1 <= Met + Len(agreements)
      /\ Met + Len(agreements) <= police.game - 1 + resent["agreement"]
  BY <1>4 DEF Calls, AgreementsInOrder
<1>6. /\ Len(agreements') = Len(agreements) + 1
      /\ \A i \in DOMAIN agreements' :
           \/ i \in DOMAIN agreements /\ agreements'[i] = agreements[i]
           \/ i = Len(agreements) + 1 /\ agreements'[i] = Tag(police)
  BY <1>1, <1>2, Longer DEF Types, InboxTypes
<1>7. AgreementsInOrder'
  <2>1. ASSUME NEW i \in DOMAIN agreements'
        PROVE  /\ agreements'[i].attempt = 0
               /\ agreements'[i].game <= Met + i
               /\ Met + i <= agreements'[i].game + resent'["agreement"]
    <3>1. CASE i \in DOMAIN agreements /\ agreements'[i] = agreements[i]
      <4>1. /\ agreements[i].attempt = 0 /\ agreements[i].game <= Met + i
            /\ Met + i <= agreements[i].game + resent["agreement"]
        BY <3>1 DEF Calls, AgreementsInOrder
      <4>2. i \in Nat /\ agreements[i].game \in Int
        BY <3>1, Numbers
      <4> QED BY <1>3, <1>4, <3>1, <4>1, <4>2
    <3>2. CASE i = Len(agreements) + 1 /\ agreements'[i] = Tag(police)
      BY <1>2, <1>3, <1>4, <1>5, <3>2
    <3> QED BY <1>6, <3>1, <3>2
  <2>2. /\ PoliceGreeted' <= Met + Len(agreements')
        /\ Met + Len(agreements') <= PoliceGreeted' + resent'["agreement"]
    <3>1. Met + Len(agreements') = Met + Len(agreements) + 1
      BY <1>3, <1>6
    <3>2. resent["agreement"] \in Nat /\ Met + Len(agreements) \in Int
      BY <1>3, <1>4
    <3>3. CASE PoliceGreeted' = police.game /\ resent'["agreement"] = resent["agreement"]
      BY <1>3, <1>5, <3>1, <3>2, <3>3
    <3>4. CASE PoliceGreeted' = police.game - 1
               /\ resent'["agreement"] = resent["agreement"] + 1
      BY <1>3, <1>5, <3>1, <3>2, <3>4
    <3> QED BY <1>4, <3>3, <3>4
  <2> QED BY <1>4, <2>1, <2>2 DEF AgreementsInOrder
<1>8. AuditsInOrder'
  BY <1>1, <1>2, <1>4 DEF Calls, AuditsInOrder
<1>9. police'.stage = "think" => police.stage = "think"
  BY <1>1 DEF Types, PeerTypes, Polices
<1>10. Turns'
  BY <1>1, <1>2, <1>4, <1>9, StillTurns
<1> QED BY <1>7, <1>8, <1>10 DEF Calls

LEMMA PoliceMeetingKeepsStep ==
  ASSUME Types, Calls, Turns, PoliceMeets
  PROVE  Calls' /\ Turns'
<1>1. /\ police.stage = "meet" /\ police' = [police EXCEPT !.stage = "wait"]
      /\ mail' = [mail EXCEPT !.agreements = Tail(@)]
      /\ UNCHANGED <<stage, game, step, incoming_step, result, agreements, audits, turns, controls,
                     resent>>
  BY DEF PoliceMeets, PoliceGoesTo, runVars, inboxes
<1>2. /\ police'.stage = "wait" /\ police'.game = police.game /\ police'.made = police.made
      /\ mail'.turns = mail.turns
  BY <1>1 DEF Types, PeerTypes, Polices, Mails
<1>3. Present /\ Present' /\ PoliceGreeted' = PoliceGreeted /\ Met' = Met
  BY <1>1, <1>2 DEF Present, PoliceGreeted, Met
<1>4. Calls'
  BY <1>1, <1>2, <1>3 DEF Calls, AuditsInOrder, AgreementsInOrder
<1>5. Turns'
  BY <1>1, <1>2, <1>3, StillTurns
<1> QED BY <1>4, <1>5

LEMMA HearingKeepsStep ==
  ASSUME Types, Calls, Turns, PoliceHears
  PROVE  Calls' /\ Turns'
<1> DEFINE turn == Head(mail.turns)
<1>1. /\ police.stage = "wait" /\ mail.turns # <<>> /\ mail' = [mail EXCEPT !.turns = Tail(@)]
      /\ police' = IF turn.tag # Tag(police) THEN police
                   ELSE [police EXCEPT !.stage = IF turn.over THEN "reveal" ELSE "think"]
      /\ UNCHANGED <<stage, game, step, incoming_step, result, agreements, audits, turns, controls,
                     resent>>
  BY DEF PoliceHears, runVars, inboxes
<1>2. mail'.turns = Tail(mail.turns) /\ mail.turns \in Seq(ThiefTurns) /\ police.game \in Int
  BY <1>1, Changes DEF Types, PeerTypes, Mails
<1>3. /\ 1 \in DOMAIN mail.turns /\ turn = mail.turns[1]
      /\ \A i \in DOMAIN mail'.turns :
           i + 1 \in DOMAIN mail.turns /\ mail'.turns[i] = mail.turns[i + 1]
  BY <1>1, <1>2, Tailed
<1> HIDE DEF turn
<1>4. /\ police'.game = police.game /\ police'.made = police.made
      /\ police'.stage \in {"wait", "think", "reveal"}
      /\ police'.stage = "think" => turn.tag = Tag(police) /\ ~turn.over
  BY <1>1 DEF Types, PeerTypes, Polices
<1>5. Present /\ Present' /\ PoliceGreeted' = PoliceGreeted /\ Met' = Met /\ Halted' = Halted
  BY <1>1, <1>4 DEF Present, PoliceGreeted, Met, Halted
<1>6. Calls'
  BY <1>1, <1>4, <1>5 DEF Calls, AgreementsInOrder, AuditsInOrder
<1>7. police'.stage = "think" => mail.turns[1].tag.game = police.game /\ ~mail.turns[1].over
  BY <1>3, <1>4 DEF Tag
<1>8. NoneAhead'
  BY <1>1, <1>2, <1>3, <1>4, <1>7 DEF Turns, NoneAhead
<1>9. Quiet => Quiet'
  <2> SUFFICES ASSUME Quiet PROVE Quiet'
    OBVIOUS
  <2>1. police'.stage = "think" => police'.game # game'
    BY <1>1, <1>3, <1>4, <1>7 DEF Quiet
  <2> QED BY <1>1, <1>3, <2>1 DEF Quiet
<1>10. QuietStart' /\ QuietEnd'
  BY <1>1, <1>9 DEF Turns, QuietStart, QuietEnd
<1>11. Numbered' /\ LeftOversRefused'
  BY <1>1, <1>4, <1>5 DEF Turns, Numbered, LeftOversRefused, LeftOver
<1>12. Outrun'
  <2> SUFFICES ASSUME ~Halted PROVE Outrun'
    BY <1>5 DEF Outrun
  <2>1. /\ \A i \in DOMAIN mail.turns :
             mail.turns[i].tag.game < game /\ ~mail.turns[i].over =>
               AnsweredOnce(mail.turns[i].tag.game)
    BY <1>5 DEF Turns, Outrun
  <2>2. police'.stage = "think" /\ police.game < game => police.made >= 1
    BY <1>2, <1>3, <1>7, <2>1 DEF AnsweredOnce
  <2> QED BY <1>1, <1>3, <1>4, <2>1, <2>2 DEF Outrun, AnsweredOnce
<1> QED BY <1>6, <1>8, <1>10, <1>11, <1>12 DEF Turns

LEMMA AnsweringKeepsStep ==
  ASSUME Types, Clean, Calls, Turns, PoliceAnswers
  PROVE  Calls' /\ Turns'
<1>1. PICK ends \in Endings :
        /\ turns' = Append(turns, [tag |-> Tag(police), step |-> police.made + 1, ends |-> ends])
        /\ police' = [police EXCEPT !.made = @ + 1,
                                    !.stage = IF ends = "survival" THEN "reveal" ELSE "wait"]
  BY DEF PoliceAnswers
<1>2. /\ police.stage = "think"
      /\ UNCHANGED <<stage, game, step, incoming_step, result, agreements, audits, mail, controls,
                     resent>>
  BY DEF PoliceAnswers, runVars
<1>3. /\ police'.game = police.game /\ police'.made = police.made + 1
      /\ police'.stage \in {"wait", "reveal"}
  BY <1>1 DEF Types, PeerTypes, Polices
<1>4. /\ Present /\ police.game \in Int /\ police.made \in Nat /\ game \in Int
      /\ police.game <= game
      /\ police.game < game => Halted \/ police.made >= 1
  BY <1>2, Changes DEF Present, Turns, NoneAhead, Outrun, Types, RunTypes
<1> DEFINE turn == [tag |-> Tag(police), step |-> police.made + 1, ends |-> ends]
<1>5. /\ turn.tag.game = police.game /\ turn.tag.attempt = 0 /\ turn.step = police.made + 1
      /\ turn \in PoliceTurns
  BY <1>4, Positions DEF Clean, Tag, PoliceTurns
<1>6. turns' = Append(turns, turn)
  BY <1>1
<1> HIDE DEF turn
<1>7. /\ Len(turns) \in Nat
      /\ \A i \in DOMAIN turns' : \/ i \in DOMAIN turns /\ turns'[i] = turns[i]
                                  \/ i = Len(turns) + 1 /\ turns'[i] = turn
      /\ \A i \in DOMAIN turns :
           i \in 1 .. Len(turns) /\ i \in DOMAIN turns' /\ turns'[i] = turns[i]
  BY <1>5, <1>6, Longer DEF Types, InboxTypes
<1>8. Present' /\ PoliceGreeted' = PoliceGreeted /\ Met' = Met /\ Halted' = Halted
  BY <1>2, <1>3 DEF Present, PoliceGreeted, Met, Halted
<1>9. Calls'
  BY <1>2, <1>3, <1>4, <1>8 DEF Calls, AgreementsInOrder, AuditsInOrder
<1>10. NoneAhead'
  BY <1>2, <1>3, <1>4, <1>5, <1>7 DEF Turns, NoneAhead
<1>11. Quiet => Quiet'
  BY <1>2, <1>3, <1>5, <1>7 DEF Quiet
<1>12. QuietStart' /\ QuietEnd'
  BY <1>2, <1>11 DEF Turns, QuietStart, QuietEnd
<1>13. Numbered'
  <2>1. \A i, j \in DOMAIN turns' :
          i < j /\ turns'[i].tag.game = turns'[j].tag.game => turns'[j].step >= 2
    <3> SUFFICES ASSUME NEW i \in DOMAIN turns', NEW j \in DOMAIN turns', i < j,
                        turns'[i].tag.game = turns'[j].tag.game
                 PROVE  turns'[j].step >= 2
      OBVIOUS
    <3>1. CASE i \in DOMAIN turns /\ j \in DOMAIN turns
      BY <1>7, <3>1 DEF Turns, Numbered
    <3>2. CASE i \in DOMAIN turns /\ j = Len(turns) + 1 /\ turns'[j] = turn
      <4>1. turns[i].tag.game = police.game
        BY <1>5, <1>7, <3>2
      <4> QED BY <1>4, <1>5, <3>2, <4>1 DEF Turns, Numbered
    <3> QED BY <1>7, <3>1, <3>2
  <2>2. police'.made >= 1
    BY <1>3, <1>4
  <2>3. incoming_step >= 1 =>
          /\ \A i \in DOMAIN turns' : turns'[i].tag.game = game => turns'[i].step >= 2
          /\ police.game >= game
    BY <1>4, <1>5, <1>7 DEF Turns, Numbered
  <2> QED BY <1>2, <1>3, <2>1, <2>2, <2>3 DEF Numbered
<1>14. LeftOversRefused'
  <2> SUFFICES ASSUME LeftOver', ~Halted
               PROVE  turns'[1].tag.game < game /\ turns'[1].step >= 2 /\ incoming_step = 0
    BY <1>2, <1>8 DEF LeftOversRefused
  <2>1. CASE LeftOver
    <3>1. 1 \in DOMAIN turns
      BY <2>1 DEF LeftOver, Types, InboxTypes
    <3>2. turns'[1] = turns[1]
      BY <1>7, <3>1
    <3> QED BY <2>1, <3>2 DEF Turns, LeftOversRefused
  <2>2. CASE ~LeftOver
    <3>1. police.game < game /\ police.made >= 1
      BY <1>2, <1>4, <1>5, <1>7, <2>2 DEF LeftOver
    <3>2. DOMAIN turns = {}
      <4>1. \A i \in DOMAIN turns : turns[i].tag.game < game
        BY <1>4, <3>1, Numbers DEF Turns, NoneAhead
      <4> QED BY <2>2, <4>1 DEF LeftOver
    <3>3. turns'[1] = turn
      <4>1. 1 \in DOMAIN turns'
        BY <1>5, <1>6 DEF Types, InboxTypes
      <4> QED BY <1>7, <3>2, <4>1
    <3>4. incoming_step = 0
      BY <1>4, <3>1 DEF Turns, Numbered, Types, RunTypes, Progress
    <3> QED BY <1>4, <1>5, <3>1, <3>3, <3>4
  <2> QED BY <2>1, <2>2
<1>15. Outrun'
  <2> SUFFICES ASSUME ~Halted PROVE Outrun'
    BY <1>8 DEF Outrun
  <2>1. \A i \in DOMAIN mail.turns :
          mail.turns[i].tag.game < game /\ ~mail.turns[i].over =>
            AnsweredOnce(mail.turns[i].tag.game)
    BY <1>4 DEF Turns, Outrun
  <2> QED BY <1>2, <1>3, <1>4, <2>1 DEF Outrun, AnsweredOnce
<1> QED BY <1>9, <1>10, <1>12, <1>13, <1>14, <1>15 DEF Turns

LEMMA RevealingKeepsStep ==
  ASSUME Types, Clean, Calls, Turns, PoliceReveals
  PROVE  Calls' /\ Turns'
<1>1. /\ police.stage = "reveal" /\ audits' = Append(audits, Tag(police))
      /\ \/ PoliceMovesOn /\ resent' = resent
         \/ police' = police /\ Resend("audit")
      /\ UNCHANGED <<stage, game, step, incoming_step, result, agreements, turns, mail, controls>>
  BY DEF PoliceReveals, runVars
<1>2. /\ Tag(police) \in Tags /\ Tag(police) = [attempt |-> 0, game |-> police.game]
      /\ game \in Int /\ police.game \in Int /\ Present /\ Len(audits) \in Nat
      /\ Met' = Met
  BY <1>1, Positions, Changes DEF Types, RunTypes, InboxTypes, Tag, Clean, Present, Met
<1>3. PoliceMovesOn =>
        \/ police'.stage = "greet" /\ police'.game = police.game + 1
        \/ police'.stage = "done" /\ police'.game = police.game /\ police'.made = police.made
  BY DEF PoliceMovesOn, Types, PeerTypes, Polices
<1>4. /\ resent["audit"] \in Nat /\ resent'["agreement"] = resent["agreement"]
      /\ \/ PoliceMovesOn /\ resent'["audit"] = resent["audit"]
         \/ police' = police /\ resent'["audit"] = resent["audit"] + 1
  <2>1. resent \in [Repeatable -> Nat] /\ "agreement" \in Repeatable /\ "audit" \in Repeatable
    BY DEF Types, PeerTypes, Repeatable
  <2> QED BY <1>1, <2>1, Repeats
<1>5. /\ police.game <= game + Len(audits)
      /\ game + Len(audits) <= police.game + resent["audit"]
  BY <1>2 DEF Calls, AuditsInOrder
<1>6. /\ Len(audits') = Len(audits) + 1
      /\ \A i \in DOMAIN audits' :
           \/ i \in DOMAIN audits /\ audits'[i] = audits[i]
           \/ i = Len(audits) + 1 /\ audits'[i] = Tag(police)
  BY <1>1, <1>2, Longer DEF Types, InboxTypes
<1>7. AuditsInOrder'
  <2>1. ASSUME NEW i \in DOMAIN audits'
        PROVE  /\ audits'[i].attempt = 0
               /\ audits'[i].game < game + i
               /\ game + i <= audits'[i].game + 1 + resent'["audit"]
    <3>1. CASE i \in DOMAIN audits /\ audits'[i] = audits[i]
      <4>1. /\ audits[i].attempt = 0 /\ audits[i].game < game + i
            /\ game + i <= audits[i].game + 1 + resent["audit"]
        BY <3>1 DEF Calls, AuditsInOrder
      <4>2. i \in Nat /\ audits[i].game \in Int
        BY <3>1, Numbers
      <4> QED BY <1>2, <1>4, <3>1, <4>1, <4>2
    <3>2. CASE i = Len(audits) + 1 /\ audits'[i] = Tag(police)
      BY <1>2, <1>4, <1>5, <3>2
    <3> QED BY <1>6, <3>1, <3>2
  <2>2. Present' => /\ police'.game <= game + Len(audits')
                    /\ game + Len(audits') <= police'.game + resent'["audit"]
    <3>1. CASE police' = police /\ resent'["audit"] = resent["audit"] + 1
      BY <1>2, <1>4, <1>5, <1>6, <3>1
    <3>2. CASE PoliceMovesOn /\ resent'["audit"] = resent["audit"]
      <4>1. Present' => police'.game = police.game + 1
        BY <1>3, <3>2 DEF Present
      <4> QED BY <1>2, <1>4, <1>5, <1>6, <3>2, <4>1
    <3> QED BY <1>4, <3>1, <3>2
  <2> QED BY <1>1, <2>1, <2>2 DEF AuditsInOrder
<1>8. AgreementsInOrder'
  <2>1. Present' => PoliceGreeted' = PoliceGreeted
    BY <1>1, <1>2, <1>3, <1>4 DEF Present, PoliceGreeted
  <2> QED BY <1>1, <1>2, <1>4, <2>1 DEF Calls, AgreementsInOrder
<1>9. CASE police' = police
  BY <1>1, <1>2, <1>7, <1>8, <1>9, StillTurns DEF Calls
<1>10. CASE PoliceMovesOn
  <2>1. \A i \in DOMAIN turns : turns[i].tag.game \in Int /\ turns[i].tag.game <= police.game
    BY Numbers DEF Turns, NoneAhead
  <2>2. police'.game >= police.game /\ police'.stage # "think"
    BY <1>2, <1>3, <1>10
  <2>3. NoneAhead'
    <3>1. police'.game \in Int
      BY <1>2, <1>3, <1>10
    <3> QED BY <1>1, <1>2, <2>1, <2>2, <3>1 DEF Turns, NoneAhead
  <2>4. QuietStart' /\ QuietEnd' /\ LeftOversRefused' /\ Halted' = Halted
    BY <1>1, <2>2 DEF Turns, QuietStart, QuietEnd, Quiet, LeftOversRefused, LeftOver, Halted
  <2>5. CASE police'.stage = "done" /\ police'.game = police.game /\ police'.made = police.made
    <3>1. Numbered' /\ ~Present'
      BY <1>1, <2>5 DEF Turns, Numbered, Present
    <3> QED BY <1>7, <1>8, <2>3, <2>4, <3>1 DEF Calls, Turns
  <2>6. CASE police'.game = police.game + 1
    <3>1. \A i \in DOMAIN turns : turns[i].tag.game # police'.game
      BY <1>2, <2>1, <2>6
    <3>2. incoming_step >= 1 => police'.game > game
      BY <1>2, <2>6 DEF Turns, Numbered
    <3>3. Numbered'
      BY <1>1, <1>2, <2>6, <3>1, <3>2 DEF Turns, Numbered
    <3>4. Outrun'
      <4> SUFFICES ASSUME ~Halted PROVE Outrun'
        BY <2>4 DEF Outrun
      <4>1. \A i \in DOMAIN mail.turns :
              mail.turns[i].tag.game < game /\ ~mail.turns[i].over =>
                AnsweredOnce(mail.turns[i].tag.game)
        BY <1>2 DEF Turns, Outrun
      <4>2. \A i \in DOMAIN mail.turns :
              AnsweredOnce(mail.turns[i].tag.game) => mail.turns[i].tag.game < police'.game
        BY <1>2, <2>6, Numbers DEF AnsweredOnce
      <4> QED BY <1>1, <2>2, <4>1, <4>2 DEF Outrun, AnsweredOnce
    <3> QED BY <1>7, <1>8, <2>3, <2>4, <3>3, <3>4 DEF Calls, Turns
  <2> QED BY <1>3, <1>10, <2>5, <2>6
<1> QED BY <1>4, <1>9, <1>10

(* A signal of the Police: one that leaves the pass as it is lets the Police go *)
(* on, or has it gone for good.                                                *)
LEMMA SignalKeepsStep ==
  ASSUME Types, Clean, Calls, Turns, PoliceSignals, police'.attempt = 0
  PROVE  Calls' /\ Turns'
<1>1. PICK signal \in Signals :
        CASE signal = "enable"  -> UNCHANGED <<police, mail>>
          [] signal = "restart" -> PoliceRejoins
          [] signal = "quit"    -> PoliceGoesTo("done") /\ UNCHANGED mail
  BY OfCourse DEF PoliceSignals
<1>2. signal \in {"enable", "restart", "quit"}
  BY DEF Signals
<1>3. UNCHANGED <<stage, game, step, incoming_step, result, agreements, audits, turns, controls,
                  resent>>
  BY DEF PoliceSignals, runVars
<1>4. ~PoliceRejoins
  BY Changes DEF PoliceRejoins, Clean
<1>5. CASE UNCHANGED <<police, mail>>
  BY <1>3, <1>5, NothingMoves DEF NoRepeat
<1>6. CASE PoliceGoesTo("done") /\ UNCHANGED mail
  <2>1. police'.stage = "done" /\ police'.game = police.game /\ police'.made = police.made
    BY <1>6 DEF PoliceGoesTo, Types, PeerTypes, Polices
  <2>2. ~Present' /\ Met' = Met /\ Halted' = Halted
    BY <1>3, <2>1 DEF Present, Met, Halted
  <2>3. Calls'
    BY <1>3, <2>2 DEF Calls, AgreementsInOrder, AuditsInOrder
  <2>4. Turns'
    BY <1>3, <1>6, <2>1, <2>2 DEF Turns, NoneAhead, QuietStart, Quiet, QuietEnd, Numbered,
                                  LeftOversRefused, LeftOver
  <2> QED BY <2>3, <2>4
<1> QED BY <1>1, <1>2, <1>4, <1>5, <1>6

-----------------------------------------------------------------------------
(* Neither a wait given up nor a restart is ever undone. *)
LEMMA NeverUndone ==
  ASSUME Types, Next, ~gave_up', attempt' = 0, police'.attempt = 0
  PROVE  /\ ~gave_up /\ attempt = 0 /\ police.attempt = 0
         /\ ~AgreementTimeout /\ ~PollTimeout /\ ~AuditTimeout /\ ~Restart
         /\ ~PoliceGivesUp /\ ~PoliceRestarts
         /\ Thief \/ Press \/ Police => ending = "none"
<1>1. attempt \in Nat /\ police.attempt \in Nat
  BY Changes, RestartAssumption DEF Types, RunTypes
<1>2. ~AgreementTimeout /\ ~PollTimeout /\ ~AuditTimeout /\ ~PoliceGivesUp
  BY DEF AgreementTimeout, PollTimeout, AuditTimeout, PoliceGivesUp
<1>3. ~Restart
  BY <1>1 DEF Restart
<1>4. ~PoliceRejoins
  BY <1>1 DEF PoliceRejoins
<1>5. ~PoliceRestarts
  BY <1>4 DEF PoliceRestarts
<1>6. Thief => gave_up' = gave_up /\ attempt' = attempt /\ police' = police /\ stage # "over"
  <2>1. CASE SendFails \/ SendAgreement \/ ReceiveAgreement
    BY <2>1 DEF SendFails, MayMove, Raise, SendAgreement, Goto, ReceiveAgreement, runVars,
                policeVars
  <2>2. CASE OptIn \/ DrainSignal \/ EndPump \/ Stop
    BY <2>2 DEF OptIn, DrainSignal, EndPump, Stop, Goto, Lose, runVars, policeVars
  <2>3. CASE PassLoop \/ OpponentQuit \/ TakeTurn \/ ReceiveTurn
    BY <2>3 DEF PassLoop, OpponentQuit, TakeTurn, MayMove, ReceiveTurn, Goto, Lose, policeVars
  <2>4. CASE ReceiveOutOfOrder \/ SendAudit \/ ReceiveAudit
    BY <2>4 DEF ReceiveOutOfOrder, SendAudit, ReceiveAudit, EndGame, Raise, Goto, policeVars
  <2> QED BY <1>2, <1>3, <2>1, <2>2, <2>3, <2>4 DEF Thief
<1>7. Press => gave_up' = gave_up /\ attempt' = attempt /\ police' = police /\ ending = "none"
  BY DEF Press, runVars, policeVars
<1>8. Police => gave_up' = gave_up /\ attempt' = attempt /\ police'.attempt = police.attempt
                /\ ending = "none"
  <2> SUFFICES ASSUME Police
               PROVE  /\ gave_up' = gave_up /\ attempt' = attempt
                      /\ police'.attempt = police.attempt
    BY DEF Police
  <2>1. police \in Polices
    BY DEF Types, PeerTypes
  <2>2. CASE PoliceGreets \/ PoliceMeets \/ PoliceHears
    BY <2>1, <2>2 DEF PoliceGreets, PoliceMeets, PoliceHears, PoliceGoesTo, Polices, runVars
  <2>3. CASE PoliceAnswers \/ PoliceReveals
    BY <2>1, <2>3 DEF PoliceAnswers, PoliceReveals, PoliceMovesOn, Polices, runVars
  <2>4. CASE PoliceSignals
    <3>1. UNCHANGED police \/ PoliceGoesTo("done")
      BY <1>4, <2>4, OfCourse DEF PoliceSignals, Signals
    <3>2. police'.attempt = police.attempt
      BY <2>1, <3>1 DEF PoliceGoesTo, Polices
    <3> QED BY <2>4, <3>2 DEF PoliceSignals, runVars
  <2> QED BY <1>2, <1>5, <2>2, <2>3, <2>4 DEF Police
<1>9. Rest => gave_up' = gave_up /\ attempt' = attempt /\ police' = police
  BY DEF Rest, vars, runVars, policeVars
<1>10. stage # "over" => ending = "none"
  BY DEF Types, RunTypes
<1> QED BY <1>2, <1>3, <1>5, <1>6, <1>7, <1>8, <1>9, <1>10 DEF Next

LEMMA CallsAndTurnsStep ==
  ASSUME Types, Clean, Clean', Calls, Turns, Next
  PROVE  Calls' /\ Turns'
<1>1. /\ ~AgreementTimeout /\ ~PollTimeout /\ ~AuditTimeout /\ ~Restart
      /\ ~PoliceGivesUp /\ ~PoliceRestarts
  BY NeverUndone DEF Clean
<1>2. ~SendFails /\ ~ReceiveOutOfOrder /\ ending' = "none" /\ ~Rest
  BY DEF Clean, SendFails, ReceiveOutOfOrder, Raise, Rest
<1>3. CASE SendAgreement \/ ReceiveAgreement
  BY <1>3, GreetingKeepsStep, MeetingKeepsStep
<1>4. CASE EndPump \/ PassLoop \/ Stop \/ OpponentQuit \/ SendAudit
  BY <1>2, <1>4, PacingKeepsStep
<1>5. CASE OptIn \/ DrainSignal \/ Press
  BY <1>5, NothingMoves DEF OptIn, DrainSignal, Press, runVars, inboxes, policeVars, NoRepeat
<1>6. CASE TakeTurn \/ ReceiveTurn \/ ReceiveAudit
  BY <1>2, <1>6, TurnKeepsStep, ReceivingKeepsStep, AuditKeepsStep
<1>7. CASE Police
  <2>1. police'.attempt = 0
    BY DEF Clean
  <2> QED
    BY <1>1, <1>7, <2>1, PoliceGreetingKeepsStep, PoliceMeetingKeepsStep, HearingKeepsStep,
       AnsweringKeepsStep, RevealingKeepsStep, SignalKeepsStep DEF Police
<1> QED BY <1>1, <1>2, <1>3, <1>4, <1>5, <1>6, <1>7 DEF Next, Thief

(* What Own says, for any count of the repeats. *)
OwnBut(consumed, tag, repeats) ==
  \A u \in consumed :
    /\ u[2].attempt = tag.attempt
    /\ u[2].game \in tag.game - (IF u[1] = "turn" THEN 0 ELSE repeats[u[1]]) .. tag.game

LEMMA OwnIs == \A consumed, tag : Own(consumed, tag) <=> OwnBut(consumed, tag, resent)
BY DEF Own, OwnBut, Late

(* A repeat is never taken back, so what was consumed as it should be stays so. *)
LEMMA OwnStays ==
  ASSUME Types, Next, NEW consumed \in Consumed, NEW tag \in Tags, OwnBut(consumed, tag, resent)
  PROVE  OwnBut(consumed, tag, resent')
<1>1. \A kind \in Repeatable : resent[kind] \in Nat /\ resent'[kind] \in Nat
                                /\ resent'[kind] >= resent[kind]
  <2>1. resent \in [Repeatable -> Nat] /\ {"greeting", "agreement", "audit", "restart"} = Repeatable
    BY DEF Types, PeerTypes, Repeatable
  <2>2. UNCHANGED resent \/ \E kind \in Repeatable : Resend(kind)
    <3>1. CASE SendAgreement \/ PoliceGreets \/ PoliceReveals
      BY <2>1, <3>1 DEF SendAgreement, PoliceGreets, PoliceReveals
    <3>2. CASE Restart
      BY <2>1, <3>2 DEF Restart, Announce
    <3>3. CASE SendFails \/ ReceiveAgreement \/ AgreementTimeout \/ OptIn \/ DrainSignal \/ EndPump
               \/ Stop \/ PassLoop \/ OpponentQuit
      BY <3>3 DEF SendFails, ReceiveAgreement, AgreementTimeout, OptIn, DrainSignal, EndPump, Stop,
                  PassLoop, OpponentQuit, policeVars
    <3>4. CASE TakeTurn \/ ReceiveTurn \/ ReceiveOutOfOrder \/ PollTimeout \/ SendAudit
               \/ ReceiveAudit \/ AuditTimeout \/ Press \/ Rest
      BY <3>4 DEF TakeTurn, ReceiveTurn, ReceiveOutOfOrder, PollTimeout, SendAudit, ReceiveAudit,
                  AuditTimeout, Press, Rest, vars, policeVars
    <3>5. CASE PoliceMeets \/ PoliceHears \/ PoliceAnswers \/ PoliceGivesUp \/ PoliceSignals
               \/ PoliceRestarts
      BY <3>5 DEF PoliceMeets, PoliceHears, PoliceAnswers, PoliceGivesUp, PoliceSignals,
                  PoliceRestarts
    <3> QED BY <3>1, <3>2, <3>3, <3>4, <3>5 DEF Next, Thief, Police
  <2>3. CASE UNCHANGED resent
    BY <2>1, <2>3
  <2>4. ASSUME NEW kind \in Repeatable, Resend(kind)
        PROVE  \A other \in Repeatable : resent'[other] \in Nat /\ resent'[other] >= resent[other]
    BY <2>1, <2>4, Repeats
  <2> QED BY <2>1, <2>2, <2>3, <2>4
<1>2. ASSUME NEW u \in consumed
      PROVE  /\ u[2].attempt = tag.attempt
             /\ u[2].game \in tag.game - (IF u[1] = "turn" THEN 0 ELSE resent'[u[1]]) .. tag.game
  <2>1. /\ u[1] \in {"agreement", "turn", "audit"} /\ u[2].game \in Int /\ tag.game \in Int
        /\ u[2].attempt = tag.attempt
        /\ u[2].game \in tag.game - (IF u[1] = "turn" THEN 0 ELSE resent[u[1]]) .. tag.game
    BY DEF Consumed, OwnBut, Tags
  <2>2. u[1] = "turn" \/ u[1] \in Repeatable
    BY <2>1 DEF Repeatable
  <2> QED BY <1>1, <2>1, <2>2
<1> QED BY <1>2 DEF OwnBut

(* What is consumed is of this sub-game, but for copies. *)
LEMMA OwnOnes ==
  ASSUME Types, Clean, Calls, Turns, GamesDoNotMix, ~gave_up', attempt' = 0,
         police'.attempt = 0, Next
  PROVE  Own(used, Here)' /\ \A i \in DOMAIN summaries' : summaries'[i].own
<1>1. /\ ~AgreementTimeout /\ ~PollTimeout /\ ~AuditTimeout /\ ~Restart
      /\ ~PoliceGivesUp /\ ~PoliceRestarts
  BY NeverUndone
<1>2. /\ OwnBut(used, Here, resent) /\ \A i \in DOMAIN summaries : summaries[i].own
      /\ used \in Consumed /\ Here \in Tags /\ Here.attempt = 0 /\ Here.game = game
  BY OwnIs, Positions DEF Clean, GamesDoNotMix, Here, Types, RunTypes
<1>3. OwnBut(used, Here, resent')
  BY <1>2, OwnStays
<1>4. Own(used, Here)' <=> OwnBut(used', Here', resent')
  BY DEF Own, OwnBut, Late
<1>5. CASE UNCHANGED <<attempt, game, used, summaries>>
  <2>1. Here' = Here
    BY <1>5 DEF Here
  <2> QED BY <1>2, <1>3, <1>4, <1>5, <2>1
<1>6. CASE ReceiveAgreement
  <2>1. /\ used' = used \cup {<<"agreement", Head(agreements)>>}
        /\ UNCHANGED <<attempt, game, summaries, resent>>
    BY <1>6 DEF ReceiveAgreement, policeVars
  <2>2. Here' = Here
    BY <2>1 DEF Here
  <2>3. OwnBut(used', Here, resent)
    BY <1>2, <1>6, <2>1, MeetingKeepsStep DEF OwnBut
  <2> QED BY <1>2, <1>4, <2>1, <2>2, <2>3
<1>7. CASE ReceiveTurn
  <2>1. /\ used' = used \cup {<<"turn", Head(turns).tag>>}
        /\ UNCHANGED <<attempt, game, summaries, resent>>
    BY <1>7 DEF ReceiveTurn, policeVars
  <2>2. Here' = Here
    BY <2>1 DEF Here
  <2>3. Head(turns).tag.attempt = 0 /\ Head(turns).tag.game = game /\ game \in Int
    BY <1>7, ReceivingKeepsStep DEF Types, RunTypes
  <2>4. OwnBut(used', Here, resent)
    BY <1>2, <2>1, <2>3 DEF OwnBut
  <2> QED BY <1>2, <1>4, <2>1, <2>2, <2>4
<1>8. CASE ReceiveAudit
  <2> DEFINE consumed == used \cup {<<"audit", Head(audits)>>}
             summary == [tag |-> Here, lost |-> result = "technical_loss",
                         own |-> Own(consumed, Here)]
  <2>1. OwnBut(consumed, Here, resent)
    BY <1>2, <1>8, AuditKeepsStep DEF OwnBut
  <2>2. Own(consumed, Here)
    BY <2>1, OwnIs
  <2>3. EndGame(consumed) /\ resent' = resent
    BY <1>8 DEF ReceiveAudit, policeVars
  <2>4. summaries' = Append(summaries, summary) /\ summary.own
    BY <2>2, <2>3 DEF EndGame
  <2>5. summary \in Summaries
    <3>1. Here \in Tags /\ Own(consumed, Here) \in BOOLEAN
      BY Positions DEF Own
    <3> QED BY <3>1 DEF Summaries
  <2>6. used' = {} \/ (used' = used /\ game' = game /\ attempt' = attempt)
    BY <2>3 DEF EndGame, NewRuntime
  <2>7. OwnBut(used', Here', resent')
    <3>1. CASE used' = {}
      BY <3>1 DEF OwnBut
    <3>2. CASE used' = used /\ game' = game /\ attempt' = attempt
      <4>1. Here' = Here
        BY <3>2 DEF Here
      <4> QED BY <1>3, <3>2, <4>1
    <3> QED BY <2>6, <3>1, <3>2
  <2> HIDE DEF summary
  <2>8. \A i \in DOMAIN summaries' : summaries'[i].own
    BY <1>2, <2>4, <2>5, Longer DEF Types, RunTypes
  <2> QED BY <1>4, <2>7, <2>8
<1>9. CASE SendFails \/ SendAgreement \/ OptIn \/ DrainSignal \/ EndPump \/ Stop
  BY <1>5, <1>9 DEF SendFails, SendAgreement, OptIn, DrainSignal, EndPump, Stop, Raise, Goto, Lose,
                    runVars
<1>10. CASE PassLoop \/ OpponentQuit \/ TakeTurn \/ ReceiveOutOfOrder \/ SendAudit
  BY <1>5, <1>10 DEF PassLoop, OpponentQuit, TakeTurn, ReceiveOutOfOrder, SendAudit, Raise, Goto,
                     Lose
<1>11. CASE Press \/ Rest
  BY <1>5, <1>11 DEF Press, Rest, vars, runVars
<1>12. CASE Police
  BY <1>5, <1>12 DEF Police, PoliceGreets, PoliceMeets, PoliceHears, PoliceAnswers,
     PoliceGivesUp, PoliceReveals, PoliceSignals, PoliceRestarts, runVars
<1> QED
  BY <1>1, <1>6, <1>7, <1>8, <1>9, <1>10, <1>11, <1>12 DEF Next, Thief

LEMMA InStepStep == Types /\ InStep /\ [Next]_vars => InStep'
<1> SUFFICES ASSUME Types, InStep, [Next]_vars PROVE InStep'
  OBVIOUS
<1>1. CASE UNCHANGED vars
  <2>1. UNCHANGED <<stage, ending, attempt, game, step, incoming_step, result, used, summaries,
                    controls, agreements, audits, turns, police, mail, gave_up, resent>>
    BY <1>1 DEF vars, runVars, inboxes, policeVars
  <2>2. Clean' => Calls' /\ Turns'
    BY <2>1, NothingMoves DEF InStep, Clean, NoRepeat
  <2>3. GamesDoNotMix'
    BY <2>1 DEF InStep, GamesDoNotMix, Own, Late, Here
  <2> QED BY <2>2, <2>3 DEF InStep
<1>2. CASE Next /\ ~(UNCHANGED vars)
  <2>1. ASSUME ~gave_up', attempt' = 0, police'.attempt = 0
        PROVE  Clean /\ Calls /\ Turns
    <3>1. Thief \/ Press \/ Police
      BY <1>2 DEF Next, Rest
    <3> QED BY <1>2, <2>1, <3>1, NeverUndone DEF Clean, InStep
  <2>2. Clean' => Calls' /\ Turns'
    BY <1>2, <2>1, CallsAndTurnsStep DEF Clean
  <2>3. GamesDoNotMix'
    BY <1>2, <2>1, OwnOnes DEF GamesDoNotMix, InStep
  <2> QED BY <2>2, <2>3 DEF InStep
<1> QED BY <1>1, <1>2

(***************************************************************************)
(* While nobody has given up waiting and nothing was restarted, a sub-game *)
(* consumes no turn of another one, and an agreement or an audit of an     *)
(* earlier one only as far back as sends of that kind were repeated after  *)
(* they had arrived: its own, where none was.  The messages of all         *)
(* sub-games share the inboxes, none is checked for where it belongs       *)
(* (run_series, TurnHandler.process), and the server keeps every copy of   *)
(* an agreement or an audit (negotiate, submit_audit).                     *)
(***************************************************************************)
THEOREM GamesStayApart == Spec => []GamesDoNotMix
<1>1. InStep => GamesDoNotMix
  BY DEF InStep
<1> QED BY <1>1, TypesHold, InStepInit, InStepStep, PTL DEF Spec
=============================================================================
