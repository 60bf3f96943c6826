-------------------------- MODULE ThiefGameProofs --------------------------
(***************************************************************************)
(* Theorems of ThiefGame, for every board, threshold, set of Police plays, *)
(* set of buttons and signals and every bound.                             *)
(***************************************************************************)
EXTENDS ThiefGame, SequenceTheorems, FiniteSetTheorems, TLAPS

-----------------------------------------------------------------------------
(* The board. *)

(* A step can be taken back. *)
LEMMA StepBack ==
  ASSUME NEW a \in Cells, NEW d \in Directions, Neighbor(a, d) \in Cells
  PROVE  \E e \in Directions : Neighbor(Neighbor(a, d), e) = a
<1>1. \A i, j \in Int : <<i - 1 + 1, j + 0 + 0>> = <<i, j>> /\ <<i + 1 - 1, j + 0 + 0>> = <<i, j>>
  OBVIOUS
<1>2. a = <<a[1], a[2]>> /\ a[1] \in Int /\ a[2] \in Int
  BY BoardSizeAssumption DEF Cells, Coordinates
<1>3. CASE d = "N"
  <2>1. Neighbor(Neighbor(a, d), "S") = a
    BY <1>2, <1>3 DEF Neighbor, Delta
  <2> QED BY <2>1 DEF Directions
<1>4. CASE d = "S"
  <2>1. Neighbor(Neighbor(a, d), "N") = a
    BY <1>2, <1>4 DEF Neighbor, Delta
  <2> QED BY <2>1 DEF Directions
<1>5. CASE d = "E"
  <2>1. Neighbor(Neighbor(a, d), "W") = a
    BY <1>2, <1>5 DEF Neighbor, Delta
  <2> QED BY <2>1 DEF Directions
<1>6. CASE d = "W"
  <2>1. Neighbor(Neighbor(a, d), "E") = a
    BY <1>2, <1>6 DEF Neighbor, Delta
  <2> QED BY <2>1 DEF Directions
<1> QED BY <1>3, <1>4, <1>5, <1>6 DEF Directions

(* A cell just left is free to return to, so a move never confines. *)
LEMMA MoveNeverConfines ==
  ASSUME NEW from \in Cells, NEW blocked, from \notin blocked,
         NEW to \in LegalMoves(from, blocked)
  PROVE  to \in Cells /\ to \notin blocked /\ ~IsConfined(to, blocked)
<1>1. PICK d \in Directions : to = Neighbor(from, d) /\ to \in Cells /\ to \notin blocked
  BY DEF LegalMoves
<1>2. PICK e \in Directions : Neighbor(to, e) = from
  BY <1>1, StepBack
<1>3. from \in LegalMoves(to, blocked)
  BY <1>2 DEF LegalMoves
<1> QED BY <1>1, <1>3 DEF IsConfined

(* An empty board of two or more rows leaves a step from every cell. *)
LEMMA EmptyBoardIsOpen ==
  ASSUME NEW a \in Cells
  PROVE  ~IsConfined(a, {})
<1>1. a = <<a[1], a[2]>> /\ a[1] \in 0 .. BoardSize - 1 /\ a[2] \in 0 .. BoardSize - 1
  BY DEF Cells, Coordinates
<1>2. CASE a[1] > 0
  <2>1. Neighbor(a, "N") \in Cells
    BY <1>1, <1>2, BoardSizeAssumption DEF Neighbor, Delta, Cells, Coordinates
  <2> QED BY <2>1 DEF IsConfined, LegalMoves, Directions
<1>3. CASE a[1] = 0
  <2>1. Neighbor(a, "S") \in Cells
    BY <1>1, <1>3, BoardSizeAssumption DEF Neighbor, Delta, Cells, Coordinates
  <2> QED BY <2>1 DEF IsConfined, LegalMoves, Directions
<1> QED BY <1>1, <1>2, <1>3, BoardSizeAssumption

-----------------------------------------------------------------------------
(* The commit chain. *)

(* Sealing one more record onto a chain that passes the audit keeps it so. *)
LEMMA SealKeepsChain ==
  ASSUME NEW log \in Seq(RecordTypes), AuditPasses(log),
         NEW c, NEW step, NEW cell
  PROVE  AuditPasses(Append(log, Seal(c, LastCommit(log), step, cell)))
<1> DEFINE new == Seal(c, LastCommit(log), step, cell)
           longer == Append(log, new)
<1>1. Len(log) \in Nat /\ DOMAIN log = 1 .. Len(log) /\ DOMAIN longer = 1 .. Len(log) + 1
  OBVIOUS
<1>2. \A i \in 1 .. Len(log) : longer[i] = log[i]
  OBVIOUS
<1>3. longer[Len(log) + 1] = new /\ new.opens
      /\ new.prior = LastCommit(log)
  BY DEF Seal
<1>4. ASSUME NEW i \in 1 .. Len(log) PROVE ~Fails(longer, i)
  <2>1. ~Fails(log, i)
    BY <1>1 DEF AuditPasses
  <2>2. i > 1 => longer[i - 1] = log[i - 1]
    BY <1>1, <1>2
  <2> QED BY <1>2, <2>1, <2>2 DEF Fails
<1> HIDE DEF longer, new
<1>5. ~Fails(longer, Len(log) + 1)
  <2>1. CASE Len(log) = 0
    <3>1. LastCommit(log) = NoCommit
      BY <2>1, EmptySeq DEF LastCommit
    <3> QED BY <1>3, <2>1, <3>1 DEF Fails
  <2>2. CASE Len(log) > 0
    <3>1. longer[Len(log)] = log[Len(log)] /\ (Len(log) + 1) - 1 = Len(log)
      BY <1>1, <1>2, <2>2
    <3>2. log # <<>>
      BY <2>2, EmptySeq
    <3>3. LastCommit(log) = log[Len(log)].commit
      BY <3>2 DEF LastCommit
    <3> QED BY <1>1, <1>3, <2>2, <3>1, <3>3 DEF Fails
  <2> QED BY <1>1, <2>1, <2>2
<1>6. \A i \in DOMAIN longer : ~Fails(longer, i)
  BY <1>1, <1>4, <1>5
<1> QED BY <1>6 DEF AuditPasses, longer, new

-----------------------------------------------------------------------------
(* Types. *)

(* The prior_commit of the next record is a number. *)
LEMMA LastCommitType ==
  ASSUME NEW log \in Seq(RecordTypes)
  PROVE  LastCommit(log) \in Nat
<1>1. CASE log = <<>>
  BY <1>1 DEF LastCommit, NoCommit
<1>2. CASE log # <<>>
  <2>1. Len(log) \in 1 .. Len(log)
    BY <1>2, EmptySeq
  <2>2. log[Len(log)] \in RecordTypes
    BY <2>1, ElementOfSeq
  <2> QED BY <1>2, <2>2 DEF LastCommit, RecordTypes, Commits
<1> QED BY <1>1, <1>2

(* Copies of a message join the wire. *)
LEMMA DeliveredType ==
  ASSUME wire \in Seq(MessageTypes), NEW m \in MessageTypes, NEW n \in Nat,
         Delivered(m, n)
  PROVE  wire' \in Seq(MessageTypes)
<1>1. [i \in 1 .. n |-> m] \in Seq(MessageTypes)
  OBVIOUS
<1> QED BY <1>1, ConcatProperties DEF Delivered

(* The counters of the bounds stay counters. *)
LEMMA CountTypes ==
  ASSUME NEW u \in [signals : Nat, repeats : Nat]
  PROVE  /\ [u EXCEPT !.signals = @ + 1] \in [signals : Nat, repeats : Nat]
         /\ [u EXCEPT !.repeats = @ + 1] \in [signals : Nat, repeats : Nat]
<1>1. u.signals + 1 \in Nat /\ u.repeats + 1 \in Nat
  OBVIOUS
<1> QED BY <1>1, Zenon

(* The initial state is well typed, and each step keeps it so. *)
LEMMA InitType == Init => TypeOK
<1> SUFFICES ASSUME Init PROVE TypeOK
  OBVIOUS
<1>1. <<>> \in Seq(TurnTypes) /\ <<>> \in Seq(RecordTypes) /\ <<>> \in Seq(MessageTypes)
      /\ <<>> \in Seq(Signals)
  BY EmptySeq
<1> QED BY <1>1, StartAssumption
    DEF Init, TypeOK, Labels, Errors, Results, NoResponse, ResponseTypes

(* One step per action; only those that build a value need a step of their own. *)
LEMMA StepType == TypeOK /\ [Next]_vars => TypeOK'
<1> SUFFICES ASSUME TypeOK, [Next]_vars PROVE TypeOK'
  OBVIOUS
<1> USE DEF TypeOK, gameVars, handlerVars, policeVars, Raise, Goto
<1>1. CASE Negotiate
  BY <1>1 DEF Negotiate, Labels, Final, Errors
<1>2. CASE OptIn
  BY <1>2 DEF OptIn, Labels
<1>3. CASE DrainSignal
  <2>1. Head(signals) \in Signals /\ Tail(signals) \in Seq(Signals)
    BY <1>3, HeadTailProperties DEF DrainSignal
  <2>2. Handled(Head(signals)) \subseteq {"peer_enabled", "opponent_quit", "pending_restart"}
    BY DEF Handled
  <2> QED BY <1>3, <2>1, <2>2 DEF DrainSignal, Labels, Final, Errors
<1>4. CASE EndPump
  BY <1>4 DEF EndPump, Labels
<1>5. CASE PassGate
  BY <1>5 DEF PassGate, Labels
<1>6. CASE StopAtGate
  BY <1>6 DEF StopAtGate, Labels, Results, AuditClaims
<1>7. CASE CheckQuit
  BY <1>7 DEF CheckQuit, Labels, Results, NoForfeitResults
<1>8. CASE CheckRestart
  BY <1>8 DEF CheckRestart, Labels, Final, Errors
<1>9. CASE DecideAndSeal
  <2>1. PICK action \in Directions \cup {"HOLD"} : position' = Destination(action)
    BY <1>9 DEF DecideAndSeal
  <2>2. position' \in Cells
    BY <2>1 DEF Destination, LegalMoves
  <2>3. seals' \in Commits /\ step_number' \in Nat
    BY <1>9 DEF DecideAndSeal, Commits
  <2>4. Seal(seals', LastCommit(records), step_number', position') \in RecordTypes
    BY <2>2, <2>3, LastCommitType DEF Seal, RecordTypes
  <2>5. records' \in Seq(RecordTypes)
    BY <1>9, <2>4 DEF DecideAndSeal
  <2> QED BY <1>9, <2>2, <2>3, <2>5 DEF DecideAndSeal, Labels, Commits
<1>10. Message(step_number, LastCommit(records), response, SurvivalReached) \in MessageTypes
  BY LastCommitType DEF Message, MessageTypes, SurvivalReached
<1>11. CASE SendTurn
  <2>1. wire' \in Seq(MessageTypes)
    BY <1>10, <1>11, DeliveredType DEF SendTurn
  <2> QED BY <1>11, <2>1 DEF SendTurn, Labels, Results, AuditClaims
<1>12. CASE SendTurnFails
  <2>1. wire' \in Seq(MessageTypes)
    BY <1>10, <1>12, DeliveredType DEF SendTurnFails
  <2> QED BY <1>12, <2>1 DEF SendTurnFails, Labels, Final, Errors
<1>13. CASE PollTimeout
  BY <1>13 DEF PollTimeout, Labels, Results, AuditClaims
<1>14. turns # <<>> => Head(turns) \in TurnTypes /\ Tail(turns) \in Seq(TurnTypes)
  BY HeadTailProperties
<1>15. CASE ReceiveReplay
  BY <1>14, <1>15 DEF ReceiveReplay, Labels
<1>16. CASE ReceiveOutOfOrder
  BY <1>14, <1>16 DEF ReceiveOutOfOrder, Labels, Final, Errors, Results, AuditClaims
<1>17. CASE ReceiveTurn
  <2> DEFINE turn == Head(turns)
             known == barriers \cup (turn.barrier \cap Cells)
             outcome == Outcome(turn, known)
  <2>1. turn \in TurnTypes /\ Tail(turns) \in Seq(TurnTypes)
    BY <1>14, <1>17 DEF ReceiveTurn
  <2>2. Answer(turn, outcome) \in ResponseTypes
    BY <2>1 DEF Answer, ResponseTypes, NoResponse, TurnTypes
  <2>3. turn.commit \in Nat /\ turn.step \in Nat /\ known \subseteq Cells
    BY <2>1 DEF TurnTypes
  <2>4. history' \in Seq(TurnTypes)
    BY <1>17, <2>1 DEF ReceiveTurn
  <2>5. pc' \in Labels /\ error' \in Errors /\ result' \in Results
    BY <1>17 DEF ReceiveTurn, Labels, Final, Errors, Results, AuditClaims
  <2> QED BY <1>17, <2>1, <2>2, <2>3, <2>4, <2>5 DEF ReceiveTurn
<1>18. CASE SendTerminal
  <2> DEFINE message == Message(step_number, TerminalCommit, response, FALSE)
  <2>1. message \in MessageTypes
    BY DEF Message, MessageTypes, TerminalCommit
  <2>2. wire' \in Seq(MessageTypes)
    <3>1. \/ \E n \in 1 .. 2 : Delivered(message, n)
          \/ \E n \in 0 .. 1 : Delivered(message, n)
      BY <1>18, Zenon DEF SendTerminal
    <3> HIDE DEF message
    <3>2. \A n \in 0 .. 2 : Delivered(message, n) => wire' \in Seq(MessageTypes)
      BY <2>1, DeliveredType
    <3> QED BY <3>1, <3>2
  <2>3. UNCHANGED <<result, position, barriers, step_number, records, handlerVars, response,
                    controls, link, turns, signals, policeVars>>
        /\ seals' = seals + 1 /\ (Goto("finish") \/ Raise("connection"))
    BY <1>18, Zenon DEF SendTerminal
  <2> QED BY <2>2, <2>3 DEF Labels, Final, Errors
<1>19. CASE SendAudit
  BY <1>19 DEF SendAudit, Labels, Final, Errors
<1>20. CASE ReceiveAudit
  BY <1>20 DEF ReceiveAudit, Judged, Labels, Final, Errors, Results
<1>21. CASE Press
  BY <1>21, ControlAssumption DEF Press, Pressed
<1>22. CASE PoliceTake
  <2>1. Head(wire) \in MessageTypes /\ Tail(wire) \in Seq(MessageTypes)
    BY <1>22, HeadTailProperties DEF PoliceTake
  <2>2. Head(wire).commit \in Nat
    BY <2>1 DEF MessageTypes
  <2> QED BY <1>22, <2>1, <2>2 DEF PoliceTake
<1>23. CASE PoliceTurn
  <2>1. PICK play \in Plays : sent' = Append(sent, Turn(Len(sent) + 1, Len(sent) + 1, play))
    BY <1>23 DEF PoliceTurn
  <2>2. Turn(Len(sent) + 1, Len(sent) + 1, play) \in TurnTypes
    BY <2>1, PlaysAssumption DEF Turn, TurnTypes
  <2>3. sent' \in Seq(TurnTypes) /\ Len(sent) + 1 \in 1 .. Len(sent')
    BY <2>1, <2>2
  <2>4. sent'[Len(sent) + 1] \in TurnTypes
    BY <2>3, ElementOfSeq
  <2> QED BY <1>23, <2>3, <2>4 DEF PoliceTurn
<1>24. CASE PoliceRepeat
  <2>1. PICK i \in DOMAIN sent : turns' = Append(turns, sent[i])
    BY <1>24 DEF PoliceRepeat
  <2>2. sent[i] \in TurnTypes
    BY <2>1, ElementOfSeq, LenProperties
  <2>3. turns' \in Seq(TurnTypes)
    BY <2>1, <2>2
  <2>4. used' \in [signals : Nat, repeats : Nat]
    BY <1>24, CountTypes DEF PoliceRepeat
  <2> QED BY <1>24, <2>3, <2>4 DEF PoliceRepeat
<1>25. CASE PoliceFault
  <2>1. PICK turn \in TurnTypes : turns' = Append(turns, turn)
    <3>1. Len(sent) + 1 \in Nat /\ Len(sent) + 2 \in Nat /\ Len(sent) + 1 + 1 \in Nat
      OBVIOUS
    <3> QED BY <1>25, <3>1 DEF PoliceFault, Turn, TurnTypes
  <2>2. turns' \in Seq(TurnTypes)
    BY <2>1
  <2> QED BY <1>25, <2>2 DEF PoliceFault
<1>26. CASE PoliceSignal
  <2>1. used' \in [signals : Nat, repeats : Nat]
    BY <1>26, CountTypes DEF PoliceSignal
  <2>2. signals' \in Seq(Signals)
    BY <1>26 DEF PoliceSignal
  <2> QED BY <1>26, <2>1, <2>2 DEF PoliceSignal
<1>27. CASE UNCHANGED vars
  BY <1>27 DEF vars
<1> QED BY <1>1, <1>2, <1>3, <1>4, <1>5, <1>6, <1>7, <1>8, <1>9, <1>11, <1>12, <1>13, <1>15,
           <1>16, <1>17, <1>18, <1>19, <1>20, <1>21, <1>22, <1>23, <1>24, <1>25, <1>26, <1>27
        DEF Next, Runtime, Police, Rest

(* Every variable holds a value of its kind, in every reachable state. *)
THEOREM TypeCorrect == Spec => []TypeOK
<1> QED BY InitType, StepType, PTL DEF Spec

-----------------------------------------------------------------------------
(* Which actions change what. *)

(* Only a decided turn moves the Thief and lengthens its log. *)
LEMMA MovesOnlyInDecide ==
  [Next]_vars => DecideAndSeal \/ UNCHANGED <<position, records, step_number>>
<1> SUFFICES ASSUME [Next]_vars, ~DecideAndSeal
             PROVE  UNCHANGED <<position, records, step_number>>
  OBVIOUS
<1> USE DEF gameVars
<1>1. ASSUME Negotiate \/ OptIn \/ DrainSignal \/ EndPump \/ PassGate \/ StopAtGate
             \/ CheckQuit \/ CheckRestart
      PROVE  UNCHANGED <<position, records, step_number>>
  BY <1>1 DEF Negotiate, OptIn, DrainSignal, EndPump, PassGate, StopAtGate, CheckQuit,
              CheckRestart
<1>2. ASSUME SendTurn \/ SendTurnFails \/ PollTimeout \/ ReceiveReplay \/ ReceiveOutOfOrder
             \/ ReceiveTurn \/ SendTerminal \/ SendAudit \/ ReceiveAudit
      PROVE  UNCHANGED <<position, records, step_number>>
  BY <1>2 DEF SendTurn, SendTurnFails, PollTimeout, ReceiveReplay, ReceiveOutOfOrder,
              ReceiveTurn, SendTerminal, SendAudit, ReceiveAudit
<1>3. ASSUME Press \/ Police \/ Rest \/ UNCHANGED vars
      PROVE  UNCHANGED <<position, records, step_number>>
  BY <1>3 DEF Press, Police, PoliceTake, PoliceTurn, PoliceRepeat, PoliceFault, PoliceSignal,
              Rest, vars
<1> QED BY <1>1, <1>2, <1>3 DEF Next, Runtime

(* Only an accepted turn touches what the handler remembers, and the barriers. *)
LEMMA FoldsOnlyInReceive ==
  [Next]_vars => ReceiveTurn \/ UNCHANGED <<barriers, history, incoming_step, seen_turns>>
<1> SUFFICES ASSUME [Next]_vars, ~ReceiveTurn
             PROVE  UNCHANGED <<barriers, history, incoming_step, seen_turns>>
  OBVIOUS
<1> USE DEF gameVars, handlerVars
<1>1. ASSUME Negotiate \/ OptIn \/ DrainSignal \/ EndPump \/ PassGate \/ StopAtGate
             \/ CheckQuit \/ CheckRestart
      PROVE  UNCHANGED <<barriers, history, incoming_step, seen_turns>>
  BY <1>1 DEF Negotiate, OptIn, DrainSignal, EndPump, PassGate, StopAtGate, CheckQuit,
              CheckRestart
<1>2. ASSUME DecideAndSeal \/ SendTurn \/ SendTurnFails \/ PollTimeout \/ ReceiveReplay
             \/ ReceiveOutOfOrder \/ SendTerminal \/ SendAudit \/ ReceiveAudit
      PROVE  UNCHANGED <<barriers, history, incoming_step, seen_turns>>
  BY <1>2 DEF DecideAndSeal, SendTurn, SendTurnFails, PollTimeout, ReceiveReplay,
              ReceiveOutOfOrder, SendTerminal, SendAudit, ReceiveAudit
<1>3. ASSUME Press \/ Police \/ Rest \/ UNCHANGED vars
      PROVE  UNCHANGED <<barriers, history, incoming_step, seen_turns>>
  BY <1>3 DEF Press, Police, PoliceTake, PoliceTurn, PoliceRepeat, PoliceFault, PoliceSignal,
              Rest, vars
<1> QED BY <1>1, <1>2, <1>3 DEF Next, Runtime

(* The GUI and the Police leave the runtime where it stands. *)
LEMMA OthersLeaveTheRun ==
  Press \/ Police \/ Rest \/ UNCHANGED vars => UNCHANGED <<pc, error, result, link>>
<1> QED BY DEF Press, Police, PoliceTake, PoliceTurn, PoliceRepeat, PoliceFault, PoliceSignal,
               Rest, vars

-----------------------------------------------------------------------------
(* The inductive invariant. *)

(* Where the run stands bounds what its result may be. *)
Phases ==
  /\ pc \in MyMove \cup {"negotiate", "send", "loop", "poll"} => result = "none"
  /\ pc = "terminal" => result = "capture"
  /\ pc = "finish" => result \in AuditClaims \cup NoForfeitResults
  /\ pc = "audit" => result \in AuditClaims
  /\ result = "tamper_forfeit_opponent" => pc = "returned"

(* The turn token, with the two facts that make it inductive: the first turn   *)
(* starts level, and a turn that reached the threshold is never waited on.     *)
Tempo ==
  /\ TurnsAlternate
  /\ pc = "negotiate" => step_number = incoming_step
  /\ pc \in MyMove \cup {"negotiate", "loop", "poll"} => step_number < SurvivalThreshold

(* The last record seals the cell the Thief stands on. *)
LastRecordIsHere == records # <<>> => records[Len(records)].position = position

(* A restart is pending only on a channel that both sides have enabled. *)
PendingNeedsConsent == "pending_restart" \in link => Active

Inv ==
  /\ TypeOK /\ Phases /\ Tempo /\ NeverTrapped /\ FoldedOnce /\ OwnLogPasses
  /\ LastRecordIsHere /\ CaptureIsReal /\ PendingNeedsConsent

-----------------------------------------------------------------------------
(* It holds initially. *)
LEMMA InitInv == Init => Inv
<1> SUFFICES ASSUME Init PROVE Inv
  OBVIOUS
<1>1. TypeOK
  BY InitType
<1>2. Phases /\ Tempo /\ PendingNeedsConsent
  BY ThresholdAssumption
     DEF Init, Phases, Tempo, TurnsAlternate, MyMove, PendingNeedsConsent
<1>3. NeverTrapped
  BY StartAssumption, EmptyBoardIsOpen DEF Init, NeverTrapped
<1>4. FoldedOnce
  BY DEF Init, FoldedOnce
<1>5. OwnLogPasses
  BY DEF Init, OwnLogPasses, AuditPasses
<1>6. LastRecordIsHere /\ CaptureIsReal
  BY DEF Init, LastRecordIsHere, CaptureIsReal
<1> QED BY <1>1, <1>2, <1>3, <1>4, <1>5, <1>6 DEF Inv

(* Every step keeps it, conjunct by conjunct. *)
LEMMA StepPhases == TypeOK /\ Phases /\ [Next]_vars => Phases'
<1> SUFFICES ASSUME TypeOK, Phases, [Next]_vars PROVE Phases'
  OBVIOUS
<1> USE DEF Phases, MyMove, AuditClaims, NoForfeitResults, Raise, Goto
<1>1. CASE Negotiate \/ OptIn \/ DrainSignal \/ EndPump \/ PassGate \/ StopAtGate
  BY <1>1 DEF Negotiate, OptIn, DrainSignal, EndPump, PassGate, StopAtGate
<1>2. CASE CheckQuit \/ CheckRestart \/ DecideAndSeal
  BY <1>2 DEF CheckQuit, CheckRestart, DecideAndSeal
<1>3. CASE SendTurn \/ SendTurnFails \/ PollTimeout
  BY <1>3 DEF SendTurn, SendTurnFails, PollTimeout
<1>4. CASE ReceiveReplay \/ ReceiveOutOfOrder \/ ReceiveTurn
  BY <1>4 DEF ReceiveReplay, ReceiveOutOfOrder, ReceiveTurn
<1>5. CASE SendTerminal \/ SendAudit
  BY <1>5 DEF SendTerminal, SendAudit
<1>6. CASE ReceiveAudit
  BY <1>6 DEF ReceiveAudit, Judged
<1>7. CASE Press \/ Police \/ Rest \/ UNCHANGED vars
  BY <1>7, OthersLeaveTheRun
<1> QED BY <1>1, <1>2, <1>3, <1>4, <1>5, <1>6, <1>7 DEF Next, Runtime

(* The token passes with DecideAndSeal and comes back with ReceiveTurn. *)
LEMMA StepTempo == TypeOK /\ Tempo /\ [Next]_vars => Tempo'
<1> SUFFICES ASSUME TypeOK, Tempo, [Next]_vars PROVE Tempo'
  OBVIOUS
<1> USE DEF Tempo, TurnsAlternate, MyMove, Raise, Goto, gameVars, handlerVars
<1>1. step_number \in Nat /\ incoming_step \in Nat /\ SurvivalThreshold \in Nat
  BY ThresholdAssumption DEF TypeOK
<1>2. CASE Negotiate \/ OptIn \/ DrainSignal \/ EndPump \/ PassGate \/ StopAtGate
  BY <1>1, <1>2 DEF Negotiate, OptIn, DrainSignal, EndPump, PassGate, StopAtGate
<1>3. CASE CheckQuit \/ CheckRestart
  BY <1>1, <1>3 DEF CheckQuit, CheckRestart
<1>4. CASE DecideAndSeal
  BY <1>1, <1>4 DEF DecideAndSeal
<1>5. CASE SendTurn \/ SendTurnFails
  BY <1>1, <1>5 DEF SendTurn, SendTurnFails, SurvivalReached
<1>6. CASE PollTimeout \/ ReceiveReplay \/ ReceiveOutOfOrder
  BY <1>1, <1>6 DEF PollTimeout, ReceiveReplay, ReceiveOutOfOrder
<1>7. CASE ReceiveTurn
  BY <1>1, <1>7 DEF ReceiveTurn, InOrder
<1>8. CASE SendTerminal
  <2>1. UNCHANGED <<step_number, incoming_step>> /\ pc = "terminal" /\ pc' \in {"finish", "raised"}
    BY <1>8 DEF SendTerminal
  <2> QED BY <1>1, <2>1
<1>9. CASE SendAudit \/ ReceiveAudit
  BY <1>1, <1>9 DEF SendAudit, ReceiveAudit
<1>10. CASE Press \/ Police \/ Rest \/ UNCHANGED vars
  <2>1. UNCHANGED <<pc, step_number, incoming_step>>
    BY <1>10 DEF Press, Police, PoliceTake, PoliceTurn, PoliceRepeat, PoliceFault, PoliceSignal,
                 Rest, vars
  <2> QED BY <2>1
<1> QED BY <1>2, <1>3, <1>4, <1>5, <1>6, <1>7, <1>8, <1>9, <1>10 DEF Next, Runtime

(* A move leaves a way back, and a barrier is judged when it is noted. *)
LEMMA StepNeverTrapped == TypeOK /\ Phases /\ NeverTrapped /\ [Next]_vars => NeverTrapped'
<1> SUFFICES ASSUME TypeOK, Phases, NeverTrapped, [Next]_vars, result' = "none"
             PROVE  position' \notin barriers' /\ ~IsConfined(position', barriers')
  BY DEF NeverTrapped
<1>1. result = "none"
  <2>1. CASE ReceiveAudit
    BY <2>1 DEF ReceiveAudit, Judged
  <2>2. CASE ~ReceiveAudit
    BY <2>2, OthersLeaveTheRun
       DEF Next, Runtime, Negotiate, OptIn, DrainSignal, EndPump, PassGate, StopAtGate, CheckQuit,
           CheckRestart, DecideAndSeal, SendTurn, SendTurnFails, PollTimeout, ReceiveReplay,
           ReceiveOutOfOrder, ReceiveTurn, SendTerminal, SendAudit
  <2> QED BY <2>1, <2>2
<1>2. position \in Cells /\ position \notin barriers /\ ~IsConfined(position, barriers)
  BY <1>1 DEF NeverTrapped, TypeOK
<1>3. CASE DecideAndSeal
  <2>1. PICK action \in Directions \cup {"HOLD"} : position' = Destination(action)
    BY <1>3 DEF DecideAndSeal
  <2>2. position' = position \/ position' \in LegalMoves(position, barriers)
    BY <2>1 DEF Destination
  <2>3. barriers' = barriers
    BY <1>3 DEF DecideAndSeal
  <2> QED BY <1>2, <2>2, <2>3, MoveNeverConfines
<1>4. CASE ReceiveTurn
  <2> DEFINE turn == Head(turns)
             known == barriers \cup (turn.barrier \cap Cells)
  <2>1. barriers' = known /\ position' = position /\ Outcome(turn, known) = "continue"
    BY <1>4 DEF ReceiveTurn
  <2>2. turn.barrier = {} \/ ~Trapped(position, turn.barrier, known)
    BY <2>1 DEF Outcome
  <2>3. CASE turn.barrier = {}
    BY <1>2, <2>1, <2>3
  <2>4. CASE ~Trapped(position, turn.barrier, known)
    BY <1>2, <2>1, <2>4 DEF Trapped
  <2> QED BY <2>2, <2>3, <2>4
<1>5. CASE ~DecideAndSeal /\ ~ReceiveTurn
  BY <1>2, <1>5, MovesOnlyInDecide, FoldsOnlyInReceive
<1> QED BY <1>3, <1>4, <1>5

(* An accepted turn is the next one and its commit is new. *)
LEMMA StepFoldedOnce == TypeOK /\ FoldedOnce /\ [Next]_vars => FoldedOnce'
<1> SUFFICES ASSUME TypeOK, FoldedOnce, [Next]_vars PROVE FoldedOnce'
  OBVIOUS
<1>1. CASE ReceiveTurn
  <2> DEFINE turn == Head(turns)
             n == Len(history)
  <2>1. /\ incoming_step' = turn.step /\ turn.step = incoming_step + 1
        /\ history' = Append(history, turn)
        /\ seen_turns' = seen_turns \cup {turn.commit} /\ turn.commit \notin seen_turns
    BY <1>1 DEF ReceiveTurn, InOrder, Replayed
  <2>2. history \in Seq(TurnTypes) /\ turn \in TurnTypes
    BY <1>1, HeadTailProperties DEF TypeOK, ReceiveTurn
  <2>3. n \in Nat /\ incoming_step = n
    BY <2>2, LenProperties DEF FoldedOnce
  <2> HIDE DEF turn, n
  <2>4. /\ DOMAIN history = 1 .. n /\ DOMAIN history' = 1 .. n + 1 /\ Len(history') = n + 1
        /\ \A i \in 1 .. n : history'[i] = history[i]
        /\ history'[n + 1] = turn
    BY <2>1, <2>2 DEF n
  <2>5. \A i \in DOMAIN history' : history'[i].step = i
    BY <2>1, <2>3, <2>4 DEF FoldedOnce
  <2>6. seen_turns' = {history'[i].commit : i \in DOMAIN history'}
    <3>1. {history'[i].commit : i \in 1 .. n + 1}
            = {history'[i].commit : i \in 1 .. n} \cup {history'[n + 1].commit}
      BY <2>3
    <3>2. {history'[i].commit : i \in 1 .. n} = {history[i].commit : i \in 1 .. n}
      BY <2>4
    <3> QED BY <2>1, <2>4, <3>1, <3>2 DEF FoldedOnce
  <2>7. ASSUME NEW i \in DOMAIN history', NEW j \in DOMAIN history', i # j
        PROVE  history'[i].commit # history'[j].commit
    <3>1. \A k \in 1 .. n : history[k].commit # turn.commit
      BY <2>1, <2>4 DEF FoldedOnce
    <3>2. CASE i \in 1 .. n /\ j \in 1 .. n
      BY <2>4, <2>7, <3>2 DEF FoldedOnce
    <3>3. CASE i = n + 1 /\ j \in 1 .. n
      BY <2>4, <3>1, <3>3
    <3>4. CASE i \in 1 .. n /\ j = n + 1
      BY <2>4, <3>1, <3>4
    <3> QED BY <2>3, <2>4, <2>7, <3>2, <3>3, <3>4
  <2> QED BY <2>1, <2>3, <2>4, <2>5, <2>6, <2>7 DEF FoldedOnce
<1>2. CASE UNCHANGED <<barriers, history, incoming_step, seen_turns>>
  BY <1>2 DEF FoldedOnce
<1> QED BY <1>1, <1>2, FoldsOnlyInReceive

(* Each turn made seals the next record onto the chain. *)
LEMMA StepOwnLog ==
  TypeOK /\ OwnLogPasses /\ LastRecordIsHere /\ [Next]_vars
    => OwnLogPasses' /\ LastRecordIsHere'
<1> SUFFICES ASSUME TypeOK, OwnLogPasses, LastRecordIsHere, [Next]_vars
             PROVE  OwnLogPasses' /\ LastRecordIsHere'
  OBVIOUS
<1>1. CASE DecideAndSeal
  <2> DEFINE new == Seal(seals', LastCommit(records), step_number', position')
             n == Len(records)
  <2>1. records' = Append(records, new) /\ step_number' = step_number + 1
    BY <1>1 DEF DecideAndSeal
  <2>2. records \in Seq(RecordTypes) /\ step_number \in Nat /\ n = step_number
    BY DEF TypeOK, OwnLogPasses
  <2>3. AuditPasses(records')
    <3> HIDE DEF n
    <3> QED BY <2>1, <2>2, SealKeepsChain DEF OwnLogPasses
  <2>4. new.step = step_number' /\ new.position = position'
    BY DEF Seal
  <2> HIDE DEF new
  <2>5. /\ Len(records') = n + 1 /\ DOMAIN records = 1 .. n /\ DOMAIN records' = 1 .. n + 1
        /\ \A i \in 1 .. n : records'[i] = records[i]
        /\ records'[n + 1] = new
    BY <2>1, <2>2
  <2> HIDE DEF n
  <2>6. \A i \in DOMAIN records' : records'[i].step = i
    BY <2>1, <2>2, <2>4, <2>5 DEF OwnLogPasses
  <2> QED BY <2>1, <2>2, <2>3, <2>4, <2>5, <2>6 DEF OwnLogPasses, LastRecordIsHere
<1>2. CASE UNCHANGED <<position, records, step_number>>
  BY <1>2 DEF OwnLogPasses, LastRecordIsHere, AuditPasses, Fails
<1> QED BY <1>1, <1>2, MovesOnlyInDecide

(* A capture is declared on the turn that causes it, and nothing moves after. *)
LEMMA StepCaptureIsReal ==
  TypeOK /\ Phases /\ Tempo /\ OwnLogPasses /\ LastRecordIsHere /\ CaptureIsReal /\ [Next]_vars
    => CaptureIsReal'
<1> SUFFICES ASSUME TypeOK, Phases, Tempo, OwnLogPasses, LastRecordIsHere, CaptureIsReal,
                    [Next]_vars, result' = "capture"
             PROVE  \/ /\ history'[Len(history')].barrier # {}
                       /\ Trapped(position', history'[Len(history')].barrier, barriers')
                    \/ records'[Len(records')].position \in history'[Len(history')].claim
  BY DEF CaptureIsReal
<1>1. CASE ReceiveTurn
  <2> DEFINE turn == Head(turns)
             known == barriers \cup (turn.barrier \cap Cells)
  <2>1. turn \in TurnTypes /\ history \in Seq(TurnTypes) /\ pc = "poll"
    BY <1>1, HeadTailProperties DEF TypeOK, ReceiveTurn
  <2>2. /\ history' = Append(history, turn) /\ barriers' = known
        /\ UNCHANGED <<position, records>>
        /\ Outcome(turn, known) \in {"trapped", "caught"}
    BY <1>1, <2>1 DEF ReceiveTurn, Phases
  <2>3. history'[Len(history')] = turn
    BY <2>1, <2>2
  <2>4. \/ turn.barrier # {} /\ Trapped(position, turn.barrier, known)
        \/ position \in turn.claim
    BY <2>2 DEF Outcome
  <2>5. Len(records) \in Nat /\ Len(records) > 0
    BY <2>1 DEF Tempo, TurnsAlternate, OwnLogPasses, TypeOK
  <2>6. records[Len(records)].position = position
    BY <2>5, EmptySeq DEF LastRecordIsHere
  <2> HIDE DEF turn, known
  <2> QED BY <2>2, <2>3, <2>4, <2>6
<1>2. CASE ~ReceiveTurn
  <2>1. result = "capture"
    BY <1>2, OthersLeaveTheRun
       DEF Next, Runtime, Negotiate, OptIn, DrainSignal, EndPump, PassGate, StopAtGate, CheckQuit,
           CheckRestart, DecideAndSeal, SendTurn, SendTurnFails, PollTimeout, ReceiveReplay,
           ReceiveOutOfOrder, SendTerminal, SendAudit, ReceiveAudit, Judged
  <2>2. ~DecideAndSeal
    BY <2>1 DEF DecideAndSeal, Phases, MyMove
  <2>3. UNCHANGED <<position, records, barriers, history>>
    BY <1>2, <2>2, MovesOnlyInDecide, FoldsOnlyInReceive
  <2> QED BY <2>1, <2>3 DEF CaptureIsReal
<1> QED BY <1>1, <1>2

(* Flags of the link are never taken back, so a granted restart stays granted. *)
LEMMA StepPending == PendingNeedsConsent /\ [Next]_vars => PendingNeedsConsent'
<1> SUFFICES ASSUME PendingNeedsConsent, [Next]_vars PROVE PendingNeedsConsent'
  OBVIOUS
<1> USE DEF PendingNeedsConsent, Active
<1>1. CASE OptIn
  BY <1>1 DEF OptIn
<1>2. CASE DrainSignal
  BY <1>2 DEF DrainSignal, Handled
<1>3. CASE CheckRestart
  BY <1>3 DEF CheckRestart
<1>4. CASE Press \/ Police \/ Rest \/ UNCHANGED vars
  BY <1>4, OthersLeaveTheRun
<1>5. CASE UNCHANGED link
  BY <1>5
<1>6. ~OptIn /\ ~DrainSignal /\ ~CheckRestart /\ Runtime => UNCHANGED link
  BY DEF Runtime, Negotiate, EndPump, PassGate, StopAtGate, CheckQuit, DecideAndSeal, SendTurn,
         SendTurnFails, PollTimeout, ReceiveReplay, ReceiveOutOfOrder, ReceiveTurn, SendTerminal,
         SendAudit, ReceiveAudit
<1> QED BY <1>1, <1>2, <1>3, <1>4, <1>5, <1>6 DEF Next

(* The conjuncts together. *)
LEMMA StepInv == Inv /\ [Next]_vars => Inv'
<1> QED BY StepType, StepPhases, StepTempo, StepNeverTrapped, StepFoldedOnce, StepOwnLog,
           StepCaptureIsReal, StepPending
        DEF Inv

(* The inductive invariant holds in every reachable state. *)
THEOREM Invariance == Spec => []Inv
<1> QED BY InitInv, StepInv, PTL DEF Spec

-----------------------------------------------------------------------------
(* What holds in every reachable state. *)

(* The Thief and the Police alternate strictly, and the threshold is not passed. *)
THEOREM Alternation == Spec => []TurnsAlternate
<1>1. Inv => TurnsAlternate
  BY DEF Inv, Tempo
<1> QED BY <1>1, Invariance, PTL

(* A game that is on never has the Thief on a barrier or without a step. *)
THEOREM NoTrap == Spec => []NeverTrapped
<1>1. Inv => NeverTrapped
  BY DEF Inv
<1> QED BY <1>1, Invariance, PTL

(* Police turns are folded in once and in order, however they are delivered. *)
THEOREM ExactlyOnce == Spec => []FoldedOnce
<1>1. Inv => FoldedOnce
  BY DEF Inv
<1> QED BY <1>1, Invariance, PTL

(* The Thief's own log always passes the audit that the Police runs on it. *)
THEOREM HonestLogPasses == Spec => []OwnLogPasses
<1>1. Inv => OwnLogPasses
  BY DEF Inv
<1> QED BY <1>1, Invariance, PTL

(* A capture has its cause in the last turn of the Police. *)
THEOREM CaptureHasCause == Spec => []CaptureIsReal
<1>1. Inv => CaptureIsReal
  BY DEF Inv
<1> QED BY <1>1, Invariance, PTL

(* A peer's restart is honoured only on a channel that both have enabled. *)
THEOREM Consent == Spec => RestartNeedsConsent
<1>1. Inv /\ [Next]_vars
        => (error' = "restart" /\ error # "restart" => "restart" \in controls \/ Active)
  <2> SUFFICES ASSUME Inv, [Next]_vars, error' = "restart", error # "restart"
               PROVE  "restart" \in controls \/ Active
    OBVIOUS
  <2>1. CheckRestart
    BY OthersLeaveTheRun
       DEF Next, Runtime, Negotiate, OptIn, DrainSignal, EndPump, PassGate, StopAtGate, CheckQuit,
           DecideAndSeal, SendTurn, SendTurnFails, PollTimeout, ReceiveReplay, ReceiveOutOfOrder,
           ReceiveTurn, SendTerminal, SendAudit, ReceiveAudit, Raise, Goto
  <2> QED BY <2>1 DEF CheckRestart, Inv, PendingNeedsConsent, Goto
<1>2. Inv /\ [Next]_vars
        => [error' = "restart" /\ error # "restart" => "restart" \in controls \/ Active]_vars
  BY <1>1
<1> QED BY <1>2, Invariance, PTL DEF Spec, RestartNeedsConsent

(* Nothing is played or folded in after the verdict, and only the audit of a *)
(* decided game may still change it.                                         *)
THEOREM Finality == Spec => VerdictIsFinal
<1> DEFINE Kept == UNCHANGED <<position, barriers, step_number, records, history>>
           Forfeited == pc = "audit" /\ result \in {"capture", "survival"}
                          /\ result' = "tamper_forfeit_opponent"
<1>1. Inv /\ [Next]_vars /\ result # "none" => Kept /\ (result' = result \/ Forfeited)
  <2> SUFFICES ASSUME Inv, [Next]_vars, result # "none"
               PROVE  Kept /\ (result' = result \/ Forfeited)
    OBVIOUS
  <2>1. pc \notin MyMove \cup {"negotiate", "send", "loop", "poll"}
    BY DEF Inv, Phases
  <2>2. Kept
    BY <2>1, MovesOnlyInDecide, FoldsOnlyInReceive DEF DecideAndSeal, ReceiveTurn, MyMove
  <2>3. ReceiveAudit => result' = result \/ Forfeited
    BY DEF ReceiveAudit, Judged, Inv, Phases, AuditClaims, NoForfeitResults
  <2>4. SendTerminal \/ SendAudit => result' = result
    BY DEF SendTerminal, SendAudit
  <2>5. Press \/ Police \/ Rest \/ UNCHANGED vars => result' = result
    BY OthersLeaveTheRun
  <2>6. Runtime => ReceiveAudit \/ SendTerminal \/ SendAudit
    BY <2>1 DEF Runtime, Negotiate, OptIn, DrainSignal, EndPump, PassGate, StopAtGate,
                CheckQuit, CheckRestart, DecideAndSeal, SendTurn, SendTurnFails, PollTimeout,
                ReceiveReplay, ReceiveOutOfOrder, ReceiveTurn, MyMove
  <2> QED BY <2>2, <2>3, <2>4, <2>5, <2>6 DEF Next
<1>2. Inv /\ [Next]_vars => [result # "none" => Kept /\ (result' = result \/ Forfeited)]_vars
  BY <1>1
<1> QED BY <1>2, Invariance, PTL DEF Spec, VerdictIsFinal

-----------------------------------------------------------------------------
(* The answers to the capture claims. *)

(* What a truthful answer to turn k is. *)
Truth(k) == [claim |-> history[k].claim, caught |-> records[k].position \in history[k].claim]

Truthful(k, answer) ==
  answer = Truth(k) \/ (answer = NoResponse /\ history[k].claim = {})

(* A barrier that decides the game leaves its turn without an answer. *)
Excused(k, answer) == answer = NoResponse /\ history[k].barrier # {}

(* What AnswersClaims says of one message, with the ranges that keep it true   *)
(* while the log and the history grow.                                         *)
Answers(m) ==
  /\ m.step \in DOMAIN records /\ AnsweredTurn(m) <= Len(history)
  /\ AnsweredTurn(m) > 0 =>
       \/ Truthful(AnsweredTurn(m), m.response)
       \/ IsTerminal(m) /\ Excused(AnsweredTurn(m), m.response)

(* The answer in hand, from the turn it answers to the message it leaves with. *)
InHand ==
  /\ pc = "negotiate" => history = <<>>
  /\ pc \in MyMove \cup {"send"} /\ history # <<>> => Truthful(Len(history), response)
  /\ pc = "terminal" =>
       /\ history # <<>>
       /\ Truthful(Len(history), response) \/ Excused(Len(history), response)

(* Every commit of the log was drawn, so the next seal is none of them. *)
Drawn == \A i \in DOMAIN records : records[i].commit <= seals

AnswersInv == InHand /\ Drawn /\ \A i \in DOMAIN wire : Answers(wire[i])

(* The log and the history only grow at their ends, and seals are never undone. *)
LEMMA Growth ==
  ASSUME TypeOK, [Next]_vars
  PROVE  /\ \A i \in DOMAIN records : i \in DOMAIN records' /\ records'[i] = records[i]
         /\ Len(history) <= Len(history')
         /\ \A i \in 1 .. Len(history) : history'[i] = history[i]
         /\ seals <= seals'
<1>1. records \in Seq(RecordTypes) /\ history \in Seq(TurnTypes) /\ seals \in Nat
  BY DEF TypeOK
<1>2. \A i \in DOMAIN records : i \in DOMAIN records' /\ records'[i] = records[i]
  <2>1. CASE DecideAndSeal
    <3>1. PICK new : records' = Append(records, new)
      BY <2>1 DEF DecideAndSeal
    <3> QED BY <1>1, <3>1
  <2> QED BY <2>1, MovesOnlyInDecide
<1>3. Len(history) <= Len(history') /\ \A i \in 1 .. Len(history) : history'[i] = history[i]
  <2>1. CASE ReceiveTurn
    <3>1. history' = Append(history, Head(turns))
      BY <2>1 DEF ReceiveTurn
    <3> HIDE DEF ReceiveTurn
    <3>2. Len(history) \in Nat /\ Len(history') = Len(history) + 1
      BY <1>1, <3>1
    <3> QED BY <1>1, <3>1, <3>2
  <2>2. Len(history) <= Len(history)
    BY <1>1, LenProperties
  <2> QED BY <2>1, <2>2, FoldsOnlyInReceive
<1>4. seals <= seals'
  <2>1. CASE DecideAndSeal
    BY <1>1, <2>1 DEF DecideAndSeal
  <2>2. CASE SendTerminal
    BY <1>1, <2>2 DEF SendTerminal
  <2>3. CASE Press \/ Police \/ Rest \/ UNCHANGED vars
    BY <1>1, <2>3 DEF Press, Police, PoliceTake, PoliceTurn, PoliceRepeat, PoliceFault,
                      PoliceSignal, Rest, vars, gameVars
  <2>4. CASE Runtime /\ ~DecideAndSeal /\ ~SendTerminal
    BY <1>1, <2>4
       DEF Runtime, Negotiate, OptIn, DrainSignal, EndPump, PassGate, StopAtGate, CheckQuit,
           CheckRestart, SendTurn, SendTurnFails, PollTimeout, ReceiveReplay,
           ReceiveOutOfOrder, ReceiveTurn, SendAudit, ReceiveAudit, gameVars
  <2> QED BY <2>1, <2>2, <2>3, <2>4 DEF Next
<1> QED BY <1>2, <1>3, <1>4

(* A message that answers its turn goes on answering it. *)
LEMMA AnswersKept ==
  ASSUME TypeOK, [Next]_vars, NEW m \in MessageTypes, Answers(m)
  PROVE  Answers(m)'
<1>1. m.step \in DOMAIN records' /\ records'[m.step] = records[m.step]
  BY Growth DEF Answers
<1>2. AnsweredTurn(m)' = AnsweredTurn(m) /\ IsTerminal(m)' = IsTerminal(m)
  BY <1>1 DEF AnsweredTurn, IsTerminal
<1> DEFINE k == AnsweredTurn(m)
<1>3. k \in Int /\ k <= Len(history) /\ k <= m.step /\ m.step \in Nat
  BY DEF Answers, AnsweredTurn, MessageTypes
<1>4. Len(history) <= Len(history') /\ Len(history) \in Nat /\ Len(history') \in Nat
  BY Growth, StepType, LenProperties DEF TypeOK
<1>5. k > 0 => history'[k] = history[k] /\ records'[k] = records[k]
  <2>1. k > 0 => k \in 1 .. Len(history)
    BY <1>3, <1>4
  <2>2. k > 0 => k \in DOMAIN records
    <3>1. DOMAIN records = 1 .. Len(records) /\ Len(records) \in Nat
      BY LenProperties DEF TypeOK
    <3> QED BY <1>3, <3>1 DEF Answers
  <2> QED BY <2>1, <2>2, Growth
<1>6. k <= Len(history')
  BY <1>3, <1>4
<1> HIDE DEF k
<1>7. AnsweredTurn(m)' = k /\ AnsweredTurn(m) = k
  BY <1>2 DEF k
<1> QED BY <1>1, <1>2, <1>5, <1>6, <1>7 DEF Answers, Truthful, Truth, Excused

(* What is delivered joins the end of the wire. *)
LEMMA DeliveredElements ==
  ASSUME wire \in Seq(MessageTypes), NEW m \in MessageTypes, NEW n \in Nat, Delivered(m, n)
  PROVE  \A i \in DOMAIN wire' : wire'[i] = m \/ \E j \in DOMAIN wire : wire'[i] = wire[j]
<1> DEFINE new == [i \in 1 .. n |-> m]
<1>1. new \in Seq(MessageTypes) /\ Len(new) = n /\ \A i \in 1 .. n : new[i] = m
  OBVIOUS
<1>2. wire' = wire \o new
  BY DEF Delivered
<1> HIDE DEF new
<1>3. /\ DOMAIN wire = 1 .. Len(wire) /\ Len(wire) \in Nat
      /\ DOMAIN wire' = 1 .. Len(wire) + n
      /\ \A i \in 1 .. Len(wire) + n :
           wire'[i] = IF i <= Len(wire) THEN wire[i] ELSE new[i - Len(wire)]
  BY <1>1, <1>2, ConcatProperties, LenProperties
<1>4. ASSUME NEW i \in DOMAIN wire' PROVE wire'[i] = m \/ \E j \in DOMAIN wire : wire'[i] = wire[j]
  <2>1. CASE i <= Len(wire)
    BY <1>3, <2>1
  <2>2. CASE ~(i <= Len(wire))
    <3>1. i - Len(wire) \in 1 .. n
      BY <1>3, <2>2
    <3> QED BY <1>1, <1>3, <2>2, <3>1
  <2> QED BY <2>1, <2>2
<1> QED BY <1>4

(* The message of a turn answers the Police turn before it. *)
LEMMA TurnMessageAnswers ==
  ASSUME TypeOK, FoldedOnce, OwnLogPasses, InHand, Tempo, pc = "send"
  PROVE  LET m == Message(step_number, LastCommit(records), response, SurvivalReached)
         IN  m \in MessageTypes /\ Answers(m)
<1> DEFINE m == Message(step_number, LastCommit(records), response, SurvivalReached)
           n == Len(history)
<1>1. m \in MessageTypes
  BY LastCommitType DEF TypeOK, Message, MessageTypes, SurvivalReached
<1>2. n \in Nat /\ step_number = n + 1 /\ Len(records) = n + 1 /\ DOMAIN records = 1 .. n + 1
  BY LenProperties DEF TypeOK, FoldedOnce, OwnLogPasses, Tempo, TurnsAlternate
<1>3. m.step = n + 1 /\ m.commit = records[n + 1].commit /\ m.response = response
  BY <1>2, EmptySeq DEF Message, LastCommit
<1>4. ~IsTerminal(m) /\ AnsweredTurn(m) = n
  BY <1>2, <1>3 DEF IsTerminal, AnsweredTurn
<1>5. n > 0 => Truthful(n, response)
  BY <1>2, EmptySeq DEF InHand
<1>6. n <= Len(history)
  BY <1>2
<1> HIDE DEF m, n
<1>7. Answers(m)
  BY <1>2, <1>3, <1>4, <1>5, <1>6 DEF Answers
<1> QED BY <1>1, <1>7 DEF m

(* The terminal message answers the Police turn that decided the game. *)
LEMMA TerminalMessageAnswers ==
  ASSUME TypeOK, FoldedOnce, OwnLogPasses, InHand, Drawn, Tempo, pc = "terminal"
  PROVE  LET m == Message(step_number, TerminalCommit, response, FALSE)
         IN  m \in MessageTypes /\ Answers(m)
<1> DEFINE m == Message(step_number, TerminalCommit, response, FALSE)
           n == Len(history)
<1>1. m \in MessageTypes
  BY DEF TypeOK, Message, MessageTypes, TerminalCommit
<1>2. n \in Nat /\ step_number = n /\ Len(records) = n /\ DOMAIN records = 1 .. n
  BY LenProperties DEF TypeOK, FoldedOnce, OwnLogPasses, Tempo, TurnsAlternate
<1>3. m.step = n /\ m.commit = seals + 1 /\ m.response = response
  BY <1>2 DEF Message, TerminalCommit
<1>4. n > 0 /\ n \in DOMAIN records
  BY <1>2, EmptySeq DEF InHand
<1>5. records[n].commit <= seals /\ records[n].commit \in Nat /\ seals \in Nat
  <2>1. records[n] \in RecordTypes /\ seals \in Nat
    BY <1>2, <1>4, ElementOfSeq DEF TypeOK
  <2> QED BY <1>4, <2>1 DEF Drawn, RecordTypes, Commits
<1>6. IsTerminal(m) /\ AnsweredTurn(m) = n
  <2> HIDE DEF m, n
  <2>1. records[n].commit # seals + 1
    BY <1>5
  <2> QED BY <1>3, <2>1 DEF IsTerminal, AnsweredTurn
<1>7. Truthful(n, response) \/ Excused(n, response)
  BY DEF InHand
<1>8. n <= Len(history)
  BY <1>2
<1> HIDE DEF m, n
<1>9. Answers(m)
  BY <1>3, <1>4, <1>6, <1>7, <1>8 DEF Answers
<1> QED BY <1>1, <1>9 DEF m

(* The answer is set with the turn it answers and kept until the next one. *)
LEMMA StepInHand ==
  TypeOK /\ Phases /\ Tempo /\ FoldedOnce /\ OwnLogPasses /\ LastRecordIsHere /\ InHand
    /\ [Next]_vars => InHand'
<1> SUFFICES ASSUME TypeOK, Phases, Tempo, FoldedOnce, OwnLogPasses, LastRecordIsHere, InHand,
                    [Next]_vars
             PROVE  InHand'
  OBVIOUS
<1>1. /\ history \in Seq(TurnTypes) /\ records \in Seq(RecordTypes)
      /\ Len(history) \in Nat /\ Len(history) = incoming_step /\ Len(records) = step_number
      /\ DOMAIN records = 1 .. Len(records)
  BY LenProperties DEF TypeOK, FoldedOnce, OwnLogPasses
<1>2. CASE ReceiveTurn
  <2> DEFINE turn == Head(turns)
             known == barriers \cup (turn.barrier \cap Cells)
             outcome == Outcome(turn, known)
             n == Len(history) + 1
  <2>1. turn \in TurnTypes
    BY <1>2, HeadTailProperties DEF TypeOK, ReceiveTurn
  <2>2. /\ history' = Append(history, turn) /\ UNCHANGED <<position, records>>
        /\ response' = Answer(turn, outcome) /\ pc = "poll"
    BY <1>2 DEF ReceiveTurn
  <2>3. pc' = "terminal" => outcome \in {"trapped", "caught"}
    BY <1>2 DEF ReceiveTurn, Goto, Raise
  <2>4. pc' \in MyMove \cup {"send"} => outcome = "continue"
    BY <1>2 DEF ReceiveTurn, Goto, Raise, MyMove
  <2>5. /\ outcome = "trapped" => turn.barrier # {}
        /\ outcome = "caught" => position \in turn.claim
        /\ outcome = "continue" => position \notin turn.claim
    BY DEF Outcome
  <2> HIDE DEF turn, known, outcome
  <2>6. Len(history') = n /\ history'[n] = turn /\ history' # <<>>
    BY <1>1, <2>1, <2>2
  <2>7. n = step_number /\ n > 0
    BY <1>1, <2>2 DEF Tempo, TurnsAlternate
  <2>8. records'[n].position = position
    BY <1>1, <2>2, <2>7, EmptySeq DEF LastRecordIsHere
  <2> HIDE DEF n
  <2>9. outcome \in {"continue", "caught"} => Truthful(Len(history), response)'
    <3>1. ASSUME outcome \in {"continue", "caught"}, turn.claim # {}
          PROVE  response' = [claim |-> turn.claim, caught |-> position \in turn.claim]
      BY <2>2, <2>5, <3>1 DEF Answer
    <3>2. ASSUME turn.claim = {} PROVE response' = NoResponse
      BY <2>2, <3>2 DEF Answer
    <3> QED BY <2>6, <2>8, <3>1, <3>2 DEF Truthful, Truth
  <2>10. outcome = "trapped" => Excused(Len(history), response)'
    BY <2>2, <2>5, <2>6 DEF Excused, Answer
  <2>11. pc' # "negotiate"
    BY <1>2 DEF ReceiveTurn, Goto, Raise
  <2> QED BY <2>3, <2>4, <2>6, <2>9, <2>10, <2>11 DEF InHand
<1>3. CASE ~ReceiveTurn
  <2>1. UNCHANGED <<response, history>>
    <3>1. Runtime => UNCHANGED response
      BY <1>3 DEF Runtime, Negotiate, OptIn, DrainSignal, EndPump, PassGate, StopAtGate,
                  CheckQuit, CheckRestart, DecideAndSeal, SendTurn, SendTurnFails, PollTimeout,
                  ReceiveReplay, ReceiveOutOfOrder, SendTerminal, SendAudit, ReceiveAudit
    <3>2. Press \/ Police \/ Rest \/ UNCHANGED vars => UNCHANGED response
      BY DEF Press, Police, PoliceTake, PoliceTurn, PoliceRepeat, PoliceFault, PoliceSignal,
             Rest, vars
    <3> QED BY <1>3, <3>1, <3>2, FoldsOnlyInReceive DEF Next
  <2>2. pc' = "terminal" => pc = "terminal"
    BY <1>3, OthersLeaveTheRun
       DEF Next, Runtime, Negotiate, OptIn, DrainSignal, EndPump, PassGate, StopAtGate,
           CheckQuit, CheckRestart, DecideAndSeal, SendTurn, SendTurnFails, PollTimeout,
           ReceiveReplay, ReceiveOutOfOrder, SendTerminal, SendAudit, ReceiveAudit, Goto, Raise
  <2>3. pc' \in MyMove \cup {"send"} => pc \in MyMove \cup {"send", "negotiate"}
    BY <1>3, OthersLeaveTheRun
       DEF Next, Runtime, Negotiate, OptIn, DrainSignal, EndPump, PassGate, StopAtGate,
           CheckQuit, CheckRestart, DecideAndSeal, SendTurn, SendTurnFails, PollTimeout,
           ReceiveReplay, ReceiveOutOfOrder, SendTerminal, SendAudit, ReceiveAudit, Goto, Raise,
           MyMove
  <2>4. pc' = "negotiate" => pc = "negotiate"
    BY <1>3, OthersLeaveTheRun
       DEF Next, Runtime, Negotiate, OptIn, DrainSignal, EndPump, PassGate, StopAtGate,
           CheckQuit, CheckRestart, DecideAndSeal, SendTurn, SendTurnFails, PollTimeout,
           ReceiveReplay, ReceiveOutOfOrder, SendTerminal, SendAudit, ReceiveAudit, Goto, Raise
  <2> DEFINE n == Len(history)
  <2>5. history # <<>> => n > 0 /\ n \in DOMAIN records
    BY <1>1, EmptySeq DEF Tempo, TurnsAlternate, TypeOK
  <2>6. history # <<>> => records'[n] = records[n]
    BY <2>5, Growth
  <2>7. Len(history') = n
    BY <2>1
  <2> HIDE DEF n
  <2>8. history # <<>> /\ Truthful(n, response) => Truthful(Len(history), response)'
    BY <2>1, <2>6, <2>7 DEF Truthful, Truth
  <2>9. Excused(n, response) => Excused(Len(history), response)'
    BY <2>1, <2>7 DEF Excused
  <2> QED BY <2>1, <2>2, <2>3, <2>4, <2>7, <2>8, <2>9 DEF InHand, n
<1> QED BY <1>2, <1>3

(* Every commit of the log was drawn. *)
LEMMA StepDrawn == TypeOK /\ Drawn /\ [Next]_vars => Drawn'
<1> SUFFICES ASSUME TypeOK, Drawn, [Next]_vars PROVE Drawn'
  OBVIOUS
<1>1. /\ records \in Seq(RecordTypes) /\ seals \in Nat /\ seals' \in Nat
      /\ \A i \in DOMAIN records : records[i].commit \in Nat
  <2>1. records \in Seq(RecordTypes) /\ seals \in Nat /\ seals' \in Nat
    BY StepType DEF TypeOK
  <2>2. ASSUME NEW i \in DOMAIN records PROVE records[i].commit \in Nat
    <3>1. records[i] \in RecordTypes
      BY <2>1, <2>2, ElementOfSeq, LenProperties
    <3> QED BY <3>1 DEF RecordTypes, Commits
  <2> QED BY <2>1, <2>2
<1>2. CASE DecideAndSeal
  <2> DEFINE new == Seal(seals', LastCommit(records), step_number', position')
  <2>1. records' = Append(records, new) /\ seals' = seals + 1
    BY <1>2 DEF DecideAndSeal
  <2>2. new.commit = seals'
    BY DEF Seal
  <2> HIDE DEF new
  <2>3. ASSUME NEW i \in DOMAIN records' PROVE records'[i].commit <= seals'
    <3>1. CASE i \in DOMAIN records
      <4>1. records'[i] = records[i]
        BY <1>1, <2>1, <3>1
      <4>2. records[i].commit <= seals /\ records[i].commit \in Nat
        BY <1>1, <3>1 DEF Drawn
      <4> QED BY <1>1, <2>1, <4>1, <4>2
    <3>2. CASE i \notin DOMAIN records
      <4>1. records'[i] = new
        BY <1>1, <2>1, <2>3, <3>2
      <4> QED BY <1>1, <2>2, <4>1
    <3> QED BY <3>1, <3>2
  <2> QED BY <2>3 DEF Drawn
<1>3. CASE UNCHANGED records
  <2>1. seals <= seals'
    BY Growth
  <2>2. ASSUME NEW i \in DOMAIN records PROVE records[i].commit <= seals'
    <3>1. records[i].commit <= seals /\ records[i].commit \in Nat
      BY <2>2, <1>1 DEF Drawn
    <3> QED BY <1>1, <2>1, <3>1
  <2> QED BY <1>3, <2>2 DEF Drawn
<1> QED BY <1>2, <1>3, MovesOnlyInDecide

(* What is on the wire was there before or is the message the run has built. *)
LEMMA StepAnswers == Inv /\ AnswersInv /\ [Next]_vars => (\A i \in DOMAIN wire : Answers(wire[i]))'
<1> SUFFICES ASSUME Inv, AnswersInv, [Next]_vars, NEW i \in DOMAIN wire'
             PROVE  Answers(wire[i])'
  OBVIOUS
<1>1. TypeOK /\ wire \in Seq(MessageTypes) /\ DOMAIN wire = 1 .. Len(wire) /\ Len(wire) \in Nat
  BY LenProperties DEF Inv, TypeOK
<1>2. \A j \in DOMAIN wire : wire[j] \in MessageTypes /\ Answers(wire[j])
  BY <1>1, ElementOfSeq DEF AnswersInv
<1>3. PICK m \in MessageTypes : wire'[i] = m /\ Answers(m)
  <2>1. CASE SendTurn \/ SendTurnFails
    <3> DEFINE m == Message(step_number, LastCommit(records), response, SurvivalReached)
    <3>1. m \in MessageTypes /\ Answers(m)
      BY <2>1, TurnMessageAnswers DEF SendTurn, SendTurnFails, Inv, AnswersInv
    <3>2. \E n \in Nat : Delivered(m, n)
      <4>1. (\E n \in 1 .. 2 : Delivered(m, n)) \/ (\E n \in 0 .. 1 : Delivered(m, n))
        BY <2>1, Zenon DEF SendTurn, SendTurnFails
      <4> HIDE DEF m
      <4> QED BY <4>1
    <3> HIDE DEF m
    <3>3. PICK n \in Nat : Delivered(m, n)
      BY <3>2
    <3>4. wire'[i] = m \/ \E j \in DOMAIN wire : wire'[i] = wire[j]
      BY <1>1, <3>1, <3>3, DeliveredElements
    <3> QED BY <1>2, <3>1, <3>4
  <2>2. CASE SendTerminal
    <3> DEFINE m == Message(step_number, TerminalCommit, response, FALSE)
    <3>1. m \in MessageTypes /\ Answers(m)
      <4>1. pc = "terminal"
        BY <2>2 DEF SendTerminal
      <4> QED BY <4>1, TerminalMessageAnswers DEF Inv, AnswersInv
    <3>2. \E n \in Nat : Delivered(m, n)
      <4>1. (\E n \in 1 .. 2 : Delivered(m, n)) \/ (\E n \in 0 .. 1 : Delivered(m, n))
        BY <2>2, Zenon DEF SendTerminal
      <4> HIDE DEF m
      <4> QED BY <4>1
    <3> HIDE DEF m
    <3>3. PICK n \in Nat : Delivered(m, n)
      BY <3>2
    <3>4. wire'[i] = m \/ \E j \in DOMAIN wire : wire'[i] = wire[j]
      BY <1>1, <3>1, <3>3, DeliveredElements
    <3> QED BY <1>2, <3>1, <3>4
  <2>3. CASE PoliceTake
    <3>1. wire' = Tail(wire) /\ wire # <<>>
      BY <2>3 DEF PoliceTake
    <3>2. i + 1 \in DOMAIN wire /\ wire'[i] = wire[i + 1]
      BY <1>1, <3>1
    <3> QED BY <1>2, <3>2
  <2>4. CASE UNCHANGED wire
    BY <1>2, <2>4
  <2>5. SendTurn \/ SendTurnFails \/ SendTerminal \/ PoliceTake \/ UNCHANGED wire
    <3>1. Runtime => SendTurn \/ SendTurnFails \/ SendTerminal \/ UNCHANGED wire
      BY DEF Runtime, Negotiate, OptIn, DrainSignal, EndPump, PassGate, StopAtGate, CheckQuit,
             CheckRestart, DecideAndSeal, PollTimeout, ReceiveReplay, ReceiveOutOfOrder,
             ReceiveTurn, SendAudit, ReceiveAudit
    <3>2. Press \/ Police \/ Rest \/ UNCHANGED vars => PoliceTake \/ UNCHANGED wire
      BY DEF Press, Police, PoliceTurn, PoliceRepeat, PoliceFault, PoliceSignal, Rest, vars
    <3> QED BY <3>1, <3>2 DEF Next
  <2> QED BY <2>1, <2>2, <2>3, <2>4, <2>5
<1>4. Answers(m)'
  BY <1>1, <1>3, AnswersKept
<1> QED BY <1>3, <1>4 DEF Answers, AnsweredTurn, IsTerminal, Truthful, Truth, Excused

(* Every message on the wire answers the claim of the turn it follows, by where *)
(* the Thief stood then, whatever is retried, repeated, stopped or restarted.   *)
THEOREM ClaimsAnswered == Spec => []AnswersClaims
<1>1. Init => AnswersInv
  <2> SUFFICES ASSUME Init PROVE AnswersInv
    OBVIOUS
  <2>1. DOMAIN records = {} /\ DOMAIN wire = {}
    BY DEF Init
  <2> QED BY <2>1 DEF Init, AnswersInv, InHand, Drawn, MyMove
<1>2. Inv /\ AnswersInv /\ [Next]_vars => AnswersInv'
  BY StepInHand, StepDrawn, StepAnswers DEF Inv, AnswersInv
<1>3. AnswersInv => AnswersClaims
  BY DEF AnswersInv, Answers, AnswersClaims, Truthful, Truth, Excused
<1> QED BY <1>1, <1>2, <1>3, Invariance, PTL DEF Spec

-----------------------------------------------------------------------------
(* The order of the deliveries. *)

(* What a Police without a fault puts into the inbox. *)
Proper(turn) ==
  turn.commit = turn.step /\ turn.step \in 1 .. Len(sent) /\ turn.barrier \subseteq Cells

(* A turn waits behind every turn before it that is not folded in yet. *)
Waiting(k, n) == \E j \in 1 .. n : turns[j].step = k

Delivery ==
  /\ \A i \in DOMAIN sent : sent[i].step = i /\ Proper(sent[i])
  /\ \A i \in DOMAIN history : history[i].commit = i
  /\ \A i \in DOMAIN turns : Proper(turns[i])
  /\ \A i \in DOMAIN turns : \A k \in Nat :
       incoming_step < k /\ k < turns[i].step => Waiting(k, i - 1)
  /\ \A k \in Nat : incoming_step < k /\ k <= Len(sent) => Waiting(k, Len(turns))

OrderInv == ~faulty => error # "turn" /\ Delivery

(* What a proper Police puts into the inbox is in order when it is first met. *)
LEMMA HeadInOrder ==
  ASSUME TypeOK, FoldedOnce, Delivery, turns # <<>>, ~Replayed(Head(turns))
  PROVE  InOrder(Head(turns)) /\ Proper(Head(turns))
<1> DEFINE turn == Head(turns)
<1>1. /\ turn = turns[1] /\ 1 \in DOMAIN turns /\ Len(sent) \in Nat /\ incoming_step \in Nat
      /\ incoming_step = Len(history) /\ DOMAIN history = 1 .. Len(history)
  BY EmptySeq, LenProperties DEF TypeOK, FoldedOnce
<1>2. Proper(turn)
  BY <1>1 DEF Delivery
<1>3. turn.step \in Nat /\ turn.step > 0 /\ turn.commit = turn.step
  BY <1>1, <1>2 DEF Proper
<1>4. turn.step > incoming_step
  <2>1. ASSUME turn.step \in 1 .. incoming_step PROVE FALSE
    <3>1. history[turn.step].commit = turn.commit
      BY <1>1, <1>3, <2>1 DEF Delivery
    <3>2. turn.commit \in seen_turns
      BY <1>1, <2>1, <3>1 DEF FoldedOnce
    <3> QED BY <3>2 DEF Replayed
  <2> QED BY <1>1, <1>3, <2>1
<1>5. \A k \in Nat : incoming_step < k /\ k < turn.step => Waiting(k, 0)
  BY <1>1 DEF Delivery
<1>6. ~(incoming_step + 1 < turn.step)
  BY <1>1, <1>5 DEF Waiting
<1>7. turn.step = incoming_step + 1
  BY <1>1, <1>3, <1>4, <1>6
<1> QED BY <1>2, <1>7 DEF InOrder

(* Taking a turn that is folded in leaves the others in their order. *)
LEMMA TailKeepsOrder ==
  ASSUME TypeOK, Delivery, turns # <<>>, turns' = Tail(turns), UNCHANGED sent,
         incoming_step' \in Nat, incoming_step <= incoming_step',
         turns[1].step <= incoming_step'
  PROVE  /\ \A i \in DOMAIN turns' : Proper(turns[i])'
         /\ \A i \in DOMAIN turns' : \A k \in Nat :
              incoming_step' < k /\ k < turns'[i].step => Waiting(k, i - 1)'
         /\ \A k \in Nat : incoming_step' < k /\ k <= Len(sent') => Waiting(k, Len(turns))'
<1>1. /\ turns \in Seq(TurnTypes) /\ Len(turns) \in Nat /\ Len(turns) > 0
      /\ DOMAIN turns = 1 .. Len(turns)
      /\ DOMAIN turns' = 1 .. Len(turns) - 1 /\ Len(turns') = Len(turns) - 1
      /\ \A i \in 1 .. Len(turns) - 1 : turns'[i] = turns[i + 1]
  BY EmptySeq DEF TypeOK
<1>2. ASSUME NEW i \in DOMAIN turns PROVE turns[i].step \in Nat
  <2>1. turns[i] \in TurnTypes
    BY <1>1, ElementOfSeq
  <2> QED BY <2>1 DEF TurnTypes
<1>3. incoming_step \in Nat /\ Len(sent) \in Nat
  BY LenProperties DEF TypeOK
<1>4. ASSUME NEW n \in 0 .. Len(turns) - 1, NEW k \in Nat, k > incoming_step', Waiting(k, n + 1)
      PROVE  \E j \in 1 .. n : turns'[j].step = k
  <2>1. PICK j \in 1 .. n + 1 : turns[j].step = k
    BY <1>4 DEF Waiting
  <2>2. j # 1 /\ j \in DOMAIN turns
    BY <1>1, <1>2, <1>3, <1>4, <2>1
  <2>3. j - 1 \in 1 .. n /\ turns'[j - 1] = turns[j]
    <3>1. j - 1 \in 1 .. n /\ j - 1 \in 1 .. Len(turns) - 1 /\ (j - 1) + 1 = j
      BY <1>1, <1>4, <2>1, <2>2
    <3> QED BY <1>1, <3>1
  <2> QED BY <2>1, <2>3
<1>5. ASSUME NEW i \in DOMAIN turns' PROVE Proper(turns[i])'
  <2>1. Proper(turns[i + 1]) /\ turns'[i] = turns[i + 1]
    BY <1>1 DEF Delivery
  <2> QED BY <2>1 DEF Proper
<1>6. ASSUME NEW i \in DOMAIN turns', NEW k \in Nat, incoming_step' < k, k < turns'[i].step
      PROVE  Waiting(k, i - 1)'
  <2>1. i + 1 \in DOMAIN turns /\ turns'[i] = turns[i + 1] /\ i - 1 \in 0 .. Len(turns) - 1
        /\ i \in Nat
    BY <1>1
  <2>2. incoming_step < k /\ k < turns[i + 1].step
    BY <1>3, <1>6, <2>1
  <2>3. Waiting(k, (i + 1) - 1)
    BY <2>1, <2>2 DEF Delivery
  <2>4. (i + 1) - 1 = (i - 1) + 1
    BY <2>1
  <2>5. Waiting(k, (i - 1) + 1)
    BY <2>3, <2>4
  <2>6. \E j \in 1 .. i - 1 : turns'[j].step = k
    BY <1>4, <1>6, <2>1, <2>5
  <2> QED BY <2>6 DEF Waiting
<1>7. ASSUME NEW k \in Nat, incoming_step' < k, k <= Len(sent') PROVE Waiting(k, Len(turns))'
  <2>1. incoming_step < k /\ k <= Len(sent)
    BY <1>3, <1>7
  <2>2. Waiting(k, Len(turns))
    BY <2>1 DEF Delivery
  <2>3. Len(turns) - 1 \in 0 .. Len(turns) - 1 /\ (Len(turns) - 1) + 1 = Len(turns)
    BY <1>1
  <2>4. Waiting(k, (Len(turns) - 1) + 1)
    BY <2>2, <2>3
  <2>5. \E j \in 1 .. Len(turns) - 1 : turns'[j].step = k
    BY <1>4, <1>7, <2>3, <2>4
  <2> QED BY <1>1, <2>5 DEF Waiting
<1> QED BY <1>5, <1>6, <1>7

(* A turn that waits behind all those before it joins the end in order. *)
LEMMA AppendKeepsOrder ==
  ASSUME TypeOK, Delivery, NEW turn \in TurnTypes, turns' = Append(turns, turn),
         UNCHANGED <<incoming_step, history>>,
         Len(sent) <= Len(sent'), Len(sent') \in Nat,
         turn.commit = turn.step, turn.step \in 1 .. Len(sent'), turn.barrier \subseteq Cells,
         turn.step <= Len(sent) + 1,
         \A k \in Nat : Len(sent) < k /\ k <= Len(sent') => k = turn.step
  PROVE  /\ \A i \in DOMAIN turns' : Proper(turns[i])'
         /\ \A i \in DOMAIN turns' : \A k \in Nat :
              incoming_step' < k /\ k < turns'[i].step => Waiting(k, i - 1)'
         /\ \A k \in Nat : incoming_step' < k /\ k <= Len(sent') => Waiting(k, Len(turns))'
<1> DEFINE n == Len(turns)
<1>1. /\ turns \in Seq(TurnTypes) /\ n \in Nat /\ DOMAIN turns = 1 .. n
      /\ DOMAIN turns' = 1 .. n + 1 /\ Len(turns') = n + 1 /\ turns'[n + 1] = turn
      /\ \A i \in 1 .. n : turns'[i] = turns[i]
  BY DEF TypeOK
<1>2. incoming_step \in Nat /\ Len(sent) \in Nat
  BY LenProperties DEF TypeOK
<1> HIDE DEF n
<1>3. ASSUME NEW i \in DOMAIN turns' PROVE Proper(turns[i])'
  <2>1. CASE i \in 1 .. n
    <3>1. Proper(turns[i]) /\ turns'[i] = turns[i]
      BY <1>1, <2>1 DEF Delivery
    <3> QED BY <1>2, <3>1 DEF Proper
  <2>2. CASE i = n + 1
    BY <1>1, <2>2 DEF Proper
  <2> QED BY <1>1, <2>1, <2>2
<1>4. ASSUME NEW k, NEW m \in 0 .. n, Waiting(k, m)
      PROVE  \E j \in 1 .. m : turns'[j].step = k
  <2>1. PICK j \in 1 .. m : turns[j].step = k
    BY <1>4 DEF Waiting
  <2>2. j \in 1 .. n
    BY <1>1
  <2> QED BY <1>1, <2>1, <2>2
<1>5. ASSUME NEW k \in Nat, incoming_step < k, k <= Len(sent) PROVE Waiting(k, n)
  BY <1>5 DEF Delivery, n
<1>6. ASSUME NEW i \in DOMAIN turns', NEW k \in Nat, incoming_step' < k, k < turns'[i].step
      PROVE  Waiting(k, i - 1)'
  <2>1. CASE i \in 1 .. n
    <3>1. incoming_step < k /\ k < turns[i].step /\ i \in DOMAIN turns
      BY <1>1, <1>6, <2>1
    <3>2. Waiting(k, i - 1)
      BY <3>1 DEF Delivery
    <3>3. i - 1 \in 0 .. n
      BY <1>1, <2>1
    <3> QED BY <1>4, <3>2, <3>3 DEF Waiting
  <2>2. CASE i = n + 1
    <3>1. incoming_step < k /\ k <= Len(sent)
      BY <1>1, <1>2, <1>6, <2>2
    <3>2. Waiting(k, n) /\ n \in 0 .. n /\ i - 1 = n
      BY <1>1, <1>5, <2>2, <3>1
    <3> QED BY <1>4, <3>2 DEF Waiting
  <2> QED BY <1>1, <2>1, <2>2
<1>7. ASSUME NEW k \in Nat, incoming_step' < k, k <= Len(sent') PROVE Waiting(k, Len(turns))'
  <2>1. CASE k <= Len(sent)
    <3>1. \E j \in 1 .. n : turns'[j].step = k
      BY <1>1, <1>4, <1>5, <1>7, <2>1
    <3>2. \E j \in 1 .. n + 1 : turns'[j].step = k
      BY <1>1, <3>1
    <3> QED BY <1>1, <3>2 DEF Waiting
  <2>2. CASE ~(k <= Len(sent))
    <3>1. n + 1 \in 1 .. n + 1 /\ turns'[n + 1].step = k
      BY <1>1, <1>2, <1>7, <2>2
    <3> QED BY <1>1, <3>1 DEF Waiting
  <2> QED BY <1>2, <2>1, <2>2
<1> QED BY <1>3, <1>6, <1>7

(* A Police without a fault keeps its deliveries in order, and the run folds *)
(* them in by their own numbers.                                             *)
LEMMA StepOrder == TypeOK /\ FoldedOnce /\ OrderInv /\ [Next]_vars => OrderInv'
<1> SUFFICES ASSUME TypeOK, FoldedOnce, OrderInv, [Next]_vars, ~faulty'
             PROVE  (error # "turn")' /\ Delivery'
  BY DEF OrderInv
<1>1. ~faulty
  BY DEF Next, Runtime, Negotiate, OptIn, DrainSignal, EndPump, PassGate, StopAtGate, CheckQuit,
         CheckRestart, DecideAndSeal, SendTurn, SendTurnFails, PollTimeout, ReceiveReplay,
         ReceiveOutOfOrder, ReceiveTurn, SendTerminal, SendAudit, ReceiveAudit, Press, Police,
         PoliceTake, PoliceTurn, PoliceRepeat, PoliceFault, PoliceSignal, Rest, vars, policeVars
<1>2. error # "turn" /\ Delivery
  BY <1>1 DEF OrderInv
<1>3. /\ turns \in Seq(TurnTypes) /\ sent \in Seq(TurnTypes) /\ history \in Seq(TurnTypes)
      /\ Len(sent) \in Nat /\ incoming_step \in Nat /\ incoming_step = Len(history)
      /\ DOMAIN sent = 1 .. Len(sent)
  BY LenProperties DEF TypeOK, FoldedOnce
<1>4. turns # <<>> => Head(turns) = turns[1] /\ 1 \in DOMAIN turns /\ Head(turns) \in TurnTypes
  BY <1>3, EmptySeq, HeadTailProperties
<1>5. CASE ReceiveReplay
  <2>1. turns # <<>> /\ turns' = Tail(turns) /\ Replayed(Head(turns)) /\ error' = error
        /\ UNCHANGED <<sent, incoming_step, history>>
    BY <1>5 DEF ReceiveReplay, Goto, policeVars
  <2>2. turns[1].step <= incoming_step
    <3>1. PICK i \in DOMAIN history : turns[1].commit = history[i].commit
      BY <1>4, <2>1 DEF Replayed, FoldedOnce
    <3>2. turns[1].step = i
      BY <1>2, <1>4, <2>1, <3>1 DEF Delivery, Proper
    <3> QED BY <1>3, <3>2, LenProperties
  <2>3. incoming_step <= incoming_step' /\ incoming_step' \in Nat
    BY <1>3, <2>1
  <2>4. /\ \A i \in DOMAIN turns' : Proper(turns[i])'
        /\ \A i \in DOMAIN turns' : \A k \in Nat :
             incoming_step' < k /\ k < turns'[i].step => Waiting(k, i - 1)'
        /\ \A k \in Nat : incoming_step' < k /\ k <= Len(sent') => Waiting(k, Len(turns))'
    BY <1>2, <2>1, <2>2, <2>3, TailKeepsOrder
  <2> QED BY <1>2, <2>1, <2>4 DEF Delivery, Proper
<1>6. CASE ReceiveTurn
  <2> DEFINE turn == Head(turns)
  <2>1. /\ turns # <<>> /\ turns' = Tail(turns) /\ ~Replayed(turn)
        /\ UNCHANGED sent /\ incoming_step' = turn.step /\ history' = Append(history, turn)
    BY <1>6 DEF ReceiveTurn, policeVars
  <2>2. turn.step = incoming_step + 1 /\ Proper(turn)
    BY <1>2, <2>1, HeadInOrder DEF InOrder
  <2>3. error' # "turn"
    <3>1. Outcome(turn, barriers \cup (turn.barrier \cap Cells)) # "reject"
      BY <2>2 DEF Outcome, Proper
    <3> QED BY <1>2, <1>6, <3>1 DEF ReceiveTurn, Goto
  <2> HIDE DEF turn
  <2>4. turns[1] = turn /\ turn \in TurnTypes
    BY <1>4, <2>1 DEF turn
  <2>5. incoming_step' \in Nat /\ incoming_step <= incoming_step' /\ turns[1].step <= incoming_step'
    BY <1>3, <2>1, <2>2, <2>4
  <2>6. /\ \A i \in DOMAIN turns' : Proper(turns[i])'
        /\ \A i \in DOMAIN turns' : \A k \in Nat :
             incoming_step' < k /\ k < turns'[i].step => Waiting(k, i - 1)'
        /\ \A k \in Nat : incoming_step' < k /\ k <= Len(sent') => Waiting(k, Len(turns))'
    BY <1>2, <2>1, <2>5, TailKeepsOrder
  <2>7. ASSUME NEW i \in DOMAIN history' PROVE history'[i].commit = i
    <3>1. CASE i \in DOMAIN history
      <4>1. history'[i] = history[i]
        BY <1>3, <2>1, <2>4, <3>1
      <4> QED BY <1>2, <3>1, <4>1 DEF Delivery
    <3>2. CASE i \notin DOMAIN history
      <4>1. i = Len(history) + 1 /\ history'[i] = turn
        BY <1>3, <2>1, <2>4, <2>7, <3>2
      <4> QED BY <1>3, <2>2, <4>1 DEF Proper
    <3> QED BY <3>1, <3>2
  <2> QED BY <1>2, <2>1, <2>3, <2>6, <2>7 DEF Delivery, Proper
<1>7. CASE PoliceTurn
  <2>1. PICK play \in Plays : sent' = Append(sent, Turn(Len(sent) + 1, Len(sent) + 1, play))
    BY <1>7 DEF PoliceTurn
  <2> DEFINE turn == Turn(Len(sent) + 1, Len(sent) + 1, play)
  <2>2. /\ turn \in TurnTypes /\ turn.step = Len(sent) + 1 /\ turn.commit = Len(sent) + 1
        /\ turn.barrier \subseteq Cells
    BY <1>3, PlaysAssumption DEF Turn, TurnTypes
  <2> HIDE DEF turn
  <2>3. /\ Len(sent') = Len(sent) + 1 /\ sent'[Len(sent) + 1] = turn
        /\ DOMAIN sent' = 1 .. Len(sent) + 1
        /\ \A i \in 1 .. Len(sent) : sent'[i] = sent[i]
    <3>1. sent' = Append(sent, turn)
      BY <2>1 DEF turn
    <3> QED BY <1>3, <2>2, <3>1
  <2>4. turns' = Append(turns, turn) /\ UNCHANGED <<incoming_step, history, error>>
    BY <1>7, <2>3 DEF PoliceTurn, handlerVars
  <2>5. /\ \A i \in DOMAIN turns' : Proper(turns[i])'
        /\ \A i \in DOMAIN turns' : \A k \in Nat :
             incoming_step' < k /\ k < turns'[i].step => Waiting(k, i - 1)'
        /\ \A k \in Nat : incoming_step' < k /\ k <= Len(sent') => Waiting(k, Len(turns))'
    <3>1. /\ Len(sent) <= Len(sent') /\ Len(sent') \in Nat /\ turn.step \in 1 .. Len(sent')
          /\ turn.step <= Len(sent) + 1
          /\ \A k \in Nat : Len(sent) < k /\ k <= Len(sent') => k = turn.step
      BY <1>3, <2>2, <2>3
    <3> QED BY <1>2, <2>2, <2>4, <3>1, AppendKeepsOrder
  <2>6. ASSUME NEW i \in DOMAIN sent' PROVE sent'[i].step = i /\ Proper(sent[i])'
    <3>1. CASE i \in DOMAIN sent
      <4>1. sent'[i] = sent[i] /\ sent[i].step = i /\ Proper(sent[i])
        BY <1>2, <1>3, <2>3, <3>1 DEF Delivery
      <4> QED BY <1>3, <2>3, <4>1 DEF Proper
    <3>2. CASE i = Len(sent) + 1
      BY <1>3, <2>2, <2>3, <3>2 DEF Proper
    <3> QED BY <1>3, <2>3, <3>1, <3>2
  <2> QED BY <1>2, <2>4, <2>5, <2>6 DEF Delivery
<1>8. CASE PoliceRepeat
  <2>1. PICK i \in DOMAIN sent : turns' = Append(turns, sent[i])
    BY <1>8 DEF PoliceRepeat
  <2>2. UNCHANGED <<sent, incoming_step, history, error>>
    BY <1>8 DEF PoliceRepeat, handlerVars
  <2>3. sent[i] \in TurnTypes /\ sent[i].step = i /\ Proper(sent[i])
    BY <1>2, <1>3, ElementOfSeq DEF Delivery
  <2>4. /\ \A j \in DOMAIN turns' : Proper(turns[j])'
        /\ \A j \in DOMAIN turns' : \A k \in Nat :
             incoming_step' < k /\ k < turns'[j].step => Waiting(k, j - 1)'
        /\ \A k \in Nat : incoming_step' < k /\ k <= Len(sent') => Waiting(k, Len(turns))'
    <3>1. /\ Len(sent) <= Len(sent') /\ Len(sent') \in Nat /\ sent[i].step \in 1 .. Len(sent')
          /\ sent[i].step <= Len(sent) + 1
          /\ sent[i].commit = sent[i].step /\ sent[i].barrier \subseteq Cells
          /\ \A k \in Nat : Len(sent) < k /\ k <= Len(sent') => k = sent[i].step
      BY <1>3, <2>1, <2>2, <2>3 DEF Proper
    <3> QED BY <1>2, <2>1, <2>2, <2>3, <3>1, AppendKeepsOrder
  <2> QED BY <1>2, <2>2, <2>4 DEF Delivery, Proper
<1>9. CASE ReceiveOutOfOrder
  BY <1>2, <1>9, HeadInOrder DEF ReceiveOutOfOrder
<1>10. CASE PoliceFault
  BY <1>10 DEF PoliceFault
<1>11. CASE UNCHANGED <<turns, sent, incoming_step, history>> /\ error' # "turn"
  BY <1>2, <1>11 DEF Delivery, Proper, Waiting
<1>12. CASE ~ReceiveReplay /\ ~ReceiveTurn /\ ~PoliceTurn /\ ~PoliceRepeat /\ ~ReceiveOutOfOrder
            /\ ~PoliceFault
  <2> USE DEF gameVars, handlerVars, policeVars, Raise, Goto
  <2>1. ASSUME Negotiate \/ OptIn \/ DrainSignal \/ EndPump \/ PassGate \/ StopAtGate
               \/ CheckQuit \/ CheckRestart
        PROVE  UNCHANGED <<turns, sent, incoming_step, history>> /\ error' # "turn"
    BY <1>2, <2>1 DEF Negotiate, OptIn, DrainSignal, EndPump, PassGate, StopAtGate, CheckQuit,
                      CheckRestart
  <2>2. ASSUME DecideAndSeal \/ SendTurn \/ SendTurnFails \/ PollTimeout \/ SendTerminal
               \/ SendAudit \/ ReceiveAudit
        PROVE  UNCHANGED <<turns, sent, incoming_step, history>> /\ error' # "turn"
    BY <1>2, <2>2 DEF DecideAndSeal, SendTurn, SendTurnFails, PollTimeout, SendTerminal,
                      SendAudit, ReceiveAudit
  <2>3. ASSUME Press \/ PoliceTake \/ PoliceSignal \/ Rest \/ UNCHANGED vars
        PROVE  UNCHANGED <<turns, sent, incoming_step, history>> /\ error' # "turn"
    BY <1>2, <2>3 DEF Press, PoliceTake, PoliceSignal, Rest, vars
  <2> QED BY <1>11, <1>12, <2>1, <2>2, <2>3 DEF Next, Runtime, Police
<1> QED BY <1>5, <1>6, <1>7, <1>8, <1>9, <1>10, <1>12

(* Repeats and late deliveries of proper turns never make the handler raise. *)
THEOREM OnlyFaultsRaise == Spec => []TurnErrorNeedsFault
<1>1. Init => OrderInv
  <2> SUFFICES ASSUME Init PROVE error # "turn" /\ Delivery
    BY DEF OrderInv
  <2>1. /\ DOMAIN sent = {} /\ DOMAIN history = {} /\ DOMAIN turns = {} /\ Len(sent) = 0
        /\ incoming_step = 0
    BY DEF Init
  <2> QED BY <2>1 DEF Init, Delivery
<1>2. Inv /\ OrderInv /\ [Next]_vars => OrderInv'
  BY StepOrder DEF Inv
<1>3. OrderInv => TurnErrorNeedsFault
  BY DEF OrderInv, TurnErrorNeedsFault
<1> QED BY <1>1, <1>2, <1>3, Invariance, PTL DEF Spec

-----------------------------------------------------------------------------
(* The end of the game, as both sides hold it. *)

Playing == MyMove \cup {"negotiate", "send", "loop", "poll"}

AtEnd == {"finish", "audit", "returned"}

(* Seals are numbered by the turns, nothing is heard that was not sealed, and  *)
(* the Police has answered no more messages than it heard.                     *)
Sealing ==
  /\ pc \in Playing \cup {"terminal"} => seals = step_number
  /\ \A i \in DOMAIN records : records[i].commit = i
  /\ \A c \in heard : 0 < c /\ c <= seals
  /\ \A i \in DOMAIN wire : 0 < wire[i].commit /\ wire[i].commit <= seals
  /\ pc = "send" => seals \notin heard /\ \A i \in DOMAIN wire : wire[i].commit # seals
  /\ Len(sent) <= seals

(* A turn in the inbox is one the Police has sent, is off the board, or comes  *)
(* before the turn it should follow: only the first kind is ever folded in.    *)
Genuine(turn) == turn.step \in DOMAIN sent /\ turn = sent[turn.step]

Early(i) ==
  /\ incoming_step < turns[i].step - 1
  /\ \A j \in 1 .. i - 1 : turns[j].step # turns[i].step - 1

Sources ==
  pc # "raised" =>
    /\ \A i \in DOMAIN sent : sent[i].step = i
    /\ \A i \in DOMAIN history : i \in DOMAIN sent /\ history[i] = sent[i]
    /\ \A i \in DOMAIN turns :
         Genuine(turns[i]) \/ ~(turns[i].barrier \subseteq Cells) \/ Early(i)
    /\ ~faulty => \A i \in DOMAIN turns : Genuine(turns[i])

Overturned == {"capture", "tamper_forfeit_opponent"}

(* Nothing on the wire tells of an end before there is one. *)
Silent ==
  /\ pc \in Playing => ~response.caught
  /\ pc \in Playing \cup {"terminal"} =>
       \A i \in DOMAIN wire : ~wire[i].response.caught /\ ~wire[i].win
  /\ \A i \in DOMAIN wire : wire[i].response.caught => result \in Overturned
  /\ verdict = "capture" => result \in Overturned
  /\ pc \in Playing \cup {"terminal"} /\ verdict = "survival" =>
       sent # <<>> /\ sent[Len(sent)].win

(* The message with the last seal is still to come, and it says what it must.  *)
Coming(caught) ==
  /\ verdict = "none" /\ seals \notin heard
  /\ \E i \in DOMAIN wire : wire[i].commit = seals
  /\ \A i \in DOMAIN wire :
       IF wire[i].commit = seals
         THEN wire[i].response.caught = caught /\ wire[i].win = ~caught
         ELSE ~wire[i].response.caught /\ ~wire[i].win

(* A capture leaves the Police nothing to send before it hears of it.          *)
Ending ==
  /\ pc = "terminal" /\ response.caught => verdict = "none" /\ Len(sent) = seals
  /\ pc \in AtEnd /\ response.caught =>
       verdict = "capture" \/ (Coming(TRUE) /\ Len(sent) = seals - 1)
  /\ pc \in AtEnd /\ step_number > incoming_step /\ result = "survival" =>
       verdict = "survival" \/ Coming(FALSE)

OutcomeInv == Sealing /\ Sources /\ Silent /\ Ending

(* Which actions touch the mail and the clocks of the two sides. *)
LEMMA Frames ==
  [Next]_vars =>
    /\ PoliceTake \/ UNCHANGED heard
    /\ PoliceTurn \/ UNCHANGED sent
    /\ PoliceTake \/ PoliceTurn \/ UNCHANGED verdict
    /\ SendTurn \/ SendTurnFails \/ SendTerminal \/ PoliceTake \/ UNCHANGED wire
    /\ ReceiveReplay \/ ReceiveOutOfOrder \/ ReceiveTurn \/ PoliceTurn \/ PoliceRepeat
         \/ PoliceFault \/ UNCHANGED turns
    /\ DecideAndSeal \/ SendTerminal \/ UNCHANGED seals
    /\ ReceiveTurn \/ UNCHANGED response
    /\ PoliceFault \/ UNCHANGED faulty
<1> SUFFICES ASSUME [Next]_vars
             PROVE  /\ PoliceTake \/ UNCHANGED heard
                    /\ PoliceTurn \/ UNCHANGED sent
                    /\ PoliceTake \/ PoliceTurn \/ UNCHANGED verdict
                    /\ SendTurn \/ SendTurnFails \/ SendTerminal \/ PoliceTake \/ UNCHANGED wire
                    /\ ReceiveReplay \/ ReceiveOutOfOrder \/ ReceiveTurn \/ PoliceTurn
                         \/ PoliceRepeat \/ PoliceFault \/ UNCHANGED turns
                    /\ DecideAndSeal \/ SendTerminal \/ UNCHANGED seals
                    /\ ReceiveTurn \/ UNCHANGED response
                    /\ PoliceFault \/ UNCHANGED faulty
  OBVIOUS
<1> USE DEF gameVars, policeVars
<1>1. CASE Negotiate \/ OptIn \/ DrainSignal \/ EndPump \/ PassGate \/ StopAtGate
           \/ CheckQuit \/ CheckRestart
  BY <1>1 DEF Negotiate, OptIn, DrainSignal, EndPump, PassGate, StopAtGate, CheckQuit,
              CheckRestart
<1>2. CASE DecideAndSeal \/ SendTurn \/ SendTurnFails \/ PollTimeout \/ SendAudit \/ ReceiveAudit
  BY <1>2 DEF DecideAndSeal, SendTurn, SendTurnFails, PollTimeout, SendAudit, ReceiveAudit
<1>3. CASE ReceiveReplay \/ ReceiveOutOfOrder \/ ReceiveTurn \/ SendTerminal
  BY <1>3 DEF ReceiveReplay, ReceiveOutOfOrder, ReceiveTurn, SendTerminal
<1>4. CASE Press \/ Police \/ Rest \/ UNCHANGED vars
  BY <1>4 DEF Press, Police, PoliceTake, PoliceTurn, PoliceRepeat, PoliceFault, PoliceSignal,
              Rest, vars
<1> QED BY <1>1, <1>2, <1>3, <1>4 DEF Next, Runtime

(* Where the run can come from. *)
LEMMA Moves ==
  [Next]_vars =>
    /\ pc' \in Playing => pc \in Playing
    /\ pc' = "send" => pc = "send" \/ DecideAndSeal
    /\ pc' = "terminal" => pc = "terminal" \/ ReceiveTurn
    /\ pc' \in AtEnd =>
         pc \in AtEnd \/ SendTerminal \/ SendTurn \/ ReceiveTurn \/ pc \in Playing
    /\ pc = "raised" => pc' = "raised"
<1> SUFFICES ASSUME [Next]_vars
             PROVE  /\ pc' \in Playing => pc \in Playing
                    /\ pc' = "send" => pc = "send" \/ DecideAndSeal
                    /\ pc' = "terminal" => pc = "terminal" \/ ReceiveTurn
                    /\ pc' \in AtEnd =>
                         pc \in AtEnd \/ SendTerminal \/ SendTurn \/ ReceiveTurn \/ pc \in Playing
                    /\ pc = "raised" => pc' = "raised"
  OBVIOUS
<1> USE DEF Playing, AtEnd, MyMove, Raise, Goto
<1>1. CASE Negotiate \/ OptIn \/ DrainSignal \/ EndPump \/ PassGate \/ StopAtGate
           \/ CheckQuit \/ CheckRestart
  BY <1>1 DEF Negotiate, OptIn, DrainSignal, EndPump, PassGate, StopAtGate, CheckQuit,
              CheckRestart
<1>2. CASE DecideAndSeal \/ SendTurn \/ SendTurnFails \/ PollTimeout \/ SendAudit \/ ReceiveAudit
  BY <1>2 DEF DecideAndSeal, SendTurn, SendTurnFails, PollTimeout, SendAudit, ReceiveAudit
<1>3. CASE ReceiveReplay \/ ReceiveOutOfOrder \/ ReceiveTurn \/ SendTerminal
  BY <1>3 DEF ReceiveReplay, ReceiveOutOfOrder, ReceiveTurn, SendTerminal
<1>4. CASE Press \/ Police \/ Rest \/ UNCHANGED vars
  BY <1>4, OthersLeaveTheRun
<1> QED BY <1>1, <1>2, <1>3, <1>4 DEF Next, Runtime

(* A set of numbers from 1 to n has at most n members. *)
LEMMA CountUpTo ==
  ASSUME NEW S, NEW n \in Nat, \A c \in S : c \in Nat /\ 0 < c /\ c <= n
  PROVE  Cardinality(S) \in Nat /\ Cardinality(S) <= n
<1>1. S \subseteq 1 .. n
  OBVIOUS
<1>2. IsFiniteSet(1 .. n) /\ Cardinality(1 .. n) = n
  BY FS_Interval
<1>3. IsFiniteSet(S) /\ Cardinality(S) <= Cardinality(1 .. n)
  BY <1>1, <1>2, FS_Subset
<1> QED BY <1>2, <1>3, FS_CardinalityType

(* The elements of the wire after a message was delivered n times. *)
LEMMA DeliveredOnTop ==
  ASSUME wire \in Seq(MessageTypes), NEW m \in MessageTypes, NEW n \in Nat, Delivered(m, n)
  PROVE  /\ \A i \in DOMAIN wire' : wire'[i] = m \/ \E j \in DOMAIN wire : wire'[i] = wire[j]
         /\ n > 0 => \E i \in DOMAIN wire' : wire'[i] = m
<1>1. \A i \in DOMAIN wire' : wire'[i] = m \/ \E j \in DOMAIN wire : wire'[i] = wire[j]
  BY DeliveredElements
<1>2. ASSUME n > 0 PROVE \E i \in DOMAIN wire' : wire'[i] = m
  <2> DEFINE new == [i \in 1 .. n |-> m]
  <2>1. new \in Seq(MessageTypes) /\ Len(new) = n /\ new[1] = m
    BY <1>2
  <2>2. wire' = wire \o new
    BY DEF Delivered
  <2> HIDE DEF new
  <2>3. Len(wire) \in Nat /\ Len(wire) + 1 \in 1 .. Len(wire) + n
    BY <1>2, LenProperties
  <2>4. DOMAIN wire' = 1 .. Len(wire) + n /\ wire'[Len(wire) + 1] = new[1]
    <3>1. /\ wire' \in Seq(MessageTypes) /\ Len(wire') = Len(wire) + n
          /\ \A i \in 1 .. Len(wire) + n :
               wire'[i] = IF i <= Len(wire) THEN wire[i] ELSE new[i - Len(wire)]
      BY <2>1, <2>2, ConcatProperties
    <3>2. ~(Len(wire) + 1 <= Len(wire)) /\ (Len(wire) + 1) - Len(wire) = 1
      BY <2>3
    <3> QED BY <2>3, <3>1, <3>2, LenProperties
  <2> QED BY <2>1, <2>3, <2>4
<1> QED BY <1>1, <1>2

(* The message that a turn puts on the wire, and the one that ends a capture. *)
TurnMessage == Message(step_number, LastCommit(records), response, SurvivalReached)

EndMessage == Message(step_number, TerminalCommit, response, FALSE)

(* What the next wire holds, action by action. *)
LEMMA NextWire ==
  ASSUME TypeOK, [Next]_vars
  PROVE  /\ ~SendTurn /\ ~SendTurnFails /\ ~SendTerminal =>
              \A i \in DOMAIN wire' : \E j \in DOMAIN wire : wire'[i] = wire[j]
         /\ SendTurn \/ SendTurnFails =>
              \A i \in DOMAIN wire' :
                wire'[i] = TurnMessage \/ \E j \in DOMAIN wire : wire'[i] = wire[j]
         /\ SendTurn => \E i \in DOMAIN wire' : wire'[i] = TurnMessage
         /\ SendTerminal =>
              \A i \in DOMAIN wire' :
                wire'[i] = EndMessage \/ \E j \in DOMAIN wire : wire'[i] = wire[j]
         /\ SendTerminal /\ pc' = "finish" => \E i \in DOMAIN wire' : wire'[i] = EndMessage
<1>1. wire \in Seq(MessageTypes) /\ Len(wire) \in Nat /\ DOMAIN wire = 1 .. Len(wire)
  BY LenProperties DEF TypeOK
<1>2. TurnMessage \in MessageTypes /\ EndMessage \in MessageTypes
  BY LastCommitType
     DEF TypeOK, TurnMessage, EndMessage, Message, MessageTypes, SurvivalReached, TerminalCommit
<1>3. ASSUME ~SendTurn, ~SendTurnFails, ~SendTerminal, NEW i \in DOMAIN wire'
      PROVE  \E j \in DOMAIN wire : wire'[i] = wire[j]
  <2>1. CASE PoliceTake
    <3>1. wire' = Tail(wire) /\ wire # <<>>
      BY <2>1 DEF PoliceTake
    <3>2. i + 1 \in DOMAIN wire /\ wire'[i] = wire[i + 1]
      BY <1>1, <3>1
    <3> QED BY <3>2
  <2>2. CASE UNCHANGED wire
    BY <2>2
  <2> QED BY <1>3, <2>1, <2>2, Frames
<1>4. ASSUME SendTurn
      PROVE  /\ \A i \in DOMAIN wire' :
                  wire'[i] = TurnMessage \/ \E j \in DOMAIN wire : wire'[i] = wire[j]
             /\ \E i \in DOMAIN wire' : wire'[i] = TurnMessage
  <2>1. PICK n \in 1 .. 2 : Delivered(TurnMessage, n)
    BY <1>4, Zenon DEF SendTurn, TurnMessage
  <2>2. n \in Nat /\ n > 0
    OBVIOUS
  <2> QED BY <1>1, <1>2, <2>1, <2>2, DeliveredOnTop
<1>5. ASSUME SendTurnFails
      PROVE  \A i \in DOMAIN wire' :
               wire'[i] = TurnMessage \/ \E j \in DOMAIN wire : wire'[i] = wire[j]
  <2>1. PICK n \in 0 .. 1 : Delivered(TurnMessage, n)
    BY <1>5, Zenon DEF SendTurnFails, TurnMessage
  <2>2. n \in Nat
    OBVIOUS
  <2> QED BY <1>1, <1>2, <2>1, <2>2, DeliveredOnTop
<1>6. ASSUME SendTerminal
      PROVE  /\ \A i \in DOMAIN wire' :
                  wire'[i] = EndMessage \/ \E j \in DOMAIN wire : wire'[i] = wire[j]
             /\ pc' = "finish" => \E i \in DOMAIN wire' : wire'[i] = EndMessage
  <2>1. CASE \E n \in 1 .. 2 : Delivered(EndMessage, n)
    <3>1. PICK n \in 1 .. 2 : Delivered(EndMessage, n)
      BY <2>1
    <3>2. n \in Nat /\ n > 0
      OBVIOUS
    <3> QED BY <1>1, <1>2, <3>1, <3>2, DeliveredOnTop
  <2>2. CASE pc' # "finish" /\ \E n \in 0 .. 1 : Delivered(EndMessage, n)
    <3>1. PICK n \in 0 .. 1 : Delivered(EndMessage, n)
      BY <2>2
    <3>2. n \in Nat
      OBVIOUS
    <3> QED BY <1>1, <1>2, <2>2, <3>1, <3>2, DeliveredOnTop
  <2>3. \/ \E n \in 1 .. 2 : Delivered(EndMessage, n)
        \/ pc' = "raised" /\ \E n \in 0 .. 1 : Delivered(EndMessage, n)
    BY <1>6, Zenon DEF SendTerminal, EndMessage, Raise
  <2> QED BY <2>1, <2>2, <2>3
<1> QED BY <1>3, <1>4, <1>5, <1>6

(* What the two messages say. *)
LEMMA MessageFields ==
  /\ TurnMessage.step = step_number /\ TurnMessage.commit = LastCommit(records)
  /\ TurnMessage.response = response /\ TurnMessage.win = SurvivalReached
  /\ EndMessage.commit = seals + 1 /\ EndMessage.response = response /\ EndMessage.win = FALSE
<1> QED BY DEF TurnMessage, EndMessage, Message, TerminalCommit

(* Seals are drawn before they are sent and heard, and answered after. *)
LEMMA StepSealing ==
  ASSUME Inv, Sealing, [Next]_vars
  PROVE  Sealing'
<1>1. /\ seals \in Nat /\ seals' \in Nat /\ step_number \in Nat /\ heard \subseteq Nat
      /\ records \in Seq(RecordTypes) /\ wire \in Seq(MessageTypes) /\ sent \in Seq(TurnTypes)
      /\ Len(sent) \in Nat /\ DOMAIN wire = 1 .. Len(wire) /\ DOMAIN records = 1 .. Len(records)
      /\ Len(records) = step_number
  BY StepType, LenProperties DEF Inv, TypeOK, OwnLogPasses
<1>2. seals <= seals'
  BY Growth DEF Inv
<1>3. \A i \in DOMAIN wire : wire[i].commit \in Nat
  <2> SUFFICES ASSUME NEW i \in DOMAIN wire PROVE wire[i].commit \in Nat
    OBVIOUS
  <2>1. wire[i] \in MessageTypes
    BY <1>1, ElementOfSeq
  <2> QED BY <2>1 DEF MessageTypes
<1>4. pc' \in Playing \cup {"terminal"} => seals' = step_number'
  <2>1. CASE DecideAndSeal
    BY <1>1, <2>1 DEF DecideAndSeal, Sealing, Playing, MyMove, Goto
  <2>2. CASE SendTerminal
    BY <2>2 DEF SendTerminal, Playing, MyMove, Goto, Raise
  <2>3. CASE UNCHANGED <<seals, step_number>>
    <3>1. pc' \in Playing \cup {"terminal"} => pc \in Playing \cup {"terminal"}
      BY Moves DEF ReceiveTurn, Playing
    <3> QED BY <2>3, <3>1 DEF Sealing
  <2> QED BY <2>1, <2>2, <2>3, Frames, MovesOnlyInDecide
<1>5. \A i \in DOMAIN records' : records'[i].commit = i
  <2>1. CASE DecideAndSeal
    <3> DEFINE new == Seal(seals', LastCommit(records), step_number', position')
    <3>1. records' = Append(records, new) /\ seals' = seals + 1 /\ seals = step_number
      BY <2>1 DEF DecideAndSeal, Sealing, Playing, MyMove
    <3>2. new.commit = Len(records) + 1
      BY <1>1, <3>1 DEF Seal
    <3> HIDE DEF new
    <3> QED BY <1>1, <3>1, <3>2 DEF Sealing
  <2> QED BY <2>1, MovesOnlyInDecide DEF Sealing
<1>6. \A c \in heard' : 0 < c /\ c <= seals'
  <2>1. CASE PoliceTake
    <3>1. heard' = heard \cup {Head(wire).commit} /\ wire # <<>>
      BY <2>1 DEF PoliceTake
    <3>2. 1 \in DOMAIN wire /\ Head(wire) = wire[1]
      BY <1>1, <3>1, EmptySeq
    <3>3. 0 < wire[1].commit /\ wire[1].commit <= seals /\ wire[1].commit \in Nat
      BY <1>3, <3>2 DEF Sealing
    <3>4. \A c \in heard' : c \in Nat /\ 0 < c /\ c <= seals
      BY <1>1, <3>1, <3>2, <3>3 DEF Sealing
    <3> QED BY <1>1, <1>2, <3>4
  <2>2. CASE UNCHANGED heard
    <3>1. \A c \in heard : c \in Nat /\ 0 < c /\ c <= seals
      BY <1>1 DEF Sealing
    <3> QED BY <1>1, <1>2, <2>2, <3>1
  <2> QED BY <2>1, <2>2, Frames
<1>7. pc = "send" => TurnMessage.commit = seals /\ seals > 0
  <2> SUFFICES ASSUME pc = "send" PROVE LastCommit(records) = seals /\ seals > 0
    BY MessageFields
  <2>1. seals = step_number /\ step_number > 0 /\ incoming_step \in Nat
    BY <1>1 DEF Sealing, Playing, Inv, TypeOK, Tempo, TurnsAlternate
  <2>2. records # <<>> /\ Len(records) \in DOMAIN records
    BY <1>1, <2>1, EmptySeq
  <2>3. records[Len(records)].commit = Len(records)
    BY <2>2 DEF Sealing
  <2> QED BY <1>1, <2>1, <2>2, <2>3 DEF LastCommit
<1>8. \A i \in DOMAIN wire' : 0 < wire'[i].commit /\ wire'[i].commit <= seals'
  <2> SUFFICES ASSUME NEW i \in DOMAIN wire'
               PROVE  0 < wire'[i].commit /\ wire'[i].commit <= seals'
    OBVIOUS
  <2>1. ASSUME NEW j \in DOMAIN wire, wire'[i] = wire[j]
        PROVE  0 < wire'[i].commit /\ wire'[i].commit <= seals'
    <3>1. wire[j].commit \in Nat /\ 0 < wire[j].commit /\ wire[j].commit <= seals
      BY <1>3 DEF Sealing
    <3> QED BY <1>1, <1>2, <2>1, <3>1
  <2>2. CASE SendTurn \/ SendTurnFails
    <3>1. wire'[i] = TurnMessage \/ \E j \in DOMAIN wire : wire'[i] = wire[j]
      BY <2>2, NextWire DEF Inv
    <3>2. pc = "send"
      BY <2>2 DEF SendTurn, SendTurnFails
    <3>3. TurnMessage.commit = seals /\ seals > 0
      BY <1>7, <3>2
    <3> QED BY <1>1, <1>2, <2>1, <3>1, <3>3
  <2>3. CASE SendTerminal
    <3>1. wire'[i] = EndMessage \/ \E j \in DOMAIN wire : wire'[i] = wire[j]
      BY <2>3, NextWire DEF Inv
    <3>2. seals' = seals + 1
      BY <2>3 DEF SendTerminal
    <3>3. EndMessage.commit = seals + 1
      BY MessageFields
    <3> QED BY <1>1, <2>1, <3>1, <3>2, <3>3
  <2>4. CASE ~SendTurn /\ ~SendTurnFails /\ ~SendTerminal
    <3>1. \E j \in DOMAIN wire : wire'[i] = wire[j]
      BY <2>4, NextWire DEF Inv
    <3> QED BY <2>1, <3>1
  <2> QED BY <2>2, <2>3, <2>4
<1>9. pc' = "send" => seals' \notin heard' /\ \A i \in DOMAIN wire' : wire'[i].commit # seals'
  <2>1. CASE DecideAndSeal
    <3>1. seals' = seals + 1 /\ UNCHANGED <<heard, wire>>
      BY <2>1 DEF DecideAndSeal, policeVars
    <3>2. seals + 1 \notin heard
      <4>1. \A c \in heard : c \in Nat /\ c <= seals
        BY <1>1 DEF Sealing
      <4> QED BY <1>1, <4>1
    <3>3. \A i \in DOMAIN wire : wire[i].commit # seals + 1
      BY <1>1, <1>3 DEF Sealing
    <3> QED BY <3>1, <3>2, <3>3
  <2>2. CASE pc = "send" /\ pc' = "send"
    <3>1. ~DecideAndSeal /\ ~SendTerminal /\ ~SendTurn /\ ~SendTurnFails
      BY <2>2 DEF DecideAndSeal, SendTerminal, SendTurn, SendTurnFails, Goto, Raise
    <3>2. seals' = seals
      BY <3>1, Frames
    <3>3. \A i \in DOMAIN wire' : \E j \in DOMAIN wire : wire'[i] = wire[j]
      BY <3>1, NextWire DEF Inv
    <3>4. seals \notin heard'
      <4>1. CASE PoliceTake
        <5>1. heard' = heard \cup {Head(wire).commit} /\ wire # <<>>
          BY <4>1 DEF PoliceTake
        <5>2. 1 \in DOMAIN wire /\ Head(wire) = wire[1]
          BY <1>1, <5>1, EmptySeq
        <5> QED BY <2>2, <5>1, <5>2 DEF Sealing
      <4> QED BY <2>2, <4>1, Frames DEF Sealing
    <3> QED BY <2>2, <3>2, <3>3, <3>4 DEF Sealing
  <2> QED BY <2>1, <2>2, Moves
<1>10. Len(sent') <= seals'
  <2>1. CASE PoliceTurn
    <3>1. Cardinality(heard) >= Len(sent) + 1 /\ seals' = seals
      BY <2>1, Frames DEF PoliceTurn, gameVars
    <3>2. Len(sent') = Len(sent) + 1
      <4>1. PICK play \in Plays : sent' = Append(sent, Turn(Len(sent) + 1, Len(sent) + 1, play))
        BY <2>1 DEF PoliceTurn
      <4> QED BY <1>1, <4>1
    <3>3. Cardinality(heard) \in Nat /\ Cardinality(heard) <= seals
      <4>1. \A c \in heard : c \in Nat /\ 0 < c /\ c <= seals
        BY <1>1 DEF Sealing
      <4> QED BY <1>1, <4>1, CountUpTo
    <3> QED BY <1>1, <3>1, <3>2, <3>3
  <2>2. CASE UNCHANGED sent
    BY <1>1, <1>2, <2>2 DEF Sealing
  <2> QED BY <2>1, <2>2, Frames
<1> QED BY <1>4, <1>5, <1>6, <1>8, <1>9, <1>10 DEF Sealing

(* The next turn of a Police: sent grows by it, and the rest stays. *)
LEMMA SentGrows ==
  ASSUME TypeOK, [Next]_vars
  PROVE  \A i \in DOMAIN sent : i \in DOMAIN sent' /\ sent'[i] = sent[i]
<1>1. CASE PoliceTurn
  <2>1. PICK play \in Plays : sent' = Append(sent, Turn(Len(sent) + 1, Len(sent) + 1, play))
    BY <1>1 DEF PoliceTurn
  <2>2. sent \in Seq(TurnTypes)
    BY DEF TypeOK
  <2> QED BY <2>1, <2>2
<1> QED BY <1>1, Frames

(* Only a genuine turn is accepted, whatever fault waits in the inbox. *)
LEMMA AcceptedIsGenuine ==
  ASSUME TypeOK, Sources, ReceiveTurn, pc' # "raised"
  PROVE  Genuine(Head(turns))
<1>1. /\ turns # <<>> /\ 1 \in DOMAIN turns /\ Head(turns) = turns[1] /\ turns[1] \in TurnTypes
      /\ incoming_step \in Nat
  <2>1. turns # <<>> /\ turns \in Seq(TurnTypes) /\ incoming_step \in Nat
    BY DEF ReceiveTurn, TypeOK
  <2> QED BY <2>1, EmptySeq, ElementOfSeq, LenProperties
<1>2. pc = "poll" /\ turns[1].step = incoming_step + 1
  BY <1>1 DEF ReceiveTurn, InOrder
<1>3. Head(turns).barrier \subseteq Cells
  BY DEF ReceiveTurn, Outcome, Raise
<1>4. ~Early(1)
  BY <1>1, <1>2 DEF Early
<1> QED BY <1>1, <1>2, <1>3, <1>4 DEF Sources

(* Each turn in the inbox keeps what is known of it while others join behind. *)
LEMMA StandingKept ==
  ASSUME TypeOK, [Next]_vars, UNCHANGED incoming_step, NEW turn \in TurnTypes,
         turns' = Append(turns, turn), NEW i \in DOMAIN turns
  PROVE  /\ i \in DOMAIN turns' /\ turns'[i] = turns[i]
         /\ Genuine(turns[i]) => Genuine(turns[i])'
         /\ Early(i) => Early(i)'
<1>1. turns \in Seq(TurnTypes) /\ Len(turns) \in Nat /\ DOMAIN turns = 1 .. Len(turns)
  BY LenProperties DEF TypeOK
<1>2. /\ DOMAIN turns' = 1 .. Len(turns) + 1
      /\ \A j \in 1 .. Len(turns) : turns'[j] = turns[j]
  BY <1>1
<1>3. i \in DOMAIN turns' /\ turns'[i] = turns[i]
  BY <1>1, <1>2
<1>4. Genuine(turns[i]) => Genuine(turns[i])'
  BY <1>3, SentGrows DEF Genuine
<1>5. \A j \in 1 .. i - 1 : turns'[j] = turns[j]
  BY <1>1, <1>2
<1>6. Early(i) => Early(i)'
  BY <1>3, <1>5 DEF Early
<1> QED BY <1>3, <1>4, <1>6

(* Taking the head leaves the others as they stand, one place on. *)
LEMMA StandingMoves ==
  ASSUME TypeOK, UNCHANGED sent, turns # <<>>, turns' = Tail(turns),
         \/ incoming_step' = incoming_step
         \/ incoming_step' = incoming_step + 1 /\ turns[1].step = incoming_step + 1
  PROVE  \A i \in DOMAIN turns' :
           /\ i + 1 \in DOMAIN turns /\ turns'[i] = turns[i + 1]
           /\ Genuine(turns[i + 1]) => Genuine(turns[i])'
           /\ Early(i + 1) => Early(i)'
<1> SUFFICES ASSUME NEW i \in DOMAIN turns'
             PROVE  /\ i + 1 \in DOMAIN turns /\ turns'[i] = turns[i + 1]
                    /\ Genuine(turns[i + 1]) => Genuine(turns[i])'
                    /\ Early(i + 1) => Early(i)'
  OBVIOUS
<1>1. turns \in Seq(TurnTypes) /\ Len(turns) \in Nat /\ DOMAIN turns = 1 .. Len(turns)
      /\ incoming_step \in Nat
  BY LenProperties DEF TypeOK
<1>2. /\ DOMAIN turns' = 1 .. Len(turns) - 1 /\ i \in Nat /\ i >= 1
      /\ \A j \in 1 .. Len(turns) - 1 : turns'[j] = turns[j + 1]
  BY <1>1
<1>3. i + 1 \in DOMAIN turns /\ turns'[i] = turns[i + 1]
  BY <1>1, <1>2
<1>4. Genuine(turns[i + 1]) => Genuine(turns[i])'
  BY <1>3 DEF Genuine
<1>5. ASSUME Early(i + 1) PROVE Early(i)'
  <2> DEFINE s == turns[i + 1].step
  <2>1. s \in Nat
    <3>1. turns[i + 1] \in TurnTypes
      BY <1>1, <1>3, ElementOfSeq
    <3> QED BY <3>1 DEF TurnTypes
  <2>2. incoming_step < s - 1 /\ \A j \in 1 .. i : turns[j].step # s - 1
    <3>1. (i + 1) - 1 = i
      BY <1>2
    <3> QED BY <1>5, <3>1 DEF Early
  <2>3. turns[1].step # s - 1
    BY <1>2, <2>2
  <2>4. \A j \in 1 .. i - 1 : turns'[j].step # s - 1
    <3> SUFFICES ASSUME NEW j \in 1 .. i - 1 PROVE turns'[j].step # s - 1
      OBVIOUS
    <3>1. j \in 1 .. Len(turns) - 1 /\ j + 1 \in 1 .. i
      BY <1>1, <1>2
    <3> QED BY <1>2, <2>2, <3>1
  <2> HIDE DEF s
  <2>5. incoming_step' < s - 1
    BY <1>1, <2>1, <2>2, <2>3
  <2>6. turns'[i].step = s
    BY <1>3 DEF s
  <2> QED BY <2>4, <2>5, <2>6 DEF Early
<1> QED BY <1>3, <1>4, <1>5

(* The inbox, the history and what was sent go on agreeing. *)
LEMMA StepSources ==
  ASSUME Inv, Sources, [Next]_vars
  PROVE  Sources'
<1> SUFFICES ASSUME pc' # "raised"
             PROVE  /\ \A i \in DOMAIN sent' : sent'[i].step = i
                    /\ \A i \in DOMAIN history' : i \in DOMAIN sent' /\ history'[i] = sent'[i]
                    /\ \A i \in DOMAIN turns' :
                         \/ Genuine(turns[i])'
                         \/ ~(turns'[i].barrier \subseteq Cells)
                         \/ Early(i)'
                    /\ ~faulty' => \A i \in DOMAIN turns' : Genuine(turns[i])'
  BY DEF Sources
<1>1. pc # "raised"
  BY Moves
<1>2. /\ TypeOK /\ sent \in Seq(TurnTypes) /\ history \in Seq(TurnTypes)
      /\ turns \in Seq(TurnTypes) /\ Len(sent) \in Nat /\ Len(history) \in Nat
      /\ DOMAIN sent = 1 .. Len(sent) /\ DOMAIN history = 1 .. Len(history)
      /\ DOMAIN turns = 1 .. Len(turns) /\ Len(turns) \in Nat
      /\ incoming_step = Len(history)
  BY LenProperties DEF Inv, TypeOK, FoldedOnce
<1>3. \A i \in DOMAIN sent' : sent'[i].step = i
  <2>1. CASE PoliceTurn
    <3>1. PICK play \in Plays : sent' = Append(sent, Turn(Len(sent) + 1, Len(sent) + 1, play))
      BY <2>1 DEF PoliceTurn
    <3> DEFINE turn == Turn(Len(sent) + 1, Len(sent) + 1, play)
    <3>2. turn.step = Len(sent) + 1
      BY DEF Turn
    <3> HIDE DEF turn
    <3>3. /\ DOMAIN sent' = 1 .. Len(sent) + 1 /\ sent'[Len(sent) + 1] = turn
          /\ \A i \in 1 .. Len(sent) : sent'[i] = sent[i]
      <4>1. sent' = Append(sent, turn)
        BY <3>1 DEF turn
      <4> QED BY <1>2, <4>1
    <3> QED BY <1>1, <1>2, <3>2, <3>3 DEF Sources
  <2> QED BY <1>1, <2>1, Frames DEF Sources
<1>4. \A i \in DOMAIN history' : i \in DOMAIN sent' /\ history'[i] = sent'[i]
  <2>1. CASE ReceiveTurn
    <3> DEFINE turn == Head(turns)
    <3>1. history' = Append(history, turn) /\ turn.step = Len(history) + 1 /\ sent' = sent
      BY <1>2, <2>1 DEF ReceiveTurn, InOrder, policeVars
    <3>2. Genuine(turn)
      BY <1>2, <2>1, AcceptedIsGenuine
    <3> HIDE DEF turn
    <3>4. Len(history) + 1 \in DOMAIN sent /\ turn = sent[Len(history) + 1]
      BY <3>1, <3>2 DEF Genuine
    <3>5. /\ DOMAIN history' = 1 .. Len(history) + 1 /\ history'[Len(history) + 1] = turn
          /\ \A i \in 1 .. Len(history) : history'[i] = history[i]
      BY <1>2, <3>1
    <3> QED BY <1>1, <1>2, <3>1, <3>4, <3>5 DEF Sources
  <2>2. CASE UNCHANGED history
    BY <1>1, <1>2, <2>2, SentGrows DEF Sources
  <2> QED BY <2>1, <2>2, FoldsOnlyInReceive
<1>5. ASSUME NEW turn \in TurnTypes, turns' = Append(turns, turn), UNCHANGED incoming_step,
             \/ (turn.step \in DOMAIN sent' /\ turn = sent'[turn.step])
             \/ /\ faulty'
                /\ \/ ~(turn.barrier \subseteq Cells)
                   \/ \A i \in DOMAIN turns' : i = Len(turns) + 1 => Early(i)'
      PROVE  /\ \A i \in DOMAIN turns' :
                  \/ Genuine(turns[i])'
                  \/ ~(turns'[i].barrier \subseteq Cells)
                  \/ Early(i)'
             /\ ~faulty' => \A i \in DOMAIN turns' : Genuine(turns[i])'
  <2>1. DOMAIN turns' = 1 .. Len(turns) + 1 /\ turns'[Len(turns) + 1] = turn
    BY <1>2, <1>5
  <2>2. \A i \in DOMAIN turns' :
          \/ Genuine(turns[i])'
          \/ ~(turns'[i].barrier \subseteq Cells)
          \/ Early(i)'
    <3> SUFFICES ASSUME NEW i \in DOMAIN turns'
                 PROVE  \/ Genuine(turns[i])'
                        \/ ~(turns'[i].barrier \subseteq Cells)
                        \/ Early(i)'
      OBVIOUS
    <3>1. CASE i \in DOMAIN turns
      <4>1. Genuine(turns[i]) \/ ~(turns[i].barrier \subseteq Cells) \/ Early(i)
        BY <1>1, <3>1 DEF Sources
      <4> QED BY <1>2, <1>5, <3>1, <4>1, StandingKept
    <3>2. CASE i = Len(turns) + 1
      <4>1. turns'[i] = turn
        BY <2>1, <3>2
      <4>2. CASE turn.step \in DOMAIN sent' /\ turn = sent'[turn.step]
        BY <4>1, <4>2 DEF Genuine
      <4>3. CASE ~(turn.barrier \subseteq Cells)
        BY <4>1, <4>3
      <4>4. CASE \A j \in DOMAIN turns' : j = Len(turns) + 1 => Early(j)'
        BY <3>2, <4>4
      <4> QED BY <1>5, <3>2, <4>2, <4>3, <4>4
    <3> QED BY <1>2, <2>1, <3>1, <3>2
  <2>3. ASSUME ~faulty', NEW i \in DOMAIN turns' PROVE Genuine(turns[i])'
    <3>1. ~faulty
      BY <2>3, Frames DEF PoliceFault
    <3>2. CASE i \in DOMAIN turns
      <4>1. Genuine(turns[i])
        BY <1>1, <3>1, <3>2 DEF Sources
      <4> QED BY <1>2, <1>5, <3>2, <4>1, StandingKept
    <3>3. CASE i = Len(turns) + 1
      BY <1>5, <2>1, <2>3, <3>3 DEF Genuine
    <3> QED BY <1>2, <2>1, <3>2, <3>3
  <2> QED BY <2>2, <2>3
<1>6. ASSUME ReceiveReplay \/ ReceiveTurn
      PROVE  /\ \A i \in DOMAIN turns' :
                  \/ Genuine(turns[i])'
                  \/ ~(turns'[i].barrier \subseteq Cells)
                  \/ Early(i)'
             /\ ~faulty' => \A i \in DOMAIN turns' : Genuine(turns[i])'
  <2>1. turns # <<>> /\ turns' = Tail(turns) /\ UNCHANGED <<sent, faulty>>
    BY <1>6 DEF ReceiveReplay, ReceiveTurn, policeVars
  <2>2. \/ incoming_step' = incoming_step
        \/ incoming_step' = incoming_step + 1 /\ turns[1].step = incoming_step + 1
    <3>1. Head(turns) = turns[1]
      BY <2>1, <1>2
    <3> QED BY <1>6, <3>1 DEF ReceiveReplay, ReceiveTurn, InOrder
  <2>3. \A i \in DOMAIN turns' :
          /\ i + 1 \in DOMAIN turns /\ turns'[i] = turns[i + 1]
          /\ Genuine(turns[i + 1]) => Genuine(turns[i])'
          /\ Early(i + 1) => Early(i)'
    <3>1. UNCHANGED sent /\ TypeOK
      BY <1>2, <2>1
    <3> QED BY <2>1, <2>2, <3>1, StandingMoves
  <2>4. ASSUME NEW i \in DOMAIN turns'
        PROVE  \/ Genuine(turns[i])'
               \/ ~(turns'[i].barrier \subseteq Cells)
               \/ Early(i)'
    <3>1. Genuine(turns[i + 1]) \/ ~(turns[i + 1].barrier \subseteq Cells) \/ Early(i + 1)
      BY <1>1, <2>3 DEF Sources
    <3> QED BY <2>3, <3>1
  <2>5. ASSUME ~faulty', NEW i \in DOMAIN turns' PROVE Genuine(turns[i])'
    <3>1. Genuine(turns[i + 1])
      BY <1>1, <2>1, <2>3, <2>5 DEF Sources
    <3> QED BY <2>3, <3>1
  <2> QED BY <2>4, <2>5
<1>7. CASE PoliceTurn
  <2>1. PICK play \in Plays : sent' = Append(sent, Turn(Len(sent) + 1, Len(sent) + 1, play))
    BY <1>7 DEF PoliceTurn
  <2> DEFINE turn == Turn(Len(sent) + 1, Len(sent) + 1, play)
  <2>2. turn \in TurnTypes /\ turn.step = Len(sent) + 1
    BY <1>2, PlaysAssumption DEF Turn, TurnTypes
  <2> HIDE DEF turn
  <2>3. DOMAIN sent' = 1 .. Len(sent) + 1 /\ sent'[Len(sent) + 1] = turn
    <3>1. sent' = Append(sent, turn)
      BY <2>1 DEF turn
    <3> QED BY <1>2, <2>2, <3>1
  <2>4. turns' = Append(turns, turn) /\ UNCHANGED incoming_step
    BY <1>7, <2>3 DEF PoliceTurn, handlerVars
  <2>5. turn.step \in DOMAIN sent' /\ turn = sent'[turn.step]
    BY <1>2, <2>2, <2>3
  <2> QED BY <1>3, <1>4, <1>5, <2>2, <2>4, <2>5
<1>8. CASE PoliceRepeat
  <2>1. PICK i \in DOMAIN sent : turns' = Append(turns, sent[i])
    BY <1>8 DEF PoliceRepeat
  <2>2. UNCHANGED <<incoming_step, sent>>
    BY <1>8 DEF PoliceRepeat, handlerVars
  <2>3. sent[i] \in TurnTypes /\ sent[i].step = i
    BY <1>1, <1>2, ElementOfSeq DEF Sources
  <2> QED BY <1>3, <1>4, <1>5, <2>1, <2>2, <2>3
<1>9. CASE PoliceFault
  <2> DEFINE k == Len(sent) + 1
             nothing == [barrier |-> {}, claim |-> {}, win |-> FALSE]
             ahead == Turn(k + 1, k + 1, nothing)
             off == Turn(k, k, [nothing EXCEPT !.barrier = {OffBoard}])
  <2>1. ~faulty /\ faulty' /\ UNCHANGED <<incoming_step, sent>>
        /\ (turns' = Append(turns, ahead) \/ turns' = Append(turns, off))
    BY <1>9 DEF PoliceFault, handlerVars
  <2>2. k \in Nat /\ incoming_step < k
    <3>1. Len(history) <= Len(sent)
      <4>1. Len(history) > 0 => Len(history) \in DOMAIN sent
        BY <1>1, <1>2 DEF Sources
      <4> QED BY <1>2, <4>1
    <3> QED BY <1>2, <3>1
  <2>3. CASE turns' = Append(turns, ahead)
    <3>1. ahead \in TurnTypes /\ ahead.step = k + 1
      BY <2>2 DEF Turn, TurnTypes
    <3> HIDE DEF ahead
    <3>2. Len(turns) + 1 \in Nat /\ turns'[Len(turns) + 1] = ahead
          /\ \A j \in 1 .. Len(turns) : turns'[j] = turns[j]
      BY <1>2, <2>3, <3>1
    <3>3. \A j \in 1 .. Len(turns) : turns[j].step # k
      <4>1. TAKE j \in 1 .. Len(turns)
      <4>2. Genuine(turns[j])
        BY <1>1, <1>2, <2>1 DEF Sources
      <4>3. turns[j].step \in 1 .. Len(sent)
        BY <1>2, <4>2 DEF Genuine
      <4>4. Len(sent) \in Nat
        BY <1>2
      <4> QED BY <4>3, <4>4
    <3> HIDE DEF k
    <3>4. ASSUME NEW i \in DOMAIN turns', i = Len(turns) + 1 PROVE Early(i)'
      <4>1. \A j \in 1 .. i - 1 : turns'[j].step # k
        BY <1>2, <3>2, <3>3, <3>4
      <4>2. turns'[i].step - 1 = k
        BY <2>2, <3>1, <3>2, <3>4
      <4>3. incoming_step' < k
        BY <2>1, <2>2
      <4> QED BY <4>1, <4>2, <4>3 DEF Early
    <3> QED BY <1>3, <1>4, <1>5, <2>1, <2>3, <3>1, <3>4
  <2>4. CASE turns' = Append(turns, off)
    <3>1. off \in TurnTypes /\ off.barrier = {OffBoard}
      BY <2>2 DEF Turn, TurnTypes
    <3>2. OffBoard \notin Cells
      BY BoardSizeAssumption DEF OffBoard, Cells, Coordinates
    <3> HIDE DEF off
    <3>3. ~(off.barrier \subseteq Cells)
      BY <3>1, <3>2
    <3> QED BY <1>3, <1>4, <1>5, <2>1, <2>4, <3>1, <3>3
  <2> QED BY <2>1, <2>3, <2>4
<1>10. CASE UNCHANGED <<turns, incoming_step>>
  <2>1. \A i \in DOMAIN turns : Genuine(turns[i]) => Genuine(turns[i])'
    BY <1>2, <1>10, SentGrows DEF Genuine
  <2>2. \A i \in DOMAIN turns : Early(i) => Early(i)'
    BY <1>10 DEF Early
  <2>3. ~faulty' => ~faulty
    BY Frames DEF PoliceFault
  <2> QED BY <1>1, <1>3, <1>4, <1>10, <2>1, <2>2, <2>3 DEF Sources
<1>11. ReceiveReplay \/ ReceiveTurn \/ PoliceTurn \/ PoliceRepeat \/ PoliceFault
       \/ UNCHANGED <<turns, incoming_step>>
  <2>1. ~ReceiveOutOfOrder
    BY DEF ReceiveOutOfOrder, Raise
  <2> QED BY <2>1, Frames, FoldsOnlyInReceive
<1> QED BY <1>3, <1>4, <1>6, <1>7, <1>8, <1>9, <1>10, <1>11

(* What the Police makes of the message it takes. *)
LEMMA Taken ==
  ASSUME TypeOK, PoliceTake
  PROVE  /\ 1 \in DOMAIN wire /\ wire[1] \in MessageTypes
         /\ heard' = heard \cup {wire[1].commit}
         /\ verdict # "none" => verdict' = verdict
         /\ verdict = "none" =>
              /\ wire[1].commit \in heard => verdict' = "none"
              /\ wire[1].commit \notin heard /\ wire[1].response.caught => verdict' = "capture"
              /\ wire[1].commit \notin heard /\ ~wire[1].response.caught /\ wire[1].win
                   => verdict' = "survival"
              /\ ~wire[1].response.caught /\ ~wire[1].win => verdict' = "none"
         /\ \A i \in DOMAIN wire : i # 1 => \E j \in DOMAIN wire' : wire'[j] = wire[i]
<1>1. wire \in Seq(MessageTypes) /\ wire # <<>> /\ wire' = Tail(wire)
  BY DEF TypeOK, PoliceTake
<1>2. 1 \in DOMAIN wire /\ Head(wire) = wire[1] /\ wire[1] \in MessageTypes
  BY <1>1, EmptySeq, ElementOfSeq, LenProperties
<1>3. \A i \in DOMAIN wire : i # 1 => \E j \in DOMAIN wire' : wire'[j] = wire[i]
  <2> SUFFICES ASSUME NEW i \in DOMAIN wire, i # 1 PROVE \E j \in DOMAIN wire' : wire'[j] = wire[i]
    OBVIOUS
  <2>1. i - 1 \in DOMAIN wire' /\ wire'[i - 1] = wire[i]
    BY <1>1
  <2> QED BY <2>1
<1>4. heard' = heard \cup {wire[1].commit}
  BY <1>2 DEF PoliceTake
<1>5. verdict' = IF wire[1].commit \in heard \/ verdict # "none" THEN verdict
                 ELSE IF wire[1].response.caught THEN "capture"
                 ELSE IF wire[1].win THEN "survival" ELSE "none"
  BY <1>2 DEF PoliceTake
<1> QED BY <1>2, <1>3, <1>4, <1>5

(* What the Police sends next, and what it makes of it. *)
LEMMA TurnSent ==
  ASSUME TypeOK, PoliceTurn
  PROVE  /\ verdict = "none" /\ verdict' \in {"none", "survival"}
         /\ Len(sent') = Len(sent) + 1 /\ sent' # <<>>
         /\ verdict' = "survival" => sent'[Len(sent')].win
         /\ Cardinality(heard) >= Len(sent) + 1
         /\ UNCHANGED <<pc, result, response, seals, step_number, incoming_step, wire, heard>>
<1>1. PICK play \in Plays :
        /\ sent' = Append(sent, Turn(Len(sent) + 1, Len(sent) + 1, play))
        /\ verdict' = IF play.win THEN "survival" ELSE verdict
  BY DEF PoliceTurn
<1>2. Turn(Len(sent) + 1, Len(sent) + 1, play).win = play.win
  BY DEF Turn
<1>3. sent \in Seq(TurnTypes) /\ Len(sent) \in Nat
  BY LenProperties DEF TypeOK
<1>4. Len(sent') = Len(sent) + 1 /\ sent' # <<>> /\ sent'[Len(sent')].win = play.win
  BY <1>1, <1>2, <1>3
<1>5. play.win \in BOOLEAN
  BY PlaysAssumption
<1> QED BY <1>1, <1>4, <1>5 DEF PoliceTurn, gameVars, handlerVars

(* A capture is only ever overturned into a forfeit. *)
LEMMA OverturnedKept ==
  ASSUME Inv, [Next]_vars, result \in Overturned
  PROVE  result' \in Overturned
<1>1. pc \notin Playing
  BY DEF Inv, Phases, Overturned, Playing
<1>2. CASE ReceiveAudit
  BY <1>2 DEF ReceiveAudit, Judged, Overturned
<1>3. CASE Press \/ Police \/ Rest \/ UNCHANGED vars
  BY <1>3, OthersLeaveTheRun
<1>4. CASE SendTerminal \/ SendAudit
  BY <1>4 DEF SendTerminal, SendAudit
<1>5. Runtime => ReceiveAudit \/ SendTerminal \/ SendAudit
  BY <1>1 DEF Runtime, Negotiate, OptIn, DrainSignal, EndPump, PassGate, StopAtGate, CheckQuit,
              CheckRestart, DecideAndSeal, SendTurn, SendTurnFails, PollTimeout, ReceiveReplay,
              ReceiveOutOfOrder, ReceiveTurn, Playing, MyMove
<1> QED BY <1>2, <1>3, <1>4, <1>5 DEF Next

(* What an accepted turn leaves for the rest of the run. *)
LEMMA Accepted ==
  ASSUME TypeOK, ReceiveTurn
  PROVE  /\ pc = "poll"
         /\ pc' \in Playing => ~response'.caught
         /\ pc' \in AtEnd => ~response'.caught
         /\ pc' = "terminal" /\ response'.caught => ~Head(turns).win
         /\ UNCHANGED <<step_number, seals, sent, verdict, wire, heard>>
<1> DEFINE turn == Head(turns)
           known == barriers \cup (turn.barrier \cap Cells)
           outcome == Outcome(turn, known)
<1>1. /\ pc = "poll" /\ response' = Answer(turn, outcome)
      /\ UNCHANGED <<step_number, seals, sent, verdict, wire, heard>>
  BY DEF ReceiveTurn, policeVars
<1>2. /\ pc' \in Playing => outcome = "continue"
      /\ pc' \in AtEnd => outcome = "survival"
  BY DEF ReceiveTurn, Goto, Raise, Playing, MyMove, AtEnd
<1>3. outcome = "caught" => ~turn.win
  BY DEF Outcome
<1> HIDE DEF turn, known, outcome
<1>4. response'.caught => outcome = "caught"
  BY <1>1 DEF Answer, NoResponse
<1> QED BY <1>1, <1>2, <1>3, <1>4 DEF turn

(* Nothing tells of an end before there is one. *)
LEMMA StepSilent ==
  ASSUME Inv, Silent, [Next]_vars
  PROVE  Silent'
<1>1. TypeOK /\ Phases
  BY DEF Inv
<1>2. pc' \in Playing => ~response'.caught
  <2>1. CASE ReceiveTurn
    BY <1>1, <2>1, Accepted
  <2> QED BY <2>1, Frames, Moves DEF Silent
<1>3. pc' \in Playing \cup {"terminal"} => pc \in Playing \cup {"terminal"}
  BY Moves DEF ReceiveTurn, Playing
<1>4. ASSUME pc' \in Playing \cup {"terminal"}, NEW i \in DOMAIN wire'
      PROVE  ~wire'[i].response.caught /\ ~wire'[i].win
  <2>1. ~SendTurnFails /\ ~SendTerminal
    BY <1>4 DEF SendTurnFails, SendTerminal, Raise, Goto, Playing, MyMove
  <2>2. CASE SendTurn
    <3>1. ~SurvivalReached /\ pc = "send"
      BY <1>4, <2>2 DEF SendTurn, Goto, Playing, MyMove
    <3>2. TurnMessage.win = SurvivalReached /\ TurnMessage.response = response
      BY MessageFields
    <3>3. ~TurnMessage.win /\ ~TurnMessage.response.caught
      BY <3>1, <3>2 DEF Silent, Playing
    <3>4. wire'[i] = TurnMessage \/ \E j \in DOMAIN wire : wire'[i] = wire[j]
      BY <1>1, <2>2, NextWire
    <3> QED BY <1>3, <1>4, <3>3, <3>4 DEF Silent
  <2>3. CASE ~SendTurn
    <3>1. \E j \in DOMAIN wire : wire'[i] = wire[j]
      BY <1>1, <2>1, <2>3, NextWire
    <3> QED BY <1>3, <1>4, <3>1 DEF Silent
  <2> QED BY <2>2, <2>3
<1>5. ASSUME NEW i \in DOMAIN wire', wire'[i].response.caught PROVE result' \in Overturned
  <2>1. CASE \E j \in DOMAIN wire : wire'[i] = wire[j]
    <3>1. result \in Overturned
      BY <1>5, <2>1 DEF Silent
    <3> QED BY <3>1, OverturnedKept
  <2>2. CASE (SendTurn \/ SendTurnFails) /\ wire'[i] = TurnMessage
    <3>1. pc = "send" /\ TurnMessage.response = response
      BY <2>2, MessageFields DEF SendTurn, SendTurnFails
    <3> QED BY <1>5, <2>2, <3>1 DEF Silent, Playing
  <2>3. CASE SendTerminal
    BY <1>1, <2>3 DEF SendTerminal, Phases, Overturned
  <2> QED BY <1>1, <2>1, <2>2, <2>3, NextWire
<1>6. verdict' = "capture" => result' \in Overturned
  <2> SUFFICES ASSUME verdict' = "capture" PROVE result \in Overturned
    BY OverturnedKept
  <2>1. CASE verdict = "capture"
    BY <2>1 DEF Silent
  <2>2. CASE PoliceTake /\ verdict # "capture"
    <3>1. verdict = "none" \/ verdict = "survival"
      BY <1>1, <2>2 DEF TypeOK
    <3>2. 1 \in DOMAIN wire /\ wire[1] \in MessageTypes /\ wire[1].response.caught
      BY <1>1, <2>2, <3>1, Taken
    <3> QED BY <3>2 DEF Silent
  <2>3. CASE PoliceTurn
    BY <1>1, <2>3, TurnSent
  <2> QED BY <2>1, <2>2, <2>3, Frames
<1>7. ASSUME pc' \in Playing \cup {"terminal"}, verdict' = "survival"
      PROVE  sent' # <<>> /\ sent'[Len(sent')].win
  <2>1. CASE PoliceTurn
    BY <1>1, <1>7, <2>1, TurnSent
  <2>2. CASE ~PoliceTurn
    <3>1. verdict = "survival"
      <4>1. CASE PoliceTake
        <5>1. 1 \in DOMAIN wire
          BY <1>1, <4>1, Taken
        <5>2. ~wire[1].response.caught /\ ~wire[1].win
          BY <1>3, <1>7, <5>1 DEF Silent
        <5> QED BY <1>1, <1>7, <4>1, <5>2, Taken
      <4> QED BY <1>7, <2>2, <4>1, Frames
    <3>2. UNCHANGED sent
      BY <2>2, Frames
    <3> QED BY <1>3, <1>7, <3>1, <3>2 DEF Silent
  <2> QED BY <2>1, <2>2
<1> QED BY <1>2, <1>4, <1>5, <1>6, <1>7 DEF Silent

(* The Police never answers more messages than it heard. *)
LEMMA NoTurnAhead ==
  ASSUME TypeOK, PoliceTurn, NEW n \in Nat, \A c \in heard : 0 < c /\ c <= n
  PROVE  Len(sent) + 1 <= n
<1>1. \A c \in heard : c \in Nat /\ 0 < c /\ c <= n
  BY DEF TypeOK
<1>2. Cardinality(heard) \in Nat /\ Cardinality(heard) <= n
  BY <1>1, CountUpTo
<1>3. Cardinality(heard) >= Len(sent) + 1 /\ Len(sent) \in Nat
  BY TurnSent, LenProperties DEF TypeOK
<1> QED BY <1>2, <1>3

(* The last message goes on coming until the Police takes it. *)
LEMMA StepComing ==
  ASSUME Inv, NEW caught \in BOOLEAN, Coming(caught), pc \in AtEnd, [Next]_vars,
         ~(caught /\ PoliceTurn)
  PROVE  Coming(caught)' \/ verdict' = (IF caught THEN "capture" ELSE "survival")
<1>1. TypeOK
  BY DEF Inv
<1>2. ~SendTurn /\ ~SendTurnFails /\ ~SendTerminal /\ ~DecideAndSeal
  BY DEF AtEnd, SendTurn, SendTurnFails, SendTerminal, DecideAndSeal
<1>3. seals' = seals /\ \A i \in DOMAIN wire' : \E j \in DOMAIN wire : wire'[i] = wire[j]
  BY <1>1, <1>2, Frames, NextWire
<1>4. \A i \in DOMAIN wire' :
        IF wire'[i].commit = seals'
          THEN wire'[i].response.caught = caught /\ wire'[i].win = ~caught
          ELSE ~wire'[i].response.caught /\ ~wire'[i].win
  BY <1>3 DEF Coming
<1>5. CASE PoliceTake
  <2>1. CASE wire[1].commit = seals
    <3>1. /\ 1 \in DOMAIN wire /\ wire[1].response.caught = caught /\ wire[1].win = ~caught
          /\ verdict = "none" /\ wire[1].commit \notin heard
      BY <1>1, <1>5, <2>1, Taken DEF Coming
    <3>2. CASE caught
      BY <1>1, <1>5, <3>1, <3>2, Taken
    <3>3. CASE ~caught
      BY <1>1, <1>5, <3>1, <3>3, Taken
    <3> QED BY <3>2, <3>3
  <2>2. CASE wire[1].commit # seals
    <3>1. 1 \in DOMAIN wire /\ ~wire[1].response.caught /\ ~wire[1].win /\ verdict = "none"
      BY <1>1, <1>5, <2>2, Taken DEF Coming
    <3>2. verdict' = "none" /\ heard' = heard \cup {wire[1].commit}
      BY <1>1, <1>5, <3>1, Taken
    <3>3. \E j \in DOMAIN wire' : wire'[j].commit = seals
      <4>1. PICK i \in DOMAIN wire : wire[i].commit = seals
        BY DEF Coming
      <4>2. i # 1
        BY <2>2, <4>1
      <4> QED BY <1>1, <1>5, <4>1, <4>2, Taken
    <3>4. seals \notin heard'
      BY <2>2, <3>2 DEF Coming
    <3> QED BY <1>3, <1>4, <3>2, <3>3, <3>4 DEF Coming
  <2> QED BY <2>1, <2>2
<1>6. CASE ~PoliceTake
  <2>1. UNCHANGED <<wire, heard>>
    BY <1>2, <1>6, Frames
  <2>2. CASE verdict' = "none"
    BY <1>3, <1>4, <2>1, <2>2 DEF Coming
  <2>3. CASE verdict' # "none"
    <3>1. PoliceTurn /\ verdict' = "survival"
      BY <1>1, <1>6, <2>3, Frames, TurnSent DEF Coming
    <3> QED BY <3>1
  <2> QED BY <2>2, <2>3
<1> QED BY <1>5, <1>6

(* A capture is known to the Thief before the Police can send another turn. *)
LEMMA StepCaught ==
  ASSUME Inv, OutcomeInv, [Next]_vars, pc' = "terminal", response'.caught
  PROVE  verdict' = "none" /\ Len(sent') = seals'
<1>1. /\ TypeOK /\ Phases /\ Tempo /\ FoldedOnce /\ Sealing /\ Sources /\ Silent
      /\ seals \in Nat /\ Len(sent) \in Nat /\ DOMAIN sent = 1 .. Len(sent)
      /\ step_number \in Nat /\ incoming_step \in Nat
  BY LenProperties DEF Inv, OutcomeInv, TypeOK
<1>2. CASE ReceiveTurn
  <2> DEFINE turn == Head(turns)
             n == incoming_step + 1
  <2>1. /\ pc = "poll" /\ ~turn.win /\ UNCHANGED <<step_number, seals, sent, verdict>>
    BY <1>1, <1>2, Accepted
  <2>2. turn.step = n /\ Genuine(turn)
    BY <1>1, <1>2, AcceptedIsGenuine DEF ReceiveTurn, InOrder
  <2>3. seals = n
    BY <1>1, <2>1 DEF Sealing, Playing, Tempo, TurnsAlternate
  <2>4. n \in DOMAIN sent /\ sent[n] = turn
    BY <2>2 DEF Genuine
  <2> HIDE DEF turn
  <2>5. Len(sent) = n
    BY <1>1, <2>3, <2>4 DEF Sealing
  <2>6. verdict # "capture"
    BY <1>1, <2>1 DEF Silent, Phases, Overturned
  <2>7. verdict # "survival"
    BY <1>1, <2>1, <2>4, <2>5 DEF Silent, Playing
  <2> QED BY <1>1, <2>1, <2>3, <2>5, <2>6, <2>7 DEF TypeOK
<1>3. CASE ~ReceiveTurn
  <2>1. pc = "terminal" /\ response' = response
    BY <1>3, Moves, Frames
  <2>2. verdict = "none" /\ Len(sent) = seals
    BY <2>1 DEF OutcomeInv, Ending
  <2>3. seals' = seals
    BY <2>1, Frames DEF DecideAndSeal, SendTerminal, Goto, Raise
  <2>4. ~PoliceTurn
    <3>1. PoliceTurn => Len(sent) + 1 <= seals
      BY <1>1, NoTurnAhead DEF Sealing
    <3> QED BY <1>1, <2>2, <3>1
  <2>5. verdict' = "none"
    <3>1. CASE PoliceTake
      <4>1. 1 \in DOMAIN wire
        BY <1>1, <3>1, Taken
      <4>2. ~wire[1].response.caught /\ ~wire[1].win
        BY <1>1, <2>1, <4>1 DEF Silent
      <4> QED BY <1>1, <2>2, <3>1, <4>2, Taken
    <3> QED BY <2>2, <2>4, <3>1, Frames
  <2> QED BY <2>2, <2>3, <2>4, <2>5, Frames
<1> QED BY <1>2, <1>3

(* A capture reaches the Police. *)
LEMMA StepCapture ==
  ASSUME Inv, OutcomeInv, [Next]_vars, pc' \in AtEnd, response'.caught
  PROVE  verdict' = "capture" \/ (Coming(TRUE)' /\ Len(sent') = seals' - 1)
<1>1. /\ TypeOK /\ Phases /\ Sealing /\ Silent /\ Ending
      /\ seals \in Nat /\ Len(sent) \in Nat /\ heard \subseteq Nat
  BY LenProperties DEF Inv, OutcomeInv, TypeOK
<1>2. ~ReceiveTurn /\ response' = response
  BY <1>1, Accepted, Frames
<1>3. CASE pc \in AtEnd
  <2>1. ~SendTerminal /\ ~DecideAndSeal /\ seals' = seals
    BY <1>3, Frames DEF AtEnd, SendTerminal, DecideAndSeal
  <2>2. CASE verdict = "capture"
    <3>1. PoliceTake => verdict' = verdict
      BY <1>1, <2>2, Taken
    <3>2. ~PoliceTurn
      BY <1>1, <2>2, TurnSent
    <3> QED BY <2>2, <3>1, <3>2, Frames
  <2>3. CASE Coming(TRUE) /\ Len(sent) = seals - 1
    <3>1. ~PoliceTurn
      <4>1. \A c \in heard : 0 < c /\ c <= seals - 1
        BY <1>1, <2>3 DEF Sealing, Coming
      <4>2. seals - 1 \in Nat
        BY <1>1, <2>3
      <4>3. PoliceTurn => Len(sent) + 1 <= seals - 1
        BY <1>1, <4>1, <4>2, NoTurnAhead
      <4> QED BY <1>1, <2>3, <4>3
    <3>2. Coming(TRUE)' \/ verdict' = "capture"
      BY <1>3, <2>3, <3>1, StepComing
    <3>3. Len(sent') = seals' - 1
      BY <2>1, <2>3, <3>1, Frames
    <3> QED BY <3>2, <3>3
  <2> QED BY <1>1, <1>2, <1>3, <2>2, <2>3 DEF Ending
<1>4. CASE SendTerminal
  <2>1. pc = "terminal" /\ seals' = seals + 1 /\ pc' = "finish"
        /\ UNCHANGED <<sent, heard, verdict>>
    BY <1>4 DEF SendTerminal, policeVars, Raise, Goto, AtEnd
  <2>2. verdict = "none" /\ Len(sent) = seals
    BY <1>1, <1>2, <2>1 DEF Ending
  <2>3. EndMessage.commit = seals + 1 /\ EndMessage.response = response /\ EndMessage.win = FALSE
    BY MessageFields
  <2>4. response \in ResponseTypes
    BY <1>1 DEF TypeOK
  <2>5. response.caught = TRUE
    BY <1>2, <2>4 DEF ResponseTypes
  <2>6. \E i \in DOMAIN wire' : wire'[i].commit = seals'
    BY <1>1, <1>4, <2>1, <2>3, NextWire
  <2>7. ASSUME NEW i \in DOMAIN wire'
        PROVE  IF wire'[i].commit = seals'
                 THEN wire'[i].response.caught = TRUE /\ wire'[i].win = ~TRUE
                 ELSE ~wire'[i].response.caught /\ ~wire'[i].win
    <3>1. CASE wire'[i] = EndMessage
      BY <2>1, <2>3, <2>5, <3>1
    <3>2. CASE \E j \in DOMAIN wire : wire'[i] = wire[j]
      <4>1. PICK j \in DOMAIN wire : wire'[i] = wire[j]
        BY <3>2
      <4>2. wire[j] \in MessageTypes
        BY <1>1, ElementOfSeq, LenProperties DEF TypeOK
      <4>3. wire[j].commit \in Nat /\ wire[j].commit <= seals
        BY <1>1, <4>2 DEF Sealing, MessageTypes
      <4>4. wire[j].commit # seals'
        BY <1>1, <2>1, <4>3
      <4>5. ~wire[j].response.caught /\ ~wire[j].win
        BY <1>1, <2>1 DEF Silent
      <4> QED BY <4>1, <4>4, <4>5
    <3> QED BY <1>1, <1>4, <3>1, <3>2, NextWire
  <2>8. seals' \notin heard'
    <3>1. \A c \in heard : c \in Nat /\ c <= seals
      BY <1>1 DEF Sealing
    <3> QED BY <1>1, <2>1, <3>1
  <2>9. Coming(TRUE)'
    BY <2>1, <2>2, <2>6, <2>7, <2>8 DEF Coming
  <2>10. Len(sent') = seals' - 1
    <3>1. Len(sent') = seals
      BY <2>1, <2>2
    <3> QED BY <1>1, <2>1, <3>1
  <2> QED BY <2>9, <2>10
<1>5. CASE pc \in Playing
  BY <1>1, <1>2, <1>5 DEF Silent
<1>6. SendTurn => pc \in Playing
  BY DEF SendTurn, Playing
<1> QED BY <1>2, <1>3, <1>4, <1>5, <1>6, Moves

(* So does a survival that the Thief has declared. *)
LEMMA StepSurvival ==
  ASSUME Inv, OutcomeInv, [Next]_vars, pc' \in AtEnd, step_number' > incoming_step',
         result' = "survival"
  PROVE  verdict' = "survival" \/ Coming(FALSE)'
<1>1. /\ TypeOK /\ Phases /\ Tempo /\ Sealing /\ Silent /\ Ending
      /\ seals \in Nat /\ step_number \in Nat /\ incoming_step \in Nat
  BY DEF Inv, OutcomeInv, TypeOK
<1>2. ~ReceiveTurn
  <2>1. ReceiveTurn => step_number = incoming_step + 1 /\ step_number' = step_number
                       /\ incoming_step' = incoming_step + 1
    BY <1>1 DEF ReceiveTurn, InOrder, Tempo, TurnsAlternate
  <2> QED BY <1>1, <2>1
<1>3. CASE pc \in AtEnd
  <2>1. ~DecideAndSeal
    BY <1>3 DEF AtEnd, DecideAndSeal
  <2>2. UNCHANGED <<step_number, incoming_step>>
    BY <1>2, <2>1, MovesOnlyInDecide, FoldsOnlyInReceive
  <2>3. result = "survival"
    <3>1. CASE Press \/ Police \/ Rest \/ UNCHANGED vars
      BY <3>1, OthersLeaveTheRun
    <3>2. CASE SendAudit \/ ReceiveAudit
      BY <3>2 DEF SendAudit, ReceiveAudit, Judged
    <3>3. Runtime => SendAudit \/ ReceiveAudit
      BY <1>3 DEF Runtime, Negotiate, OptIn, DrainSignal, EndPump, PassGate, StopAtGate,
                  CheckQuit, CheckRestart, DecideAndSeal, SendTurn, SendTurnFails, PollTimeout,
                  ReceiveReplay, ReceiveOutOfOrder, ReceiveTurn, SendTerminal, AtEnd
    <3> QED BY <3>1, <3>2, <3>3 DEF Next
  <2>4. CASE verdict = "survival"
    <3>1. PoliceTake => verdict' = verdict
      BY <1>1, <2>4, Taken
    <3>2. ~PoliceTurn
      BY <1>1, <2>4, TurnSent
    <3> QED BY <2>4, <3>1, <3>2, Frames
  <2>5. CASE Coming(FALSE)
    <3>1. Coming(FALSE)' \/ verdict' = (IF FALSE THEN "capture" ELSE "survival")
      BY <1>3, <2>5, StepComing
    <3> QED BY <3>1
  <2> QED BY <1>1, <1>3, <2>2, <2>3, <2>4, <2>5 DEF Ending
<1>4. CASE SendTurn
  <2>1. /\ pc = "send" /\ SurvivalReached /\ result = "none"
        /\ UNCHANGED <<seals, heard, verdict>>
    BY <1>1, <1>4 DEF SendTurn, gameVars, policeVars, Goto, AtEnd, Phases
  <2>2. TurnMessage.commit = LastCommit(records) /\ TurnMessage.response = response
        /\ TurnMessage.win = SurvivalReached
    BY MessageFields
  <2>3. TurnMessage.commit = seals
    <3>1. seals = step_number /\ Len(records) = step_number /\ step_number > 0
          /\ records \in Seq(RecordTypes)
      BY <1>1, <2>1 DEF Sealing, Playing, Tempo, TurnsAlternate, Inv, OwnLogPasses, TypeOK
    <3>2. records # <<>> /\ Len(records) \in DOMAIN records
      BY <1>1, <3>1, EmptySeq
    <3> QED BY <1>1, <2>2, <3>1, <3>2 DEF LastCommit, Sealing
  <2>4. response.caught = FALSE
    <3>1. response \in ResponseTypes /\ ~response.caught
      BY <1>1, <2>1 DEF TypeOK, Silent, Playing
    <3> QED BY <3>1 DEF ResponseTypes
  <2>5. SurvivalReached = TRUE
    BY <2>1 DEF SurvivalReached
  <2>6. ASSUME NEW i \in DOMAIN wire'
        PROVE  IF wire'[i].commit = seals'
                 THEN wire'[i].response.caught = FALSE /\ wire'[i].win = ~FALSE
                 ELSE ~wire'[i].response.caught /\ ~wire'[i].win
    <3>1. CASE wire'[i] = TurnMessage
      BY <2>1, <2>2, <2>3, <2>4, <2>5, <3>1
    <3>2. CASE \E j \in DOMAIN wire : wire'[i] = wire[j]
      <4>1. PICK j \in DOMAIN wire : wire'[i] = wire[j]
        BY <3>2
      <4>2. wire[j].commit # seals
        BY <1>1, <2>1 DEF Sealing
      <4>3. ~wire[j].response.caught /\ ~wire[j].win
        BY <1>1, <2>1 DEF Silent, Playing
      <4> QED BY <2>1, <4>1, <4>2, <4>3
    <3> QED BY <1>1, <1>4, <3>1, <3>2, NextWire
  <2>7. \E i \in DOMAIN wire' : wire'[i].commit = seals'
    BY <1>1, <1>4, <2>1, <2>3, NextWire
  <2>8. verdict \in {"none", "survival"}
    BY <1>1, <2>1 DEF TypeOK, Silent, Overturned
  <2>9. seals' \notin heard'
    BY <1>1, <2>1 DEF Sealing
  <2>10. verdict = "none" => Coming(FALSE)'
    BY <2>1, <2>6, <2>7, <2>9 DEF Coming
  <2> QED BY <2>1, <2>8, <2>10
<1>5. CASE SendTerminal
  BY <1>1, <1>5 DEF SendTerminal, Phases
<1>6. CASE pc \in Playing /\ ~SendTurn
  <2>1. CASE Press \/ Police \/ Rest \/ UNCHANGED vars
    BY <1>1, <1>6, <2>1, OthersLeaveTheRun DEF Phases, Playing
  <2>2. CASE Runtime
    BY <1>1, <1>2, <1>6, <2>2
       DEF Runtime, Negotiate, OptIn, DrainSignal, EndPump, PassGate, StopAtGate, CheckQuit,
           CheckRestart, DecideAndSeal, SendTurnFails, PollTimeout, ReceiveReplay,
           ReceiveOutOfOrder, SendTerminal, SendAudit, ReceiveAudit, Phases, Playing, MyMove
  <2> QED BY <2>1, <2>2 DEF Next
<1> QED BY <1>2, <1>3, <1>4, <1>5, <1>6, Moves

(* When the mail is through, both sides hold the same outcome, and the Police   *)
(* never learns of a capture that is not one, whatever is repeated or retried.  *)
THEOREM SameOutcome == Spec => []OutcomesAgree
<1>1. Init => OutcomeInv
  <2> SUFFICES ASSUME Init PROVE OutcomeInv
    OBVIOUS
  <2>1. /\ DOMAIN records = {} /\ DOMAIN wire = {} /\ DOMAIN sent = {} /\ DOMAIN history = {}
        /\ DOMAIN turns = {} /\ Len(sent) = 0 /\ pc = "negotiate"
    BY DEF Init
  <2>2. Sealing /\ Sources
    BY <2>1 DEF Init, Sealing, Sources
  <2>3. Silent /\ Ending
    BY <2>1 DEF Init, Silent, Ending, AtEnd, NoResponse
  <2> QED BY <2>2, <2>3 DEF OutcomeInv
<1>2. Inv /\ OutcomeInv /\ [Next]_vars => OutcomeInv'
  <2> SUFFICES ASSUME Inv, OutcomeInv, [Next]_vars PROVE OutcomeInv'
    OBVIOUS
  <2>1. Sealing' /\ Sources' /\ Silent'
    BY StepSealing, StepSources, StepSilent DEF OutcomeInv
  <2>2. Ending'
    BY StepCaught, StepCapture, StepSurvival DEF Ending
  <2> QED BY <2>1, <2>2 DEF OutcomeInv
<1>3. OutcomeInv => OutcomesAgree
  <2> SUFFICES ASSUME OutcomeInv PROVE OutcomesAgree
    OBVIOUS
  <2>1. wire = <<>> => \A caught \in BOOLEAN : ~Coming(caught)
    BY DEF Coming
  <2> QED BY <2>1 DEF OutcomeInv, Silent, Ending, Overturned, AtEnd, OutcomesAgree
<1> QED BY <1>1, <1>2, <1>3, Invariance, PTL DEF Spec

-----------------------------------------------------------------------------
(* Refinement: every behaviour of the run is one the abstract sub-game allows. *)

(* A fresh run is an open sub-game without a turn. *)
LEMMA InitRefines == Init => Promise!Init
<1> QED BY DEF Init, Promise!Init, Status

(* A step that only raises, changes the label or decides maps as Status tells. *)
LEMMA StepRefines == Inv /\ [Next]_vars => [Promise!Next]_(Promise!subGameVars)
<1> SUFFICES ASSUME Inv, [Next]_vars
             PROVE  Promise!Next \/ UNCHANGED <<step_number, incoming_step, Status>>
  BY DEF Promise!subGameVars
<1> USE DEF Raise, Goto, gameVars, handlerVars
<1>1. /\ step_number \in Nat /\ incoming_step \in Nat /\ pc \in Labels /\ result \in Results
      /\ Phases /\ Tempo /\ TurnsAlternate
  BY DEF Inv, TypeOK, Tempo
<1>2. ASSUME pc \notin Final, pc' = "raised", UNCHANGED <<step_number, incoming_step>>
      PROVE  Promise!Abort
  <2>1. Status \notin {"aborted", "tamper_forfeit_opponent"}
    BY <1>1, <1>2 DEF Status, Phases, Final, Results, AuditClaims, NoForfeitResults
  <2>2. Status' = "aborted"
    BY <1>2 DEF Status
  <2> QED BY <1>2, <2>1, <2>2 DEF Promise!Abort
<1>3. ASSUME pc \notin Final, pc' # "raised", UNCHANGED <<result, step_number, incoming_step>>
      PROVE  UNCHANGED <<step_number, incoming_step, Status>>
  BY <1>3 DEF Status, Final
<1>4. CASE Negotiate \/ OptIn \/ DrainSignal \/ EndPump \/ PassGate \/ CheckRestart
  <2>1. pc \notin Final /\ UNCHANGED <<result, step_number, incoming_step>>
    BY <1>4 DEF Negotiate, OptIn, DrainSignal, EndPump, PassGate, CheckRestart, Final
  <2> QED BY <1>2, <1>3, <2>1 DEF Promise!Next
<1>5. CASE SendTurnFails \/ ReceiveReplay \/ SendTerminal \/ SendAudit
  <2>1. pc \notin Final /\ UNCHANGED <<result, step_number, incoming_step>>
    BY <1>5 DEF SendTurnFails, ReceiveReplay, SendTerminal, SendAudit, Final
  <2> QED BY <1>2, <1>3, <2>1 DEF Promise!Next
<1>6. CASE StopAtGate
  <2>1. Status = "open" /\ Status' = "technical_loss" /\ UNCHANGED <<step_number, incoming_step>>
    BY <1>1, <1>6 DEF StopAtGate, Status, Phases, MyMove
  <2> QED BY <2>1 DEF Promise!Next, Promise!Abandon
<1>7. CASE CheckQuit
  <2>1. Status = "open" /\ step_number = incoming_step /\ UNCHANGED <<step_number, incoming_step>>
    BY <1>1, <1>7 DEF CheckQuit, Status, Phases, MyMove, TurnsAlternate
  <2>2. Status' \in {"open", "quit", "opponent_quit"}
    BY <1>1, <1>7 DEF CheckQuit, Status, Phases, MyMove
  <2> QED BY <2>1, <2>2 DEF Promise!Next, Promise!Abandon
<1>8. CASE DecideAndSeal
  <2>1. Status = "open" /\ Status' = "open"
    BY <1>1, <1>8 DEF DecideAndSeal, Status, Phases, MyMove
  <2>2. step_number = incoming_step /\ step_number < SurvivalThreshold
        /\ step_number' = step_number + 1 /\ incoming_step' = incoming_step
    BY <1>1, <1>8 DEF DecideAndSeal, Tempo, TurnsAlternate, MyMove
  <2> QED BY <2>1, <2>2 DEF Promise!Next, Promise!MyTurn
<1>9. CASE SendTurn
  <2>1. Status = "open" /\ UNCHANGED <<step_number, incoming_step>>
        /\ step_number = incoming_step + 1 /\ step_number <= SurvivalThreshold
    BY <1>1, <1>9 DEF SendTurn, Status, Phases, TurnsAlternate
  <2>2. CASE SurvivalReached
    <3>1. Status' = "survival"
      BY <1>9, <2>2 DEF SendTurn, Status
    <3>2. step_number = SurvivalThreshold /\ incoming_step = step_number - 1
      BY <1>1, <2>1, <2>2, ThresholdAssumption DEF SurvivalReached
    <3> QED BY <2>1, <3>1, <3>2 DEF Promise!Next, Promise!Survive
  <2>3. CASE ~SurvivalReached
    BY <1>3, <1>9, <2>3 DEF SendTurn, Final
  <2> QED BY <2>2, <2>3
<1>10. CASE PollTimeout
  <2>1. Status = "open" /\ Status' = "timeout" /\ UNCHANGED <<step_number, incoming_step>>
        /\ incoming_step = step_number - 1
    BY <1>1, <1>10 DEF PollTimeout, Status, Phases, TurnsAlternate
  <2> QED BY <2>1 DEF Promise!Next, Promise!Abandon
<1>11. CASE ReceiveOutOfOrder
  <2>1. Status = "open" /\ Status' = "aborted" /\ UNCHANGED <<step_number, incoming_step>>
    BY <1>1, <1>11 DEF ReceiveOutOfOrder, Status, Phases
  <2> QED BY <2>1 DEF Promise!Next, Promise!Abort
<1>12. CASE ReceiveTurn
  <2>1. Status = "open" /\ incoming_step = step_number - 1 /\ step_number' = step_number
    BY <1>1, <1>12 DEF ReceiveTurn, Status, Phases, TurnsAlternate
  <2>2. incoming_step' = incoming_step + 1
    BY <1>12 DEF ReceiveTurn, InOrder
  <2>3. Status' \in {"capture", "survival", "open", "aborted"}
    BY <1>1, <1>12 DEF ReceiveTurn, Status, Phases
  <2> QED BY <2>1, <2>2, <2>3 DEF Promise!Next, Promise!TheirTurn, Promise!Decided
<1>13. CASE ReceiveAudit
  <2>1. UNCHANGED <<step_number, incoming_step>> /\ pc \notin Final
    BY <1>13 DEF ReceiveAudit, Final
  <2>2. CASE UNCHANGED result
    BY <1>2, <1>3, <2>1, <2>2 DEF Promise!Next
  <2>3. CASE result' # result
    <3>1. PICK log \in PoliceLogs : result' = Judged(log) /\ pc' = "returned"
      BY <1>13, <2>3 DEF ReceiveAudit
    <3>2. result \in {"capture", "survival"} /\ result' = "tamper_forfeit_opponent"
      BY <1>1, <1>13, <2>3, <3>1
         DEF ReceiveAudit, Judged, Phases, AuditClaims, NoForfeitResults
    <3>3. Status = result /\ Status' = result'
      BY <1>13, <3>1, <3>2 DEF ReceiveAudit, Status
    <3> QED BY <2>1, <3>2, <3>3 DEF Promise!Next, Promise!Forfeit, Promise!Decided
  <2> QED BY <2>2, <2>3
<1>14. CASE Press \/ Police \/ Rest \/ UNCHANGED vars
  <2>1. UNCHANGED <<pc, result, step_number, incoming_step>>
    BY <1>14 DEF Press, Police, PoliceTake, PoliceTurn, PoliceRepeat, PoliceFault, PoliceSignal,
                 Rest, vars
  <2> QED BY <2>1 DEF Status
<1> QED BY <1>4, <1>5, <1>6, <1>7, <1>8, <1>9, <1>10, <1>11, <1>12, <1>13, <1>14 DEF Next, Runtime

(* ThiefGame implements the abstract sub-game. *)
THEOREM Refinement == Spec => ImplementsSubGame
<1> QED BY InitRefines, StepRefines, Invariance, PTL DEF Spec, ImplementsSubGame, Promise!Spec

=============================================================================
