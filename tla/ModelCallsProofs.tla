-------------------------- MODULE ModelCallsProofs --------------------------
(***************************************************************************)
(* The calls, the books and the decision of a turn, for any board, any     *)
(* limits and any number of turns.                                         *)
(***************************************************************************)
EXTENDS ModelCalls, SequenceTheorems, TLAPS

(* The part of TypeOK that says nothing of cells. *)
Shapes ==
  /\ pc \in Labels /\ turn \in 0 .. MaxTurns /\ (pc # "rest" => turn \in 1 .. MaxTurns)
  /\ calls \subseteq Calls
  /\ awaited \in Kinds \cup {"none"}
  /\ awaited # "none" <=> pc \in {"tactics", "await_hint"}
  /\ answer.outcome \in Outcomes /\ answer.turn \in 0 .. MaxTurns
  /\ tokens \in [Sources -> Nat] /\ used \in [Sources -> BOOLEAN] /\ own \in [1 .. MaxTurns -> Nat]
  /\ before \in Nat /\ charge \in Nat /\ tokens_total \in Nat
  /\ late \in BOOLEAN /\ blank \in BOOLEAN
  /\ sealed \in Seq(Record)
  /\ Len(sealed) = IF pc \in {"meter", "seal", "rest"} THEN turn ELSE turn - 1

(* An answer that is there was given to the turn that waits for it, and no     *)
(* call is of a turn to come.                                                  *)
Mine ==
  /\ awaited = "none" => answer.outcome = "none"
  /\ answer.outcome # "none" => answer.turn = turn
  /\ \A c \in calls : c.turn <= turn
  /\ AnswersItsOwnTurn

(* Until a call outlives its turn there is at most one: the awaited one, whose *)
(* answer is still open.                                                       *)
Punctual ==
  ~late => \A c \in calls :
    /\ c.turn = turn /\ c.kind = awaited /\ answer.outcome = "none"
    /\ \A d \in calls : d = c

(* The books: what is charged so far was used before this turn began, what the *)
(* turn uses is what the totals grow by, and who adds tokens is remembered     *)
(* while replies tell their counts.                                            *)
Books ==
  /\ before <= Total
  /\ tokens_total <= IF pc \in {"seal", "rest"} THEN Total ELSE before
  /\ pc = "seal" => charge <= Total
  /\ ~blank => \A s \in Sources : tokens[s] > 0 => used[s]
  /\ \A t \in 1 .. MaxTurns : t > turn => own[t] = 0
  /\ ~late /\ pc \notin {"rest", "seal"} => own[turn] = Total - before
  /\ ~late /\ pc = "seal" => own[turn] = charge
  /\ \A t \in DOMAIN sealed : ~Sealed(t) => sealed[t].charge = 0

CallInv == Shapes /\ Mine /\ Punctual /\ Books /\ ChargedToItsTurn /\ ChargeNamesModel

-----------------------------------------------------------------------------
LEMMA CallInit == Init => CallInv
<1> SUFFICES ASSUME Init PROVE CallInv
  OBVIOUS
<1> USE CallAssumption DEF Init
<1>1. Shapes
  <2>1. /\ pc \in Labels /\ turn \in 0 .. MaxTurns /\ (pc # "rest" => turn \in 1 .. MaxTurns)
        /\ awaited \in Kinds \cup {"none"} /\ (awaited # "none" <=> pc \in {"tactics", "await_hint"})
        /\ answer.outcome \in Outcomes /\ answer.turn \in 0 .. MaxTurns /\ calls \subseteq Calls
    BY DEF Labels, Kinds, Outcomes, NoAnswer
  <2>2. /\ tokens \in [Sources -> Nat] /\ used \in [Sources -> BOOLEAN]
        /\ own \in [1 .. MaxTurns -> Nat]
        /\ before \in Nat /\ charge \in Nat /\ tokens_total \in Nat
        /\ late \in BOOLEAN /\ blank \in BOOLEAN
    OBVIOUS
  <2>3. sealed \in Seq(Record) /\ Len(sealed) = 0
    OBVIOUS
  <2> QED
    BY <2>1, <2>2, <2>3 DEF Shapes
<1>2. Mine /\ Punctual /\ ChargedToItsTurn /\ ChargeNamesModel
  BY DEF Mine, AnswersItsOwnTurn, Punctual, ChargedToItsTurn, ChargeNamesModel, NoAnswer
<1>3. Books
  BY DEF Books, Total, Sources
<1> QED
  BY <1>1, <1>2, <1>3 DEF CallInv

(* The total is a number, and does not change with what it is made of. *)
LEMMA TotalNat ==
  ASSUME Shapes
  PROVE  Total \in Nat
BY DEF Shapes, Total, Sources

(* A record more at the end of the log. *)
LEMMA OneRecordMore ==
  ASSUME sealed \in Seq(Record), NEW r \in Record, sealed' = Append(sealed, r)
  PROVE  /\ sealed' \in Seq(Record) /\ Len(sealed') = Len(sealed) + 1
         /\ DOMAIN sealed' = 1 .. Len(sealed) + 1 /\ DOMAIN sealed = 1 .. Len(sealed)
         /\ \A t \in DOMAIN sealed : sealed'[t] = sealed[t]
         /\ sealed'[Len(sealed) + 1] = r
OBVIOUS

(* One record of it written over. *)
LEMMA OneRecordChanged ==
  ASSUME sealed \in Seq(Record), NEW i \in 1 .. Len(sealed), NEW r \in Record,
         sealed' = [sealed EXCEPT ![i] = r]
  PROVE  /\ sealed' \in Seq(Record) /\ Len(sealed') = Len(sealed) /\ DOMAIN sealed' = DOMAIN sealed
         /\ sealed'[i] = r
         /\ \A t \in 1 .. Len(sealed) : t # i => sealed'[t] = sealed[t]
<1> DEFINE S == Record
<1>1. sealed \in Seq(S) /\ r \in S
  OBVIOUS
<1> HIDE DEF S
<1>2. \A j \in 1 .. Len(sealed) : sealed'[j] = IF j = i THEN r ELSE sealed[j]
  BY <1>1, ExceptSeq
<1>3. sealed' \in Seq(S) /\ Len(sealed') = Len(sealed)
  BY <1>1, ExceptSeq
<1> QED
  BY <1>2, <1>3 DEF S

(* The steps of the turn, one after the other. *)
LEMMA BeginKeeps == CallInv /\ Begin => CallInv'
<1> SUFFICES ASSUME CallInv, Begin PROVE CallInv'
  OBVIOUS
<1> USE CallAssumption DEF Begin, Calm, CallInv, meter, ledger
<1>0. Total \in Nat
  BY TotalNat
<1>1. Shapes'
  BY DEF Shapes, Labels, Calls, Kinds, Outcomes, NoAnswer, Record, Hints, Total, Sources, Books
<1>a. awaited = "none" /\ answer.outcome = "none" /\ calls \subseteq Calls /\ turn \in Nat
  BY DEF Shapes, Mine
<1>2. Mine'
  <2>1. \A c \in calls : c.turn <= turn + 1
    BY <1>a DEF Mine, Calls
  <2> QED
    BY <1>a, <2>1 DEF Mine, AnswersItsOwnTurn
<1>3. Punctual'
  BY DEF Punctual, Shapes, NoAnswer, Kinds, Calls
<1>4. Books'
  BY <1>0 DEF Books, Total, Shapes, Punctual, Sealed, Sources, Record, Labels
<1>5. ChargedToItsTurn' /\ ChargeNamesModel'
  BY DEF ChargedToItsTurn, ChargeNamesModel, Sealed, Shapes, Books, Record, Labels, Sources, Total
<1> QED
  BY <1>1, <1>2, <1>3, <1>4, <1>5

LEMMA AskTacticsKeeps == CallInv /\ AskTactics => CallInv'
<1> SUFFICES ASSUME CallInv, AskTactics PROVE CallInv'
  OBVIOUS
<1> USE CallAssumption DEF AskTactics, Submit, CallInv, meter, ledger
<1>0. Total \in Nat
  BY TotalNat
<1>a. ~late => calls = {}
  <2>1. awaited = "none"
    BY DEF Shapes
  <2>2. \A c \in calls : c.kind # "none"
    BY DEF Shapes, Calls, Kinds
  <2> QED
    BY <2>1, <2>2 DEF Punctual
<1>b. [turn |-> turn, kind |-> "tactics", stage |-> "queued", tries |-> 0] \in Calls
  BY DEF Calls, Kinds, Shapes
<1>1. Shapes'
  BY <1>b DEF Shapes, Labels, Kinds, Outcomes, NoAnswer
<1>2. Mine'
  BY DEF Mine, AnswersItsOwnTurn, Shapes, NoAnswer, Kinds, Record
<1>3. Punctual'
  BY <1>a DEF Punctual, NoAnswer
<1>4. Books'
  BY <1>0 DEF Books, Total, Shapes, Punctual, Sealed, Sources, Record, Labels
<1>5. ChargedToItsTurn' /\ ChargeNamesModel'
  BY DEF ChargedToItsTurn, ChargeNamesModel, Sealed, Shapes, Books, Record, Labels, Sources, Total
<1> QED
  BY <1>1, <1>2, <1>3, <1>4, <1>5

LEMMA TakeTacticsKeeps == CallInv /\ TakeTactics => CallInv'
<1> SUFFICES ASSUME CallInv, TakeTactics PROVE CallInv'
  OBVIOUS
<1> USE CallAssumption DEF TakeTactics, CallInv, meter, ledger
<1>0. Total \in Nat
  BY TotalNat
<1>1. Shapes'
  BY DEF Shapes, Labels, Calls, Kinds, Outcomes, NoAnswer, Record, Hints, Total, Sources, Books
<1>2. Mine'
  BY DEF Mine, AnswersItsOwnTurn, Shapes, NoAnswer, Kinds, Record
<1>3. Punctual'
  BY DEF Punctual, Shapes, NoAnswer, Kinds, Calls
<1>4. Books'
  BY <1>0 DEF Books, Total, Shapes, Punctual, Sealed, Sources, Record, Labels
<1>5. ChargedToItsTurn' /\ ChargeNamesModel'
  BY DEF ChargedToItsTurn, ChargeNamesModel, Sealed, Shapes, Books, Record, Labels, Sources, Total
<1> QED
  BY <1>1, <1>2, <1>3, <1>4, <1>5

LEMMA ApplyKeeps == CallInv /\ Apply => CallInv'
<1> SUFFICES ASSUME CallInv, Apply PROVE CallInv'
  OBVIOUS
<1> USE CallAssumption DEF Apply, Calm, CallInv, meter, ledger
<1>0. Total \in Nat
  BY TotalNat
<1>1. Shapes'
  BY DEF Shapes, Labels, Calls, Kinds, Outcomes, NoAnswer, Record, Hints, Total, Sources, Books
<1>2. Mine'
  BY DEF Mine, AnswersItsOwnTurn, Shapes, NoAnswer, Kinds, Record
<1>3. Punctual'
  BY DEF Punctual, Shapes, NoAnswer, Kinds, Calls
<1>4. Books'
  BY <1>0 DEF Books, Total, Shapes, Punctual, Sealed, Sources, Record, Labels
<1>5. ChargedToItsTurn' /\ ChargeNamesModel'
  BY DEF ChargedToItsTurn, ChargeNamesModel, Sealed, Shapes, Books, Record, Labels, Sources, Total
<1> QED
  BY <1>1, <1>2, <1>3, <1>4, <1>5

LEMMA TemplateKeeps == CallInv /\ Template => CallInv'
<1> SUFFICES ASSUME CallInv, Template PROVE CallInv'
  OBVIOUS
<1> USE CallAssumption DEF Template, Calm, CallInv, meter, ledger
<1>0. Total \in Nat
  BY TotalNat
<1>r. PICK r \in Record : /\ sealed' = Append(sealed, r) /\ r.by = turn /\ r.charge = 0
                         /\ Len(sealed) = turn - 1 /\ turn \in 1 .. MaxTurns
  BY DEF Record, Hints, Shapes, Labels, Mine
<1>s. /\ sealed' \in Seq(Record) /\ Len(sealed') = Len(sealed) + 1
      /\ DOMAIN sealed' = 1 .. turn /\ DOMAIN sealed = 1 .. turn - 1
      /\ \A t \in DOMAIN sealed : sealed'[t] = sealed[t]
      /\ sealed'[turn] = r
  BY <1>r, OneRecordMore DEF Shapes
<1>1. Shapes'
  BY <1>r, <1>s DEF Shapes, Labels, Outcomes, NoAnswer, Kinds
<1>2. Mine'
  BY <1>r, <1>s DEF Mine, AnswersItsOwnTurn, Shapes, NoAnswer
<1>3. Punctual'
  BY DEF Punctual, Shapes, NoAnswer, Kinds, Calls, Mine
<1>4. Books'
  BY <1>0, <1>r, <1>s DEF Books, Total, Shapes, Sealed, Sources, Labels
<1>5. ChargedToItsTurn' /\ ChargeNamesModel'
  BY <1>r, <1>s DEF ChargedToItsTurn, ChargeNamesModel, Sealed, Shapes
<1> QED
  BY <1>1, <1>2, <1>3, <1>4, <1>5

LEMMA AskHintKeeps == CallInv /\ AskHint => CallInv'
<1> SUFFICES ASSUME CallInv, AskHint PROVE CallInv'
  OBVIOUS
<1> USE CallAssumption DEF AskHint, Submit, CallInv, meter, ledger
<1>0. Total \in Nat
  BY TotalNat
<1>a. ~late => calls = {}
  <2>1. awaited = "none"
    BY DEF Shapes
  <2>2. \A c \in calls : c.kind # "none"
    BY DEF Shapes, Calls, Kinds
  <2> QED
    BY <2>1, <2>2 DEF Punctual
<1>b. [turn |-> turn, kind |-> "hint", stage |-> "queued", tries |-> 0] \in Calls
  BY DEF Calls, Kinds, Shapes
<1>1. Shapes'
  BY <1>b DEF Shapes, Labels, Kinds, Outcomes, NoAnswer
<1>2. Mine'
  BY DEF Mine, AnswersItsOwnTurn, Shapes, NoAnswer, Kinds, Record
<1>3. Punctual'
  BY <1>a DEF Punctual, NoAnswer
<1>4. Books'
  BY <1>0 DEF Books, Total, Shapes, Punctual, Sealed, Sources, Record, Labels
<1>5. ChargedToItsTurn' /\ ChargeNamesModel'
  BY DEF ChargedToItsTurn, ChargeNamesModel, Sealed, Shapes, Books, Record, Labels, Sources, Total
<1> QED
  BY <1>1, <1>2, <1>3, <1>4, <1>5

LEMMA TakeHintKeeps == CallInv /\ TakeHint => CallInv'
<1> SUFFICES ASSUME CallInv, TakeHint PROVE CallInv'
  OBVIOUS
<1> USE CallAssumption DEF TakeHint, Say, CallInv, meter, ledger
<1>0. Total \in Nat
  BY TotalNat
<1>r. PICK r \in Record : /\ sealed' = Append(sealed, r) /\ r.by = turn /\ r.charge = 0
                         /\ Len(sealed) = turn - 1 /\ turn \in 1 .. MaxTurns
  <2> DEFINE r == [charge |-> 0, label |-> FALSE, by |-> answer.turn,
                    hint |-> IF awaited = "repair" THEN "llm_retry" ELSE "llm"]
  <2>1. answer.turn = turn /\ turn \in 1 .. MaxTurns /\ Len(sealed) = turn - 1
    BY DEF Mine, Shapes, Labels
  <2>2. r \in Record
    BY <2>1 DEF Record, Hints
  <2>3. sealed' = Append(sealed, r)
    OBVIOUS
  <2> QED
    BY <2>1, <2>2, <2>3
<1>s. /\ sealed' \in Seq(Record) /\ Len(sealed') = Len(sealed) + 1
      /\ DOMAIN sealed' = 1 .. turn /\ DOMAIN sealed = 1 .. turn - 1
      /\ \A t \in DOMAIN sealed : sealed'[t] = sealed[t]
      /\ sealed'[turn] = r
  BY <1>r, OneRecordMore DEF Shapes
<1>1. Shapes'
  BY <1>r, <1>s DEF Shapes, Labels, Outcomes, NoAnswer, Kinds
<1>2. Mine'
  BY <1>r, <1>s DEF Mine, AnswersItsOwnTurn, Shapes, NoAnswer
<1>3. Punctual'
  BY DEF Punctual, Shapes, NoAnswer, Kinds, Calls, Mine
<1>4. Books'
  BY <1>0, <1>r, <1>s DEF Books, Total, Shapes, Sealed, Sources, Labels
<1>5. ChargedToItsTurn' /\ ChargeNamesModel'
  BY <1>r, <1>s DEF ChargedToItsTurn, ChargeNamesModel, Sealed, Shapes
<1> QED
  BY <1>1, <1>2, <1>3, <1>4, <1>5

LEMMA RepairKeeps == CallInv /\ Repair => CallInv'
<1> SUFFICES ASSUME CallInv, Repair PROVE CallInv'
  OBVIOUS
<1> USE CallAssumption DEF Repair, Submit, CallInv, meter, ledger
<1>0. Total \in Nat
  BY TotalNat
<1>b. [turn |-> turn, kind |-> "repair", stage |-> "queued", tries |-> 0] \in Calls
  BY DEF Calls, Kinds, Shapes
<1>1. Shapes'
  BY <1>b DEF Shapes, Labels, Kinds, Outcomes, NoAnswer
<1>2. Mine'
  BY DEF Mine, AnswersItsOwnTurn, Shapes, NoAnswer, Kinds, Record
<1>3. Punctual'
  BY DEF Punctual, Shapes, NoAnswer, Kinds, Calls
<1>4. Books'
  BY <1>0 DEF Books, Total, Shapes, Punctual, Sealed, Sources, Record, Labels
<1>5. ChargedToItsTurn' /\ ChargeNamesModel'
  BY DEF ChargedToItsTurn, ChargeNamesModel, Sealed, Shapes, Books, Record, Labels, Sources, Total
<1> QED
  BY <1>1, <1>2, <1>3, <1>4, <1>5

LEMMA FallBackKeeps == CallInv /\ FallBack => CallInv'
<1> SUFFICES ASSUME CallInv, FallBack PROVE CallInv'
  OBVIOUS
<1> USE CallAssumption DEF FallBack, Say, CallInv, meter, ledger
<1>0. Total \in Nat
  BY TotalNat
<1>r. PICK r \in Record : /\ sealed' = Append(sealed, r) /\ r.by = turn /\ r.charge = 0
                         /\ Len(sealed) = turn - 1 /\ turn \in 1 .. MaxTurns
  BY DEF Record, Hints, Shapes, Labels, Mine
<1>s. /\ sealed' \in Seq(Record) /\ Len(sealed') = Len(sealed) + 1
      /\ DOMAIN sealed' = 1 .. turn /\ DOMAIN sealed = 1 .. turn - 1
      /\ \A t \in DOMAIN sealed : sealed'[t] = sealed[t]
      /\ sealed'[turn] = r
  BY <1>r, OneRecordMore DEF Shapes
<1>1. Shapes'
  BY <1>r, <1>s DEF Shapes, Labels, Outcomes, NoAnswer, Kinds
<1>2. Mine'
  BY <1>r, <1>s DEF Mine, AnswersItsOwnTurn, Shapes, NoAnswer
<1>3. Punctual'
  BY DEF Punctual, Shapes, NoAnswer, Kinds, Calls, Mine
<1>4. Books'
  BY <1>0, <1>r, <1>s DEF Books, Total, Shapes, Sealed, Sources, Labels
<1>5. ChargedToItsTurn' /\ ChargeNamesModel'
  BY <1>r, <1>s DEF ChargedToItsTurn, ChargeNamesModel, Sealed, Shapes
<1> QED
  BY <1>1, <1>2, <1>3, <1>4, <1>5

LEMMA DeadlineKeeps == CallInv /\ Deadline => CallInv'
<1> SUFFICES ASSUME CallInv, Deadline PROVE CallInv'
  OBVIOUS
<1> USE CallAssumption DEF Deadline, Say, CallInv, meter, ledger
<1>0. Total \in Nat
  BY TotalNat
<1>r. PICK r \in Record : /\ sealed' = Append(sealed, r) /\ r.by = turn /\ r.charge = 0
                         /\ Len(sealed) = turn - 1 /\ turn \in 1 .. MaxTurns
  BY DEF Record, Hints, Shapes, Labels, Mine
<1>s. /\ sealed' \in Seq(Record) /\ Len(sealed') = Len(sealed) + 1
      /\ DOMAIN sealed' = 1 .. turn /\ DOMAIN sealed = 1 .. turn - 1
      /\ \A t \in DOMAIN sealed : sealed'[t] = sealed[t]
      /\ sealed'[turn] = r
  BY <1>r, OneRecordMore DEF Shapes
<1>1. Shapes'
  <2>1. late' = TRUE /\ awaited' = "none" /\ pc' = "meter" /\ answer' = NoAnswer
    OBVIOUS
  <2> QED
    BY <1>r, <1>s, <2>1 DEF Shapes, Labels, Outcomes, NoAnswer, Kinds
<1>2. Mine'
  BY <1>r, <1>s DEF Mine, AnswersItsOwnTurn, Shapes, NoAnswer
<1>3. Punctual'
  BY DEF Punctual, Shapes, NoAnswer, Kinds, Calls, Mine
<1>4. Books'
  BY <1>0, <1>r, <1>s DEF Books, Total, Shapes, Sealed, Sources, Labels
<1>5. ChargedToItsTurn' /\ ChargeNamesModel'
  BY <1>r, <1>s DEF ChargedToItsTurn, ChargeNamesModel, Sealed, Shapes
<1> QED
  BY <1>1, <1>2, <1>3, <1>4, <1>5

LEMMA ReadTotalsKeeps == CallInv /\ ReadTotals => CallInv'
<1> SUFFICES ASSUME CallInv, ReadTotals PROVE CallInv'
  OBVIOUS
<1> USE CallAssumption DEF ReadTotals, Calm, CallInv, meter, ledger
<1>0. Total \in Nat /\ Total' = Total /\ before \in Nat /\ tokens_total \in Nat
  BY TotalNat DEF Total, Shapes
<1>c. /\ Charge \in Nat /\ Charge = Total - before /\ charge' = Charge
      /\ tokens_total' = tokens_total + Charge
  BY <1>0 DEF Charge, Books
<1>1. Shapes'
  BY <1>0, <1>c DEF Shapes, Labels
<1>2. Mine' /\ Punctual'
  BY DEF Mine, AnswersItsOwnTurn, Punctual
<1>4. Books'
  BY <1>0, <1>c DEF Books, Shapes, Sealed
<1>5. ChargedToItsTurn' /\ ChargeNamesModel'
  BY DEF ChargedToItsTurn, ChargeNamesModel, Sealed
<1> QED
  BY <1>1, <1>2, <1>4, <1>5

LEMMA SealKeeps == CallInv /\ Seal => CallInv'
<1> SUFFICES ASSUME CallInv, Seal PROVE CallInv'
  OBVIOUS
<1> USE CallAssumption DEF Seal, Calm, CallInv, meter, ledger
<1>0. Total \in Nat /\ Total' = Total /\ turn \in 1 .. MaxTurns /\ Len(sealed) = turn
  BY TotalNat DEF Total, Shapes
<1> DEFINE named == \E s \in Sources : used[s]
<1>s. /\ sealed' \in Seq(Record) /\ Len(sealed') = turn
      /\ DOMAIN sealed' = 1 .. turn /\ DOMAIN sealed = 1 .. turn
      /\ \A t \in 1 .. turn : t # turn => sealed'[t] = sealed[t]
      /\ sealed'[turn].charge = charge /\ sealed'[turn].label = named
      /\ sealed'[turn].by = sealed[turn].by
  <2>1. sealed \in Seq(Record) /\ charge \in Nat /\ named \in BOOLEAN /\ sealed[turn] \in Record
    BY <1>0 DEF Shapes
  <2> DEFINE r == [sealed[turn] EXCEPT !.charge = charge, !.label = named]
  <2>2. sealed' = [sealed EXCEPT ![turn] = r]
    BY <1>0, <2>1
  <2>3. r \in Record
    BY <2>1 DEF Record
  <2>4. r.charge = charge /\ r.label = named /\ r.by = sealed[turn].by
    BY <2>1 DEF Record
  <2> HIDE DEF named, r
  <2>7. turn \in 1 .. Len(sealed)
    BY <1>0
  <2>8. /\ sealed' \in Seq(Record) /\ Len(sealed') = Len(sealed) /\ DOMAIN sealed' = DOMAIN sealed
        /\ sealed'[turn] = r /\ \A t \in 1 .. Len(sealed) : t # turn => sealed'[t] = sealed[t]
    BY <2>1, <2>2, <2>3, <2>7, OneRecordChanged
  <2>9. /\ DOMAIN sealed' = 1 .. turn /\ DOMAIN sealed = 1 .. turn /\ sealed'[turn] = r
        /\ \A t \in 1 .. turn : t # turn => sealed'[t] = sealed[t]
    BY <1>0, <2>1, <2>8
  <2> QED
    BY <1>0, <2>4, <2>8, <2>9
<1>1. Shapes'
  BY <1>0, <1>s DEF Shapes, Labels
<1>2. Mine' /\ Punctual'
  BY <1>0, <1>s DEF Mine, AnswersItsOwnTurn, Punctual
<1>4. Books'
  BY <1>0, <1>s DEF Books, Shapes, Sealed
<1>5. ChargedToItsTurn'
  BY <1>0, <1>s DEF ChargedToItsTurn, Sealed, Books, Shapes
<1>6. ChargeNamesModel'
  <2>1. ~blank /\ charge > 0 => named
    BY <1>0 DEF Books, Total, Shapes, Sources
  <2> QED
    BY <1>0, <1>s, <2>1 DEF ChargeNamesModel
<1> QED
  BY <1>1, <1>2, <1>4, <1>5, <1>6

-----------------------------------------------------------------------------
(* A worker adds to the books only what is its own, and answers only the turn  *)
(* that waits for it.                                                          *)
LEMMA WorkerKeeps ==
  ASSUME CallInv, NEW c \in calls, Worker(c)
  PROVE  CallInv'
<1> USE CallAssumption DEF CallInv, meter, ledger, mind
<1>0. Total \in Nat /\ c \in Calls /\ c.turn \in 1 .. MaxTurns /\ SourceOf(c.kind) \in Sources
  BY TotalNat DEF Shapes, Calls, Sources, SourceOf
<1> USE DEF Calls
<1>u. /\ UNCHANGED <<setup, pc, turn, mind, decision, awaited, ledger, late>>
      /\ UNCHANGED meter \/ \E n \in Counts : Count(c, n)
  BY DEF Worker, SendOut, TryAgain, Reply, Fail
<1>c. \/ /\ UNCHANGED answer
         /\ \E d \in Calls : calls' = (calls \ {c}) \cup {d} /\ d.turn = c.turn /\ d.kind = c.kind
      \/ /\ calls' = calls \ {c}
         /\ \/ UNCHANGED answer
            \/ /\ c.turn = turn /\ c.kind = awaited
               /\ answer'.turn = turn /\ answer'.outcome \in Outcomes
  <2>1. CASE SendOut(c)
    BY <2>1, <1>0 DEF SendOut
  <2>2. CASE TryAgain(c)
    <3>1. c.tries + 1 \in 0 .. MaxRetries
      BY <2>2, <1>0 DEF TryAgain
    <3> DEFINE d == [c EXCEPT !.stage = "queued", !.tries = @ + 1]
    <3>2. d \in Calls /\ d.turn = c.turn /\ d.kind = c.kind
      BY <3>1, <1>0
    <3> QED
      BY <2>2, <3>2 DEF TryAgain
  <2>3. CASE Reply(c) \/ Fail(c)
    BY <2>3 DEF Reply, Fail, Deliver, Outcomes
  <2> QED
    BY <2>1, <2>2, <2>3, <1>0 DEF Worker
<1>t. /\ tokens' \in [Sources -> Nat] /\ used' \in [Sources -> BOOLEAN]
      /\ own' \in [1 .. MaxTurns -> Nat] /\ Total' \in Nat
      /\ blank' \in BOOLEAN /\ (~blank' => ~blank)
      /\ ~blank' => \A s \in Sources : (tokens[s] > 0 => used[s]) => (tokens'[s] > 0 => used'[s])
      /\ \A t \in 1 .. MaxTurns : t # c.turn => own'[t] = own[t]
      /\ \E n \in Counts : Total' = Total + n /\ own'[c.turn] = own[c.turn] + n
  <2>1. CASE UNCHANGED meter
    BY <2>1, <1>0 DEF Shapes, Total, Counts
  <2>2. CASE \E n \in Counts : Count(c, n)
    <3>0. PICK n \in Counts : Count(c, n)
      BY <2>2
    <3>n. n \in {0, 1}
      BY DEF Counts
    <3>1. PICK source \in Sources :
            /\ tokens' = [tokens EXCEPT ![source] = @ + n]
            /\ used' = [used EXCEPT ![source] = n > 0]
            /\ own' = [own EXCEPT ![c.turn] = @ + n]
            /\ blank' = (blank \/ n = 0)
      BY <3>0, <1>0 DEF Count
    <3>t. /\ tokens \in [Sources -> Nat] /\ used \in [Sources -> BOOLEAN]
          /\ own \in [1 .. MaxTurns -> Nat] /\ blank \in BOOLEAN
      BY DEF Shapes
    <3> HIDE DEF CallInv
    <3>2. /\ tokens' \in [Sources -> Nat] /\ used' \in [Sources -> BOOLEAN]
          /\ blank' \in BOOLEAN /\ (~blank' => ~blank /\ n = 1)
      <4>1. tokens' \in [Sources -> Nat]
        BY <3>n, <3>1, <3>t
      <4>2. used' \in [Sources -> BOOLEAN] /\ blank' \in BOOLEAN
        BY <3>1, <3>t
      <4>3. ~blank' => ~blank /\ n = 1
        <5>1. ~blank' => ~blank /\ n # 0
          BY <3>1
        <5> QED BY <3>n, <5>1
      <4> QED BY <4>1, <4>2, <4>3
    <3>5. /\ own' \in [1 .. MaxTurns -> Nat] /\ own'[c.turn] = own[c.turn] + n
          /\ \A t \in 1 .. MaxTurns : t # c.turn => own'[t] = own[t]
      BY <3>n, <3>1, <3>t, <1>0
    <3>3. Total' \in Nat /\ Total' = Total + n
      <4>1. tokens["llm"] \in Nat /\ tokens["hint_writer"] \in Nat
        BY <3>t DEF Sources
      <4>2. CASE source = "llm"
        <5>1. tokens'["llm"] = tokens["llm"] + n /\ tokens'["hint_writer"] = tokens["hint_writer"]
          BY <3>1, <3>t, <4>2 DEF Sources
        <5> QED
          BY <3>n, <4>1, <5>1 DEF Total
      <4>3. CASE source = "hint_writer"
        BY <3>n, <3>1, <3>t, <4>1, <4>3 DEF Total, Sources
      <4> QED
        BY <4>2, <4>3 DEF Sources
    <3>4. ~blank' => \A s \in Sources : (tokens[s] > 0 => used[s]) => (tokens'[s] > 0 => used'[s])
      <4> SUFFICES ASSUME ~blank', NEW s \in Sources, tokens[s] > 0 => used[s], tokens'[s] > 0
                   PROVE  used'[s]
        OBVIOUS
      <4>1. CASE s = source
        <5>1. used'[s] = (n > 0)
          BY <3>1, <3>t, <4>1
        <5>2. n > 0
          BY <3>2, <4>1
        <5> QED BY <5>1, <5>2
      <4>2. CASE s # source
        <5>1. tokens'[s] = tokens[s] /\ used'[s] = used[s]
          BY <3>1, <3>t, <4>2
        <5> QED
          BY <5>1
      <4> QED
        BY <4>1, <4>2
    <3> QED
      BY <3>0, <3>2, <3>3, <3>4, <3>5
  <2> QED
    BY <1>u, <2>1, <2>2
<1>1. Shapes'
  <2>1. calls' \subseteq Calls
    BY <1>c DEF Shapes
  <2>2. answer'.outcome \in Outcomes /\ answer'.turn \in 0 .. MaxTurns
    BY <1>c DEF Shapes
  <2> QED
    BY <2>1, <2>2, <1>u, <1>t DEF Shapes
<1>2. Mine'
  BY <1>0, <1>c, <1>u DEF Mine, AnswersItsOwnTurn, Kinds
<1>3. Punctual'
  BY <1>0, <1>c, <1>u DEF Punctual
<1>4. ~late => c.turn = turn /\ pc \in {"tactics", "await_hint"}
  BY <1>0 DEF Punctual, Shapes, Kinds
<1>5. c.turn <= turn /\ Total' >= Total
  BY <1>0, <1>t DEF Mine, Counts
<1>6. Books'
  <2>0. /\ pc' = pc /\ turn' = turn /\ late' = late /\ before' = before /\ charge' = charge
        /\ tokens_total' = tokens_total
        /\ before \in Nat /\ charge \in Nat /\ tokens_total \in Nat /\ turn \in 0 .. MaxTurns
    BY <1>u DEF Shapes
  <2>1. before <= Total' /\ tokens_total' <= IF pc' \in {"seal", "rest"} THEN Total' ELSE before'
    BY <1>0, <1>5, <1>t, <2>0 DEF Books
  <2>2. (pc = "seal" => charge <= Total)' /\ (\A t \in DOMAIN sealed : ~Sealed(t) => sealed[t].charge = 0)'
    BY <1>0, <1>5, <1>t, <1>u DEF Books, Shapes, Sealed
  <2>3. (~blank => \A s \in Sources : tokens[s] > 0 => used[s])'
    BY <1>t DEF Books
  <2>4. (\A t \in 1 .. MaxTurns : t > turn => own[t] = 0)'
    BY <1>0, <1>5, <1>t, <1>u DEF Books, Shapes
  <2>5. (/\ ~late /\ pc \notin {"rest", "seal"} => own[turn] = Total - before
         /\ ~late /\ pc = "seal" => own[turn] = charge)'
    <3> SUFFICES ASSUME ~late
                 PROVE  own'[turn] = Total' - before /\ pc \notin {"rest", "seal"}
      BY <2>0
    <3>1. c.turn = turn /\ pc \notin {"rest", "seal"} /\ own[turn] = Total - before
      BY <1>4 DEF Books
    <3>2. own[turn] \in Nat
      BY <1>0, <3>1 DEF Shapes
    <3> QED
      BY <1>0, <1>t, <2>0, <3>1, <3>2 DEF Counts
  <2> QED
    BY <2>1, <2>2, <2>3, <2>4, <2>5, <1>u DEF Books
<1>7. ChargedToItsTurn' /\ ChargeNamesModel'
  <2>1. ASSUME ~late, NEW t \in DOMAIN sealed, Sealed(t)
        PROVE  own'[t] = own[t]
    <3>1. c.turn = turn /\ pc # "rest"
      BY <2>1, <1>4
    <3>2. t \in 1 .. Len(sealed) /\ Len(sealed) \in 0 .. MaxTurns /\ turn \in 0 .. MaxTurns
      BY <2>1, <1>4 DEF Shapes
    <3>3. t < turn /\ t \in 1 .. MaxTurns
      BY <2>1, <3>1, <3>2, CallAssumption DEF Sealed
    <3>4. t # c.turn
      BY <3>1, <3>2, <3>3
    <3> QED
      BY <3>3, <3>4, <1>t
  <2> QED
    BY <2>1, <1>t, <1>u DEF ChargedToItsTurn, ChargeNamesModel, Sealed
<1> QED
  BY <1>1, <1>2, <1>3, <1>6, <1>7

LEMMA CallStep == CallInv /\ [Next]_vars => CallInv'
<1> SUFFICES ASSUME CallInv, [Next]_vars PROVE CallInv'
  OBVIOUS
<1>1. CASE UNCHANGED vars
  BY <1>1 DEF vars, mind, meter, ledger, CallInv, Shapes, Mine, AnswersItsOwnTurn, Punctual, Books,
              Total, Sealed, ChargedToItsTurn, ChargeNamesModel
<1>2. CASE Turn
  BY <1>2, AskTacticsKeeps, TakeTacticsKeeps, ApplyKeeps, TemplateKeeps, AskHintKeeps,
     TakeHintKeeps, RepairKeeps, FallBackKeeps, ReadTotalsKeeps, SealKeeps DEF Turn
<1>3. ASSUME NEW c \in calls, Worker(c) PROVE CallInv'
  BY <1>3, WorkerKeeps
<1> QED
  BY <1>1, <1>2, <1>3, BeginKeeps, DeadlineKeeps DEF Next, Rest

-----------------------------------------------------------------------------
(* The choice of a step. *)

(* A peak is what the belief holds most likely. *)
LEMMA PeakIsLikely ==
  ASSUME NEW peak \in Cells
  PROVE  MostLikely(Belief(peak)) = peak
<1> DEFINE belief == Belief(peak)
           Likely(c) == \A d \in Cells \ {c} :
             belief[d] < belief[c] \/ (belief[d] = belief[c] /\ Before(c, d))
<1>1. Peak \in Nat \ {0}
  BY CallAssumption
<1>2. \A c \in Cells : belief[c] = IF c = peak THEN Peak ELSE 0
  BY DEF Belief
<1> HIDE DEF belief
<1>3. Likely(peak)
  BY <1>1, <1>2
<1>4. \A c \in Cells : Likely(c) => c = peak
  <2> SUFFICES ASSUME NEW c \in Cells, c # peak, Likely(c) PROVE FALSE
    OBVIOUS
  <2>1. belief[peak] = Peak /\ belief[c] = 0
    BY <1>2
  <2> QED BY <1>1, <2>1
<1>5. MostLikely(belief) = CHOOSE c \in Cells : Likely(c)
  BY DEF MostLikely
<1> HIDE DEF Likely
<1>6. MostLikely(belief) = peak
  BY <1>3, <1>4, <1>5
<1> QED BY <1>6 DEF belief

(* One of four at most is the greatest. *)
LEMMA GreatestOfFour ==
  ASSUME NEW a, NEW b, NEW c, NEW d, NEW T, T \subseteq {a, b, c, d}, T # {},
         NEW w, \A x \in T : w[x] \in Int
  PROVE  \E x \in T : \A y \in T : w[y] <= w[x]
<1> DEFINE Tops(U) == \E x \in U : \A y \in U : w[y] <= w[x]
<1>1. ASSUME NEW U, NEW e, U \cup {e} \subseteq T, U = {} \/ Tops(U)
      PROVE  Tops(U \cup {e})
  <2>1. CASE U = {}
    BY <1>1, <2>1
  <2>2. CASE Tops(U)
    <3>1. PICK x \in U : \A y \in U : w[y] <= w[x]
      BY <2>2
    <3>2. w[x] \in Int /\ w[e] \in Int /\ \A y \in U : w[y] \in Int
      BY <1>1, <3>1
    <3>3. CASE w[e] <= w[x]
      BY <3>1, <3>3
    <3>4. CASE w[x] < w[e]
      BY <3>1, <3>2, <3>4
    <3> QED BY <3>2, <3>3, <3>4
  <2> QED BY <1>1, <2>1, <2>2
<1> HIDE DEF Tops
<1>2. ASSUME NEW U, NEW e, U \cup {e} \subseteq T \/ U \subseteq T, U = {} \/ Tops(U), U \subseteq T
      PROVE  (U \cup ({e} \cap T)) = {} \/ Tops(U \cup ({e} \cap T))
  <2>1. CASE e \in T
    <3>1. U \cup ({e} \cap T) = U \cup {e} /\ U \cup {e} \subseteq T
      BY <1>2, <2>1
    <3> QED BY <1>1, <1>2, <3>1
  <2>2. CASE e \notin T
    <3>1. U \cup ({e} \cap T) = U
      BY <2>2
    <3> QED BY <1>2, <3>1
  <2> QED BY <2>1, <2>2
<1> DEFINE A == {} \cup ({a} \cap T)
           B == A \cup ({b} \cap T)
           C == B \cup ({c} \cap T)
           D == C \cup ({d} \cap T)
<1>3. A = {} \/ Tops(A)
  BY <1>2
<1>4. B = {} \/ Tops(B)
  BY <1>2, <1>3
<1>5. C = {} \/ Tops(C)
  BY <1>2, <1>4
<1>6. D = {} \/ Tops(D)
  BY <1>2, <1>5
<1>7. D = T
  OBVIOUS
<1> QED BY <1>6, <1>7 DEF Tops

LEMMA StepsAreNeighbours ==
  ASSUME NEW here \in Cells, NEW walls
  PROVE  /\ LegalMoves(here, walls) \subseteq Cells
         /\ LegalMoves(here, walls) \subseteq {Neighbor(here, "N"), Neighbor(here, "S"),
                                               Neighbor(here, "E"), Neighbor(here, "W")}
         /\ \A c, d \in LegalMoves(here, walls) : c # d =>
              DirectionRank(here, c) # DirectionRank(here, d)
         /\ \A c \in LegalMoves(here, walls) : DirectionRank(here, c) \in 1 .. 4
<1>1. /\ LegalMoves(here, walls) \subseteq Cells
      /\ LegalMoves(here, walls) \subseteq {Neighbor(here, "N"), Neighbor(here, "S"),
                                            Neighbor(here, "E"), Neighbor(here, "W")}
  BY DEF LegalMoves, Directions
<1>2. here[1] \in Int /\ here[2] \in Int
  BY DEF Cells, Coordinates
<1>3. /\ Neighbor(here, "N") = <<here[1] - 1, here[2]>>
      /\ Neighbor(here, "S") = <<here[1] + 1, here[2]>>
      /\ Neighbor(here, "E") = <<here[1], here[2] + 1>>
      /\ Neighbor(here, "W") = <<here[1], here[2] - 1>>
  BY <1>2 DEF Neighbor, Delta
<1> DEFINE n == Neighbor(here, "N")
           s == Neighbor(here, "S")
           e == Neighbor(here, "E")
           w == Neighbor(here, "W")
<1>4. n # s /\ n # e /\ n # w /\ s # e /\ s # w /\ e # w
  BY <1>2, <1>3
<1>5. \A c : DirectionRank(here, c) = CASE c = n -> 1 [] c = s -> 2 [] c = e -> 3 [] OTHER -> 4
  BY DEF DirectionRank
<1> HIDE DEF n, s, e, w
<1>6. DirectionRank(here, n) = 1
  BY <1>4, <1>5
<1>7. DirectionRank(here, s) = 2
  BY <1>4, <1>5
<1>8. DirectionRank(here, e) = 3
  BY <1>4, <1>5
<1>9. DirectionRank(here, w) = 4
  BY <1>4, <1>5
<1>10. \A c \in LegalMoves(here, walls) : c \in {n, s, e, w}
  BY <1>1 DEF n, s, e, w
<1> QED BY <1>1, <1>6, <1>7, <1>8, <1>9, <1>10 DEF n, s, e, w

LEMMA DistanceNat ==
  ASSUME NEW a \in Cells, NEW b \in Cells
  PROVE  Distance(a, b) \in Nat
<1>1. a[1] \in Int /\ a[2] \in Int /\ b[1] \in Int /\ b[2] \in Int
  BY DEF Cells, Coordinates
<1>2. \A i \in Int : Abs(i) \in Nat
  BY DEF Abs
<1>3. Abs(a[1] - b[1]) \in Nat /\ Abs(a[2] - b[2]) \in Nat
  BY <1>1, <1>2
<1> QED BY <1>3 DEF Distance

(* The shipped brain takes a legal step where there is one: one step is before *)
(* every other by its distance, then by its novelty, then by its direction.    *)
LEMMA PickIsLegal ==
  ASSUME NEW here \in Cells, NEW walls, NEW seen, NEW peak \in Cells, ~IsConfined(here, walls)
  PROVE  ThiefPick(here, walls, seen, Belief(peak)) \in LegalMoves(here, walls)
<1> DEFINE steps == LegalMoves(here, walls)
           far(c) == Distance(c, peak)
           new(c) == Unvisited(c, seen)
           rank(c) == DirectionRank(here, c)
           key == [c \in steps |-> <<Distance(c, peak), Unvisited(c, seen)>>]
           w == [c \in steps |-> 10 * far(c) + 5 * new(c) - rank(c)]
           First(c) == \A d \in steps \ {c} :
             Above(key[c], key[d]) \/ (key[c] = key[d] /\ rank(c) < rank(d))
<1>1. steps # {}
  BY DEF IsConfined
<1>2. \A c \in steps : far(c) \in Nat /\ new(c) \in {0, 1} /\ rank(c) \in 1 .. 4
  BY StepsAreNeighbours, DistanceNat DEF Unvisited
<1>3. \A c, d \in steps : c # d => rank(c) # rank(d)
  BY StepsAreNeighbours
<1>4. \A c \in steps : key[c] = <<far(c), new(c)>>
  OBVIOUS
<1>5. \A c \in steps : w[c] = 10 * far(c) + 5 * new(c) - rank(c)
  OBVIOUS
<1>6. steps \subseteq {Neighbor(here, "N"), Neighbor(here, "S"),
                       Neighbor(here, "E"), Neighbor(here, "W")}
  BY StepsAreNeighbours
<1> HIDE DEF far, new, rank, key, w, steps
<1>7. \A c \in steps : w[c] \in Int
  BY <1>2, <1>5
<1>8. PICK c \in steps : \A d \in steps : w[d] <= w[c]
  BY <1>1, <1>6, <1>7, GreatestOfFour
<1>9. First(c)
  <2> SUFFICES ASSUME NEW d \in steps \ {c}
               PROVE  Above(key[c], key[d]) \/ (key[c] = key[d] /\ rank(c) < rank(d))
    OBVIOUS
  <2>1. /\ far(c) \in Nat /\ new(c) \in {0, 1} /\ rank(c) \in 1 .. 4
        /\ far(d) \in Nat /\ new(d) \in {0, 1} /\ rank(d) \in 1 .. 4
        /\ rank(c) # rank(d)
        /\ 10 * far(d) + 5 * new(d) - rank(d) <= 10 * far(c) + 5 * new(c) - rank(c)
    BY <1>2, <1>3, <1>5, <1>8
  <2>2. \/ far(c) > far(d)
        \/ far(c) = far(d) /\ new(c) > new(d)
        \/ far(c) = far(d) /\ new(c) = new(d) /\ rank(c) < rank(d)
    BY <2>1
  <2>3. key[c] = <<far(c), new(c)>> /\ key[d] = <<far(d), new(d)>>
    BY <1>4
  <2>4. CASE far(c) > far(d)
    <3>1. key[c][1] > key[d][1] /\ 1 \in DOMAIN key[c] /\ \A j \in 1 .. 1 - 1 : FALSE
      BY <2>3, <2>4
    <3> QED BY <3>1 DEF Above
  <2>5. CASE far(c) = far(d) /\ new(c) > new(d)
    <3>1. key[c][2] > key[d][2] /\ 2 \in DOMAIN key[c]
          /\ \A j \in 1 .. 2 - 1 : key[c][j] = key[d][j]
      BY <2>3, <2>5
    <3> QED BY <3>1 DEF Above
  <2>6. CASE far(c) = far(d) /\ new(c) = new(d) /\ rank(c) < rank(d)
    BY <2>3, <2>6
  <2> QED BY <2>2, <2>4, <2>5, <2>6
<1>10. ThiefPick(here, walls, seen, Belief(peak)) = CHOOSE x \in steps : First(x)
  BY PeakIsLikely DEF ThiefPick, Best, steps, key, rank
<1> HIDE DEF First
<1> QED BY <1>9, <1>10 DEF steps

-----------------------------------------------------------------------------
(* What is decided. *)

(* The part of TypeOK that speaks of cells. *)
CellTypes ==
  /\ setup \in Setups
  /\ position \in Cells /\ visited \subseteq Cells /\ barriers \subseteq Cells /\ threat \in Cells
  /\ decision \in [target : Cells, source : {"heuristic", "llm", "heuristic_fallback"}]
  /\ answer \in [turn : 0 .. MaxTurns, outcome : Outcomes, target : Cells]

(* An answer that the turn may take as its move is one of those it offered,    *)
(* and the board has not changed since.                                        *)
DecisionInv ==
  /\ CellTypes
  /\ AppliedAsDecided
  /\ awaited = "tactics" <=> pc = "tactics"
  /\ awaited = "tactics" /\ answer.outcome = "good" =>
       answer.target \in Offered(position, barriers)

LEMMA DecisionInit == Init => DecisionInv
<1> SUFFICES ASSUME Init PROVE DecisionInv
  OBVIOUS
<1>1. CellTypes
  BY CallAssumption DEF Init, CellTypes, NoAnswer, Outcomes
<1> QED BY <1>1 DEF Init, DecisionInv, AppliedAsDecided

LEMMA OfferedCells ==
  ASSUME NEW here \in Cells, NEW walls
  PROVE  /\ LegalMoves(here, walls) \subseteq Cells /\ Offered(here, walls) \subseteq Cells
         /\ IsConfined(here, walls) => Offered(here, walls) = {here}
         /\ ~IsConfined(here, walls) => Offered(here, walls) = LegalMoves(here, walls)
BY DEF Offered, LegalMoves

(* The call that is answered is the one awaited, so a move that comes back was *)
(* asked for by this turn.                                                     *)
LEMMA WorkerDecides ==
  ASSUME Shapes, DecisionInv, NEW c \in calls, Worker(c)
  PROVE  DecisionInv'
<1>1. UNCHANGED <<setup, pc, position, visited, barriers, threat, decision, awaited>>
  BY DEF Worker, SendOut, TryAgain, Fail, Reply, mind
<1>2. c \in Calls
  BY DEF Shapes
<1>3. \/ UNCHANGED answer
      \/ \E outcome \in Outcomes, target \in Cells :
           /\ answer' = [turn |-> c.turn, outcome |-> outcome, target |-> target]
           /\ c.kind = "tactics" /\ outcome = "good" => target \in Offered(position, barriers)
           /\ c.kind = awaited
  <2>1. CASE SendOut(c) \/ TryAgain(c)
    BY <2>1 DEF SendOut, TryAgain
  <2>2. CASE Fail(c)
    BY <2>2, CallAssumption DEF Fail, Deliver, Outcomes
  <2>3. CASE Reply(c)
    <3>1. CASE \E outcome \in {"invalid", "failed"} : Deliver(c, outcome, Start)
      BY <3>1, CallAssumption DEF Deliver, Outcomes
    <3>2. CASE \E target \in IF c.kind = "tactics" THEN Chosen ELSE {Start} :
                 Deliver(c, "good", target)
      <4>1. PICK target \in IF c.kind = "tactics" THEN Chosen ELSE {Start} :
              Deliver(c, "good", target)
        BY <3>2
      <4>2. Chosen \subseteq Offered(position, barriers)
        BY DEF Chosen, Shortlist
      <4>3. target \in Cells /\ (c.kind = "tactics" => target \in Offered(position, barriers))
        BY <4>1, <4>2, CallAssumption, OfferedCells DEF DecisionInv, CellTypes
      <4> QED BY <4>1, <4>3 DEF Deliver, Outcomes
    <3> QED BY <2>3, <3>1, <3>2 DEF Reply
  <2> QED BY <2>1, <2>2, <2>3 DEF Worker
<1>4. CellTypes'
  BY <1>1, <1>2, <1>3 DEF DecisionInv, CellTypes, Calls
<1>5. AppliedAsDecided' /\ (awaited = "tactics" <=> pc = "tactics")'
  BY <1>1 DEF DecisionInv, AppliedAsDecided
<1>6. (awaited = "tactics" /\ answer.outcome = "good" =>
         answer.target \in Offered(position, barriers))'
  BY <1>1, <1>3 DEF DecisionInv
<1> QED BY <1>4, <1>5, <1>6 DEF DecisionInv

(* The steps of a turn that neither decide nor apply. *)
LEMMA DecisionUntouched ==
  ASSUME DecisionInv,
         UNCHANGED <<setup, position, visited, barriers, threat, decision>>,
         pc' \in {"ask_tactics", "tactics", "apply"} => pc \in {"ask_tactics", "tactics", "apply"},
         (awaited' = awaited /\ answer' = answer /\ pc' = pc)
           \/ (awaited' \in {"none", "hint", "repair"} /\ pc' # "tactics" /\ answer' = NoAnswer)
           \/ (awaited' = "tactics" /\ pc' = "tactics" /\ answer' = NoAnswer)
           \/ (awaited' = awaited /\ answer' = answer /\ awaited = "none" /\ pc' # "tactics")
  PROVE  DecisionInv'
<1>1. CellTypes'
  BY CallAssumption DEF DecisionInv, CellTypes, NoAnswer, Outcomes
<1>2. AppliedAsDecided'
  BY DEF DecisionInv, AppliedAsDecided
<1>3. (awaited = "tactics" <=> pc = "tactics")'
  BY DEF DecisionInv
<1>4. (awaited = "tactics" /\ answer.outcome = "good" =>
         answer.target \in Offered(position, barriers))'
  BY DEF DecisionInv, NoAnswer
<1> QED BY <1>1, <1>2, <1>3, <1>4 DEF DecisionInv

LEMMA DecisionStep == Shapes /\ DecisionInv /\ [Next]_vars => DecisionInv'
<1> SUFFICES ASSUME Shapes, DecisionInv, [Next]_vars PROVE DecisionInv'
  OBVIOUS
<1>0. awaited # "none" <=> pc \in {"tactics", "await_hint"}
  BY DEF Shapes
<1>1. CASE Begin
  <2>1. /\ position' = position /\ visited' = visited /\ UNCHANGED <<setup, awaited, answer>>
        /\ threat' \in Cells /\ barriers' \subseteq Cells /\ awaited = "none"
        /\ pc' \in {"ask_tactics", "apply"}
        /\ decision' = [target |-> Heuristic(position, barriers', visited, Belief(threat')),
                        source |-> "heuristic"]
    BY <1>0, <1>1 DEF Begin, Calm, PoliceTurn, DecisionInv, CellTypes
  <2> DEFINE target == Heuristic(position, barriers', visited, Belief(threat'))
  <2>2. IF IsConfined(position, barriers') THEN target = position
        ELSE target \in LegalMoves(position, barriers')
    <3>1. CASE IsConfined(position, barriers')
      BY <3>1 DEF Heuristic
    <3>2. CASE ~IsConfined(position, barriers')
      <4>1. target = ThiefPick(position, barriers', visited, Belief(threat'))
        BY <3>2 DEF Heuristic
      <4>2. position \in Cells
        BY DEF DecisionInv, CellTypes
      <4> QED BY <2>1, <3>2, <4>1, <4>2, PickIsLegal
    <3> QED BY <3>1, <3>2
  <2> HIDE DEF target
  <2>3. target \in Cells
    BY <2>2, OfferedCells DEF DecisionInv, CellTypes
  <2>4. decision' = [target |-> target, source |-> "heuristic"]
    BY <2>1 DEF target
  <2>5. CellTypes'
    BY <2>1, <2>3, <2>4 DEF DecisionInv, CellTypes
  <2>6. AppliedAsDecided'
    BY <2>1, <2>2, <2>4 DEF AppliedAsDecided
  <2> QED BY <2>1, <2>5, <2>6 DEF DecisionInv
<1>2. CASE TakeTactics
  <2>1. /\ pc = "tactics" /\ pc' = "apply" /\ awaited' = "none" /\ answer' = NoAnswer
        /\ UNCHANGED <<setup, position, visited, barriers, threat>>
        /\ decision' = IF answer.outcome = "good"
                         THEN [target |-> answer.target, source |-> "llm"]
                         ELSE [decision EXCEPT !.source = "heuristic_fallback"]
    BY <1>2 DEF TakeTactics, mind
  <2>2. awaited = "tactics"
    BY <2>1 DEF DecisionInv
  <2>3. CASE answer.outcome = "good"
    <3>1. /\ answer.target \in Offered(position, barriers) /\ answer.target \in Cells
          /\ decision' = [target |-> answer.target, source |-> "llm"]
      BY <2>1, <2>2, <2>3 DEF DecisionInv, CellTypes
    <3>2. CellTypes'
      BY <2>1, <3>1, CallAssumption DEF DecisionInv, CellTypes, NoAnswer, Outcomes
    <3>3. AppliedAsDecided'
      BY <2>1, <3>1, OfferedCells DEF DecisionInv, CellTypes, AppliedAsDecided
    <3> QED BY <2>1, <3>2, <3>3 DEF DecisionInv
  <2>4. CASE answer.outcome # "good"
    <3>1. /\ decision' \in [target : Cells, source : {"heuristic", "llm", "heuristic_fallback"}]
          /\ decision'.target = decision.target
      BY <2>1, <2>4 DEF DecisionInv, CellTypes
    <3>2. CellTypes'
      BY <2>1, <3>1, CallAssumption DEF DecisionInv, CellTypes, NoAnswer, Outcomes
    <3>3. AppliedAsDecided'
      BY <2>1, <3>1 DEF DecisionInv, AppliedAsDecided
    <3> QED BY <2>1, <3>2, <3>3 DEF DecisionInv
  <2> QED BY <2>3, <2>4
<1>3. CASE Apply
  <2>1. /\ UNCHANGED <<setup, barriers, threat, decision, awaited, answer>> /\ pc' = "hint"
        /\ awaited = "none"
        /\ position' \in LegalMoves(position, barriers) \cup {position}
        /\ visited' \subseteq visited \cup LegalMoves(position, barriers)
    BY <1>0, <1>3 DEF Apply, Calm
  <2>2. CellTypes'
    BY <2>1, OfferedCells DEF DecisionInv, CellTypes
  <2> QED BY <2>1, <2>2 DEF DecisionInv, AppliedAsDecided
<1>4. ASSUME NEW c \in calls, Worker(c) PROVE DecisionInv'
  BY <1>4, WorkerDecides
<1>5. CASE UNCHANGED vars
  BY <1>5, DecisionUntouched DEF vars, mind
<1>6. CASE \/ AskTactics \/ Template \/ AskHint \/ TakeHint \/ Repair \/ FallBack \/ ReadTotals
           \/ Seal \/ Deadline
  BY <1>0, <1>6, DecisionUntouched
  DEF AskTactics, Submit, Template, AskHint, TakeHint, Repair, FallBack, ReadTotals, Seal,
      Deadline, Say, Calm, mind
<1> QED BY <1>1, <1>2, <1>3, <1>4, <1>5, <1>6 DEF Next, Turn, Rest

-----------------------------------------------------------------------------
LEMMA CallInvAlways == Spec => [](CallInv /\ DecisionInv)
<1>1. Init => CallInv /\ DecisionInv
  BY CallInit, DecisionInit
<1>2. CallInv /\ DecisionInv /\ [Next]_vars => (CallInv /\ DecisionInv)'
  BY CallStep, DecisionStep DEF CallInv
<1> QED BY <1>1, <1>2, PTL DEF Spec

(* Every record of the turn, every call and every cell is what its line in the *)
(* code makes it: what a model answers never brings the turn out of its types. *)
THEOREM CallTypes == Spec => []TypeOK
<1>1. CallInv /\ DecisionInv => TypeOK
  BY DEF CallInv, Shapes, DecisionInv, CellTypes, TypeOK
<1> QED BY <1>1, CallInvAlways, PTL

(* On every board, with every belief and whatever a model answers, the move    *)
(* that is applied is the one that was decided.                                *)
THEOREM DecisionsApply == Spec => []AppliedAsDecided
<1>1. DecisionInv => AppliedAsDecided
  BY DEF DecisionInv
<1> QED BY <1>1, CallInvAlways, PTL

(* Whatever the limits and the deadlines, a hint that a model wrote was asked  *)
(* for in the turn that says it.                                               *)
THEOREM HintsAreOfTheirTurn == Spec => []AnswersItsOwnTurn
<1>1. CallInv => AnswersItsOwnTurn
  BY DEF CallInv, Mine
<1> QED
  BY <1>1, CallInvAlways, PTL

(* For every number of turns and calls, the records never charge more than was *)
(* used, charge a turn its own use while no call outlives its turn, and name a *)
(* model wherever they charge as long as every reply tells its counts.         *)
THEOREM BooksBalance == Spec => []TokensAccounted
<1>1. CallInv => TokensAccounted
  <2>1. ASSUME CallInv PROVE NeverOvercharged
    BY <2>1, TotalNat DEF CallInv, Books, Shapes, NeverOvercharged
  <2> QED
    BY <2>1 DEF CallInv, TokensAccounted
<1> QED
  BY <1>1, CallInvAlways, PTL

=============================================================================
