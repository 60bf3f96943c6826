----------------------------- MODULE ModelCalls -----------------------------
(***************************************************************************)
(* The model calls of the Thief's turns: take_turn (peer/turn_sender.py)   *)
(* asks a model for its move (strategy/llm_tactics.py) and a model for its *)
(* hint (strategy/llm_hints.py), falls back where one fails, and charges   *)
(* the turn what the two sources have used meanwhile                       *)
(* (peer/token_meter.py).                                                  *)
(*                                                                         *)
(* A bounded call runs in a worker thread.  When its deadline passes the   *)
(* turn goes on without it and the worker is left running: it still holds  *)
(* its place at the gatekeeper and still adds the tokens it used.  It adds *)
(* them without a lock.  That is one step here because no source has two   *)
(* calls under way that count: a tactics call is always waited for, and of *)
(* the providers of hints only Ollama counts, whose shipped limit is one   *)
(* call at once.                                                           *)
(*                                                                         *)
(* The gatekeeper is its semaphore and its retries here; Gatekeeper has    *)
(* the rest, and what it refuses is the outcome "failed" below.  Board,    *)
(* barriers and belief change between two turns as the Police likes.       *)
(***************************************************************************)
EXTENDS Candidates, Sequences

CONSTANTS
  Start,            \* positions.thief_start
  ShortlistSize,    \* strategy.llm_shortlist_size, clamped
  EveryN,           \* trash_talk.every_n_steps
  MaxRetries,       \* limits.max_retries of the model services
  ConcurrentMax,    \* limits.concurrent_max of the model services
  Peak,             \* bound: the weight of the cell the Police is believed at
  MaxTurns,         \* bound: turns of the sub-game
  MaxBarriers       \* bound: barriers the Police places

ASSUME CallAssumption ==
  /\ Start \in Cells
  /\ ShortlistSize \in 1 .. 4 /\ EveryN \in Nat \ {0}
  /\ MaxRetries \in Nat /\ ConcurrentMax \in Nat \ {0}
  /\ Peak \in 1 .. 100 /\ MaxTurns \in Nat /\ MaxBarriers \in Nat

Sources == {"llm", "hint_writer"}
Kinds == {"tactics", "hint", "repair"}
SourceOf(kind) == IF kind = "tactics" THEN "llm" ELSE "hint_writer"

VARIABLES
  setup,         \* the configuration: [tactics, writer, deadline]
  pc,            \* where take_turn stands
  turn,          \* its number
  position, visited, barriers,   \* OwnGameState
  threat,        \* the cell the belief peaks at
  decision,      \* [target, source] of the turn
  calls,         \* provider calls under way, abandoned ones among them
  awaited,       \* the kind of call the turn waits for, or "none"
  answer,        \* what the awaited future holds
  tokens,        \* tokens_consumed of each source
  used,          \* the total in last_usage of each source is not zero
  before,        \* token_count_before
  charge,        \* tokens_step, between the meter and the seal
  tokens_total,  \* ThiefRuntime.tokens_total
  sealed,        \* of each sealed record: [charge, label, hint, by]
  own,           \* history: tokens used by the calls of each turn
  late,          \* history: a call has outlived its turn
  blank          \* history: a reply without counts has been read

mind == <<position, visited, barriers, threat>>
meter == <<tokens, used, own, blank>>
ledger == <<before, charge, tokens_total, sealed>>
vars == <<setup, pc, turn, mind, decision, calls, awaited, answer, meter, ledger, late>>

Belief(peak) == [c \in Cells |-> IF c = peak THEN Peak ELSE 0]

(* token_meter.total: both sources, which are distinct objects. *)
Total == tokens["llm"] + tokens["hint_writer"]

NoAnswer == [turn |-> 0, outcome |-> "none", target |-> Start]

(* A writer of templates, one that asks on the turn's own thread              *)
(* (strategy/talk.py), or a grounded one (strategy/talk_providers.py).        *)
Writers == {"template", "asking", "grounded"}

(* resolve_brain: a model chooses the moves by mutual consent only. *)
Setups == [tactics : BOOLEAN, writer : Writers, deadline : BOOLEAN]

Init ==
  /\ setup \in Setups
  /\ pc = "rest" /\ turn = 0
  /\ position = Start /\ visited = {Start} /\ barriers = {} /\ threat \in Cells
  /\ decision = [target |-> Start, source |-> "heuristic"]
  /\ calls = {} /\ awaited = "none" /\ answer = NoAnswer
  /\ tokens = [s \in Sources |-> 0] /\ used = [s \in Sources |-> FALSE]
  /\ before = 0 /\ charge = 0 /\ tokens_total = 0 /\ sealed = <<>>
  /\ own = [t \in 1 .. MaxTurns |-> 0] /\ late = FALSE /\ blank = FALSE

-----------------------------------------------------------------------------
(* The Police's turn, between two of the Thief's. *)
PoliceTurn ==
  \E cell \in Cells, walls \in {barriers} \cup {barriers \cup {c} : c \in Cells \ {position}} :
    /\ Cardinality(walls) <= MaxBarriers
    /\ threat' = cell /\ barriers' = walls

Calm == UNCHANGED <<setup, calls, awaited, answer, meter, late>>

(* The top of a turn: the Police's has been folded in, the tokens are read    *)
(* and the shipped brain makes its choice, which is the fallback of a model's. *)
Begin ==
  /\ pc = "rest" /\ turn < MaxTurns
  /\ PoliceTurn
  /\ turn' = turn + 1
  /\ before' = Total
  /\ decision' = [target |-> Heuristic(position, barriers', visited, Belief(threat')),
                  source |-> "heuristic"]
  /\ pc' = IF setup.tactics THEN "ask_tactics" ELSE "apply"
  /\ UNCHANGED <<position, visited, charge, tokens_total, sealed>>
  /\ Calm

(* _ask_bounded: the call is handed to a worker and its future awaited. *)
Submit(kind) ==
  /\ calls' = calls \cup {[turn |-> turn, kind |-> kind, stage |-> "queued", tries |-> 0]}
  /\ awaited' = kind /\ answer' = NoAnswer

AskTactics ==
  /\ pc = "ask_tactics"
  /\ Submit("tactics")
  /\ pc' = "tactics"
  /\ UNCHANGED <<setup, turn, mind, decision, meter, ledger, late>>

Chosen == Shortlist(ShortlistSize, position, barriers, visited, Belief(threat))

(* LlmTactics.choose: a listed action with enough confidence is taken, and     *)
(* anything else leaves the brain's own choice.  take_turn gives no deadline.  *)
TakeTactics ==
  /\ pc = "tactics" /\ answer.outcome # "none"
  /\ decision' = IF answer.outcome = "good"
                   THEN [target |-> answer.target, source |-> "llm"]
                   ELSE [decision EXCEPT !.source = "heuristic_fallback"]
  /\ awaited' = "none" /\ answer' = NoAnswer
  /\ pc' = "apply"
  /\ UNCHANGED <<setup, turn, mind, calls, meter, ledger, late>>

(* The move is applied; one that the board refuses becomes a hold. *)
Apply ==
  /\ pc = "apply"
  /\ IF decision.target \in LegalMoves(position, barriers)
       THEN position' = decision.target /\ visited' = visited \cup {decision.target}
       ELSE UNCHANGED <<position, visited>>
  /\ pc' = "hint"
  /\ UNCHANGED <<turn, barriers, threat, decision, ledger>>
  /\ Calm

(* _write_hint: a template costs nothing; a writer may keep to it except at    *)
(* every n-th turn. *)
Speaks == setup.writer # "template" /\ turn % EveryN = 0

Template ==
  /\ pc = "hint" /\ ~Speaks
  /\ sealed' = Append(sealed, [charge |-> 0, label |-> FALSE, hint |-> "template", by |-> turn])
  /\ pc' = "meter"
  /\ UNCHANGED <<turn, mind, decision, before, charge, tokens_total>>
  /\ Calm

AskHint ==
  /\ pc = "hint" /\ Speaks
  /\ Submit("hint")
  /\ pc' = "await_hint"
  /\ UNCHANGED <<setup, turn, mind, decision, meter, ledger, late>>

(* A faulty variant: the call is left open once the hint is known. *)
SayWhileWaiting(source, by) ==
  /\ sealed' = Append(sealed, [charge |-> 0, label |-> FALSE, hint |-> source, by |-> by])
  /\ pc' = "meter"
  /\ UNCHANGED <<setup, turn, mind, decision, calls, awaited, answer, meter, before, charge,
                 tokens_total>>

(* The turn has its hint; the record it will be sealed in is begun. *)
Say(source, by) ==
  /\ sealed' = Append(sealed, [charge |-> 0, label |-> FALSE, hint |-> source, by |-> by])
  /\ awaited' = "none" /\ answer' = NoAnswer
  /\ pc' = "meter"
  /\ UNCHANGED <<setup, turn, mind, decision, calls, meter, before, charge, tokens_total>>

(* A valid answer is said.  Not valid is what does not parse, what does not    *)
(* keep to the schema or to the claim it chose, and what is not sure enough.   *)
TakeHint ==
  /\ pc = "await_hint" /\ answer.outcome = "good"
  /\ Say(IF awaited = "repair" THEN "llm_retry" ELSE "llm", answer.turn)
  /\ UNCHANGED late

(* An invalid one is asked to be repaired, once, if there is time left; the    *)
(* simple writer of strategy/talk.py does not ask again.                       *)
Repair ==
  /\ pc = "await_hint" /\ answer.outcome = "invalid" /\ awaited = "hint"
  /\ setup.writer = "grounded"
  /\ Submit("repair")
  /\ UNCHANGED <<setup, pc, turn, mind, decision, meter, ledger, late>>

FallBack ==
  /\ pc = "await_hint"
  /\ \/ answer.outcome = "failed"
     \/ answer.outcome = "invalid" /\ (awaited = "repair" \/ setup.writer = "asking")
     \/ answer.outcome = "invalid" /\ setup.deadline
  /\ Say("fallback", turn)
  /\ UNCHANGED late

(* The deadline passes: only a grounded writer has one. *)
Bounded == setup.writer = "grounded" /\ setup.deadline

(* A faulty variant: the second call of a turn is not bounded. *)
DeadlineOfTheFirst ==
  /\ pc = "await_hint" /\ answer.outcome = "none" /\ Bounded /\ awaited = "hint"
  /\ Say("fallback", turn)
  /\ late' = TRUE

Deadline ==
  /\ pc = "await_hint" /\ answer.outcome = "none" /\ Bounded
  /\ Say("fallback", turn)
  /\ late' = TRUE

(* A faulty variant: the turn is charged all that was ever used. *)
ChargeAll == Total

Charge == Total - before

(* step_usage reads the totals, and after them the snapshots: a worker may     *)
(* finish in between.                                                          *)
ReadTotals ==
  /\ pc = "meter"
  /\ charge' = Charge
  /\ tokens_total' = tokens_total + Charge
  /\ pc' = "seal"
  /\ UNCHANGED <<turn, mind, decision, before, sealed>>
  /\ Calm

(* The label names the models of the snapshots, or "heuristic" (FALSE). *)
Seal ==
  /\ pc = "seal"
  /\ sealed' = [sealed EXCEPT ![turn].charge = charge,
                              ![turn].label = \E s \in Sources : used[s]]
  /\ pc' = "rest"
  /\ UNCHANGED <<turn, mind, decision, before, charge, tokens_total>>
  /\ Calm

Turn ==
  \/ AskTactics \/ TakeTactics \/ Apply \/ Template \/ AskHint \/ TakeHint \/ Repair
  \/ FallBack \/ ReadTotals \/ Seal

-----------------------------------------------------------------------------
(* A worker, inside ApiGatekeeper.execute. *)
UnderWay(source) == {c \in calls : SourceOf(c.kind) = source /\ c.stage = "asked"}

SendOut(call) ==
  /\ call.stage = "queued"
  /\ Cardinality(UnderWay(SourceOf(call.kind))) < ConcurrentMax
  /\ calls' = (calls \ {call}) \cup {[call EXCEPT !.stage = "asked"]}
  /\ UNCHANGED <<setup, pc, turn, mind, decision, awaited, answer, meter, ledger, late>>

(* A faulty variant: whichever call ends, its result is the one awaited. *)
DeliverToAnyone(call, outcome, target) ==
  answer' = [turn |-> call.turn, outcome |-> outcome, target |-> target]

(* The result goes to the future of its own call; nobody looks at the future   *)
(* of an abandoned one.                                                        *)
Deliver(call, outcome, target) ==
  IF call.turn = turn /\ call.kind = awaited
    THEN answer' = [turn |-> call.turn, outcome |-> outcome, target |-> target]
    ELSE UNCHANGED answer

(* A reply may come without its counts, and then they are read as zero.  The   *)
(* tokens add up; the snapshot last_usage is the last reply's alone.           *)
Counts == {0, 1}

Count(call, n) ==
  LET source == SourceOf(call.kind) IN
  /\ tokens' = [tokens EXCEPT ![source] = @ + n]
  /\ used' = [used EXCEPT ![source] = n > 0]
  /\ own' = [own EXCEPT ![call.turn] = @ + n]
  /\ blank' = (blank \/ n = 0)

(* Only a ProviderError is tried again, as often as the limits allow: a        *)
(* grounded writer's call raises none.  The simple client of infra/ollama.py   *)
(* has counted the reply that it then finds no text in.                        *)
TryAgain(call) ==
  /\ call.stage = "asked" /\ call.tries < MaxRetries
  /\ setup.writer = "asking" \/ call.kind = "tactics"
  /\ calls' = (calls \ {call}) \cup {[call EXCEPT !.stage = "queued", !.tries = @ + 1]}
  /\ UNCHANGED meter \/ (call.kind = "hint" /\ \E n \in Counts : Count(call, n))
  /\ UNCHANGED <<setup, pc, turn, mind, decision, awaited, answer, ledger, late>>

(* The last error, any other exception, or a refusal of the gatekeeper. *)
Fail(call) ==
  /\ calls' = calls \ {call}
  /\ Deliver(call, "failed", Start)
  /\ UNCHANGED <<setup, pc, turn, mind, decision, awaited, meter, ledger, late>>

(* A reply: its tokens are counted as it is read, whoever still waits for it.  *)
(* A tactics reply names one of the shortlist it was shown, or does not pass.  *)
Reply(call) ==
  /\ call.stage = "asked"
  /\ calls' = calls \ {call}
  /\ \E n \in Counts : Count(call, n)
  /\ \/ \E target \in IF call.kind = "tactics" THEN Chosen ELSE {Start} :
          Deliver(call, "good", target)
     \/ \E outcome \in {"invalid", "failed"} : Deliver(call, outcome, Start)
  /\ UNCHANGED <<setup, pc, turn, mind, decision, awaited, ledger, late>>

Worker(call) == SendOut(call) \/ TryAgain(call) \/ Fail(call) \/ Reply(call)

(* The game is over. *)
Rest == pc = "rest" /\ turn = MaxTurns /\ calls = {} /\ UNCHANGED vars

Next == Begin \/ Turn \/ Deadline \/ (\E call \in calls : Worker(call)) \/ Rest

(* The turn runs on and a deadline passes.  A call that has none ends by the   *)
(* timeout of its provider; of a call with a deadline nothing is asked.        *)
Fairness ==
  /\ WF_vars(Turn) /\ WF_vars(Deadline)
  /\ WF_vars(\E call \in calls : ~(Bounded /\ call.kind # "tactics") /\ (Fail(call) \/ Reply(call)))

Spec == Init /\ [][Next]_vars /\ Fairness

-----------------------------------------------------------------------------
Labels == {"rest", "ask_tactics", "tactics", "apply", "hint", "await_hint", "meter", "seal"}
Calls == [turn : 1 .. MaxTurns, kind : Kinds, stage : {"queued", "asked"}, tries : 0 .. MaxRetries]
Outcomes == {"none", "good", "invalid", "failed"}
Hints == {"template", "llm", "llm_retry", "fallback"}
Record == [charge : Nat, label : BOOLEAN, hint : Hints, by : 0 .. MaxTurns]

(* Types; the turn waits for a call exactly in the two places where it asks    *)
(* one, and every turn has one record, begun when its hint is known.           *)
TypeOK ==
  /\ setup \in Setups /\ pc \in Labels /\ turn \in 0 .. MaxTurns
  /\ position \in Cells /\ visited \subseteq Cells /\ barriers \subseteq Cells /\ threat \in Cells
  /\ decision \in [target : Cells, source : {"heuristic", "llm", "heuristic_fallback"}]
  /\ calls \subseteq Calls
  /\ awaited \in Kinds \cup {"none"} /\ (awaited # "none" <=> pc \in {"tactics", "await_hint"})
  /\ answer \in [turn : 0 .. MaxTurns, outcome : Outcomes, target : Cells]
  /\ tokens \in [Sources -> Nat] /\ used \in [Sources -> BOOLEAN] /\ own \in [1 .. MaxTurns -> Nat]
  /\ before \in Nat /\ charge \in Nat /\ tokens_total \in Nat
  /\ late \in BOOLEAN /\ blank \in BOOLEAN
  /\ sealed \in Seq(Record)
  /\ Len(sealed) = IF pc \in {"meter", "seal", "rest"} THEN turn ELSE turn - 1

(* What the brain or the model decides is a move the board accepts, or a hold  *)
(* where there is none: take_turn's own fall back to a hold is never needed,   *)
(* whatever the model answers.                                                 *)
AppliedAsDecided ==
  pc \in {"ask_tactics", "tactics", "apply"} =>
    IF IsConfined(position, barriers) THEN decision.target = position
    ELSE decision.target \in LegalMoves(position, barriers)

(* A hint a model wrote was asked for in the turn that says it: the late       *)
(* answer of an abandoned call never speaks for a later turn.                  *)
AnswersItsOwnTurn == \A t \in DOMAIN sealed : sealed[t].by = t

Sealed(t) == t < turn \/ (t = turn /\ pc = "rest")

(* Tokens are charged once at most. *)
NeverOvercharged == tokens_total <= Total

(* As long as no call has outlived its turn, each record charges exactly what  *)
(* the calls of its own turn used, the failed and the repaired ones too.       *)
ChargedToItsTurn ==
  ~late => \A t \in DOMAIN sealed : Sealed(t) => sealed[t].charge = own[t]

(* As long as every reply tells its counts, a record that charges something    *)
(* names a model.  Without that it may not: the counts of a first reply are    *)
(* charged, and the snapshot of a second one without counts, the repair's or a *)
(* retry's, has replaced them by the time the record names its models.         *)
ChargeNamesModel ==
  ~blank => \A t \in DOMAIN sealed : sealed[t].charge > 0 => sealed[t].label

(* The books of the turn: nothing is charged twice, nothing to a turn that did *)
(* not use it while calls keep to their turns, and nothing to no model at all  *)
(* while replies tell their counts.                                            *)
TokensAccounted == NeverOvercharged /\ ChargedToItsTurn /\ ChargeNamesModel

(* Every turn comes to its end, though a provider that was given a deadline    *)
(* may never answer at all.                                                    *)
TurnEnds == pc # "rest" ~> pc = "rest"

=============================================================================
