# A TLA+ verification of the Thief agent

The Thief agent is one of the two peers of the Police-vs-Thief game. It runs in
its own process, keeps its position to itself, exchanges turns with a Police
peer it does not control, and proves the outcome afterwards with sealed
records. There is no referee: what one side believes and what the other side
believes is held together only by the order of messages. These modules state
what that order guarantees and check it.

## The system

| Part | State it keeps | Operations | Makes it correct |
|---|---|---|---|
| Runtime of one sub-game (`peer/runtime.py`, `turn_sender.py`, `turn_handler.py`, `summary.py`) | result, records, the claim answer in hand; the handler's `incoming_step`, `_seen_turns`, `history` | handshake, take a turn, receive a turn, terminal message, audit | turns alternate; each Police turn is folded in once; a capture has a cause; a verdict is final |
| Own state, board, rules (`domain/own_state.py`, `board.py`, `rules.py`) | position, barriers, step number | step, note a barrier, three capture tests, the survival test | the Thief stands where it may; it is never trapped unnoticed |
| Commit-reveal (`domain/crypto.py`, `peer/step_records.py`) | the chain of records | seal, audit | an honest log always passes |
| Controls and channel (`peer/controls.py`, `runtime_control.py`, `control_link.py`) | five events set by the GUI thread; the link's flags | pump, check, pause, stop, restart, quit, enable | a peer cannot restart this one without consent; a pause or a stop never wedges the run |
| Mailbox (`infra/mcp_server.py`) | four queues, pending commitments, delivered ids | `accept_commit`, `accept_reveal` on server threads | each id is queued at most once and as committed |
| Transport (`infra/mcp_client.py`) | none of its own | send with retries, poll with a timeout, drain | a send ends; a poll ends |
| Series (`sdk/series.py`) | attempt, summaries; shares inboxes, controls and link over all sub-games | run, restart | the result holds one whole pass; restarts end; sub-games do not mix, but for copies |
| Gatekeeper, rate limiter (`shared/`) | window, tickets, breaker, quota | execute, acquire | first come first served; limits hold, with a known slack; every call returns |
| Brain, tactics, hints, providers (`domain/brains.py`, `strategy/`, `infra/`, `sdk/providers.py`) | worker threads of bounded calls, `last_reason`, token counters | decide, choose, say, repair, fall back | a legal action whatever a model answers; an answer speaks for the turn that asked; a turn ends |
| Token accounting (`peer/token_meter.py`) | token totals and last usage of two sources, the totals of the match | read, charge, label | nothing charged twice or to the wrong turn |
| Belief and scent (`domain/belief.py`, `domain/scent.py`, `language/hints.py`) | masses by cell, intensities by cell | diffuse, observe, exclude; decay, deposit | mass is left, and left at the true cell; a trail fades |
| Scoring and reports (`domain/scoring.py`, `report/`) | files | score, aggregate, emit, draft | both peers sign the same block; no forfeit pays; every link resolves |
| Configuration and agreement (`shared/`, `peer/sealing.py`, `peer/handshake.py`, `domain/negotiation.py`) | two files, signed terms | merge, validate, sign, verify | what is agreed is what is played |
| Protocol state machine (`domain/state_machine.py`) | match and turn state, trace | transitions | no stage skipped, an end is final |
| Live window (`gui/player.py`, `gui/live_controls.py`) | `_in_progress`, the event queue, the worker, the files on disk | start, restart, quit, drain, emit | one runtime at a time; the result never ahead of its logs; the window hears of the end |
| Replay viewer (`gui/replay*.py`) | play head, playback timer | step, play, go to, restart | shows the first steps of the log and nothing else |
| Command line, readiness, drawing, mail, model processes | widgets, sockets | once, before or after a game | I/O and layout |

Three threads touch one sub-game: the runtime, which blocks in `poll_turn`, in
a send and in `wait_if_paused`; the GUI, which only sets and clears events;
and the MCP server, which only fills queues. They share no lock: the events
and queues are all they share, and each is read at a definite point of the
runtime. Besides, a bounded model call has a worker thread of its own, which
its turn may abandon, and the live window a daemon worker for every pass. So
the hard behaviour is

* presses and control messages that arrive between any two reads of one pump;
* Police turns delivered twice, late, ahead of their turn or from another
  sub-game, and Thief messages delivered twice or not at all; agreements and
  audits that lie in the inbox twice, for the next sub-game to take;
* what stays set when a sub-game ends (queues, events, link flags) and meets
  the next one, or the next pass of a restarted series;
* exceptions that leave the middle of a turn;
* waits that a timeout, a stop or a press must end;
* a date read before the lock under which it is used;
* model calls that answer after their turn has gone on, fail after they have
  counted tokens, answer without counts, or never answer;
* presses between the end of a worker and the moment the window hears of it,
  and a worker that fails or is killed between two of its files.

`PROJECT.json` lists these as hazards, each at the line where it bites and with
the properties that would catch it.

## Modules

| Module | Models | Notes |
|---|---|---|
| `Board` | `domain/board.py`, the capture tests of `domain/rules.py` | pure operators, any board size |
| `CommitChain` | `domain/crypto.py` | a commit is the number of its seal: every seal draws a fresh nonce, so no two agree |
| `ThiefGame` | one sub-game, all three threads and the Police peer | extends the two above |
| `MCThiefGame` | the instances TLC checks | sets of plays and revealed logs |
| `SubGame` | the abstract sub-game: who may move, how a game may end | `ThiefGame` implements it |
| `ThiefGameProofs` | theorems about `ThiefGame` | |
| `Mailbox` | `PeerInboxes` with its lock regions | |
| `MailboxProofs` | theorems about `Mailbox` | |
| `RateLimiter` | `shared/rate_limiter.py`: window, queue, timeout | any number of threads |
| `Gatekeeper` | `ApiGatekeeper.execute`: guards, limiter, semaphore, retries, breaker | extends `RateLimiter`, whose steps it takes |
| `GatekeeperProofs` | theorems about both | `Gatekeeper` implements `RateLimiter` |
| `Series` | `run_series`: sub-games over shared inboxes, restarts from both sides | a sub-game is coarse here, `ThiefGame` is its detail |
| `MCSeries` | the courses TLC checks it on | |
| `SeriesProofs` | theorems about `Series` | |
| `Candidates` | the ranking of steps by both brains, the shortlist shown to a model, the claims a hint may make | pure operators over `Board` |
| `ModelCalls` | the model calls of the turns, their workers, the token account | extends `Candidates` |
| `MCModelCalls` | its instance, and bounded checks of `Senses` and `Candidates` | |
| `ModelCallsProofs` | theorems about `ModelCalls` | |
| `Senses` | scent, the reading of a hint, the support of the belief | pure operators over `Board` |
| `SensesProofs` | theorems about `Senses` | |
| `Scoring` | points, rows, aggregate, the block both peers sign | pure operators |
| `Report` | the files of a series and what they say of each other | extends `Scoring` |
| `Agreement` | merging and validating the configuration, signing, verifying, game ids | pure operators |
| `Lifecycle` | `ProtocolStateMachine` | all methods, in any order |
| `MatchProofs` | theorems about `Scoring`, `Report`, `Agreement`, `Lifecycle` | |
| `Player` | the live window, its workers, the files on disk | |
| `Replay` | the replay viewer | |
| `Console` | the two windows a process may open | composes `Player` and `Replay` |
| `MCConsole` | its instance, and bounded checks of `Scoring`, `Report`, `Agreement` | |
| `ConsoleProofs` | theorems about `Console` | |

### ThiefGame

`pc` is where `ThiefRuntime.run` stands. One turn is `enter` and `drain` (the
first pump), `gate` (pause and stop), `reenter` and `redrain` (the second
pump), `check` and `check_restart` (`runtime_control.check`), `decide`
(the brain, `apply_move`, the sealed record), `send`. Then `loop` (pause and
stop again) and `poll`, from which a Police turn leads back to `enter`, on to
`terminal`, or to `finish` and `audit`. `returned` means `run` gave a summary,
`raised` that an exception left it; `error` says which. The labels are where
another thread's write can be seen, so a press or a message falls between any
two of them.

| Action | Code |
|---|---|
| `Negotiate` | `handshake.negotiate`, accepted or raised |
| `OptIn`, `DrainSignal`, `EndPump` | `runtime_control.pump`, `ControlLink.drain` and `_handle` |
| `PassGate`, `StopAtGate` | `wait_if_paused` and the stop tests of `take_turn` and `run` |
| `CheckQuit`, `CheckRestart` | `runtime_control.check` |
| `DecideAndSeal` | `take_turn` up to `records.append`: any action, legal or not, since `apply_move` refuses and `take_turn` then holds |
| `SendTurn`, `SendTurnFails`, `SendTerminal` | `send_turn` delivered once or twice, or given up with the message delivered or not |
| `ReceiveReplay`, `ReceiveOutOfOrder`, `ReceiveTurn` | `TurnHandler.process`, in the order of its tests |
| `PollTimeout` | `poll_turn` returned nothing |
| `SendAudit`, `ReceiveAudit` | `summary.exchange_audit` and `finish` |
| `Press` | a button of the GUI thread (`GameControls`) |
| `Police...` | the Police peer: what the handler's docstrings and the test double in `tests/runtime_support.py` rely on |

Smell grids, hints, timestamps, token counts and the belief are left out:
nothing in the runtime branches on them. The brain is any action, which covers
the heuristic, the tactics model and every fallback.

### Mailbox

`accept_commit` holds the lock from start to end, so it is one action.
`accept_reveal` is two: `AcceptReveal` (or `RefuseExpired`) up to the release
of the lock, `Put` after it; calls that have done the first and not the second
are `held`. The caller retries freely, so every call may come again at any
time with any content. Calls that raise or answer "duplicate" change nothing
and are not actions; `RefuseExpired` is one because it removes the commitment.

### Series

The runtime is coarse: greet, await the agreement, pump, check, turn, loop,
poll, reveal, await the audit. What it shares with the other sub-games is kept
in full: the four inboxes, the controls, the link flags, the order of drains.
Every Police message carries the pass and the sub-game the Police was in, for
the properties only: the code compares neither, and no Thief guard reads them.
The Police plays the same sub-games, may be slow at any point, gives up
waiting, signals and restarts; it ignores Thief turns of another sub-game.

A call that failed after delivery is made again (`Resend`), by either side. The
server keeps both copies of an agreement, an audit or a control message, so
`PoliceGreets`, `PoliceReveals`, `SendAgreement` and `Announce` may put theirs
into the inbox more than once, as often in all as the course allows; `Announce`,
which is best-effort, may also lose it. Turns come once here: the second copy of one is
known by its `message_id`, which is what `Mailbox` is about, and within a
sub-game by its commit, which is what `ThiefGame` is about. Two assumptions are
made of a copy. The Police's turns bear ids, as `accept_reveal`'s docstring says
they do (a turn without one would be queued every time, line 71). And a copy
arrives before its sender goes on, which only then has the end of its call; a
call that is given up by its sender and still under way is not modelled.

### RateLimiter and Gatekeeper

Every locked region is one action, and so is a read outside the lock that is used
within it (the date); every sleep and every wait is a point where the other
threads and the clock may come in between. `RateLimiter` keeps where a
caller stands in `acquire` (`at`), the window (`grants`) and the queue
(`waiting`); `Gatekeeper` adds where it stands in `execute` (`pc`), its attempt,
the semaphore, the quota's count and day and the breaker. Time is relative: a
grant has an age, a deadline and a cooldown have a rest, so the state space is
finite without a bound on the clock. `time.time` is taken to run forwards.
Sleeps have a least length in the code; here any step may come at any time,
which only adds behaviours.

| Action | Code |
|---|---|
| `Acquire` | the first locked region of `acquire`: slot, place in the queue, or refusal |
| `SetDeadline`, `CheckDeadline`, `Wake`, `GiveUp` | the wait loop and its `finally` |
| `ReadDate` | the first line of `_check_guards`, which takes the lock after it |
| `CheckGuards` | its locked region: another day, quota, breaker |
| `InLimiter`, `Refused`, `CountCall` | `acquire`, its exception, the count |
| `BeginCall`, `EndCall` | the semaphore around the call, and how the call ends |
| `Succeed`, `CountFailure`, `Trip` | the three regions after it, and the retry |
| `LimiterTick`, `Tick`, `Midnight` | the clocks and the date |

Several threads do meet here: a model call runs in a worker thread that its
turn abandons at the deadline (`llm_tactics._ask_bounded`,
`llm_hints._ask_bounded`), and the call of the next turn finds it inside.

### ModelCalls

`ThiefGame` lets the brain take any action; here is how it comes by one. `pc`
is where `take_turn` stands between the reading of the totals and the sealed
record, `calls` the provider calls under way, those of earlier turns among
them. `setup` is the configuration: whether a model chooses the moves, which of
three hint writers is in use, whether it has a deadline.

| Action | Code |
|---|---|
| `Begin` | the top of `take_turn`: `token_count_before`, the shipped brain's own choice; before it, whatever the Police's turn did to barriers and belief |
| `AskTactics`, `AskHint`, `Repair` | `_ask_bounded`: a worker is given the call |
| `TakeTactics` | `LlmTactics.choose`: a listed and confident action, or the brain's own |
| `Apply` | `apply_move`, and the hold where it refuses |
| `Template`, `TakeHint`, `FallBack`, `Deadline` | the four ways `_write_hint` gets its text |
| `ReadTotals`, `Seal` | `step_usage` in its two reads, the snapshots after the totals |
| `SendOut`, `TryAgain`, `Fail`, `Reply` | the worker inside `ApiGatekeeper.execute` and the provider |

Of the gatekeeper the semaphore and the retries are kept; whatever else it does
to a call is its failure. A grounded writer's calls raise errors of the
transport and not `ProviderError`, so nothing retries them; a call of the
tactics and of the simple writer may be tried again. The simple client of
`infra/ollama.py` counts the tokens of a reply that it then refuses. A reply
costs a token or none (`Counts`), since its counts may be missing or zero. The
totals only grow, while `last_usage` is overwritten by every reply, so `used`
says whether the latest one had counts, as `step_usage` reads it.

`take_turn` sets no deadline for the choice of a move, and for the hint only
where the writer is a grounded one and the configuration has a time for it. The
program builds a grounded writer for the provider "ollama" and templates for
any other; the simple writer that asks (`strategy/talk.py`) is one a caller
hands in. A grounded writer over the model of the tactics, which
`resolve_trash_talk` could build and nothing asks it to, is left out.

### Senses and Candidates

Intensities are thousandths, which is what the code rounds them to; where the
product of two floats falls between two of them, either one may come. Of the
belief the module keeps the set of cells that carry mass: every update scales
masses, spreads them or sets them to zero, and what can go wrong is that none
is left, or none at the right cell. A mass that falls below the code's epsilon
is dropped or not, as may be. `Candidates` ranks as the code does, ties
included; utilities are integers in hundredths.

### Player, Replay and Console

A pass is what one press of Start or Restart begins: a worker, controls of its
own, files of the same names as every pass before. The worker's steps are
`Prepare`, `PlayOn`, `EndSeries`, then `OpenFile` and `FillFile` for each file
in the order of `emit_series`, `Announce` and `Return`; `Fail` is an exception
anywhere before the end and `RestartStorm` the one exception that asks for a
rebuild. The window's are the buttons, `Drain` (the whole queue in one
callback), `Rebuild`, and `Destroy`, which takes the daemon workers with it
wherever they stand; `Launch` is the next start of the program in the same
directory.

`Replay` has one action per handler. `goto` loops over `advance` and its
iterations are `GoOn`; `Tick` is a scheduled callback, and there may be several
since a quick Pause and Play begins a second chain.

### Scoring, Report, Agreement, Lifecycle

Pure functions of what a peer knows, written once and compared for two peers.
Hashes and signatures are what they are taken of. `Agreement` has every setting
of the program with the shared setting it is made from (`Source`), so that what
a private file may still decide can be asked of all of them.
`ProtocolStateMachine` is built by nothing in the peer: it is modelled with its
methods called in any order.

## Runs

| Run | Bounds | Shows |
|---|---|---|
| `thief_play` | 2 x 2 board, survival at turn 3, every barrier alone, every claim alone, both together, a declared ending; one repeated delivery, one forbidden turn, four kinds of log | the safety of a sub-game and that it implements `SubGame` |
| `thief_control` | all six buttons at every step, two control messages of four kinds | consent to restarts, termination |
| `thief_quit` | two control messages | **violation**: a quit ends the run with an exception at the audit |
| `mailbox_deliver` | one id, two hashes, two envelopes, two clock values, one message without an id | each id queued once, as committed, and eventually |
| `mailbox_expiry` | as above | **violation**: an expired reveal removes the commitment it was checked against |
| `series_all` | two sub-games of at most two turns, one restart before the backstop; four courses: restart and enable presses with two control messages of any kind, stop and enable presses with two of a Police that restarts, stop and restart presses with one copy, stop presses with one quit and two copies | one whole pass, no mixing while the peers are punctual but for the copies, termination |
| `series_stale` | restart presses only | **violation**: a turn of the aborted pass reaches the restarted series |
| `series_stop` | stop presses only | **violation**: one stop loses every later sub-game |
| `limiter_queue` | three threads, two grants in three ticks, two places in the queue, a timeout of three ticks | the window, the order and the queue |
| `model_turns` | two turns on a 2 x 2 board, every setup, a shortlist of two, one permit, one retry, one barrier | moves are the ones decided, hints are of their turn, the books of the turn, turns end |
| `console` | two passes over all launches, two sub-games; three saved files, two playback chains, four presses | one runtime, the files on disk, the replayed prefix, both windows settle |
| `gatekeeper_calls` | two threads, one permit, one grant in two ticks, one retry, a quota of two, a breaker that opens at two failures, one midnight between any two steps | what guards that are tested early still guarantee, and that calls end |

Why these bounds suffice. On a 2 x 2 board every cell is a corner: one barrier
leaves one step and two confine, so every outcome of a barrier arises within
two turns, and the third turn is there to survive or to answer a claim. A
repeat of the first Police turn can so arrive while the second is awaited, and
the record chain has a link to break. One repeated delivery is
enough because the handler's memory only grows; a forbidden turn ends the
game. Two control messages are what a granted restart needs (enable, restart).
One id suffices in the mailbox because no operation reads two ids; a run with
two gave nothing new. Two turns are the least in which a late answer can meet
another turn's question, and one permit makes the later call wait for the
abandoned one, which may be of its own turn (the repair) or of the one before. One barrier on a 2 x 2 board changes the legal
steps between two turns. Two passes are the least with files of an earlier one
underneath, and two sub-games the least in which a result refers to more than
one log. The three saved files are the three shapes the viewer accepts: an own
track shorter than the messages, one longer than them, and neither. Two chains are the
least that tick against each other.

In the series, two sub-games and one restart are the least with a "before" and an
"after"; a second restart reaches the backstop. `MaxRestarts` is 10 in the code
and 1 here. What else may happen is a `course`, chosen at the start and fixed:
which buttons the user presses, as often as he likes, which control messages the
Police sends and how many, and how many messages arrive twice. `MCSeries` has
four of them, because all of it at once multiplies the states: of a stop, a
restart, a quit, a restart of the Police and a copy any two meet in one of them,
except a copy and a restart of the Police. One copy puts its consumer off by one
sub-game, and the second of two sub-games is the least in which that shows.
`CompleteSeries` and `GamesDoNotMix` are proved for every course and any number
of sub-games. The largest run is `series_all` with 3.0 million states, within two
minutes.

Three threads are the least with a newcomer, a head and one behind it; two
threads are the least that can pass a guard together, and a quota and a
threshold of two let one thread reach either alone or both together.

The pure modules are checked by assumptions that TLC evaluates in `model_turns`
and `console`: `MessageSample` folds every message into every belief of a 2 x 2 board,
`TrailSample` fades the strongest trace twelve times, `CandidateSample` ranks
for every position, threat and pair of barriers on a 3 x 3 board, where zones
differ; `ScoreSample` compares the two peers and a reference sum over every
series of at most three results, `FilesSample` lists the files of a series and
`AgreementSample` breaks the shipped configuration in each checked place.

`CHECK_DEADLOCK FALSE` stands in the configurations of the mailbox and of the
windows: a mailbox nobody calls and a window nobody touches rest. `ThiefGame`,
`Series` and `ModelCalls` have an explicit `Rest` once the run is over, so TLC's
deadlock check covers every state before that.

## Fairness

* `ThiefGame`: weak fairness of the runtime thread. Each of its waits is
  bounded (`poll_turn`, the send deadline, the audit poll, the timeouts of the
  model providers) except `wait_if_paused`, which is an action that is enabled
  only when `resume` or `stop` is set: fairness does not lift a pause. Nothing
  is asked of the user or of the Police, so `EndsUnlessPaused` assumes that the
  run is not left paused for good, and says so.
* `Mailbox`: weak fairness of `Put`; the queue has no bound, so a call that
  was accepted runs to its end.
* `Gatekeeper`: weak fairness of every thread's steps and of the clock. It
  includes the end of a call, which the providers bound by their timeouts.
  Fairness at the semaphore is weak: a thread could be overtaken there again
  and again, but every overtaking call counts against the quota.
* `Series`: weak fairness of the Thief's own steps, for the same reason; the
  model has no pause.
* `ModelCalls`: weak fairness of the turn's own steps and of a deadline once it
  is set. A call without a deadline ends by the timeout of its provider; of a
  call with one nothing is asked, it may hang for ever, and with it whatever
  waits for its permit.
* `Console`: weak fairness of Tk's callbacks (`Drain`, `Rebuild`, `Tick`, the
  loop of `goto`), which the event loop runs, and of a worker that is writing
  its files. Nothing is asked of the user, of the series itself or of `Start`.

## Properties

Of a sub-game (`ThiefGame`): `NeverTrapped`, `TurnsAlternate`, `FoldedOnce`,
`OwnLogPasses`, `AnswersClaims`, `CaptureIsReal`, `OutcomesAgree` (both sides
hold the same outcome once the mail is through), `TurnErrorNeedsFault`
(repeats never end a game), `RestartNeedsConsent`, `VerdictIsFinal`,
`EndsUnlessPaused`, `StopEnds`, and `ImplementsSubGame`. Of the mailbox:
`DeliveredOnce`, `RevealsHonourAcks`, `AcceptedReachesQueue`. Of the series:
`CompleteSeries`, `GamesDoNotMix` (while nobody timed out or restarted, a
sub-game consumes no turn of another one, and agreements and audits too old by
no more than the copies there were of them: without a copy, its own only),
`SeriesEnds`. Of the limiter:
`WindowBound`, `FirstComeFirstServed`. Of the gatekeeper: `QuotaSlack` (the
daily quota is tested before the wait and counted after it, so on the first day
it can be overshot by one call for each other caller; on a later day each caller
but one may set the day back by a date it read before midnight, and each time the
quota is made again: seven calls where two callers share a quota of two, and TLC
finds no smaller bound to hold), `BreakerStopsCalls`
(an open breaker lets through only what had passed the guards),
`FailuresAreJudged` (while the breaker is closed every failure from the threshold
on has a caller before its judgement; a success or the end of a cooldown in
between zeroes the counter, and then that run of failures opens nothing),
`ExecuteEnds`. Of the model calls: `AppliedAsDecided`
(the hold that `take_turn` keeps for a refused move is never needed, whatever a
model answers), `AnswersItsOwnTurn` (the late answer of an abandoned call never
speaks for a later turn), `TokensAccounted` (nothing is charged twice; while no
call has outlived its turn each record charges what its own calls used, failed
and repaired ones too; what is charged names a model, as long as every reply
tells its counts), `TurnEnds`. Of the
windows: `OneRuntime` (never two workers, and no event or callback under way
that would let a second one begin), `ResultBacked` (a result on disk is never
of a later pass than the files it refers to, wherever a pass fails or is
killed), `ShowsThePrefix`, `Settles`. Each has a mutant in
`PROJECT.json`: a plausible slip in the code, written beside the definition it
would replace, under which TLC finds the property violated.

## Where code and documents disagree

* `thief_quit`. `runtime_control.check` sets the result to `quit` or
  `opponent_quit`; `summary.exchange_audit` hands it to `AuditPayload`, which
  accepts four results and neither of these. A `ProtocolError` leaves `run`,
  and there is no summary, although `summary.py` lists both results.
* `mailbox_expiry`. `accept_reveal` pops the commitment before it looks at the
  expiry, so a refused reveal leaves the next one unchecked, against "still
  checked in full" in its docstring.
* `series_stale`. The drain of a restart is a single moment, and no message is
  compared with the sub-game it belongs to. Once a turn has timed out the
  peers are out of step, and a turn of the aborted pass reaches the restarted
  series. While nobody has timed out, `GamesDoNotMix` holds of the turns.
* `series_stop`. The window says "abandoning this sub-game"; the stop stays
  set and loses every later one too.

Seen while modelling, stated by a theorem or in a hazard and not by a run:

* A forfeit. `domain/scoring.py` says no peer profits from forfeiting. It holds
  of points (`ForfeitNeverEarns`), not of the series: a forfeit may turn a level
  series into a won one, 35 : 35 and the bonus for both into 30 : 25
  (`ForfeitMayWin`). A forfeited sub-game has a winner in its row and counts as
  a tie in the aggregate (`ForfeitsAreCountedAsTies`).
* A peer without an identity. The roles of a row are a dictionary by group; with
  one group in it twice the Thief is scored as the Police
  (`LoneGroupIsScoredAsPolice`), and its own tokens are reported as zero.
* The agreement. `config/thief/game.json` says that the exchange of signatures
  refuses any mismatch, but the survival threshold and the timeouts are no
  signed terms: peers that differ in them agree (`ThresholdMayDiffer`). Some
  signed terms may come from the private file alone, and an absent shared file
  is not checked.
* The belief. An exclusion never empties it (`ExclusionLeavesMass`), but
  earlier barriers get mass again from the leak (`OnlyTheLastIsRuledOut`), and a
  Police that stands on the Thief without claiming it is ruled out where it is
  (the proviso of `TruthIsKept`). A decay of less than five in a hundred leaves
  faint traces for ever (`FaintTrailStays`).
* A refused turn. `turn_handler.py` says that the runtime treats it as a
  technical loss. The runtime sets that result and raises again, so the result is
  neither revealed nor scored and the exception ends the series.
* A copy of an agreement or an audit. The server keeps both, and the second one
  is taken for the next sub-game's, as is every later one for the one after:
  the audit of each sub-game is then judged by the records of the one before.
* A reply without counts. It replaces the usage snapshot of the reply before it,
  whose tokens are charged all the same: the record then names "heuristic" beside
  a charge. `ChargeNamesModel` says when it does not.
* A date read before midnight and used after it sets the day of the gatekeeper
  back and clears the count twice (`QuotaSlack` has the bound that is left).
* A restart pressed after the last sub-game and before the window has drained
  the end is recorded on controls nobody reads any more, and has no effect.
* `_summary` of a pass that returns late may overwrite the summary of the next.
* The files of a later pass replace those of an earlier one; a pass that fails
  between them leaves a mixture, of which `ResultBacked` says what still holds.
* `thief-agent replay result.json`, which the top-level `README.md` shows, has
  nothing to replay: only the match log holds the own track and the history.
* The sealed record names every hint a lie: `_write_hint` drops the verdict that
  the writer has of it.
* `technical_loss` is called terminal and `local_turn` leaves it.

## Proofs

`ThiefGameProofs` proves, for every board size of at least two, threshold, set
of plays, logs, buttons and signals and for any number of repeats:

* `TypeCorrect`, first and on its own, since every later step uses types;
* `Invariance`: `Inv` is inductive. `NeverTrapped`, `FoldedOnce` and
  `OwnLogPasses` are not inductive by themselves. A turn can be taken only at
  the right label, so `Phases` says what each label implies of the result and
  the error and of the claim answer; `Tempo` ties `step_number` and
  `incoming_step` to the label, and gives the alternation; `LastRecordIsHere`
  says that the last record holds the present position, without which
  `CaptureIsReal` could not speak of the cell a claim was about; and
  `PendingNeedsConsent` says that a pending restart was granted while both
  sides were enabled, which `RestartNeedsConsent` needs two steps later. There
  is one step per action, and the actions that leave a conjunct's variables
  alone are dismissed together;
* from it, `Alternation`, `NoTrap`, `ExactlyOnce`, `HonestLogPasses`,
  `CaptureHasCause`; the action properties `Consent` and `Finality`;
* `Refinement`: each step of `ThiefGame` is a step of `SubGame` or leaves its
  variables alone, under `mine <- step_number`, `theirs <- incoming_step` and
  `status <- Status`.

Three more theorems of `ThiefGameProofs` speak of what is between the two
sides, and each has an invariant of its own on top of `Inv`:

* `ClaimsAnswered`. The answer the Thief holds follows the last turn folded in
  and, once drawn, belongs to the cell it stood on then; every message on the
  wire keeps the answer it was sent with, because the handler's history and the
  records only grow (`Growth`, `AnswersKept`). A retried or repeated message is
  the same message, and a stop or a restart takes nothing back;
* `OnlyFaultsRaise`. As long as the Police has not sent a faulty turn, what is
  in the inbox is in the order of the steps up to repeats: before a turn comes
  its predecessor, unless that one is folded in already. Taking the head keeps
  this order (`HeadInOrder`, `TailKeepsOrder`), a new turn and a repeat extend
  it (`AppendKeepsOrder`), and a head in order is never ahead;
* `SameOutcome`. `Sealing` numbers the seals by the turns; `Sources` says that
  a turn in the inbox is one the Police sent, is off the board or is too early,
  so that the history is what the Police sent; `Silent`, that nothing on the
  wire tells of an end before there is one; and `Ending`, that after an end the
  last seal is on its way with the right news. The hard case is a capture while
  the Police could have sent one turn more: it answers a message it has not heard
  before with at most one turn, so it has sent no more turns than there are
  seals (`CountUpTo`), and none is left to it before the last message.

`MailboxProofs` proves the types, `DeliveredOnce` and `RevealsHonourAcks` for
any ids, hashes, envelopes and clock, from an invariant that ties the delivered
ids to what is held or queued and each pending commitment to the
acknowledgements made for its id.

`SeriesProofs` proves, for any number of sub-games, any threshold, any number of
restarts and any set of courses:

* `SeriesTypes`. That no counter passes the threshold is not a matter of types:
  `Progress` says that outside a turn both counters are level and below it, and
  within a turn the own one is ahead by one;
* `SeriesIsComplete`, which is inductive once the types are known;
* `GamesStayApart`. No message is compared with its sub-game, so what keeps the
  sub-games apart is a protocol of counts. Both sides greet, meet and reveal once
  a sub-game and in the same order, so the length of each inbox says how far one
  is ahead, and a message in it is of the sub-game it is due in or older by at
  most the copies there were of its kind (`AgreementsInOrder`, `AuditsInOrder`).
  A copied audit lets the Thief go on while the Police is still in the sub-game
  before; what the Police may answer there by then is not its first turn
  (`Outrun`, `AnsweredOnce`), and no message is of a sub-game that a side has not
  come to (`NoneAhead`). Turns have no such count: some do stay in the inbox
  when their sub-game is over, where the Police answers a message after it
  caught the Thief by a barrier, or the user stopped the Thief while an answer was
  under way. `LeftOversRefused` is why they do no harm. Either a stop is set,
  which nothing clears, and the Thief never comes to receive again; or the one
  at the head has a number above one while the new sub-game waits for number
  one, so the handler refuses it and the series ends. That it has such a number
  needs `QuietEnd` (a sub-game over without a Police turn has none to come,
  unless it was stopped) and `Numbered` (of each sub-game at most the first in
  the inbox has number one). The second way is an exception that ends a series
  which was played by the rules: what the theorem says is that the turn is not
  consumed.

`GatekeeperProofs` is about both modules, for any number of callers and any
limits:

* `WindowHolds` and `FirstIsServedFirst` of the limiter. `WindowBound` counts
  the grants of the last window, a history; the deque of the code is longer,
  since it forgets only when asked. `Lagging` ties the two: the deque is the
  history behind a front part of grants that are due to be forgotten, both
  sorted by age. Where the loop of `_prune` stops is the least place with a
  young grant, and that there is one is the least-number principle
  (`LeastNumber`, from the well-foundedness of the naturals). `LimiterTypes`
  has the queue: nobody is in it twice, and exactly the waiting callers are;
* `ImplementsLimiter`: every step of `execute()` is a step of the limiter or
  leaves it alone, whence the window and the order hold behind the doorway too
  (`WindowHoldsBehindTheDoor`, `OrderHoldsBehindTheDoor`);
* `QuotaHolds`. The callers between the test and the count are owed to the
  quota: `QuotaInv` bounds the count of the day and those callers together, and
  by it the calls made and those still waiting for a permit. Only a caller
  that holds a date of an earlier day (`Stale`) can set the day back, and once,
  since its next attempt reads the date anew; so how many callers are not stale
  (`Active`) bounds how often the count has started anew, and with it the calls
  of a day (`Most`);
* `BreakerHolds` and `BreakerTrips` (which proves `FailuresAreJudged`). The bound on what leaks through an open
  breaker is not inductive: what keeps it is that a caller which has leaked is
  not past the guards again, and that the caller which opened the breaker is not
  past them either, until somebody closes the breaker and the count starts anew.

`ModelCallsProofs` proves `AnswersItsOwnTurn` and `TokensAccounted` for any
board, shortlist, retries and permits. The invariant has three parts beside the
types. `Mine`: an answer that is there was given to the turn that waits for it.
`Punctual`: until a call outlives its turn there is at most one, the awaited
one, whose answer is still open; so nothing can be counted between the reading
of the totals and the next turn. `Books`: what was charged so far was used
before this turn began, what the turn's calls have used is what the total has
grown by, and, until a reply without counts was read, a source that has counted
has been used, without which a charge could name no model. `DecisionsApply` proves `AppliedAsDecided` for every board,
belief and answer. The rankings of `Candidates` are sorted lists of legal
actions, so all it needs of them is that the best of the (at most four) actions
exists and is legal (`GreatestOfFour`, `PickIsLegal`), and that an enclosed Thief
holds; the model's answer names an offered cell when it arrives (`WorkerDecides`),
and `DecisionInv` carries either choice to `apply_move`, between which nothing
changes barriers or position. `CallTypes` has the types.

`ConsoleProofs` proves the types, `OneRuntime`, `ResultBacked` and `ShowsThePrefix` for
any number of passes, sub-games, files, chains and presses. `OneRuntime` needs
`Quiet`: whoever could begin a pass finds nobody at work, since a closed window
has killed its workers, an idle one has none, and a scheduled rebuild comes from
a worker that has already left. `ResultBacked` needs `OwnFiles` (what the worker
at work has written is its own and whole, what it has not is older) and
`Falling` (files grow older in the order of writing, and a file is whole once a
later one is of its pass). The prefix is an invariant of the play head: each
handler resets it or extends every track by the one step it takes.

`MatchProofs` and `SensesProofs` prove what the pure
modules promise for all their arguments: that both peers compute the same
signed block (by the symmetry of `RolesOf` and of the sums), that counts add
up, that no file is written twice and every link resolves; what a field, a hint
and an exclusion leave; that two peers which verified each other have the same
terms and ids; and, by induction over the steps of `Lifecycle`, that no stage
of a match is skipped and an end is final.

The assumptions are those the modules name: the start is a cell, the threshold
positive, plays of the right shape, the two "no value" constants no value of
theirs. TLC evaluates them in the runs.

So every invariant and every action property that a passing run checks is also a
theorem. Only model-checked: liveness (`EndsUnlessPaused`, `StopEnds`,
`AcceptedReachesQueue`, `SeriesEnds`, `ExecuteEnds`, `TurnEnds`, `Settles`),
which with fairness and ENABLED is out of the prover's reach; and what the
rankings yield beyond a legal step, which the samples check on small boards.
Induction over data is out of reach where the library states it for an
operator; the least-number principle, which it has for sets, stands in for it
in `GatekeeperProofs`. What is proved and checked by no run: `ImplementsLimiter`,
the two properties of `Lifecycle`, and the theorems about pure operators, of
which TLC evaluates samples. The strengthened invariants were checked by TLC on
the constants of the runs before they were proved.

## Not modelled

Floating point beyond thousandths: the size of a mass in the belief, the
exponential of the emission kernel (any kernel with its peak at the centre is
allowed), the smell boosts. `absorb` of the scent field, which nothing calls.
SHA-256 (a seal is assumed fresh, a hash free of collisions), FastMCP and HTTP,
the port probe, the subprocesses and sockets of the model providers, the text
of hints and prompts and the landmarks, how a hint's words are matched to a
zone, reading files and the machine, the readiness report, the mail that is
drafted and the drawing of windows. How long the retry loop of a send may take
(`mcp_client.py`), and which kinds of message share the breaker of one
gatekeeper, are hazards without a property: the transport is its outcomes here.
The Police peer is a program of another repository: its actions are
assumptions, kept as weak as the code here and its test double allow.

## Plan

Done: the sub-game with its refinement of `SubGame`, the mailbox, the series,
the gatekeeper with its limiter, the model calls and their accounts, the
windows, and the pure rules of scent, belief, ranking, scoring, reporting and
agreement, each with its proofs.

Left, in this order:

1. An abstract series (how many sub-games are done, how it may end) that `Series`
   implements, and an abstract mailbox (a set of accepted ids) that `Mailbox`
   implements.
2. The retry loop of a send over the gatekeeper on a discrete clock: how long a
   best-effort control send may hold up a turn.
