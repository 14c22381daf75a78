# mr_poker in TLA+

This directory holds a formal model of mr_poker, a no-limit hold'em platform:
TLA+ modules translated from the code under `src/`, TLC configurations that check
them on small instances, and TLAPS proofs of theorems about the engine, sagas,
sessions, the release, the task queue, the WebSocket manager, the start of the
store, the rate limiter, the bounded cache, hands played by agents, tournaments,
coaching and the profiles of opponents.

* `PROJECT.json` is the index: components, runs, mutants, the map from
  definitions to source lines, findings, hazards and theorems.
* `X.tla` models a component, `MCX.tla` gives its constants values for TLC,
  `MCX_*.cfg` are the runs, `XProofs.tla` holds proofs.

    tlc -workers 2 -config MCEngine_three.cfg MCEngine
    tlapm EngineProofs.tla

## 1. The system

### Components

| Component | State it keeps | Operations | Modelled in |
|---|---|---|---|
| Game engine `packages/engine` | one `HandRuntime`: `HandState`, deck, initial stacks | `start_new_hand`, `legal_actions`, `apply_action` and all they trigger: commits, refunds, streets, run-out, showdown | `Table`, `Engine`, `ChipLedger` |
| Hands API, hand store, replay `apps/api/routers/hands.py`, `packages/persistence` | `container.runtimes` in memory; tables `hands`, `action_log`, `snapshots` | new, act, auto, replay; the migrations at start | `HandService`, `Migrations` |
| Saga executor and store `services/cqrs/saga*.py` | a row of `saga_state`, the completed steps of a call | `run`, retries, compensation, `create`, `advance`, `complete`, `fail`, `compensating` | `Saga` |
| Command and query buses `services/cqrs/bus.py` | none | each command is a saga of one step without a store; queries read | `Saga` (a call without a store) |
| Session runner `services/session_service` | tables of a session, report files | `run_h2h`, the summary | `SessionRunner`, `Coaching` |
| Game orchestrator, decision service, replay service | a runtime, rows of actions and traces | `play_hand_to_completion`, `replay_hand` | `Orchestrator` |
| Agents that follow rules or sample an action | none | `decide`, `_size_action` | `Agents` |
| Agents that search | a tree | `_clone_and_act`, `_determinize`, `_simulate` | `Search` |
| CFR trainers and their states `packages/cfr_agent` | regrets and strategy sums, exact or quantized, and their files | update, discount, flush, save, load, warm starts | `Regrets` (and the clones in `Search`) |
| Tournaments `services/tournament_service`, `packages/harness` | leaderboard, bracket | `round_robin`, `knockout`, `MatchHarness.run` | `Tournament`, `Orchestrator` |
| Hand evaluator `packages/evaluator` | none | `evaluate_five`, `best_hand_rank` | `Evaluator` |
| ICM `packages/strategy/icm.py` | none | equities, pressure, adjusted strategies, bounties | `Icm` |
| Spots, labels, tags, datasets, training, evaluation | rows and splits of a dataset, policy tables | bucketize, label, classify, export, train, predict, cross-validate, measure | `Training`, and the tags in `Coaching` |
| Analytics, profiles, coach, curriculum | none of their own | summaries of a session | `Coaching` |
| Opponent models `packages/opponent_model` | counters, windows, ranges and particles about one opponent | street patterns, positions, statistics; timing, sizing, fatigue, tilt and adaptation; ranges, particles, a tree of actions, a trained predictor | `Profiles`, `Tells`, `Beliefs` |
| Use of a read `cfr_agent/agent.py`, `strategy/bias_exploiter.py` | none of its own | bend a strategy to a class or to a state of mind | `Exploit` |
| Small games and stakes `strategy/psro.py`, `solver/qp_nash.py`, `solver/action_translation.py`, `strategy/kelly.py` | a population and its payoffs | meta strategies, equilibria, translated bets, stakes | `Payoffs` |
| Subgame and refinement solvers `solver/safe_subgame.py`, `solver/equilibrium_refinements.py` | regrets and strategy sums of a tree | gadget games, trembles | `Subgames` |
| Release: registry, evaluation, gate, governance, alpha candidate | files | export, save, evaluate, gate, snapshot | `Release` |
| Task queue `packages/task_queue` | `_tasks` under a lock, worker threads | `submit`, `_run_task`, `get_task`, `list_tasks` | `TaskQueue` |
| Rate limiter `apps/api/middleware/rate_limit.py` | token buckets per client | `dispatch`, the sweep | `RateLimit`, `TokenBucket`, `Monotonic` |
| Bounded cache `packages/common` | an ordered dictionary with times | get, set, delete, len, eviction | `BoundedDict`, `Monotonic` |
| WebSocket manager `apps/api/routers/ws.py` | connections per hand | connect, disconnect, broadcast | `ConnectionManager` |
| Event store `packages/events` | an append-only table | append, replay | `EventStore` |
| Auth, audit, configuration, logging, metrics, networks, the other solvers, scripts | - | - | not modelled (section 7) |

`PROJECT.json` lists every component with its sources and what is left out of it.

### How the parts interact, and what is hard

A browser or a bot posts to the API. FastAPI runs the plain `def` handlers in a
pool of threads: two requests on one hand run at the same time, and nothing
locks `container.runtimes` or a runtime. A handler changes the runtime in memory
and then writes rows with one connection per store method; every statement
commits by itself, so that a crash cuts a request between any two writes. The
`async` handlers (WebSockets, the rate limiter) share one event loop and
interleave only where they await. Background tasks run in worker threads and are
read by handlers of other threads. Sessions and sagas are long calls over many
transactions that compensate when they fail. The release services pass files to
each other that are written in place.

Around these is a body of sequential code whose difficulty is in its numbers and
its long sequences: the engine's pots, the rules of the agents against those of
the engine, brackets with byes, hand ranks, tournament equities, policy tables
and what is measured of them, regrets through discounts and quantized files,
counters of an opponent, what is believed of it and how a strategy is bent for it,
and small games solved by walking their trees.

What is hard to test, and so what the properties are for:

* side pots, refunds and odd chips over sequences of folds, short all-ins and
  raises, and who acts next;
* what the store holds when requests overlap or the process dies;
* what a saga or a session leaves behind when steps, compensations, the store or
  the process fail, and what readers see meanwhile;
* state that is copied or iterated outside its lock or across an await (tasks,
  WebSockets), forgotten too early (buckets, cache entries) or too late;
* schemas that two processes migrate at once, and files read while written;
* agreement between parts that compute the same thing apart from each other:
  agents and engine on legal amounts, coach, analytics and taxonomy on edges,
  counters of one opponent with each other, the compact CFR state with the exact.

The full list, each at its line, is under `hazards` in `PROJECT.json`.

## 2. Modules

    Table ─┬─ ChipLedger ─ ─ (INSTANCE)
           └─ Engine ─┬─ MCEngine
                      ├─ HandService ── MCHandService ─┐
                      ├─ Agents ─┬─ Orchestrator ──────┼──────────┐
                      │          └─ Search             │          │
    Monotonic ─┬─ RateLimit (INSTANCE TokenBucket) ────┤          │
               └─ BoundedDict ─────────────────────────┤          │
    TaskQueue, ConnectionManager, EventStore, ─────────┤          │
    Migrations                                   MCPlatform       │
    Tournament, Evaluator, Profiles ──────────────────────────────┤
    Fractions ─┬─ Icm, Regrets, Exploit, Tells, Payoffs, Beliefs ─┤
               └─ Subgames ─────────┐                             │
    Saga, SessionRunner, Release ───┴─ MCWorkflows                │
    Training (over Fractions), Coaching ──────────────────────MCPlay
    EngineProofs over Engine; HandServiceProofs over MCHandService and
    EngineProofs; PlatformProofs over MCPlatform and HandServiceProofs;
    WorkflowProofs over MCWorkflows; PlayProofs over MCPlay and EngineProofs

`MCPlatform`, `MCWorkflows` and `MCPlay` put several components into one instance: a
variable (`part`, `workflow`) says which of them runs, the others stay in one
initial state. Nothing is composed that does not interact in the code; the
modules that do interact extend each other.

### Engine

`Engine` is one hand. `hand` is a record with the fields of `HandState`; what
`PlayerState` keeps per player are functions on `Seats`, and its flags are sets of
seats. Every method of `GameEngine` is an operator from hands to hands
(`_commit` is `Commit`, `_refund_uncalled_if_needed` is `RefundUncalled`,
`_pot_segments` is `Contributors`, `LevelBelow` and `SegmentAmount`, `_showdown` is
`Showdown`, `_advance_street_or_showdown` is `AdvanceStreetOrShowdown`,
`_resolve_after_action` is `ResolveAfterAction`), so that an action of `Next` is a
whole call of `apply_action` with whatever it triggers. `Accepts` collects the
conditions under which the call does not raise.

Abstractions:

* Cards. The chips depend on the deck only through the order in which it ranks
  the hands at the showdown, so a showdown takes any `rank` in `Rankings`; the
  board is the number of its cards.
* `street_starting_seat` and `last_aggressor_seat` are written and never read by
  the engine; the list of actions is for display. They are left out (`Search`
  keeps the list, because the clones replay it).
* The loop of `_runout_and_showdown` is one step to the river: nothing in between
  depends on the street it started from.
* Sums over the seats are written out for six, the most `start_new_hand` accepts.

`ReplayRows` folds `apply_action` over rows of actions, as `replay_hand` does; the hand
service and the orchestrator replay with it.

`ChipLedger` is what a hand promises about chips whatever its rules are: a seat's
chips leave its stack only into its own stake, and the stakes are paid out once,
in full, to seats that have not given up. `Staked` in `Engine` is the mapping and
`ImplementsLedger` the refinement.

How close the model is: the program was driven through every sequence of actions
heads-up with stacks 1..6 and at two sets of three-seat tables (level stacks, and
stacks of 1, 3 and 6), with `best_hand_rank` returning the chosen ranking, and its
states were compared with TLC's, field by field: 2,996, 9,828 and 28,968 states,
the same ones on both sides.

### HandService

The API over `Engine` and the store for one hand. A request is a process; its steps
are what no other request can interrupt: reading the runtime, one `apply_action`,
one SQL statement. `append_action` is two steps, because Python's `sqlite3` opens a
transaction at the INSERT and not at the SELECT of `MAX(action_order)` before it.
`Crash` empties the memory and keeps the rows. `Replay` is `ReplayRows` of the
engine over the rows in the order in which the store reads them (`InOrder`). A call
of the store may raise while the process lives on (`StoreRaises`, under
`StoreFails`): the request is answered with 500, what it has done stays, and an
action whose row was refused is never stored. `applied`, `acked` and `lost` are
history: what the engine accepted, what was answered with 200, and the accepted
actions whose row was refused. `apply_action` is one step; two threads inside it at
once could tear the state further, which is not modelled.

### Saga, SessionRunner, Subgames, Release

`Saga` is `InProcessSaga.run` for calls that share one idempotency key. An attempt at
a step takes effect and returns, raises, or takes effect and is then found late
(`_execute_step` looks at the clock after the action). Every method of the store
is a step that may raise. `effect` counts how often what a step does is in place;
`spoilt` records which kinds of fault happened, so that a property can be stated
for the behaviours in which it must hold.

`SessionRunner` is `run_h2h` for sessions in several threads: `CreateSession`
outside the try, the simulation, a unit of work per hand (what an open one has
written is in `uow` and invisible to readers), the report file named by the current
second (`write_text` empties it and then writes it; sessions of one second share it,
and what they write at once may be mixed), the summary, and the except branch
(`Raise`, `DeleteSessionData`).

`Subgames` walks the gadget game of a subgame solver and the perturbed trees of the
refinement solvers as the code does, with fractions for probabilities, and says
what regrets and average strategies the walks leave.

`Release` is the files that requests share on the way to a release: `export` writes
rows, manifest and splits one after the other, `save` writes a policy, an
evaluation writes a report, a snapshot a model card. Every `write_text` is two
steps, truncation and contents, and a reader in between gets a part of the file.
What a request asks for may have been seen in a list before (`asks`, `after`).

### The parts of the process (MCPlatform)

`RateLimit` is `dispatch` on the event loop: refill, charge, and the sweep that drops
stale buckets; tokens are fractions of `1/Minute`, so all amounts are whole.
`TokenBucket` is the limiter that never forgets, and `ImplementsTokenBucket` the
refinement, with the credit a client could spend now as the mapping.
`BoundedDict` has every operation under its lock; `written` and `deleted` are the
history of the keys. `TaskQueue` has one step per assignment of a worker and per
field that a reader copies outside the lock. `ConnectionManager` has one step per
stretch between awaits: a broadcast iterates over the list object it found, which
`connect` extends and `disconnect` replaces (`Without` keeps the others in their
order, place by place). `EventStore` is appends and limited
replays. `Migrations` has one step per SQL statement of processes that start on one
file, with Python's implicit transactions; a process may die between any two.

### What is played, learnt and told (MCPlay)

`Agents` is the rules of the baseline agent in their order, what the adaptive agent
and the policy table make of them, and the amounts of agents that sample an action.
The cards come in as a read (equity in percent, and the class of hole cards and
board). `Orchestrator` is `play_hand_to_completion` with decide, apply, append
action and append trace as steps that may raise, and `MatchHarness.run`.
`Tournament` has a match as its result. `Evaluator` is the Python path of
`hands.py`. `Icm` computes `icm.py` in `Fractions`, with Harville's model as the
reference definition. `Training` has the buckets and labels of spots, the rows of a
dataset, policy tables, the weighted vote, the one-split tree, the folds of a
cross-validation and the metrics and calibration over them. `Regrets` runs
`CFRState` and `CompactCFRState` side by side through updates, discounts, saves and
loads, and turns them into warm starts. `Coaching` plays a session street by street,
tags its decisions, and computes what the analytics, the session summary, the
profile, the coach and the curriculum say of it. `Profiles` tells three trackers of
one opponent the same actions and hands, and relates their counts.

`Tells` is what else is read of an opponent: windows of decision times, of a
session's fatigue, of bet sizes, the score of a tilt with its streaks, and the
tracker that asks whether the opponent adapts. `Beliefs` is what is believed of
it: a range narrowed by actions, particles that are weighted and resampled, a
tree of relations between actions, and a predictor trained on windows. Random
choices are any of the choices with a positive probability. `Exploit` bends the
probabilities of a strategy, first for the class of an opponent and then for its
state of mind; a strategy must stay one. `Payoffs` is the population of PSRO with
its matrix, the two-player equilibria by support, the translation of bets and the
stakes a bankroll allows.

### Search

`Search` replays a hand from its recorded events to try an action in the copy, as
`CFRTrainer._clone_and_act` does for each legal action and `ISMCTSAgent._determinize`
for each simulation, and walks the tree of the MCTS agent.


## 3. Runs

| Run | Instance | What it shows |
|---|---|---|
| `uneven` | heads-up, every pair of stacks 1..6, blinds 1/2, amounts to 7 | chips move only as the ledger says and none is lost (`SeatLedger`, the refinement `ImplementsLedger`), and players who keep acting come to an end (`HandTerminates`) |
| `three` | three seats: 5 each, 7 each, and every vector of 1, 3 and 6, amounts to 8 | a hand always waits for a seat that can act and pays its pot in full outside the two findings below (`PlaysOut`), a round closes only when each seat that can bet has acted and owes nothing, side pots cap a short stack, a folded seat gets nothing, a showdown has its board, nothing settled is undone |
| `chips_lost` | three seats, every vector of 1, 3, 6 | finding: chips of a pot level only folded seats reached are paid to nobody (`engine.py:448`) |
| `hand_stuck` | heads-up, stacks 1..6 | finding: a seat all in on its blind is waited for (`engine.py:98`) |
| `replay_order` | two requests on a hand at a time | finding: applied in one order, logged in the other (`hands.py:58`) |
| `workflows` | saga, sessions, release, one at a time | effects, row and answers of a saga agree; readers see whole hands, and a whole report unless two sessions shared a second, and a failed session leaves no rows; an alpha candidate has been evaluated on every row; the walks of the tree solvers keep their regrets within bounds, try what they must and are told what they need (`SolversHold`); calls and sessions end |
| `session_artifacts` | one session, errors | finding: a failed session leaves its report file (`service.py:213`) |
| `platform` | the parts of the process, one at a time | store, limiter, cache, tasks, sockets, events and migrations under overlap, a store that raises and crashes |
| `play` | agents, tournaments, evaluator, ICM, learning, coaching, regrets, and all that reads and uses an opponent, one at a time | decisions are accepted and replay, tournaments add up and eliminate, ranks follow the rules of poker, equities are Harville's as far as the fifth place, what is learnt and measured adds up and survives its files, judges of one decision agree, what is read of an opponent is what it did and what is made of it is a strategy, an average or a stake that bears it out |
| `replay_all` | three events of two aggregates, a limit of two | finding: a replay is cut short at the limit (`store.py:87`) |
| `clones` | the clones of the CFR trainer | finding: no clone is ever made (`cfr_agent/trainer.py:372`) |
| `visits` | the tree of the MCTS agent | finding: only FOLD is ever tried (`mcts_agent/agent.py:248`) |

Some properties of the larger runs are conjunctions of named parts, one idea each,
defined beside the state they are about:

* Of the store of a hand, `LoggedOnce` holds under every load and whatever the store
  refuses: what is not in the log is what was answered with 500. `OneAtATime` and
  `OneHistory` are about load "serial", where requests come one after the other:
  the first is `StoreInOrder`, the log and the snapshot beside what was applied;
  the second is `ReplayFaithful`, as long as no row was refused, and `SnapshotReplays`,
  what a replay of the log gives beside the live hand and the snapshot. Once a row
  was refused the live hand is ahead of the log for good, and no replay rebuilds it.
* `RowAndAnswersTrue`: what the row of a saga, its answers and its effects say of
  each other. `EffectsUndone`: `Cleanup` (what is undone when a call fails) and
  `UndoneInReverse`.
* In `MCPlay`, each with the promise of one part: `HandsHold` (agents with the
  engine, and the replay of what is stored), `TournamentsHold` (standings and
  brackets), `CalculationsHold` (ranks and equities), `TrainingHolds` (`ModelsAddUp`
  and `LearningIsKept`), `CoachesAgree`, `ProfilesHold` (`ProfilesAgree`); and
  `OpponentsRead`, which joins `Exploits`, `TellsRead`, `PayoffsHold` and
  `BeliefsHold`.
* `SolversHold` in `MCWorkflows` is `SubgamesSolved`.

### Bounds, and why they are enough

* *Stacks and blinds.* The code compares and subtracts amounts and never looks
  at their size, so what matters is their order: below, at and above the small
  blind, the big blind, a minimum raise, a full re-raise. Stacks 1..6 with blinds
  1/2 give all of these; short and deep stacks at three seats give two levels of
  side pot, ties and odd chips. `MaxAmount` is above every stack, so that amounts
  the engine caps or refuses are tried.
* *Seats.* Three is the least at which a side pot has two seats, a folded seat can
  have invested more than the rest, and the button, the blinds and the first seat
  to act are distinct. The theorems are for up to six.
* *Rankings.* All weak orders of the seats: every winner and every tie.
* *Requests on a hand.* Two overlap in every pair of steps; stacks are short, so
  that the hand ends by folds, calls and shoves within them. While the process lives
  the store fails one accepted action of a hand (`MaxFailed`), in a hand of one pair of
  stacks, one deck and one button (`FewFailures`): it may be any, at any of its steps, and
  the requests after it go on. `replay_order` has no failing store, so that what it
  shows is the order alone.
* *Platform.* Two clients at two requests per window of 2, buckets that live 3 and
  a sweep every 2, to time 4: a bucket is swept, recreated and refilled; three keys
  in a cache of two with a lifetime of 1: an entry leaves by expiry, by deletion and
  by eviction; two tasks, two workers, one reader; three sockets and two
  broadcasts, so that one is joined or left by a third during an await; three
  events of two aggregates and a limit of two; two processes, two crashes and the
  two versions of the schema.
* *Workflows.* Two callers of three steps, the middle one without a compensation,
  one retry: a failure before, in and after each. Two sessions of two hands, a
  clock of two seconds, so that reports share a name or do not. Two requests of
  the release services. A crash happens once: what follows is a call that has not
  begun.
* *Play.* Stacks 14/14, 3/9 and 20/7: deep, short and uneven; at most 6 actions,
  below and above the orchestrator's cap; seven reads reach every rule of the
  baseline agent. A match is between two kinds of agent under one ranking. Fields of
  up to five with byes and with a name twice. Decks of five values in three suits
  and of three values in four suits to five cards, and of six values in two suits to
  seven: every category of hand, with kickers and wheels. Tables of up to seven
  players: with `MostExact` as in the code, the places after the fifth take the
  approximating branch of `_prob_place_recursive`, where a probability is all that
  is asked; what is compared with Harville's model, by its orders for five players
  and by its sums for more, are the first five places, and a table's equities add up
  where no further place is paid. Datasets of three rows, sessions of four streets,
  opponents of two hands with four actions and a window of one, regrets through
  three updates and three other calls in two orders.
* *Reads and their use.* Seven moves with windows of two and three, so that a
  window is short, full and has moved on; batches of ten and of sixty hands,
  either side of the classifier's thresholds; five openings and nine states of
  mind; populations of up to four policies and twelve rounds of fictitious play;
  bets from 1 to 160 against sizes of 33, 50 and 100, so that each lies below,
  between, at and above them; four wagers in turn; three particles of two kinds;
  trees of depth two with three observations and ranges with two.
* *Trees.* Two trees with trembles of 0 and 1/4, trunks of none, one and three
  information sets worth -1, 0 or 2, and six walks: a regret is positive, negative
  and back.
* *Search.* Seven simulations, more than there are actions at the root, from
  equal stacks.

`CHECK_DEADLOCK FALSE` is set where the system really stops: finished requests,
calls and sessions, a clock at its bound, and the hands of `hand_stuck`. The run
`play` leaves deadlock checking on: its liveness rests on it (see fairness).

### Fairness

* `Engine!FairSpec` is weak fairness of `Next`: the callers that drive a hand
  (`play_hand_to_completion`, the session runner) act until it is terminal.
* `Saga!FairSpec`, `SessionRunner!FairSpec` and their counterpart in `MCWorkflows` are
  weak fairness of each call's own steps: `run` and `run_h2h` are loops over
  callbacks that return.
* `TaskFairness` is weak fairness of each worker: the threads of an executor run.
  `WsFairness` is that of each broadcast: the event loop resumes a coroutine whose
  send has completed or failed. `MigrationFairness` is that of each process's next
  statement: the timeout of `sqlite3` lets it wait for the other's transaction.
* `TournamentFairness` and `PlayFairness`: the loops go on while there is a match or a
  hand to play. `PlayFairness` says that a hand ends or the process takes
  infinitely many steps; with deadlock checked this is weak fairness of the
  process, in a form TLC decides without `ENABLED`.

Faults are never fair: nothing obliges an error, a crash or a lost socket to happen.

## 4. Proofs

All theorems are for every value of the constants under the named assumptions of
their modules, which TLC evaluates in the runs that extend them.

### Engine (`EngineProofs`)

For every number of seats from two to six, all blinds, all stacks and all
rankings (`SeatsAssumption`, `BlindsAssumption`, `StacksAssumption`,
`BoundsAssumption`, `NoneAssumption`):

* `Invariant`: `Spec => []IInv`;
* `TypeCorrect`, `PotCorrect`, `LedgerCorrect`, `NeverNegative`, `FoldedLose`,
  `ProperEnd`: the type invariant, `PotIsInvestments`, `SeatLedger`,
  `NoNegativeChips`, `FoldedNeverPaid`, `EndsProperly`;
* `SidePotsCapWinnings`: no seat wins from another more than it put at risk itself
  (`SidePotsCap`);
* `HandPlaysOut`: no chip is lost unless a folded seat had invested more than every
  seat left, and a running hand waits for a seat that can act, but in the two
  cases `PlaysOut` names;
* `GoesForward`: what is settled stays so (`OnlyForward`);
* `RoundsAreFair`: unless a seat that acted in it has gone all in, a round closes on
  a seat that can still bet only when it has acted and owes nothing
  (`RoundClosesFairly`);
* `HeadsUpLedger`: with two seats a hand implements the chip ledger
  (`ImplementsLedger`), and `MovesAsLedger`: with any number of seats, so does every
  step that does not lose chips in the way of `chips_lost`.

None of these is inductive by itself. That the pot is what was invested survives
a refund only if the refund is at most what the seat invested; that investments
stay at or above zero needs the pot and the stacks at the same time; that a
showdown has two seats and a whole board needs the link between street and board
and that a running hand has two seats in it. `IInv` says all of it: a hand is
`Running` (well-formed, stacks and investments at or above zero, the pot their
sum, every seat's chips accounted for, the board that of its street, at least two
seats in) and waits for a seat that can act or for one of the exceptions
(`Waits`), or it is `Over` (the pot empty, the folded seats left with what they did
not invest, no seat above its cap, all chips there if some seat left had covered
the folded ones, and a whole board with at least two seats or a lone winner).

The argument goes up the engine's own call graph. Lemmas about sums, counts and
the largest of a set of values (`SeatSumUpdate`, `CountMany`, `MaxOfValues`), where
finitely many seats replace an induction; then one lemma per method, that it
turns a running hand into a running or a finished one, and that a folded seat
wins no segment (`FoldedUnpaid`, `CommitRunning`, `RefundRunning`,
`OpenStreetRunning`, `ShowdownOver`, `RunoutOver`, `AdvanceSound`, `ResolveSound`,
`PutInSound`, `RaiseToSound`); then `NextIInv`, with one step per action.

*Side pots.* Each segment of the pot is the height of its level over the level
below, once for each contributor. Up to any level, the heights of the opened
segments add up to the highest investment that is reached (`HeightsReach`), because
the levels below a level are those below the highest of them and that one; so
the segments hold exactly what was invested (`SegmentsHoldPot`), and those a seat
can win hold from each other seat at most what the seat invested (`PayoutCap`). A
segment is paid out whole, odd chips included (`SharesAddUp`), as soon as one of
its contributors is left, which is what `Covered` grants (`PayoutsAddUp`).

*Whom a hand waits for.* The seat that acts can bet, or the hand waits for the
seat after the button when the button alone has chips, or heads-up for the
button that its small blind put all in: `Commit` empties a stack only of the seat
that acts, and a new street looks for its first seat from the button.

*Rounds.* `acted_this_street` counts, it does not say who is next. What makes the
count right is the order of turns (`Round`): going round from the seat that acts,
the seats that have still to act come before those that have, and these have put
in what they were asked. A raise starts this order again at the raiser
(`RaisesBet`), every other action removes the seat that acts from its front
(`Speaks`), and the turn passes to a seat that has acted only if all have
(`TurnPasses`). So a count as large as the number of seats that can bet is a count
of just these seats, unless one that acted is all in, which is the exception.

*The ledger.* A step is read as one move of one seat: it gives up, or puts a number
of chips in, and then the hand goes on or pays out (`GivesUp`, `Puts`, `MovesChips`).

*Bets.* With a big blind that is not the smaller one and stacks that are not empty
(`Ordinary`), the bet of a street is always in one of three states (`StreetBet`): nobody
has bet (`NoBet`), nobody has exceeded the big blind (`BlindBet`), or the bet is the
most that anyone has put in and who has still to act owes something (`FullBet`).
Each call of `apply_action` leads from these to these (`Bids`). The least raise is
above the bet in all of them, which is what an agent's sizes rest on.

*Replays.* A fold over the rows is a function on the sets of their places
(`Replays`), which the definition of `FoldLeft` takes with a CHOOSE. That there is
one and only one is shown by induction over the numbers, stated without an operator
as parameter: a set of numbers that has 0, and with each number the next, is `Nat`
(`ByNumber`). So the replay of no rows is the fresh hand (`ReplayNothing`), and of one
row more is one `apply_action` more (`ReplayOneMore`); on this the theorems about
stored hands rest.

### Hands played by agents, tournaments, coaching, profiles (`PlayProofs`)

* `StoredRowsReplay`: whatever raises between the application of a decision, its row
  and its trace, the rows the orchestrator has stored are accepted again in their
  order and rebuild the hand, and the final snapshot is what they rebuild
  (`LogReplays`), for every table, blinds, stacks, agents, cards and cap.
* `HandsAreHeld` adds `DecisionsAccepted`, and with it states the run's `HandsHold`: the
  engine takes what the baseline, the adaptive agent, the policy table and the
  agents that sample decide, for any read of the cards and any prediction, and the
  rules never fold what they could check. It assumes `Ordinary`: `GameEngine()` has
  blinds 1 and 2 and every caller of `start_new_hand` stacks above 0, but neither is
  checked, and a big blind of 0 or a seat without chips makes agents decide what is
  refused.

A decision is the first rule that holds. That one does (`FirstRuleHolds`) and that a
list of rules decides what its members or its end decide (`RulesOrCheck`,
`RulesOrGiveUp`) reduces an agent to the few forms of `Plain`, or of `PredictedSized`,
whatever its estimates are. Whether the engine takes these depends on the bet of
the street (`WithoutPrice`): without a price there is no bet, or before the flop one
within the big blind, because a seat that has not acted on a full bet owes something.
`HandInv` is the engine's invariant, with rounds and bets, carried over to the
orchestrator; `StoreInv` says that the rows rebuild the hand, or the hand before the
one action that is applied and not yet stored.

`StandingsAreRight` (`TournamentSound`), and `TournamentsAreSound` for the
composition: for any lists of entrants over finitely many names (`NamesAssumption`,
`FieldsAssumption`), any number of hands a match and any results.

* In a knockout `Bracket` says where the round is: each winner is of its pair, and the
  match is that of the next pair. Who is left (`Has`) has lost no match and everyone
  else exactly one (`Judged`): a pair puts its loser out (`OneOut`), the next round keeps
  the winners and the bye (`NextRoundBegins`), and a bye is nobody's defeat.
* In a round robin `Balanced` follows the columns of the leaderboard through the two
  rows that a match credits one after the other. A sum over a set is the function
  that the library's fold defines (`Sums`); that there is one, and that it changes by as
  much as one of its terms (`SumsExist`, `SumChanges`), is shown by induction over the
  sizes of sets, written out with sets of numbers.
* That everyone has met everyone once rests on the order of the pairs: no two have the
  same number (`PairsNumbered`), so that a match more is a pair more (`MetInv`), and each
  place is in a pair with each other place (`PlacesPaired`).

`CoachesJudgeAlike` (`CoachesAgree`), for any estimates, any odds from 1 to 100 and any
number of streets. `CoachInv` says what a decision can be: whoever folds, calls or
raises faces a price and has its odds, whoever checks or bets has neither. From it
follow the three kinds of a priced decision (`JudgedAlike`, after `TagsOfEdge`) and the
count of those reviewed (`ReviewedCounted`). The summary of a session adds up over the
seats (`SeatsSummed`) because a sum over a set is that over its two parts
(`SumSplits`), and for this it must not matter which term is taken out first
(`SumTakesOut`). A curriculum is chosen among the orders of its topics: there is one
(`TopicsOrdered`), and as no two topics weigh alike it has each of them (`OrderIsChosen`).

`ProfilesCountAlike` (`ProfilesAgree`), for any positions, any window and any number of
hands and actions (`ProfilesAssumption`: there is a position, finitely many, and "none"
is not one). What an action adds to the counts both trackers keep is one record
(`Adds`): the position of the hand grows by it (`ActCounted`), the statistics of the
seat do (`ActInStats`), and with one position the sum over all (`FieldChanges`). What
bounds a frequency, its opportunities, is counted under a weaker condition than what
it counts (`RatesBounded`). `ProfInv` adds that a hand and its actions tell the same
(`ActTold`); the patterns of the window are sets of its places, one within the other
(`PatternsCounted`).

### Rate limiter and bounded cache (`PlatformProofs`)

* `NoWindowOverspent`: for every rate, lifetime of a bucket and sweep interval, the
  requests let through since any moment cost at most a full bucket and the refill
  of the time since (`WindowBound`).
* `ImplementsIdeal`: the limiter that forgets stale buckets implements the one that
  never does (`ImplementsTokenBucket`).

The potential is what a client could spend now, `Credit`: what was granted since a
chosen moment plus `Credit` is at most a full bucket plus the refill. A request
lowers `Credit` by what it takes, time raises it by the refill up to a full bucket,
and the sweep leaves it alone, because a bucket old enough to be dropped is full
again (`StaleIsFull`; this is where the lifetime must be at least the time a
bucket takes to fill).

Of the cache, for every size and lifetime:

* `NeverBeyondSize`: no more than `MaxSize` entries.
* `EvictsOldest`: a fresh entry leaves only by its deletion or because newer ones
  fill the cache (`LostOnlyToNewer`).
* `NeverStale`: a lookup answers only with what was written last, and only while it
  lives (`ServesLive`).

The strengthening (`HoldsLatest` and what it says of the history) is that the
entries are the latest writes of their keys, in the order of their times.

### Session runner (`WorkflowProofs`)

* `ReadersAlwaysSeeWhole`: a reader never sees a hand of a session without its rows;
  a summary stands for all of them, and the report it names is the session's own and
  whole, unless another session took the same second (`ReadersSeeWhole`).
* `FailuresCleanUp`: a session that failed and compensated leaves no row
  (`FailureLeavesNoRows`).

Both for any number of sessions and hands, under errors and crashes. The
strengthening says, for each place in `run_h2h`, which rows are committed and which
are in the open unit of work (`StoredOf`, `StageOf`).

### Saga (`WorkflowProofs`)

For any steps with and without a compensation, retries, callers with and without
the key, time limits and faults (`SagaAssumption`, `NoRowAssumption`):
`SagaTypeCorrect`, `EffectsOnce` (`NeverTwice`), `FailuresUndone` (`EffectsUndone`),
`RowIsTrue` (`RowAndAnswersTrue`).

That two callers of one key never have a step in place does not follow from the
effects alone: what excludes it is the row. The invariant says that the row names
the one keyed caller that did anything (`RowOf`), that where this caller is in
`run` decides the status of the row (`StatusOf`) and which of its steps are in
place (`StepsOf`: those before the one it executes, or those it has still to
compensate), with what remains of this when an attempt was late, a compensation
failed or the store raised.

### Store start, task queue, WebSocket manager, events (`PlatformProofs`)

* `StoreStartsWhole`: however many processes start on one file, die and start again,
  one that serves finds the whole schema and the latest version (`SchemaIsWhole`),
  for every number of versions (`VersionAssumption`). Statements only add to the
  schema, rows are committed together and only over a whole schema, and each
  process is where its own statements have brought it (`ProcessOf`); what another
  process does can only take it further.
* `TasksTypeCorrect`, `AnswersAgree`: an answer about a task never mixes two outcomes
  (`OneOutcome`), although a reader copies its fields one by one, outside the lock,
  while a worker assigns them (`NothingAssumption`). A worker's record is half-way
  between two sound ones (`HalfWay`), the fields are assigned in an order in which
  every record is sound by itself, and what a field settles stays (`Later`), so that
  the fields copied before agree with those copied later (`AnswerOf`).
* `EveryoneReached`: a broadcast sends once to each connection that stays and never
  twice to one (`BroadcastsReach`). The place in its list says to whom it has sent
  (`SentUpTo`). While it shares the list of the manager, `connect` only appends to
  it; `disconnect` replaces that list and leaves the broadcast its own (`Fits`).
* `ReplaysFromTheStart`: a replay is the beginning of what its aggregate has appended,
  in that order, without repetitions, and only the limit cuts it (`ReplayIsPrefix`), for
  any aggregates, events and limit. The ids in the table are distinct because an
  INSERT with one that is there is refused; the rows of an aggregate are selected
  in their order (`SelectionExists`, `EventsOfAggregate`).
* `PlatformIsItsParts`: a behavior of the composition is one of each part, clients,
  limiter and cache included, so that every theorem about a part holds with the others
  beside it. `PlatformTypesCorrect` is one use of it (`PlatformTypeOK`).

### Hands API (`HandServiceProofs`)

For any clients and any bodies they post (`RequestsAssumption`: the types of
`ActionType` and amounts from 0, as `ActionRequest` has them), over the engine of any
table of `EngineProofs`, with a store that may raise at any of its calls and crashes
between any two steps:

* `AcceptedLogged`: an action answered with 200 is in the log, none is there twice,
  and when no request is under way and the process has not died, every accepted
  action is there but those whose row the store refused (`LoggedOnce`). Concurrent
  requests share `runtime`, `MAX(action_order)` and the rows, so what has to be
  shown is that a row is written once and by the request that applied it: an
  accepted action without a row was refused one, or is held by exactly one request
  between its `apply_action` and its INSERT, and no row bears the number of an
  action that a request still holds (`Books`). Orders may repeat, but none exceeds
  the number of rows (`Placed`), so that the `MAX` each request reads exists.
* `LiveHandSound`: the hand behind the API is well formed and its chips are accounted
  for seat by seat (`SeatLedger`, `PotIsInvestments`), which is the invariant of the
  engine carried over to steps that any client may take at any time.
* `LogAndSnapshotAgree`: for a hand with a seed and with one request at a time, the
  log and the snapshot tell the same hand (`OneHistory`): a replay rebuilds the live
  one whenever no request is under way and no row was refused, and the latest
  snapshot is the replay of the rows up to it unless a row before it was refused.
  `HistoryInv` follows the one request through its steps: the log rebuilds the hand,
  or the hand before the action that has no row yet (`Rebuilt`), and the snapshot
  the hand at its row. Under increasing numbers the order in which the store reads
  the rows is the order in which they were written (`NumberedInOrder`).
* `SerialStoreOrdered`: with one request at a time the store is in order whatever it
  refuses and wherever the process dies (`StoreInOrder`): rows are missing only of
  refused actions and perhaps of the last, and the snapshot served has every action
  answered with 200. At each step of the one request under way the log is
  behind the engine by its action or not at all, and the snapshots are behind the
  log by one or not at all (`Stored`, `InStep`); rows are numbered in the order in which
  they were applied (`Numbered`, `Rows`), so that the latest snapshot is the last.
  `LoadIsService` relates the loads of the run to the
  service itself, so that the first invariant serves here too. Without the
  restriction to one request the log may be in another order than the engine's (finding
  `replay_order`).

### Release, and the workflows together (`WorkflowProofs`)

`CandidatesBacked`: a release candidate was evaluated on every row of its dataset, is
accurate and packaged, and has a report and a card (`CandidateIsBacked`), for any
number of requests. The export writes its files in order and a request begins
only when its dataset is listed, so that it finds whole what it relies on
(`ExportOf`, `RequestOf`), and no file vanishes for good although each is truncated
before it is written (`WorldGrows`).

`WorkflowsAreTheirParts`: a behavior of `MCWorkflows` is one of the saga, of the session
runner and of the release services. `WorkflowsTypesCorrect` follows (`WorkflowsTypeOK`).

### Only model-checked

* `ChipConservation` as it stands fails for some stacks (`chips_lost`); what is proved
  is the condition under which it holds. `ImplementsLedger` is proved for two seats
  and, step by step, for more.
* `SolversHold`, `CalculationsHold`, `TrainingHolds` and `OpponentsRead` are about sorts,
  fractions and recursive functions over data.
* Liveness and what rests on fairness.

## 5. What the code does otherwise than it says

Shown by runs: `chips_lost`, `hand_stuck`, `replay_order`, `session_artifacts`, `clones`,
`visits`, `replay_all`; each finding quotes the line it contradicts. `hand_stuck` has a
second form: a deeper button whose all-in is called short leaves the hand waiting
for the seat that is all in. The loop of `clones` is repeated in `lazy_cfr.py`,
`pruning.py`, `deep_cfr.py`, `gpu_cfr.py`, `vr_deep_dcfr.py` and `solver/abd`.

Seen while modelling, and stated here because a reader of the properties will ask
why they are restricted, or because no property is about them:

*Engine and store*

* `StrictOrder` holds for one request at a time. Two that overlap read the same
  `MAX(action_order)` and store it twice; no constraint forbids it.
* `ReplayFaithful` is for hands with a seed. `NewHandRequest` has none by default,
  and the replay of such a hand shuffles another deck. The amounts replayed are
  the committed ones, not the `raise_to` that was asked for.
* `OneHistory` is for stores that refused no row. When `append_action` raises
  (`hands.py:58`, an `sqlite3.OperationalError` of a locked or full database) the
  request is answered with 500 and the action stays applied: the live hand is ahead
  of the log for good, the actions that follow are logged over the gap, and the
  replay, which `docs/06_Test_Strategy.md:7` wants identical, gives another hand or
  raises. The snapshots go on showing the live one.
* `RoundClosesFairly` excepts rounds in which a seat that acted went all in:
  `acted_this_street` counts that seat and the number it is compared with does
  not, so the big blind can lose its option (`engine.py:381`).
* `SidePotsCap` is about showdowns; a pot won by folds is paid whole.
* The orchestrator's cap of 200 actions stores a "final" snapshot of a hand that has
  not ended.

*Sagas and sessions*

* `NeverTwice`, `UndoneInReverse` and `Cleanup` except a late step: it has taken
  effect, is tried again, and what stays is not compensated. `Cleanup` excepts a
  failing store: `fail` and `compensating` come before the compensations and are
  not guarded. A crash leaves a row `running` that nothing resumes, and its UNIQUE
  key refuses every later call.
* Two sessions that end in the same second write the same report file
  (`service.py:204`). The file named by a summary exists, and holds the later one's
  report, the beginning of it, or a mixture of both: `ReadersSeeWhole` excepts them.
* `replay` of the event store is complete up to the 1000 rows of `get_events`, and
  `ReplayIsPrefix` says so; that it is not beyond is the finding `replay_all`.

*Agents, tournaments, evaluation of chips*

* The baseline's sized BET is refused on the big blind's option when it is below the
  minimum raise, and a sized RAISE when the shove is below `min_raise_to`, despite
  the comment "Clamp" at `trainer.py:185`.
* The LLM agent reads `state.community_cards`, which does not exist, and always
  answers with the baseline's action.
* `_determinize` deals hole cards in seat order; its docstring says otherwise.
* `round_robin` gives two entrants of one name one row. A sit and go with one player
  pays 65%.
* `icm.py` promises "Exact ICM via recursive inclusion-exclusion (<=8 players)" (line 8)
  and equities that sum to the payouts (line 50). The places after the fifth are
  approximated at these sizes too (line 144): six players of 2, 1, 1, 1, 1 and 1 chips
  with prizes from 6 to 1 get 20 2/7 of the 21. Nor do the equities sum up when a stack
  is zero (line 158), which `icm_pressure` asks for. `IcmIsHarville` is for players with
  chips and for the first five places. Beyond eight players equal stacks get different
  equities. The chip leader's branch of `adjust_strategy_for_icm` needs a
  pressure below one, which only a winner-take-all prize gives.
* The translation of bet sizes called pseudo-harmonic is linear.
* `support_enumeration_2p` is called "Exact Nash" (`qp_nash.py:223`). It tries even
  mixtures only, each against one action that answers it best, so that its answer to
  rock, paper and scissors is exploitable; `GamesBounded` asks for an equilibrium in
  games with a saddle point.
* `solve_nash_support_enum` says that it enumerates the supports of up to eight policies
  (`psro.py:104`); from three on it is fictitious play, and `PopulationSound` asks of the
  mixture only that it never answers with what is worse against everyone.
* The cap of a stake, "Never bet more than 25% of bankroll" (`kelly.py:95`), comes before
  the least bet, which is made of a smaller bankroll too; `NeverRuined` excepts it.
* A maniac's `value_bet` is weighted 1.5 and its `call` 1.6. `_redistribute` gives
  what it takes from one side to bet, raise and all_in even where they are not
  legal, when no action of the gaining side is.
* `safe_subgame` and the trembling-hand solver update the opponent's regrets with
  the hero's values, and all leaves of a gadget's chain are worth 0, so that the
  refined strategies stay uniform whatever the trunk says, although the module
  promises them "never worse than the blueprint" (`safe_subgame.py:6`, and lines 72 and
  167): with a trunk worth 2 the subgame is worth 0. `SubgameFromTrunk` says nothing of
  how good they are.

*Training*

* All clones are `None`, so only the information sets at the root are touched and
  their strategies stay uniform; the values of the abstraction solver are all zero.
* The traverser alternates as `i % 2` with the button, who acts first, so that the
  other position is never trained (`gpu_cfr` draws the button at random).
* `_prune` of CASPER scores a timestamp of 0 as no timestamp. `compact_cfr`: a missing
  action reads as the offset of its row, a discount after a load reaches only the
  buffers, a load forgets the DCFR parameters, a flush never frees buffers.
* `cross_validate` says "Stratified" and is not, and reports the accuracy on the rows
  it trained on.

*Tags, profiles, coach, release*

* The coach reads `positive_edge_continue_rate` (`coach_service/service.py:32`), which the
  analytics never compute: every session is told that it continues "marginal spots with
  insufficient edge too often". What follows from it in `Leaks` reaches no property.
* A fold on the river is tagged `showdown_reached`; `priced_continue_positive_edge` is
  also given to folds; the board and pair tags never match.
* The pre-flop filter of `profile.py` never filters; `continue_ev_proxy_sum` is computed
  and never reported; rows made of traces are bucketized with SPR 0 and button 0.
* `vpip` and `pfr` of a position are documented as percentages of hands
  (`positional_profile.py:59`, `:64`) and count actions: who limps and calls a raise in
  one hand has a VPIP of 200%. `ProfilesAgree` bounds only the frequencies that are taken
  over their opportunities.
* The classifier's VPIP is per action and its check-raise frequency can exceed 1;
  `pre_flop` and `preflop` are both used; a losing streak grows on a bad beat that was
  won; a query of `MetaGameTracker` changes what the next one answers: asked twice of
  the same snapshots (`meta_game.py:123`) it says adapting where it first said
  `counter_adapting`, and `CountersAreNews` asks only that both or neither say static.
* A calm opponent scores 0.27 and not 0.0 (`tilt_detector.py:274` says "0.0
  (calm)"), which is above the 0.25 of NORMAL (lines 322 and 351): after two hands
  nobody is normal. `TiltHasCause` asks for a cause of what is more than mild.
* The indicator of folds to a 3-bet equals that of VPIP when nobody checks before
  the flop; `OpponentTracker` never updates the 3-bet and c-bet fields of
  `PlayerStats`; the documentation of SAD names `3bet_frequency`, its key is
  `three_bet_frequency`.
* The confidence of the particle filter is 0 right after a resampling, that of the
  relational tree can fall with an observation, and its `compute_beliefs` is always
  uniform.
* `latest_evaluation` of the governance service is the report whose name sorts last.
  Split files are written after the manifest that lists them, and no file of the
  release services is written atomically.
* The solver's API client caches the answer to a failed request.

## 6. Plan

Next, in this order: the solver's client with its retries and cache; the regression
suite and the spot packs over the engine.

## 7. Not modelled

* *Native code and networks.* The evaluators' lookup tables, the DMC, PPO and deep CFR
  networks, gradient boosting: floating-point numerics over data that is not in
  the repository.
* *Estimates.* Monte Carlo equity, AIVAT, distances between ranges: their answers are
  real numbers without an exact reference to compare with.
* *Walks of the CFR trainers.* They end where `_clone_and_act` returns `None` (finding
  `clones`); what they would do beyond it is code that never runs.
* *Prompts and answers of the LLM agent.* Text.
* *Read-only services.* Exports, release notes, the exploratory scripts and notebooks
  read tables and files and print them.
* *Authentication and audit.* A check, or one INSERT.
* *Configuration, logging, metrics, tracing.* Wiring and output.

Each is listed with its reason under `components` in `PROJECT.json`.
