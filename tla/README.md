# Verification of the trading agent

A TLA+ development of the paper-trading agent in `src/`: modules of its control
logic from the exchange's bars to the rows of its database, TLC instances that
check them, and proofs, checked by TLAPS, of the properties the rest of the
system relies on.

The agent polls an exchange once a minute for hourly bars of three symbols
(BTCUSDT, ETHUSDT, BNBUSDT). A new bar is turned into a feature vector and
published on an in-process event bus; a dozen groups react to it and to each
other, and at the end of the walk a position may have been opened or closed in
the account. One thread of asyncio runs everything, under a console server that
starts and stops it; a backtest engine can drive the same groups from a file.

All paths below are relative to `src/src/`.

## 1. The system

### Components

| component | state | operations | what makes it right |
| --- | --- | --- | --- |
| Account `core/state.py` | equity, available margin, open positions, daily and weekly P&L with cached percentages, high-water mark, drawdown, outcome window | open_position, close_position, reset_daily_pnl, reset_weekly_pnl, update_* | no amount without its percentage, no symbol twice, losses bounded |
| Risk gate `groups/risk_leverage/group.py` | none of its own | on a proposal: rules 0–9, then approve or reject | entries only inside the limits, measured on amounts |
| Sizing `groups/risk_leverage/group.py`, `risk/sizing.py` | none | leverage ladder, stop placement, size | margin ≤ 30 % and loss at stop ≤ 10 % of equity |
| Exit monitor `groups/exit/group.py` | stop, trail, partial exits, bars held of each position | on a bar: partials, trail, breakeven, the four exits | result within −1R..+3R, each partial once, closed in time |
| Panel, policy, final decision `traders/panel.py`, `mdp/*.py`, `decision/final_group.py` | none between proposals | 20 votes, rules R0–R5, six rails, fallback | the fallback is no looser, entries have a size, more approval never holds |
| Evaluators, packet `traders/evaluators.py`, `runtime/setup_packet_builder.py` | none | twenty scores of a packet | a failing seat never enters, better input never costs an approval |
| Event bus and groups `core/events.py`, `agents/base/group.py`, `runtime/runner.py` | subscriptions | publish, handle_event | order of callbacks, one failing handler costs only its own effect |
| Entry group `groups/entry/group.py` | pending bundles per symbol, symbols under evaluation | collect a bundle, evaluate, propose | one proposal per symbol and bar, bundles of the right bars |
| Market data `groups/market_data/group.py`, `data/bybit.py`, runner loop | windows of 250 bars, newest timestamp, feature cache | startup_load, fetch_and_process | each bar once and in order, no unexplained hole, everything processed |
| Indicators, candlesticks `groups/indicators`, `groups/candlestick` | histories, squeeze flag, previous MACD, cached structure | detect, classify the regime, publish a bundle | no side is favoured |
| Chart patterns `groups/chart_pattern` | a machine per hypothesis and symbol, cooldowns, two caches | advance every machine, signal, block, expire | signals are breakouts, a failed pattern rests |
| Market structure `groups/technical_structure` | the last sixty bars, levels of support and resistance | find a pivot, cluster, merge, prune, publish | a confirmed pivot leaves a level near it |
| Historian, journal, diagnostics `groups/historian`, `groups/performance_journal`, `journal/db.py`, `analysis/exit_diagnosis.py` | statistics in memory, tables, a file | record a proposal and a close | every trade recorded once, a row that says "open" is explained |
| Learning, transition log `learning/*`, `mdp/transition_logger.py`, `backtest/learning_db.py` | traces, attributions, running records, advice | log decisions and outcomes, link them, report | counts are those of closed trades, no advice under the minimum |
| Console `console/*` | one runner, its polling task, a bridge with a ring and client queues, replay and test jobs | start, stop, shut down, attach, broadcast, submit | what it calls running runs, clients see no gap, errors stay errors |
| Backtest and optimisation `backtest/*`, `optimization/*` | bar cursor, folds, parameters | replay, reset P&L, walk forward | resets and learning rows here; folds and metrics are not modelled |

`PROJECT.json` lists every component with its files and status.

### How they interact

A poll that finds a bar publishes `BarCloseEvent` and `FeatureReadyEvent`.
`EventBus.publish` awaits its subscribers one by one in the order they
subscribed, and a handler that publishes suspends until its own subscribers are
through. So a bar is a depth-first walk:

    FeatureReady  -> chart_pattern, indicators, candlestick, technical_structure,
                     exit, performance_journal
    GroupSignal   -> candlestick, entry, performance_journal
    CandidateTrade -> panel_decision, risk_leverage, performance_journal
    PanelApproved -> risk_leverage
    RiskDecision / PositionOpen / PositionClose -> journal and recorders

The groups share the `SystemState`: the account, one `regime` record for all
symbols, and caches that later groups read directly rather than from an event.
An exception of a handler is logged and swallowed by `handle_event`. The
console's bridge is one more subscriber of the same bus, and its start and stop
requests run between the awaits of the polling loop.

### Where it is hard

* *Order.* Nothing but the order of setup in `runtime/runner.py` decides whether
  an exit sees the position opened on its own bar and which bar's bundles meet
  in a proposal.
* *Failure.* A handler that raises leaves inputs of the bar before in place; a
  failed or partial answer of the exchange leaves holes; a statement that fails
  is logged and leaves two tables that disagree.
* *Cached values.* Percentages, regime, structure and feature caches are read
  long after they were written.
* *Long sequences.* Nine rules, resets by day and week, a halt measured from a
  peak that only winners move: the bad states are many trades away. The pattern
  machines need dozens of bars.
* *Thresholds in copies.* Panel, policy, rails and fallback each have their own,
  and so have indicators, packet and evaluators.
* *Concurrency proper* is found in the console, whose requests interleave with
  the runner's awaits, with the clients' senders and with background jobs.
* *Crashes.* Positions, streaks and waiting diagnoses live in memory; the tables
  outlive them.

`PROJECT.json` "hazards" lists these at the lines where they bite, with the
properties that would catch them.

## 2. The modules

| composition | of | what it is | theorems in |
| --- | --- | --- | --- |
| `RiskGate` | | account and gate | `RiskGateProofs` |
| `RiskSizing` | | stop, leverage, size of one order | `OrderProofs` |
| `ExitLadder` | | one position, bar by bar, until its exit | `TradeProofs` |
| `PositionLifecycle` | | the abstract promise of a position, implemented by `ExitLadder` | |
| `DecisionPolicy` | | votes to decision | `OrderProofs` |
| `BarCascade` | | one bar through the bus | `BarCascadeProofs` |
| `MarketFeed` | | polling loop and bar windows | `MarketFeedProofs` |
| `ChartBars` | `ChartPattern`, `StructureLevels` | the two groups with a memory of bars, on the same market | `ChartBarsProofs` |
| `SignalChain` | `Features`, `Indicators`, `Candlesticks`, `EntryFilter`, `SetupPacket`, `TraderVotes` | what a bar comes to: signals, proposal, packet, votes | `TradeProofs` |
| `Console` | `RunnerManager`, `EventStream`, `ConsoleJobs` | requests, polling loops, clients and jobs of one server | `ConsoleProofs` |
| `Records` | `JournalTables`, `LearningStats`, `Historian`, `ExitDiagnostics` | what a proposal and a trade leave behind | `RecordsProofs` |

`MC*` modules give the constants for TLC. The modules lean on each other by
contract: `RiskGate` takes from `ExitLadder` that a position closes with a P&L
between −1R and +3R, and from `RiskSizing` that an order's margin and risk are
at most 30 % and 10 % of equity; both contracts are proved there
(`ResultWithinR`, `MarginIsBounded`, `LossIsBounded`). `BarCascade` says when
each group runs and on the bar of which input, `SignalChain` and `ChartBars` what
the groups make of it; `DecisionPolicy` takes the counts of votes that
`SignalChain` produces. `MarketFeed` says which bars there are, `Console` when
the loop that fetches them runs, and `Records` what is written about them.

In each module, operators marked *Slip* are mutated forms of the operator after
them: what a plausible mistake in that code would make of it. They are used by no
specification.

### RiskGate

`equity`, `available`, `openPositions`, `hwm`, `drawdown`, `losses`, `outcomes`
and the P&L variables are the fields of `PortfolioState`; `openPositions` is
keyed by the random position id, as in the code, so that "one per symbol" is a
claim and not a shape. Percentages are kept as fractions (`Frac`), for the code
computes them when it writes and reads them later. `Approve` is
`_evaluate_proposal` with every rule passing (rules 0–7 and 9 in `Passes`, rule 8
in `Orders`) and `_approve`; `Reject` the other branch; `Exit` is
`state.close_position`; `NewDay` is the engine's resets, or, with
`ResetsPnl = FALSE`, the live runner's absence of them. The nine rules read only
the account, so sizing and exit logic are nondeterministic within their bounds.
Each handler is one action: between the gate's rules and `open_position` only
the journal and the approval's other listeners run, and none writes the account.
`BarCascade` has the same steps one callback at a time.

### RiskSizing

`Order` is `_compute_order` and `ATRStopPlacer.place` over integers: prices as
they are, money and leverage in thousandths of equity. The unit is
chosen so that every product of the ladder is exact; divisions by a price or a
stop distance round down, where the code carries its `Decimal` precision.

### ExitLadder and PositionLifecycle

Prices are ticks from the entry in the position's favour, so a SHORT is the
mirror image of a LONG, as its branches in the code are. `EvaluateBar` is
`_evaluate_position`: partials, trail and breakeven write the position, then the
checks decide in the code's order, on the position so updated. `PositionLifecycle`
says what that must amount to: a bracket around the final result that bars may
only narrow, and a deadline.

### DecisionPolicy

A case is the input of a decision: counts of votes, scores, R:R, regime flags,
account. `Policy`, `RailsTriggered` and `LegacyDecide` are the three places that
hold the thresholds. Every result the panel could give is a case, fewer than
twenty votes (an evaluator that raised) included.

### BarCascade

`stack` holds the `publish` calls in progress, innermost first, each with the
subscribers it has still to reach; an action delivers to the next one. What the
groups compute is replaced by the bar it was computed from, which is what the
properties are about. `HandlerRaises`, `IndicatorsRaisesAfterRegime` and
`ExitRaisesAfterClose` are the exceptions, at the points where state may already
be changed. Filters that decline a trade are nondeterministic.

### MarketFeed

Klines are numbered by the exchange. `StartupLoads`, `Polls` and `RequestFails`
are the outcomes of one request, in the order the two loops make them: the
command line's loads windows first, the console's polls at once; both are
initial states. Between requests `HourPasses` moves the market on, any number of
times, which makes an outage.

### ChartBars: ChartPattern and StructureLevels

`PatternBar` is the chart pattern group's handler: every machine advances, those
that confirm or expire are reset, RJ-009 blocks signals below an ADX of 20, and a
failure sets the cooldown. All nine implemented detectors are there with their
windows and thresholds (`DoubleBottomStart`, `DiamondForm`, `ChannelStart`, ...);
four are stubs that raise `NotImplementedError`, and the group skips them. A
machine out of formation keeps a window of its own; since all windows end with
the latest bar, the model keeps one history and the length of each. Levels and
moves are in twentieths, in which the code's quarters and averages of five are exact.
`StructureBar` is the structure group's: a candidate pivot two bars back, merged
into a level within half an ATR or added, levels broken by the close removed, the
strongest kept; then trend and bundle. The ATR is constant and prices are whole
numbers, so a merge may round by one. The market (`MarketMoves`) is the environment: it
follows a path of legs and rests at its end, until the windows repeat.

### SignalChain: Features to TraderVotes

`BarClosed` is one `FeatureReadyEvent` of one symbol: `IndicatorsBar` (seven
detectors, the squeeze flag, the previous MACD, the regime, the majority of the
bundle), `Candles` (every pattern predicate of the candlestick group over the
last three bars, in the order in which it collects them), `Proposal` (the entry
group's filters in their order, its composite score and its choice), `Packet`
(the builder's own classification of the same features) and `Tally` (twenty
evaluators, each an operator that gives the code's score, in tenths). Moving
averages, RSI, ATR, ADX and bands are inputs: they are numerical code, and what
the detectors read of them is an order or a threshold. Confidence, reasons and
concerns do not reach the decision and are left out. `failing` are the
evaluators that raise, which the panel skips.

### Console: RunnerManager, EventStream, ConsoleJobs

Requests, loops, senders and jobs are tasks of one asyncio loop, and an action is
what a task does between two suspensions. Setting a runner up never suspends, so
`Start` is one action with the bridge's `Attach`; `stop()` is split at its two
awaits (`StopBegins`, `StopJoined`, `StopClosed`), the polling loop at its sleep
and its request (`PollBegins`, `PollEnds`, `Cancelled`, `LoopExits`), and a task
cancelled before its first step never reaches its `finally` (`NeverBegins`).
A loop polls whichever runner the manager holds when it wakes, as in the code.
`EventStream` has the ring, the queue of each client, its removal when it is
full, and the endpoint that sends history, then queue. `ConsoleJobs` has replays and test
runs with the four places that write their status. Routes that only read are left out.

### Records: JournalTables, LearningStats, Historian, ExitDiagnostics

One bar is one uninterrupted run of handlers, but each statement is its own
commit and every failure is caught and logged. So a bar is a queue of jobs
(`work`), in the order in which the bus calls the groups: a job may fail (`Fails`), and
a `Crash` takes what is left of the queue and the memory. The tables are sets
of rows with the columns later statements read; the number of a proposal stands for every id
made for it. `fate` is what really became of each proposal, and `lost` the jobs
that failed: the properties compare the tables with them. Rows of an append-only
table or file are counted by their index. `Start` wires the learning layer in the order of
`runner.py:256-342`: the extension a back-test takes its transition log from, the
panel's trace logger, the journal's attributor, the recorder of the diagnostics. An
exception keeps what was wired before it (`Stages`; the recorder has a `try` of its own,
but it comes last), the runner trades on with that, and `fate` keeps the stage a
proposal met. A row of the diagnostics file may fail to be written, at its last snapshot
(`OnBarJob`) or at the teardown (`Stop`): the error is logged and the record forgotten
(`WritesFail`). Only a back-test logs transitions and verdicts, as in the code.

## 3. The runs

Bounds are named in the modules (`MaxTrades`, `MaxEquity`, `Ticks`, `MaxBars`,
`MaxFailures`, `MaxHours`, `MaxMishaps`, `MaxNat`, `Cases`, `Proposals`, `Paths`,
`MaxRunners`, `MaxEvents`, `MaxRequests`, `MaxProposals`, `MaxSessions`,
`MaxSetbacks`).

| run | question and bounds | properties |
| --- | --- | --- |
| `risk_trade` | Do the account and the gate keep their books over any sequence of entries, exits, days and weeks? Three eligible symbols and one stranger, stakes at their maximum (30 % margin, 10 % risk), four trades: as many as it takes to breach each limit, hold three positions and reopen a symbol | `OnePositionPerSymbol`, `PercentagesCurrent`, `LossBudget`, `EntriesInsideLimits` |
| `risk_halt` | Are halts lifted, and which are not? One symbol and ten trades, long enough to lose 40 % | `HaltWhenFlatIsFinal`, `LossLimitLifts` |
| `exit_ladder` | Every sequence of bars on both sides of every threshold; gaps through stop and target and a volatility shock; the deadline after six bars, breakeven after three, so both sides of each come up | `PnlWithinR`, `ReachedTwoRNeverLoses`, `EventuallyCloses`, `ImplementsLifecycle` |
| `decision_policy` | All combinations of values just below and at each threshold | `FallbackIsNoLooser`, `PolicyNeedsThePanel`, `MoreApprovalNeverHolds` |
| `risk_sizing` | Both sides of every step of the ladder, stops near and away from a round number, ATR from unknown to 1000 | `MarginWithinThirty`, `LossAtStopWithinRisk` |
| `bar_cascade` | Two symbols, three bars each, two handlers raising anywhere: enough to leave a bundle behind, meet it on the next bar and see what the third makes of it | `BundlesAccountedFor`, `DecidedUnderOwnRegime`, `OpenedThroughPanel`, `ClosesRecorded`, `NothingTwiceInBar` |
| `market_feed` | Two symbols, six hours, answers of two bars and windows of three: an outage longer than an answer, a full window and a warm-up not reached all happen; two mishaps | `EachBarOnce`, `HolesExplained`, `EveryHourProcessed` |
| `chart_bars` | All paths of three legs of ten bars out of five, and composed paths that lead every detector to its start, its breakout, its expiry and its block, and the levels through merges, breaks and a full side; each until nothing changes any more, up to 266 bars | `FailedPatternRests`, `PendingIsUnbroken`, `PivotRemembered`, `SignalsAreBreakouts` |
| `console` | Five requests in every order and at every point (starts of both kinds, two stops and the shutdown, one client, one job) with the loops of up to three runners and three events; a ring of two and a queue of one, so both overflow | `RunningIsTrue`, `LeaksAreExplained`, `StreamHasNoGap`, `ErrorsStayErrors`, `RequestsEnd` |
| `signal_chain` | Three bars: 49 beginnings out of seven leading bars, 360 endings, five contexts; every indicator and candlestick detector but those with no counterpart fires on both sides, and proposals are filtered, scored and judged | `MirrorSignals`, `FailureNeverEnters`, `VolumeNeverCosts`, `OneWeaknessAtMost` |
| `records` | Two proposals over four bars and two sessions, paper or back-test, with two setbacks (a failed statement, a failed write of the diagnostics file, a wiring that stops at any stage, or a crash) at any point; two seats, one family, a win and a loss within 0.05 R (the theorems are for any result) | `RowsTellWhy`, `TwoVerdictsPerTrade`, `CountersFollowTrades`, `DiagnosedOnce` |
| `records_streak` | `groups/historian/group.py:61`, "running count reset on any win": after a winning close the streak is one longer | `WinsResetStreak`, violated |

Symmetry (of the eligible symbols and of the position ids) is used in
`RiskGateTrade.cfg`, which has no liveness property. `StructureBars` is 2 for the code's 5,
`FetchLimit`/`WindowSize`/`WarmUp` are 2/3/2 for 200/250/200, `Window` 2 for 20,
`DaysPerWeek` 2 for 7, `MaxLevels` 2 for 10, `MacdWarmUp` 2 for 35,
`DivergenceBack` 3 for 4, ring, queue and history 2/1/1 for 1000/500/100,
`MinSamples` 2 for 30, `HypMinTrades` 2 for 10 and `LastSnapshot` 2 for 96;
nothing in the code depends on the numbers but on their order, which is kept.

Deadlock is checked in every run but three: what may stop (a closed position, an
account that no longer trades, a server that is down) has an explicit idle
step. `signal_chain`, `records` and `records_streak` end at their bounds (three
bars; four bars and two sessions) and say `CHECK_DEADLOCK FALSE`.

## 4. What the less obvious results say

* `LossBudget`. The halt at 40 % drawdown does not bound losses at 40 %: it
  only stops entries. Each eligible symbol without a position accounts for one
  loss of 10 % of the peak that may already have been taken, so equity stays
  above `(6 - free)/10` of the peak. With the runner's three symbols that is
  30 %, and with six symbols nothing is left: hence `Solvent` for at most five.
* `HaltWhenFlatIsFinal`. Once flat and halted the account never trades again:
  the peak moves only on a winner. No operation lifts the halt.
* `ReachedTwoRNeverLoses` depends on partials being booked before the checks of
  the same bar, and on what they book: 30 % at +1R and 20 % at +2R against half
  the position at −1R: 0.3R + 0.4R locked against 0.5R at most lost.
* `FallbackIsNoLooser` and `PolicyNeedsThePanel` compare the panel's thresholds
  with the policy's, which are not the same list: what the fallback enters by
  panel and rails passes one of R1 to R3, and what R1 to R3 enter the panel
  recommends. Portfolio protection (R0) alone enters without the panel.
* `BundlesAccountedFor`. With no failure a proposal pairs this bar's indicators
  with the structure of the bar before. After an exception in the indicators
  group the candlestick bundle waits in the dictionary, and the pairing is one
  bar off from then on; nothing resynchronises it. The property bounds that by
  the number of exceptions.
* `ClosesRecorded` counts what an exception costs: at most one record.
* `HolesExplained` and `EveryHourProcessed`. A poll after an outage catches up
  on what the answer still holds; a hole is always an outage longer than the
  answer or a row that did not parse.
* `FailedPatternRests` holds although nothing consults the cooldown before a
  machine starts: a reset empties the machine's window, and every detector needs
  ten bars before it may start, twice the cooldown. A detector that started after
  fewer bars would break the rule, and no test of the cooldown would show it.
* `PivotRemembered`. The bar that confirms a pivot also merges, prunes and cuts
  the levels; the pivot survives it within half the tolerance unless the side is
  full of stronger levels.
* `RunningIsTrue` is about moments without a stop under way. During one it does
  not hold: a start accepted between the loop's `finally`, which clears
  `_running`, and the resumption of `stop()` is torn down or forgotten by that
  stop. `LeaksAreExplained` says that this gap and failed starts are the only
  ways to lose a runner.
* `StreamHasNoGap` allows a client to fall silent once its queue was full, since
  the bridge then drops it; what it has received until then is without a gap.
* `OneWeaknessAtMost`. Candidates carry no stop and no target, so the packet puts
  the stop at two ATR and the target at twice that: the reward is always 2.0
  times the risk. Two seats then always approve and two never do, so fifteen of
  twenty are thirteen of sixteen, and no second weakness fits in. The average of
  5.8 never decides.
* `MirrorSignals` is about seventeen pairs of detectors written twice. It holds
  but for an RSI that has not moved, which counts as falling; for four candlestick
  patterns that exist on one side only, one of which, the long lower shadow, also
  counts as a find, after which the strong engulfing does not stand in
  (`candlestick/group.py:171`), so that it favours a side; and for continuations
  where a percentage of a price separates what it does not separate in the mirror
  (`ByPercentage`). The second exception came out of the proof: no bar of the run
  had such a shadow. It has one now.
* `RowsTellWhy` says of every reward that is missing why it is. A reduced-risk entry
  does not miss it: `log_transition` tests `ENTER_ACTIONS`, which has three of the four
  actions that enter (`mdp/actions.py:36-40`), so that its row says 0.0 from the start,
  like a refusal's, although it waits for its close like any entry.
* `TwoVerdictsPerTrade`. The panel and the journal each write an attribution of a
  closed trade, by the sign of the result and by a band of 0.05 R, so the
  report's statistics reach their minimum of thirty after fifteen trades. Where the
  wiring stopped between the two, the panel's is the only one.
* `CountersFollowTrades` names what a failed read does: the record starts again
  at zero, and is written back. It asks for the wins of a trader's approvals and of a
  family besides their totals, unless something they count was lost.
* `DiagnosedOnce` has three exceptions: a crash, a failed write, whose record is
  forgotten all the same, and a session whose recorder was not wired, although its
  trades are learned from.

## 5. Fairness

* `RiskGate!FairSpec` is weak fairness of `DayPasses`: the exchange keeps
  delivering bars, and a day ends. Trades owe nothing.
* `ExitLadder` has weak fairness of `Next`: while a position is open the feed
  goes on calling the monitor. That the feed does so is
  `MarketFeed!EveryHourProcessed`.
* `MarketFeed` has weak fairness of `LoopStep`, the loop's own steps: it runs
  until stopped, requests time out after ten seconds, and exceptions are caught
  inside. The exchange (`HourPasses`) has none.
* `Console` has weak fairness of every task that can run: loops, polls, stops and
  jobs, each for itself, which is what asyncio's queue of ready tasks gives.
  Requests, clients and bars owe nothing.
* The other modules state safety only.

## 6. What is proved

Every theorem is for all values of the constants under the modules' `ASSUME`s:
finite sets of symbols with the eligible among them, positive initial equity,
margins and risks inside 0..30 and 0..10 percent (`RiskGate`); positive R and
integer prices (`ExitLadder`); counts of votes of at most twenty together
(`DecisionPolicy`); well-typed proposals (`RiskSizing`); natural numbers for the
bounds and at least one bar for the structure (`BarCascade`); a positive answer
and a warm-up no longer than the window (`MarketFeed`); paths of legs with
integer slopes, a positive ATR and room for a level (`ChartBars`); positive
sizes, a history no longer than the ring, and the shutdown among the stops
(`Console`); a finite panel, no seat called `None`, and integer results
(`Records`); feature vectors of whole numbers with a positive close, structural
bundles never rated better than moderate, and a `None` that is neither a number nor
a bundle (`SignalChain`). All but the
bounds hold in the code by construction; the bounds are arbitrary.

In each module one inductive invariant carries the theorems; what a run checks
follows from it. Why the property alone would not do:

* **RiskGateProofs**: `TypeCorrect`, `SymbolsHeldOnce`, `PeakIsPeak`,
  `PercentagesNeverStale`, `LossesAreBudgeted`, `NeverWipedOut`,
  `EntriesRespectLimits`, `FlatHaltIsFinal`. The invariant is `Ledger`: types,
  the peak, current percentages, one position per symbol, every symbol held
  eligible, every open risk at most a tenth of the peak, and the budget. The budget alone is not inductive: an entry is safe because the
  percentages the gate reads are current and a symbol moves from "free" to
  "held", an exit because the risk recorded at entry was bounded by the equity
  then, and so by the peak.
* **TradeProofs**, of `ExitLadder`: `ResultWithinR`, `WinnersStayWinners`,
  `PartialsBookedOnce`, and the refinement `LadderImplementsLifecycle`. The
  invariant is `Ladder`: the stop is at −R or at the entry; what is locked and
  what remains follow from the recorded levels; an open position's trail is below
  the target, so that whichever exit fires books a price inside the bracket; one
  that has seen +2R has its second partial or its stop at the entry; a closed one
  has its result within −1R..+3R. The results alone are not inductive: they say
  nothing of a position still open.
* **TradeProofs**, of `SignalChain`: `PacketsAreBuilt`, `FailuresOpenNoTrade`,
  `VolumeOnlyHelps`, `WeaknessesAddUp`, for any bars and caches, where the run has
  three bars. The invariant, `Built`, says that a packet is one the builder makes,
  and `Sound`: as a candidate brings no stop and no target, the reward is twice the
  risk or there is neither; the classes of volume and volatility follow from the
  numbers; the regime allows the direction. The properties say nothing of packets
  that were not judged, and of arbitrary packets they are false. One lemma per seat
  (`MomentumSeat`, ...) gives the fewest tenths the seat can score, the conditions
  under which it approves and what it then scores; `ApprovalsAdd` counts
  the approvals seat by seat. From these, fifteen approvals are worth an average of
  5.8 on any sound packet (`FloorNeverBinds`): the floor decides nothing, so seats
  that fail can only lose approvals. `Contrary` and `DrawdownRisk` never approve, and
  each weakness costs two other seats, each its own (`WeakSeats`): two weaknesses
  leave fourteen. Sixteen seats do not read the volume (`DeafToVolume`), and of the
  other four each is shown to be monotone in it.
  `NoSideIsFavoured` is `MirrorSignals` for any bars, where the run has prices near
  the axis. Invariant is only that the memory is a sequence of bars
  (`BarsAreRemembered`); the rest is about the detectors. `Overturned` says what a
  history and its mirror image have in common, field by field; for each indicator
  (`EmaCrossoverTurns`, ...) and each pattern (`KickingTurns`, ...) a lemma says that
  it raises the counterpart on the one of what it raises on the other; and
  `Reflected` distributes over unions. `Found` spells the list of patterns out as
  such a union, and `Answers` leaves the one-sided ones aside. The strong engulfing
  needs an argument of its own (`StandInsAnswer`): it reads whether anything was
  found so far, which both sides agree on unless the find is a long lower shadow.
* **OrderProofs**, of `DecisionPolicy` and `RiskSizing` together:
  `FallbackNeverLooser`, `PolicyFollowsPanel`, `ApprovalNeverHolds`, for every
  case and not only those at the thresholds, from `Outcome`, which ties a decision
  to its case; `MarginIsBounded` and `LossIsBounded`, from `Computed` (an order is
  the order of its proposal) and lemmas on rounded quotients; and `EntriesAreSized`,
  which joins the two: every entry's multiplier is one the sizing is defined for.
* **BarCascadeProofs**: `NoPositionWithoutPanel` and `CascadeIsShallow` from
  `Walk`, the shape of the stack: the event in the n-th frame from the bottom is
  one of level n and stamped with this bar, hence five publishes at most, and
  whatever reaches the risk group carries this bar's panel. `ProposalsAreAccountedFor`,
  `DecisionsUnderOwnRegime`, `EveryCloseIsRecorded` and the action property
  `BarsActOnce` from `Books`, which adds what the groups hold. `Due` are the groups
  of the walk whose turn is to come, as the entry group sees them (a signal on its
  way to it counts): once a turn has `Passed`, its group has served this bar, or a
  handler has raised. `SoundBundles` says so of the bundles that wait (never
  indicators and candlesticks both), `SoundDay` of the proposal and the patterns,
  `SoundRegime` of the one regime record, `SoundTrade` of the position, which
  opens before the exits' turn and closes in it. For the closes, `Owed` counts the
  recorders that the publish under way has still to reach. Between two bars none of
  this shows, so no property of a resting bus is inductive.
* **MarketFeedProofs**: `EachBarIsPublishedOnce`, `HolesAreExplained`. The
  invariant, for each symbol: the window rises and ends in the newest bar
  (`SoundWindow`); what was announced and processed rises and is no newer, and the
  features kept are of the last bar processed (`SoundOutput`); and the holes there
  are, with the hours that the exchange no longer returns and that the next answer
  will turn into holes, are paid for by rows lost and mishaps (`HolesPaid`). The
  holes alone are not inductive: an outage makes them hours before they are seen.
* **ConsoleProofs**: `ManagerTellsTheTruth`, `OnlyOverlapsLeak`, `StreamIsGapFree`,
  `FailedJobsShowIt`. For the manager (`ManagerInv`): a loop that has been
  cancelled is over or being joined by a stop, so that between stops no loop dies
  under a runner; and a runner is paid for before it is lost, by the failed start
  that made it (`FailedStartIsCounted`) or by the start that came while a stop was
  closing another (`ClosingIsCounted`). For the stream (`StreamInv`): the ring is a
  run of events up to the newest, and what a client was sent, is being sent and has
  queued, with what its filter held back, is an interval (`GapFree`), which ends in
  the newest event while the client is registered. For the jobs (`SoundJob`): an
  open harness belongs to a running job.
* **ChartBarsProofs**: `PatternInvariant`, `FailuresRest`, `NoBreakoutMissed`,
  `SignalsBreakOut`, for every set of paths, so for windows that never fill and for
  formations of any length. What a machine computes of its window is left open: a
  record is typed by its fields (`Shaped`), and `AdvanceOf` says which moves a bar
  allows (`Moves`), whatever the thresholds. The invariant, `IInv`, says of every
  machine that its formation lies within the history, that a double bottom's
  neckline is above the closes since, that a waiting machine has seen no breakout
  (`Remembered`), and that bars seen and cooldown together are at most five
  (`Rests`). The last is why RJ-007 holds though nothing asks the cooldown: a
  start needs ten bars seen. `FailedPatternRests` alone is not inductive, for it
  does not count the bars. `PivotsRemembered`, from `StructureInv`, follows a
  confirmed pivot through the handler: merged or added, it is within half the
  tolerance of a level; a level that goes when levels are pruned leaves one as near
  with as much strength (`Prune`); what the cut takes (`Strongest`) goes only for a
  full side.
* **RecordsProofs**: `RecordsInvariant`, `RowsAreExplained`, `EveryCloseIsDiagnosed`,
  for any panel, votes and results, and any number of proposals, sessions wired to any
  stage, failed statements, failed writes and crashes. Rows and memory are in step only between two bars, so the
  invariant says of every moment in a bar what the jobs still waiting will change.
  `SoundQueue`: the queue is in the order of the bar (`Rank`), only the rows and
  updates made once per trader repeat, and each job speaks of a proposal it may
  speak of (a close's of a closed one, an entry's of one that nothing has become
  of), in a session that wired what the job needs (`Needs`). `SoundTrades`: a row says "open" exactly while its position is open or its
  update waits or was lost. `SoundTransitions`: a reward is what
  `RowsTellWhy` says unless its update waits (`RewardNow`), NULL or 0.0 by the action
  logged; a proposal whose row waits or was lost has none. `SoundPositions`: one per
  proposal, with its transition's id unless that was lost. `SoundDiagnoses`: a trade
  closed with the recorder wired is written or waits, unless its statement is still to
  come, its write failed or a crash took it. With an empty queue these
  are the properties; the counts of `RowsTellWhy` follow because rows, positions and
  orphans have each their own proposal (`KeyedSet`).
* **RecordsProofs**, of what the learning layer makes of closed trades:
  `RecordsReckoning`, `TradesAreAttributedTwice`, `RecordsFollowTrades`. Attributions
  and running records change job by job, and the counts of a resting system say
  nothing of the jobs that wait. The second invariant, `Reckoning`, holds together
  with the first and needs of its queue that a close's learning jobs are there only
  in a session that wired them, and a proposal's rows only while nothing has become of
  it. `SoundTrace`: the rows of a trade closed with the trace logger wired are linked to
  it, unless a job for it waits or was lost, and no row to another. `SoundVerdicts`: a
  trade has one attribution of a writer exactly if that writer was wired at its close
  (`WiredOf`) and its job neither waits nor was lost, with the outcome that writer reads off the result. `SoundCalibration` and
  `SoundFamilies`: a running record is at most the number of trades whose turn has
  come (`Reviewed`, `Filed`), and exactly that, with as many wins (`Won`, `Gains`), if
  nothing it is made of was lost (`Disturbed`). `SoundHistory` and `SoundAdvice` bound the historian's count and
  the samples of a recommendation by the trades closed. Most jobs are neutral to all
  six (`QuietReckons`, `JobReckons`); each of the others takes one trade from the
  queue and counts it (`CalibrationCounts`, `FamiliesCount`, `VerdictsAppend`) or is
  lost. That the report counts every trade once per writer wired follows from
  `WriterCounted`: the rows of a writer and its lost jobs are together as many as the
  trades closed with it.

`TypeCorrect`, `NeverWipedOut`, `PartialsBookedOnce`, `CascadeIsShallow`,
`EntriesAreSized`, `PatternInvariant`, `RecordsInvariant`, `RecordsReckoning` and
`PacketsAreBuilt` state what no run lists: each follows from the inductive invariant
that the other theorems of its module rest on, or is it.

Every invariant, action property and refinement that a run checks is also a
theorem. Only model-checked is liveness (`LossLimitLifts`, `EventuallyCloses`,
`EveryHourProcessed`, `RequestsEnd`), which is out of the prover's reach. What the
folds over windows (`SumOf`, `Top`) compute for every length would need induction
over data; no theorem depends on it.

## 7. What is left out, and what was seen

Not modelled: the numerical code of the averages and oscillators, prices and
times of rows and reports, HTTP and WebSocket plumbing, the news calendar (the
runner does not wire that group), the reward, which only the log reads, folds and
metrics of the optimisation, validation harnesses and scripts. The signals table,
which nothing reads back, is left out, and a failed commit counts as lost although
its statement stays in the open transaction and may be committed by the next.
`ChartBars`, `SignalChain` and `StructureLevels` have one symbol, for symbols do
not interact there. Times are bar numbers and days, and the rounding of `Decimal`
and of floats is left out.

Reading the code for the modules turned up statements that it does not keep.
These are observations; but for `records_streak` no run checks them.

Account, gate and exits:

* `core/state.py:21`, `:115`: available margin never takes the P&L in.
* `docs/architecture/runtime_model.md:149`: daily P&L "Resets at UTC 00:00"; only
  the backtest resets it, so live limits are lifetime limits.
* `risk_leverage/group.py:89`: "5 %" risk per trade; the leverage is raised to 10
  afterwards (`:454`), so the ceiling that holds is the 10 % one.
* `risk_leverage/group.py:307`: the 80 % margin rule is checked before the new
  position is added, so margins of 90–110 % of equity are reached.
* `risk_leverage/group.py:355`: rule 7 ("Block if pump signal detected") reads
  `volume_ratio` from the regime, which has none, and compares the default 1.0.
* `risk_leverage/group.py:367`: a macro modifier of 0.0 ("block") opens a
  position of size 0, which blocks its symbol until its exit.
* `risk_leverage/group.py:416`, `:188`: a further cut above 5 % drawdown; a
  multiplier is absorbed by the cap on the notional. `:482`: the ATR before the
  first regime is 1000 whatever the symbol.
* `risk/sizing.py:77`, `:94`: the shifted stop is not checked again; 500s are not
  looked at.
* `docs/architecture/runtime_model.md:159`: `risk_state.halted` is never set.
* `exit/group.py:339`: breakeven "does NOT force an exit", but the stop check of
  the same bar may; `:28`: after it the trail can no longer start, R being 0.
* `exit/group.py:528`: the recent trade count comes from a field that does not
  exist. `exit/group.py:112`: positions are checked on each bar close, but after
  an outage only the latest bar is published (`market_data/group.py:275`).
* The order's 72-bar maximum is not used; 120 is.

Decision and cascade:

* `decision/final_group.py:216`: rail 6 looks the symbol up on a record without
  one, so ETH and BNB are asked for no more in high volatility than in calm.
* `mdp/policy.py:130`, `:155`: the logged multiplier is 0.0 where the action's is
  not; `ENTER_SMALL` by R3 always fails rail 3; `mdp/actions.py:5`: a deferred
  trade is not looked at again; `core/events.py:66`: "both approve" against
  `REDUCE_RISK`; `traders/panel.py:69`: thresholds 12/5.5 in words, 15/5.8 in code.
* `groups/entry/group.py:138`: bundles are of one bar-close cycle; the structure
  bundle arrives after the clear and enters the next bar's proposal.
* `SetupProposal.stop_distance_pct` is a fraction in its doc and a percentage
  from its builder.
* `candlestick/group.py:9`, `:12`: "after technical structure", but before it on
  the same bar.
* `news_macro/group.py:258`: at exactly an event's time the modifier is 1.0.

Signals and evaluators:

* `Confluence` compares "bullish" and "bearish" with "long" and "short". The
  structure quality "strong" never occurs, the packet's distances to levels are
  always None, and the quality of an established downtrend is always "none".
* Trend continuation, divergence, candlestick and volume thresholds differ between
  docstring and code (ADX 20 against 25 or 15, "5 bars ago" against four, "> 2.0"
  against ≥); the volatility regime is cut at 1.4/0.7 by the indicators and at
  1.5/0.7 by the packet; `_validate_signals` keeps the majority, not the
  highest score; a tie goes long; `fv.btc_macro` does not exist.
* Chart patterns: `direction_bias` of the detectors (`base.py:28`) against a fixed
  set of hypotheses (`chart_pattern/group.py:209`): three detectors confirm
  upwards and signal short. `max_bars` of 100 and 80 is overridden by the
  inherited constructor's 60. Five detectors halve the measured move that the group halves
  again. `group.py:61`: the cooldown hides a failed pattern's name only.

Feed and console:

* `data/bybit.py:193`: the forming kline is marked closed, and not read again
  (`docs/phase_2_handoff_to_core_build.md:243`).
* `runtime/runner.py:301`: 4h bars from the "rolling history"; the window is
  loaded at startup and never extended, and the console's loop never calls
  `startup_load`, so its 4h alignment check passes everything.
* `console/runner_manager.py:79`, `:104`, `:148`: a start during a stop, or a
  failed setup, leaves a runner behind that nothing stops (the class says it
  "manages one optional" runner); an orphaned loop may poll a later runner; a
  shutdown stops only what is marked running.
* `console/server.py:456` and `event_bridge.py:148`: the bridge is detached
  before the stop, so events of the last bar are lost; a client with a full queue
  is dropped and hears only heartbeats. A replay "done" may hold errors of bars.

Records:

* `historian/group.py:99`: every trade counts as a loss there (`records_streak`).
* `learning/calibration.py` asks for thirty samples, of which each trade gives two.
* `journal_extension.py:519`: a failed read restarts a record at zero.
* The paper runner never logs transitions; a logged entry that the gate rejects stays
  incomplete; `update_reward` sets next_state to NULL.
* `mdp/transition_logger.py:91-92` says "reward and next_state are NULL until trade closes",
  and 0.0 at once "For NO_TRADE / DEFER" only; the code at `:104` gives
  0.0 to a REDUCE_RISK entry too, which enters (`decision/final_group.py:251`) and may
  stay open: a reader who takes NULL for "not complete" takes that row for complete.
  `RowsTellWhy` states what the code does.
* `JournalReader.get_calibration_records` reads a table that is never created;
  back-test rows carry the runtime's tag; specialist records are never written.
* `exit_diagnosis.py:232`: a failed append is logged and its record forgotten. The
  directory is made and the file looked at before the `try` (`:216-221`): an exception
  there would leave the record for the next bar, which is not modelled.
* `exit_diagnosis.py`: the closing bar is counted as the first after the close,
  and back-test and live write the same file.
* `runner.py:257`: a learning layer that fails to wire takes the 4h and volume
  filters with it. `backtest/engine.py:596`: the weekly reset needs a bar on a
  Monday; the simple `run` carries an open position into the next symbol.

Optimisation (not modelled; it runs offline, `console/server.py:408` answers 501):

* `optimization/regression_guard.py:223` reads `approve_count` from an event whose
  field is `panel_approve_count` (`core/events.py:88`): every fixture counts as
  zero approvals and fails, also with the values in use, so no fold that is asked
  for a regression check can be accepted.
* `walk_forward_runner.py:340`: an invalid out-of-sample result skips the
  overfitting check, and without a regression check the fold is accepted.
* `parameter_space.py:131`, `:139`: "current" 12 and 5.5 against 15 and 5.8 in
  `panel_constants.py`; a trial at 12 differs from no baseline and runs at 15.
  `panel.py:150` uses the override of the threshold in unlisted regimes only.

## 8. Plan

Done, in this order: `RiskGate`, `ExitLadder` with `PositionLifecycle`,
`DecisionPolicy`, `RiskSizing`, `BarCascade`, `MarketFeed`, `ChartBars`, `Console`,
`SignalChain` and `Records`; proofs about each of them.

Next: the folds, holdout and regression guard of the optimisation, the
macro calendar, and a composition of `MarketFeed` and `BarCascade` in which
skipped bars are seen by the groups.
