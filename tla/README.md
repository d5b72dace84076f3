# A formal model of Rossbot

Rossbot is a day-trading bot in Python: a scanner proposes symbols, a strategy
engine turns one-minute bars into entry and exit signals, a risk manager vetoes
or sizes every entry, and a session sends orders to a broker (Alpaca) and
watches the positions.  This directory holds a TLA+ model of the parts where
the order of events decides whether the bot is right, the configurations that
check the model with TLC, and proofs checked by TLAPS.

The code is the reference: each definition of a module is the translation of
the lines that `PROJECT.json` maps it to.

## 1. Inventory

State, operations, partners, and what makes each part correct.  "Status" says
what this directory has of it today.

| Part | State it keeps | Operations | Talks to | Correct when | Status |
|---|---|---|---|---|---|
| `core/risk` manager, gate, monitors | day result, peak, losing streak, trades today, halt flag and reason, open positions | `reset_session`, `evaluate`, `record_open`, `record_close`, `halt_session` | called by every session | three strikes end the day, no approval beyond a cap, the numbers are those of the day's closes | modelled, proved |
| `core/risk/sizing`, `core/live/capital_ramp` | none | `compute_size`, `apply` | the manager; the live session | the size never exceeds any of its caps in whatever order the roundings happen | modelled, proved |
| `core/live/session` | `_open`, `_frozen`, `_last_bar_ts`, stop event; through them the engine's and the manager's positions | five asyncio loops, `stop` | broker, feed, strategy engine, risk manager | the ledgers agree, entries are still valid when answered, a dead feed or the end of the day ends flat | modelled, proved but for liveness |
| `core/live/reconcile` | none | `reconcile_positions` | broker's positions against `_open` | an orphan leaves, a real position stays | modelled in the session |
| `adapters/alpaca_broker` | the account, at the broker | limit order, flatten, positions, account, halt status | every session | an order counts once, an error never counts as a fill | as the session uses it |
| `core/strategy` engine | per symbol: session bars, position, attempts | `on_bar`, `open_position`, `close_position`, `reset_session` | sessions, replay | one position per symbol, exits in priority order | modelled, proved |
| `core/strategy` exit rules | high watermark, scaled flag | `evaluate_exit` | strategy engine | a full exit has priority over a scale-out; a position never grows | modelled, proved |
| `core/backtest/sim_gate` | the log of simulated days | `record_day`, `satisfied`, `live_mode_allowed` | readiness, live session | live trading needs the required streak of good days, in the order they happened | modelled, proved; implements an abstract counter |
| `core/backtest/paper_session` | as the live session, without freeze and reconciliation | three loops | broker, feed, gate | as the live session | modelled, proved |
| `core/backtest/replay`, `fill_model` | the current day, one open position, the previous close | `replay`, `entry_fill`, `exit_fill_stop`, `exit_fill_target` | strategy engine, risk manager | its position, the engine's and the guard's are one, and a reported day is the guard's day | modelled, proved |
| `core/demo/engine` | positions, day risk, last scan, overrides | scan, strategy, exits, sync, ten operator commands | broker, controls, dashboard | each coroutine acts once on a lot, after a halt nothing opens that was not past its gate, the numbers are the journal's | modelled but for its replay step and charts; proved but for liveness |
| `core/demo/wiring`, `api` controls, `state_service` | paused flag, kill callback | kill switch, pause, resume, flatten, manual orders | demo engine | whatever a kill, a pause or a resume meets in flight, only what was past its gate still opens | modelled as they reach the engine |
| `api/services/ws_manager`, alerts, health | connections, last alert times, feed states | connect, broadcast, disconnect, fire, check | dashboard | a slow client delays nobody for ever, an alert is not lost | sockets and page modelled and proved; alerts and health not |
| `core/data` bars, feed integrity | current bucket, gaps | `on_print`, `flush`; `record`, `gap`, `is_stale`, `check` | strategy engine | one bar per bucket, in order | modelled |
| `core/news` | socket, backoff, verifier's cache | `start`, `stop`, `_run_loop`, `verify` | demo scanner | it always reconnects; a stale verdict is not used | modelled; the verdict proved |
| `adapters/l2`, `adapters/market_state` | sliding windows, the rehab switch | `on_depth`, `on_tape`, `evaluate`; `record_day`, `set_rehab`, `classify` | strategy engine, sizing | a window holds what its age allows | modelled, proved, but for the attention score |
| `core/halt`, `core/continuation` | none | `evaluate_halt_resumption`, `evaluate_pre_halt_entry`; `evaluate_day2_eligibility`, `check_continuation_done` | strategy engine | no decision to enter outlives the condition it was made under | halt modelled, proved; continuation not |
| `core/compliance` | rolling logs of day trades and of losses | `record_open`, `record_close`, `can_trade`; `record_loss`, `check_wash_sale_risk`, `purge_before` | startup gate | a window of days counts each trade once, a purge forgets nothing that still matters | not modelled |
| `core/strategy` patterns, gate, conviction | none | `find_pullback_context`, eight entry patterns, `evaluate_entry_gate`, `score` | strategy engine | an entry has its stop below it | modelled, proved |
| `core/scanner`, `adapters/catalyst` | cached volume baseline | `scan`, `resolve_float`, `classify` | demo engine, outside sources | what may be traded is backed by the sources that answered | modelled, proved |
| `core/config`, `db` configuration | the config table, the loaded service | seed, migrate, load, read | every session | a tuned value survives the migrations | modelled, proved |
| data and research adapters, other API routes and tables, scripts, dashboard views | caches, tables, views | queries and formatting | outside services | their results are data to the models | not modelled |

### What is hard here

* **Awaits.**  Everything runs in one event loop, so code between two awaits is
  atomic, and everything read before an await may be old after it: the freeze
  flag, the approval of a trade, the copy of the open positions, the broker's
  answer to a query.
* **Three ledgers of one position.**  `_open`, the strategy engine and the risk
  manager are updated by hand in seven places of the live session.
* **An unreliable partner.**  An order may be refused, expire, or fill and lose
  its reply; a position query answers an error with the empty set; a flatten
  answers an error with one ack, which is taken for success.
* **Timers.**  Freeze, retries, reconciliation and the end of the day run on
  timers of their own and meet in every order.
* **Rules over a whole day.**  Strikes, the loss limit and the give-back are
  decided by a sequence of closes of several positions.
* **Coroutines over one object.**  A position of the demo engine is read before
  an await, halved or closed after it, by the loop and by any number of the
  operator's requests at once; nothing locks it.
* **Windows and caches.**  News, level 2, the market state, the simulator's log
  and the strategy's bars each forget on a rule of their own.
* **Values of the bar that is judged.**  The strategy engine folds a bar into
  its record before the rules compare the bar with the record.
* **Roundings.**  Seven factors and caps, each rounded down to whole shares.

`PROJECT.json` lists each of these as a hazard at the line where it bites, with
the properties that cover it, or the reason nothing covers it yet.

## 2. Modules

```
RiskState -----+--> RiskManager --> MCRiskManager
 (daily state, |        ^
  gate,        |     Sizing (compute_size, capital ramp)
  monitors)    +--> LiveSession --> MCLiveSession
               +--> PaperSession ---+
               +--> Replay ---------+
                                    |
Patterns --> StrategyRules --> StrategyEngine --> MCStrategy
                                    |
DemoRules --> DemoEngine --> MCDemo |
                                    |
ConfigDefaults -+-> ConfigStore ----+
                +-> Scanner --------+    (Catalyst --> Scanner)
                +-> LevelTwo -------+--> MCComponents
                +-> HaltTape -------+
        Feed, News, Dashboard ------+
StreakGate <-- SimGate -------------+    (SimGate implements StreakGate)

Proofs                       of
  FiniteFacts                  what finite sets, sums and ends of sequences are
  RiskManagerProofs            RiskManager, Sizing
  LiveSessionProofs            LiveSession
  StrategyEngineProofs         StrategyEngine, StrategyRules, Patterns
  DemoEngineProofs             DemoEngine, DemoRules
  BacktestProofs               PaperSession, Replay
  SimGateProofs                SimGate, StreakGate
  ComponentProofs              ConfigStore, HaltTape, LevelTwo, Scanner and
                               Catalyst, News, Dashboard, Feed
```

**RiskState** has the risk manager's state as one record and its operations as
functions on that record (`AfterOpen`, `AfterClose`, `AfterHalt`, `Vetoes`), so
the guard alone and the guard inside the live session use the same definitions.
`AfterFlatCloses` is the loop of `record_close(sym, 0)` that the session runs
over a set of symbols.  Money is in cents and fractions in hundredths; a
comparison of `Decimal`s becomes the integer comparison with both sides
multiplied by 100, which is exact.

**Sizing** translates `compute_size` stage by stage.  Each stage rounds down on
its own, as the code does.

**RiskManager** is the guard with its callers: `Evaluate` approves a trade,
`RecordOpen` or `OrderRefused` follows when the broker has answered, and
`RecordClose` and `HaltSession` may come at any time, also while an approval is
waiting.  `results` is a history variable: the manager does not keep it, the
properties need it.

**LiveSession** has an action for each stretch of code between two awaits.
`wait[t]` is the await task `t` is in: the request (`op`, `sym`) and its
`status`, from "sent" through the broker's answer to the step of the task that
reads the answer.

| Code | Actions |
|---|---|
| `_bar_loop`, `_handle_entry`, `_handle_exit` | `BarArrives`, `BarEnters`, `BarExits`, `BarPasses`, `BarQuoteFails`, `BarBuyAnswered`, `BarSellAnswered` |
| `_mental_stop_loop` | `StopPassStarts`, `StopFires`, `StopHolds`, `StopSellAnswered` |
| `_eod_flatten_loop` | `EodFlattens`, `EodAnswered` |
| `_reconcile_loop`, `reconcile_positions` | `ReconAsks`, `ReconAnswered` |
| `_feed_watchdog_loop`, `_handle_disconnect` | `WatchUnfreezes`, `WatchFreezes`, `WatchAnswered`, `WatchRetries` |
| `stop`, the end of `run` | `Stop`, `RunEnds` |
| `AlpacaBrokerAdapter` | `BrokerBuys`, `BrokerSells`, `BrokerFlattens`, `BrokerReports` |
| feed, prices, clock | `FeedStops`, `PriceMoves`, `ClockMoves` |

Details a reader may look for:

* An exception ends a task only where nothing catches it.  `_handle_exit`
  deletes from `_open` after an await; when another task was faster the bar task
  dies (`Dead`) and no bar is read again.  The stop loop catches the same error.
* The engine forgets its position when it emits the exit (`BarExits`), before
  the broker has agreed; a refused sale leaves a position tracked that the
  engine does not know.
* A bar refreshes the watchdog's clock even when the freeze makes it skipped.
* The gate is given the bar's own time.  A bar that waited past
  `HARD_STOP_TIME` still counts as early (`BarIsLate`).
* `_handle_disconnect` takes any ack for success, an error ack included
  (`flatten_error`).
* Positions are one lot of one symbol; bars, quotes and share counts are left
  out, except whether a bid is at or below a stop (`breached`).

**Patterns** and **StrategyRules** are the pure part of the strategy: the
pullback context, the patterns, the gate E1 to E7, the conviction score and the
priority list of exits, over bars in cents.  **StrategyEngine** is `on_bar` for
both timeframes with the setters: the session record that is reset, extended and
cut, the position it tracks, and `out`, the signal of the last bar.  EMA and MACD
are chosen freely once they are seeded; VWAP, bars, day's high and watermark are
exact.

**DemoRules** are the demo engine's own day record, sizing and performance
report; **DemoEngine** is its loop and the operator's commands.  A position is an
object that a coroutine may hold while the book has forgotten it, so `lots` has
every position bought and `book` says which lot a symbol is tracked under.
`loop` is the main loop and `op[r]` the operator's request `r`, each a coroutine
with its place and its locals: the endpoints are unlocked and every one of them
may be overtaken at each await.  Of the clock the model keeps the order in which
coroutines read the time that they journal with later (`Now`), because the
report sorts its trades by it (`ByExit`).  `scalers` and `closers` of a lot count
the requests that have looked it up; `late` and `gated` are history: the
positions opened after the halt, and the coroutines past their gate at the halt.

| Code | Actions |
|---|---|
| main loop, `_run_scan`, `_run_strategy`, `_submit_entry` | `StartIteration`, `StartStrategy`, `PickSymbol`, `Decide`, `SendBuy`, `BuyAnswered` |
| `_run_exits`, `_scale_out`, `_close_position` | `StartExits`, `Monitor`, `LoopScaledOut`, `LoopClosedOut`, `Reported`, `EndIteration` |
| operator: close, scale, stop | `AskClose`, `AskScale`, `OpQuoted`, `OpScaledOut`, `OpClosedOut`, `MoveStop` |
| manual orders | `ManualBuy`, `ManualTrade`, `OpBuyAnswered`, `OpStopSet`, `ManualSell`, `OpSellAnswered` |
| flatten, kill switch, halt, pause, overrides, scan | `AskFlatten`, `Flattened`, `HaltDay`, `PauseOrResume`, `SetOverride`, `ManualScan` |

**ConfigDefaults** is the seed, row by row, with parsing; **ConfigStore** seeds,
tunes, migrates and loads it.  Modules that need a threshold read it with
`Default(key)`, so one table feeds all of them.

**Replay** handles a bar in one step, as the loop does: day boundary, end of day,
mental stop, signals, with fills in parts and fees.  **SimGate** keeps the
simulator's list of days, and the readiness checks that read it; **StreakGate** is
the abstract counter of good days in a row.  **PaperSession** is the paper loop
between its awaits.  **Feed** folds one tape into two series of bars and watches
for staleness.  **LevelTwo** is the book, the tape window, evicted by the
time of the newest book, and the four detectors.  **Scanner**, over **Catalyst**, is the two tiers with float and volume from
sources that disagree.  **News** is the stream, its cache and the verifier.
**Dashboard** is the state that is published, the connection manager's lock, the
sockets and the pages.  **HaltTape** is the market state and the entries around
a halt.

**MCComponents** checks the last group in one run.  They share no variable, so a
variable `part`, chosen in the first state, says which of them runs and the
others stay at their start: the state graph is the sum of the parts' graphs.  The
components that do interact are composed inside their modules (the guard in the
sessions and the replay, the simulator gate in readiness, the catalyst in the
scanner, the verifier over the cache, the page over the sockets).

## 3. Runs

| Run | Instance | Checks |
|---|---|---|
| `risk_manager` | 2 symbols, 2 prices, 4 results of a close, 5 closes, one sizing context per branch | the day's numbers, strikes, caps, the two give-back rules |
| `risk_loss_limit` (violated) | the same | the loss limit ends the day |
| `live_faults` | 1 symbol, 2 trades, every fault but short sales, fair | ledgers, validity of entries, freeze, end of day; orphans leave, the end of the day ends untracked |
| `live_reliable` | 1 symbol, 2 trades, 2 lots, no faults, fair | flat at the end of the day; breached stops are worked; a dead feed's positions are sold |
| `live_overnight` (violated) | 1 symbol, no faults, fair | never overnight |
| `live_short` (violated) | 1 symbol, sales of nothing fill | never short |
| `live_unreachable` (violated) | 1 symbol, the flatten answers with an error | an unreachable broker's positions stay tracked |
| `strategy` | a day of ten minutes, a few candle shapes per minute, two sessions | entries can be traded, stops, watermark and VWAP see the bars they should |
| `strategy_hod` (violated) | the same | a new high of the day scales out |
| `demo` | 1 symbol, any 2 requests at once, refused buys, fair | each acts once on a lot, numbers match the journal, drawdown of the report, only what was past its gate opens after a halt, breached stops leave |
| `demo_killed` (violated) | 1 buy, 1 request, refused orders | nothing is bought after the kill switch |
| `components` | the parts listed above, each alone | see below |

What `components` checks of each part:

| Part | Property |
|---|---|
| configuration | `TuningSurvivesSeeding`: what was tuned outlives later seedings |
| replay | `ReplayLedgersAgree`, `ReplayDayIsGuardDay`: one position in three places, one day in two |
| simulator gate | `StreakPromise`: `SimGate` implements `StreakGate` (`INSTANCE ... WITH`); `ReadyMeansProven` |
| paper session | `PaperBooksAgree`, `PaperSellsBounded`: at most two sales for an entry beyond those whose answer was lost |
| bars | `SeriesAgree`: two builders over one tape that is late, out of order and flushed |
| level 2 | `WindowIsComplete`: the last snapshots; and of the prints, once the newest book's time has evicted, exactly those no older than the window before it, later ones included |
| scanner, catalyst | `TradeableHoldsUp`: what may be traded is on the watchlist and has the floats, the history, the model's tag and confidence, the headlines and the answered filings for it |
| news | `VerifiedIsUnblocked`: against the last `CacheSize` articles stored for the symbol; a blocking article that newer ones pushed out no longer blocks |
| dashboard | `PagesCatchUp`: pages agree with the engine once nothing is being sent |
| market state, halts | `PreHaltNeedsHotTape`: gap risk only on heat that is still in the window |

### Bounds

* `MaxCloses = 5` closes are enough for three strikes with a win before and
  after them, and for a peak, a give-back and a recovery.  Results of -600,
  -300, 0 and 700 cents reach the loss limit of 1000 and the give-back of half
  the peak exactly and on both sides.
* `MaxTradesPerDay` bounds the entries of a live session; it is the code's own
  limit.  One more entry than there are symbols lets a symbol be traded again
  while an old request for it is out.
* `MaxHeld` lots per symbol is the bound of the account.  With one symbol and
  two lots the ghost of a first position can exist beside a second.
* `MaxAttempts` of 1 or 2 has a retry, and a last attempt after which only the
  next stale tick tries again.
* The live session has one symbol, on which all tasks meet.  That the ledgers,
  the entries, the freeze and the end of the day are right for any number of
  symbols is proved, not run.  The guard and the parts of `components` have two.
* The strategy's tape has a surge, a pullback and a breakout, then two minutes of
  every kind: long enough for an entry, its exit by each rule, and bars missed in
  between.  `PsychStep = 7` and `PsychTol = 1` put psychological levels on some
  prices only; `BailoutBars = 2` and `MaxExtra = 1` (10-second bars) let a bailout
  and an early warning happen.  The one fill is a cent off the signal.
* Two requests of the demo engine's operator may be in flight together beside the
  loop: three coroutines on one lot, so that two scale-outs and the monitor's can
  oversell a lot of 4 by 2, and exits are journalled out of their order.  One
  symbol keeps all of them on the same lot.  The loop buys while fewer than
  `MaxBuys = 1` orders have been sent, the operator as often as requests allow:
  the loop's buy and a manual one are in flight together when a third coroutine
  halts the day, and a manual buy replaces a lot that another coroutine holds.
* `MaxDays = 2`, `MaxTrades = 3` and two trades a day for the replay: a position
  that meets a new day, a veto by count and a third trade after it.
* `Required = 3` and `MaxLog = 6` days: the list is emptied, refilled and cut.
* Four level-2 ticks of each kind, one more than the three snapshots a book keeps;
  four days in a window of three; two articles after a backfill with a cache of
  two; three published updates to two sockets: what is kept overflows, what is
  shared is met by more than one.
* Three prints and one flush: a print late for its ten seconds, or for its minute.
* Four edits or upgrades of the configuration: seed, tune, seed again, undo.

### Fairness

`FairSpec` has weak fairness for each task and for the broker's answer to each
task: the event loop runs every ready task, a sleep ends, and the client library
returns or raises.  `WF_vars(BarTask)` covers the bar task between its awaits
and not the arrival of a bar.  Bars, prices, the clock and the operator have no
fairness: the feed may be silent for ever and the day may never end.

The live session needs no strong fairness.  Where a property would need more it
has a premise instead: `BreachedStopsExit` speaks of a stop that stays breached and a session
that is not frozen, because the freeze suspends the polls (session.py:311);
the module's docstring says "keep monitoring stops" of the freeze, which is
what the watchdog's flatten stands in for.

The demo engine's `FairSpec` has weak fairness for the main loop as a whole (it
is one coroutine) and strong fairness for the quote of a symbol: a request for a
quote may fail again and again, but not for ever.  The operator has no fairness,
and the broker may refuse each sale.  The loop has no halt in its exits, so the
breached stops of a halted day are worked too.

Deadlock is not checked: sessions end, and the bounds of the other parts run out.

### What the runs show

The properties hold that the sessions rely on.  In the live session the three
ledgers agree at every await, no entry overwrites a position or exceeds the day's
trades, at most one order slips through a freeze, and a session that has flattened
at the end of the day tracks nothing later.  The demo engine's numbers are those
of its journal even when several coroutines record the same close, each of them
acts once on a lot, and a halt lets through the orders that were past their gate,
one for each coroutine, and nothing else.

Six statements of the repository do not hold; each has a run:

1. **The loss limit does not end the day** (`risk_loss_limit`).  The runbook
   describes it with three strikes as a halt.  The gate compares the day's
   result with the limit at each signal and nothing latches, so a gain on a
   position that was open re-opens the day.
2. **A position can be held overnight** (`live_overnight`).  The answer of the
   position query may be older than a fill recorded while it was on its way;
   the reconciliation then untracks the new position, and the end-of-day loop
   acts only while something is tracked.  No fault is needed.
3. **The session can sell twice** (`live_short`): the bar task and the stop
   task each await a sale of the same position.  The adapter does not prevent a
   short sale; a cash account would.
4. **A new high of the day does not scale out** (`strategy_hod`).  `on_bar` raises
   `intraday_high` with the bar before `evaluate_exit` asks whether the bar's close
   is above it.
5. **A killed demo session can hold shares** (`demo_killed`).  A buy that was past
   its gate is sent or filled after the flatten, and the gate is not asked again.
6. **An unreachable broker's positions are forgotten** (`live_unreachable`).  The
   session, the runbook and a test say that they stay tracked and frozen.  The
   adapter answers an error with one ack, any ack counts as success, and the
   watchdog untracks what the account still holds.  The test's broker raises.
Smaller observations met while modelling, for which no run was made:

* `POST /control/resume` is documented as "blocked while risk-halted" (operator.py:282);
  it asks a registered risk manager (state_service.py:178), and beside the demo
  engine none is registered.  The operator is told that trading is active while
  the engine's own gate vetoes every entry (`OnlyGatedOrdersAfterHalt` covers that
  nothing is bought, not what is told).
* The comment at l2/provider.py:101 takes the latest print as "now", and the line
  below it the time of the newest book; tape_window.py:4 speaks of the last
  seconds.  Prints older than the window count while the book is behind the tape,
  and prints later than the book always do.  `WindowIsComplete` says what the code
  does.
* A filing check that fails is passed over (sec_filing.py, catalyst/provider.py:90)
  although provider.py:13 promises that ambiguity is never traded.  The layers
  after it may confirm the catalyst; `TradeableHoldsUp` claims the filings only
  where the SEC answered.
* The freeze is lifted without the reconciliation that the comment on the line
  announces (session.py:465).
* The live session never calls the engine's `set_halted_resume` and
  `set_market_rank`.
* The paper session records every close with a result of zero, so its loss limit
  and its three strikes see nothing; a task of it that dies is seen by nobody.
* In the demo engine a close by the loop and one by the operator journal the same
  lot twice, and the later one raises; a manual buy replaces the tracked lot of
  its symbol; no day begins anew.
* `sec_filing.py:43` asks for gzip and the default fetcher does not decompress, so
  its dilution check finds nothing.
* News that appear while the stream is away are never fetched
  (news_stream.py:197), the backoff is never reset, and a backfill that is longer
  than the cache keeps its oldest articles.
* Whether any page is connected is asked outside the lock (ws_manager.py:62): an
  update can be dropped for a page that is about to join, which then keeps an
  older state until the next update.

## 4. Proofs

TLAPS proves, for every value of the constants that satisfies the `ASSUME`s of
the modules, and so for days, logs, journals and streams of any length (the
bounds in the guards are constants too):

| Theorem | Statement |
|---|---|
| `RiskManagerProofs!TypeCorrect` | `Spec => []TypeOK` |
| `GuardCorrect` | `Spec => []GuardInv`: peak, strikes and trade count |
| `MonitorsAgree` | the give-back rule of the monitor and of the gate are the same |
| `StreakCorrect`, `ThreeStrikesEndTheDay` | nothing is approved after three losses in a row |
| `DayStaysTheResults` | `Spec => []DayMatchesResults`: result, peak and streak are those of the closes |
| `SizeBounds`, `ApprovedSizeWithinCaps` | the caps on an approved size |
| `RampShrinks` | the ramp never raises a size |
| `LiveSessionProofs!TypeCorrect` | `Spec => []TypeOK` |
| `LedgersNeverDrift` | `Spec => []LedgersAgree` |
| `EntriesStayValid` | `Spec => []EntryStillValid` |
| `AtMostOneEntryPerFreeze` | `Spec => []OneEntryPerFreeze` |
| `NothingTrackedAfterEod` | `Spec => []EodUntracks` |
| `FlatAfterEod` | `BrokerObeys` implies `Spec => []EodMeansFlat` |
| `StrategyEngineProofs!EngineTypesHold` | `Spec => []TypeOK` |
| `EntriesAreTradable` | `Spec => []EntryIsTradable` |
| `StopStaysHonoured` | `Spec => []StopHonoured` |
| `WatermarkStaysTrue` | `Spec => []WatermarkSeesEveryClose` |
| `VwapStaysWithinSession` | `Spec => []VwapWithinSession` |
| `DemoEngineProofs!DemoTypesHold` | `Spec => []TypeOK` |
| `OnlyGatedAfterTheHalt` | `Spec => []OnlyGatedOrdersAfterHalt` |
| `EveryoneActsOnce` | `Spec => []EachActsOnce` |
| `DayIsTheJournal` | `Spec => []RiskMatchesJournal` |
| `DrawdownStaysDeepest` | `Spec => []DrawdownIsDeepest` |
| `BacktestProofs!PaperBooksStayAgreed`, `PaperSellsStayBounded` | `PaperSpec => []PaperBooksAgree`, `[]PaperSellsBounded` |
| `ReplayLedgersStayAgreed`, `ReplayDayStaysGuardDay` | `ReplaySpec => []ReplayLedgersAgree`, `[]ReplayDayIsGuardDay` |
| `SimGateProofs!ListStaysEndOfRecord` | the kept days are the end of all recorded days |
| `GateImplementsStreak` | `GateSpec => StreakPromise`, the refinement |
| `ReadyIsProven` | `GateSpec => ReadyMeansProven` |
| `ComponentProofs!TuningStays` | `ConfigSpec => []TuningSurvivesSeeding` |
| `GapRiskNeedsHeat` | `HaltTapeSpec => []PreHaltNeedsHotTape` |
| `WindowsStayComplete` | `LevelTwoSpec => []WindowIsComplete` |
| `TradeablesHoldUp` | `ScannerSpec => []TradeableHoldsUp` |
| `VerifiedStaysUnblocked` | `NewsSpec => []VerifiedIsUnblocked` |
| `PagesDoCatchUp` | `DashboardSpec => []PagesCatchUp` |
| `SeriesStayAgreed` | `FeedSpec => []SeriesAgree` |

Each invariant below was an `INVARIANT` of a TLC run on the instance of its
component before it was proved; those that needed only the component's own
vocabulary stand in its module, the others in the proof module.

### The arguments

**Risk manager.**
`GuardInv` is inductive by itself because its third part also speaks of an
approval that is on its way: the count is below the maximum while one is, so
recording it cannot pass the maximum.
"No approval after three strikes" is about the whole history, and the manager
keeps only a counter.  `StreakInv` is the link: the counter is the length of
the run of losses at the end of `results`, and a run of `ThreeStrikes` losses
anywhere means the halt flag is set.  A close extends the run at the end by one
or ends it; a halt is never lifted within a session.
`NumbersInv` links the other two numbers: the result is the sum of `results`, and
the peak is an upper bound of the sums of its prefixes which is 0 or one of them.
One more close adds one prefix, the whole (`PrefixesAppend`).
The size caps follow from monotonicity of each stage: none of them raises the
count once `Cushioned` has bounded it.  `SizeBounds` is the chain.

**Live session.**
`LedgersAgree` is inductive: each of the seven places that close a position does
it in one stretch of code between awaits, which `Forget` and `BarSellAnswered`
translate.  `EntryStillValid` is inductive with its types: while a buy is out the
bar task does nothing else, and every other task only removes positions and never
raises the trade count.  `OneEntryPerFreeze` needs `FreezeInv`: a bar between the
freeze test and the order has not bought yet.  `EodUntracks` needs `EodInv`: a
flatten that is out belongs to the last hour, in which no buy is out.
`FlatInv` says the same of the account, from the moment the broker has executed
the flatten.  It holds for a broker that closes what it acknowledges and sells
only what is there (`BrokerObeys`); such a broker may still refuse, lose answers
to quotes and position queries, or let orders expire.

**Strategy engine.**
`IInv` has five parts.  `Typed` keeps the window of bars a sequence of candles in
the order of their minutes, no longer than `BarWindow`.  `VwapInv` needs every bar
below the session's high, which the engine raises with the bar.  `StopInv` says
that a tracked position is on its entry bar or closed above its stop, and that a
scale-out which waits for its fill moves the stop to a price the last close is
above; without the second half the stop could be raised past a close.
`EntryInv` says that an entry waits only while nothing is held, so it is what the
position is made of.  `MarkInv` says of the watermark that it bounds every close
since the entry and that, as long as a bar no younger than the entry is in the
window, it is the fill or one of those closes.

**Demo engine.**
`LateInv`: before a halt nothing is late; after it, the late positions and the
coroutines still past their gate (`PastGate`) are together at most as many as were
past it at the halt.  Whoever gets past the gate later is refused, so the sum
never grows.
`ActsInv` counts, for each lot, what is done and what is still to come.  The sales
of halves are the requests that looked the lot up for one, less those that have
not sold yet, plus the monitor's own; each sells at most a half of what was
bought, and the first two of them leave no less than nothing (`HalvesLeft`).  The
recorded closes, those still to be recorded by requests and the loop's one are at
most one more than were asked for (`ClosesLeft`): the loop deletes the lot from
the book with its close and never meets it again, and the pass it is in holds each
lot once (`LoopKnows`).
`DayIsTheJournal` carries the day's numbers over one more entry of the journal, as
`NumbersInv` does, with the wins and losses counted by `Cardinality`.
`DrawdownStaysDeepest` is true of any journal, so the system contributes only the
types.  `Sooner` is a total order (`SoonerOrders`), the place of a trade in it is
one more than the number of trades before it, places are all different and all
taken (`PlacesRise`, `PlacesTaken`), so the sorted journal is a permutation, and
the running result at a place is the sum of the trades up to it in time
(`RunningIsEquity`).  The report walks that curve with a peak, a trough below it
and the worst fall so far; what they are after each place (`Walked`) follows by the
smallest place at which it is not so.  Falls are fractions of their peaks and are
compared by cross-multiplication (`FallsCompare`).

**Paper session and replay.**
`PaperInv` gives each entry two sales and counts those that may still be executed
(`MaySell`): two while the symbol is open, later one for each loop that holds it.
The balance of account, entries, lost answers and pending sales is what no step
lowers.  The replay handles a bar in one step that calls many helpers; `Sound` is
proved of each helper's result in turn, so the lemmas follow the program text.

**Simulator gate.**
`ListIsEndOfRecord`: the list is the end of the record, at most `Required` long.
What `StreakGate` counts is the run of good days at that end, cut at `Required`:
a failing day ends the run in both, a good one extends it in both, and beyond
`Required` days the trimmed list and the cut counter agree.

**The other components.**
`ConfigInv`: what was tuned is a row of the table.  `TapeInv`: the pruned window is
the end of the record.  `WindowInv`: both streams are in order, and what was
evicted is too old for the newest book.  `ScannerInv` needs only the types of the
cached baseline; the theorem is about what the two tiers and the catalyst's
verdict imply together.  `NewsInv` places each article in the cache by the number
of later ones about the same symbol, which backfill and stream both respect.
`DashboardInv` is the longest: sockets wait once; of the broadcasts that wait, the
last whole state and the signals behind it make up what is to be shown, and if no
whole state will come, so does what a page shows with the signals on their way.
`dbSkipped` is the exception that section 3 describes.
`FeedInv` puts both builders at the buckets of one print, the latest: a print that
is late for the minute is then late for its ten seconds, and the open bar of ten
seconds lies within the open minute.  A series, with the bar its builder holds, is
left alone by a print, takes it in its last bar or has one bar more
(`SeriesAfterPrint`); in the last two cases the volume of the print's minute rises
by one (`VolumeAfterPrint`) and no bar of the other series loses its cover.

### Reasoning about data

What a fold or a minimum over data is can be proved without an induction theorem
that takes an operator: `FiniteFacts` derives from the well-foundedness of strict
subsets (`FS_StrictSubsetOrderingWellFounded`, `WFMin`) that a non-empty set of
naturals has a least element (`LeastNatural`), hence maxima and minima of finite
sets, sums over finite sets and totals of sequences with one more element.  An
induction is then an argument by smallest counterexample; the news backfill, a
recursive function over its articles, is proved in this way.

### Assumptions

The proofs use the `ASSUME`s on constants and nothing else, but for `BrokerObeys`
in `FlatAfterEod`.  TLC evaluates each on the instance of its run.  Those that say
more than a type:

* candles of a tape have their low and high around open and close (`IsCandle`),
  and prices are naturals;
* `MaxPositionSize` is at least 1 (5000 unless the environment says otherwise): with a
  cap of 0 a manual order would open a position of no shares;
* `MoveBeTrigger` is at least 1 cent (10 are seeded): with 0 a scale-out could raise
  the stop to the close it is made on, and `StopHonoured` would fail;
* quantities of manual orders are at least 1;
* level 2 keeps two snapshots or more, as its detectors compare two;
* the seeded thresholds of the wide net lie around those of the gates (`TiersNest`),
  a fact about the table in `ConfigDefaults`, and each seeded text can be read as
  its type (`DefaultsParse`).

### Only model-checked

* Of the properties of the runs, liveness: `StaleFeedFlattens`, `OrphansLeave`,
  `EodComes`, `BreachedStopsExit` and the demo engine's `BreachedStopsLeave`.  They are about fairness and `ENABLED`.
  Every invariant of a passing run has a theorem.
* That the interesting cases occur at all: a theorem about all behaviours does not
  show it, the runs and their coverage do.
* The six violations are counterexamples and stay with TLC.

## 5. Not modelled

* Orders that keep working after the ack (extended hours use DAY orders) and may
  fill later or in part.  The model answers an order with its fill, or without.
* Share counts and scale-outs: the live session ignores scale-out signals.
* In the live and the paper session and in the replay, the values of bars and
  indicators: there the strategy's signal is a choice among those the engine can
  give.  `StrategyEngine` has the values and no session.
* The high watermark: the stop task updates it and nothing in the session reads
  it back.
* A restart: the session persists nothing, and `run` starts from empty ledgers.
* Other broker adapters: `_get_broker_positions` answers with the session's own
  positions for them, which makes the reconciliation a no-op.
* The demo engine's replay step, chart history and chat; scan lists beyond their
  second tier.
* Compliance and the continuation engine: outside the tests nothing calls them.
* Alerts and health: they throttle and report over feeds the application never
  declares.  The catastrophic backstop and the latency recorder: no decision
  depends on their state.
* The other tables, API routes that read and serialise, scripts, the user
  interface, Redis and logging.
* Timestamps finer than seconds, and prices finer than cents, except in the
  replay's fees.

## 6. Plan

What is left to prove has to be stated and checked first.

1. Action properties: a raised stop of the strategy engine never falls while a
   position is held; the simulator's list forgets a good day only for a newer one.
2. Abstract specifications with refinement theorems for the ledgers of the live
   session (one book of positions) and for the dashboard (the last state published).

Modelling that could follow: orders that keep working at the broker after their
ack, the demo engine's replay step, and the compliance windows once something
calls them.
