# Kiwoom auto-trading: models, checks and proofs

This directory holds TLA+ models of the Kiwoom auto-trading program, the TLC
configurations that check them on small instances, and TLAPS proofs that hold for
every value of the constants. Line numbers refer to the repository's Python
files (`order/order_manager.py` and so on).

Contents: the system and its parts; the modules and how state and actions
correspond to the code; the runs with their bounds and fairness; the proofs with
their invariants and assumptions; what is only model-checked; what was observed of
the code; what is not modelled.

## The system

A Qt application trades Korean stocks through the broker's ActiveX control. One
thread, the Qt main thread, runs every handler that changes trading state; a
scan thread evaluates market data and hands its signals to the main thread
through queued Qt signals. Two things make the order of events hard:

* the broker answers at its own pace: an accepted order is executed in parts,
  executions are reported later and cumulatively (FID 911), refusals name the
  stock and not the order, and after a reconnect reports may be repeated;
* a synchronous request to the broker (`_comm_rq`, kiwoom_api.py 1082-1173) runs
  a nested event loop, so other handlers run inside the one that asked.

### Components

| Component | State | Operations | Talks to | Correct when |
|---|---|---|---|---|
| OrderManager (`order/order_manager.py`) | positions, `_pending`, sale clocks, awaited buy shares, signal metadata, forced-sale record, cumulative fills, processed sales, queued signal, daily block lists | signal, manual buy, price tick, exits, fills, refusals, day change, balance sync | called by TradingController, RiskManager (through state), PortfolioWorker; calls the broker; called back by chejan and order messages | block lists and limits hold in every order of events; a lock ends; books agree with the account |
| TradingController (`app/trading_controller.py`) | auto-trading flag, opening entry times, strategy objects | exit loop (5 s), signal gate, scheduled exits, liquidation, scanner control | calls OrderManager, reads RiskManager | an exit decided is an exit sent; gates are looked at before every entry |
| RiskManager (`app/risk_manager.py`) | profit lock, loss lock, consecutive losses, cool-off timer | check, on_order_filled, cool-off expiry, manual unlock, daily reset | fed by fills and ticks; read by TradingController and, through AppState, by OrderManager | a lock stays until its own reason ends |
| PortfolioWorker (`engine/workers.py`) | retry counters of two steps | sync, step 2, retries | broker requests; OrderManager `sync_balance`, `_sync_with_balance` | the account copied back is not older than the fills already booked |
| MarketScheduler (`app/market_scheduler.py`) | once-a-day flags | one-minute timer | TradingController liquidations, reports | every daily event happens exactly once a trading day |
| ConnectionWatchdog (`app/connection_watchdog.py`) | lost flag, attempts, timers | 30 s check, reconnects (at most 5) | broker login, scanner | a connection that returns is noticed |
| Broker gateway (`kiwoom_api.py`) | busy flag, bans, throttle, answer buffers | requests, orders, events | everything | one request at a time; an answer goes to its request |
| SmartScanner and scanner data (`scanner/`) | universe, subscriptions, snapshots, cool-downs | scan cycle, ticks, subscription changes | emits signals | a signal is judged on data of its stock |
| Strategy exits, signal filter chain (`strategy/jang_dong_min.py`, `order/`) | loss dictionary with its file, peaks | judgement of a holding, filters of a signal | called by TradingController and OrderManager | a stopped-out code stays out; an overnight holding is decided |
| Evaluators and entry strategies (`scanner/evaluators`, `scanner/strategies`) | cool-downs | pure decisions on a snapshot | called by the scan loop | strength never hurts; cool-downs do not starve a strategy |
| Bars and indicators (`scanner/snapshot*.py`, `indicator_service.py`) | bars, histories | ticks, loads, scores | written by real-time data, read by the scan loop | bars are the ticks; scores move the right way |
| FeedbackEngine (`analysis/feedback_engine.py`) | parameter file, history of proposals, marker | the day's end review | reads the trade log, writes what the configuration loads | parameters move slowly, within bounds, and come back |
| Configuration, reports, UI, offline analysis, logs | files and widgets | I/O | all | outside the models |

`PROJECT.json` lists every component with what is modelled and, where it is not,
why. It also lists the hazards: the places, line by line, where this code is
hard to test.

### Hard behaviours

* Overlap of the exit loop, price ticks (which ignore `_pending`, 1356-1440), the
  scheduled liquidation and the user: several sales of one stock may be out.
* A handler inside a handler: the fill handler of a completed sale calls
  `handle_signal` for the waiting signal before it has finished its own clean-up
  (1942-1957), and `handle_signal` may wait for a price in a nested event loop
  (754) with the results of its first checks in hand.
* Partial fills, repeated fills and fills of several orders of one stock share
  counters that are kept per stock (`_app_pending_buys`, `_pending`,
  `_pending_sell_time`).
* Refusals arrive late and name a stock only (361-424).
* The sale that takes a lock replays the waiting signal before RiskManager hears of
  it (1923-1981), and the two locks have gates in two different classes
  (trading_controller.py 239, order_manager.py 1293).
* A restart drops locks, streak and unsynced profit and takes the rest from a
  session file and a fills file that are written at different moments.
* The daily state is rolled by the first sync or fill of the day (1173-1191), and
  orders that lapsed overnight are not reported.
* Two-stage watchdog of a sale: 30 s, cancel request, 30 s grace (1073-1107).

## Modules

| Module | Models | Theorems |
|---|---|---|
| `OrderManager` | OrderManager, OrderExecutor.send, the exit loop and the order entry of TradingController; the broker's order server (external) | `OrderManager_proofs` |
| `RiskManager` | RiskManager, the ledger of realized profit in OrderManager (1173-1285), AppState's session file, the gates that read the locks, midnight and restart | `RiskManager_proofs` |
| `RequestSlot` | abstract: what the gateway promises its callers | |
| `Gateway` | the request side of KiwoomManager (`kiwoom_api.py`): the busy flag, nested event loops, answers, bans, the rate limiter, the freeze watchdog; implements `RequestSlot` | `Gateway_proofs` |
| `PortfolioSync` | PortfolioWorker's two-step sync with the position rebuild of OrderManager (430-628) | |
| `Link` | abstract: the connection as the rest of the program sees it | |
| `Connection` | LoginManager, ConnectionWatchdog and the connection part of KiwoomManager; implements `Link` | `Feed_proofs` |
| `LiveQuotes` | PriorityWatchQueue, its worker thread and its callers, composed with `Link` | |
| `ExitRules` | JangDongMinStrategy's judgement of one holding: pure definitions | |
| `TradingDay` | TradingController, SignalFilterChain, MarketScheduler and the strategy's loss dictionary over the trading day, on top of `ExitRules` | `TradingDay_proofs` |
| `EntryRules` | the evaluators and the nine strategies: pure definitions | |
| `Signals` | SmartScanner's evaluation loop and `_emit` with the cool-downs, on top of `EntryRules` | `Signals_proofs` |
| `Universe` | UniverseManager's filter and score, and the two users of it: pure definitions | |
| `Charts` | SmartScanner's minute scan, the refresh of the ranking, the chart chains and the clean-ups, on top of `Universe` | `Charts_proofs` |
| `Candles` | TickToCandleProcessor, SnapshotStore's histories and the handler of real-time data | |
| `Indicators` | IndicatorService: pure definitions | |
| `MarketData` | `Candles` and `Indicators` composed as `_evaluate` uses them | `Feed_proofs` |
| `Feedback` | FeedbackEngine and FeedbackWorker: the loop that changes parameters at the day's end | `Feedback_proofs` |

`MC<Module>` gives each of them its small instance. A mutated definition that
stands before its original ("Mutation of ...") is a plausible mistake in that
code; every property has one that breaks it.

How the models meet. `Connection` is shown to implement `Link`, and `LiveQuotes`
is composed with `Link`, so what it shows holds above the real watchdog. `Gateway`
implements `RequestSlot`; the models whose handlers ask the broker
(`PortfolioSync`, `Charts`) use what that promises: one request at a time, which
ends with an answer or with nothing. `OrderManager` models orders and lets every
limit reject at will and any balance sync replace its positions; `RiskManager`
models the limits and lets orders come at will; `TradingDay` models rules and clocks
and lets orders be executed in full, come to nothing or be refused; `Signals` emits
whatever strategies see; `Charts` and `MarketData` provide what they see. What a
model takes from its neighbour is what the neighbour's model can do to it, with
these exceptions: `orders_two_codes` has no signal without a snapshot (the hazard at
order_manager.py 754); `TradingDay` has partial sales but no order executed in several
reports, and has sync and refusal only as what they do to a position; `LiveQuotes`
claims nothing once the queue's bookkeeping is false; `MarketData` starts its
comparison anew at every load. They are repeated where they matter below.

In every model a step is one handler of the main thread from its first line to its last,
with all it calls. A handler is split only where the program lets other handlers in: the
nested event loop of a request (`Gateway`, `Connection`), a signal that waits for a
price (`OrderManager`), the dialogs of a login (`Connection`), the two timers of a sync
(`PortfolioSync`), the calls of a `QTimer` chain (`Charts`), every call into the control
and every use of the lock by the worker thread (`LiveQuotes`), the file writes of a run
that may be cut off (`Feedback`).

### OrderManager

A state of the model is the state of the handlers between two events of the main
thread. Each action is one handler from its first line to its last, with all it
calls; the only handler that is split is `handle_signal` when it waits for a
price, because there the program really lets other handlers in.

| Variable | Code |
|---|---|
| `pos` | `positions`: quantity, `qty_buy_today_app`, `opened_by_app`, partial-sale flag, `entry_count`; quantity 0 is a code not in the dict |
| `pending` | `_pending` |
| `sellTimer`, `cancelTimer` | `_pending_sell_time`, `_pending_sell_cancel_at`: none, running, past the limit |
| `appBuys` | `_app_pending_buys`: shares still awaited |
| `meta` | codes in `_pending_meta` |
| `forceIssued` | `_force_sell_issued` |
| `cumulative`, `processed` | `_order_fill_cumulative`, `_processed_sell_order_nos` |
| `queued` | `_queued_signal` |
| `asking`, `closing` | the frame of a suspended `handle_signal`: its signal and the sold-out code whose fill handler called it |
| `stopLoss`, `noReentry` | `_stop_loss_today`, `_no_reentry_today` |
| `orders`, `nextNo`, `redelivered`, `syncs`, `day` | the order server, the number of repeated reports and of syncs so far, and the calendar |

| Action | Code |
|---|---|
| `HandleSignal`, `AskInfo`, `AnswerInfo` | TradingController.handle_signal, OrderManager.handle_signal (690-931) without and with the price request |
| `ManualBuy` | TradingController.manual_buy |
| `StopLossTick`, `TrailingTick` | `_on_price_updated` (934-1049) and `force_exit` |
| `ScheduledExit`, `Sell` | daytime targets, overnight rules, liquidation |
| `ExitCheck`, `WatchdogCancel`, `SellTimeout`, `CancelTimeout` | `check_and_exit_all` for one stock, the stages of `is_pending`, the clocks |
| `Execute`, `Deliver`, `Redeliver` | executions, `_on_chejan_data` with both fill handlers and `_finalize_fill` |
| `OnOrderMsg` | `on_order_msg`: refusals of buys (RC4007) and sales (800033); an order refused with any other message is `rejected`, and the program is never told (367-372) |
| `SyncBalance` | `sync_balance`, `_sync_with_balance` with `_rebuild_positions_from_holdings` (430-628): the positions become what the reply shows, which may lag behind or miss a code; every other book stays as it is |
| `RollDay` | `_roll_daily_state_if_needed`, with the lapse of the day's orders |

Abstractions: prices, cash and realized profit do not appear; a rule that can
only reject a signal is the signal not arriving, and a price condition that
triggers an exit is nondeterministic. The retry counters that set limit prices,
`_failed_sells`, `_pending_buy_time` and `_partial_pending_codes` influence
nothing that is modelled. A cancel request is not answered by the model's server:
the code forgets the lock whether or not it is. A stock code may be sold by
several orders at once; the server refuses what exceeds the sellable quantity. The
reply of a sync shows at most what was bought of a code so far, which covers every
delay and omission. It is never empty where the account holds nothing else
(`OtherStocks`), since an empty reply leaves the positions alone (589, 594).

### RiskManager

Again one action per handler. Profits are counted in units, one holding stands for
the account, and a signal is only whether it enters.

| Variable | Code |
|---|---|
| `risk` | `profit_locked`, `loss_cut_locked` of AppState; `_consecutive_losses` (without an upper limit, as in the code), `_cooling_off_until` (none, running, due), `_profit_locked_by_cooloff`, `_manual_unlock_active` |
| `ledger` | `daily_realized_pnl`, `_broker_realized_base`, the sum of sales in `_today_fill_log`, `_fills_initialized`, whether `_pnl_date` is today |
| `statePnl`, `session` | `AppState._daily_realized_pnl`, and what `load_session` would take from the session file: its profit, if it has today's date |
| `filed` | the sum of today's `logs/fills_*.jsonl` |
| `realized`, `sale`, `holds` | the account at the broker (external): today's profit, a sale executed but not reported, the holding |
| `known`, `buying`, `queued`, `balance` | the program's position, an outstanding buy, `_queued_signal`, `_balance_result` between the two steps of a sync |
| `phase`, `day` | the clock: before, in and after the hours of `tick_exit_check` |

| Action | Code |
|---|---|
| `Signal`, `ManualBuy` | both handlers of a signal with their gates; the manual buy, which goes around them |
| `BuyFilled`, `SaleExecuted`, `SaleReported`, `OrphanReported` | executions and `_on_chejan_data`: ledger, fills file, replay of the waiting signal, then `_on_order_filled` and `check`, in this order |
| `Tick` | `check` at the head of the exit loop |
| `CooloffTimer`, `CooloffPasses` | the one-minute timer of RiskManager; the clock |
| `UnlockManually`, `SwitchSaved` | the unlock button; the switches whose setters write the session file |
| `SyncStep1`, `SyncStep2`, `SyncFails` | PortfolioWorker's two steps, the second with `_sync_with_balance` and the ledger's first sync |
| `Midnight` | a new fills file, and the reset of the scheduler, which is missed when its timer does not fire within the minute (`MinuteSlips`) |
| `MarketOpens`, `MarketCloses`, `Restart` | the hours; the end of the program at any point and its next start |

Abstractions. `check` shows a modal dialog when it takes the target lock; the
handlers that run inside it find the lock taken, and what is left of `check` is
what the next one does, so it is not split. The answer of the broker is computed
when it arrives. The auto-trading switch is left out as a gate: it only rejects.
The market opens only on a rolled day, since syncs run every minute of the night
(`sync` rolls before it asks for anything). The daily sum of the broker
(`opt10074`) exists for real accounts only; `BrokerReports` chooses.

### Gateway

The wrappers are records that say what tells them apart: the request name, whether
it carries the code, whether the ban is looked at first, whether the shared buffer
is read whatever the request returned. A stack of requests models the nested event
loops; a request is told its answer by name alone, so an answer that comes after a
timeout may go to the next request of that name. `force_unfreeze` of the daemon
thread interrupts between any two steps. The 250 ms between two requests is time in
which others run; a ban (`-200`) and its end are nondeterministic.

### PortfolioSync

The account, what the server shows of it (which lags), the fill reports under way,
the program's positions and cash, `_balance_result`, and the timers that wait to
call either step. Chains overlap because each failure starts a timer and the
minute timer does not ask whether one is running. Every share costs 1. Positions
younger than 90 s are spared by the rebuild; `Ages` is that guard running out.

### Connection, Link and LiveQuotes

`Connection` has the flag of the gateway, the accounts of gateway and login, the
logins in progress (a stack: a retry of the watchdog may log in inside a login),
the answers the broker still owes, and the watchdog's flag, counter and two timers.
A login is in its event loop, told to leave it, or in a dialog: the choice of the
server before it asks the broker, the choice of the account (login_manager.py 319-320),
the warning about a mock server (338). A dialog is closed at some time or never, and
everything else goes on meanwhile.
`LiveQuotes` has what the broker has registered, the three sets of the queue, the
program counter of the worker thread and the code a caller is between registering
and recording. `Rankings` are the lists a scan may find.

### ExitRules and TradingDay

`ExitRules` gives the rule that sells a holding, in the code's order, with the
parameters of the time of day. What a rule computes from candles is a set of facts.
`TradingDay` steps through the instants of a day at which something is decided
differently, with the five-second loop, the ticks, the one-minute timer with its
flags and its window of one minute, overnight holdings, the loss dictionary and its
file, the two switches and the restart. A market order is executed in full later than
it is sent; a sale may instead come to nothing (`SaleLapses`: cancelled, or answered with
a message the program ignores, or not sent at all) or be a second sale of the same
shares (`SaleRefused`: 800033 makes the program forget the position, and a sync may
find the shares again, without entry time or strategy). The minute timer runs in any
state of the orders, and once for each of its minutes. `unsold` is history: the day whose
closing left shares that no later closing of that day can sell.

### EntryRules and Signals

A snapshot is a record of readings, not the candles behind them; thresholds are the
defaults of `scanner/config.py`. A round of the loop asks the strategies in their
order; the first that answers is handed to `_emit`, which drops what is too early or
was sold with a loss, while the strategy has already noted its own cool-down.

### Universe and Charts

A row of the ranking is a record of the code, whether it is an ordinary share, its
change, amount and volume. Ranks, scores and the cut at `watch_pool_max` are exact
integers. `Charts` has the ranking with its age and flag, the request in the slot,
the universe, the subscriptions, the loaded charts and the scheduled calls of the
chains. The daily and investor chains are other requests that take the slot; the
60-minute chain is one call that repeats.

### Candles, Indicators and MarketData

Bars are built from the differences of the day's cumulative amount; a bar is
completed by the next tick, gaps of quiet minutes are filled, bars may be loaded,
restored from the file or dropped. The processor knows the hour and the minute of the
bar in progress and no date, so a night that no load interrupts is nothing to it: a
tick at yesterday's last minute goes on with yesterday's bar, and a later one has the
minutes between filled in. `seen` are the ticks with their minutes as the processor
tells them apart. Exponential averages are kept as numerators over
a known denominator, so nothing is rounded before a score is compared.

### Feedback

One run per trading day, in its four parts, which may be cut off between the writes
of peaks, parameters and marker. A day is what the review reads of it: the losing
strategies and slots, whether it was profitable. Of the history of proposals only
the direction of the first entry of the latest date is kept, since that decides
whether a proposal has the predecessor it needs. Values are in thousandths.

## Runs

Twelve runs, one per component or composition. A bound stops the model from
sending, trading, dropping or restarting further and changes nothing else.

| Run | Instance | Properties |
|---|---|---|
| `orders_two_codes` | 2 symmetric stocks, 1 slot, 1 stop loss allowed, 3 orders of 1 share, 2 days, 1 repeated report, 1 balance sync | `NoReentryAfterExit`, `BreakerStopsEntries`, `RepeatsNeverSell` |
| `orders_partial_fills` | 1 stock, 2 orders of up to 3 shares, price requests, user buys, 1 balance sync, fair exit loop | `TypeOK`, `PendingExplained`, `AppBuysUnreported`, `ForceRecordEndsWithPosition`, `SellWatchdogReleases` |
| `risk_day` | three sales of +1 or -2, target 2, limit 1, streak of 2, a restart, 2 days, a timer that slips | `TypeOK`, `LedgerExact`, `CooloffHolds`, `LossLimitStopsEntries`, `CooloffEnds`, `LossLockReturns` |
| `gateway` | 5 requests, nested twice, 1 late answer, 1 intervention of the freeze watchdog | `TypeOK`, `SlotFreed`, `KeepsSlotPromise`, `RequestsEnd` |
| `portfolio_sync` | 2 stocks, 3 of cash, 3 fills, 2 overlapping chains, 1 restart, real and mock account | `BookConverges`, `CashConverges` |
| `connection` | 2 accounts, any account list, 2 attempts, 1 drop | `WatchdogAwake`, `WatchdogDecides`, `IsALink` |
| `live_quotes` | 2 stocks, 2 rankings, 1 subscription, 1 trade, 1 error of the control, 1 drop | `HeldIsQuoted` |
| `trading_day` | 1 stock, 3 prices around the cost, 5 instants of the day, 2 entries, 2 days, 1 restart, switch or failing sale | `GapJudgedLater`, `DeepLossSold`, `DayTradesClosed`, `NoReentryAfterStop`, `OvernightDecided` |
| `signals` | 1 stock, 4 times of day, 54 snapshots, 1 restart | `QuietAfterLoss`, `StrengthHelps`, `JdmHeard` |
| `charts` | 4 stocks, 2 rankings, universe of 2, 1 chart per scan, 2 chains | `BetterRowFirst`, `FreshUniverse`, `ChartsArrive` |
| `market_data` | 1 stock, 6 events that arrive, 5 minutes a day, window of 6 bars | `BarsMatchTicks`, `RiseHelps`, `BuyersNeeded` |
| `feedback` | 5 parameters with their shipped values, 7 kinds of days, 4 varied days and then good ones for ever | `CarefulSteps`, `Recovers` |

Why the bounds are enough. In `orders_two_codes` three orders are a buy, an overlapping
sale and a second buy or sale, over two stocks that fight for a slot. In
`orders_partial_fills` two orders of up to three shares are two overlapping buys, or a
buy and its sale, each in up to three reports. A sync is one replacement of the
positions at any moment. In `risk_day` two sales lose the streak or reach the target,
three make a sequence around a restart; the results are unequal so that a gain after a
loss does not cancel it. `gateway` needs two levels for a request inside a request and
one late answer for a wrong delivery; the requests are one of each kind that the code
treats differently. In `portfolio_sync` two chains overlap in every way, and three fills
are a buy, a sale and a buy of another stock. In `trading_day` the prices lie below the
hard stop, at cost and above the target; the instants are the ones between which the
code decides differently; two days give an overnight holding its morning. The snapshots
of `signals` vary one gate alone, or the gates that depend on one another, around one
that every strategy takes. In `charts` a fund on top is filtered out, a share is beaten,
and one is falling; two chains compete with the scan. In `market_data` six events fill
and shift a window of six. Four days of any kind are a streak of two proposals with an
interruption, and a relaxation.

What they show:

* `NoReentryAfterExit`: no buy on a signal after an exit of the same stock on the
  same day, also when the signal waited in the queue and is replayed by another
  stock's sale. `BreakerStopsEntries`: once the stop losses of the day reach the
  limit, no step sends a buy on a signal. Both without a signal that has lost
  its snapshot (`SnapshotMissing`): such a signal waits for a price after these checks,
  does not repeat them, and would break both. That hazard is left to
  `orders_partial_fills`, which has the wait but not these two properties.
* `RepeatsNeverSell`: a repeated report never takes shares out of a position. The last
  report of an order is repeated, not an older one.
* `PendingExplained`: each lock has a record behind it: a buy that is not fully
  reported, a sale's clock, or a fill handler that waits. It does not say that the lock
  ends: a buy that the program was never told of, because it lapsed or was refused with a
  message it ignores, keeps the lock, and so does the clock of a code a sync has
  dropped, at which nobody looks until the code is held again. `AppBuysUnreported`: no
  more shares are awaited than one such buy has left. `ForceRecordEndsWithPosition`: the
  record of a forced sale ends with the position, except where a sync drops the
  position; there it stays and disarms the stops of the next one (see the
  observations). `SellWatchdogReleases`: a sale that does not complete stops locking
  its held stock.
* `LedgerExact`: once initialized, the day's ledger equals the fills file, whatever
  restarts, syncs and midnights came in between. `CooloffHolds`: a cool-off keeps the
  entry lock until its clock or the user ends it. `LossLimitStopsEntries`: no handler
  that starts with the limit lost lets a signal enter, until a restart.
  `CooloffEnds`, `LossLockReturns`: a cool-off ends; on a day that has lost the limit
  the lock that a restart drops is back before the market closes.
* `KeepsSlotPromise`: the gateway implements `RequestSlot`. `SlotFreed`: no request
  in progress, no slot taken. `RequestsEnd`: every request ends, answered or not.
* `BookConverges`, `CashConverges`: once trading is over, positions and cash are what
  the account has, however syncs and fills overlapped.
* `WatchdogAwake`: a lost connection always has an attempt due or under way until
  all are used up. `WatchdogDecides`: it is restored or given up, or the attempt has
  come through to a dialog that waits for the user. `IsALink`: the refinement of `Link`.
* `HeldIsQuoted`: the broker sends the quotes of a code that stays held, or sends them
  again, whatever scans, ticks, fills and failing calls dropped it. It speaks of what
  the broker has registered, and of behaviours in which `_subscribed` has not been made
  false: not of those where a connection is lost with codes subscribed, since nothing
  registers them again, nor of those where the worker removes a code between the two
  halves of its registration. Both are in the model and in the observations.
* `GapJudgedLater`, `DeepLossSold`, `NoReentryAfterStop`, `OvernightDecided`: the rules
  of the day, each over a restart, a switch or a sale that fails. `DayTradesClosed`: the
  closing is tried once. A day trade that is still managed the next day was entered
  after it, or a sale of it came to nothing or left a part after a closing; a lock or a
  sale under way at 15:20 is not another way. Positions that the program no longer
  manages (forgotten by a refusal, or unknown after a restart) are not day trades to
  it: neither the exit loop nor the closing sells them, only the stops on ticks do.
* `QuietAfterLoss`: no signal within the cool-down after a loss. `StrengthHelps`: more
  of the leading score or trend never costs a signal. `JdmHeard`: the cool-downs in
  series do not starve JDM_ENTRY.
* `BetterRowFirst`: no share is left out of the universe for one it beats.
  `FreshUniverse`, `ChartsArrive`: the ranking is renewed and the charts of the
  universe arrive, though all share one slot.
* `BarsMatchTicks`: the bars are the ticks, minute by minute, since the last load,
  restore or clean-up. A minute is an hour and a minute: the property says what the
  code makes of a night, one list of minutes when the day's first tick is no earlier
  than the last one before it. `RiseHelps`: a higher price never makes a stock look
  weaker, and a level of the trend below the last one never raises the momentum above
  what the levels it joins give; a full history, the usual one, forgets its
  oldest level, and that alone can raise it. `BuyersNeeded`: without buyers no score
  says so, a wall of asks that falls or a strong index alone included, as the comments
  at indicator_service.py 574-580 say and the docstring above them does not.
* `CarefulSteps`: a parameter moves by at most a fifth a day, within its bounds, and
  only in the direction of the entry before. `Recovers`: it comes back to its default.

### Fairness

Nothing obliges a strategy, a user, a signal or the broker's prices. What is assumed:

* Orders: the exit loop is a 5 s timer and the clocks are wall clocks; a price request
  has a time limit of 2 s (kiwoom_api.py 1145-1164).
* RiskManager: the same loop, the cool-off timer and its clock. `LossLockReturns` also
  needs `BrokerFairness`: an executed sale is reported, balance requests keep being
  answered, some sync gets to its end. TLC refutes the property without it, because
  a sale booked before the first sync after a restart replaces the restored profit.
* Gateway: the time limit of a request fires, the limiter lets it pass within a second,
  a loop that is quit returns.
* PortfolioSync: reports are delivered, the holdings shown catch up, the timers run;
  step 2 is answered if it is asked again and again (strong fairness).
* Connection: its timers fire and the login loop ends; a dialog may stay open for
  ever. LiveQuotes: the worker thread runs and the scan timer fires; of the rankings
  the scans find one comes up for ever, since rankings that take turns may drop and
  add a code for ever. Nothing is assumed of the connection.
* TradingDay: no liveness. Time passes only when the orders are done, and the
  minute timer runs in every minute of the clock.
* Signals: rounds of the loop and time go on. Feedback: the loop runs every trading day.
* Charts: timers fire; a request is answered or times out; who asks for the slot again
  and again finds it free at some time, not banned, and gets an answer at some time
  (strong fairness: an assumption about the broker's load).

Deadlock checking is off where the system may stop: `connection` (given up),
`trading_day` and `market_data` (the bounds of days and events). It is on elsewhere.

## Proofs

The theorems hold for all constants that satisfy the named assumptions of their module;
TLC evaluates these assumptions in every run.

### OrderManager

| Theorem | Statement | Assumption |
|---|---|---|
| `TypeCorrect` | `Spec => []TypeOK` | |
| `ForceRecordEnds` | `Spec => ForceRecordEndsWithPosition` | |
| `AwaitedUnreported` | `Spec => []AppBuysUnreported` | |
| `Explained` | `Spec => []PendingExplained` | |
| `NoReentry` | `Spec => []NoReentryAfterExit` | every signal has its snapshot (`~SnapshotMissing`) |
| `BreakerStops` | `Spec => BreakerStopsEntries` | every signal has its snapshot |
| `RepeatsAreHarmless` | `Spec => RepeatsNeverSell` | |

The argument. `TypeOK` is inductive; the step lemma has one lemma per action, which
rest on lemmas about the shared operators (`Place`, `SaleSent`, `SignalJudged`,
`Told`). `ForceRecordEndsWithPosition` follows from it for each action alone; only
`SyncBalance` is excepted by the property itself.

`NoReentryAfterExit` speaks about the order table only, so it is not inductive:
`ReentryInv` adds that unused numbers carry no order (`Fresh`), that an exit of the
current day has put its code on `_no_reentry_today`, and that no order is from the
future. `DayStep` summarises every step as the table sees it: orders keep code,
kind and day, at most one is appended, and an appended buy on a signal was not
`Barred` unless its handler had waited. The same summary proves the breaker
property. `NeverAsking` removes the waiting handler under the assumption, which is
needed: a handler that waits for a price does not look again (see the observations).

`PendingExplained` follows from `ExplainInv`: the awaited shares of a code are owed
by one buy of it (`OwedInv`), a locked code is awaited, has a sale's clock,
or is being closed by a suspended handler (`PendingAwaited`), and the
program's cumulative count never runs ahead of the reports (`CumulativeBehind`,
without which a fill could be counted as larger than the shares that came).

`RepeatsNeverSell` rests on `SalesCounted`: for every sale the program's cumulative
count is what the server has reported of it, whichever day and position it belonged
to. Only a report changes either side (`NoReport`, action by action), a new report moves both
by the same number, and a repeated one then counts as no shares.

### RiskManager

| Theorem | Statement | Assumption |
|---|---|---|
| `TypeCorrect` | `Spec => []TypeOK` | |
| `CooloffKept` | `Spec => []CooloffHolds` | |
| `LedgerCounted` | `Spec => []LedgerExact` | the broker reports no daily sum (`~BrokerReports`) |
| `LossLimitKept` | `Spec => LossLimitStopsEntries` | `~BrokerReports` |

The argument. `EveryStepMovesLocks` and `EveryStepMovesBooks` reduce the actions to
six ways to move the locks and six to move the books; lemmas about `Checked`,
`CooloffChecked`, `Counted`, `Booked`, `Synced` and `Rolled` say what each way keeps.
`CooloffHolds` is inductive on typed states. `LedgerExact` is not: a sale is added
to base and log while the profit is recomputed, so `LedgerInv` adds that base and
log sum to the file. The loss limit needs the same from the first moment of the
session, before any sync: `LossBooks` (a day not rolled has an empty file; a rolled
one agrees with it) and `LossLocked` (a lost limit is locked), which hold until the
first restart. `LossLocked` is where the order inside the fill handler counts: the
lock is taken in the same step that files the loss. A restart breaks it, which is
why the theorem stops there and `LossLockReturns` takes over.

The assumption `~BrokerReports` is needed: the sum of `opt10074` may contain a sale
whose report is still under way.

### Gateway

| Theorem | Statement | Assumption |
|---|---|---|
| `TypeCorrect` | `Spec => []TypeOK` | |
| `AlwaysFreed` | `Spec => []SlotFreed` | |
| `ServesOneAtATime` | `Spec => KeepsSlotPromise`: the refinement of `RequestSlot` | |
| `NestedAtMost` | requests are nested no deeper than the freeze watchdog has intervened | |
| `BansKept` | a banned request is not sent while its ban lasts | the watchdog keeps out |

The invariant ties the flag to the stack: while nothing has been torn loose there
is at most one request that waits, and it holds the slot. Each action is mapped to
`Take`, `Finish`, `TurnAway` or a stutter; after an intervention to `TornLoose`.

### Connection

In `Feed_proofs`, with the market data. `ConnectionInv` is the invariant.

| Theorem | Statement |
|---|---|
| `NeverAsleep` | `Spec => []WatchdogAwake` |
| `ImplementsLink` | `Spec => IsALink` |

The stack of logins is the difficulty: the invariant says which of the nested
logins the loop belongs to, and that a retry under way is one of them, be it in its
loop or in a dialog.

### TradingDay

| Theorem | Statement | Assumption on the settings |
|---|---|---|
| `TypeCorrect` | the types; no stale price of a holding, no sale under way of what is not owned | |
| `DeepLosses` | `Spec => []DeepLossSold` | `ShallowStops`: the stops, relaxed as early as the code relaxes them, are no deeper than 6 percent; the shipped values reach this exactly |
| `GapsJudged` | `Spec => []GapJudgedLater` | the closing strategy's window opens after 09:30 (shipped: 14:50) |
| `NoReentry` | `Spec => NoReentryAfterStop` | `TargetsAbove`: no target lies below the price paid |
| `DecidedAtNineThirty` | `Spec => OvernightDecided` | |
| `DayTradesEnd` | `Spec => []DayTradesClosed` | the clock has 00:00 and 15:20, where the timer clears its flags and sells |

The argument. `Typed` joins the types with the soundness of the books. The day's stop is
`Remembered`: a code sold at a loss is in the strategy's dictionary, and what a restart
would read back is in the file. `BoughtLate` says that an overnight holding was bought
in the closing window, `ForcedWorks` that a sale the timer has asked for is under way,
and `Closing` that from 15:20 on a day trade of before is being sold or has been left
over by a sale that ended after the closing (`LeftOver`). Each is inductive only
together with `Typed`. Days and minutes are compared through a lemma on division by
1440.

### Signals and EntryRules

| Theorem | Statement |
|---|---|
| `LossesAreQuiet` | `Spec => []QuietAfterLoss` |
| `StrengthNeverCosts` | `Spec => []StrengthHelps` |

`QuietAfterLoss` is inductive together with `Remembered`: the table of losses that
`_emit` reads is the record of the sales themselves, over a restart as well.
`StrengthHelps` is about the rules alone and is proved for every snapshot, not only
for the ones of the run: lemma `StrongerBuys` goes through the nine strategies gate
by gate.

### Charts and Universe

| Theorem | Statement | Assumption |
|---|---|---|
| `TypeCorrect` | `Spec => []TypeOK`, with the bound on the chains | |
| `BetterRowKept` | `Spec => []BetterRowFirst` | a ranking has at most 200 rows (fetch_opt10030_top_volume 362; the shipped value is 100), each stock once |

Three layers. A strict total order on a finite set ranks it without gaps or repetitions
(`RanksAreOnto`); so sorting (`Places`, `FirstPlaces`) and filtering (`FilterKeeps`)
lose and invent nothing. Every part of the score grows with what it measures
(`RankScoreGrows` and its users); the score of the change grows strictly as long as a
rank is worth at least one thousandth, which is what the limit on the rows gives, and it
decides between rows that tie elsewhere. `Typed` strengthens the types by one fact about
the chains: while a call waits for its chart there is room for its successor, since a
scan needs the slot to be free.

### MarketData, Candles and Indicators

| Theorem | Statement |
|---|---|
| `BarsAreTheTicks` | `Spec => []BarsMatchTicks` |
| `BuyersAreNeeded` | `Spec => []BuyersNeeded` |
| `HigherPricesHelp` | `Spec => []RiseHelps` |

For all ticks, order books, charts of the server, lengths of window and histories, and
periods. The assumptions are those of the three modules: a chart is a list of bars that
contain their closes, not longer than the window (`ConstantsAssumption`); periods are
positive, the trend's at least 2, and the daily ones do not decrease
(`PeriodsAssumption`; the code has 5, 10, 20); closes are naturals (`DailyAssumption`).

Averages and sums are recursive functions, and the library's induction rules cannot be
used. Their place is taken by sets: every nonempty set of numbers has a least element
(`LeastElement`, from the well-foundedness of `<`), so a set with 0 that is closed under
successors up to n holds 0..n (`UpTo`). With that the recursive functions are shown
to exist and to obey their equations (`SumsExist`, `AveragesAre` and their users).

*Bars.* `IInv` adds `Ordered` to the property: ticks are in order of time, the last of them
is of the minute in progress, that minute is not in the future, and the volume the bar
started from is the one known before it. The property reads the ticks as the processor
sees them (`seen`), the second day's on the first when the processor goes on with its
bars; `ProcessIs` and `SeenGrows` show that `seen` grows by one tick, in the minute
where the processor puts it (`Here`), and changes no other. A tick is the first, one in the same minute or
one in a later minute (`FirstTick`, `SameMinute`, `NewMinute`). The list of covered minutes
grows by exactly the minutes it adds (`AddedIs`, `CoveredGrows`), the bars of those before
do not change, and cutting to the window first makes no difference (`LastOfLast`). The
other actions leave ticks and bars alone or drop both.

*Buyers.* Each of the primary signs is 0 for a history that does not rise (`NoBurst`,
`NoReversal`, `NoAcceleration` and others); without one `Supported` fails.

*Rises.* A full history with one more level is its tail with that level (`StayingIs`),
so a lower level is compared with the levels it joins (`MomentumFalls`, `WatchFalls`).
The RSI is a share of gains, which grows with the last gain and shrinks with the last
loss (`LargerShare`). A slope compares an average with the one before the last bar,
which does not change. The trend needs arithmetic: when the last close rises by r, its
distance to the average grows by r (1 - 2 / (EmaPeriod + 1)) and the average true range
by at most r / AtrPeriod, of which the trend asks 0.3, so a close that cleared it still
does (`EmaRises`, `AtrRises`, `StillAbove`). A daily mean includes today's price, so it
rises less than the price does (`MeansStay`).

### Feedback

`ParametersMoveCarefully`: `Spec => CarefulSteps`, for any bounds, days and places
where a run is cut off. The guards are applied per proposal and the last one wins, so
the proof follows one parameter through all proposals of a day and shows that each
starts from the value of the morning.

### Model-checked only

* The liveness properties: `SellWatchdogReleases`, `CooloffEnds`, `LossLockReturns`,
  `RequestsEnd`, `BookConverges`, `CashConverges`, `WatchdogDecides`, `HeldIsQuoted`,
  `JdmHeard`, `FreshUniverse`, `ChartsArrive`, `Recovers`. Fairness and ENABLED are out of
  the prover's reach.
* Liveness only: every invariant and every action property of the runs, and both
  refinements, are theorems.

No theorem assumes more than the named assumptions of its module's constants and what
its table says. The modules with theorems, and those they use, declare no recursive
operator.

## Observations

Places where the code differs from what a comment or a document says, or where a
limit of it shaped a model. They are behaviours of the models, not of the runs'
properties, except where a property's statement names them.

Orders and limits

* order_manager.py 950-951: a stop loss is marked before its order is sent ("already on
  the list = sale already issued"). When the order is refused, or the hours check
  rejects it, later ticks take the code for sold; the exit loop's hard stop sells it.
* The guard against repeated sale reports drops the second report of a sale filled in
  two parts; a sync corrects the position.
* A replayed signal for the code just sold is taken out of `_pending` again, so its slot
  is given away twice (1942-1957).
* `handle_signal` may wait for a price after its checks (754); a breaker or block that
  comes meanwhile is not seen.
* A balance sync replaces the positions and nothing else (543, 602). A code that a reply
  misses loses its position, while `_force_sell_issued`, `_pending` and
  `_pending_sell_time` keep it. A report that comes then is an orphan and returns before
  any clean-up (1888-1895), and `is_pending` is asked for held codes only. So the lock
  keeps the code from being bought again; if it is held again all the same
  (a later sync, a manual buy), the forced-sale record answers "already issued" to its stops.
* `on_order_msg` understands two refusals (367-372). After any other the lock stays and,
  for a buy, the awaited shares: the lock of a sale goes by its clock, the one of a buy
  stays until a fill, a restart, or a later order of the code that ends it.
* A buy fill between a forced sale and its own fill leaves a record that no forced sale
  gets past; the watchdog looks at `_pending` only (1104).
* A buy that never fills keeps its slot: `_check_pending_buys` (1482) has no caller that
  is called.
* The end of a cool-off opens what the profit target had closed, until the next `check`
  (risk_manager.py 151 against 118/154).
* A waiting signal is replayed behind the target lock (order_manager.py 1945 against
  trading_controller.py 239), and before the sale that loses the limit takes the loss
  lock (risk_manager.py 65).
* A market buy carries price 0, so `available_cash` (318-348) never counts it.
* Balance 0 never syncs positions (584-587); an empty or failed holdings reply reduces a
  real account's cash twice (590-599) and never clears positions (589).

The trading day

* `entry_end_time` is 10:00 by default (config.py 102) while the closing strategy's
  window is 14:50 to 15:20 (484-485): with defaults it never enters. The run uses the
  value before that default, 15:30.
* market_scheduler announces "auto trading off" at 15:20; nothing turns it off. The comment
  before it (162-163) promises a liquidation in every minute from 15:15 to 15:20 by a timer of
  the main window. There is none: the one `market_closing` at 15:20, behind
  `_closed_today` (166-169), calls `liquidate_all_positions` and the exit loop once
  (main_window_slots.py 311-319), and nothing tries again what fails or what is sold in part.
* A second sale of the same shares is refused with 800033 and makes the program forget the
  position; a sync that finds the shares again knows neither entry time nor strategy, and
  neither the exit loop nor the closing sells such a position; only the stops on ticks do.
* Tick trailing stops, gap stops and time cuts are not written to the loss file: after a
  restart the code may be bought again the same day. `NoReentryAfterStop` names the
  exits that are.
* A restart drops the marks of overnight holdings; a gap sale swallowed as "already
  issued" leaves a holding neither sold nor marked as kept.
* The midnight reset needs the timer to fire in the one minute 00:00 of a weekday; the
  coarse timer may miss a one-minute window.
* The time cut's exemption reads `Position.vel_ratio`, which does not exist (config.py 503).

Signals

* With the defaults (`yosep_trend_enabled` False, overnight False) JDM_ENTRY is refused
  during the opening (jdm.py 595), and after it the second resistance reads a
  field StockSnapshot lacks (607); the shipped adaptive parameters avoid both.
* JDM signals with an unknown leading score although jdm.py 529-530 calls it mandatory.
* During JDM's 60 s cool-down the loop goes on to JDM_ENTRY_EARLY (against
  jdm_entry_early.py 21-22).
* A signal that `_emit` drops has already started its strategy's cool-down, and blocks the
  strategies after it for that round.
* `pullback.py` 40 and `gap_pullback.py` 142 read `snap.vel_ratio`: these two strategies
  never signal.

Universe, charts and bars

* The scan drops every falling share (smart_scanner.py 1835), the pre-filter keeps those down
  to -1.5 percent, and config.py 97 says that slight falls are included.
* The score is not monotone where a pace is missing: a row without one scores a half
  (universe.py 193), more than a row with a small one. `BetterRowFirst` asks for both.
* One retry counter is shared by all chart chains (2169), so "at most 3 retries" does not
  hold of each; codes restored from the cache and aborted chains never get 60-minute
  charts.
* The first six codes that need charts are asked for at every scan (1919): codes that the
  server never delivers keep those behind them out. `ChartsArrive` speaks of the first of
  the universe.
* A nested fetch that is refused takes the flag of the outer one down (1520, 1574).
* Volume is approximated from the cumulative amount and the current price (about 1177),
  so bar volumes jump when a price falls.
* A bar is completed by the next tick, so no indicator sees the minute in progress; loading
  bars from the server repeats or loses the current minute.
* The momentum of an old fall that leaves the full history is higher than before
  (.25, then .30), even while the level falls; its thresholds differ from its docstring.
* The docstring of `get_leading_score` lists as sufficient alone a wall of asks that falls
  (indicator_service.py 514) and a strong index (516, "may enter alone in a falling market").
  The code asks a sign of buyers beside each of them, and its comments say why (574-580).
  `BuyersNeeded` holds the code to the comments.
* `TickToCandleProcessor` compares hour and minute only (snapshot.py 35-41, 51-58): on a
  program that runs overnight without a load, the first tick of the next day at the minute
  of yesterday's last goes on with yesterday's bar, and one at a later minute fills flat
  bars between the two.
* `get_daily_candles` says "newest first" in its docstring and "past to newest" at its
  return; `get_snapshot` takes the first row as yesterday's.

Connection and gateway

* Answers are told apart by request name alone (kiwoom_api.py 1297): a late one may be
  taken by the next request of that name, and a wrapper that does not look at the
  return value reads another's buffer (1101).
* A late OnEventConnect(0) resets the gateway's account (1209); the watchdog is started
  before the first login, so it may log in inside it (main_window.py 96).
* After a restore the codes already in the subscribed set are not registered again
  (connection_watchdog.py 158-169: `refresh` adds what is not in the set), though lines
  9 and 153 say that the registration is restored. The control has forgotten them, so
  they get no quotes until a refresh drops them from the set and a later one takes them
  up. Calls while the connection is down enter codes in the set just the same.
* A removal by the worker between the two halves of `_sub` (queue.py 150-171) leaves a
  code in the set that is not registered, for as long as it is wanted.
* A retry whose login opens the account dialog or the warning (login_manager.py 319-320,
  338) waits there for the user, with the connection counted as lost and no timer
  running.

Feedback

* Once `entry_end_time` is written, its text breaks the loop at every later run, for good.
* `_count_consecutive` does not check the days between the last entry and today, though its
  docstring says that old signals do not add up.
* A proposal clamped by its bounds is not recorded as pending, so it is not applied the first
  time; the limit of a fifth is applied after the bounds and may leave a shipped value
  outside them.
* Names are matched as substrings (1149-1150), so a proposal for one parameter suppresses
  others.

## Not modelled, and the plan

* User interface, reports, notifications, logging, diagnostics, backtests and offline
  analysis: they read state and change none that the models have.
* `MarketScheduler` and `AppState` are in `TradingDay` and `RiskManager` as far as they
  decide trades; their report triggers and widgets are not.
* PositionSizer (arithmetic on cash, which the order model does not have), news and condition
  search, the AI filter (a rejection that may come at any time), the process watchdog.
* Rollback of parameters, and file reads that fail, in the feedback loop.

Next: the non-temporal halves of
`BookConverges` (what a rebuild keeps of a position) and of `HeldIsQuoted` (who may
remove a held code); a composition of `RiskManager`'s gate with `OrderManager`'s orders.
