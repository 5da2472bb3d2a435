# Formal specification of tio-indodax

A spot trading agent for the Indodax exchange: every five minutes it fetches the
market, asks a strategy and a risk manager what to do, and sends limit orders
(mode `live`) or simulates them (mode `paper`). State that must survive a
restart is kept in SQLite. This directory holds TLA+ modules of the parts whose
correctness depends on order, time and failure, TLC configurations that check
them, and proofs of the theorems that matter most for the account.

Line numbers below and in `PROJECT.json` are those of `src/`.

## 1. The system

One Python process (`agent/main.py`) runs one asyncio loop. On it run the
trading cycle (APScheduler, `max_instances=1`), the clock check, the Deadman
heartbeat, the reports, and the Telegram poller, which handles one command at a
time. **They interleave at `await` and nowhere else.** What a task read before
an `await` may be stale after it. SQLite commits one transaction per database
call, so a crash leaves a prefix of a handler's calls. Beside it two timers start
short processes of their own: the watchdog and the skills pipeline, which trades
on the same exchange account.

| Component | State | Operations | Hard behaviour | What makes it correct |
|---|---|---|---|---|
| Live executor `execution/executor.py`, `exchange/trade_client.py` | tables `orders`, `fills`, `stoploss_events`; the ledger in memory; the exchange's own orders | `execute`, `check_resting`, `cancel_pair`, `cancel_all`, `_resolve`, `_apply_state`, `_fill` | answers are lost, requests arrive late, `/kill` runs inside a cycle, a crash between two transactions | no live order unwatched, each execution booked once, only own coin sold, every entry settles |
| Runner, status `runner.py` | `status`, `pause_reason`, peak equity | `_cycle`, `_live_checks`, `_auto_pause`, `update_clock`, `/pause`, `/resume`, `/kill` | five causes share one reason; the status is read once and used after awaits | the owner's stop sticks, HALTED is left only by `/resume`, self-made pauses end |
| Runner, figures and messages `runner.py`, `engine.py` | peak and day-start equity, recorded capital; marks of what was announced | `_rebase_capital`, `_book_day`, `reset_peak`; `_pm_messages`, `go_live_review` | one change is several transactions; two cycles share the marks | a change of the capital is neither a loss nor a gain; nothing is told twice or marked untold |
| Decision engine and risk manager `engine.py`, `risk/risk_manager.py`, `strategy/strategy.py` | a snapshot (`RiskContext`) updated by each approved decision | `run_cycle`, `evaluate`, `check_account`, `propose_entry` | decisions are judged one after another against an estimate of what the earlier ones will do | limits hold for the sum of what was approved, a stop-loss can be sold |
| Paper broker `backtest/paper_broker.py` | orders, fills, ledger | `execute`, `check_resting`, `cancel_all` | a crash between the calls of one fill; an exception in the middle of a cycle | a decision is executed once, stops keep working |
| Backtester `backtest/backtester.py` | tables, ledger, list of trades, pending orders | `_run` and its `fill`, `market_order`, `limit_order` | partial fills, exits in parts, halts | three accounts of the same trading agree |
| Ledger `portfolio/portfolio.py`, `persistence.py` | cash, positions, stops | `apply_fill`, `raise_stop`, `rebuild_portfolio`, `save_stops` | replay by timestamp | the ledger is the sum of the fills table, stops survive |
| Portfolio manager `portfolio/manager.py` | stored plan, last checked close, maker attempts | `propose`, `_targets`, `_make_plan` | several state writes per plan, incomplete markets | sells settle before buys, no plan without data, no daily close is lost |
| Deadman Switch `execution/deadman.py` | failures in a row; the timer at the exchange | `beat` | lost heartbeats against the timer | the agent knows it is unprotected before the timer fires |
| Reconciliation `execution/reconcile.py` | none | `reconcile` | reads race fills; the skills trade on the same account | a mismatch stops orders, and only a mismatch does |
| Clients `exchange/*_client.py`, `rate_limiter.py` | the window of recent calls | `acquire`, `_get`, `legacy`, `call`, `place_limit`, `cancel`, `ohlc` | retries, time-outs, late arrivals | the limit holds, non-idempotent calls are sent once, "cancelled" is true |
| Market data `data/market_data.py`, `exchange/models.py` | the candle cache | `candles`, `fetch`, `closed_only`, rounding to steps | windows cut silently, forming candles, two fetchers | exactly the closed candles; orders the exchange takes |
| Startup and gate `main.py`, `execution/live_gate.py`; Telegram `reporting/telegram_bot.py` | stage of the process, the link | `run`, `_shutdown`, `check`; `ensure_started`, the commands | outages, restarts, messages that wait | nothing trades live before the gate passes, a command acts on the agent it was given to |
| Watchdog `ops/watchdog.py`, `scripts/watchdog.py` | file of the last alerts | `snapshot`, `detect`, `decide`, `main` | sends that fail or arrive in part, a file cut short | a lasting problem is told every `realert_minutes` |
| Order check `scripts/live_order_check.py` | an order on the real account | tests A and B, clean-up, `--cancel-order` | every call may fail before or after it took effect | PASSED leaves nothing behind |
| Skills `scripts/skills.py` | their book and fence | `write_fence`, `agent_claim`, `fence` | three reads of an account that moves | the agent's money is not theirs |
| Analysis, configuration, dashboard, reports, backup | views and numbers | | | see "Not modelled" |

The interaction of the core, in one cycle: `fetch_markets` → `check_resting`
(look every open order up, book what filled, cancel what outlived its TTL) →
`_live_checks` (reconcile, Deadman) → engine (propose, judge, record) → `execute`
for each approved decision → kill switch or daily stop → save → messages. A
command may run at every arrow and inside most of the boxes.

## 2. Modules

| Module | Models | Kind |
|---|---|---|
| `OrderBooking` | what the executor promises about its books | abstract specification |
| `LiveExecutor` | the executor, the exchange behind it, its tables and ledger, crash and restart | component |
| `PendingGrace` | the clock arithmetic behind `pending_grace_s` | component, timed |
| `ApiCalls` | rate limiter, attempts and transport of one call | component, timed |
| `AgentStatus` | status and pause reason under cycles, clock job, commands, crash | component |
| `AgentProcess` | start, jobs and stop of the process; the Telegram link | component |
| `Bulletins` | the messages marked in the database | component |
| `CapitalRebase` | peak and day start under a change of the capital | component |
| `Deadman` | the Deadman Switch against the exchange's timer, with start, shutdown and death of the process | component, timed |
| `PaperTrading` | the trading cycle in mode paper: engine, risk manager, portfolio manager's order of sells and buys, paper broker, ledger, restart | composition |
| `PortfolioPlan` | the stored plan over the days, the candles it reads, the orders that carry it out | component |
| `Backtest` | the backtester's loop and its three accounts | component |
| `SharedAccount` | reconciliation and the skills' fence on one account | composition |
| `CandleFeed` | cache and chunked request of candles | component, timed |
| `OrderNumbers` | steps, minimum, size of an entry, what is read of an order | arithmetic |
| `OrderCheck` | the script that tries the order interface | component |
| `Watchdog` | the alerts of the watchdog | component |
| `SetSums` | sums over finite sets: order, one more summand, bounds, shares | lemmas |
| `LiveExecutor_proofs`, `AgentStatus_proofs`, `PortfolioPlan_proofs` | theorems about the module named | proofs |
| `Backtest_proofs` | theorems about `Backtest` and `SharedAccount` | proofs |
| `PaperTrading_proofs` | theorems about `PaperTrading`, and the types of all of `MCPaperTrading` | proofs |
| `Exchange_proofs` | theorems about `PendingGrace`, `ApiCalls` and `CandleFeed` | proofs |
| `Runner_proofs` | theorems about `AgentProcess`, `CapitalRebase`, `Bulletins`, `Deadman`, `Watchdog`, `OrderCheck` and `OrderNumbers`, and the types of all of `MCServices` | proofs |
| `MC*` | instances for TLC | model-checking |

`LiveExecutor` refines `OrderBooking` (`BooksExactlyOnce`). `LiveExecutor` takes
one fact from time: an order is not still on its way when it is overdue
(`BecomeOverdue` needs `o \notin wire`). `PendingGrace` is where that fact comes
from; that a submission is sent once, and that a cancel which returns has
removed the order, is what `ApiCalls` checks. `AgentStatus` abstracts what the
executor does in a cycle to the one event it needs: an entry is sent.

`MCServices` and `MCPaperTrading` check several parts in one run. The parts share
no variable: `subject` is chosen at the start, only that part moves, and the
others stay in an initial state. The reachable states are the disjoint union of
those of the parts; an invariant of one part holds trivially while another is the
subject. `Types` is the type invariant of the part that moves.

### LiveExecutor

* `exch`, `wire`: the exchange's side. `wire` holds a submission from the moment
  it is sent until it arrives or is lost, so an answer that is lost
  (`SubmitUnknown`) leaves an order that may come to life later.
* `row`, `trades`, `booked`, `saved`, `stoplosses`: the tables. `held`, `stop`:
  the ledger in memory. A fill changes ledger and `fills` in one step
  (`BookFill`), because a crash before the commit loses both; each later
  transaction (`RecordStoploss`, `SaveStops`, `UpdateRow`) is a step of its own.
* `pc`, `cur`, `todo`, `seen`, `reply`, `back`, `decision`: where the two tasks
  (`cycle`, `command`) are and what they keep in local variables. Places in
  `Awaiting` are awaits; in `Running` a task holds the loop and no other task
  moves (`HasLoop`). `seen` is the row `_resolve` read *before* its lookup.
* Quantities count indivisible units, `Step` of which make the pair's
  `qty_step`; `FilledFor` rounds a partial fill down as the code does. An
  acknowledgement may report any part of what was executed as filled at once.
* A refused submission never reached the book (`o \in wire`); every other failure
  leaves the outcome unknown. The exchange may cancel a resting order at any time
  (Deadman timer, owner, a late cancel).
* Ages are measured from the start of a cycle, so `expired` and `overdue` grow
  only between cycles.

### PendingGrace

One order and a clock. A row is stamped with the start of its cycle, the request
with the time it is signed, and the exchange accepts it until `recvWindow` later.
`MaxDelay + Window < Grace` (the delays of one cycle plus 5 s against 300 s) is
the assumption under which "not found and overdue" means "will never be found".

### ApiCalls

Tasks that share a client queue for the limiter's lock; the first holds it, also
while it sleeps. The deque is the suffix, after `popped`, of the history
`granted`. A request leaves in the step in which its slot is granted; it stays in
`wire` until it arrives, which may be after the client gave up, or never. The
exchange takes a signed request until `RecvWindow` after its stamp, and a gateway
may answer "busy" before the exchange has acted or after. `Retries` is the one
place that knows non-idempotent calls; `Succeeds` is what `cancel` makes of "not
found".

### AgentStatus

The stored status and reason, written by `_set_status` in two transactions
(`SetStatus`, then `WriteReason`), and every handler that reads or writes them.
The world (`clockBad`, `mismatch`, `deadmanBad`, `deep`, `loss`) changes on its
own; `seen` holds what the cycle has read. `owner`, `overruled` and `stopAge` are
history variables. A reconciliation may fail although the books agree, because
the balances could not be read. `/resume` from HALTED resets the peak when a
cycle has fetched markets since the start; the model takes the marks as complete.

### AgentProcess, Bulletins, CapitalRebase

* `AgentProcess`: `stage` is the place in `main.run`; `inbox` is what Telegram
  keeps, each message with the life of the process and the link it was sent in.
  `Linked` leaves `ensure_started`; `StartPolling` drops what waited.
* `Bulletins`: a cycle (`Writers`: the first one and the scheduler's may be in
  flight together) marks a plan before it is announced, reads the signals' marks
  once, sends, and stores its copy. `given` is what reached the notifier.
* `CapitalRebase`: equity is the capital plus what was won; `SetCapital`,
  `ShiftPeak`, `ShiftDay` are the transactions of `_rebase_capital`, `best` and
  `opening` the history the figures are compared with. A start that is cut short
  after the capital was stored is excused (`cut`), see the findings.

### Deadman

The exchange knows the time since the last heartbeat it took (`age`), the agent
the number of failures in a row. Time passes in ticks, and only while nothing is
overdue: every wait of the code has a bound that is a constant.

* `BeatDue` is the interval job (a run is skipped while the last one is under
  way), `Reaches` what the exchange does, `Retry` one more attempt of
  `_retrying`, `BeatOk`/`BeatFails` the two ends of `beat`, `Recovered` and
  `Alerted` what comes after the message to the owner, which is awaited inside
  the job.
* `LiveChecks` reads `healthy`; `SendEntry` may follow up to `EntryTime` later.
* `Preflight`, `Refused` and `SchedulerStarts` are the start in `main.run`;
  `Stop`, `CancelOne` and `Exit` its end, with the jobs still running; `Crash`
  is any other.
* A request is taken or lost within a tick; APScheduler runs a job on time (a
  run that is missed because the loop was busy for more than a second would
  count as one more interval). Failures are counted up to `FailThreshold + 1`:
  the code only compares them with the threshold.

### PaperTrading

One cycle is a sequence of places (`pc`): `resting` (`check_resting`), `exits`,
`trail`, `entries` or `manager`, `execute`, and inside a fill `filling`, `saving`,
`closing`, one for each transaction of `_fill`. The cycle holds the loop between
them; only at `idle` and in `entries`, where the engine awaits the LLM, can
`/kill` (`CancelAll`) or a restart come in between.

* `decisions` holds the approved decisions, `row` and `fills` what the tables say
  of each one's order (the client order id is made from the decision id, so one
  index serves three tables).
* `ctx` is the part of `RiskContext` that changes in a cycle: pending buys and
  orders counted. Positions and cash do not change between `BuildContext` and
  `execute`, so the model reads them from the ledger.
* What a strategy proposes, and a veto that rests on prices, cooldown or minimum
  sizes, is a choice: a proposal that is vetoed changes nothing. `SlotFree`,
  `Room`, `Sized` and `RateAllows` are the code's own arithmetic; the cap per
  asset has the shape of the cap per pair, the daily order limit that of the
  hourly one, and both are left out. A pair whose market could not be fetched
  acts as one whose price does not touch the order.
* Money is counted in `1/Den`, so that fees are exact. A fill is booked at the
  order's price; the code books the average over the levels it took, which is
  never worse.
* Status, halts and daily stops are in `AgentStatus`.

### PortfolioPlan

Time is counted in days, and only differences of dates are kept: how far the
cached candles of a coin are behind (`lag`), how long ago the plan was made and
validated, how far behind the examined close is (`checked`). `seen` is the close
of the cached candles against the trend line: above, within the buffer, below.

* `Cycle` is a trading cycle: `Plan` is the first half of `propose` (due, new
  close, changed recommendation, revalidation), `Trade` the second (sells, or
  buys when no sell is proposed or open) and what the risk manager and the
  executor make of it: each proposal may be vetoed, resized or fail.
* `TornCheck` and `TornPlan` are cycles that die, or raise, between the two
  writes of an examination. `torn` is a history variable; the properties excuse
  what a plan does until the next complete examination.
* `NewDay` is a daily close; a candle that has not arrived at the first fetch of
  the day is missing until the next day, or until a `Restart` empties the cache.
* `Fill`, `Expire` are orders between cycles. A sell that `waits` is passive or
  not known to be placed; the manager sends no second one for its coin.
* Money is counted in lots, and the coins in trend share the capital alike
  (`Weights`); the real weights are floating-point statistics. What the
  properties tell apart is zero, more and less. The `_maker` clock is one
  choice per order (`waits`).

### Backtest

One step per candle: `match` (orders of the step before, `StartStep`,
`FillPassive`, `ExpirePassive`), `intrabar` (stop or target), `day`, `engine`
(`NothingApproved`, `Rest`, `Thin`, `Take`), `after`. Whether a candle crosses a
price, the depth it offers and what the engine decides are choices. `pos` is the
ledger, `btOrders` and `btFills` the tables, `openTrade` and `closedQty` the list
of trades. `Raises` is the uncaught "buy exceeds agent cash".

### SharedAccount

`free` and `locked` are the exchange's balances, `mine` the agent's ledger,
`book` what the skills believe they own, which may be more than the account has
beyond the agent's part: that is what the fence is for. The agent's cycle is
`SyncOrders` (check_resting), `Reconcile`, `SendOrder`; the skills read book,
account and the agent's database in three steps and trade within what they
computed. `Quiet` keeps fills away from these reads.

### CandleFeed and OrderNumbers

* `CandleFeed`: a candle is its open time and whether it was final when it was
  fetched. `AskCandles` computes the window, `FetchChunk` a chunk,
  `Gathered` joins, drops the forming candle, keeps the newest and fills the
  cache, which a slower request may overwrite. The VPS clock may be behind the
  exchange's, not ahead (see the findings).
* `OrderNumbers`: `RoundPrice`, `MinQtyAt`, `Acceptable` are `PairInfo`;
  `PlannedOrders` the order check; `StopLevels`, `EntryQty`, `StaysSellable`,
  `StrategyEntries` the entry from the strategy through the risk manager to
  `place_limit`; `Told` is how the exchange states an amount and `FilledFor` what
  `filled_for` makes of it, at every moment of the order.

### OrderCheck and Watchdog

* `OrderCheck`: the steps of the script; `Raises` lets a call fail before or
  after it took effect, `Killed` ends it anywhere, `CancelOrder` runs it again.
* `Watchdog`: `Look` reads the facts and builds the messages, `SendMessage` and
  `SendFails` send them one by one, `Finish` writes the file, `RunDies` may cut
  it short. `delivered` is what the owner has seen.

## 3. Runs

| Run | Checks | Bounds |
|---|---|---|
| `LiveExecutor_full` | `RejectedNeverLive`, `ClosedRowIsClosed`, `NoFillLost`, `SellStandsAlone` with commands inside cycles and crashes between any two transactions | a buy and a stop-loss sell of one pair, 2 units, 1 crash |
| `LiveExecutor_alone` | `SellsOnlyItsOwn`, `ProtectionKept` (stops and cooldowns survive), refinement `BooksExactlyOnce`, when a command never overlaps a cycle and the process dies only at awaits | a buy, a stop-loss sell and a maker sell, fills of half a `qty_step` (dust), 1 crash |
| `LiveExecutor_settle` | `EntriesSettle` under fairness | one buy, overlapping commands, 1 crash anywhere |
| `LiveExecutor_overlap` | violation: `NeverDoubleCounted` | one buy, no crash |
| `LiveExecutor_stopless` | violation: `PositionsKeepTheirStop` | one buy, 1 crash |
| `AgentStatus_safe` | `OwnerStopSticks`, `HaltNeedsResume`, `StopBindsNextCycle`, `DeadmanBlocksEntries` | all five faults, 2 days, 1 crash anywhere |
| `AgentStatus_lift` | `AutoPauseLifts` under fairness | clock, losses, failing reconciliations, 2 days, 1 crash at an await |
| `AgentStatus_clock` | violation: `ClockPauseHolds` | clock and books |
| `PortfolioPlan` | `Affordable`, `BuysFollowTrend`, `NoMistakenSell`, `ExitsPlanned`, `ExitsHappen` under fairness | 2 coins, 2 lots, weekly plan 2 days, valid 1 day, candles up to 1 day late, restarts and torn examinations; no coin missing from a cycle (see the findings) |
| `PaperTrading` | `Types`, and of `PaperTrading` `LedgerIsFills`, `CountsBounded`, `BuysWithinLimits`, `SellsSettleFirst`, `StopsOnlyRise`; of `Backtest` `BooksAgree`; of `SharedAccount` `MismatchIsOwnFill` | 3 pairs, the price of one moving between 1 and 3 and standing for the others (interchangeable), 2 positions, 2 orders per hour, 3 approved decisions, both modes, 1 crash at an await; backtest: 2 pairs, orders of 1 or 2 lots, 3 candles, 3 orders; account: 1 coin, 2 orders of the agent |
| `Services` | `Types`, and one property per part: `RejectedStaysOut` (`PendingGrace`), `WindowBounded`, `OneOrderPerCall`, `CancelledIsGone` (`ApiCalls`), `EntriesGuarded`, `DeathClearsEntries` (`Deadman`), `PassedIsClean`, `CommandsAreFresh`, `NoneTwiceNoneSkipped`, `CapitalIsNoLoss`, `FeedIsExact`, `AlertsRepeat`, `NumbersSound` | see below |
| `SharedAccount_race` | violation: `AgentCovered` | 1 coin, 2 orders of the agent |

Why the bounds are enough. The executor treats orders one at a time and couples
them only through the pair (a sell replaces older orders of its pair and sells
what the ledger holds), so a buy and two sells of one pair meet every coupling;
two units of quantity give no fill, a partial fill and a complete one, and with
`Step = 2` dust as well. One crash is enough for each hazard in the list: every
one is about what a single restart finds. In `AgentStatus` every cause of a
pause appears alone and together with every other. In `PaperTrading` three
decisions are enough to buy, rest a sell and be stopped out before it fills, or
to approve two buys and meet a third of an earlier cycle; the limits are smaller
than what three decisions ask for, so each of them binds. Three candles let the
backtester buy, rest a sell that fills in part, and stop the rest out.

The parts of `Services`:

* `PendingGrace`: Grace 6, Window 2, MaxDelay 3, the tight case, 10 ticks.
* `ApiCalls`: 2 interchangeable tasks, 2 calls each (a submission and its
  cancel), one retry, a limit of 2 per 2 ticks, `recvWindow` 1, 3 ticks: both
  tasks meet a full window, and a request is taken late or not at all.
* `Deadman`: the tight case of `TimesFit`: heartbeat 2, threshold 2, start,
  heartbeat and entries 1 tick each, countdown 8; 2 pairs. Clocks are ages, so
  nothing else bounds it.
* `Watchdog`: the heartbeat and the skills in trouble, told again every 2 runs,
  4 runs: an alert, one that is due again, and a failure in between.
* `AgentProcess`: 2 starts, 2 messages, alert after 3 errors.
* `Bulletins`: one coin, both cycles, one plan, two days, one restart.
* `CapitalRebase`: capitals 2 and 3, gains and losses of 1, two days, one start
  cut short.
* `CandleFeed`: 2 fetchers, candles of 3 moments, 2 bars, windows of 5 with
  chunks that do not end on a candle, 7 moments, a clock that is 1 behind.
* `OrderNumbers`: prices of about 20 ticks, so that a stop is a few ticks away
  and rounding can lose one; lots of 3 units; sizes that the minimum, the budget
  or the room decides. With a price of very few ticks the rounding of the
  emergency exit alone exceeds the code's margin of 1.2; the pairs the agent
  trades have thousands of ticks.
* `OrderCheck` is finite by itself.

Deadlock is checked in every run: no bound on days, ticks or crashes and no
combination of waiting tasks leaves a model without a step.

### Findings

* `LiveExecutor_overlap`. `_resolve` computes what is new in an answer from the
  row it read before it awaited the lookup. `/kill` during the same window does
  the same, and when the two answers differ both parts are booked under
  different trade ids. The ledger then holds more coin than was bought.
* `LiveExecutor_stopless`. `record_fill` and `save_stops` are two transactions;
  after a crash between them the position comes back without its stop. The same
  window makes the next lookup book the execution again (the row still has the
  old `filled_qty`); `LiveExecutor_full` allows this crash, and `NoFillLost`
  bounds the books from the other side only.
* `AgentStatus_clock`. There is one reason. While the agent is paused for a
  failed reconciliation, `update_clock` finds the clock off and sets nothing;
  when the reconciliation succeeds, `_auto_pause` sets RUNNING with a bad clock.
* `SharedAccount_race`. The fence compares the account with the agent's fills
  table. A sell of the agent that has filled and waits for the next
  `check_resting` has its IDR on the account and not in the table; if the skills'
  book says more than is theirs, they are given that IDR. While no such fill
  waits (`Quiet`) the fence holds, which one sees by `Quiet = TRUE` in this run.

Seen while modelling and not run:

* Decisions are approved with the status of the moment the engine is called, so a
  cycle still sends the entries it has left after a `/kill` (`runner.py:249`; "In
  HALTED only emergency exits pass", `risk_manager.py:20`), and
  `StopBindsNextCycle` is what holds.
* A cycle halts the agent for a drawdown it computed before a `/resume` that has
  reset the peak since (`runner.py:258`).
* A crash between the two writes of `_set_status` (`runner.py:130`) leaves PAUSED
  with the reason of an earlier state, which no check lifts; `AgentStatus_lift`
  therefore lets the process die at awaits only.
* Two buys are approved in one cycle; the second is sized to the cash less the
  *notional* of the first, although the reserve says "taker: worst case"
  (`risk_manager.py:291`). At the broker the first pays its taker fee too and
  `apply_fill` refuses the second (`Overdrawn`). The exception ends the cycle,
  the order stays NEW, and while the price touches it `check_resting` runs into
  the same exception at the start of each cycle, before the engine evaluates any
  stop-loss. The invariant `pc = "filling" => Payable` shows it within seconds.
* With a crash between `record_fill` and `update_order` (`TornCrash`) the
  restarted paper broker applies the fill to the ledger again while the fills
  table ignores its trade id, so `LedgerIsFills` fails.
* Fills that `/kill` books carry a later time than those of the running cycle;
  replayed by timestamp a sell may come before the buy it sold, and the rebuild
  raises at every start (`persistence.py:30`).
* `TimesFit` does not hold for the settings of the repository. A heartbeat that
  times out takes four attempts of 10 s with sleeps between them, and the job
  skips the runs that come due meanwhile, so the third failure is known about
  190 s after the last accepted heartbeat, while the timer fires after 120 s; the
  settings check only "At least 3 heartbeats must fit into one countdown window"
  (`config.py:131`). With a heartbeat of 4 ticks and an interval of 3 TLC violates
  `DeathClearsEntries`: the timer fires, a cycle that still finds the switch
  healthy sends an entry, the process dies, and the order stays.
* With `"fetch"` in `Failures` TLC violates `ExitsPlanned` and `NoMistakenSell`.
  A buy is open; in the cycle that examines the next close its coin cannot be
  fetched, and the plan is made without it. The buy fills. When the coin leaves
  its trend, 0 to 0 is no change: no new plan is made, though "at every new daily
  close the recommendation is computed again" (`docs/portfolio_manager.md:70`),
  and the coin is kept until the weekly plan. The other way round, the old plan
  with weight 0 is validated once more, the buy fills, and the coin is sold
  although it is in trend.
* A start that is cut short after the changed capital was stored and before the
  peak was shifted is not made up for: the next start sees no difference
  (`runner.py:106`). `CapitalIsNoLoss` excuses it (`cut`).
* `closed_only` compares with the VPS clock. If that is ahead, a candle that is
  still forming passes for closed and stays in the cache; `CandleFeed` leaves it
  out.
* When `start_polling` fails, `ensure_started` finds the Application running at
  the next attempt and `start()` raises (`telegram_bot.py:168`): the link stays
  off until the process is started again.
* The sellability of a stop-loss is checked for the whole quantity
  (`risk_manager.py:318`). An entry that is cancelled after a small part was
  filled leaves a position that the exchange refuses to sell.
* A backup that dies while it compresses leaves a truncated newest file, which
  the watchdog counts as a fresh backup (`ops/backup.py:36`).

## 4. Fairness

`LiveExecutor!Fairness`: a task that holds the loop goes on (weak; asyncio runs a
ready callback). A cycle that is ready gets the loop although commands keep
coming (strong; the ready queue is first in, first out). The scheduler starts a
cycle again and again, a request ends, time passes, and a lookup or a cancel that
is asked again and again is answered in the end: the exchange may fail any finite
number of times in a row. No fairness is assumed of matches, of commands or of
crashes.

`AgentStatus!Fairness`: the jobs run for ever and each await ends; a cycle does
not fail for ever in `fetch_markets`, and reconcile does not for ever fail to
read the exchange. `AutoPauseLifts` needs strong fairness for the cycle's steps
because the clock job and commands run between them.

`PortfolioPlan!Fairness`: days pass, and days on which every candle is in time
recur (`SF_vars(NewDay({}))`); entries and passive sells are cancelled when their
TTL is over. A cycle that may sell a coin does not for ever fail or try only a
passive price (that is tried once per plan), and a sell at the bid is not for ever
unfilled: both strong, since a plan is valid only on some days. The exchange
gives no such guarantee for a coin nobody buys.

The other modules are checked for safety only and assume no fairness.

## 5. Proofs

`LiveExecutor_proofs` proves three groups of facts for any finite set of orders, any
pairs, quantities and `qty_step`, any number of crashes.

*The watch over open orders* holds in every setting, overlapping commands and torn
transactions included: `WatchInvHolds`, `TypesHold`, `RejectedOrdersStayOut`,
`ClosedRowsAreClosed`, `SellsStandAlone`. None of the three safety properties is
inductive: whether a row may be closed depends on an answer that is already in a
local variable, so `WatchInv` adds to `TypeOK` what the tasks rely on — a task works
only on orders that have a row and a command only on orders that have an id
(`WorksOnRows`, `CommandWorksOnIds`), an order is submitted once and an overdue one
is not on its way (`SubmittedOnce`), and what a task was told of a closed or unknown
order is still so when it acts on it (`AnswersHold`).

*The books.* `BookInv` says what the fills table holds of every order: an answer
never tells more than was filled (`AnswersKnown`), a row claims no more than is
booked and, once closed, no less (`BooksKnown`). For an entry this needs nothing
else: `NoBuyLost` holds in every setting. A sell is booked at most as far as the
ledger holds the coin, so a sell is booked in full only if the position covers what
is left of it. `NoFillIsLost` proves that no execution of any order is lost, except
where three things meet: a command inside a cycle (`Overlap`), a crash between the
transactions of one fill (`TornCrash`) and a pair that is sold twice
(`~OneSellEach`). The cover is an invariant of the one sell that a cycle has in hand,
or that is open (`Covered`): position and booked part make up the row's quantity.
That this sell is the only one of its pair to sell the position (`OneInHand`) is not
enough under overlap, since a command may hold a stale answer about a sell that
the cycle has closed meanwhile. It has nothing left to book then (`NothingLeft`):
the command was told a final state, which carries the whole execution
(`CommandToldFinal`), the row was closed with the whole of it (`RowsFull`), and what a
row claims beyond the command's own reading has a trade id that the command meets
(`SalesKnown`, which a torn crash breaks). All three conditions are needed: with
two buys and two sells of one pair of 3 units, `Overlap` and `TornCrash`, TLC finds
`NoFillLost` violated. A torn crash lets a partial sell be booked twice, the stale
answer of `/kill` about it waits while the cycle closes it, buys again and submits
the second sell, and then takes its remainder out of the coin of that buy, so that
the second sell is booked short. The double booking is the known one of section 3.
`Exact` adds that nothing is booked beyond what was
filled; it gives `NothingIsDoubleCounted` and the step refinement
`ExecutorBooksExactlyOnce` under `~Overlap` and `~TornCrash`, the setting of the run
`LiveExecutor_alone`. Both hypotheses are needed: `LiveExecutor_overlap` is the
counterexample to the first, and a crash between `record_fill` and the update of the
row makes the next cycle book the difference again.

*Ledger and protection.* `LedgerAndTableAgree`: in every setting the quantity of a
pair is the sum over its orders of what the table holds, bought less sold.
`AgentSellsOnlyItsOwn` follows from it with `Exact` and the clamp of `SellQty`.
`ProtectionIsKept` assumes `~TornCrash`; its invariant `Guarded` follows a fill
through `_fill` and `save_stops`. `LiveExecutor_stopless` shows what a torn
transaction does.

`SetSums` holds the lemmas on sums over finite sets that the ledgers need: the order
of the summands does not matter, one summand more, one changed, bounds, and the sum
over a set as the sum of its shares. The library's induction theorems cannot be
instantiated here, so each fact is proved by a smallest counterexample: among the
subsets of a finite set that refute it there is one of least cardinality
(`SmallestSubset`), and taking one element from it gives a smaller one. That
`MapThenSumSet` is defined at all (its fold is a CHOOSE of a recursive function) is
`SumsExist`.

`PaperTrading_proofs` proves six theorems for any finite set of pairs, any capital,
prices, sizes and limits, fees up to the whole value (`Taker`, `Passive` at most
`Den`), any number of decisions and of restarts. All assume `~TornCrash`, the setting of
the run: the process dies where it awaits. A crash between `record_fill` and
`update_order` makes them false (section 3). `Core` is types, what is in progress
and queued (`BookInv`: the order in the broker's hands is booked once, an approved
order waits once and has no row) and `Books`, the ledger as sums of the fills; from it
follow `PaperTypes`, `PaperLedgerIsFills` and `StopsAreKept`. The limits are
hard because they are tested before any order exists, on a context that each approval
updates: `RateInv` and `OpenInv` say that what the context counts is never less than
what exists and what waits to be created (`PaperCountsBounded`). `LimitInv` says the
same of values: while the engine decides, the value that the context promises covers
the pending and waiting buys of each pair and of the whole book, and is within the
limits once a buy waits; when a fill turns pending value into a position, price
improvement can only make the sum smaller (`BuysStayWithinLimits`). `SettleInv` says
what a buy of the portfolio manager finds: the one open sell is in the broker's hands,
and the sells that wait are marketable, so each is filled or cancelled before the next
order (`SellsSettle`).

`Exchange_proofs` proves `GraceInvHolds` and `GivenUpOrdersStayOut` for all times
with `MaxDelay + Window < Grace`. `GraceInv` relates the stamps: a row is stamped
at the start of its cycle, a request is signed at most `MaxDelay` later, so an
order that is overdue was signed more than `Window` ago.

It also proves `WindowHolds` and `OneOrderHolds` for any tasks, limit,
period, retries and delays. That no window holds more than `max_calls` slots is
not inductive, because it does not say which slots the deque has dropped:
`LimiterInv` adds that those are a period old (`DroppedAreOld`) and that the deque
holds at most `max_calls`; `GrantKeepsWindow` then compares the new slot with the
`max_calls`-th before it, which was dropped. For a submission, `SubmitInv` adds
that the queue holds each task once and only waiting ones (`QueueHolds`), that a
submission on the wire is alone and has opened nothing (`WireHolds`), and that one
which waits for its slot has nothing on the wire (`SubmissionsHold`).

`CancelledOrdersAreGone` needs more than the state of the call, because an attempt
that timed out may still be on the wire while the next one is answered. `CancelInv`
follows the order: it is known to the exchange as soon as it was opened
(`OpenedIsKnown`), a cancel is about an order that was opened (`CancelsOpened`), so
"not found" can only mean that it has left the book, and what has left the book does
not come back, whichever late request arrives (`CancelTold`).

`CandlesAreExact` is about `CandleFeed`, for any duration, lookback, chunk size, lag
and number of requests that overlap; of the exchange it assumes only that one answer
spans at least one chunk. `FeedInv` says what a request has gathered: of the candles
that were closed when it began, all up to its cursor and no other (`Gathers`). A chunk
begins where the last one ended, so the seam loses nothing (`Seam`), and an answer is
whole because a chunk is shorter than what the exchange answers (`AnswerIsWhole`). At
the end `Newest` must pick the last `Lookback` of them: it counts, for each candle, the
newer ones, so the proof numbers candles by their multiple of the duration and counts
an interval of numbers (`CountBars`, `NewestIsLast`). The cache is then exact for every
time with the same number of closed candles (`ServedIsExact`).

`Runner_proofs` proves `FreshCommands` for any number of starts, outages and
messages. What is carried out comes from the inbox, so `ProcInv` adds that while
the link is on everything that waits was written on it in this life
(`InboxIsFresh`) — opening a link drops what waited, which is what the proof rests
on — and that a process which is down has no link and handles nothing
(`DownIsQuiet`).

It also proves `CapitalChangesAreNoLoss` for any capitals greater
than `MaxLoss`, any number of days, gains and restarts. The property speaks of a
process that is up; `CapInv` follows the three transactions of a start and says
which capital each figure is based on between them (`BasisKnown`): before
`SetCapital` all on the stored one, then peak and day on `capital - shift`, then
the day alone. `RowsKnown` adds that a day has its row from its first cycle on,
`FirstStart` what an old database without a stored capital may hold. A start that
is cut short is excused by the property (`cut`); section 3 says what becomes of it.

`MessagesGoOutOnce` holds for any coins, cycles in flight, plans, days and
restarts. A plan and a review are marked before they are sent, a signal after;
`BulInv` says so for the window between: a plan that a cycle is announcing has not been
announced and no other cycle is announcing it (`AnnouncedOnce`), a review in the
sending is the first of its day (`ReviewedOnce`), and what is marked of a coin, or will
be by a cycle in flight, was given to the owner (`SignalsGiven`).

`EntriesAreGuarded` and `DeathsClearEntries` hold for all times with `TimesFit`, the
hypothesis of both theorems: a heartbeat is over before the next is due, and start,
`FailThreshold` intervals, one heartbeat and a cycle's entries fit into one countdown.
Neither property mentions failures, so neither is inductive. `DeadmanInv` bounds the
timer's age by the failures counted since (`AgeKnown`: each failure is one interval),
carries the bound over the start (`StartKnown`) and into a cycle that has read
`healthy` (`EntriesKnown`), and lets nothing renew the timer of a dead agent
(`DeadKnown`). The run checks the tight case; one tick less breaks it.

`AlertsAreRepeated` holds for any period and any number of runs. It compares what
reached the owner with what the file says, and the two drift apart whenever a run
fails: `WatchInv` says that the file is never ahead of what was delivered
(`FileBehind`), so an alert that was lost is due again and one that arrived in a run
that failed later is at worst repeated, and that a run in progress still has in hand
each alert that is due and not delivered (`DueInHand`).

`PassedChecksAreClean`: `OrderCheck` has no constants, so the run visits all its
states; the proof says why it holds. `SentSoFar` lists what cannot have been sent yet
at each step, `KnownSoFar` what the script knows while it can still pass: order A was
seen cancelled before B is bought, and a status that was read as final is final.

`NumbersAreSound` is about the arithmetic of `OrderNumbers`, for any ticks, steps,
minimum, reserve, prices, stops and rooms that satisfy two conditions. `StepCosts`: one
step of the quantity costs at least two IDR at a tenth and a tick below the bid. The
exchange tells amounts in whole IDR, so the fraction that `filled_for` computes is off
by up to one of them, and the step is what absorbs that (`FractionIsNear`,
`FloorIsNear`). `StopsFar`: at a stop, less slippage, there are six ticks, so that
rounding the exit down takes at most the sixth by which `EXIT_MIN_MARGIN` exceeds one
(`ExitPrice`). The code tests neither. The second is not for nothing: with a stop of two
ticks TLC finds an entry of 7 units which passes the test of `_evaluate_buy` and whose
emergency exit, rounded to one tick, is below the minimum. `NumInv` itself is small: an
order is in whole steps, a filled one is executed in full, what was read was executed.

`AgentStatus_proofs` proves the four safety properties of `AgentStatus` for any
set of faults, any number of days and crashes anywhere, those between the two
writes of `_set_status` included. `OwnerStopSticks` is not inductive: status and
reason are written one after the other, and a cycle acts on what it read before.
`StatusInv` adds which pair of values stands behind an owner's stop, also while
the second write is still due (`StopStands`); that a cycle which started under a
stop has read no RUNNING (`ReadLate`, from which `StopsBindNextCycle` follows);
and what keeps a cycle from entries after it saw a bad heartbeat, place by place
(`KeptBack`, which is `DeadmanBlocksEntries` made inductive). `HaltsNeedResume`
needs no invariant: every other handler tests for HALTED before it sets a
status, or sets HALTED itself. The only assumptions are those on the constants.

`PortfolioPlan_proofs` proves `BuysFollowTheTrend` for any whitelist, capital,
schedule, lag and all failures. The property is about one step, but the plan that
buys may be older than the candles of now: `FollowInv` adds that a plan gives
weight only to coins it counts as eligible (`WeightKnown`), and that, unless the
examination was torn, the candles of an eligible coin are no older than the
examined close and not below the trend if they are that close (`EligibleKnown`).
`NothingSoldByMistake` and `ExitsArePlanned` assume
`"fetch" \notin Failures`, which is what the counterexample above needs; `ExitInv`
adds that the plan covers every coin (`CoverKnown`) and that a coin whose candles
are the examined ones stands as it did then (`CandlesKnown`). That no coin is
bought above the capital (`BuysFit`) is part of the type invariant.
`PlansAreAffordable` is about the sum over the coins, with all failures allowed. The
two sums of `Affordable` change at every fill; `CommitInv` takes the sum of what each
coin is held and may still be bought, which a fill leaves as it is, and a plan is
sized so that its new buys fit into what that sum leaves of the capital (`SumPlus`
of `SetSums` adds the two functions).

`Backtest_proofs` proves `BacktestBooksAgree` for any pairs, order sizes, limits and
number of candles. The fills of a pair are found through the rows of the orders they
name, so `BtBooks` states the sums of the ledger and of the closed trades over the
fills, and is kept because a row never changes its pair and side (`Agree`,
`OnlyRows`) and a new fill is one summand more. That the open rows are the pending
orders is not true in the middle of a candle: `PhaseInv` says for each phase which of
them are still to be matched.

`MismatchesAreOwnFills` and `FenceCoversTheAgent`, in the same module, are about
`SharedAccount`, for any assets, balances and numbers of orders. `ShareInv` rests on
one observation: no step of the agent changes how much of the free balance is not its
own (the free balance less `OwnPart`, its ledger without what its order holds and with
what a fill has brought but the ledger does not have yet), and a trade of the skills
takes from the fence what it takes from the balance. A fence within that rest when it
was computed stays within it (`FenceLeaves`), and it is computed from balances and a
claim of one moment (`SeenIsCurrent`). `FillRemembered` then says that a difference
between ledger and account is a fill after the cycle looked at its orders. Both assume
`Quiet`: no fill waits to be booked when the skills read, and none arrives while they
do. `SharedAccount_race` is the counterexample without it, and `FenceCoversTheAgent`
shows that there is no other: with it, the very property which that run violates holds
always.

*The types* of every part are proved as well, and with them the one invariant that the
runs `Services` and `PaperTrading` check of all their parts at once (`ServicesTyped`,
`PaperSuiteTyped`). Where a part has an inductive invariant, most of its types are in
it; what is left is a frame of the variables that a step copies or draws from a set
(`CallsFramed`, `ProcFramed`, `MessagesFramed`, `BtFramed`, ...), kept beside it. Two
parts needed more. That no order of the backtester is of nothing rests on the stops: a
pair that waits for its stop within the candle still holds something (`TodoHolds`). That
no balance, ledger or book goes negative whenever the skills read, without `Quiet`, rests
on what an open order has locked and on a fence within the book (`AccountHolds`). As the
parts share no variable, a step of the suite is for each part a step of its own or none
(`PartsMove`, `PaperPartsMove`). `ServicesTyped` assumes `StepCosts` and `StopsFar`,
because it takes the types of `OrderNumbers` from the invariant of `NumbersAreSound`;
`PaperSuiteTyped` assumes `~TornCrash`, as `PaperTypes` does.

Out of the prover's reach:
liveness (`EntriesSettle`, `AutoPauseLifts`, `ExitsHappen`). The properties of
`PaperTrading` are neither proved nor checked where a transaction of a fill is torn:
there they are false (section 3).

## 6. Not modelled

* Indicators, regimes, weights and the LLM's opinion (`agent/analysis`): floating
  point and an external service. Their results are choices where a module uses
  them.
* Configuration: pure validation of one file; what the code relies on appears as
  assumptions on constants.
* The dashboard, reports, logging, `paper_report.py` and `research_ml.py`: they
  read and print. Backup is one linear procedure over files; what is wrong with a
  torn one is in the findings.
* Formatting, signing and the parsing of answers, except `parse_order`'s amounts
  (`OrderNumbers`).
* The preflight's checks other than link and heartbeat: one choice. The time
  offset of the private client.
* Prices and fees in `LiveExecutor`: no property of it tells them apart.
* In `PaperTrading`: cooldown after a stop-loss, average cost and profit,
  take-profit levels (a take-profit exit is one of the choices of `ApproveExit`).
  In `Backtest`: prices, fees and the metrics.
* The skills' broker is not part of the source: `SharedAccount` lets it trade at
  once within the fence, which is what `skills.py` relies on.
* Telegram's authorisation: a lookup of a chat id.

## 7. Plan

1. Done: executor, grace period, status, Deadman Switch, plan, paper trading,
   with the theorems above.
2. Done: clients and limiter, process and link, watchdog, order check, messages,
   capital, candle feed, order arithmetic, backtester, shared account.
3. Left to model: the times of single fills, for the replay of the fills table;
   two cycles in flight at the executor; cooldown; uneven weights of a plan; the
   part of an entry that stays after a cancel in `OrderNumbers`.
