# QuantPilot: TLA+ models, checks and proofs

QuantPilot is a single-server quantitative-trading assistant: after the close
of every trading day it ingests quotes, scores stocks, produces trading
signals, tells its users of them, and keeps the users' accounts (cash flows,
trades, positions). This directory holds TLA+ modules translated from its
source, the TLC configurations that check them on small instances, and proofs
checked by TLAPS. Paths below are relative to `src/`; `Q/` stands for
`src/backend/src/quantpilot/`.

Contents

1. [Inventory](#1-inventory)
2. [The modules](#2-the-modules)
3. [The runs](#3-the-runs)
4. [The proofs](#4-the-proofs)
5. [What the checks found](#5-what-the-checks-found)
6. [What is not modelled](#6-what-is-not-modelled)
7. [Plan](#7-plan)
8. [Running it](#8-running-it)

## 1. Inventory

One process: a FastAPI application whose single asyncio event loop runs the
request handlers, the background tasks and an in-memory APScheduler. All shared
state is in PostgreSQL (READ COMMITTED; one session per request, committed by
`get_db` after the handler returns), except a Redis cache of configuration
values and backtest progress. There are no threads that share Python objects
but the one a backtest runs in. So concurrency is: coroutines that interleave
at `await`, database transactions that overlap, and a process that can die
between two commits.

| Component | State | Operations | What is hard | What makes it correct |
|---|---|---|---|---|
| Daily pipeline (`Q/pipeline/daily_pipeline.py`) | `pipeline_run` (status, three checkpoint flags, `config_snapshot`, `finished_at`), tables written per checkpoint | `run(date)`: CP1 ingest, CP2 scoring, CP3 signals, then notify, mark to market, dividends, expiry, private signals | two invocations of a date at once; death between the data commit and the flag commit; an outage that looks like an empty day; hangs; configuration changed meanwhile | a flag implies its data; SUCCESS implies all flags; one configuration per day; a resumption completes the day |
| Pipeline watchdog (`Q/services/pipeline_monitor.py`) | notifications | `scan_stuck_runs`, `check_pool_size_anomaly` | must see a run that cannot report itself | every hung run is reported |
| Scheduler (`Q/pipeline/scheduler.py`) | in-memory jobs | eight cron and interval jobs | missed jobs after a restart; jobs that read what the pipeline wrote | nothing stale is used without a freshness test |
| Account ledger (`Q/services/account_service.py`) | `account`, `position`, `trade_record`, `fund_flow` | record trade / dividend, deposit, withdraw, void trade / flow, price updates, sync, mark to market | incremental state against replay; any order of dates and voids; overlapping requests; retries | cash = opening + valid flows; shares = bought − sold; position = replay; a key is entered once |
| Candidate pool and scoring (`Q/services/strategy_service.py`, `Q/engine/pool.py`, `universe.py`) | `candidate_pool`, factor scores | run_daily_scoring | capacity, holdings and whitelist together; upsert without delete on a re-run | capacity respected, holdings and whitelist kept |
| Signal lifecycle (`Q/services/signal_service.py`) | `signal`, score snapshots | generate, update_status, expire, evaluate private signals | status test before update; regeneration of a day | EXPIRED and ACTED are final |
| Notifications (`Q/services/notification_service.py`, `private_signal_dispatch.py`) | `notification` | notify, dedup, push, mark read | test before insert; push before commit; several producers of one message | at most one message per event and day, none lost |
| Configuration store (`Q/services/config_service.py`, `settings_service.py`) | `user_config`, its history, Redis cache | read, upsert, import, revert, invalidate, snapshot | cache filled between invalidate and commit; overlapping saves | a saved value is read in the end; the history explains the rows |
| Backtest tasks (`Q/services/backtest_service.py`, `Q/api/v1/backtest.py`) | `backtest_task`, results, positions, Redis progress | create, run, fail, import, reconcile at start-up | creation guard; death while RUNNING; result before positions | one active task; every task ends |
| Factor monitoring and rebalance (`Q/services/factor_monitor_service.py`, `Q/engine/hysteresis.py`, `Q/pipeline/monthly_scheduler.py`) | daily IC rows, strategy weights and their state | daily IC catch-up, month-end job, rebalance | catch-up order; rules over months; a job run twice; one step of five failing | no date is left out; a past day is scored with the weights of its time |
| Market state (`Q/engine/market_state.py`, `Q/services/market_state_service.py`) | `market_state` history | identify, debounce, announce | a sliding window with a counter in it; days out of order | no switch before the full count |
| Data ingestion and adapters (`Q/services/data_service.py`, `Q/data/adapters/`) | quotes, financials, statistics | ingest, import, retry, fallback, backfill | partial answers, outages, a cache in the adapter | an import's report is true; no report before its announcement |
| Trade calendar and repositories (`Q/data/calendar.py`, `Q/data/repository.py`) | `trade_calendar`, a copy of it in memory | refresh, self-healing, look-ups, point-in-time queries | the copy grows old; the same rows are read by SQL and in memory | a trade day is not skipped; the two readings agree |
| Backtest engine (`Q/engine/backtest/engine.py`) | virtual account, queue of signals | one simulated day after the other | limits, suspensions, T+1, missing quotes | nothing is traded on later knowledge; records explain cash |
| Universe, scorer (`Q/engine/universe.py`, `scorer.py`) | funnel statistics | filter, standardise, orthogonalise, aggregate | missing values, failed strategies, zero weights | a stock is not flattened for a column without weight |
| Signal, risk and position engines (`Q/engine/signal.py`, `risk.py`, `position.py`) | none | exits, sizing, caps | which exit goes first, and who filters it | a broken stop-loss reaches the user |
| Plug-in sandbox (`Q/engine/sandbox/`) | a child process and a pipe | run a plug-in under limits | child, clock and system race | the status is true of the child |
| Performance and reports (`Q/services/performance_service.py`, `report_service.py`) | reports | realised profit, holding periods, net investment | they pair trades by themselves | reports and books agree |
| Strategies, diagnostics | none | factor formulas, statistics | floating-point numerics | numeric tests |
| Auth, watchlist, set-up | one row per object | CRUD | unique names (left to the database); lists edited beside a run | see `CandidatePool` |
| Frontend (`frontend/src/`) | client state | a bell that polls; requests sent again | answers out of order, marks not yet committed | the badge corrects itself |
| Infrastructure | containers | – | – | – |

How they interact: the scheduler and `POST /pipeline/trigger` call
`DailyPipeline.run`, which calls the data, market-state, strategy, signal and
notification services, then `AccountService.mark_to_market` for all accounts;
the configuration store hands the run its snapshot; the watchdog reads only the
`pipeline_run` row; the accounts' positions feed the private signals of step 7
and of the 18:30 job. The evening's IC rows feed the month-end rebalance, whose
weights the scoring reads from the next month on; the scores make the pool, the
pool the signals, both the alerts. The backtest repeats the scoring over the
same tables through readers of its own.

`PROJECT.json` lists all components with their status, and the hazards at their
lines, each with the property that covers it or the reason why none does.

## 2. The modules

| Module | What it is |
|---|---|
| `DailyPipeline` | `run()` for one date, every database commit an action; two entry points, faults, the watchdog |
| `PipelineContract` | what the `pipeline_run` row promises its readers; `DailyPipeline` implements it |
| `MCDailyPipeline`, `DailyPipelineProofs` | instances for TLC; proofs |
| `AccountLedger` | the account's tables under whole requests, one transaction = one action |
| `MCAccountLedger`, `AccountLedgerProofs` | instances for TLC; proofs, those about `PerformanceReport` included |
| `AccountRequests` | the same requests statement by statement, overlapping |
| `MCAccountRequests`, `AccountRequestsProofs` | instances for TLC; proofs |
| `PrivateSignals` | the alerts about one account's holdings over one trading day, three producers |
| `MCPrivateSignals`, `PrivateSignalsProofs` | instances for TLC; proofs |
| `PerformanceReport` | what the reports compute from the ledger's rows; checked in `account_books` |
| `ConfigStore` | settings, their history and their copies in Redis |
| `BacktestTasks` | creation, run, import, crash and reconciliation of backtests |
| `CalendarDays`, `TradeCalendar` | look-ups on a set of trade days; the table, its copy in memory, the jobs that ask it |
| `IcCatchup` | the evening job that fills the missing days of IC rows |
| `MonthEnd` | the five steps of the month-end job, rebalance and weights in force |
| `SignalStatus` | what a signal's status promises to its readers (abstract) |
| `SignalLifecycle` | nightly batch, expiry scan and clicks; implements `SignalStatus` |
| `Ingestion` | daily ingest, history import and backfill of one stock, with the adapter's cache |
| `BacktestDays` | the simulated days of a backtest in both of its modes |
| `PitFinancials`, `PitMarket` | point-in-time data read by SQL and read in memory, side by side |
| `MarketDebounce` | raw states, window, debounce, stored state, announcement |
| `CandidatePool` | the pool of each day under re-runs and edits of the lists |
| `UniverseScoring` | filters, statistics row, factor columns, the scorer's five steps |
| `HoldingExits` | one holding through shared signals and private alerts |
| `PluginRun` | parent, child, clock and operating system around one plug-in call |
| `NotificationInbox` | notifications of system and accounts, the browser's bell |
| `MCServices` | composes and instantiates the modules from `ConfigStore` on |
| `SelectionProofs` | proofs about `UniverseScoring`, `CandidatePool`, `SignalLifecycle`, `HoldingExits` |
| `DataProofs` | proofs about `Ingestion`, `TradeCalendar`, `MonthEnd`, `IcCatchup`, `MarketDebounce`, `PitMarket` |
| `ServerProofs` | proofs about `BacktestTasks`, `BacktestDays`, `NotificationInbox`, `ConfigStore`, `PluginRun` |
| `InductionLemmas` | induction over sets of numbers, sums, finite images: what the proofs share |

Operators named "Faulty variant of ..." are not part of the specifications:
each is the definition after it with a plausible bug (a dropped guard, a missing
reset), and `PROJECT.json` pairs it with the property that notices.

### DailyPipeline

A *runner* is one invocation of `run()`. `pc[r]` is the statement it is at and
`loc[r]` the `PipelineRun` object it loaded at the start: `run()` tests
`run.cpN_...` on that object, never on the row again, so a second runner's flags
are invisible to it. Each checkpoint is two commits, the data (`IngestQuotes`,
`IdentifyMarketState`, `ScoreUniverse`, `GenerateSignals`) and then the flag
(`SetCheckpoint`); a death in between leaves data without a flag, which a
resumption overwrites with the same upserts. `store` holds which data is
committed, `usedCfg` the configurations each checkpoint computed with. CP1 and CP2
take the parameters they need from the snapshot and the defaults where there is
none. CP3 hands its `ConfigService` whatever snapshot the row has, and without one
that service reads the live configuration, first for `signal_params` and then for
`universe_params` (`ReadSignalParams`, `GenerateSignals`). The four
best-effort steps and the announcement each swallow every exception, so one
action either takes effect or not and goes on. `Tracked` says which of these
effects a model remembers; the safety runs need none of them.

`CronStart` is the 17:30 job (at most once a day: the jobs are in memory, a
missed one is not made up for). `TriggerSelect` and `TriggerInsert` are the two
statements of the API before the background task. Neither looks whether a run
is in progress: that is the code, and the reason for two runners. `Raise`,
`Hang`, `Crash`, `SourceFails` are the faults, `MaxFaults` bounds them.
A hung runner stays where it is; its date's row too.

The configuration is one value, read at once by `WriteConfigSnapshot`. The code
reads twelve keys one after the other; a snapshot can be torn (section 5).

`PipelineContract` has only `status` and `done`: checkpoints are reached in order
and never taken back, and SUCCESS is written only when all are. FAILED may
follow SUCCESS (a slower second run that fails): the code does that and no
document excludes it.

### AccountLedger

The sequences `trades` and `flows` are the append-only tables, the index being
the key; `pos` is the table of positions, `Flat` where a stock has no row. A
request is one action, because `get_db` commits or rolls back all of it. The
cost price is an integer in units of 1/`Scale` (the column is a decimal with
three places), commission and stamp tax are constants: the properties do not
depend on how a broker computes them. `ReplayPosition` folds the valid events
of a stock in the order of the code's sort key `(trade_date, kind, seq)`.
A request computes the new cost with float arithmetic, which the model takes as
exact, from the stored value, and the column rounds it (`Stored`): so the cost a
position has drifts from the one `ReplayPosition` finds, which goes from the first
event to the last without rounding. The replay is a numerator over a denominator
(`Exactly`), rounded only when a void stores it. Inputs have the precision of their
columns. `MarkToMarket` has the code's quirk that accounts without positions are not
touched: `others` says whether some other account of the server is.

### AccountRequests

Each request runs its statements one at a time: look up the idempotency key,
read the account, read the position, flush (which first takes the row lock of
the account and then inserts rows under the unique indexes), answer, commit. What it
read before the lock is not protected, and the flush writes absolute numbers.
The answer precedes the commit (`Answer`, `Commit`): the FastAPI version in
`backend/uv.lock` sends the response before the code after the `yield` of `get_db`
runs. `Break` is the loss of the connection or the process anywhere before the
commit, after the answer too; such a client has the number of a row that nobody
will find.
`Plans` is the set of workloads, assignments of an operation to each request.

### PrivateSignals

`_stop_loss_warn_job` (15:05), step 7 of the pipeline and
`_private_signal_recheck_job` (18:30) evaluate an account's holdings with the same
function and tell the account through `notify`. `at[p]` is where producer `p` is:
it evaluates, looks for a duplicate of the next alert, pushes it and writes its
row, and at the end commits all rows in one transaction; `mine[p]` are the rows
only its own session sees. What an evaluation says of a holding is a verdict
that depends on whether step 4 has put today's close into the positions:
`morning` and `evening` are chosen at the start and kept. `Topic` is what a
duplicate is recognised by, the type and the payload; the payload of a private
sale has the stock and the date but not the trigger. `Lose` is a failed write or
commit, after which the session is of no use; `Crash` ends the pipeline and all
producers; `Miss` is a job whose time passes while the process is down. The
producers are those of an account whose user has the alerts switched on; other
accounts of the same session appear only as causes of `Lose`. The pipeline is
reduced to a status, a stage and one run at a time.

`Careful` restricts the operator: the pipeline is triggered only after the 15:05
job has ended and only for a date that is not SUCCESS. `OneRowPerTopic` and
`PushedOnceUnlessLost` rest on it. `POST /pipeline/trigger` does not enforce it.

### PerformanceReport

No state of its own: operators over the tables of `AccountLedger` that compute
what `performance_service.py` reports (net investment, realised profit of a stock,
holding periods). `account_books` compares them with the books on every state.
The service never filters `is_voided`, so the agreement is stated for stocks none
of whose trades was voided.

### ConfigStore

A save runs statement by statement: read the old value, upsert (which takes the row
lock), write the history row, delete the copy in Redis, commit. An import first lists
all settings, and its session keeps those objects (`seen`): `upsert_setting`'s SELECT
of such a key gives the object as it was loaded, so the old value of the history row
is the one of the import's start (`OldValue`), not the committed one. A reader asks
Redis, then the table, then fills Redis. Between deletion and commit a reader can
put the old value back: `ConfigSettles` says that such a copy does not last.
Imports lock several rows in the order of the file; `BreakDeadlock` is the database
choosing a victim when two files name them in opposite orders. `saves` includes a
preview, which must not write, and keys that are no setting.

### BacktestTasks

A request tests `has_active_task`, creates the task and queues a job; the job
starts, flushes batches of positions in transactions of their own and ends with
result and status in one. `HandleException` and `FailTask` are its error path,
`Crash` and `Restart` the process, the latter with the reconciliation at start-up
(which may fail and is then only logged); a process that could not load its calendar
(`calendarReady`) refuses requests. `raced` remembers that two requests
were between test and insert at once.

### CalendarDays, TradeCalendar

`CalendarDays` has the look-ups of `TradingCalendar` on a set of days. In
`TradeCalendar` the source publishes a year at a time, the table is filled at a
start that finds it too short and on the first of each month, the process copies
part of it when it starts, and the 17:30 job asks the copy. `calAsked` remembers
what the job did on each day.

### IcCatchup

Every evening the job lists the days without IC rows in its window, takes the
oldest `CatchupMax`, and writes each in a transaction of its own; a day can fail,
the job can die or its evening be missed, and rows can be imported. `icDebt`
counts evenings that wrote nothing, against which `KeepsPace` measures the backlog.

### MonthEnd

The monthly job is five actions in order, each with its session; all but the
refresh of financials swallow their exceptions, the refresh stops what follows.
`Rebalance` has the rules R1 and R2, the hysteresis over months, the fall-back to
the default weights and the upsert by state and month of effect. ICIRs are chosen
integers; `RollingIcir` folds them over months as the code does. `ScoreDay` reads
the weights in force and may come again for an old month.

### SignalStatus, SignalLifecycle

`SignalStatus` is the contract: a signal starts NEW, only an open one expires, and a
click moves it along `ValidTransitions` from a status it really had (not
necessarily the one it has: the code tests and then writes). `SignalLifecycle` is
the table under `ScorePool`, `GenerateSignals` (an upsert that leaves the status
alone), `ExpireOldSignals` and the two halves of a click. `StatusContract` is the
refinement, `Contract` its INSTANCE. The variables `sigHad` and `sigMark` are
history only.

### Ingestion

One listed stock. `IngestDaily` commits whatever it got; `ImportDay` works through the
days that were not whole at the start, each rolled back as a whole when anything
went wrong; `BackfillReports` writes reports under their announcement date. The
adapter keeps a quarter's answer as long as the process lives (`ingCache`), whether
or not the report was in it. Readers cut to the day (`VisibleQuarters`).

### BacktestDays

Each day is opened (yesterday's signals executed at the open, unless the stock is
suspended or at its limit) and closed (scored, signals derived, sized, checked
for concentration in one stock and queued; the limit per industry is never looked at,
for the quotes of a backtest have no industry); in the older mode signals execute at the close of
their own day. Quotes and rankings are chosen from small sets. Money is an integer
with the fees in 1/`FeeScale`. The engine never updates a virtual position's market
value, and neither does the model.

### PitFinancials, PitMarket

Each has the tables, the upserts, and two readings of them: `Repo...` is the SQL of
the repository, `Bundle` and `Engine...` what the backtest loads and slices; the
loaded table is a set of rows with the order it was sorted by (`SortsBefore`). `BacktestSeesLiveData` compares them on every day after every
sequence of writes. `Blank` is NULL, ordered below every value. The corners where the
two differ by construction are named (`RevenueAlone`, `OlderThanBundle`,
`TradedThroughout`, `ForecastInBundle`, `RowInBundle`) and left out of the comparison;
section 5 lists them. Assumed: one valuation row per publish day, other stocks
trade on every day.

### MarketDebounce

A day's raw state is an input. `IdentifyMarket` may take any closed day, again or out
of order: it debounces the window from the state stored before it, stores the
last day's state and announces a change.

### CandidatePool

A run has two halves, for the blacklist is read before the scoring and the
whitelist and yesterday's pool after it; edits of the lists come in between.
`WritePool` has the selection, the holdings, the fading of yesterday's codes and the
upsert, which leaves rows of an earlier run alone. `lastWrite` remembers what the
last write of a day saw.

### UniverseScoring

Values are sets: which stocks have one. The eight filters in their order with the
statistics row, the factor columns with failed strategies, then standardising (a
column without spread is flat), orthogonalising (`Residual`), weighting and the
composite; a score is the set of strategies whose values went into it. Any of the
strategies can be absorbed, the one the others are orthogonalised against included:
its spread over the common stocks is compared with its spread over all of them.

### HoldingExits

One held stock. CP2 gives it a pool row (rank, lead over the market, in or out), CP3
writes the shared signals, and `EvaluateHolding` is the private evaluation with the
same generator over the newest pool. Ranks stand for percentiles. Quotes, pool,
threshold and position change in between (`exCurrent` marks the days whose shared
signals are still of the current data). The override by an absolute threshold is off.

### PluginRun

The child says hello, is confined, runs the source and sends an answer, or dies at
any point; the parent polls until the deadline, drains the pipe, stops the child
and judges. `pipe` keeps messages after the child is gone; `DeadlinePasses` may come
at any moment.

### NotificationInbox

The table with rows of the system and of accounts, and per browser the four kinds
of requests of the bell, each asked, answered and shown. An answer precedes its
commit (`CommitMark`), so a poll may count what was just marked.

### MCServices

These modules share no variable and no lock, so a product of them would only
multiply states. `part` is chosen initially and only that part moves: the run
covers every behaviour of every part. A part that was not chosen stays in its
initial state, where none of its fair actions is enabled.

## 3. The runs

Each run asks one question of one component, except `services`, which follows one
of fifteen parts in each behaviour. Deadlock is switched off where the system
really stops: when all requests are answered, when a bound on rows, days or runs is
reached, when the only runner has hung, or when the day of the alerts is over.

| Run | Instance | States | What it shows |
|---|---|---|---|
| `pipeline_safety` | 2 runners, 1 configuration, 2 faults | 363 292 | `FlagImpliesData`; `PipelineContract` is implemented (`ImplementsContract`) |
| `pipeline_solo` | 1 runner, 2 configurations, 3 faults, fair | 60 452 | `SnapshotFrozen`, `OneUserConfig`, `NotifiedOnce`; `RecoverAfterOutage`, `FirstRunHangAlerted` |
| `pipeline_snapshot_race` | 2 runners, 2 configurations, no fault | – | violates `SnapshotFrozen` |
| `pipeline_hung_resume` | 1 runner, 2 faults, fair | – | violates `HungRunAlerted` |
| `account_books` | 1 stock, 3 days, 3 trades, 3 flows, 1 key | 340 960 | `CashIsLedger`, `SharesAreLedger`, `FlowFollowsTrade`, `InOrderIsReplay`, `ReportsFollowBooks` |
| `account_replay` | 1 stock, 2 days, 3 trades | – | violates `PositionIsReplay` |
| `requests_plans` | 4 requests, 3 workloads, fair | 68 467 | `KeyNamesOneRow`, `RetriesCountOnce`; `EveryRequestEnds` |
| `requests_two_buys` | 2 purchases | – | violates `BooksBalance` |
| `signals_day` | 1 holding, 4 verdicts, 2 faults, fair | 680 569 | `OneRowPerTopic`, `PushedOnceUnlessLost`, `RecheckIsFresh`; `ToldDespiteOneFault` |
| `signals_masked` | 1 holding, no fault, fair | – | violates `BrokenStopTold` |
| `services` | 15 parts, see below | 212 740 | 21 properties, see below |
| `calendar_expires` | 7 days, 1 fault | – | violates `RefreshReachesTheJobs` |

The properties of `services`, by part:

| Part | Property | What it says |
|---|---|---|
| config | `HistoryExplainsConfig` | a key has the value of its newest history row, whatever overlaps, fails or deadlocks; a row starts from the one before it, unless two open saves had read the key |
| | `ConfigSettles` | once the requests are over, every key is read with its stored value |
| tasks | `BacktestRowsAgree` | SUCCESS has a result, a result has its positions, an import that was answered is whole |
| | `OneBacktestAtATime` | no second task beside an active one, unless two requests raced |
| | `BacktestEnds` | every task ends, by its job or at the next start, unless the write of FAILED or the reconciliation failed |
| calendar | `SkippedOnlyIfUnknown` | a trade day left out lies beyond the copy or was not published when its row was written |
| ic | `CatchUpKeepsItsPromise` | no hole behind what the job wrote; it keeps pace with the days |
| month | `RescoringSeesSameWeights` | an old day scored again sees the weights it had |
| signals | `StatusContract` | `SignalStatus` is implemented |
| | `ScanIsExact` | only signals inserted or clicked after the last scan are open past their time |
| ingestion | `NoLookAhead` | no report is seen before its announcement |
| | `ImportReportIsTrue` | what an import counts as done or whole is there |
| simulation | `SimulationIsHonest` | cash is what the records say and not negative; no trade on later knowledge; T+1 |
| financials | `BacktestSeesLiveData` | the backtest's readings are ones the live SQL could return |
| market | `SwitchIsConfirmed` | a switch needs the full count of equal raw states; none is announced otherwise |
| pool | `PoolRowsExplained` | the rows of a day read as its last write |
| exits | `StopIsNotSwallowed` | a broken stop-loss is told, or the shared table has the SELL |
| scoring | `NobodyIsFlattened` | the score of a stock known to every weighted strategy is made of all that any score is made of; all end at 50 together only when the first strategy fell; the funnel adds up |
| plugin | `PluginVerdictIsTrue` | status and child agree |
| inbox | `BellHeals` | every badge comes to show the number of unread rows |
| | `InboxIsPrivate` | an account sees and marks only the system's rows and its own |

Why the bounds are enough:

* *Two runners* are cron and one trigger. All shared state is a set that only
  grows or a register, and a runner reads the row once, so a third runner adds no
  new order of two writes. The safety theorems hold for any number of them.
* *Faults.* Two faults cover a failure during the resumption of a failure for
  two runners; three cover an outage, a crash in the resumption and an exception
  after it. The theorems hold for any bound.
* *One runner in `pipeline_solo`* because snapshot and announcement are promises
  to runs that follow one another; `pipeline_snapshot_race` shows that the first
  of them fails with two. Two configurations are needed to mix them.
* *Ledger.* Three flows are a purchase, a sale or a dividend, and one more row
  between or after them in date order, voided in any order; three days allow
  every permutation of three dates. One stock suffices because no action reads
  another stock's rows except in the sum for `total`; the theorems hold for any
  set of stocks and any number of rows. One price, one lot and `Scale` 1 are chosen
  so that a purchase with its fee has a cost the column cannot hold: the drift
  between the rows and their replay exceeds one rounding, as a trial with that
  tighter bound shows.
* *Requests.* Four retries give every overlap of a winner, a loser that rolls
  back and looks again, one that arrives after the commit and one that breaks.
* *Alerts.* Topics of different holdings never meet, so one holding (and the account
  as a second subject) is enough; all pairs of a morning and an evening verdict are
  initial states. Two faults allow one producer to lose its rows and the next one
  to fail as well, and a death followed by another one in the resumption; the
  theorems hold for any number of holdings and faults.
* *Services* (`Services.cfg`). *Config*: two keys and two files that name them in
  opposite orders are the smallest deadlock; three saves begun (one is committed before
  an import loads it, one while the import is open), one reader, one fault.
  *Tasks*: two runs (one waits while the other asks) and two imports of one task (a
  repeated import), one crash or failure. *Calendar*: five days, two publications,
  `RequiredAhead` 2, `FillAhead` 3. *IC*: evenings 6 to 13 with a weekend, lag 2,
  window 5, one day per evening, one fault: enough for a backlog to arise and be
  worked off. *Month*: two months, one of them a quarter's end, one market state,
  two strategies whose default and registry orders differ. *Signals*: one name on
  three days with a time to live of one day, one click, each
  day scored once and its signals written any number of times.
  *Ingestion*: three days over two quarters, one fault. *Simulation*: two stocks, four
  days, four markets (no quotes, plain, limit and suspension, sealed with a missing
  open), three rankings: a purchase, its T+1, a sale and a refusal of each.
  *Financials*: three days, three periods, three writes (two for the market tables);
  windows of one day, so that a row falls out. *Market*: six days, window 4, one day to
  warm up, debounce 2: a window can hold no full count. *Pool*: capacity 1 for two
  codes, two days, three writes, one edit. *Plugin*: two calls, the second with what
  the first left. *Inbox*: two accounts, one of them with a browser, two notes,
  list limit 1, two marks. *Scoring*: four stocks (one blacklisted), three strategies.
  *Exits*: two days, three ranks with two thresholds, two runs, two edits.
  Safety has theorems for any of these bounds (section 4).

Fairness. `Progress` is weak fairness of every statement of a runner that is not
hung and of the watchdog: the event loop resumes every coroutine whose await
has returned, and the watchdog is an interval job of the same loop. `Operator`
adds that the source comes back and that somebody triggers a date that is not a
SUCCESS again; `RecoverAfterOutage` is a statement about the resume logic under
that assumption (the code has no automatic retry). In `AccountRequests` weak
fairness of each request's next statement: the database grants a free row lock.
Weak fairness is enough there although requests compete for the lock: each of
the finitely many requests takes it at most once before it ends. In
`PrivateSignals` weak fairness of each producer, of the pipeline and of the two
jobs: they are coroutines and timers of one event loop; nothing is assumed of
`Trigger`, `Miss` or the faults. In `ConfigStore` weak fairness of the requests' steps and of the expiry of a
copy (Redis keeps time); in `BacktestTasks` of runs, imports and `Restart` (the
container's restart policy); in `NotificationInbox` of the commit, the poll, the
answers, and the requests that clicks have begun, never of a click or a new note.
The other parts state no fairness and only safety.

## 4. The proofs

All proofs are checked by tlapm with SMT, Zenon and LS4 (12 109 obligations); the
only assumptions are the named `ASSUME`s of the modules, which TLC evaluates in
the runs. Every invariant and action property of the passing runs is stated by a
theorem, for every value of the constants; what liveness says is only
model-checked. `TypeCorrect`, `SuccessIsComplete` and the four other type theorems
state what no run checks as a property: they are lemmas of the others and
useful by themselves.

**Induction.** The provers have no induction principle for sums, folds and
recursive functions. `InductionLemmas` gets one from the least element of a
non-empty set of naturals (`WFMin`): `NatInductionOnSets`, a set of naturals that has
0 and with n also n + 1 has them all. From it come the sums of integers
(`SumOfOneMore`, `SumOfRest`, `SumOfEquals`; `SumTelescopes`), the last element of a
finite set in the order of numbers or of pairs, and, for every fold and recursive
function a proof speaks of, a lemma that a function with that recursion exists
(`ReplayExists`, `HoldExists`, `CarryExists`, `ExecutionsExist`): the module's `CHOOSE` then
has the recursion as a property, and the invariant's step is one unfolding of it.

### The daily pipeline (`DailyPipelineProofs`)

* **`TypeCorrect`**, **`FlagsAreBacked`**, **`SuccessIsComplete`**,
  **`ContractImplemented`**, for any number of runners, any configurations, any
  bound on faults. `FlagImpliesData` is not inductive: a runner that is about to
  set a flag must have committed the data, and one at a later stage must have
  seen the earlier flags. `IInv` adds `StageHasData`, `StageIsNext`, and, because a
  runner trusts its own copy, `LocalIsCopied`: the copy never claims a flag the row
  lacks (flags are never taken back, so an old copy stays right). `FlagsInOrder`
  and `NoRowNoFlags` give the contract's guards; `ContractStep` then maps every
  action to a step of the contract or a stutter.
* **`ConfigIsOne`**, **`SnapshotStays`**, **`TellsOnce`**, for runs of a date that do not
  overlap (`RunsDoNotOverlap`: there is one runner, which the cron job, the trigger,
  exceptions and crashes start again and again). The hypothesis is needed: with
  two runners `pipeline_snapshot_race` shows `SnapshotFrozen` broken, and the code
  excludes overlap nowhere. `SoloInv` adds that the runner holds the row's snapshot,
  if there is one (`HeldSnapshot`), that its copy of the flags is exact
  (`CopyIsExact`), and that who is about to tell the users is the first to do so
  (`NotYetNotified`). What `ConfigIsOne` says cannot be that a day has one
  configuration: a day whose snapshot could not be written computes CP3 with the live
  one. It says that once a checkpoint was computed with a configuration of the user,
  every later one is computed with it alone. The argument is that this checkpoint had
  a snapshot, or is the last one: CP1 and CP2 know the snapshot and the defaults only
  (`EarlyUse`), what is computed has every earlier flag and a flag stands for something
  computed (`UsedInOrder`, `FlagsUsed`), a checkpoint is not computed again behind its
  flag (`StageOnce`), and behind one that used the snapshot nothing else is used
  (`SnapshotThenOnly`, with `HeldAnswer` for CP3 between its two questions).

### The accounts (`AccountLedgerProofs`, `AccountRequestsProofs`)

* **`FlowsFollowTrades`**, for any stocks, dates, inputs and bounds on rows. The
  invariant is the shape of the tables and the two halves of the property
  (`EachHasFlow`, `OneFlowEach`); three lemmas say what appending a trade with its
  flow, appending another flow, and voiding a set of flows do to it. That a
  trade's flow cannot be voided without it rests on the guard of `VoidFundFlow`
  and on the types of flows that name a trade.
* **`CashIsSumOfFlows`**. Inductive as it stands, given the shape of the tables: an
  append adds its amount to both sides, and a void takes the sum of the flows it
  marks from both, since they were valid before.
* **`SharesAreSumOfTrades`**, **`PositionsAreReplays`**, from one invariant, `BooksInv`
  (rows of the right shape, shares bought less sold, the replay where rows came
  in order), beside `LinkedRows` (a flow has the day of its trade). A request that
  records applies one event to the position; that this is the replay of the
  events with the new one rests on the new event being the last (`AllBefore`,
  `ReplayOneMore`). A void replays what is left, so there the shares need the
  converse: any replay that is not refused has the shares bought less those sold
  (`ReplayShares`, an induction over the events), in whatever order they are. Shares
  and opening date agree exactly. The cost is within half of the column's last decimal
  for every valid row of the stock (`Agrees`): a request moves the stored cost and the
  replay's fraction by the same map, which never widens their distance (`CloseWac`,
  `CloseLess`), and rounds once (`StoredIsClose`), so that one row adds one half
  (`CloseStep`).
* **`ReportsAreRight`**. The reports and the books share no code, so each part has
  its own invariant. The profit: `Settled`, for every stock, with the marks left
  out on both sides, because the reports ignore them. The holding: `Calm(s)` names
  the stocks the property is about (nothing voided, rows in order, every sale
  closes), and `HoldingOK(s)` adds to the property that the holding under way began
  with a row of the stock, which is what makes the days of a holding not
  negative. `Calm` is not kept by every step, but what breaks it does not mend it:
  if a stock is calm after a step it was calm before, so a new trade is the last
  one tracked (`HoldOneMore`); a closing sale empties the position (`ClosingSale`,
  from `BooksInv`); and a voided dividend leaves the opening date, since taking a
  dividend out of a replay changes the cost only (`WithoutDividend`).
* **`KeysNameOneRow`**, **`RetriesCount`**, for any number of requests of any kinds. The
  argument: who is past the unique index holds the row lock (`Locked`), so nobody
  else commits until it does, and there is no other row with its key (`Alone`); so
  the keys of the rows are distinct (`OneRow`) and whoever is answered is answered
  with that row, or with its own that is still to be committed (`RightAnswer`). Only
  a request whose own commit failed after its answer knows a row that is not there;
  a retry of it then enters the one row there is. `RetriesCount` adds that, when all requests repeat
  one deposit, cash has the opening value until the row is there and was read
  before it (`Counted`).

### Alerts about holdings (`PrivateSignalsProofs`)

* **`OneRow`**, **`PushedOnce`**, **`RecheckFresh`**, for any holdings and any number of
  faults, the first two under `Careful`. The duplicate test is a read before a
  write, so uniqueness needs that no two producers are at work at once, and no
  line of the code says that. It follows from the order of the day (`Exclusive`):
  the 15:05 job is over while there is no `pipeline_run` row, step 7 runs while the
  row is RUNNING or FAILED, and the 18:30 job only when it is SUCCESS and nothing
  runs. Then what a producer holds always fits the table (`Fits`), and every
  message on the phone has its row or a lost one (`Counts`, with the cardinality
  of what a session loses). `RecheckFresh` needs no `Careful`: SUCCESS, once written,
  is preceded by step 4.

### From scores to signals (`SelectionProofs`)

* **`WeightlessNeverFlattens`** (`UniverseScoring`), for any stocks, strategies,
  columns and weights, with any strategy absorbed, the first one included. Stocks
  can then end at 50 all together; nobody does alone. `ScoringInv`: the scores of the last run are those of its
  columns (`ScoresInPlace`), what is left of the universe is what no filter took
  (`UniverseIsLeft`), and each filter took from what the earlier ones left
  (`StatsAddUp`, whose sum telescopes).
* **`PoolTypeCorrect`**, **`RowsExplained`** (`CandidatePool`), for any codes, rankings,
  capacity, holdings and number of runs and edits. Runs are numbered in the order
  of their scoring and one at a time is under way (`RunsInOrder`), so rows left
  over from an earlier run carry a smaller number than the last write.
* **`SignalTypeCorrect`**, **`ContractKept`**, **`ScansAreExact`** (`SignalLifecycle`), for any
  signals, days, time to live and clicks. `ContractKept` is the refinement
  `SignalSpec => StatusSpec`. A click is written over whatever the status has become,
  so the argument is not about the status but about what it has been:
  `HadIsHistory` and `ClicksAreLegal`, the status a click was checked against stays
  among those the signal had. `BatchMoves` is the common form of the actions that
  move many signals.
* **`ExitTypeCorrect`**, **`StopReaches`** (`HoldingExits`), for any ranks, thresholds,
  scores and bounds. The private evaluation leaves out what the shared table is
  supposed to say; `SoldInTable` says when it does, and `PlacedHasScore` that a row
  with a rank has the score the generator needs.

### Data (`DataProofs`)

* **`NobodyLooksAhead`**, **`ImportsReportTruly`** (`Ingestion`). A daily row has a report
  only if it was announced by that day (`RowsNotAhead`); rows are never taken away,
  so what an import saw is still there when it reports (`ImportSoFar`).
* **`OnlyUnknownDaysAreSkipped`** (`TradeCalendar`). Table and copy say the truth as of
  when they were filled (`SaysTrue`): an open row is a trading day, a trading day
  with a closed row was not published then, and there is no gap.
* **`RescoringIsStable`** (`MonthEnd`). A row of weights is written for the next month
  only, and no day is scored ahead of its time, so the newest row that holds in a
  scored month is never the one written (`LatestSame`).
* **`CatchUpHoldsPace`** (`IcCatchup`), under `CatchupMax <= 1`. That is the code's value
  (`_DAILY_IC_CATCHUP_MAX_DAYS = 1`); with two days an evening the days are separate
  transactions and a failed first one leaves a hole. `PlanIsNext`: the planned day
  has nothing missing before it; `BacklogIsOwed`: the window moves by at most one
  trading day (`WindowMoves`), so the days without rows are no more than the evenings
  that wrote none.
* **`SwitchesAreConfirmed`** (`MarketDebounce`). Identifying a day debounces a window
  from the state stored before it; `RowsAreOfLastRun` says each stored state is the
  one of the last full run since some day, whatever order the days came in, and
  `ToldWasHeld` the same of what was announced.
* **`BacktestsSeeLiveData`** (`PitFinancials`, `PitMarket`). Of the tables only that keys are
  unique is needed (`RowsKeyed`, `ForecastKeyed`); the rest is that the bundle is the
  newest part of the table in the order both readings sort by (`BundleIsNewest`,
  `EstimatesAgree`). The proof needs the amount window to be no longer than the quote
  look-back, which `PitMarketAssumption` states of the code's constants, and that a
forecast that was never announced is in no window (`EstimatesIn`).

### Server (`ServerProofs`)

* **`BacktestTypeCorrect`**, **`RowsAgree`**, **`OneAtATime`** (`BacktestTasks`), for any
  requests, imports, batches and faults. `RowsAgree` needs that an import about to
  write positions has written its result (`ImportHasResult`). `OneAtATime` needs what
  holds between test and insert: without a race, what the request saw is still so
  (`GuardStillHolds`), and a queued job's task is PENDING (`QueuedIsPending`).
* **`SimulationsAreHonest`** (`BacktestDays`). `GoodBook` (cash is explained by the
  records and never overdrawn, no stock on both sides of a day) must survive each
  execution of a day, which is a recursion over the day's signals
  (`ExecutionsExist`); `PendingIsYesterdays` keeps the queue to signals of the day before.
* **`InboxesArePrivate`** (`NotificationInbox`). What is on its way, a list not yet
  answered or a mark not yet committed, is the account's own too (`InboxInv`).
* **`HistoryExplainsTheStore`** (`ConfigStore`). Before a commit the rows of a save are
  only in its session: `SavesAreChained` says they go on from the committed value of
  a key nobody else has open, and that what an import loaded of such a key is still
  committed, `ValueIsLast` and `RowsAreChained` what the commit makes
  of them; `CopiesAreKnown` and `ReadsAreKnown` follow a value into Redis.
* **`VerdictsAreTrue`** (`PluginRun`). `ToldFits` relates what the child has told, received
  or in the pipe, to what it did; `NoneCame` says what a loop that ended in time
  without answer knows: the child is going, and one that ran was killed.

Only model-checked: `RecoverAfterOutage`, `FirstRunHangAlerted`, `EveryRequestEnds`,
`ToldDespiteOneFault`, `ConfigSettles`, `BacktestEnds` and `BellHeals`. They are liveness
under fairness, which is out of this prover's reach.

## 5. What the checks found

Disagreements with the documents, each shown by a run:

* `pipeline_snapshot_race`: two invocations of a date both find no snapshot; the
  second one overwrites the one the first already computes with
  (`Q/pipeline/daily_pipeline.py:91`: 仅首次，断点续传不覆盖).
* `pipeline_hung_resume`: a date that failed once stays FAILED with `finished_at`
  set while it is resumed, so the watchdog does not see the resumption hang.
* `account_replay`: trades recorded with an earlier date than those that are there
  leave another cost and opening date than a replay of the same rows.
* `requests_two_buys`: two overlapping purchases, both trades stay, one update of
  cash and shares is lost.

* `signals_masked`: the 15:05 job reports a factor decay with yesterday's pool; today's
  close breaks the hard stop-loss, and step 7 and the 18:30 job leave it out, for
  its type and payload are those of the morning's row.

* `calendar_expires`: the jobs ask the copy of the calendar made at the start, 30 days
  ahead; the monthly refresh writes only the table. After 30 days without a restart
  every trade day is skipped as closed.

Observations made while modelling, for which no run is kept. About the pipeline,
the accounts and the alerts:

* SUCCESS is written although step 4 (mark to market) failed; the docstring at
  `Q/pipeline/scheduler.py:403` concludes from SUCCESS that the positions hold
  today's close. `BestEffort` has the behaviour.
* A sale dated before its purchase is accepted, since it is checked against what is
  held now; after it no dividend of the stock can be voided, for the replay
  oversells (`Q/services/account_service.py:569`).
* `mark_to_market` leaves `total_assets` of accounts without positions alone
  (`account_service.py:849`; `docs/design/phases/phase7_pipeline.md:74`).
* The frontend sends no idempotency key (`frontend/src/api/positions.ts:67`), against
  `docs/design/phases/phase14_account_integrity.md:207`; the promise
  `RetriesCountOnce` is one to clients that do.
* A withdrawal sent twice at once passes the test of the cash twice
  (`account_service.py:670`); two overlapping voids of a flow both succeed (`:551`).
* The deposit a key was used for answers for it after it was voided (`:615`).
* The market value of a suspended stock keeps the old share count after a
  partial sale; a purchase of zero shares divides by zero (`:44`).
* Without a snapshot (its write failed) a day can use several configurations: CP1 and CP2
  compute with the defaults, CP3 asks the live configuration for `signal_params` and
  again for `universe_params` (`Q/pipeline/daily_pipeline.py:453`,
  `Q/services/config_service.py:217`), although `run()` says that no later checkpoint asks
  the configuration service (`daily_pipeline.py:87`: 禁止再调 ConfigService).
* A request with an idempotency key is answered before `get_db` commits
  (`Q/core/database.py:20`); if that commit fails the client has the number of a row that
  was never stored.
* The incremental cost is rounded to the column at every request, `replay_position`
  only at its end (`Q/services/account_service.py:78`): a void can change the cost of a
  position in the last decimals although nothing that counts was voided.
* New signals are lost to the users when the process dies after CP3's flag and
  before the announcement: the resumption finds CP3 done. `NotifiedOnce` is the
  half that holds.
* The watchdog's alert carries the elapsed minutes in its payload
  (`Q/services/pipeline_monitor.py:94`), so the 24-hour deduplication, which compares
  payloads, never applies to it.

* With `Careful = FALSE` a date triggered again after SUCCESS while the 18:30 job is
  at work, or by hand during the 15:05 job, leaves two rows of one topic.
* A holding whose score falls below the selling percentile gets no private stop-loss
  at all: `pct_above_sell` has priority (`Q/engine/signal.py:268`) and is then
  filtered out as shared (`Q/services/signal_service.py:692`).
* `notify_private_signals` promises that a failed message does not affect the
  others; a failed flush makes the session unusable, so all of them are lost.

About configuration, backtest tasks and the calendar:

* The snapshot of a run is twelve reads, one key at a time: a save in between
  gives a mixture that no user ever had (`Q/services/config_service.py:153`). A reader that
  refills the cache before the commit keeps the old value for up to five minutes.
  An import records as old value what it loaded at its start
  (`Q/api/v1/settings.py:160`), not what a save changed it to meanwhile; reverting that
  row brings back the older value. The history is listed by `changed_at`, the start of the transaction, which need not be
  the order of the commits.
* Two requests between `has_active_task` and the insert start two backtests
  (`Q/api/v1/backtest.py:132`).
* Days of a year that is not published yet are written as closed and then count as
  covered, until a refresh writes over them.

About factors, months and market state:

* A day whose IC cannot be computed stays the oldest without rows and takes a place
  of every evening's few.
* The monthly job never commits the quarterly refresh of financials
  (`Q/pipeline/scheduler.py:211`), and that step stands outside the `try`, so a failure
  aborts the steps after it (`Q/pipeline/monthly_scheduler.py:108`). The scheduled job
  never writes the quality rows of `run_monthly`.
* The hysteresis of the strategy order never delays a switch
  (`Q/services/factor_monitor_service.py:1106`, against `Q/engine/hysteresis.py:3`); the
  rules R3 and R4 never apply; when every strategy is off-line the defaults apply.
* The state a switch is compared with is the one before the window of about a hundred
  days (`Q/services/market_state_service.py:100`): a switch back inside the window is never
  announced. The debounce starts anew in every window.

About ingestion and point-in-time data:

* The adapter's reports of a quarter are never refreshed while the process lives
  (`Q/data/adapters/tushare.py:351`, `Q/main.py:91`).
* One bad row of financials rolls back a whole day of an import, while
  `Q/data/validators.py` promises that filtering a row never blocks the batch
  (行级过滤，不阻断整批入库).
* A day may be skipped as whole because a backfilled report carries its date; a partial
  answer of the fallback source fails the completeness test.
* Two rows of one publish day are chosen between arbitrarily (`DISTINCT ON`); the bundle
  has no `revenue_yoy` and begins 450 days before the start while the SQL has no
  lower bound; `_avg_amount_before`, which is to reproduce `get_avg_amount`, averages over market
  days while the SQL takes the stock's own last twenty rows; a stock without
  `list_date` counts as listed in 2000 in the bundle and is excluded by the SQL. A
  later forecast replaces `pre_announce_date` of an earlier announcement.

About pool, scores and signals:

* A run of CP2 again leaves rows of codes it no longer takes marked as in the pool; a
  code may be on both lists; the blacklist is read before the scoring and the
  whitelist after it.
* A stock that lacks the value of one weighted strategy loses all residuals and ends at
  a score of 50 made of nothing, and so do all stocks when the first strategy is absorbed
  with the others (`Q/engine/orthogonalizer.py:176`), while `Q/engine/scorer.py:333` promises that it
  contributes 0 and does not spread; a constant column gives 0 to every stock.
* `update_status` writes over a status that changed after its test. Rows of a former run
  of a day stay, and the lineage may pair a newer pool with an older snapshot. The
  time to live counts calendar days; `docs/spec/QuantPilot_SDD.md:814` says trade days.
* A holding in the pool without a row in `daily_quote` (a suspended stock has none)
  is passed over by both loops of the generator, so its hard stop-loss is not
  reachable, while the comment near `Q/engine/signal.py:438` says that suspended stocks
  still get it.
* The private evaluation leaves `pct_above_sell` out on trust in the shared table, which
  lacks the SELL when threshold, quote or pool row changed after CP3.
  `_compute_holding_signal_states` compares the two newest snapshots of any age, not
  yesterday's with today's.

About the backtest's simulation:

* The concentration limit per industry never applies: the quotes carry no
  `sw_industry_l1` (`Q/services/backtest_service.py:506`), although the comment at
  `Q/engine/backtest/engine.py:1119` says they do.
* `pnl_pct` and `market_value` of a virtual position are never updated, so the stop-loss
  never fires and the sizing cap never binds. A purchase without a suggested share
  gets 10 %. A limit-down does not stop a sale. Without a quote the net asset value
  falls back to cost.

About plug-ins, reports and notifications:

* `run_plugin` promises never to raise; the error of a torn message escapes. An early end
  of the pipe reads as a timeout, as does a slow start; an answer in the pipe of a
  child that exited as the deadline passed is reported as an error.
* Performance counts voided rows everywhere, counts partly sold stocks as closed, and
  measures a holding to its first partial sale; holding days by period may be negative.
* A custom report with compliance 0.0 prints that there are no signals
  (`Q/services/report_service.py`, about line 308: the conditional binds the whole string);
  reports generated again are added to the old ones.
* `read_at` of a notification of the system is one for all accounts; a mark is
  answered before its commit, so the list may show the old state until it is opened
  again.

## 6. What is not modelled

* Values: prices, scores, factors and statistics, except where a property counts
  money or shares; formatting, logging, metrics, progress messages.
* `daily_portfolio_value` and draw-downs, `pnl_pct`, notes and time stamps of the
  account tables.
* Of `PATCH /positions` the price and the phase only.
* The calendar in `DailyPipeline`: its date is a trading day (on others the job returns
  before it touches the row); `TradeCalendar` has what days the job takes for one.
* *Strategies, factor diagnostics, volatility, ratios and attribution*: floating-point
  formulas without shared state.
* *Authentication and users*: sessionless tokens, a unique name guarded by the
  database. *Deployment scripts*: configuration.
* Retries inside the adapters, the job that fetches dividends, the preferences and the
  push window of notifications, the progress of a backtest in Redis, the set-up
  wizard, and the view models of the frontend.
* The components marked `partly` in `PROJECT.json` name what they leave out.

## 7. Plan

Every component with control worth checking has a module, and every safety
property of the runs a theorem. What is left, in this order:

1. Lemmas behind the liveness properties that are safety: that the row of a first run
   that hangs satisfies the watchdog's query, that what a fault leaves behind
   satisfies the guards of the retry, stated as implications between guards.
2. The refinements a reader would expect next: `AccountRequests` with a single request
   at a time as steps of `AccountLedger`.
3. The job of dividends, together with `mark_to_market`'s `daily_portfolio_value` rows, in
   `AccountLedger`; preferences and the push window in `PrivateSignals`.
4. `DailyPipeline` with `CandidatePool` and `SignalLifecycle` in one composition: the
   checkpoints call them, and now each has the pipeline as a chosen order of calls.

## 8. Running it

    tlc -config PipelineSafety.cfg MCDailyPipeline
    tlc -config Services.cfg MCServices
    tlapm DailyPipelineProofs.tla

`PROJECT.json` pairs every run with its module and configuration, maps each
definition to the lines it translates, and lists the mutants, the hazards, the
findings and the theorems.
