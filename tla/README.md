# Verification of streamed-trader

TLA+ specifications of streamed-trader's engines, indicators, executors, candle stream, run
recorder, candle caches, trader and sweeps, the TLC runs that check them on small instances, and
TLAPS proofs of the properties that matter most for every instance. Paths are relative to the repository (`core/...`).

A reader in a hurry: [what was found](#what-the-checks-found), [the modules](#modules-and-the-code),
[the runs](#runs), [the proofs](#proofs), [what is left](#plan).

## The system

streamed-trader runs one strategy ("streamer") on candles in three modes. A **backtest** replays
stored candles through `engine/backtest.py`. A **dry run** and a **live** run consume Binance
futures candles as they close, through `engine/trading.py`; a dry run fills orders in
`executor/simulated.py`, the executor of the backtest, a live run sends them to the exchange.

```
 exchange ──candles──> ReliableWebsocket ──> LiveCandleProducer ──events──> TradingEngine
     │                                        (reader task, queue)            │      │
     │  <──── REST ─────── CandleHistory  <──── warm-up, back-fill ───────────┘      │
     │                                                                    begin_event, submit
     │  <─ orders ─ BinanceOrderClient <─ LiveExecutor <──────────────────────────── ┤
     └── user stream ─> ReliableWebsocket ─> BinanceTrader ─> LiveExecutor           │
                                                    SimulatedExecutor <──────────────┘
                                                      │ OrderBook, Status, apply_fill
                                                      └─ on_trade ─> LiveRecorder ─> shards, run
                                                                                     JSON, trades
```

In a live or dry run everything but the order client's two threads runs in one asyncio event loop;
a step that has no `await` in it is atomic. Interleavings come from the awaits (a fetch, a socket, a
timer, a callback), from the thread pool, from the exchange, and from the death of the process
between two writes. A backtest is sequential, reads its candles from caches on disk that fetchers
fill, and runs in forked workers when it is one of a sweep.

### Inventory

State, operations, what they touch, what is hard, and what makes each part correct.

| Component | State | Operations and interactions | Hard | Correct when |
| --- | --- | --- | --- | --- |
| `engine/trading.py` TradingEngine | `_last_start` per symbol, the event in hand | `warmup` (history → indicators), `run_async` (pull events, judge continuity, `_backfill_gap`, `process_event`), `_fatal`; calls producer, history, executor, recorder, `on_error` | repeated, late, missing and misaligned candles; a history that fails or answers short; an exception at any stage of an event | every candle reaches the indicators at most once and without a hole; decisions only on the newest candle; every event is settled |
| same file, late decisions | none | `_is_late`, `_drop_exposure_increase` | refused submissions in the middle of a list of actions | a late decision never grows or flips a position |
| `history/` | cache-less fetcher | `fetch(range)` for warm-up and back-fill | errors, short replies | the reply is judged by its caller |
| `executor/simulated.py`, `order/`, `account/` | `Status` (margin, positions, open orders), `last_close`, `_order_seq`, `_bankrupt` | `begin_event` (match, expire, mark, liquidate), `submit`, `apply_fill`; dry-run restore by the trader | order of fills in one candle, reduce-only orders racing each other, a trade sink that raises in the middle, a restart that restores half of the state | books sound, orders age exactly, reduce-only never opens, a bankrupt account is flat and dead, reported profits are the cash moved |
| `producer/live.py` | queue, `_last_close_at`, `_stall_extended`, `_running`, failure | reader task, `__aiter__`, `request_stop`, stall watch | reader, consumer, timer and stop interleave; recoveries extend deadlines | failures come after queued candles; stalls are real and caught in time; nothing after stop; a silent stream ends |
| `producer/reliable_websocket.py` | `_reconnect_due`, `_library_recovering`, `_streak` | `recv`, `_reconnect`, around the library's own reconnection | two layers reconnect | never both at once; a recovery counted once; attempts bounded |
| `executor/live.py` | mirror of the account, pending decisions, partial sums, id counter | `create`, `submit`, result tasks, three user-stream messages | fills before replies, lost replies, retries, cancels racing fills, restarts | a close never opens; one trade per order, paired with its decision; failures reported; mirror equal at rest |
| `executor/binance_order_client.py` | thread pool | tries and retries of an order, cancels in two books | a reply lost after the order was accepted | as above |
| `recorder/live.py`, `result/writer.py` | month buffer, shard index, run JSON, trade log | `record_event`, `record_trade`, `end_event`, `close`, resume or fork | death between any two of three files, torn lines, month roll-over, changed settings | recorded rows survive, loss is bounded, the saved account contains only logged fills, settings never mix |
| `trader/trader.py` | tasks, sockets, flags | `start`, `stop`, user socket listener, restore of a dry run | a stop during the start, two stops, errors in any task | one stop takes over, nothing works on after it, everything opened is closed |
| `engine/backtest.py`, `producer/in_memory.py`, `candle/merge.py` | series computed in advance and a cursor per symbol | merge by end time, replay | kept in step with the live engine by hand; other order of indicators, computed instead of updated | same values seen and same fills as the live engine |
| `streamer/indicator/` | windows, running sums, deques | `update`, `compute`, `sink`, `read` | incremental against whole series, warm-up, missing fields | indicators equal their definitions |
| `fetcher/base.py`, `stock/`, `binance/` | month chunks, partial chunks, `_meta.json` on disk | `get_candles_with_cache`: classify, extend, fetch, save, promote | a month that ends while it is fetched, a crash while saving, files published late, a stock split | finished months whole and final, calls return what exists once, no mixed adjustment |
| `fetcher/binance/funding_fetcher.py`, `metrics_fetcher.py` | a file per month | fetch, keep | a month not over or not published | a kept month has all its days |
| `sweep/runner.py` | job list, parent's cache, workers' copies, results | warm, fork, take, run, collect | results in any order, caches that drift apart, workers killed | the results of the jobs run one by one |
| `result/metrics.py`, `candle/columnar.py`, `recorder/full.py` | per-run data | pure functions or one-shot writes | little | tables and sums |
| `visualise/` | React viewer | rendering, aggregation | little | sums over trades |
| `checks/` | – | the repository's own test scripts | – | read as intent |

`PROJECT.json` lists every component with its status, and under `hazards` the places where this
code is hard to test, each with the property that guards it or the reason why none does.


## Modules and the code

| Module | Models | Kind |
| --- | --- | --- |
| `CandleFeed` | what the engine's continuity handling promises | abstract specification |
| `TradingEngine` | `engine/trading.py`, with the replies of `history/` | component, implements `CandleFeed` |
| `OrderBook` | `order/order_book.py`, `order/action.py`, the minimum notional of `order/symbol_rules.py` | operators |
| `SimExecutor` | `executor/simulated.py` with the account, and the restart of a dry run | component over `OrderBook` |
| `FillAccounting` | `apply_fill` and `PositionState` with averages and margins | component |
| `ReliableWebsocket` | `producer/reliable_websocket.py` over python-binance's socket | state and steps |
| `LiveCandleProducer` | `producer/live.py` | component, composes `ReliableWebsocket` |
| `ShardWriter` | `SeriesShardWriter` of `result/writer.py` | state and steps |
| `LiveRecorder` | `recorder/live.py`, the dry-run restore of `trader/trader.py` | component, composes `ShardWriter` |
| `Indicators` | the twelve indicators of `streamer/indicator/` | operators |
| `EventLoops` | `process_event` of `engine/trading.py` with its late decisions, and `engine/backtest.py`, over `candle/merge.py`, `producer/in_memory.py` and `Indicators` | two loops compared |
| `CandleSources` | what the fetchers of `fetcher/` are given by their sources | environment and operators |
| `MonthCache` | `get_candles_with_cache` of `fetcher/base.py`, with the hooks of `stock/massive_fetcher.py` | component over `CandleSources` |
| `DumpCache` | the caches of `funding_fetcher.py` and `metrics_fetcher.py` | component over `CandleSources` |
| `CandleCaches` | both caches and the world they run in | composition of the three |
| `Trader` | `start` and `stop` of `trader/trader.py`, with `examples/trader.py` | component |
| `ParameterSweep` | `sweep/runner.py`, with the series cache of `engine/backtest.py` | component |
| `Exchange` | the futures exchange as the code relies on it (not code of the repository) | environment |
| `LiveExecutor` | `executor/live.py`, `executor/binance_order_client.py`, the start of `trader/trader.py` | component, composes `Exchange` |
| `MC...` | the small instances TLC checks | instances |
| `...Proofs` | theorems about `TradingEngine`, `SimExecutor`, `FillAccounting`, `LiveCandleProducer`, `LiveExecutor`, `Trader`, in `CacheProofs` about `CandleCaches` and `ParameterSweep`, and in `LiveRunProofs` about `LiveRecorder` and `EventLoops` | proofs |

Every module's definitions are listed with the source lines they stand for in `PROJECT.json` under
`map`. Operators whose comment begins with "Mutant" or "a faulty variant" are deliberately wrong
versions of the definition next to them: they show that a property can fail, and no specification
uses them.

### TradingEngine and CandleFeed

One action is what the driver does between two awaits, cut further where an exception may leave
`process_event`.

| Action | Code |
| --- | --- |
| `WarmupReply`, `WarmupError` | `warmup`: one fetch for all symbols, judged before any indicator is fed |
| `Receive`, `StreamEnds` | the `async for` of `run_async` |
| `DropSeen` | `_SkipEvent`: a candle at or before `_last_start` drops its whole event |
| `PassContinuous`, `JudgeGap`, `BackfillError`, `BackfillReply` | `_backfill_gap`; `StopFatally` is `_fatal` and the break |
| `Replay`, `EndReplay` | the loop that replays the fetched candles with `decide=False` |
| `ProcessLive` | `process_event` of the live candle, decision included |

`anchor` is `_last_start`. `fed`, `decided` and `lost` are histories: how often a candle reached the
indicators, was decided on, and which candles raised on the way. `ok` and `raised` choose how far
`process_event` gets; an exception goes to `on_error` (`HandlesErrors`) or ends the run.

`CandleFeed` knows only a cursor per symbol and the set of candles used: a cursor moves to the next
candle or, before the stream, to the end of a stretch of history. The refinement takes the anchor
for the cursor; events, skips, fetches and replays are stutters or vanish into `Consume`.

Abstracted: prices, indicators, actions. What `process_event` does with them, and which actions of a
*late* decision are dropped, is in `EventLoops`.

### SimExecutor, OrderBook and FillAccounting

`begin_event` is cut at every fill, because each fill ends in `on_trade`, which writes to disk and
may raise: `BeginEvent`, per symbol `TakeCandle`, `Match` (once per triggered order), `Expire`, then
`MarkToMarket`, and on a verdict of bankruptcy `Liquidate` per position. `submit` is `Market`,
`Rest`, `Cancel`, one per action of the strategy. `Restart` keeps what `trader.py` restores (account
and open orders) and resets what it does not (`_order_seq`, `_bankrupt`, `last_close`).

`OrderBook` translates `trigger`, the fill price, the fill quantity of a reduce-only order, the
matching order, registration with its capacity and replacement rules, cancellation, expiry and the
minimum-notional rule with its exemption for pure reductions.

Money in `SimExecutor` is `cash` plus `position * mark`, so that a fill is one integer equation.
`FillAccounting` models what the code really stores, an average price, an unrealised profit per
position and one margin, with the four cases of `apply_fill` (open, add, close, flip).
`AccountAddsUp` is the bridge: it says the stored account always equals cash plus marked positions.
Prices in `FillAccounting` are integers and a fill whose new average is not one is left out
(`OnGrid`); floating-point rounding is out of scope.

### LiveCandleProducer and ReliableWebsocket

Two tasks share a queue. `StartReader`, `ReadClosed`, `ReadOther`, `ReadFrame`, `ReadRaises`,
`Reported` and `Reconnect` are the reader, cut at its awaits (`recv`, `on_error`, `connect`).
`Watch`, `TimeOut` and `Take` are the consumer (`__aiter__`), `Resume` and `Abandon` the engine,
`RequestStop` the trader. The library under the socket may report a lost connection, recover by
itself or end its read loop at any moment. Time is counted in ticks: a `Tick` ages the silence of
every symbol and the wait of the consumer; the loop's own steps take no time. `quiet` is a history
of how long a symbol was silent while the consumer waited.

### LiveRecorder and ShardWriter

Three kinds of files: shards, the run JSON, the trade log. `pc` says between which two writes the
recorder is: `RecordEvent`, `ApplyFill`, `AppendTrade`, `WriteShard`, `WriteJson`, `EndEvent`,
`Close`. `Raise` is an event whose `end_event` is skipped. `Exit` may happen anywhere, `DieInAppend`
leaves a line without its end; `cutShort` is a history of the months a process took up from their shard
and did not live to name in the JSON again. `Restart` chooses between resuming, beginning and forking a run, and
repairs the log's tail. A row is a number, a time its month, the account the set of the fills applied
to it: enough to tell which row or fill is in which file.

### LiveExecutor and Exchange

`Submit` is one action of the strategy: the decision is remembered under the client id, the request
goes to the pool. `Work` is one thread's attempt: accepted and answered, accepted and the answer
lost, refused, or never arrived. `TimeOut` is the wait that gives up. `OnUserData` takes one message
from the user stream, `BeginEvent` forgets market decisions of the last candle. `Restart` is the
death of the process and `create` in the next one; `Connect` opens the user stream, after a warm-up
in which the market goes on. `Exchange` fills in parts, expires, triggers conditional orders into
market orders of the same id, refuses an id that is open in the same book, and sends messages.
Account and order messages keep their order; algo messages keep theirs, and nothing is assumed
between the two, as `_process_algo_update` does not either.

Abstracted: one symbol; no prices and margins; no symbol rules; the limit of 256 pending decisions.

### Indicators and EventLoops

The backtest engine repeats the steps of the live engine's `process_event` in a loop of its own, for
speed, and the docstring of each promises that the two agree. `EventLoops` runs both over the same
candles: `LiveEvent` takes one event through the live loop with *any* list of actions, and
`BacktestEvent` gives the other loop the same list, since a strategy that saw the same must answer
the same. `BacktestIsLive` compares, after every pair, what the strategy saw (`View`: every value of
every indicator, as deep as it is kept and one deeper, positions, stops, equity) and the trades. The
loops differ in the order of the indicators and in that `BackLoop` draws most values from series
computed in advance (`Series`, `Drawn`), so a cursor that runs ahead of a symbol listed later, or a
series that means something else than the updates, is seen.

`Indicators` has `Update` for one candle and `Compute` for the series, both as the code computes
them (running sums in the order of the code, monotonic deques, counts of missing fields, the last
two pivots), and `EventLoops` has `Meaning`, the definition over all candles of the symbol that
`ReadsMatchMeaning` compares the updates with. Values are integers that keep a mean as its sum and a
variance without its root, so equality is exact; that the *rounding* of both paths agrees too, which
the code takes care of, is out of the model. An ADX is only whether it has a value.

`LateEvent` is a late decision in a live run: `DropExposureIncrease` filters the list, the exchange
may refuse any of what is left, and `LateNeverGrows` looks at the positions that come out of it. The
executor in this module is the simulated one without fees and slippage, with market orders and one
protective stop per symbol; `SimExecutor` has the rest.

### CandleSources, MonthCache, DumpCache and CandleCaches

A candle is the number of its slot; days and months are runs of slots. A trading session is a run of
slots of its own: from an open to the next close, of any length, so that a short day, a holiday and a
post-market that ends at 01:00 UTC of the next day, perhaps in the next month, are all instances.
`CandleSources` says what a fetcher would be answered at a time: by REST; from dump files, daily and
monthly, any of which may be late, with REST for what they lack (`Skipped` is the month taken for one
before the listing); or by the stock source, which knows the sessions that are over, looks them up from
the date of the fetch's start on (`Grid`), cuts them to the range and fills silent slots after the first
trade (`StockSlots`). It also moves the clock, publishes files and splits the stock, independently of
the program.

`MonthCache` is one call of `get_candles_with_cache` at a time, cut wherever it touches the disk or
asks the source: `OnCacheOpen`, `DropStale` per file and `WriteMeta` (the split check of the stock
fetcher), `Classify`, `FetchDelta` and `FetchRun`, `SaveMonth` and `Promote` per month. `Raise` is a
request that fails for good, `Crash` the death of the process, at any of these. Chunks are moved into
place whole; `_meta.json` is written in place and may be torn. `DumpCache` is the same for the two
dump caches, which keep whole months and write them in place. `CandleCaches` composes the two with the
world (`SpecCaches`): a behaviour has one source, and the clock, the publication of files and splits
interleave with the steps of its cache.
`unfound` and `absent` are histories: the days of months that were over of which a fetch found no file.

Sorted sequences are defined without recursion: `Ascending(S)` has at place i the member of S with i
members up to it, and `At(s, K)` is what s holds at the places K, which is what the filters of a save
and the assembly of a fetch need. `ReturnsSource` says of the list before it is sorted that it has
each candle of the range once (but for the gaps below); the sort and the cut to the range at base.py:121-124 then return
exactly those, in order.

### Trader

One variable `pc` for the main coroutine and the three tasks. `CreateClient` to `ConnectCandles` is
`start`, cut at its awaits; `StartFails` and `Interrupt` leave it at any of them. `BeginStop` is
`stop` up to its first await: flag, recorder, `request_stop`, cancellation of every other task; then
`Close` or `CloseRaises` per resource. `StreamEnds` and `UserStreamLost` are the stops that tasks
begin, `SeeStopped` is the loop of `examples/trader.py` that finds the flag down. `refs` is what the
trader still holds, `open` what is really open.

### ParameterSweep

`WarmJob` and `Fork` are the parent, `Take`, `RunJob` and `Killed` a worker, `Collect` and `Finish`
the parent again. A series is the record of what determines it, a key the pair the code would use:
that a key stands for one series is the heart of `SweepIsSequential`, since workers inherit a cache
and add to it in an order that depends on the jobs they happened to take.

## Runs

Together the passing runs fire every action and every disjunct of their next-state relations.
`CHECK_DEADLOCK FALSE` everywhere: a run ends when its bounds are used up, and the engine, the
producer and the recorder stop by design.

| Run | Question | Bounds, and why they are enough |
| --- | --- | --- |
| `engine` | Is every candle fed once, in order, without a hole, decided on when newest, every event settled, and `CandleFeed` implemented? | Two symbols with windows 1 and 2, starts 0 to 6, an interval of 2, so that candles off the grid exist; a back-fill of one candle: a gap of one is repaired, a gap of two is refused. Events of one or two candles. Four starts on the grid give warm-up, gap, replay and redelivery in one behaviour. |
| `sim_backtest` | Do orders live exactly their candles, is a liquidated account flat with an empty book, do orders of a candle fill in turn? | No restart, no failing sink. Four events, three actions: an order of one candle and one of two both live and die, and a liquidation after them still has an event to go wrong in. |
| `sim_dryrun` | Do book, reduce-only orders, bankruptcy and solvency hold when the sink raises and the process restarts? | Three events, three actions, one restart, any fill may raise. The book holds two orders, so that it is full. |
| `fill_accounting` | Do reported profits equal the cash moved, and does the account add up? | Two symbols, prices 120, 480 and 600, whose averages are mostly integers, five fills: open, add, partial close, flip, close. |
| `live_stream` | Do reader, socket, timer and consumer work together? | Two symbols, a deadline of two ticks, a queue of two, two reconnection attempts. The deadline can be renewed and still be missed; two queued candles are enough for one to be behind the failure. |
| `live_recorder` | Does what is on disk survive a death at any write, several deaths, months that come back and other settings? | Two symbols, whose months interleave, two settings, two months, three rows with a checkpoint every two, two fills, two restarts: a death between any two writes, a torn line with an append behind it, a second death after a resume, a month revisited, and a run left alone while another is written, all happen (without its exceptions `RowsSurvive` fails, findings 5 and 6). Symbols and settings are symmetric. |
| `live_executor` | Do orders, messages and the local copy of the account agree? | One contract held, one stop and one limit of two, market orders of one, three orders at the exchange, two decisions, two tries, two threads, one failure (restart, lost socket or timeout). |
| `month_cache` | Is what is cached whole, final and of one adjustment, and what is returned what exists? | Three months of two days of two slots: a run of two missing months, a month that ends during a call, a range across a cached month. Listed on the last slot of the first month; one monthly file and the daily file of its last day late; four sessions, two of which end in the next month and one in the next day, one closed slot; silent slots at an opening, within a session and for a whole one; one split. The clock moves in half slots, so that a candle is in progress. |
| `parity` | Do the two loops agree, do indicators mean what they say, does a warm-up suffice, does a late decision never add? | Three symbols, one only in the candles; up to four candles of three shapes (a rise, a crash, a gap up without the taker field), windows of one to three, two values kept. A symbol is listed later or has a hole; the margin is small enough for a liquidation. The live loop is followed to the first late event. |
| `trader` | Does one stop take over and everything get closed? | None: the state is finite but for `stops`, which `StopTakesOver` bounds. `EarlyLoss` is off (finding 10). |
| `sweep` | Are a sweep's results those of its jobs? | Four jobs that share series, with a subclass of its own `compute`, over one or two workers of two jobs each, one death; lists with a failing job, with an unknown symbol, and empty. |
| `unpublished_day` | refutes `CacheIsSource`, the cache without gaps that the docstrings promise | as `month_cache`, the dump source only, every file late |

### What each property guards

- `AtMostOnce`, `NoHole`: a strategy in a live run sees the indicator history a backtest would, but
  for candles whose failure was reported. `DecidesOnNewest`: it acts on the candle the stream has just
  delivered, right after the last one its indicators hold, and never on a replayed one.
- `EventSettled`: no event is fetched for and judged for ever.
- `BookSound`: a cancel by client id reaches one order. `ExpiryExact`: an order of N candles gets N
  chances, none more and none fewer: it is gone after its last candle and leaves before only by being
  triggered, cancelled or liquidated. `FillsInSubmissionOrder`: results do not depend on the order of a dict.
- `ReduceOnlyShrinks`: a protective order never becomes an entry, whatever filled before it on the
  same candle. `DeadStaysDead`, `BankruptIsFlat`, `DecidesSolvent`: what bankruptcy means.
- `ReportedIsCashFlow`, `AccountAddsUp`: the trades of a run explain its equity.
- `OneLayerReconnects`: the library's reconnection and the code's own exclude each other, and a
  recovery is counted once. `StallIsReal`, `CaughtWithinTwice`: the verdict of a stall is neither early nor, for
  the stream as a whole, later than twice the deadline. `FailureComesLast`: no candle that was read
  is thrown away for a failure after it. `NothingAfterStop`. `SilentStreamEnds`.
- `LossBounded` (of months the run did not come back to), `SavedIsLogged`, `SettingsNeverMix`: what a
  death may cost. `RowsSurvive`: a row that
  was once safe stays so, over deaths, other settings and months that come back, with two exceptions
  in its formula: the rows of a month that a process took up from its shard and did not live to name in
  the JSON again, and those of a month the run came back to (findings 5 and 6, which refute the
  property without exceptions, `NoRowLost`).
- `CloseNeverOpens`: an action decided as a pure reduction never grows or flips the *real* position,
  although it is decided on a copy that may be stale and may be sent twice. `RecordedOnce`,
  `PairedExactly`: an order of this process ends in one trade of its whole quantity, paired with its own
  decision or with none. `MirrorAtRest`: with nothing under way the strategy's account is the exchange's.
  `NoSilentFailure`: an order that was never accepted and a cancel that was never carried out (`obeyed`
  is the history of those that were) are under way or reported.
- `CacheIsSound`, `DumpIsWhole`: what is on disk is never looked at again, so it must be right the
  first time. `ReturnsSource`: a call put together from chunks, extended partial chunks and fetches
  has no hole and no candle twice. The code leaves three gaps in a month of candles and one in a month
  of metrics, and the properties except exactly these: days of a month that was over of which a fetch
  from dump files found no file (finding 1); of a stock, the slots before the first trade of a session,
  and the part of a session that lies in the month after the one it opened in (finding 7); days of a
  metrics month whose daily file was absent after the month was over (finding 8). `CacheIsSource` and
  `DumpIsSource` are the same without exceptions, which is what the docstrings promise, and the findings
  refute them. `NoMixedAdjustment`: no false gap where a stock split.
- `BacktestIsLive`: a backtest predicts what the live engine would decide. `ReadsMatchMeaning`: no
  value drifts from its definition and none looks ahead. `WarmupSuffices`: starting late changes no
  value over a window. `LateNeverGrows`: being late never costs exposure.
- `StopTakesOver`, `EndsClosed`: a stop stops, whoever calls it and when.
- `SweepIsSequential`: a sweep is a loop that is faster.

### Fairness

Three properties need it.

- `EventSettled` (`TradingEngine`): weak fairness of `Check`, `HistoryReplies` and `Process`. The
  driver is one task that runs to its next await, and `history.fetch` returns or raises after a
  bounded number of attempts. No fairness on `Receive`, `StreamEnds` or the warm-up.
- `SilentStreamEnds` (`LiveCandleProducer`): weak fairness of the consumer, of the engine returning
  from its event (`Resume \/ Abandon`, which `EventSettled` says of it), of time, and of the reader's
  own steps `StartReader`, `Reported` and `Reconnect`: the event loop runs what is ready, `on_error`
  and a connection attempt return. Nothing is assumed of the network, nor that anybody stops the run.
- `EndsClosed` (`Trader`): weak fairness of the steps of `start`, of each stop's `Close`, of the loop
  of the main coroutine and of the arrival of an order result, which has a timeout. None of failures,
  of the stream's end or of the user.

## What the checks found

Each of these is a behaviour of the code that a comment, a docstring or a README of the repository
denies; `PROJECT.json` has the lines on both sides. The first is a run of the project; for the others
the configuration that shows it is given: one kept beside the runs', or a run's with another invariant.

1. **A month cached without its last day** (`unpublished_day`). When a finished month's file and the
   daily files of the days still asked for are not published yet, the dump fetcher takes the month
   for one before the listing, asks nobody, and the cache keeps the hole.
2. **A restored position can survive a liquidation** (`tlc -config MCRestartLiquidation.cfg
   MCSimExecutor`). `_liquidate` skips a symbol without a known close, and after a dry-run restart
   every symbol is without one until its next candle. The dead account keeps the position, and
   refuses to close it.
3. **Fills during the start are never learnt** (`MCLiveExecutor.cfg` with
   `INVARIANTS StatusIsTruth` instead of its own). The account is
   read before the warm-up, the user stream opens after it. What fills in between is missing from
   `status` until another fill of that symbol.
4. **One silent symbol can go unnoticed** (`MCStalledSymbol.cfg`, `MCLiveCandleProducer`). The flag
   that allows one extension of the deadline is shared: another symbol's close re-arms it, and each
   recovery renews the deadline of every symbol.
5. **Two deaths lose a month's rows** (`MCLostMonth.cfg`, `MCLiveRecorder`). After a resume the run
   JSON does not name the current month until the next checkpoint; the next resume starts that month
   empty and the next checkpoint overwrites its file.
6. **A back-fill across a month overwrites a shard** (`MCMonthRevisited.cfg`, `MCLiveRecorder`). The
   writer assumes that months are visited once, which holds in a backtest and not in a live run of
   two symbols.
7. **A stock's month can miss the hours before its first trade or after midnight** (`MCStockGaps.cfg`,
   `CandleCaches`). A fetch that starts at a month's 00:00 UTC looks its sessions up from that date on
   and drops the last hour of a post-market that opened the day before; and the fill of silent minutes
   starts every fetch without a last close. Both are cached for ever.
8. **A metrics month can miss its last days for ever** (`MCMetricsHole.cfg`, `CandleCaches`). A
   month that is over is kept although its last daily files are not published yet.
9. **The second stop can swallow the last failure** (`MCTrader.cfg` with
   `INVARIANT ResultsDrained` instead of its own). It cancels the
   first stop while that drains the order results, and the results with it.
10. **A candle socket opened for nobody** (`MCLateConnect.cfg`, `Trader`). If the user stream is lost
    while the candle socket is being opened, the producer has been forgotten when it is open.
11. **A hole after the first candle is refused** (`MCGapAfterFirst.cfg`, `MCEventLoops`). A symbol's
    interval is measured by its first two candles.
12. **The order of a liquidation differs between the loops** (`MCLiquidationOrder.cfg`,
    `MCEventLoops`). PositionAge adds positions to the account on its first look, in the order of the
    indicators, which is not the same in both.
13. **An ADX is not warm when the warm-up says so** (`MCWindowWarms.cfg`, `MCEventLoops`). It needs
    twice its window.

Other behaviours the models show, listed as hazards without a property because nothing in the
repository promises otherwise, or because a property states the exception:

- After a dry-run restart new orders are numbered from 1 and sort before restored ones: orders of
  one candle then fill out of turn (`OrdersFillInTurn` assumes no restart).
- Client ids `st-N` start at 1 in every process: a late fill of the previous process can be paired
  with a decision of this one (`PairedExactly` speaks of this process's orders).
- A cancel that fails leaves the order on the exchange and off the local book (`MirrorAtRest` excepts
  it, and the reported failure tells of it).
- A lost reply makes the client send again; the exchange refuses the id only while the first order
  is open, so a market order that filled at once is sent twice. `CloseNeverOpens` holds because a
  pure reduction goes out reduce-only; an opening order has no such protection.
- An exception in `begin_event` consumes the candle without the indicators having seen it.
- The stall timer looks at its deadline before its queue: an engine that held an event for longer can
  lose candles that were already read, which come back as a gap after the restart.
- A worker of a sweep that the system kills takes its job with it, and the sweep waits for ever
  (`SweepEnds` under `FairSpec`).

## Proofs

TLAPS proves the following for every value of the constants that satisfies the modules' named
assumptions: `SymbolAssumption`, `IntervalAssumption`, `BoundAssumption`, `WindowAssumption`,
`ModeAssumption` of `TradingEngine`; `BookAssumption` of `OrderBook` with `ExecutorAssumption` of
`SimExecutor`; `AccountAssumption` of `FillAccounting`; those of `LiveCandleProducer` and
`ReliableWebsocket`; `RunAssumption` of `LiveRecorder`; `ActionAssumption` of `LiveExecutor`;
`LossAssumption` of `Trader`; `HistoryAssumption` and
`SentinelAssumption` of `Indicators` with `LoopAssumption` of `EventLoops`; `SweepAssumption` and `JobAssumption` of `ParameterSweep`;
`CalendarAssumption` and `SessionsAssumption` of `CandleSources`. They say what type a constant has, that
the interval and the sizes of the calendar are positive, that trading sessions do not overlap and every
close is the close of one, that prices and sizes are numbers, that there is a
run for every restart, that the symbols of an account are finitely many, that a resting action is a
limit or a conditional order, that an indicator has a window and keeps at least one value, that "no
value", NaN and a refused read are three things and no numbers, that a strategy's orders are for symbols
of the run, that the client ids `st-1`, `st-2`, ... are distinct and that the ids a
strategy gives its own orders are neither among them nor the name of "every order"; any number of
symbols is allowed. TLC evaluates all of them in the runs.

| Module | Theorem | States |
| --- | --- | --- |
| `TradingEngineProofs` | `Invariance` | the inductive invariant |
| | `TypeCorrectness`, `NothingTwice`, `NoCandleSkipped`, `DecisionsAreCurrent` | `TypeOK`, `AtMostOnce`, `NoHole`, `DecidesOnNewest` |
| | `EngineImplementsFeed` | `Spec => ImplementsFeed`, the refinement |
| `SimExecutorProofs` | `ExecutorInvariant` | the inductive invariant |
| | `ExecutorTypes`, `BooksStaySound`, `TheDeadDoNotTrade`, `ReduceOnlyNeverOpens`, `DecisionsAreSolvent` | `TypeOK`, `BookSound`, `DeadStaysDead`, `ReduceOnlyShrinks`, `DecidesSolvent`, with failures and restarts |
| | `OrdersExpireExactly` | `ExpiryExact`, if the trade sink does not raise, restarts included |
| | `OrdersFillInTurn` | `FillsInSubmissionOrder`, if the process is not restarted |
| | `LiquidationIsComplete` | `BankruptIsFlat`, under both conditions |
| `FillAccountingProofs` | `AccountInvariant`, `TradesReportCashFlow`, `ProfitsAreMarked` | `ReportedIsCashFlow`, `MarkedToPrice` |
| | `MarginAddsUp` | `AccountAddsUp`, for any finite set of symbols |
| `LiveCandleProducerProofs` | `ProducerInvariant` | the inductive invariant |
| | `LayersExclude`, `NothingLostToFailure`, `StallsAreReal`, `SilenceIsCaught` | `OneLayerReconnects`, `FailureComesLast`, `StallIsReal`, `CaughtWithinTwice` |
| | `SilentAfterStop` | `NothingAfterStop` |
| `LiveRunProofs` | `RecorderInvariant`, `AccountIsLogged`, `RunsAreHomogeneous` | `SavedIsLogged`, `SettingsNeverMix`, for any number of runs, deaths and months |
| | `LossIsBounded` | `LossBounded`, for any number of symbols, deaths and months |
| | `SavedRowsSurvive` | `RowsSurvive`, for any number of symbols, restarts and deaths |
| | `LateDecisionsShrink` | `LateNeverGrows` |
| | `ReadsAreMeant`, `WarmupIsEnough` | `ReadsMatchMeaning`, `WarmupSuffices` |
| | `OnSameCandles` | `BacktestIsLive`, if the streams have the order of the candles or at most one symbol has a position age |
| `LiveExecutorProofs` | `ExecutorInvariant` | the inductive invariant |
| | `FailuresAreReported`, `ClosingNeverOpens` | `NoSilentFailure`, `CloseNeverOpens` |
| | `FillsAreRecordedOnce`, `FillsArePairedExactly` | `RecordedOnce`, `PairedExactly` |
| | `MirrorIsTrueAtRest` | `MirrorAtRest` |
| `TraderProofs` | `TraderInvariant`, `TheStopTakesOver` | `StopTakesOver`, also with `EarlyLoss` |
| `CacheProofs` | `AdjustmentsNeverMix` | `NoMixedAdjustment` |
| | `DumpsAreWhole`, `CacheHoldsTheSource`, `CallsReturnTheSource` | `DumpIsWhole`, `CacheIsSound`, `ReturnsSource`, without a hypothesis about files, sessions or trades |
| | `SweepInvariant`, `ResultsAreSequential` | `SweepIsSequential` for any grid and number of workers |

**The engine.** Neither `AtMostOnce` nor `NoHole` is inductive: a replay feeds a candle because
earlier steps established that it is the next one. The invariant adds `Fresh` (nothing beyond an
anchor was consumed), `Judged` (a symbol of the event that is no longer in `todo` is next in line),
`Filling` (a back-fill runs for a symbol on the grid, behind the event), `Replaying` (the batch is
exactly the rest of the gap) and `WarmingUp`. With these the candle of every consuming step is the
one after the anchor, and the only step that decides is the one of the live candle, taken when no symbol of
its event is left to judge; that gives all three properties and the refinement; the arithmetic of the grid
(`StepKeepsGrid`, `GridGap`, `RestOfGap`, `GapClosed`) is in lemmas of its own.

**The simulated executor.** `Aged` relates an order's remaining life to the candles it was charged
for, in the middle of an event too; `Numbered` says that submission numbers and submission order
agree; `DeadBooks` that a dead account has no order; `Covered` that a held symbol has a close and a
dead account's positions are still to be flattened; `FiniteBooks` that cardinalities mean something.
The conditional parts carry the condition they need, and the runs show that it is needed:
`MCRestartLiquidation.cfg` refutes `BankruptIsFlat` without it. `DecidesSolvent` needs no value of the sum
over the symbols: the verdict and the property sum the same worths, symbol by symbol.

**The accounting.** The invariant of one symbol is inductive as it stands. The work is in the integer
lemmas: the new average times the new position is what was paid (`AverageExact`), and a partial close
divides its profit without remainder (`QuotientExact`). `AccountAddsUp` is a sum over all symbols;
`MarginInv` says that the margin is what there was at first, less the fees, plus the sum of the
realised profits. A step changes the term of one symbol, and that a sum then changes by as much is an
induction over the set. The library's induction theorems cannot be instantiated here, so these lemmas
are proved by a minimal counterexample: the sizes of the sets for which the claim fails have a least
element (`WFMin` over `NatLessThanWellFounded`), and taking one element out of such a set contradicts
it.

**The live stream.** `OneLayerReconnects` is about a flag of the code and a state of the library that
callbacks keep in step, so `SocketInv` says which pairs of the two can meet. `QueueInv` says that a
failure in the queue is its last item and `FatalInv` that nothing is read after one; `WaitInv` bounds
the consumer's wait by its deadline, and `LagInv` the distance between the silence of a symbol and
what the timer knows of it, from which both `StallIsReal` (not too early) and `CaughtWithinTwice` (not
too late) follow.

**The recorder.** `SavedIsLogged` compares two files, and is kept only because the account in memory,
between any two writes, contains at most one fill that is not logged yet and the run JSON is not
written at that point: the invariant says which fills are where at each `pc`. `SettingsNeverMix` needs
that a run that is open was begun or resumed under the settings of the process, and that a run
number is not used again.

`RowsSurvive` is a theorem for any symbols, settings, restarts and deaths. `SurviveInv` says that the
buffer and every file hold rows of one month of one run (`RowsInv`); that of the months a run's JSON
names, all but the last were left behind (`ShardsInv`), and so were those of the index, in which a month
that is written again is one the run came back to (`IndexInv`); and where a row is that was once safe and
is not of an excepted month: in the file of its month, which the JSON names unless it is the month taken
up, and in what the process holds (`KeptInv`). Exceptions never end (`RowsStay`), and a month that was
left behind becomes one by its next row (`BackAgain`).

`LossBounded` rests on `SurviveInv`. `LossInv` says where a process's rows are whose month was not come
back to: in the buffer or in the indexed file of another month, and, once flushed, in indexed files;
those that are not safe yet were added since the last flush, but for the moment between the two writes
of one. A file that is begun anew is of a month that was left behind (`IndexInv`), so that its rows are
excepted (`BackAgain`). The exception is needed: with two symbols whose candles straddle the end of a
month a row can be flushed at the roll-over and overwritten before the JSON names it, and TLC refutes
the bound over all rows (the behaviour of finding 6).

**The two loops.** All four properties are about folds over sequences of any length, and the library's
induction theorems cannot be instantiated here. Two devices replace them. Induction over numbers is a
minimal counterexample (`UpTo`), as in the accounting. And `FoldLeft`, which the library defines by a
function *chosen* for its recursion on sets of positions, is brought to a trace once: such a function
exists (`FoldExists`), and each one runs through the elements in order (`FoldTrace`). What an event
does to an account (`MatchAllIs`, `FlattenAllIs`, `SubmitTrace`, `TouchTrace`), what a late list is cut
to (`LateTrace`), a sum (`SumAppend`, `SumTail`) and a warm-up (`UpdatesRun`) are then statements about
consecutive elements.

- `LateDecisionsShrink`: after each order of the list the tracked position lies between zero and the one
  before it (`Shrinks`), so the orders kept for a symbol all point towards zero and do not cross it
  together. Nor do some of them without the others (`FilledShrinks`), which is why a refusal does no harm.
- `ReadsAreMeant`: the invariant `Fed` says of every indicator what it has after the m candles before its
  cursor (`After`): the values it gave are the meanings of the prefixes, and its work is right. For a sum
  that is a window with its sum (`RollingWork`), for a monotonic deque that its entries span the window and
  every input of it stands behind one that is no worse (`Spans`), for the imbalance its counts (`TakerWork`),
  for the pivots that those found are those of the prefix and the last two are kept (`Turns`). There is one
  lemma per kind that one candle more takes it from m to m + 1, and `UpdateAfter` joins them.
- `WarmupIsEnough` is `After` used twice, on the whole past and on its last candles, which have the same last
  inputs (`SameInputs`): one candle more than the window, because a true range looks at the close before.
- `OnSameCandles`: the invariant `LoopsAgree` says that the loops are together after each pair of events
  (`Together`), and between the two that the backtest's step will bring it there (`Behind`). Two loops agree
  (`Agree`) if cursors, accounts and what was seen are the same, if each indicator that is drawn holds the
  values of its series up to the cursor, and if any other is the same in both (`Beside`). That a
  series means what the updates give is `ComputeIs`: its sums are running sums in which the value that leaves
  goes first (`SumsAreWindows`), and a NaN in it reads as a value that is missing (`SameRead`), at every depth
  down to the reads that raise.

The last theorem has a hypothesis, `SameOrder`: the streams are in the order of the candles, or at most one
symbol has a position age. The comment at `engine/backtest.py:215` claims the result without it, and
`MCLiquidationOrder.cfg` refutes that (finding 12). The run `parity` has one symbol with an age and streams
in another order than the candles. `ReadsAreMeant` says nothing of the supertrend and of the age, which
`OnSameCandles` covers.

**The live executor.** `CloseNeverOpens` relates an execution to a decision taken arbitrarily long
before, perhaps on a stale position. The invariant carries the decision along: a request and an order
belong to a decision (`IsRequest`, `IsOrder`), and if that was a pure reduction they are reduce-only,
through tries, retries, triggering and restarts. Then the exchange's own rule for reduce-only orders
is enough (`ReducingStep`), and no other step executes anything. For `NoSilentFailure` a request that
nobody waits for any more has been reported, and one that leaves the pool was accepted, carried out or
reported, cancels included. What `RemoveAt` and `Append` do to a queue is in lemmas of their own.

The other three theorems need an invariant over every message under way, and each rests on the one
before.

- `RecordInv` (`RecordedOnce`): a message tells of an order that exists, and the one that ends an order
  is the last about it (`MessagesInv`); an order whose Trade was emitted is done and nothing about it
  is under way (`TradesInv`); one that executed and ended has its Trade or its last message is under
  way (`KnownInv`); the messages under way are about the trades of the order that were not paid for
  yet, in turn (`FeesInv`, through the history field `fills`). A step of the exchange is described once
  (`OrdersGrow`, `Says`), and each of its actions is shown to be one.
- `PairingInv` (`PairedExactly`): which ids can collide (`IdsInv`: none of two resting orders, none of
  two market orders of one process), that a pending decision is of this process and has the id it is
  kept under, that a decision accepted once has one order or a triggered one and the market order it
  issued (`AcceptedInv`), that an algo message which forgets a decision tells of an order that issues
  nothing (`AlgoInv`), and so that the decision of a resting order is remembered until the message that
  ends it (`AwaitedInv`).
- `MirrorInv` (`MirrorAtRest`): the last account message under way carries the position, and if there
  is none the strategy has it (`PositionInv`); for an id that was accepted once, an open order is listed
  or its NEW is under way or its cancel is, or failed (`Shown`), and an order that is gone is not listed
  or the message that removes it comes after every one that could list it (`Hidden`). The hint a cancel
  carries names the kind of its order, so a cancel that succeeds has looked in the right book
  (`HintsInv`, `FoundIsOpen`). A read after a restart establishes it anew.

A cancel of every order withdraws several at once; the exchange may tell of them in any order, and the
proofs take any (`Listing`).

**The trader.** `StopTakesOver` counts the stops in progress, so the invariant has to say where each
coroutine can be: `NotYetSpawned` (a start has no task but the listener, and that only at its last
await), `StopsCounted` (a trader that runs has not been stopped, only main begins a second stop),
`TasksStopped` (after a stop a task is over or is the one that goes on stopping, and two never are),
`MainStopsAll` (main's own stop leaves no task). `StopEffect` says once what the synchronous part of
a stop does, and every way to begin one is an instance of it.

**The sweep.** The invariant says of every cache, the parent's and each worker's, that a series under
a key is the series of every indicator with that key (`KeyDetermines` is the lemma about the keys, which
holds because a subclass with a `compute` of its own has none), and of every result that it is that
of its own job. Taking, dying, replacing a worker and collecting in any order preserve it.

**The caches.** The calendar is any number of months, days and slots (`CalendarAssumption`), the trading
sessions any that do not overlap (`SessionsAssumption`); listings, late files, quiet slots and splits are
arbitrary, and so are the order of the calls and the places where they fail or die. The three theorems
have no hypothesis: what the code may miss is in the properties. Division by the sizes of the calendar is
used in three lemmas only (`QuotientIs`, `DayOfIs`, `MonthOfIs`); the rest compares times.

- `AdjustInv` (`NoMixedAdjustment`): the property speaks of files whose mark is that of the last split.
  It is kept because the mark is written last, after every file of the old adjustment is gone, and
  because what is in hand while the mark is current was fetched after the split: a split during a call
  makes the mark old, and then nothing is claimed until `on_cache_open` has run again.
- `DumpInv` (`DumpIsWhole`): the month a call takes for the current one is not ahead of the clock, so a
  month of metrics that is kept was over when it was read: a day of it that is not there had no file then,
  which `absent` remembers. A funding month has its one file or is not kept.
- `SourceInv` (`CacheIsSound`): a time read once per call runs through it. A chunk is what one fetch of
  its month may give (`ChunksFit`): nothing else, and all that is certain but for the days that had no
  file. A partial chunk begins its month (`PartialsBegin`, `Begun`): up to its last candle nothing that is
  certain is missing (`Gapless`), it was over at some time that `data_available_until` has passed, for the
  months of a call's delta one that is not after the time the call read (`CallBegins`), and of a stock it
  ends where a session does (`AtCloses`). So the fetch that extends it cuts no session (`CutsNone`), which
  is why only the first fetch of a month can lose the part of a session that opened before it. What a call
  has in hand fits from one month that may be saved already to the end of the run, up to the time read
  (`CallHolds`), whatever the clock says by the time it is saved.
- `ReturnInv` (`ReturnsSource`) adds what is gathered: of the months that are not left to fetch every
  slot that is sure, none twice (`HeldInv`), and that a chunk is of a month that was over (`ChunksOver`),
  so that a call does not look for its candles among those still to come. That the chunks read one after
  the other are all their candles is an induction over `FlattenSeq`, by a minimal counterexample
  (`FlatExists`, `FlattenIs`).

What a fetch from a time to another may give is `Fits`, with one lemma for each source (`RestFits`,
`VisionFits`, `StockFits`) and one for all (`GivenFits`). That a month of dump files is skipped as a whole
or not at all is what makes an extended partial chunk `Gapless`.

Each exception of the properties is a behaviour that a run or a configuration shows: without the days
that had no file `MCUnpublishedDay.cfg` refutes `CacheIsSource` (finding 1) and `MCMetricsHole.cfg`
`DumpIsSource` (finding 8), without the gaps of a session `MCStockGaps.cfg` does (finding 7). The run
`month_cache` has late daily and monthly files, sessions that open without a trade and sessions that end
in the next month.

### Only model-checked

Liveness: `EventSettled`, `SilentStreamEnds` and `EndsClosed`. They rest on fairness, and with it on
ENABLED, which the prover does not treat. Every invariant and every action property that a passing run
checks is a theorem, some of them under a hypothesis the table names.

## Not modelled

- Strategies: the models take any actions. What a strategy computes from the indicators is arithmetic
  without state of its own.
- Rounding: floating point, ticks and lots, and with them that `compute` and `update` round alike. The
  smoothing of the ADX, of which only the warm-up is modelled.
- `result/metrics.py`: annualised returns, Sharpe and drawdown of a finished run, with roots and
  powers of reals, which TLC does not have. `recorder/full.py` and `recorder/simple.py`: one write at
  the end of a backtest. `candle/columnar.py`: a data layout.
- HTTP, pagination, rate limits, zip and CSV parsing of the fetchers; candles of a day or longer
  (stock sessions are not divided for them); the server clock, one offset read from the exchange; the generated table of exchange
  filters; the viewer's rendering; logging; the repository's check scripts, which were read as intent.
- A write that fails other than by the death of the process, except for the trade sink of
  `SimExecutor`.
- In `LiveExecutor`: a second symbol, margins and prices, the limit of 256 pending decisions.

## Plan

Done, in this order, the most important behaviour first: the engine and its feed; the simulated
executor and its accounting; the live stream; the recorder; the live executor; then the caches of
candles and dumps, the start and stop of the trader, the two loops with the indicators and the late
decisions, and sweeps.

Proved along the way, in this order: the engine, the simulated executor and its accounting, the
trader's stop, sweeps, the live stream, the recorder, the live executor; then the sums of the
accounting, what a recorder loses and keeps, and the three invariants over the messages of the live
executor; then the caches of candles and dumps; then the two loops, with what every indicator means.

Next, to model: two symbols in `LiveExecutor`, and the aggregation of trades in the viewer.
