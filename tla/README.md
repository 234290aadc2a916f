# AstroTick in TLA+

AstroTick is a Python bot that trades 15-minute crypto event contracts on Kalshi.
This directory holds TLA+ models of its trading core, the TLC runs that check
them and TLAPS proofs about them.  Line numbers refer to the files one directory
up, under `src/`.

    tlc -workers 2 -config RiskBooks.cfg MCRiskManager.tla     # one run
    tlapm RiskManagerProofs.tla                                # the proofs of a module

## 1. The system

| Component | State it keeps | Operations | Correct when |
|---|---|---|---|
| Trading loop, `bot.py` | `_running`, `_halt_trading`, the locals of one cycle, window counters of the time-delay mode | discover, fetch, exits, signals, reversal exits, at most one entry, end of cycle, shutdown | books follow the account; exits come first; a halt ends the process |
| Risk manager, `risk_manager.py` | `_open_positions`, `_daily_trade_count`, `_daily_realized_pnl_cents`, `_today`, `_cached_now`, `_trade_log_buffer`; the CSV log on disk | approve, record entry and exit, roll the day over, flush, load at start-up | daily gates hold over restarts; no row vanishes; memory and log agree |
| Order envelopes, `kalshi_inprocess_orders.py`, `kalshi_agent_envelope.py` | none (they read the STOP file) | buy, sell: gates, dry run, holdings check, submission | gates before every order; sells never exceed the holding |
| Decision engine, `agent_decision_engine.py`, and `cli_executor.py` | attempt counter of one call; writes the STOP file | interpret, retry, escalate, halt | no order sent twice; no failure unnoticed |
| Kalshi client, `kalshi_client.py`, `kalshi_money.py` | a cached SDK client | market discovery, account queries with retries, V2 orders | quantities, sides and prices reach the exchange as meant |
| WebSocket books, `websocket_client.py` | books, sequence numbers, subscriptions, connection, under one lock | start, stop, reader callbacks, subscribe, resync, staleness | a book is one snapshot and all deltas after it |
| Signals, `strategy.py`, `index_feed.py` | TTL caches, a refresh flag | momentum, skew, fee-aware decision | no entry without edge; refreshes never stop |
| Manual CLI, `openclaw_kalshi.py` | none | status, markets, orderbook, buy, sell | same gates as the bot |
| Historical downloader, dashboard, config | files | | off the trading path |

How they interact: the loop is one thread.  In each cycle it calls the Kalshi
client (over a small thread pool, joined before use), hands positions and signals
to the risk manager, and sends every order through the executor, which calls the
envelope builder in process and interprets its answer.  The STOP file is shared
with the operator, the account with the operator and any other program, and the
CSV log with the next process.  The WebSocket client runs threads of its own and
shares its books with the loop.

What makes this hard: between any two network calls the market may close or
settle, the account may change, the clock may pass midnight, the operator may
create or remove the STOP file, and the process may die.  An order's answer may
be lost after the exchange executed it.  All hazards we know of, each at its
line, are in `PROJECT.json`; those no property covers say why.

## 2. Modules

| Module | Models | Kind |
|---|---|---|
| `RiskManager` | the books, the trade log, start-up, crash and shutdown | component with its own specification; also the protocol the loop must follow |
| `RiskManagerProofs`, `MCRiskManager` | theorems; TLC instance | |
| `DecisionEngine` | policy table, envelopes, interpreter | operators |
| `CliExecutor`, `MCCliExecutor` | one call of `execute_with_decision_engine` | component |
| `CliExecutorProofs` | theorems about it | proofs |
| `Exchange` | markets and the account, as the client's calls show them | environment |
| `TradingCycle`, `MCTradingCycle` | the loop with all of the above, in either `STRATEGY_MODE` | composition |
| `TradingCycleProofs` | its types, the refinement of `RiskManager`, the STOP file; what it does to the account: limits, failed exits, windows, books | proofs |
| `OrderbookFeed` | what `get_latest_orderbook` promises its caller | abstract specification |
| `WebSocketBook`, `MCWebSocketBook` | the streaming orderbooks: reader thread, trading loop, the exchange's end of the socket | component; implements `OrderbookFeed` |
| `WebSocketBookProofs` | theorems about it, the refinement included | proofs |
| `Quotes` | levels, best bids, inferred asks, usable books, the limit price | operators |
| `EntryDecision` | the fee-aware model: from a book and a momentum to a signal | operators over `Quotes` |
| `EntryPath`, `MCEntryPath` | a signal, its order on the YES book, its fills, the booked PnL | component over `EntryDecision` |
| `EntryPathProofs` | theorems about it and the operators it uses | proofs |
| `CycleData` | how old the cached market and the merged quotes are that a cycle decides on | component, its own TLC instance |
| `CycleDataProofs` | theorems about it | proofs |
| `SpotMomentum`, `MCSpotMomentum` | the momentum of each series: index, spot cache with its refresh threads, the BTC feed as last resort | component |
| `SpotMomentumProofs` | theorems about it | proofs |
| `SumTheorems` | lemmas about sums over finite sets, for the proof modules that add up positions, changes or levels | proofs |

Two refinements tie detailed and abstract specifications together.

* `TradingCycle` instantiates `RiskManager` and `Exchange` over its own variables
  and extends `DecisionEngine`.  Its property `FollowsBooks == RM!Spec` says that the
  composition implements the risk manager's protocol, so what is proved of the
  protocol holds for the bot: `Spec` of the loop implies `RM!Spec`, `RM!Spec` implies the
  gates, and both implications are theorems (`BooksFollowed`, `DailyTradesOfTheBot`,
  `LossGateOfTheBot`).  TLC checks the first one on `trading_midnight`.
* `WebSocketBook` implements `OrderbookFeed` (`ImplementsFeed == Feed!Spec`, `Feed` being the
  instance with the exchange's version numbers for `changes`, the cache for `book` and
  `NoBook` for `Absent`): the caller sees a book of the exchange, moving forward change by
  change or snapshot by snapshot, or none.  Threads, subscriptions, sequence numbers and
  reconnects disappear.  This is checked on `websocket_book` and proved (`FeedImplemented`).

`EntryPath`, `CycleData` and `SpotMomentum` look more closely at what `TradingCycle` leaves
nondeterministic (signals, quotes, prices, which market is active): the loop is correct for any
of them, and these three say which of them can occur.

### Correspondence

* **RiskManager.**  Its variables are the object's fields, the file and two auxiliary
  histories (`history`, everything logged; `lost`, what was in a buffer when its process
  ended).  `RecordEntry` is `record_open_position` with `log_entry_trade`; `RecordExit` is
  `_record_exit` with `log_exit_trade`; `EndCycle` is `_clear_datetime_cache` with its
  flush.  `Start` is `__init__`.  Time is a UTC day; a price is in
  cents and a contract pays `Payout`; a quantity counts the smallest fill, so PnL
  is an exact product (its rounding is in `EntryPath`).  The log is a tally per day of the
  two numbers the loader computes; the buffer is the sequence of its rows, each as the tally
  of all rows up to it.  `Flush` clears the buffer only after the file was closed without
  an error.  When opening fails, nothing is written; when writing or closing fails
  (`failedWrites` counts it), some of the rows are in the file, none, all, or the first few, and
  all of them stay in the buffer, so the next flush writes them again.  A write that fails
  half-way is taken to end between two rows.
* **DecisionEngine.**  An envelope is what the interpreter looks at: shape, `ok`, three
  flags.  `decision_flags` keeps the fall-back of an unknown code.
* **CliExecutor.**  `Call` draws from every envelope the transport can produce,
  with the number of orders the exchange executed (0 or 1 for a failed or killed
  call, since the failure may come before or after execution).
* **Exchange** is external: nothing of it is in the repository but the calls made to it.
  Orders are immediate-or-cancel: any part may fill, at the limit or better; sells
  are reduce-only; buying the other side nets; a settled position disappears.
* **TradingCycle.**  `pc` is the place in `_run_once_impl`: `fetch`, `exits`, `reversals`,
  `entries`, `end`, and inside an order `checkHeld`, `sell`, `sold`, `bought`.  A step is
  what the thread does between two network calls, so everything else (account,
  calendar, operator, crash) interleaves at exactly the calls.  The exits of a pass
  are generators in the code: a sale is recorded before the next position is
  looked at, and so it is here.  `sell_envelope` checks the STOP file, then asks for the holding,
  then sells: `DecideExit`, `CheckHeld`, `SubmitSell`.  `buy_envelope` makes no call
  between approval and order: `SubmitBuy` is one step.  Signals, quotes and the
  choice of which position has a reason to exit are nondeterministic.  The process
  is started in one of `Modes`: dry run, live but without `KALSHI_TRADING_LIVE`, live.
  Exceptions come in two places.  `PassRaises` (fault `"raise"`) is one between two positions of
  an exit pass.  `SaleUnrecorded` (fault `"record"`) is one between the answer to a sale and its
  record, which is what the comment at `bot.py:1026` is about ("unrecorded/un-exited positions"): nothing we
  know of in those lines raises, but the handler is there for it, and it is what `exit_error` has to be
  right about.
* **TradingCycle with `STRATEGY_MODE = "reddit_time_delay"`** is `_run_cycle_time_delay`: the
  series take turns (`BeginSeries`), and each either sits out (`SeriesIdle`), exits early
  (`SeriesExit`, the sale through the same `PlaceSell` as the default mode), is refused, or
  enters (`SeriesEnter`, `MayEnter` is the guard of `decide_trade_time_delay`) and then
  counts the entry against its window (`RollWindow`, `CountEntry`).  `Windows` lists the windows
  of each series; one follows the other.  Whether a price reaches its trigger is nondeterministic.
* **WebSocketBook** stands alone: quotes are nondeterministic in `TradingCycle`, so any book it
  serves is covered there.  `reader.pc` is the place in `_run_websocket` and its callbacks, `loop.pc`
  the place in `_fetch_market_orderbook`; a step ends where the thread takes the lock,
  sends, or tests a field the other thread writes.  `Receive` sets the subscription id
  before the lock is taken, as the code does; a gap drops the book under the lock and
  resynchronises after it (`SequenceGap`, `ResyncUnsubscribe`, `ResyncSubscribe`).  A book is
  the number of the exchange's version it equals; `apply_delta` yields `Wrong` when a delta
  meets any other book than the one it changes.  Two timing facts replace the clocks: the
  reader backs off for at least a second before it reconnects, during which the loop
  leaves the client (`Connect` waits for it), and a market is pruned 30 minutes after its
  last access, when its 15 minutes of life are over and its own subscription was
  answered (`Expire`).  External: the exchange numbers the messages of a subscription from
  1, may drop deltas but no snapshots, and answers a second subscription to a
  market with an error.
* **Quotes** and **EntryDecision** are the pure functions of `orderbook_utils.py`, of `bot.py`
  from `_quotes_from_orderbook` to the merge with the legacy fields, and of `strategy.py` from the skew to
  `decide_trade_fee_aware`.  A book is a sequence of levels per side, in the order of the
  transport; sizes count the smallest fill and are floored to contracts where the
  code floors them.  A parsed side is a set, since a side has at most one level of a price and no
  caller asks for more of the order than which level is best and which are the best
  `max_levels`: the cut of `parse_bid_array` keeps the levels that fewer than that many are better than.  The code's floats are exact fractions with one common denominator.
* **EntryPath** follows one contract: `Evaluate` (a signal), `PlaceBuy` (the dollar cap and the
  payload), `Bought` (the fill the exchange reports, what the bot makes of it), `PlaceSell` and
  `Sold` until nothing is left.  `OnYesBook` is `_build_order_payload`, `SideCents` the way back in
  `_submit_order`, `FillPrice` the fall-back to the submitted price, `compute_pnl_cents` the
  rounding of the log.  `account`, `paid` and `earned` are the truth at the exchange, in half
  cents where an average price may end in one.
* **CycleData** keeps every clock as an age or as time left.  `Tick` passes time while the loop
  sleeps or waits for a call; all else takes none.  `Wake`, `Listed` and `NothingListed` are
  `get_active_market` with its cache, `BookFetched` the merge of a book's quotes into the
  cached dict, in which a missing bid clears the new field and leaves the legacy one.  A book
  comes from REST, and is then no older than the call, or from the memory of the WebSocket client (the
  default, `config.py:113`).  That one may have missed a change for as long as its message is under
  way or, if it was dropped, until the market's next message: `_is_stale` looks at the whole
  connection only (`websocket_client.py:491`).  The code has no bound for this; `MaxBookAge` is one that
  is assumed, and `ExitQuoteFresh` says that it adds to the age of a quote and does
  not multiply through the caches.
* **SpotMomentum** walks over the series of a cycle as `_run_once_impl` does.  `IndexAnswers` and
  `IndexFails` are `get_index_momentum`, the actions from `FreshSpot` to `ColdFails` the branches of
  `get_spot_momentum`.  When these have nothing to say they return `None`, and `Refuse` is what
  `generate_signal` then does: it asks `get_btc_momentum` in place of the series, which may block for
  a second fetch, start a second refresh, and answer (`fallback`, `used = "btc"`).  Only when that
  is refused too there is no signal.  A refresh thread is in flight for up to `MaxFetch`;
  `_store_spot_momentum` stamps the moment of storing, so an entry keeps two ages, that of the stamp and
  that of the data.  `RefreshNotStarted` is a thread that cannot be started: the entry is already
  marked, and the exception ends the cycle.

## 3. Runs

| Run | Question | Bounds |
|---|---|---|
| `risk_books` | Do memory and log agree, does no entry vanish, is every row kept once while no write fails, do both daily gates hold, across midnight and restarts? | 2 markets, 2 days, 2 processes, 2 entries a day, loss limit 1; every open of the log may fail, one write may fail half-way |
| `risk_lost_rows` (violation) | Does the loss gate survive a restart if the process crashed? | 1 day, 2 processes |
| `cli_executor` | Is an order sent once, a failure escalated, a lost answer turned into a halt? | both transports, orders and queries, 3 attempts (the default policy) |
| `trading_one_process` | Are the books the account's after every order, is the open-position limit kept, does a halt or signal end the process, also when the STOP file cannot be written, and does a settled position get booked? | 2 markets, 1 process, fair loop, limit of 1 position; failing orders and writes, lost answers, signals |
| `trading_restarts` | Is the exposure limit kept by a bot that forgets its positions, and does a STOP file stop it? | 2 markets, 2 processes, all three modes, limit 3 with 2 per trade, one STOP file; crashes, lost answers |
| `trading_midnight` | Does the loop follow the protocol the gates are proved under; does a cycle whose exit pass raised, with a sale executed and in no book, open nothing any more? | 1 market, 2 days, 1 process, contracts that pay 3, one entry a day, one order by hand; crashes, exceptions before a record |
| `time_delay` | Is a window entered at most as often as allowed, although counters roll with the window and an entry may fill in part or be sold early; do exposure and books hold with several series on one snapshot; is there no entry after a failed exit? | 2 windows of one series and 1 of another, 1 process, 1 entry a window; failing orders and reads, lost answers, exceptions |
| `entry_path` | Has every signal its edge on its own side, and do prices, sides and PnL survive the translation to YES and back? | 625 books, 7 momenta, both listings, stale quotes or none, fills of 0, 0.1, 1.5 contracts and all, averages in half cents, 3 sales |
| `cycle_data` | How old may a quote or a market be when it is used? | unbounded time; lifetimes of a few units, books that lag by 2 |
| `spot_momentum` | How old may a momentum be when it is traded on; is a symbol fetched once at a time; does a series get the momentum of its own coin again and again? | unbounded time; an ETH and a BTC series, limits of 2 and 5, fetches of 1, fair loop and threads; any thread may fail to start |
| `websocket_book` | Is a cached book always the exchange's, is every subscribed market fed and in sync once all is handled, does it get its book back; does the client implement the abstract feed? | 2 markets, 2 changes in all, 2 connections; dropped deltas, network failures, forced reconnects, pruning |
| `clamped_sale` (violation) | Is an executed sale always booked? | smallest instance that shows it is not |

Every bound is a named constant.  Why they are enough: the gates
compare one counter with one limit, so limits of 1 or 2 make TLC meet the values
below, at and above them; two days have a midnight in every position of a cycle;
two processes have a crash or restart at every step of the first and a full cycle
of the second; one failed write is followed by flushes that repeat its rows, in the same process and before the next; fills of 0, 1 and 2 give none, partial and full (`risk_books` has positions closed at once: partial exits are in the `trading_` runs and in `time_delay`); two markets let one
be active while the other is left over from an earlier window; one order by hand suffices to make
account and books disagree in either direction.  Deadlock checking is off in all runs but
`cycle_data` and `spot_momentum`, because those models do stop: days, restarts and orders are bounded, a call of
the executor ends, a contract is closed.

`BooksMatchExchange` is stated for one process and no other trader.  Both
preconditions are real: a second process starts with empty books (section on
disagreements), and `clamped_sale` shows what another trader on the account does.  The runs
`trading_restarts` and `trading_midnight` drop them for the properties that survive.
`OpenCountBounded` is checked in the one-process run and `ExposureBounded` in the
restart run, each where its limit, and not the other one, is what stops the bot.

In `websocket_book` two changes suffice for a dropped delta that the next one
reveals, two connections for everything that a first leaves to a second.

In `entry_path` each side has no level, one level of less than a contract or of several, or such a level
above a deeper one, at prices on both sides of every limit: below and above the tradable
range, in and beside the forbidden band, near enough to one half for either fee.  One
configured value is changed from its default on purpose: with an edge of 10 cents required,
the 2-cent minimum after fees can never fail, since the fees of one contract are at most 4
cents, and the largest size is never reached, since a price may deviate by 20 cents and the
size grows up to an edge of 30.  The run takes an edge of 5, a minimum of 10, a cap of 2 dollars
and one level for the skew, so that each filter decides something.

In `cycle_data` and `spot_momentum` a unit is some tens of seconds.  What matters is kept: a window
outlives the discovery cache but not by much, so the cache is cut at the close; a momentum is
refreshed at a part of its time and refused at its whole; a fetch is shorter than that.  Ages stop at
`Oldest`, beyond every limit, and time goes on for ever.  In `spot_momentum` a cycle, even one that waits for
both series, is shorter than the life of a momentum, hence its limit of 5, while an entry that is not refreshed
still expires: a loop that asks more rarely than every 180 s finds what the last refresh stored expired
each time it asks, and is refused for ever, although every fetch succeeds (TLC shows it with a limit of 4
and fetches of 2).  With the poll interval of 10 s of the default configuration and call timeouts of some
seconds this is not so.

The loop is not run with a failing disk: `FollowsBooks` uses the flush of `RiskManager` as it is, whose failures
`risk_books` covers, and `BooksFollowed` proves the refinement for every one of them.

Fairness.  `CliExecutor` has weak fairness on its step and `TradingCycle.FairSpec`
on `BotStep`, the disjunction of everything the bot does by itself: Python runs the
one thread, network calls time out, sleeps end.  `WebSocketBook.FairSpec` has it on
the reader thread and on the exchange's `Serve`, which is enabled only while the socket
is open; the trading loop and the network owe nothing.  `SpotMomentum.FairSpec` has it on time, on
the loop and on the end of a refresh (calls have timeouts), and strong fairness on
the success of a fetch, in a thread or in the loop: a source that is asked again and again
answers some time.  `SpotRecovers` says what the bot adds to that: no dead refresh keeps a
new one from starting, and that BTC, which serves in between, does not serve for ever.  It is stated for a
loop that from some time on asks the fallback in every cycle, and for a symbol none of whose threads
failed to start (`unstarted`), whatever happens to those of the other.  Nothing else is assumed of the
environment: the exchange may never settle, the operator never restart.
`SettlementBooked` is therefore stated while the process lives and some market is
open, as without an active market a cycle ends before the exits.

### Disagreements between the code and its documentation

1. `risk_lost_rows`: rows are written once per cycle; a crash after a losing exit and before the
   end of the cycle loses the loss, and the next process enters again.  The README says the gate survives a restart.
2. `clamped_sale`: a sale clamped to the account's holding is executed, and then
   treated as a failure: the books never learn of it, although the README says
   partial fills reduce the position and book PnL.  (`SaleBooked` speaks of the step that should book
   the sale, `RecordSell`.)

Seen while modelling, without a run:

* Positions are not rebuilt at start-up, so what a restarted bot holds is neither
  managed nor reconciled (`README.md:78` and `:88` read otherwise).
* Without an active market in any series the cycle ends before the exits (`README.md:322`
  says that all tracked positions are managed every cycle).
* `_on_close` forgets the subscription ids and the reconnect subscribes expired markets
  again.  If one is pruned before its snapshot arrives, no id is known, no unsubscribe is
  sent (`websocket_client.py:422`), and the snapshot brings back the book of a market in no
  set; the docstring at 388-390 promises an end of both.
* The time-delay counters live in memory: a restart grants the window its entries
  again (`README.md:62`).
* A STOP file created between `sell_envelope`'s check and its order does not stop that one
  order (`AtMostOneOrderAfterStop` is the bound that holds).
* In dry run the number of simulated positions is not limited, because `approve_trade`
  counts the account's.
* The subprocess transport of the executor may retry an order that timed out (the bot
  does not use it for orders).
* The dollar cap shrinks an order after its fees were checked; `CapCostsRoundingOnly` bounds what
  that costs.
* `README.md:42` gives the spot cache 60 seconds; a momentum serves for up to 180, plus the
  fetch it came from (`MomentumFresh`).
* `validate()` accepts a minimum depth of 0.  Then a side without any bids is deep enough, and
  its limit price comes from the legacy fields, which may be older than the book
  (`SignalsComeFromTheBook` needs the depth to be positive, and TLC finds the
  counterexample when it is not).
* `clear()` at `risk_manager.py:219` comes after the `with` block, so a flush that fails after some rows have
  reached the file writes them again later.  A restart counts them twice; if they hold a profit, the next
  process enters beyond the loss limit, which `README.md:102-104` says survives a restart.  `Flush` has this,
  and it is why `LossGate` and `StatsMatchLog` speak of logs of which no write has failed.
* For an expired feed `get_spot_momentum` returns `None`, and its docstring (`strategy.py:116-119`) says that the
  entry is then skipped.  `bot.py:1000` hands the `None` to `generate_signal`, for which it means "not given"
  (`strategy.py:555-556`): an ETH market is decided on the momentum of BTC.  `Refuse` has this; what holds of the
  momentum that serves instead is `MomentumFresh`, for it is from a feed of its own and as young as any.
* A refresh marks its entry before it starts the thread (`strategy.py:96`).  If the start raises, the mark stays,
  no later call starts another, and the feed of that coin is dead for the rest of the process, while BTC
  serves in its place.  `RefreshNotStarted` has this, and `SpotRecovers` excepts such a coin.
* A book of the stream whose last delta was dropped is served while other markets keep the
  connection fresh; the docstring at `websocket_client.py:41-44` has a guard for the connection, not for a market.
* In `SpotMomentum` as in the code an expired feed and a cold one cost a second request in the same
  cycle, so a failed cold fetch of BTC is repeated at once.

## 4. Proofs

`RiskManagerProofs` proves, for all markets, limits, days, numbers of restarts, of failed writes and
other disk faults:

| Theorem | Statement | Assumption besides `ConfigAssumption` and `DiskAssumption` |
|---|---|---|
| `TypeCorrect` | `Spec => []TypeOK` | |
| `RowsAreConserved` | `Spec => []RowsConserved` | |
| `DailyTradesAreBounded` | `Spec => []DailyEntriesBounded` | reading the log does not fail |
| `StatsMatchTheLog` | `Spec => []StatsMatchLog` | the same |
| `LossGateHolds` | `Spec => LossGate` | the same |

The assumption is necessary: a failed read starts the process with zero figures.  What a failed write
leaves behind is in the properties themselves: it repeats rows, so the count of entries on record can
only be too large, and `RowsConserved` (no entry vanishes) and `DailyEntriesBounded` hold on; a repeated row may
be a profit, so `StatsMatchLog`, `LossGate` and the equations of `RowsConserved` are claimed while
`failedWrites = 0`.

The argument.  None of the gates is inductive.  `ConservedInv` adds types to the
row balance.  `DayInv` says that the day the object believes in is never ahead of
the clock, that a cached time lies between that day and the clock, that no row is dated after the object's
day, and that a dead process has an empty memory: without it a day
roll could meet rows of the day it rolls to.  With it, `StatsInv` (figures equal the log and
buffer rows of `_today`) is preserved by every action, the roll included, and
`CountInv` turns the entry guard into a bound on `history`: the count the gate sees is never less than
the entries of the day that are not lost.  `LossGate` is an action property and follows
from `StatsInv` and the row balance at each step.

`CliExecutorProofs` proves, for every number of attempts and every set of transports and operations:

| Theorem | Statement |
|---|---|
| `CallTypes` | `Spec => []TypeOK` |
| `OrderSentOnce` | `Spec => []InProcessOrderSubmittedOnce` |
| `NothingFailsSilently` | `Spec => []NoSilentFailure` |
| `UnreportedFillsHalt` | `Spec => []UnreportedFillHalts` |

The argument.  `InProcessOrderSubmittedOnce` holds because no code an in-process order can
come back with is both retryable and one whose order may have been executed, which is a
fact about the policy table (a lemma about each code), not about the loop.  `ExecutorInv` carries it
along: nothing is submitted before the first envelope, an envelope at hand is not
retryable, one that hides an executed order halts, and escalations and submissions stay
within the attempts made.

`CycleDataProofs` proves, for all lifetimes, intervals, delays and lags that satisfy `CycleDataAssumption`:

| Theorem | Statement |
|---|---|
| `TypesAreKept` | `Spec => []TypeOK` |
| `CachedMarketAlwaysOpen` | `Spec => []CachedMarketOpen` |
| `ExitQuoteAlwaysFresh` | `Spec => []ExitQuoteFresh` |

`SpotMomentumProofs` proves, for all series, symbols, limits and delays that satisfy `SpotMomentumAssumption`,
with threads that start or do not:

| Theorem | Statement |
|---|---|
| `TypesAreKept` | `Spec => []TypeOK` |
| `OneFetchAlways` | `Spec => []OneFetchAtATime` |
| `MomentumAlwaysFresh` | `Spec => []MomentumFresh` |

The argument.  Each bound is about ages that grow with time, so its invariant relates
quantities whose sum or difference time leaves alone: the life that is left of the cached
market, the age of its quotes and what is left of the window (`LifeInv`), the quotes'
age and the time since the cycle asked for its market (`YoungInv`), the two ages of an entry of the
spot cache, and the age of a momentum already given and the time since the cycle first asked for one
(`SpotInv`).  `FetchInv` ties the threads to the entries of the cache: a thread runs only with the mark set
and after a first success, and the loop fetches a symbol itself only before one, which is why its fetch is alone.

`TradingCycleProofs` proves, for all markets, series and windows, limits, prices, modes, faults, signals
and numbers of restarts, under `TradingAssumption` and `BooksAssumption`:

| Theorem | Statement | Further hypothesis |
|---|---|---|
| `TypeCorrect` | `Spec => []TypeOK` | |
| `BooksFollowed` | `Spec => FollowsBooks` | |
| `DailyTradesOfTheBot` | `Spec => []RM!DailyEntriesBounded` | reading the log does not fail |
| `LossGateOfTheBot` | `Spec => RM!LossGate` | the same |
| `StopFileObeyed` | `Spec => []AtMostOneOrderAfterStop` | |

The argument.  The inductive invariant is `IInv == TypeOK /\ OrderInv`.  `OrderInv` says what is in hand at
each place of the cycle: the books live while the process does; a pass walks over positions that are
tracked; every position is one the trade budget buys; a sale in hand is of the position
it was decided on, for no more than is tracked; a purchase in hand is of a market that
is not tracked, within the limits the gate has just compared it with.  The last two are what turns
`RecordBuy` and `RecordSell` into the protocol's `RecordEntry` and `RecordExit`: the protocol records an entry
only while its gate approves, and nothing the loop does between the gate and the record
moves the figures the gate reads.  `BooksFollowed` has one lemma per action; the theorems about the gates
then follow from those of `RiskManagerProofs`, instantiated over the loop's variables.  `StopInv` adds that
no order that has not yet been sent coexists with one sent after the STOP file.  The new assumptions
in `BooksAssumption` are the protocol's own, and that its set of quantities holds what the budget buys; a market belongs
to one window of one series.

Its second half proves, under the same assumptions, what the loop does to the account:

| Theorem | Statement | Further hypothesis |
|---|---|---|
| `OpenCountIsBounded` | `Spec => []OpenCountBounded` | nobody else trades on the account |
| `ExposureIsBounded` | `Spec => []ExposureBounded` | nobody else trades on the account |
| `NoEntryAfterFailedExits` | `Spec => FailedExitsForbidEntries` | |
| `WindowEntriesAreBounded` | `Spec => []WindowEntriesBounded` | |
| `BooksMatchTheExchange` | `Spec => []BooksMatchExchange` | one process, not in dry run, nobody else trades, no exception between a sale's answer and its record |

The argument.  Both account limits are compared with a snapshot taken at the start of the cycle, so
`LimitsInv` says how far the truth may be from it: `SnapshotCovers`, the account holds no market and no
exposure the snapshot does not show, until a purchase may have been executed; and
`EntryRemembered`, after one the default mode decides on nothing more, and the time-delay mode knows of it.
Exposure is a sum over markets, which an order changes at one of them (`SumTheorems`).
`ExitErrorInv` says where a cycle can be whose exit pass has raised: in an exit pass, in one of
its sales, or at the end.
`WindowInv` says that the markets a series has opened are a prefix of its windows, that at most
one is active, that the entries of an open window are counted, save one on its way from
`RecordBuy` to `CountEntry`, and that a window that is over is never entered again.
`MatchInv` says that books and account agree on every market but that of the order in hand,
where they differ by what the answer says.  The hypotheses are needed: an order by hand changes the
account between snapshot and order; a second process starts with empty books; an exception before the record leaves a sale in no book; and
`clamped_sale` is what happens when the account holds less than the books say.

`WebSocketBookProofs` proves, for any number of markets, changes and connections:

| Theorem | Statement |
|---|---|
| `TypeCorrect` | `Spec => []TypeOK` |
| `BooksAreGenuine` | `Spec => []BooksGenuine` |
| `FeedImplemented` | `Spec => ImplementsFeed` |
| `BooksAreFed` | `Spec => []BookIsFed` |
| `QuietInSync` | `Spec => []InSync` |

The argument.  What the reader has taken from the socket and what is still in flight form one stream, the
message in hand at index 0.  Why a delta never meets the wrong book is not visible in the
client's comparison of sequence numbers alone: a book of an old subscription may meet a delta of a new one with the right number.
It is ruled out by `BookInv`: the version a message leads to minus its sequence number is one constant for
all messages of a subscription, the book they apply to and the subscription
itself (`StreamInv`), two subscriptions to a market are separated by a snapshot, and
nothing in the stream is older than the book (`OrderInv`).  `FeedImplemented` then has one
lemma per action, most of them stuttering.  `BooksAreFed` needs `FeedInv`: ids of
subscriptions are used once and stay with their market, so the resynchronisation ends the
subscription it means.  `QuietInSync` is a safety property about the end of all
activity; its invariant `SyncInv` says that as long as something is to be
done, a command, a snapshot or the step that will cause it is there (`AskedInv`, `HeadInv`), and that
the last message of a complete subscription is the present book (`NewestInv`).

`EntryPathProofs` proves, for all books, momenta, limits, fee rates, fills, prices and numbers of sales, under
`QuotesAssumption`, `DecisionAssumption` and `EntryAssumption`:

| Theorem | Statement | Further hypothesis |
|---|---|---|
| `SignalsComeFromTheBook` | `Spec => []SignalFromBookAlone` | a positive minimum depth on both sides |
| `SignalsHaveEdge` | `Spec => []SignalHasEdge` | |
| `CapCostsOnlyRounding` | `Spec => []CapCostsRoundingOnly` | |
| `AccountIsTracked` | `Spec => []TracksAccount` | |
| `EntryPricesAreHonest` | `Spec => []EntryPriceHonest` | |
| `BookedPnlIsHonest` | `Spec => []BookedPnlHonest` | |

The argument.  `PathInv` carries the position through the YES book: side, quantity and price of what is
tracked are the account's, the order in flight is of that side, and what the log booked is
within its rounding of what was earned, which each sale extends by half a cent for its row and half
a cent per contract for each of its two prices.  That a signal does not depend on the listing
rests on lemmas about the operators: a side listed backwards has the same levels, a best
level exists and has a unique price, the liquidity is a sum over a set.  `SignalInv` says what a signal
claims in the terms of its own side and its view; the code computes fees and edge in other terms, and
`FeeMirrored` and `EdgeIsMispricing` are the translation.  `CapInv` says that an order is a whole
number of contracts within signal and cap; `FeeShare` bounds what fewer contracts pay: a fee that is rounded
up for the order is less than a cent beyond its share of the larger one's.  `EntryAssumption` says
that a side has at most one level of a price, that prices are between 1 and `Payout - 1` cents,
and that fills and improvements are natural numbers.

Every inductive invariant was model-checked before it was proved: `IInv`, `LimitsInv`, `WindowInv` and
`MatchInv` on the instances of `trading_one_process` and `time_delay`, those that survive restarts on
`trading_restarts`, `IInv` on `trading_midnight` too; those of `WebSocketBook` on `websocket_book`; `PathInv`,
`SignalInv` and `CapInv` on `entry_path`.

Only model-checked: liveness under fairness, which is beyond TLAPS as installed together with `ENABLED`
(`Returns`, `Recovers`, `SpotRecovers`, `StopIsObeyed`, `SettlementBooked`), and the violations.  Every
invariant and every action property of a passing run is a theorem; the type invariants of `CycleData` and
`SpotMomentum` are theorems only.  Induction theorems with an operator
parameter cannot be used with the installed provers; `SumTheorems` does induction over the subsets of a
finite set instead, which needs none, and that is how the sums over markets and levels are proved about.

## 5. Not modelled

* The historical downloader: an off-line tool, one loop over the server's cursors and a file, without any state in common with trading.
* The dashboard: a terminal view of a JSON file.
* Statistics of closing prices (`momentum_from_closes`): a momentum is a member of a
  small set.  The settlement-index cache: its 8 seconds are shorter than the poll
  interval, so in one loop it never hits.
* Retries of the client's reads (a call answers or fails), the health check, the read-only CLI commands.
* The 50 KB tail of the log, which needs a log of rows.  Results other than yes and no.
* The several spellings of a level, a size or a book, and messages without a sequence number.
* `USE_ORDERBOOK_PRICES=false` (`bot.py:724`), which trades on the quotes of the listing and skips the
  validation of the book: not the default, and nothing but a price source of `Evaluate` changes.
* A row of the log that is cut in the middle by a failing write; the rounding noise of the code's floats (a fee may come out one
  cent above its exact value).
* Logging and environment parsing; the ranges `validate()` enforces are `ConfigAssumption` and
  `DecisionAssumption`.

## 6. Plan

1. A log of rows for `RiskManager`, so that the loader's 50 KB tail and a torn last row can be
   checked.
2. The pagination loop of the downloader, with its limit and its cursor.
3. A voided market as a third result in `Exchange`, and what the loop then leaves open.
