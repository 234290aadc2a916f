----------------------------- MODULE TradingCycle -----------------------------
(***************************************************************************)
(* The bot at work: the main loop of bot.py in both strategy modes, with   *)
(* its books (RiskManager), the order envelopes                            *)
(* (kalshi_inprocess_orders.py) interpreted by the decision engine, the    *)
(* exchange account, the STOP_TRADING file, the manual CLI, the operator   *)
(* who restarts the process, and the calendar.                             *)
(*                                                                         *)
(* The bot is one thread, so its local computation between two network     *)
(* calls is one step; everything else happens between any two steps.       *)
(*                                                                         *)
(* Data abstractions.  Quotes and signals are nondeterministic: a position *)
(* may be given a reason to exit, a market an entry signal, whenever the   *)
(* code evaluates one.  A market is one 15-minute window of its series.    *)
(* Sets of markets are walked in any order; the code's order is one of     *)
(* them.                                                                   *)
(***************************************************************************)
EXTENDS DecisionEngine, Integers, FiniteSets, Functions, Sequences

CONSTANTS
  Markets, LastDay, MaxRestarts, Payout, Sides, Quantities, DiskFaults, MaxFailedWrites,
  MAX_DAILY_TRADES, MAX_DAILY_LOSS_CENTS, MAX_OPEN_POSITIONS,
  MAX_TRADE_DOLLARS, MAX_TOTAL_EXPOSURE,
  MIN_CONTRACT_PRICE_CENTS, MAX_CONTRACT_PRICE_CENTS,
  Windows,         \* of each series, its markets in the order they close
  STRATEGY_MODE,   \* "fee_aware_model" or "reddit_time_delay"
  MAX_TRADES_PER_WINDOW,
  Modes,           \* how the process may be started: with DRY_RUN ("dry_run"),
                   \* without it and without KALSHI_TRADING_LIVE ("blocked"), or "live"
  SignalSizes,     \* the contracts a signal asks for
  Balances,        \* the free cash the account may show
  Faults,          \* what may go wrong, see FaultKinds
  MaxManualTrades, \* bound on the orders placed with the manual CLI
  MaxStops         \* bound on how often the operator creates the STOP file

FaultKinds == {"read",      \* a read-only API call fails after its retries
               "order",     \* an order call fails, before or after the exchange acted
               "raise",     \* the bot's own code raises an exception between two orders
               "record",    \* ... between the answer to a sale and its record
               "stopWrite", \* the STOP_TRADING file cannot be written
               "sigterm", "crash", "manual", "operator"}

ASSUME TradingAssumption ==
  /\ \A s \in DOMAIN Windows :
       /\ Windows[s] \in Seq(Markets)
       /\ \A i, j \in DOMAIN Windows[s] : Windows[s][i] = Windows[s][j] => i = j
  /\ \A m \in Markets : \E s \in DOMAIN Windows :
       /\ m \in Range(Windows[s])
       /\ \A t \in DOMAIN Windows : m \in Range(Windows[t]) => t = s
  /\ STRATEGY_MODE \in {"fee_aware_model", "reddit_time_delay"}
  /\ MAX_TRADES_PER_WINDOW \in Nat \ {0}
  /\ Modes \subseteq {"dry_run", "blocked", "live"}
  /\ SignalSizes \subseteq Nat \ {0}
  /\ Balances \subseteq Nat
  /\ Faults \subseteq FaultKinds
  /\ MaxManualTrades \in Nat
  /\ MaxStops \in Nat
  /\ IsFiniteSet(Markets)

VARIABLES
  \* RiskManager's state, see there
  clock, alive, restarts, today, dailyTradeCount, dailyRealizedPnl,
  openPositions, cachedNow, tradeLogBuffer, tradeLog, failedWrites, history, lost,
  \* the exchange account, see Exchange
  status, held, cost,
  \* the bot process
  mode,         \* how it was started, "none" while there is no process
  pc,           \* where the cycle is
  halted,       \* _halt_trading
  stopping,     \* ~ _running
  markets,      \* this cycle's active markets with an orderbook
  snapshot,     \* balance and positions, as fetched in this cycle
  todo,         \* what the current loop over markets has left
  wanted,       \* the markets with an entry signal
  order,        \* the order being executed
  response,     \* and the exchange's answer
  exitError,    \* exit_error
  entryPlaced,  \* entry_placed
  lastTradeWindow,       \* _last_trade_window_id, by series
  tradesInCurrentWindow, \* _trades_in_current_window, by series
  windowEntries,         \* auxiliary: purchases of this process, by window
  \* the operator
  stopFile,     \* the STOP_TRADING file exists
  stops,        \* how often the operator created it
  manualTrades, \* orders placed with the CLI
  afterStop     \* auxiliary: orders the bot submitted since the file appeared

RM == INSTANCE RiskManager
EX == INSTANCE Exchange

\* The books' own assumptions; and no order is for a count they do not know.
ASSUME BooksAssumption ==
  /\ RM!ConfigAssumption
  /\ RM!DiskAssumption
  /\ 1 .. MAX_TRADE_DOLLARS \subseteq Quantities

books == <<clock, alive, restarts, today, dailyTradeCount, dailyRealizedPnl,
           openPositions, cachedNow, tradeLogBuffer, tradeLog, failedWrites, history, lost>>
exchange == <<status, held, cost>>
locals == <<markets, snapshot, todo, wanted, order, response, exitError>>
windows == <<entryPlaced, lastTradeWindow, tradesInCurrentWindow, windowEntries>>
control == <<mode, pc, halted, stopping>>
operator == <<stopFile, stops, manualTrades, afterStop>>
vars == <<books, exchange, locals, windows, control, operator>>

NoMarket == "none"
NoSnapshot == [positions |-> {}, deployed |-> 0, balance |-> 0]
NoOrder == [market |-> NoMarket, side |-> "none", quantity |-> 0, limit |-> 0,
            clamped |-> FALSE, pass |-> "none"]
Filled(k, price) == [ok |-> TRUE, fill |-> k, price |-> price]
Failed == [ok |-> FALSE, fill |-> 0, price |-> 0]
NoResponse == Filled(0, 0)

-----------------------------------------------------------------------------
(* Orders *)

\* Mutant: the STOP file is not looked at.
GateCodeNoStop == IF mode = "blocked" THEN "LIVE_TRADING_BLOCKED" ELSE "PASSED"

\* The gates at the top of buy_envelope and sell_envelope.  (Those on counts,
\* prices and cost never fire for the orders this bot computes.)
GateCode ==
  IF stopFile THEN "STOP_TRADING"
  ELSE IF mode = "blocked" THEN "LIVE_TRADING_BLOCKED"
  ELSE "PASSED"

\* A HALT_TRADING verdict: cli_executor writes the STOP file, bot.py sets
\* _halt_trading and leaves the cycle.
HaltTrading ==
  /\ halted' = TRUE
  /\ stopFile' \in {TRUE} \cup (IF "stopWrite" \in Faults THEN {stopFile} ELSE {})
  /\ pc' = "end"
  /\ UNCHANGED <<mode, stopping, stops, manualTrades, afterStop>>

GoOn(where) ==
  /\ pc' = where
  /\ UNCHANGED <<mode, halted, stopping, stopFile, stops, manualTrades>>

CountSubmission == afterStop' = IF stopFile THEN afterStop + 1 ELSE 0

\* The order reaches an open market; its answer may get lost.  Otherwise the
\* exchange refuses it.
Execute(side, sign, fills) ==
  IF status[order'.market] = "open"
  THEN \E f \in fills :
         /\ EX!Trade(order'.market, EX!Signed(side, sign * f.fill), f.price)
         /\ response' \in {Filled(f.fill, f.price)}
                            \cup (IF "order" \in Faults THEN {Failed} ELSE {})
  ELSE response' = Failed /\ UNCHANGED exchange

-----------------------------------------------------------------------------
(* One cycle: run_once *)

\* get_active_market: the open market of its series that closes soonest.
Earlier(m, e) ==
  \E s \in DOMAIN Windows : \E i, j \in DOMAIN Windows[s] :
    i < j /\ Windows[s][i] = e /\ Windows[s][j] = m

ActiveMarkets ==
  {m \in EX!OpenMarkets : \A e \in EX!OpenMarkets : ~ Earlier(m, e)}

\* main()'s loop condition, then discovery: one active market per series that
\* has one and can be asked.  With none at all the cycle is skipped.  Flat, the
\* bot asks new_entries_blocked whether it needs the account at all.
BeginCycle ==
  /\ pc = "idle"
  /\ ~ halted /\ ~ stopping
  /\ \E found \in SUBSET ActiveMarkets :
       /\ "read" \notin Faults => found = ActiveMarkets
       /\ markets' = found
       /\ pc' = IF found = {} THEN "end" ELSE "fetch"
       /\ IF found # {} /\ RM!TrackedMarkets = {}
          THEN RM!ResetDailyIfNeeded
          ELSE UNCHANGED books
  /\ UNCHANGED <<exchange, snapshot, todo, wanted, order, response, exitError, windows,
                 mode, halted, stopping, operator>>

NeedAccount == RM!TrackedMarkets # {} \/ ~ RM!new_entries_blocked

\* Balance, positions and orderbooks.  A failing orderbook drops its market.
Fetch ==
  /\ pc = "fetch"
  /\ \E fetched \in SUBSET markets, balance \in Balances :
       /\ "read" \notin Faults => fetched = markets
       /\ markets' = fetched
       /\ snapshot' = IF NeedAccount
                      THEN [positions |-> EX!HeldMarkets, deployed |-> EX!Deployed,
                            balance |-> balance]
                      ELSE NoSnapshot
  /\ todo' = RM!TrackedMarkets
  /\ pc' = "exits"
  /\ UNCHANGED <<books, exchange, wanted, order, response, exitError, windows,
                 mode, halted, stopping, operator>>

\* A failing account call ends the cycle, and so does an exception while the
\* quotes are merged into the markets.
FetchFails ==
  /\ pc = "fetch"
  /\ "raise" \in Faults \/ ("read" \in Faults /\ NeedAccount)
  /\ pc' = "end"
  /\ UNCHANGED <<books, exchange, locals, windows, mode, halted, stopping, operator>>

\* manage_all_positions and the reversal pass walk over positions; both hand a
\* position to _manage_single_position.
InPass == pc \in {"exits", "reversals"}

\* _manage_single_position needs a market dict: this cycle's, or for a market
\* of an earlier window the one _market_for_stale_position fetches while it
\* still trades.
Evaluable(m) == m \in markets \/ (pc = "exits" /\ status[m] = "open")

\* No reason to exit, the clock looked at last.
KeepPosition(m) ==
  /\ InPass /\ m \in todo
  /\ Evaluable(m)
  /\ RM!GetCurrentDatetime
  /\ todo' = todo \ {m}
  /\ UNCHANGED <<exchange, markets, snapshot, wanted, order, response,
                 exitError, windows, control, operator>>

\* Mutant: whatever does not trade any more is left for a later cycle.
SkipUnlessOpen(m) ==
  /\ pc = "exits" /\ m \in todo
  /\ m \notin markets
  /\ status[m] # "open"
  /\ todo' = todo \ {m}
  /\ UNCHANGED <<books, exchange, markets, snapshot, wanted, order, response,
                 exitError, windows, control, operator>>

\* No data: the market is closed but not settled, or the call failed.
SkipPosition(m) ==
  /\ pc = "exits" /\ m \in todo
  /\ m \notin markets
  /\ status[m] = "closed" \/ "read" \in Faults
  /\ todo' = todo \ {m}
  /\ UNCHANGED <<books, exchange, markets, snapshot, wanted, order, response,
                 exitError, windows, control, operator>>

\* _cli_sell: an aggressive limit sell of the whole position, up to the first
\* call sell_envelope makes.
PlaceSell(m) ==
  /\ \E limit \in EX!Prices :
       order' = [market |-> m, side |-> openPositions[m].side,
                 quantity |-> openPositions[m].quantity,
                 limit |-> limit, clamped |-> FALSE, pass |-> pc]
  /\ IF GateCode # "PASSED"
     THEN HaltTrading /\ UNCHANGED response
     ELSE /\ UNCHANGED afterStop
          /\ IF mode = "dry_run"
             THEN /\ response' = Filled(order'.quantity, order'.limit)
                  /\ GoOn("sold")
             ELSE UNCHANGED response /\ GoOn("checkHeld")

\* A reason to exit; only expiry asks for the time.
DecideExit(m) ==
  /\ InPass /\ m \in todo
  /\ Evaluable(m)
  /\ RM!GetCurrentDatetime \/ UNCHANGED books
  /\ PlaceSell(m)
  /\ UNCHANGED <<exchange, markets, snapshot, todo, wanted, exitError, windows>>

\* A market of an earlier window has settled: book it at the settlement value.
ReconcileSettled(m) ==
  /\ pc = "exits" /\ m \in todo
  /\ m \notin markets
  /\ EX!Settled(m)
  /\ RM!RecordExit(m, openPositions[m].quantity,
                   IF status[m] = openPositions[m].side THEN Payout ELSE 0)
  /\ todo' = todo \ {m}
  /\ UNCHANGED <<exchange, markets, snapshot, wanted, order, response,
                 exitError, windows, control, operator>>

\* Mutant: everything the account holds is sold.
CheckHeldSellsAll ==
  /\ pc = "checkHeld"
  /\ EX!HeldOnSide(order.market, order.side) > 0
  /\ order' = [order EXCEPT !.quantity = EX!HeldOnSide(order.market, order.side)]
  /\ GoOn("sell")
  /\ UNCHANGED <<books, exchange, markets, snapshot, todo, wanted, response,
                 exitError, windows, afterStop>>

\* sell_envelope asks the account what it holds and sells no more than that.
\* NO_POSITION leaves the position as it is for the next cycle.
CheckHeld ==
  /\ pc = "checkHeld"
  /\ LET onSide == EX!HeldOnSide(order.market, order.side)
     IN  IF onSide = 0
         THEN /\ OrderAction("NO_POSITION") = "ESCALATE_TO_HUMAN"
              /\ todo' = todo \ {order.market}
              /\ order' = NoOrder
              /\ GoOn(order.pass)
         ELSE /\ order' = [order EXCEPT !.quantity = EX!Least(@, onSide),
                                        !.clamped = onSide < order.quantity]
              /\ UNCHANGED todo
              /\ GoOn("sell")
  /\ UNCHANGED <<books, exchange, markets, snapshot, wanted, response,
                 exitError, windows, afterStop>>

CheckHeldFails ==
  /\ pc = "checkHeld"
  /\ "read" \in Faults
  /\ OrderAction("COMMAND_FAILED") = "HALT_TRADING"
  /\ HaltTrading
  /\ UNCHANGED <<books, exchange, locals, windows>>

SubmitSell ==
  /\ pc = "sell"
  /\ UNCHANGED order
  /\ Execute(order.side, -1,
             EX!SellFills(order.market, order.side, order.quantity, order.limit))
  /\ CountSubmission
  /\ GoOn("sold")
  /\ UNCHANGED <<books, markets, snapshot, todo, wanted, exitError, windows>>

SellCode ==
  IF ~ response.ok THEN "COMMAND_FAILED"
  ELSE IF order.clamped THEN "SELL_CLAMPED"
  ELSE "SELL_PLACED"

\* The rest of _manage_single_position, and _record_exit.
RecordSell ==
  /\ pc = "sold"
  /\ IF OrderAction(SellCode) = "HALT_TRADING"
     THEN HaltTrading /\ UNCHANGED <<books, todo>>
     ELSE /\ IF OrderAction(SellCode) = "CONTINUE" /\ response.fill > 0
             THEN RM!RecordExit(order.market, response.fill, response.price)
             ELSE UNCHANGED books
          /\ todo' = todo \ {order.market}
          /\ UNCHANGED afterStop
          /\ GoOn(order.pass)
  /\ order' = NoOrder
  /\ response' = NoResponse
  /\ UNCHANGED <<exchange, markets, snapshot, wanted, exitError, windows>>

\* An exception in either pass ends that pass and forbids entries this cycle.
PassRaises ==
  /\ InPass
  /\ "raise" \in Faults
  /\ exitError' = TRUE
  /\ todo' = {}
  /\ UNCHANGED <<books, exchange, markets, snapshot, wanted, order, response,
                 windows, control, operator>>

\* The same exception comes where it hurts most: the sale is executed and not
\* in the books.  In the time-delay mode's own exits it ends the cycle.
SaleUnrecorded ==
  /\ pc = "sold"
  /\ "record" \in Faults
  /\ OrderAction(SellCode) = "CONTINUE"
  /\ IF order.pass = "series"
     THEN GoOn("end") /\ UNCHANGED exitError
     ELSE GoOn(order.pass) /\ exitError' = TRUE
  /\ todo' = {}
  /\ order' = NoOrder
  /\ response' = NoResponse
  /\ UNCHANGED <<books, exchange, markets, snapshot, wanted, windows, afterStop>>

\* Signals for the markets with a usable book, and with them the positions the
\* reversal pass looks at.
ChooseSignals ==
  /\ STRATEGY_MODE = "fee_aware_model"
  /\ pc = "exits" /\ todo = {}
  /\ wanted' \in SUBSET markets
  /\ todo' \in SUBSET (markets \cap RM!TrackedMarkets)
  /\ pc' = "reversals"
  /\ UNCHANGED <<books, exchange, markets, snapshot, order, response,
                 exitError, windows, mode, halted, stopping, operator>>

\* An exception outside the two passes ends the cycle.
CycleRaises ==
  /\ "raise" \in Faults
  /\ pc \in {"exits", "entries", "series"} /\ (pc = "exits" => todo = {})
  /\ pc' = "end"
  /\ UNCHANGED <<books, exchange, locals, windows, mode, halted, stopping, operator>>

\* Mutant: a failed exit pass is forgotten.
BeginEntriesAnyway ==
  /\ pc = "reversals" /\ todo = {}
  /\ pc' = "entries"
  /\ todo' = wanted
  /\ UNCHANGED <<books, exchange, markets, snapshot, wanted, order, response,
                 exitError, windows, mode, halted, stopping, operator>>

\* After a failed exit pass there are no entries.
BeginEntries ==
  /\ pc = "reversals" /\ todo = {}
  /\ pc' = IF exitError THEN "end" ELSE "entries"
  /\ todo' = wanted
  /\ UNCHANGED <<books, exchange, markets, snapshot, wanted, order, response,
                 exitError, windows, mode, halted, stopping, operator>>

\* _compute_trade_contracts: the signal's size, capped by the budget.
Contracts(size, price) == EX!Least(size, RM!calculate_contracts(price))

\* _try_enter up to the risk manager's refusal, or a budget for no contract.
RefuseEntry(m, price, size) ==
  /\ pc = "entries" /\ m \in todo
  /\ ~ RM!Approved(m, snapshot, price) \/ Contracts(size, price) < 1
  /\ RM!ResetDailyIfNeeded
  /\ todo' = todo \ {m}
  /\ UNCHANGED <<exchange, markets, snapshot, wanted, order, response,
                 exitError, windows, control, operator>>

\* Approval, sizing, buy_envelope's gates and the order itself.  Between
\* approval and order there is no call the bot waits for.
PlaceBuy(m, side, price, size) ==
  /\ RM!Approved(m, snapshot, price)
  /\ Contracts(size, price) >= 1
  /\ RM!ResetDailyIfNeeded
  /\ order' = [market |-> m, side |-> side, quantity |-> Contracts(size, price),
               limit |-> price, clamped |-> FALSE, pass |-> pc]
  /\ IF GateCode # "PASSED"
     THEN HaltTrading /\ UNCHANGED <<exchange, response>>
     ELSE /\ GoOn("bought")
          /\ IF mode = "dry_run"
             THEN /\ response' = Filled(order'.quantity, price)
                  /\ UNCHANGED <<exchange, afterStop>>
             ELSE /\ Execute(side, 1, EX!BuyFills(order'.quantity, price))
                  /\ CountSubmission
  /\ UNCHANGED <<markets, snapshot, todo, wanted, exitError>>

\* _try_enter.
SubmitBuy(m, side, price, size) ==
  /\ pc = "entries" /\ m \in todo
  /\ PlaceBuy(m, side, price, size)
  /\ UNCHANGED windows

(* The second half of the cycle in the time-delay mode:                    *)
(* _run_cycle_time_delay after the exits, _time_delay_series_cycle         *)

NoWindow == "none"
SeriesOf(m) == CHOOSE s \in DOMAIN Windows : m \in Range(Windows[s])

\* The entries counted for the window m, once the counter was reset for it.
TradesIn(m) ==
  IF lastTradeWindow[SeriesOf(m)] = m THEN tradesInCurrentWindow[SeriesOf(m)] ELSE 0

RollWindow(m) ==
  tradesInCurrentWindow' = [tradesInCurrentWindow EXCEPT ![SeriesOf(m)] = TradesIn(m)]

\* Mutant: the window of the entry is not remembered.
CountEntryNoWindow(m) ==
  /\ tradesInCurrentWindow' = [tradesInCurrentWindow EXCEPT ![SeriesOf(m)] = @ + 1]
  /\ entryPlaced' = TRUE
  /\ UNCHANGED <<lastTradeWindow, windowEntries>>

CountEntry(m) ==
  /\ lastTradeWindow' = [lastTradeWindow EXCEPT ![SeriesOf(m)] = m]
  /\ tradesInCurrentWindow' = [tradesInCurrentWindow EXCEPT ![SeriesOf(m)] = @ + 1]
  /\ entryPlaced' = TRUE
  /\ UNCHANGED windowEntries

\* Mutant: the series get their turn after a failed exit pass, too.
BeginSeriesAnyway ==
  /\ STRATEGY_MODE = "reddit_time_delay"
  /\ pc = "exits" /\ todo = {}
  /\ pc' = "series"
  /\ todo' \in SUBSET markets
  /\ UNCHANGED <<books, exchange, markets, snapshot, wanted, order, response,
                 exitError, windows, mode, halted, stopping, operator>>

BeginSeries ==
  /\ STRATEGY_MODE = "reddit_time_delay"
  /\ pc = "exits" /\ todo = {}
  /\ pc' = IF exitError THEN "end" ELSE "series"
  /\ todo' \in SUBSET markets
  /\ UNCHANGED <<books, exchange, markets, snapshot, wanted, order, response,
                 exitError, windows, mode, halted, stopping, operator>>

\* Incomplete quotes, no trigger, or no more entry allowed.
SeriesIdle(m) ==
  /\ pc = "series" /\ m \in todo
  /\ RM!GetCurrentDatetime
  /\ RollWindow(m)
  /\ todo' = todo \ {m}
  /\ UNCHANGED <<exchange, markets, snapshot, wanted, order, response, exitError,
                 entryPlaced, lastTradeWindow, windowEntries, control, operator>>

\* The bid fell to EXIT_POINT_PRICE.
SeriesExit(m) ==
  /\ pc = "series" /\ m \in todo
  /\ RM!Tracked(m)
  /\ RM!GetCurrentDatetime
  /\ RollWindow(m)
  /\ PlaceSell(m)
  /\ UNCHANGED <<exchange, markets, snapshot, todo, wanted, exitError,
                 entryPlaced, lastTradeWindow, windowEntries>>

\* Mutant: every series may enter in the same cycle.
MayEnterEach(m) ==
  /\ ~ RM!Tracked(m)
  /\ TradesIn(m) < MAX_TRADES_PER_WINDOW

\* decide_trade_time_delay says to enter, and allow_entry lets it.
MayEnter(m) ==
  /\ ~ RM!Tracked(m)
  /\ TradesIn(m) < MAX_TRADES_PER_WINDOW
  /\ ~ entryPlaced

SeriesRefuse(m, price, size) ==
  /\ pc = "series" /\ m \in todo
  /\ MayEnter(m)
  /\ ~ RM!Approved(m, snapshot, price) \/ Contracts(size, price) < 1
  /\ RM!ResetDailyIfNeeded
  /\ RollWindow(m)
  /\ todo' = todo \ {m}
  /\ UNCHANGED <<exchange, markets, snapshot, wanted, order, response, exitError,
                 entryPlaced, lastTradeWindow, windowEntries, control, operator>>

\* The auxiliary count is of what was bought, whether or not the bot learns it.
SeriesEnter(m, side, price, size) ==
  /\ pc = "series" /\ m \in todo
  /\ MayEnter(m)
  /\ PlaceBuy(m, side, price, size)
  /\ RollWindow(m)
  /\ windowEntries' =
       IF held' # held \/ response'.fill > 0
       THEN [windowEntries EXCEPT ![m] = @ + 1] ELSE windowEntries
  /\ UNCHANGED <<entryPlaced, lastTradeWindow>>

-----------------------------------------------------------------------------
(* The end of an entry and of a cycle *)

BuyCode == IF response.ok THEN "BUY_PLACED" ELSE "COMMAND_FAILED"

\* The rest of _try_enter and of _time_delay_series_cycle: a fill is recorded
\* and ends the cycle, or in the time-delay mode its entries; an unfilled order
\* leaves the next market its chance.
RecordBuy ==
  /\ pc = "bought"
  /\ IF OrderAction(BuyCode) = "HALT_TRADING"
     THEN HaltTrading /\ UNCHANGED <<books, todo, windows>>
     ELSE /\ IF response.fill > 0
             THEN /\ RM!RecordEntry(order.market, order.side, response.fill, response.price)
                  /\ GoOn(IF order.pass = "series" THEN "series" ELSE "end")
             ELSE UNCHANGED books /\ GoOn(order.pass)
          /\ IF response.fill > 0 /\ order.pass = "series"
             THEN CountEntry(order.market)
             ELSE UNCHANGED windows
          /\ todo' = todo \ {order.market}
          /\ UNCHANGED afterStop
  /\ order' = NoOrder
  /\ response' = NoResponse
  /\ UNCHANGED <<exchange, markets, snapshot, wanted, exitError>>

EntriesDone ==
  /\ pc \in {"entries", "series"} /\ todo = {}
  /\ pc' = "end"
  /\ UNCHANGED <<books, exchange, locals, windows, mode, halted, stopping, operator>>

ClearLocals ==
  /\ markets' = {}
  /\ snapshot' = NoSnapshot
  /\ todo' = {}
  /\ wanted' = {}
  /\ order' = NoOrder
  /\ response' = NoResponse
  /\ exitError' = FALSE

\* run_once's finally block.
FinishCycle ==
  /\ pc = "end"
  /\ RM!EndCycle
  /\ pc' = "idle"
  /\ ClearLocals
  /\ entryPlaced' = FALSE
  /\ UNCHANGED <<exchange, lastTradeWindow, tradesInCurrentWindow, windowEntries, mode, halted, stopping, operator>>

-----------------------------------------------------------------------------
(* The process, its operator, the account and the calendar *)

NoEntries ==
  /\ entryPlaced' = FALSE
  /\ lastTradeWindow' = [s \in DOMAIN Windows |-> NoWindow]
  /\ tradesInCurrentWindow' = [s \in DOMAIN Windows |-> 0]
  /\ windowEntries' = [m \in Markets |-> 0]

Gone ==
  /\ pc' = "down"
  /\ mode' = "none"
  /\ halted' = FALSE
  /\ stopping' = FALSE
  /\ ClearLocals
  /\ NoEntries
  /\ UNCHANGED <<exchange, operator>>

Start ==
  /\ pc = "down"
  /\ RM!Start
  /\ mode' \in Modes
  /\ pc' = "idle"
  /\ UNCHANGED <<exchange, locals, windows, halted, stopping, operator>>

\* Mutant: the loop looks at _halt_trading only.
ShutdownOnHalt ==
  /\ pc = "idle"
  /\ halted
  /\ RM!Stop
  /\ Gone

\* main() leaves its loop between two cycles.
Shutdown ==
  /\ pc = "idle"
  /\ halted \/ stopping
  /\ RM!Stop
  /\ Gone

\* SIGINT or SIGTERM: the handler only clears _running.
Terminate ==
  /\ "sigterm" \in Faults
  /\ pc # "down" /\ ~ stopping
  /\ stopping' = TRUE
  /\ UNCHANGED <<books, exchange, locals, windows, mode, pc, halted, operator>>

Crash ==
  /\ "crash" \in Faults
  /\ RM!Crash
  /\ Gone

\* touch STOP_TRADING, and rm.
CreateStopFile ==
  /\ "operator" \in Faults
  /\ ~ stopFile /\ stops < MaxStops
  /\ stopFile' = TRUE
  /\ stops' = stops + 1
  /\ afterStop' = 0
  /\ UNCHANGED <<books, exchange, locals, windows, control, manualTrades>>

RemoveStopFile ==
  /\ "operator" \in Faults
  /\ stopFile
  /\ stopFile' = FALSE
  /\ afterStop' = 0
  /\ UNCHANGED <<books, exchange, locals, windows, control, stops, manualTrades>>

\* openclaw_kalshi.py buy or sell on the same account: the same gates, but no
\* risk manager.
ManualTrade(m, n, price) ==
  /\ "manual" \in Faults
  /\ manualTrades < MaxManualTrades
  /\ ~ stopFile
  /\ status[m] = "open"
  /\ EX!Trade(m, n, price)
  /\ manualTrades' = manualTrades + 1
  /\ UNCHANGED <<books, locals, windows, control, stopFile, stops, afterStop>>

\* The windows of a series open in the order in which they close.
ExchangeStep ==
  /\ \E m \in Markets :
       \/ /\ \A e \in Markets : Earlier(m, e) => status[e] # "future"
          /\ EX!OpenMarket(m)
       \/ EX!CloseMarket(m)
       \/ \E r \in {"yes", "no"} : EX!SettleMarket(m, r)
  /\ UNCHANGED <<books, locals, windows, control, operator>>

NextDay ==
  /\ RM!NextDay
  /\ UNCHANGED <<exchange, locals, windows, control, operator>>

-----------------------------------------------------------------------------
Init ==
  /\ RM!Init
  /\ EX!Init
  /\ pc = "down"
  /\ mode = "none"
  /\ halted = FALSE
  /\ stopping = FALSE
  /\ markets = {}
  /\ snapshot = NoSnapshot
  /\ todo = {}
  /\ wanted = {}
  /\ order = NoOrder
  /\ response = NoResponse
  /\ exitError = FALSE
  /\ entryPlaced = FALSE
  /\ lastTradeWindow = [s \in DOMAIN Windows |-> NoWindow]
  /\ tradesInCurrentWindow = [s \in DOMAIN Windows |-> 0]
  /\ windowEntries = [m \in Markets |-> 0]
  /\ stopFile = FALSE
  /\ stops = 0
  /\ manualTrades = 0
  /\ afterStop = 0

\* Everything the bot process does of its own accord.
BotStep ==
  \/ BeginCycle
  \/ Fetch
  \/ FetchFails
  \/ \E m \in Markets :
       \/ KeepPosition(m) \/ SkipPosition(m) \/ DecideExit(m) \/ ReconcileSettled(m)
       \/ SeriesIdle(m) \/ SeriesExit(m)
  \/ CheckHeld
  \/ CheckHeldFails
  \/ SubmitSell
  \/ RecordSell
  \/ PassRaises
  \/ SaleUnrecorded
  \/ ChooseSignals
  \/ CycleRaises
  \/ BeginEntries
  \/ BeginSeries
  \/ \E m \in Markets, price \in EX!Prices, size \in SignalSizes :
       \/ RefuseEntry(m, price, size)
       \/ SeriesRefuse(m, price, size)
       \/ \E side \in Sides :
            SubmitBuy(m, side, price, size) \/ SeriesEnter(m, side, price, size)
  \/ RecordBuy
  \/ EntriesDone
  \/ FinishCycle
  \/ Shutdown

Environment ==
  \/ ExchangeStep
  \/ Start
  \/ Terminate
  \/ Crash
  \/ CreateStopFile
  \/ RemoveStopFile
  \/ \E m \in Markets, n \in {-q : q \in Quantities} \cup Quantities, price \in EX!Prices :
       ManualTrade(m, n, price)
  \/ NextDay

Next == BotStep \/ Environment

Spec == Init /\ [][Next]_vars

\* The main loop runs: Python keeps executing the one thread, and every network
\* call it waits for ends, with an answer or with a timeout.
FairSpec == Spec /\ WF_vars(BotStep)

-----------------------------------------------------------------------------
(* Properties *)

Orders == [market : Markets \cup {NoMarket}, side : Sides \cup {"none"},
           quantity : Nat, limit : 0 .. Payout, clamped : BOOLEAN,
           pass : {"none", "exits", "reversals", "entries", "series"}]

\* Every variable has its type.
TypeOK ==
  /\ RM!TypeOK
  /\ status \in [Markets -> EX!Statuses]
  /\ held \in [Markets -> Int]
  /\ cost \in [Markets -> Nat]
  /\ mode \in Modes \cup {"none"}
  /\ pc \in {"down", "idle", "fetch", "exits", "reversals", "checkHeld", "sell",
             "sold", "entries", "series", "bought", "end"}
  /\ halted \in BOOLEAN /\ stopping \in BOOLEAN
  /\ markets \in SUBSET Markets /\ todo \in SUBSET Markets /\ wanted \in SUBSET Markets
  /\ snapshot \in [positions : SUBSET Markets, deployed : Nat, balance : Nat]
  /\ order \in Orders
  /\ response \in [ok : BOOLEAN, fill : Nat, price : 0 .. Payout]
  /\ exitError \in BOOLEAN /\ entryPlaced \in BOOLEAN
  /\ lastTradeWindow \in [DOMAIN Windows -> Markets \cup {NoWindow}]
  /\ tradesInCurrentWindow \in [DOMAIN Windows -> 0 .. MAX_TRADES_PER_WINDOW]
  /\ windowEntries \in [Markets -> Nat]
  /\ stopFile \in BOOLEAN
  /\ stops \in 0 .. MaxStops
  /\ manualTrades \in 0 .. MaxManualTrades
  /\ afterStop \in Nat

\* Whatever the loop does to the risk manager, it respects the protocol under
\* which the daily gates are proved: entries only after an approval of the same
\* cycle and for untracked markets, exits never larger than the position.
FollowsBooks == RM!Spec

\* While the bot is between orders and not halted, every market that still
\* trades or waits for its result is tracked with exactly the contracts the
\* account holds and at the price it paid: partial fills, unfilled orders, lost
\* answers and failing calls included, and exceptions that leave no answer
\* unrecorded.  (One process, no other trader on the account.)
BooksMatchExchange ==
  pc \notin {"down", "sold", "bought"} /\ ~ halted =>
    \A m \in Markets :
      LET p == openPositions[m]
      IN  ~ EX!Settled(m) =>
            /\ held[m] = EX!Signed(p.side, p.quantity)
            /\ cost[m] = p.quantity * p.entryPrice

\* The account never holds more than MAX_OPEN_POSITIONS markets, although every
\* decision is made on a snapshot taken before the cycle's exits and entries.
OpenCountBounded == Cardinality(EX!HeldMarkets) <= MAX_OPEN_POSITIONS

\* The account's exposure never passes MAX_TOTAL_EXPOSURE, although the bot
\* forgets its positions whenever it restarts and may then buy a market again.
ExposureBounded == EX!Deployed <= MAX_TOTAL_EXPOSURE

\* "takes at most MAX_TRADES_PER_WINDOW entries per 15-minute window"
\* (README.md), for the purchases of one process: whatever fills, gets sold and
\* is bought again, and also when the answer to an order is lost.  (A restart
\* forgets the counters and grants the window's entries anew.)
WindowEntriesBounded == \A m \in Markets : windowEntries[m] <= MAX_TRADES_PER_WINDOW

\* Once the STOP file exists at most one more order of the bot reaches the
\* exchange, over all restarts, until the file is removed.
AtMostOneOrderAfterStop == afterStop <= 1

\* "If position management failed, skip new entries to avoid trading with
\* unrecorded/un-exited positions" (bot.py): from the moment an exit pass has
\* raised, with a sale executed that is in no book, to the end of the cycle the
\* exposure only shrinks, but by orders placed by hand.
FailedExitsForbidEntries ==
  [][exitError /\ UNCHANGED manualTrades => EX!Deployed' <= EX!Deployed]_vars

\* A halt or a signal ends the process, also when the STOP file could not be
\* written.
StopIsObeyed == halted \/ stopping ~> pc = "down"

\* A settled position is booked, as long as the process lives and some market
\* is open.
SettlementBooked ==
  \A m \in Markets :
    RM!Tracked(m) /\ EX!Settled(m)
      ~> ~ RM!Tracked(m) \/ pc = "down" \/ EX!OpenMarkets = {}

\* "partial fills reduce the tracked position and book PnL" (README.md, Orders
\* and fills): the contracts of a sale whose answer arrived leave the books.
SaleBooked ==
  [][RecordSell /\ response.ok
       => openPositions'[order.market].quantity
            = openPositions[order.market].quantity - response.fill]_vars

=============================================================================
