----------------------------- MODULE RiskManager -----------------------------
(***************************************************************************)
(* The bot's books (risk_manager.py): the entry gate, the positions the    *)
(* bot believes it holds, the daily trade count and realized PnL that gate *)
(* new entries, and the CSV trade log they are rebuilt from at start-up.   *)
(*                                                                         *)
(* Data abstractions.  Time is a UTC day number.  A price is a number of   *)
(* cents and a contract pays Payout (100 in the program); a quantity is a  *)
(* count of the exchange's smallest fill (0.01 contract), so the PnL is an *)
(* exact product.  The loader only counts the entry rows of a day and adds *)
(* their PnL column, so the log file is a tally of these two numbers by    *)
(* day.  The write buffer is the sequence of its rows, each given as the   *)
(* tally of all rows up to and with it.  A write that fails half-way is    *)
(* taken to end between two rows.                                          *)
(***************************************************************************)
EXTENDS Integers, FiniteSets, Sequences

CONSTANTS
  Markets,                   \* the market tickers
  LastDay,                   \* bound on the clock: days are 0 .. LastDay
  MaxRestarts,               \* bound on how often the process is started
  Payout,                    \* what a winning contract pays, in cents
  Sides,                     \* the sides the strategy takes: "yes", "no" or both
  Quantities,                \* the quantities an order may fill
  DiskFaults,                \* which file operations may fail: "open", "read"
  MaxFailedWrites,           \* bound on how often writing or closing the log fails
  MAX_DAILY_TRADES,
  MAX_DAILY_LOSS_CENTS,
  MAX_OPEN_POSITIONS,
  MAX_TRADE_DOLLARS,         \* in cents here, like every amount
  MAX_TOTAL_EXPOSURE,
  MIN_CONTRACT_PRICE_CENTS,
  MAX_CONTRACT_PRICE_CENTS

\* config.validate() refuses to start the bot on values outside these ranges.
ASSUME ConfigAssumption ==
  /\ LastDay \in Nat
  /\ MaxRestarts \in Nat
  /\ MaxFailedWrites \in Nat
  /\ Payout \in Nat \ {0}
  /\ Sides \subseteq {"yes", "no"}
  /\ Quantities \subseteq Nat \ {0}
  /\ MAX_DAILY_TRADES \in Nat \ {0}
  /\ MAX_DAILY_LOSS_CENTS \in Nat
  /\ MAX_OPEN_POSITIONS \in Nat \ {0}
  /\ MAX_TRADE_DOLLARS \in Nat \ {0}
  /\ MAX_TOTAL_EXPOSURE \in Nat
  /\ MIN_CONTRACT_PRICE_CENTS \in 1 .. Payout - 1
  /\ MAX_CONTRACT_PRICE_CENTS \in 1 .. Payout - 1

ASSUME DiskAssumption == DiskFaults \subseteq {"open", "read"}

VARIABLES
  clock,              \* the UTC day
  alive,              \* the process, and with it the RiskManager object, exists
  restarts,           \* how often it has been started
  \* memory of the process
  today,              \* _today
  dailyTradeCount,    \* _daily_trade_count
  dailyRealizedPnl,   \* _daily_realized_pnl_cents
  openPositions,      \* _open_positions
  cachedNow,          \* _cached_now: the day read first in this cycle, or NoDay
  tradeLogBuffer,     \* _trade_log_buffer
  \* the disk
  tradeLog,           \* TRADE_LOG_FILE
  failedWrites,       \* how often a write or close of it has failed
  \* auxiliary: what really happened
  history,            \* every entry and exit logged, by day
  lost                \* the rows that were in a buffer when its process ended

memory == <<today, dailyTradeCount, dailyRealizedPnl, openPositions,
            cachedNow, tradeLogBuffer>>
vars == <<clock, alive, restarts, memory, tradeLog, failedWrites, history, lost>>

Days == 0 .. LastDay
NoDay == -1
Prices == 1 .. Payout - 1
ExitPrices == 0 .. Payout     \* 0 and Payout are settlement values

\* A market that is not a key of _open_positions maps to NoPosition.
NoPosition == [side |-> "none", quantity |-> 0, entryPrice |-> 0]
Position == [side : Sides \cup {"none"}, quantity : Nat, entryPrice : 0 .. Payout]
Tracked(m) == openPositions[m].quantity > 0
TrackedMarkets == {m \in Markets : Tracked(m)}

Rows == [entries : Nat, pnl : Int]
NoRows == [entries |-> 0, pnl |-> 0]
NoLog == [d \in Days |-> NoRows]
Plus(a, b) == [entries |-> a.entries + b.entries, pnl |-> a.pnl + b.pnl]
AddRows(log, day, rows) == [log EXCEPT ![day] = Plus(@, rows)]
MergeLogs(log1, log2) == [d \in Days |-> Plus(log1[d], log2[d])]

\* The first n rows of the buffer, and all of them.
FirstRows(n) == IF n = 0 THEN NoLog ELSE tradeLogBuffer[n]
Buffered == FirstRows(Len(tradeLogBuffer))

-----------------------------------------------------------------------------
(* Queries and their effects *)

compute_pnl_cents(entryPrice, exitPrice, size) == (exitPrice - entryPrice) * size

\* _get_current_datetime: one reading of the clock serves the whole cycle.
Now == IF cachedNow = NoDay THEN clock ELSE cachedNow

\* _append_trade_row.
BufferRow(rows) == Append(tradeLogBuffer, AddRows(Buffered, Now, rows))

\* The daily figures after _reset_daily_if_needed.
CountToday == IF Now = today THEN dailyTradeCount ELSE 0
PnlToday == IF Now = today THEN dailyRealizedPnl ELSE 0

\* Mutant: one entry too many.
blocked_one_late ==
  \/ CountToday > MAX_DAILY_TRADES
  \/ PnlToday <= -MAX_DAILY_LOSS_CENTS

\* Mutant: a loss of exactly the limit does not block.
blocked_below_limit ==
  \/ CountToday >= MAX_DAILY_TRADES
  \/ PnlToday < -MAX_DAILY_LOSS_CENTS

new_entries_blocked ==
  \/ CountToday >= MAX_DAILY_TRADES
  \/ PnlToday <= -MAX_DAILY_LOSS_CENTS

\* Mutant: the open-position limit is off by one.
ApprovedOneMore(m, snapshot, price) ==
  /\ ~ Tracked(m)
  /\ ~ new_entries_blocked
  /\ Cardinality(snapshot.positions) <= MAX_OPEN_POSITIONS
  /\ snapshot.balance >= MAX_TRADE_DOLLARS
  /\ snapshot.deployed + MAX_TRADE_DOLLARS <= MAX_TOTAL_EXPOSURE
  /\ price \in MIN_CONTRACT_PRICE_CENTS .. MAX_CONTRACT_PRICE_CENTS

\* Mutant: the exposure check leaves out the trade to be made.
ApprovedBeforeTrade(m, snapshot, price) ==
  /\ ~ Tracked(m)
  /\ ~ new_entries_blocked
  /\ Cardinality(snapshot.positions) < MAX_OPEN_POSITIONS
  /\ snapshot.balance >= MAX_TRADE_DOLLARS
  /\ snapshot.deployed <= MAX_TOTAL_EXPOSURE
  /\ price \in MIN_CONTRACT_PRICE_CENTS .. MAX_CONTRACT_PRICE_CENTS

\* snapshot: what the account looked like when the cycle fetched it.
Approved(m, snapshot, price) ==
  /\ ~ Tracked(m)
  /\ ~ new_entries_blocked
  /\ Cardinality(snapshot.positions) < MAX_OPEN_POSITIONS
  /\ snapshot.balance >= MAX_TRADE_DOLLARS
  /\ snapshot.deployed + MAX_TRADE_DOLLARS <= MAX_TOTAL_EXPOSURE
  /\ price \in MIN_CONTRACT_PRICE_CENTS .. MAX_CONTRACT_PRICE_CENTS

calculate_contracts(price) == MAX_TRADE_DOLLARS \div price

\* A reading of the clock that changes nothing else.
GetCurrentDatetime ==
  /\ cachedNow' = Now
  /\ UNCHANGED <<clock, alive, restarts, today, dailyTradeCount, dailyRealizedPnl,
                 openPositions, tradeLogBuffer, tradeLog, failedWrites, history, lost>>

ResetDailyIfNeeded ==
  /\ cachedNow' = Now
  /\ today' = Now
  /\ dailyTradeCount' = CountToday
  /\ dailyRealizedPnl' = PnlToday
  /\ UNCHANGED <<clock, alive, restarts, openPositions, tradeLogBuffer,
                 tradeLog, failedWrites, history, lost>>

-----------------------------------------------------------------------------
(* Operations *)

\* record_open_position followed by log_entry_trade.  No reset here: the code
\* relies on approve_trade having rolled the day over earlier in this cycle.
RecordEntry(m, side, quantity, price) ==
  /\ openPositions' = [openPositions EXCEPT
       ![m] = [side |-> side, quantity |-> quantity, entryPrice |-> price]]
  /\ dailyTradeCount' = dailyTradeCount + 1
  /\ cachedNow' = Now
  /\ tradeLogBuffer' = BufferRow([entries |-> 1, pnl |-> 0])
  /\ history' = AddRows(history, Now, [entries |-> 1, pnl |-> 0])
  /\ UNCHANGED <<clock, alive, restarts, today, dailyRealizedPnl, tradeLog,
                 failedWrites, lost>>

\* Mutant: a partial fill closes the whole position.
ShrunkToNothing(position, closed) == NoPosition

\* reduce_position or record_closed_position, as the remaining quantity says.
Shrunk(position, closed) ==
  IF position.quantity > closed
  THEN [position EXCEPT !.quantity = @ - closed]
  ELSE NoPosition

\* Mutant: an exit after midnight is accounted to the day before.
RecordExitNoRoll(m, closed, exitPrice) ==
  LET pnl == compute_pnl_cents(openPositions[m].entryPrice, exitPrice, closed)
  IN  /\ openPositions' = [openPositions EXCEPT ![m] = Shrunk(@, closed)]
      /\ cachedNow' = Now
      /\ dailyRealizedPnl' = dailyRealizedPnl + pnl
      /\ tradeLogBuffer' = BufferRow([entries |-> 0, pnl |-> pnl])
      /\ history' = AddRows(history, Now, [entries |-> 0, pnl |-> pnl])
      /\ UNCHANGED <<clock, alive, restarts, today, dailyTradeCount,
                     tradeLog, failedWrites, lost>>

\* bot._record_exit: the position is reduced or closed, then log_exit_trade.
RecordExit(m, closed, exitPrice) ==
  LET pnl == compute_pnl_cents(openPositions[m].entryPrice, exitPrice, closed)
  IN  /\ openPositions' = [openPositions EXCEPT ![m] = Shrunk(@, closed)]
      /\ today' = Now
      /\ cachedNow' = Now
      /\ dailyTradeCount' = CountToday
      /\ dailyRealizedPnl' = PnlToday + pnl
      /\ tradeLogBuffer' = BufferRow([entries |-> 0, pnl |-> pnl])
      /\ history' = AddRows(history, Now, [entries |-> 0, pnl |-> pnl])
      /\ UNCHANGED <<clock, alive, restarts, tradeLog, failedWrites, lost>>

\* A flush that raises: the file cannot be opened, or some of the rows are in
\* it when writing or closing it fails.
FlushFails ==
  /\ tradeLogBuffer # <<>>
  /\ \/ /\ "open" \in DiskFaults
        /\ UNCHANGED <<tradeLog, failedWrites>>
     \/ /\ failedWrites < MaxFailedWrites
        /\ failedWrites' = failedWrites + 1
        /\ \E n \in 0 .. Len(tradeLogBuffer) : tradeLog' = MergeLogs(tradeLog, FirstRows(n))

\* Mutant: the buffer is cleared whether or not its rows were written.
FlushForgets ==
  /\ tradeLogBuffer' = <<>>
  /\ \/ tradeLog' = MergeLogs(tradeLog, Buffered) /\ UNCHANGED failedWrites
     \/ FlushFails

\* _flush_trade_log_buffer: the buffer is cleared only after the file was closed
\* without an error.  Whatever a failing flush has written of it is written once
\* more by the next.
Flush ==
  \/ /\ tradeLog' = MergeLogs(tradeLog, Buffered)
     /\ tradeLogBuffer' = <<>>
     /\ UNCHANGED failedWrites
  \/ /\ FlushFails
     /\ UNCHANGED tradeLogBuffer

\* _clear_datetime_cache, at the end of every cycle.
EndCycle ==
  /\ cachedNow' = NoDay
  /\ Flush
  /\ UNCHANGED <<clock, alive, restarts, today, dailyTradeCount,
                 dailyRealizedPnl, openPositions, history, lost>>

\* Mutant: the day of the loaded figures is not set.
StartUndated ==
  /\ ~ alive
  /\ restarts < MaxRestarts
  /\ alive' = TRUE
  /\ restarts' = restarts + 1
  /\ today' = NoDay
  /\ dailyTradeCount' = tradeLog[clock].entries
  /\ dailyRealizedPnl' = tradeLog[clock].pnl
  /\ openPositions' = [m \in Markets |-> NoPosition]
  /\ cachedNow' = NoDay
  /\ tradeLogBuffer' = <<>>
  /\ UNCHANGED <<clock, tradeLog, failedWrites, history, lost>>

\* __init__: positions are not rebuilt, the daily figures are, from the rows of
\* today; a read error is logged and leaves both figures at zero.
Start ==
  /\ ~ alive
  /\ restarts < MaxRestarts
  /\ alive' = TRUE
  /\ restarts' = restarts + 1
  /\ today' = clock
  /\ \E found \in {tradeLog[clock]} \cup (IF "read" \in DiskFaults THEN {NoRows} ELSE {}) :
       /\ dailyTradeCount' = found.entries
       /\ dailyRealizedPnl' = found.pnl
  /\ openPositions' = [m \in Markets |-> NoPosition]
  /\ cachedNow' = NoDay
  /\ tradeLogBuffer' = <<>>
  /\ UNCHANGED <<clock, tradeLog, failedWrites, history, lost>>

\* What is left of the object when the process is gone.
MemoryGone ==
  /\ alive' = FALSE
  /\ today' = 0
  /\ dailyTradeCount' = 0
  /\ dailyRealizedPnl' = 0
  /\ openPositions' = [m \in Markets |-> NoPosition]
  /\ cachedNow' = NoDay
  /\ tradeLogBuffer' = <<>>
  /\ UNCHANGED <<clock, restarts, history>>

\* The process dies between two steps: buffered rows die with it.
Crash ==
  /\ alive
  /\ MemoryGone
  /\ lost' = MergeLogs(lost, Buffered)
  /\ UNCHANGED <<tradeLog, failedWrites>>

\* main()'s finally block flushes once more; what a failing flush keeps in
\* the buffer is lost when the process exits.
Stop ==
  /\ alive
  /\ MemoryGone
  /\ \/ /\ tradeLog' = MergeLogs(tradeLog, Buffered)
        /\ UNCHANGED <<failedWrites, lost>>
     \/ /\ FlushFails
        /\ lost' = MergeLogs(lost, Buffered)

NextDay ==
  /\ clock < LastDay
  /\ clock' = clock + 1
  /\ UNCHANGED <<alive, restarts, memory, tradeLog, failedWrites, history, lost>>

-----------------------------------------------------------------------------
(* The protocol the bot follows *)

\* An entry is recorded for a market approved earlier in the same cycle.
Enter(m, side, quantity, price) ==
  /\ alive
  /\ cachedNow # NoDay
  /\ today = cachedNow
  /\ ~ Tracked(m)
  /\ ~ new_entries_blocked
  /\ RecordEntry(m, side, quantity, price)

Exit(m, closed, exitPrice) ==
  /\ alive
  /\ closed \in 1 .. openPositions[m].quantity
  /\ RecordExit(m, closed, exitPrice)

Init ==
  /\ clock = 0
  /\ alive = FALSE
  /\ restarts = 0
  /\ today = 0
  /\ dailyTradeCount = 0
  /\ dailyRealizedPnl = 0
  /\ openPositions = [m \in Markets |-> NoPosition]
  /\ cachedNow = NoDay
  /\ tradeLogBuffer = <<>>
  /\ tradeLog = NoLog
  /\ failedWrites = 0
  /\ history = NoLog
  /\ lost = NoLog

Next ==
  \/ Start
  \/ alive /\ GetCurrentDatetime
  \/ alive /\ ResetDailyIfNeeded
  \/ \E m \in Markets, side \in Sides, q \in Quantities, p \in Prices :
       Enter(m, side, q, p)
  \/ \E m \in Markets, q \in Quantities, x \in ExitPrices : Exit(m, q, x)
  \/ alive /\ EndCycle
  \/ Stop
  \/ Crash
  \/ NextDay

Spec == Init /\ [][Next]_vars

-----------------------------------------------------------------------------
(* Properties *)

Log == [Days -> Rows]

\* Every variable has its type.
TypeOK ==
  /\ clock \in Days
  /\ alive \in BOOLEAN
  /\ restarts \in 0 .. MaxRestarts
  /\ today \in Days
  /\ dailyTradeCount \in Nat
  /\ dailyRealizedPnl \in Int
  /\ openPositions \in [Markets -> Position]
  /\ cachedNow \in Days \cup {NoDay}
  /\ tradeLogBuffer \in Seq(Log)
  /\ tradeLog \in Log
  /\ failedWrites \in 0 .. MaxFailedWrites
  /\ history \in Log
  /\ lost \in Log

\* No entry vanishes: whatever was logged is in the file, still in the buffer,
\* or was in it when a process ended.  And unless writing the file has failed,
\* every row is in one of these places once, profits and losses included.
RowsConserved ==
  \A d \in Days :
    LET entries == tradeLog[d].entries + Buffered[d].entries + lost[d].entries
        pnl == tradeLog[d].pnl + Buffered[d].pnl + lost[d].pnl
    IN  /\ history[d].entries <= entries
        /\ failedWrites = 0 => history[d].entries = entries /\ history[d].pnl = pnl

\* The figures that gate entries agree with the rows a restart would load plus
\* the rows about to be written: crossing midnight in the middle of a cycle, a
\* late exit, a restart or a log that cannot be opened never makes memory and
\* log disagree.  (As long as no write of the log has failed, and for disks
\* that can be read.)
StatsMatchLog ==
  alive /\ failedWrites = 0
    => /\ dailyTradeCount = tradeLog[today].entries + Buffered[today].entries
       /\ dailyRealizedPnl = tradeLog[today].pnl + Buffered[today].pnl

\* MAX_DAILY_TRADES bounds the entries of a UTC day over all processes of that
\* day, but for the entries whose rows were lost with a process.  Rows that a
\* failing write has repeated only make the count larger.
DailyEntriesBounded ==
  \A d \in Days : history[d].entries <= MAX_DAILY_TRADES + lost[d].entries

EntriesWithinLosses ==
  \A d \in Days :
    history'[d].entries > history[d].entries
      => history[d].pnl - lost[d].pnl > -MAX_DAILY_LOSS_CENTS

\* The daily-loss gate: an entry is only made on a day whose losses on record,
\* those of earlier processes included, are below MAX_DAILY_LOSS_CENTS.  (As
\* long as no write of the log has failed, and for disks that can be read.)
LossGate == [][failedWrites = 0 => EntriesWithinLosses]_vars

\* "the daily-loss gate survives a bot restart" (README.md, Risk limits): an
\* entry is only made on a day whose losses so far, lost rows included, are
\* below MAX_DAILY_LOSS_CENTS.
LossGateSurvivesRestart ==
  [][\A d \in Days :
       history'[d].entries > history[d].entries
         => history[d].pnl > -MAX_DAILY_LOSS_CENTS]_vars
=============================================================================
