-------------------------- MODULE TradingCycleProofs --------------------------
(***************************************************************************)
(* Proofs about TradingCycle, for all values of its constants: its types,  *)
(* that it drives the risk manager by the protocol RiskManagerProofs       *)
(* assumes, and what follows for the daily gates of the whole bot; that a  *)
(* STOP file is obeyed after at most one more order; and what the bot does *)
(* to the account: the number of open markets, the exposure, the entries   *)
(* of a window, and that the books say what the account holds.             *)
(*                                                                         *)
(* The order in the bot's hands is the state the books do not show: what   *)
(* was checked when it was chosen must still hold when its answer is       *)
(* recorded, after any number of steps of everybody else.                  *)
(***************************************************************************)
EXTENDS TradingCycle, SumTheorems, TLAPS

RMP == INSTANCE RiskManagerProofs

-----------------------------------------------------------------------------
(* The invariant *)

AccountTyped ==
  /\ status \in [Markets -> EX!Statuses]
  /\ held \in [Markets -> Int]
  /\ cost \in [Markets -> Nat]

ControlTyped ==
  /\ mode \in Modes \cup {"none"}
  /\ pc \in {"down", "idle", "fetch", "exits", "reversals", "checkHeld", "sell",
             "sold", "entries", "series", "bought", "end"}
  /\ halted \in BOOLEAN /\ stopping \in BOOLEAN

CycleTyped ==
  /\ markets \in SUBSET Markets /\ todo \in SUBSET Markets /\ wanted \in SUBSET Markets
  /\ snapshot \in [positions : SUBSET Markets, deployed : Nat, balance : Nat]
  /\ exitError \in BOOLEAN

HandTyped ==
  /\ order \in Orders
  /\ response \in [ok : BOOLEAN, fill : Nat, price : 0 .. Payout]

WindowsTyped ==
  /\ entryPlaced \in BOOLEAN
  /\ lastTradeWindow \in [DOMAIN Windows -> Markets \cup {NoWindow}]
  /\ tradesInCurrentWindow \in [DOMAIN Windows -> 0 .. MAX_TRADES_PER_WINDOW]
  /\ windowEntries \in [Markets -> Nat]

OperatorTyped ==
  /\ stopFile \in BOOLEAN
  /\ stops \in 0 .. MaxStops
  /\ manualTrades \in 0 .. MaxManualTrades
  /\ afterStop \in Nat

\* The type invariant, in parts.
LEMMA TypeParts ==
  TypeOK <=> RM!TypeOK /\ AccountTyped /\ ControlTyped /\ CycleTyped
             /\ HandTyped /\ WindowsTyped /\ OperatorTyped
BY DEF TypeOK, AccountTyped, ControlTyped, CycleTyped, HandTyped, WindowsTyped, OperatorTyped

\* The books exist while the process does.
BooksAlive == alive <=> pc # "down"

\* Both passes walk over positions.
PassesWalkPositions == pc \in {"exits", "reversals"} => todo \subseteq RM!TrackedMarkets

\* Every position was bought with the budget of one trade.
PositionsWithinBudget ==
  \A m \in Markets : openPositions[m].quantity <= MAX_TRADE_DOLLARS

\* The sale in hand is of a position of the books, and no larger.
SaleInHand ==
  pc \in {"checkHeld", "sell", "sold"} =>
    /\ order.market \in Markets
    /\ order.side = openPositions[order.market].side
    /\ order.quantity \in 1 .. openPositions[order.market].quantity
    /\ order.limit \in RM!Prices
    /\ order.pass \in {"exits", "reversals", "series"}
    /\ order.pass # "series" => todo \subseteq RM!TrackedMarkets
    /\ pc = "sold" => response.fill <= order.quantity

\* What approve_trade found, the purchase in hand still finds.
PurchaseInHand ==
  pc = "bought" =>
    /\ order.market \in Markets
    /\ order.side \in Sides
    /\ ~ RM!Tracked(order.market)
    /\ cachedNow # RM!NoDay /\ today = cachedNow
    /\ ~ RM!new_entries_blocked
    /\ response.fill <= MAX_TRADE_DOLLARS
    /\ response.fill > 0 => response.price \in RM!Prices
    /\ order.pass \in {"entries", "series"}
    /\ order.pass = "series" =>
         tradesInCurrentWindow[SeriesOf(order.market)] < MAX_TRADES_PER_WINDOW

OrderInv ==
  BooksAlive /\ PassesWalkPositions /\ PositionsWithinBudget /\ SaleInHand /\ PurchaseInHand

IInv == TypeOK /\ OrderInv

-----------------------------------------------------------------------------
(* Facts about constants and operators *)

\* What the assumptions say of the numbers.
LEMMA Numbers ==
  /\ Payout \in Nat /\ 1 <= Payout
  /\ MAX_TRADE_DOLLARS \in Nat /\ MaxStops \in Nat /\ MaxManualTrades \in Nat
  /\ MAX_TRADES_PER_WINDOW \in Nat /\ 1 <= MAX_TRADES_PER_WINDOW
  /\ 1 .. MAX_TRADE_DOLLARS \subseteq Quantities
  /\ RM!Prices \subseteq 1 .. Payout /\ EX!Prices = RM!Prices
BY BooksAssumption, TradingAssumption
DEF RM!ConfigAssumption, RM!Prices, EX!Prices

\* Every market belongs to a series.
LEMMA SeriesOfMarket == \A m \in Markets : SeriesOf(m) \in DOMAIN Windows
BY TradingAssumption DEF SeriesOf

\* The values of a cycle that is not running.
LEMMA EmptyLocals ==
  /\ NoSnapshot \in [positions : SUBSET Markets, deployed : Nat, balance : Nat]
  /\ NoOrder \in Orders
  /\ NoResponse \in [ok : BOOLEAN, fill : Nat, price : 0 .. Payout]
  /\ Failed \in [ok : BOOLEAN, fill : Nat, price : 0 .. Payout]
BY Numbers DEF NoSnapshot, NoOrder, Orders, NoResponse, Filled, Failed, NoMarket

\* An answer of the exchange.
LEMMA FilledType ==
  ASSUME NEW k \in Nat, NEW price \in 0 .. Payout
  PROVE  Filled(k, price) \in [ok : BOOLEAN, fill : Nat, price : 0 .. Payout]
BY DEF Filled

\* The budget of a trade bounds its contracts, at any price.
LEMMA ContractsBounded ==
  ASSUME NEW size \in SignalSizes, NEW price \in EX!Prices, Contracts(size, price) >= 1
  PROVE  /\ Contracts(size, price) \in 1 .. MAX_TRADE_DOLLARS
         /\ Contracts(size, price) * price <= MAX_TRADE_DOLLARS
<1>1. size \in Nat /\ price \in Nat /\ 1 <= price /\ MAX_TRADE_DOLLARS \in Nat
  BY TradingAssumption, Numbers
<1> DEFINE q == MAX_TRADE_DOLLARS \div price
<1>2. q \in Nat /\ q * price <= MAX_TRADE_DOLLARS /\ q <= MAX_TRADE_DOLLARS
  BY <1>1
<1>3. Contracts(size, price) \in Nat /\ Contracts(size, price) <= q
  BY <1>1, <1>2 DEF Contracts, RM!calculate_contracts, EX!Least
<1> HIDE DEF q
<1>4. Contracts(size, price) * price <= q * price
  BY <1>1, <1>2, <1>3
<1> QED
  BY <1>1, <1>2, <1>3, <1>4

\* What a trade makes of the account is again an account.
LEMMA TradeTyped ==
  ASSUME AccountTyped, NEW m \in Markets, NEW n \in Int, NEW price \in Nat,
         EX!Trade(m, n, price)
  PROVE  AccountTyped'
<1> DEFINE old == held[m]
           left == old + n
           paid == IF old * n >= 0 THEN cost[m] + EX!Abs(n) * price
                   ELSE IF EX!Abs(n) <= EX!Abs(old) THEN (cost[m] * EX!Abs(left)) \div EX!Abs(old)
                   ELSE EX!Abs(left) * price
<1>1. old \in Int /\ left \in Int /\ cost[m] \in Nat
  BY DEF AccountTyped
<1>2. EX!Abs(n) \in Nat /\ EX!Abs(old) \in Nat /\ EX!Abs(left) \in Nat
  BY <1>1 DEF EX!Abs
<1>3. paid \in Nat
  <2>1. EX!Abs(n) * price \in Nat /\ EX!Abs(left) * price \in Nat
    BY <1>2
  <2>2. ASSUME ~ old * n >= 0
        PROVE  EX!Abs(old) # 0
    BY <1>1, <2>2 DEF EX!Abs
  <2>3. cost[m] * EX!Abs(left) \in Nat
    BY <1>1, <1>2
  <2>4. EX!Abs(old) # 0 => (cost[m] * EX!Abs(left)) \div EX!Abs(old) \in Nat
    BY <1>2, <2>3
  <2> QED
    BY <1>1, <2>1, <2>2, <2>4
<1>4. held' = [held EXCEPT ![m] = left] /\ cost' = [cost EXCEPT ![m] = paid] /\ status' = status
  BY DEF EX!Trade
<1> HIDE DEF paid, left
<1> QED
  BY <1>1, <1>3, <1>4 DEF AccountTyped

-----------------------------------------------------------------------------
(* Types *)

\* A halt, and going on, keep the types of the control.
LEMMA HaltTyped ==
  ControlTyped /\ OperatorTyped /\ HaltTrading => ControlTyped' /\ OperatorTyped'
BY DEF HaltTrading, ControlTyped, OperatorTyped

LEMMA GoOnTyped ==
  ASSUME ControlTyped, OperatorTyped, GoOn(pc'),
         pc' \in {"exits", "reversals", "sell", "checkHeld", "sold", "entries",
                  "series", "bought", "end"},
         afterStop' = afterStop \/ CountSubmission
  PROVE  ControlTyped' /\ OperatorTyped'
BY DEF GoOn, CountSubmission, ControlTyped, OperatorTyped

\* The choice of a sale.
LEMMA PlaceSellTyped ==
  ASSUME ControlTyped, OperatorTyped, NEW m \in Markets, PlaceSell(m)
  PROVE  ControlTyped' /\ OperatorTyped'
<1>1. CASE HaltTrading
  BY <1>1, HaltTyped
<1>2. CASE UNCHANGED afterStop /\ (GoOn("sold") \/ GoOn("checkHeld"))
  <2>1. GoOn(pc') /\ pc' \in {"sold", "checkHeld"}
    BY <1>2 DEF GoOn
  <2> QED
    BY <1>2, <2>1, GoOnTyped
<1> QED
  BY <1>1, <1>2 DEF PlaceSell

\* The choice of a purchase, and its submission.
LEMMA PlaceBuyTyped ==
  ASSUME ControlTyped, OperatorTyped,
         NEW m, NEW side, NEW price, NEW size, PlaceBuy(m, side, price, size)
  PROVE  ControlTyped' /\ OperatorTyped'
<1>1. CASE HaltTrading
  BY <1>1, HaltTyped
<1>2. CASE GoOn("bought") /\ (UNCHANGED afterStop \/ CountSubmission)
  <2>1. GoOn(pc') /\ pc' = "bought"
    BY <1>2 DEF GoOn
  <2> QED
    BY <1>2, <2>1, GoOnTyped
<1> QED
  BY <1>1, <1>2 DEF PlaceBuy

\* Every step keeps the types of the control and of the operator's variables.
LEMMA ControlStep ==
  ASSUME ControlTyped, OperatorTyped, SaleInHand, PurchaseInHand, Next
  PROVE  ControlTyped' /\ OperatorTyped'
<1> USE DEF control, operator
<1>1. CASE BeginCycle \/ Fetch \/ FetchFails \/ ChooseSignals \/ CycleRaises \/ BeginEntries
           \/ BeginSeries \/ EntriesDone \/ FinishCycle
  BY <1>1 DEF BeginCycle, Fetch, FetchFails, ChooseSignals, CycleRaises, BeginEntries,
              BeginSeries, EntriesDone, FinishCycle, ControlTyped, OperatorTyped
<1>2. ASSUME NEW m \in Markets,
             KeepPosition(m) \/ SkipPosition(m) \/ ReconcileSettled(m) \/ SeriesIdle(m)
      PROVE  ControlTyped' /\ OperatorTyped'
  BY <1>2 DEF KeepPosition, SkipPosition, ReconcileSettled, SeriesIdle,
              ControlTyped, OperatorTyped
<1>3. ASSUME NEW m \in Markets, NEW price, NEW size,
             RefuseEntry(m, price, size) \/ SeriesRefuse(m, price, size)
      PROVE  ControlTyped' /\ OperatorTyped'
  BY <1>3 DEF RefuseEntry, SeriesRefuse, ControlTyped, OperatorTyped
<1>4. ASSUME NEW m \in Markets, DecideExit(m) \/ SeriesExit(m)
      PROVE  ControlTyped' /\ OperatorTyped'
  BY <1>4, PlaceSellTyped DEF DecideExit, SeriesExit
<1>5. ASSUME NEW m \in Markets, NEW side, NEW price, NEW size,
             SubmitBuy(m, side, price, size) \/ SeriesEnter(m, side, price, size)
      PROVE  ControlTyped' /\ OperatorTyped'
  BY <1>5, PlaceBuyTyped DEF SubmitBuy, SeriesEnter
<1>6. CASE CheckHeld
  <2>1. GoOn(pc') /\ pc' \in {"exits", "reversals", "series", "sell"} /\ UNCHANGED afterStop
    BY <1>6 DEF CheckHeld, GoOn, SaleInHand
  <2> QED
    BY <2>1, GoOnTyped
<1>7. CASE CheckHeldFails
  BY <1>7, HaltTyped DEF CheckHeldFails
<1>8. CASE SubmitSell
  <2>1. GoOn(pc') /\ pc' = "sold" /\ CountSubmission
    BY <1>8 DEF SubmitSell, GoOn
  <2> QED
    BY <2>1, GoOnTyped
<1>9. CASE RecordSell
  <2>1. CASE HaltTrading
    BY <2>1, HaltTyped
  <2>2. CASE GoOn(order.pass) /\ UNCHANGED afterStop
    <3>1. GoOn(pc') /\ pc' \in {"exits", "reversals", "series"}
      BY <1>9, <2>2 DEF RecordSell, GoOn, SaleInHand
    <3> QED
      BY <2>2, <3>1, GoOnTyped
  <2> QED
    BY <1>9, <2>1, <2>2 DEF RecordSell
<1>10. CASE RecordBuy
  <2>1. CASE HaltTrading
    BY <2>1, HaltTyped
  <2>2. CASE /\ UNCHANGED afterStop
             /\ \/ GoOn(order.pass)
                \/ GoOn(IF order.pass = "series" THEN "series" ELSE "end")
    <3>1. GoOn(pc') /\ pc' \in {"entries", "series", "end"}
      BY <1>10, <2>2 DEF RecordBuy, GoOn, PurchaseInHand
    <3> QED
      BY <2>2, <3>1, GoOnTyped
  <2> QED
    BY <1>10, <2>1, <2>2 DEF RecordBuy
<1>11. CASE PassRaises
  BY <1>11 DEF PassRaises, ControlTyped, OperatorTyped
<1>17. CASE SaleUnrecorded
  <2>1. GoOn(pc') /\ pc' \in {"exits", "reversals", "end"} /\ UNCHANGED afterStop
    BY <1>17 DEF SaleUnrecorded, GoOn, SaleInHand
  <2> QED
    BY <2>1, GoOnTyped
<1>12. CASE Shutdown \/ Crash
  BY <1>12 DEF Shutdown, Crash, Gone, ControlTyped, OperatorTyped
<1>13. CASE Start
  BY <1>13 DEF Start, ControlTyped, OperatorTyped
<1>14. CASE Terminate \/ CreateStopFile \/ RemoveStopFile
  <2>1. MaxStops \in Nat
    BY Numbers
  <2>2. CASE CreateStopFile
    BY <2>1, <2>2 DEF CreateStopFile, ControlTyped, OperatorTyped
  <2>3. CASE Terminate
    BY <2>3 DEF Terminate, ControlTyped, OperatorTyped
  <2>4. CASE RemoveStopFile
    BY <2>4 DEF RemoveStopFile, ControlTyped, OperatorTyped
  <2> QED
    BY <1>14, <2>2, <2>3, <2>4
<1>15. ASSUME NEW m \in Markets, NEW n, NEW price, ManualTrade(m, n, price)
       PROVE  ControlTyped' /\ OperatorTyped'
  <2>1. MaxManualTrades \in Nat
    BY Numbers
  <2> QED
    BY <1>15, <2>1 DEF ManualTrade, ControlTyped, OperatorTyped
<1>16. CASE ExchangeStep \/ NextDay
  BY <1>16 DEF ExchangeStep, NextDay, ControlTyped, OperatorTyped
<1> QED
  BY <1>1, <1>2, <1>3, <1>4, <1>5, <1>6, <1>7, <1>8, <1>9, <1>10, <1>11, <1>12,
     <1>13, <1>14, <1>15, <1>16, <1>17
  DEF Next, BotStep, Environment

\* A purchase, and a sale, change the account like a trade.
LEMMA SignedType == ASSUME NEW side, NEW n \in Int PROVE EX!Signed(side, n) \in Int
BY DEF EX!Signed

\* What an order may fill.
LEMMA FillTypes ==
  /\ \A q \in Nat, limit \in RM!Prices : \A f \in EX!BuyFills(q, limit) :
       f.fill \in 0 .. q /\ f.price \in RM!Prices
  /\ AccountTyped =>
       \A m \in Markets, q \in Nat, limit \in RM!Prices : \A side :
         \A f \in EX!SellFills(m, side, q, limit) :
           f.fill \in Nat /\ f.fill <= q /\ f.price \in RM!Prices
<1> USE DEF RM!Prices
<1>1. Payout \in Nat
  BY Numbers
<1>2. ASSUME NEW q \in Nat, NEW limit \in RM!Prices, NEW f \in EX!BuyFills(q, limit)
      PROVE  f.fill \in 0 .. q /\ f.price \in RM!Prices
  <2>1. f \in [fill : 0 .. q, price : 1 .. limit]
    BY DEF EX!BuyFills
  <2> QED
    BY <1>1, <2>1
<1>3. ASSUME AccountTyped, NEW m \in Markets, NEW side, NEW q \in Nat, NEW limit \in RM!Prices,
             NEW f \in EX!SellFills(m, side, q, limit)
      PROVE  f.fill \in Nat /\ f.fill <= q /\ f.price \in RM!Prices
  <2> DEFINE most == EX!Least(q, EX!HeldOnSide(m, side))
  <2>1. f \in [fill : 0 .. most, price : limit .. Payout - 1]
    BY DEF EX!SellFills
  <2>2. f.fill \in Int /\ 0 <= f.fill /\ f.fill <= most /\ f.price \in RM!Prices
    BY <1>1, <2>1
  <2>3. EX!HeldOnSide(m, side) \in Int
    BY <1>3 DEF EX!HeldOnSide, EX!Abs, AccountTyped
  <2>4. most \in Int /\ most <= q
    BY <2>3 DEF EX!Least
  <2> QED
    BY <2>2, <2>4
<1> QED
  BY <1>2, <1>3

\* An order executed: the account stays one, and so does the answer; no answer
\* tells of a fill the exchange does not allow.
LEMMA ExecuteTyped ==
  ASSUME AccountTyped, order'.market \in Markets, NEW side, NEW sign \in {-1, 1},
         NEW q \in Nat, NEW fills,
         \A f \in fills : f.fill \in Nat /\ f.fill <= q /\ f.price \in RM!Prices,
         Execute(side, sign, fills)
  PROVE  /\ AccountTyped'
         /\ response' \in [ok : BOOLEAN, fill : Nat, price : 0 .. Payout]
         /\ response'.fill <= q
         /\ response'.fill > 0 => response'.price \in RM!Prices
<1>p. \A price \in RM!Prices : price \in Nat /\ price \in 0 .. Payout
  BY Numbers DEF RM!Prices
<1>1. CASE response' = Failed /\ UNCHANGED exchange
  BY <1>1, EmptyLocals DEF exchange, AccountTyped, Failed
<1>2. CASE \E f \in fills :
         /\ EX!Trade(order'.market, EX!Signed(side, sign * f.fill), f.price)
         /\ response' \in {Filled(f.fill, f.price)}
                            \cup (IF "order" \in Faults THEN {Failed} ELSE {})
  <2>1. PICK f \in fills :
         /\ EX!Trade(order'.market, EX!Signed(side, sign * f.fill), f.price)
         /\ response' \in {Filled(f.fill, f.price)}
                            \cup (IF "order" \in Faults THEN {Failed} ELSE {})
    BY <1>2
  <2>2. f.fill \in Nat /\ f.price \in Nat /\ f.price \in 0 .. Payout /\ f.price \in RM!Prices
    BY <1>p
  <2>3. sign * f.fill \in Int
    BY <2>2
  <2>4. AccountTyped'
    BY <2>1, <2>2, <2>3, SignedType, TradeTyped
  <2>5. CASE response' = Filled(f.fill, f.price)
    BY <2>2, <2>4, <2>5, FilledType DEF Filled
  <2>6. CASE response' = Failed
    BY <2>4, <2>6, EmptyLocals DEF Failed
  <2> QED
    BY <2>1, <2>5, <2>6
<1> QED
  BY <1>1, <1>2 DEF Execute

\* The exposure the account reports is an amount.
LEMMA DeployedIsSum ==
  EX!Deployed = Sum(cost, Markets) /\ (EX!Deployed)' = Sum(cost', Markets)
BY DEF EX!Deployed, EX!MapThenSumSet, EX!MapThenFoldSet, Sum, SumsUp, Picked

LEMMA DeployedType == AccountTyped => EX!Deployed \in Nat
BY DeployedIsSum, SumIsNat, TradingAssumption DEF AccountTyped

\* Every step keeps the types of what a cycle fetched and has left to do.
LEMMA CycleStep ==
  ASSUME CycleTyped, AccountTyped, Next
  PROVE  CycleTyped'
<1> USE DEF locals
<1>1. CASE BeginCycle
  BY <1>1 DEF BeginCycle, ActiveMarkets, EX!OpenMarkets, CycleTyped
<1>2. CASE Fetch
  <2>1. NoSnapshot \in [positions : SUBSET Markets, deployed : Nat, balance : Nat]
    BY EmptyLocals
  <2>2. ASSUME NEW balance \in Balances
        PROVE  [positions |-> EX!HeldMarkets, deployed |-> EX!Deployed, balance |-> balance]
                 \in [positions : SUBSET Markets, deployed : Nat, balance : Nat]
    <3>1. EX!HeldMarkets \subseteq Markets /\ balance \in Nat
      BY TradingAssumption DEF EX!HeldMarkets
    <3> QED
      BY <3>1, DeployedType
  <2>3. RM!TrackedMarkets \subseteq Markets
    BY DEF RM!TrackedMarkets
  <2> QED
    BY <1>2, <2>1, <2>2, <2>3 DEF Fetch, CycleTyped
<1>3. CASE FetchFails \/ CycleRaises \/ EntriesDone \/ CheckHeldFails \/ SubmitSell \/ PassRaises
           \/ SaleUnrecorded \/ ChooseSignals \/ BeginEntries \/ BeginSeries
  BY <1>3 DEF FetchFails, CycleRaises, EntriesDone, CheckHeldFails, SubmitSell, PassRaises,
              SaleUnrecorded, ChooseSignals, BeginEntries, BeginSeries, CycleTyped
<1>4. CASE CheckHeld \/ RecordSell \/ RecordBuy
  <2>1. todo' \subseteq todo
    BY <1>4 DEF CheckHeld, RecordSell, RecordBuy, HaltTrading
  <2>2. UNCHANGED <<markets, wanted, snapshot, exitError>>
    BY <1>4 DEF CheckHeld, RecordSell, RecordBuy
  <2> QED
    BY <2>1, <2>2 DEF CycleTyped
<1>5. ASSUME NEW m \in Markets,
             \/ KeepPosition(m) \/ SkipPosition(m) \/ ReconcileSettled(m) \/ SeriesIdle(m)
             \/ DecideExit(m) \/ SeriesExit(m)
      PROVE  CycleTyped'
  BY <1>5 DEF KeepPosition, SkipPosition, ReconcileSettled, SeriesIdle, DecideExit, SeriesExit,
              CycleTyped
<1>6. ASSUME NEW m \in Markets, NEW price, NEW size,
             RefuseEntry(m, price, size) \/ SeriesRefuse(m, price, size)
      PROVE  CycleTyped'
  BY <1>6 DEF RefuseEntry, SeriesRefuse, CycleTyped
<1>7. ASSUME NEW m \in Markets, NEW side, NEW price, NEW size,
             SubmitBuy(m, side, price, size) \/ SeriesEnter(m, side, price, size)
      PROVE  CycleTyped'
  BY <1>7 DEF SubmitBuy, SeriesEnter, PlaceBuy, CycleTyped
<1>8. CASE FinishCycle \/ Shutdown \/ Crash
  BY <1>8, EmptyLocals DEF FinishCycle, Shutdown, Crash, Gone, ClearLocals, CycleTyped
<1>9. ASSUME NEW m \in Markets, NEW n, NEW price, ManualTrade(m, n, price)
      PROVE  CycleTyped'
  BY <1>9 DEF ManualTrade, CycleTyped
<1>10. CASE Start \/ Terminate \/ CreateStopFile \/ RemoveStopFile \/ ExchangeStep \/ NextDay
  BY <1>10 DEF Start, Terminate, CreateStopFile, RemoveStopFile, ExchangeStep, NextDay, CycleTyped
<1> QED
  BY <1>1, <1>2, <1>3, <1>4, <1>5, <1>6, <1>7, <1>8, <1>9, <1>10
  DEF Next, BotStep, Environment

-----------------------------------------------------------------------------
(* The order in hand *)

\* The first reading of the clock in a cycle is a day, and a roll-over leaves
\* the gate as it was asked.
LEMMA ClockIsRead ==
  ASSUME RM!TypeOK
  PROVE  /\ RM!Now \in RM!Days /\ RM!Now # RM!NoDay
         /\ RM!GetCurrentDatetime =>
              /\ UNCHANGED <<alive, openPositions>>
              /\ (RM!new_entries_blocked)' = RM!new_entries_blocked
         /\ RM!ResetDailyIfNeeded =>
              /\ UNCHANGED <<alive, openPositions>>
              /\ cachedNow' # RM!NoDay /\ today' = cachedNow'
              /\ (RM!new_entries_blocked)' = RM!new_entries_blocked
<1>1. RM!Now \in RM!Days /\ RM!Now # RM!NoDay
  BY BooksAssumption DEF RM!TypeOK, RM!Now, RM!Days, RM!NoDay, RM!ConfigAssumption
<1>2. ASSUME RM!GetCurrentDatetime
      PROVE  /\ UNCHANGED <<alive, openPositions>>
             /\ (RM!new_entries_blocked)' = RM!new_entries_blocked
  <2>1. cachedNow' = RM!Now /\ UNCHANGED <<clock, alive, today, dailyTradeCount,
                                           dailyRealizedPnl, openPositions>>
    BY <1>2 DEF RM!GetCurrentDatetime
  <2>2. (RM!Now)' = RM!Now
    BY <1>1, <2>1 DEF RM!Now
  <2> QED
    BY <2>1, <2>2 DEF RM!new_entries_blocked, RM!CountToday, RM!PnlToday
<1>3. ASSUME RM!ResetDailyIfNeeded
      PROVE  /\ UNCHANGED <<alive, openPositions>>
             /\ cachedNow' # RM!NoDay /\ today' = cachedNow'
             /\ (RM!new_entries_blocked)' = RM!new_entries_blocked
  <2>1. /\ cachedNow' = RM!Now /\ today' = RM!Now
        /\ dailyTradeCount' = RM!CountToday /\ dailyRealizedPnl' = RM!PnlToday
        /\ UNCHANGED <<clock, alive, openPositions>>
    BY <1>3 DEF RM!ResetDailyIfNeeded
  <2>2. (RM!Now)' = RM!Now
    BY <1>1, <2>1 DEF RM!Now
  <2>3. (RM!CountToday)' = RM!CountToday /\ (RM!PnlToday)' = RM!PnlToday
    BY <2>1, <2>2 DEF RM!CountToday, RM!PnlToday
  <2> QED
    BY <1>1, <2>1, <2>3 DEF RM!new_entries_blocked
<1> QED
  BY <1>1, <1>2, <1>3

\* A sale is chosen: the order in hand is the whole position.
LEMMA PlaceSellInHand ==
  ASSUME RM!TypeOK, HandTyped, NEW m \in Markets, RM!Tracked(m), PlaceSell(m),
         pc \in {"exits", "reversals", "series"},
         pc # "series" => todo \subseteq RM!TrackedMarkets,
         UNCHANGED <<openPositions, todo>>
  PROVE  HandTyped' /\ SaleInHand' /\ pc' \in {"end", "sold", "checkHeld"}
<1> DEFINE p == openPositions[m]
<1>1. p.side \in Sides \cup {"none"} /\ p.quantity \in Nat /\ p.quantity \in 1 .. p.quantity
  BY DEF RM!TypeOK, RM!Position, RM!Tracked
<1>2. PICK limit \in RM!Prices :
        order' = [market |-> m, side |-> p.side, quantity |-> p.quantity, limit |-> limit,
                  clamped |-> FALSE, pass |-> pc]
  BY Numbers DEF PlaceSell
<1>3. limit \in 0 .. Payout
  BY Numbers DEF RM!Prices
<1>4. order' \in Orders
  BY <1>1, <1>2, <1>3 DEF Orders
<1>5. \/ pc' \in {"end", "checkHeld"} /\ response' = response
      \/ pc' = "sold" /\ response' = Filled(p.quantity, limit)
  BY <1>2 DEF PlaceSell, HaltTrading, GoOn
<1>6. HandTyped'
  <2>1. Filled(p.quantity, limit) \in [ok : BOOLEAN, fill : Nat, price : 0 .. Payout]
    BY <1>1, <1>3, FilledType
  <2>2. response' \in [ok : BOOLEAN, fill : Nat, price : 0 .. Payout]
    BY <1>5, <2>1 DEF HandTyped
  <2> QED
    BY <1>4, <2>2 DEF HandTyped
<1>7. (RM!TrackedMarkets)' = RM!TrackedMarkets
  BY DEF RM!TrackedMarkets, RM!Tracked
<1>8. pc' = "sold" => response'.fill <= order'.quantity
  BY <1>1, <1>2, <1>5 DEF Filled
<1>9. SaleInHand'
  BY <1>1, <1>2, <1>7, <1>8 DEF SaleInHand
<1> QED
  BY <1>5, <1>6, <1>9

\* A sale is submitted: no more is filled than was ordered.
LEMMA SubmitSellInHand ==
  ASSUME AccountTyped, HandTyped, SaleInHand, SubmitSell
  PROVE  AccountTyped' /\ HandTyped' /\ SaleInHand' /\ pc' = "sold"
<1>1. /\ order' = order /\ UNCHANGED <<openPositions, todo>> /\ pc' = "sold"
      /\ Execute(order.side, -1,
             EX!SellFills(order.market, order.side, order.quantity, order.limit))
  BY DEF SubmitSell, GoOn, books
<1>2. order.market \in Markets /\ order.quantity \in Nat /\ order.limit \in RM!Prices
  BY DEF SubmitSell, SaleInHand, HandTyped, Orders
<1>3. /\ AccountTyped' /\ response'.fill <= order.quantity
      /\ response' \in [ok : BOOLEAN, fill : Nat, price : 0 .. Payout]
  <2> DEFINE fills == EX!SellFills(order.market, order.side, order.quantity, order.limit)
  <2>1. \A f \in fills : f.fill \in Nat /\ f.fill <= order.quantity /\ f.price \in RM!Prices
    BY <1>2, FillTypes
  <2>2. Execute(order.side, -1, fills) /\ order'.market \in Markets /\ -1 \in {-1, 1}
    BY <1>1, <1>2
  <2> HIDE DEF fills
  <2> QED
    BY <1>2, <2>1, <2>2, ExecuteTyped
<1>4. (RM!TrackedMarkets)' = RM!TrackedMarkets
  BY <1>1 DEF RM!TrackedMarkets, RM!Tracked
<1> QED
  BY <1>1, <1>3, <1>4 DEF SubmitSell, SaleInHand, HandTyped

\* A purchase is approved and submitted in one step.
LEMMA PlaceBuyInHand ==
  ASSUME RM!TypeOK, AccountTyped, HandTyped, pc \in {"entries", "series"},
         NEW m \in Markets, NEW side \in Sides, NEW price \in EX!Prices, NEW size \in SignalSizes,
         PlaceBuy(m, side, price, size),
         pc = "series" => tradesInCurrentWindow'[SeriesOf(m)] < MAX_TRADES_PER_WINDOW
  PROVE  AccountTyped' /\ HandTyped' /\ PurchaseInHand' /\ pc' \in {"end", "bought"}
<1> DEFINE q == Contracts(size, price)
<1>1. /\ ~ RM!Tracked(m) /\ ~ RM!new_entries_blocked /\ RM!ResetDailyIfNeeded
      /\ order' = [market |-> m, side |-> side, quantity |-> q,
                   limit |-> price, clamped |-> FALSE, pass |-> pc]
  BY DEF PlaceBuy, RM!Approved
<1>2. q \in 1 .. MAX_TRADE_DOLLARS /\ q \in Nat /\ q <= MAX_TRADE_DOLLARS
  BY ContractsBounded, Numbers DEF PlaceBuy
<1>3. price \in RM!Prices /\ price \in 0 .. Payout
  BY Numbers DEF RM!Prices
<1>4. order' \in Orders
  BY <1>1, <1>2, <1>3 DEF Orders
<1>5. \/ pc' = "end" /\ response' = response /\ UNCHANGED exchange
      \/ pc' = "bought" /\ response' = Filled(q, price) /\ UNCHANGED exchange
      \/ pc' = "bought" /\ Execute(side, 1, EX!BuyFills(q, price))
  <2>1. order'.quantity = q
    BY <1>1
  <2> HIDE DEF q
  <2> QED
    BY <2>1 DEF PlaceBuy, HaltTrading, GoOn
<1>6. /\ AccountTyped' /\ HandTyped'
      /\ pc' = "bought" =>
           response'.fill <= MAX_TRADE_DOLLARS
             /\ (response'.fill > 0 => response'.price \in RM!Prices)
  <2>1. CASE response' = response /\ pc' = "end" /\ UNCHANGED exchange
    BY <1>4, <2>1 DEF HandTyped, AccountTyped, exchange
  <2>2. CASE response' = Filled(q, price) /\ UNCHANGED exchange
    <3>1. response'.fill = q /\ response'.price = price
      BY <2>2 DEF Filled
    <3>2. response' \in [ok : BOOLEAN, fill : Nat, price : 0 .. Payout]
      BY <1>2, <1>3, <2>2, FilledType
    <3> QED
      BY <1>2, <1>3, <1>4, <2>2, <3>1, <3>2 DEF HandTyped, AccountTyped, exchange
  <2>3. CASE Execute(side, 1, EX!BuyFills(q, price))
    <3>1. \A f \in EX!BuyFills(q, price) : f.fill \in Nat /\ f.fill <= q /\ f.price \in RM!Prices
      <4> HIDE DEF q
      <4> QED BY <1>2, <1>3, FillTypes
    <3>2. order'.market \in Markets
      BY <1>1
    <3>3. /\ AccountTyped'
          /\ response' \in [ok : BOOLEAN, fill : Nat, price : 0 .. Payout]
          /\ response'.fill <= q
          /\ response'.fill > 0 => response'.price \in RM!Prices
      <4> DEFINE fills == EX!BuyFills(q, price)
      <4>1. Execute(side, 1, fills) /\ 1 \in {-1, 1}
        BY <2>3
      <4>2. \A f \in fills : f.fill \in Nat /\ f.fill <= q /\ f.price \in RM!Prices
        BY <3>1
      <4> HIDE DEF fills, q
      <4> QED
        BY <1>2, <3>2, <4>1, <4>2, ExecuteTyped
    <3>4. response'.fill \in Nat
      BY <3>3
    <3> HIDE DEF q
    <3>5. response'.fill <= MAX_TRADE_DOLLARS
      BY <1>2, <3>3, <3>4, Numbers
    <3> QED
      BY <1>4, <3>3, <3>5 DEF HandTyped
  <2> QED
    BY <1>5, <2>1, <2>2, <2>3
<1>7. /\ cachedNow' # RM!NoDay /\ today' = cachedNow'
      /\ ~ (RM!new_entries_blocked)' /\ ~ RM!Tracked(m)'
  BY <1>1, ClockIsRead DEF RM!Tracked
<1>8. pc' \in {"end", "bought"}
  BY <1>5
<1>9. PurchaseInHand'
  <2>1. /\ order'.market = m /\ order'.side = side /\ order'.pass = pc
    BY <1>1
  <2> QED
    BY <1>6, <1>7, <1>8, <2>1 DEF PurchaseInHand, RM!Tracked
<1> QED
  BY <1>6, <1>8, <1>9

-----------------------------------------------------------------------------
(* The books *)

\* What the books do in no step of theirs.
LEMMA BooksSame == UNCHANGED books => UNCHANGED RM!vars
BY DEF books, RM!vars, RM!memory

\* A sale leaves what it did not sell, and every other position alone.
LEMMA ExitShrinks ==
  ASSUME RM!TypeOK, NEW m \in Markets, NEW k \in 1 .. openPositions[m].quantity, NEW x,
         RM!RecordExit(m, k, x)
  PROVE  /\ \A n \in Markets \ {m} : openPositions'[n] = openPositions[n]
         /\ openPositions'[m].quantity = openPositions[m].quantity - k
         /\ openPositions'[m].quantity > 0 =>
              openPositions'[m] = [openPositions[m] EXCEPT !.quantity = @ - k]
         /\ alive' = alive
<1>1. /\ openPositions' = [openPositions EXCEPT ![m] = RM!Shrunk(@, k)]
      /\ alive' = alive
  BY DEF RM!RecordExit
<1>2. openPositions \in [Markets -> RM!Position] /\ openPositions[m] \in RM!Position
  BY DEF RM!TypeOK
<1>3. openPositions[m].quantity \in Nat
  BY <1>2 DEF RM!Position
<1>4. openPositions'[m] = RM!Shrunk(openPositions[m], k)
  BY <1>1, <1>2
<1>5. RM!Shrunk(openPositions[m], k).quantity = openPositions[m].quantity - k
  BY <1>2, <1>3 DEF RM!Shrunk, RM!NoPosition, RM!Position
<1>6. openPositions[m].quantity - k > 0 =>
        RM!Shrunk(openPositions[m], k) = [openPositions[m] EXCEPT !.quantity = @ - k]
  BY <1>3 DEF RM!Shrunk
<1> QED
  BY <1>1, <1>2, <1>4, <1>5, <1>6

\* A purchase is a new position.
LEMMA EntryTracks ==
  ASSUME RM!TypeOK, NEW m \in Markets, NEW side, NEW k, NEW price,
         RM!RecordEntry(m, side, k, price)
  PROVE  /\ \A n \in Markets \ {m} : openPositions'[n] = openPositions[n]
         /\ openPositions'[m] = [side |-> side, quantity |-> k, entryPrice |-> price]
         /\ alive' = alive
BY DEF RM!RecordEntry, RM!TypeOK

\* A settlement value is an exit price.
LEMMA ExitPricesOfSettlement ==
  0 \in RM!ExitPrices /\ Payout \in RM!ExitPrices /\ 0 .. Payout = RM!ExitPrices
BY Numbers DEF RM!ExitPrices

\* The quantities the bot records are quantities of the books.
LEMMA QuantityOfPosition ==
  ASSUME RM!TypeOK, PositionsWithinBudget, NEW m \in Markets,
         NEW k \in 1 .. openPositions[m].quantity
  PROVE  k \in Quantities
<1>1. openPositions[m].quantity \in Nat /\ openPositions[m].quantity <= MAX_TRADE_DOLLARS
  BY DEF RM!TypeOK, RM!Position, PositionsWithinBudget
<1> QED
  BY <1>1, Numbers

\* The exits of both passes and of a settled market are the protocol's.
LEMMA SettlementFollows ==
  ASSUME IInv, NEW m \in Markets, ReconcileSettled(m)
  PROVE  /\ RM!Next
         /\ RM!Tracked(m)
         /\ \E x \in RM!ExitPrices : RM!RecordExit(m, openPositions[m].quantity, x)
         /\ openPositions[m].quantity \in 1 .. openPositions[m].quantity
<1> DEFINE q == openPositions[m].quantity
           x == IF status[m] = openPositions[m].side THEN Payout ELSE 0
<1>1. RM!TypeOK /\ PositionsWithinBudget
  BY DEF IInv, TypeOK, OrderInv
<1>2. m \in RM!TrackedMarkets /\ RM!Tracked(m) /\ alive
  BY DEF ReconcileSettled, IInv, OrderInv, PassesWalkPositions, BooksAlive, RM!TrackedMarkets
<1>3. q \in 1 .. q
  BY <1>1, <1>2 DEF RM!Tracked, RM!TypeOK, RM!Position
<1>4. q \in Quantities
  <2> HIDE DEF q
  <2>1. q \in 1 .. openPositions[m].quantity
    BY <1>3 DEF q
  <2> QED BY <1>1, <2>1, QuantityOfPosition
<1>5. x \in RM!ExitPrices /\ RM!RecordExit(m, q, x)
  BY ExitPricesOfSettlement DEF ReconcileSettled
<1> HIDE DEF x
<1>6. RM!Exit(m, q, x)
  BY <1>2, <1>3, <1>5 DEF RM!Exit
<1> QED
  BY <1>2, <1>3, <1>4, <1>5, <1>6 DEF RM!Next

LEMMA SaleFollows ==
  ASSUME IInv, RecordSell
  PROVE  \/ UNCHANGED books
         \/ /\ response.fill \in 1 .. openPositions[order.market].quantity
            /\ response.price \in RM!ExitPrices
            /\ RM!RecordExit(order.market, response.fill, response.price)
            /\ RM!Next
<1>1. /\ RM!TypeOK /\ PositionsWithinBudget /\ alive
      /\ order.market \in Markets /\ order.quantity \in 1 .. openPositions[order.market].quantity
      /\ response.fill <= order.quantity /\ response.fill \in Nat /\ response.price \in 0 .. Payout
  BY DEF RecordSell, IInv, TypeOK, OrderInv, BooksAlive, SaleInHand
<1>2. CASE response.fill > 0 /\ RM!RecordExit(order.market, response.fill, response.price)
  <2>1. openPositions[order.market].quantity \in Nat
    BY <1>1 DEF RM!TypeOK, RM!Position
  <2>2. response.fill \in 1 .. openPositions[order.market].quantity
    BY <1>1, <1>2, <2>1
  <2>3. response.fill \in Quantities /\ response.price \in RM!ExitPrices
    BY <1>1, <2>2, QuantityOfPosition, ExitPricesOfSettlement
  <2>4. RM!Exit(order.market, response.fill, response.price)
    BY <1>1, <1>2, <2>2 DEF RM!Exit
  <2> QED
    BY <1>1, <1>2, <2>2, <2>3, <2>4 DEF RM!Next
<1> QED
  BY <1>2 DEF RecordSell

LEMMA PurchaseFollows ==
  ASSUME IInv, RecordBuy
  PROVE  \/ UNCHANGED books
         \/ /\ response.fill \in 1 .. MAX_TRADE_DOLLARS
            /\ RM!RecordEntry(order.market, order.side, response.fill, response.price)
            /\ RM!Next
<1>1. /\ alive /\ cachedNow # RM!NoDay /\ today = cachedNow /\ ~ RM!new_entries_blocked
      /\ order.market \in Markets /\ order.side \in Sides /\ ~ RM!Tracked(order.market)
      /\ response.fill <= MAX_TRADE_DOLLARS /\ response.fill \in Nat
      /\ response.fill > 0 => response.price \in RM!Prices
  BY DEF RecordBuy, IInv, TypeOK, OrderInv, BooksAlive, PurchaseInHand
<1>2. CASE /\ response.fill > 0
           /\ RM!RecordEntry(order.market, order.side, response.fill, response.price)
  <2>1. response.fill \in 1 .. MAX_TRADE_DOLLARS /\ response.fill \in Quantities
    BY <1>1, <1>2, Numbers
  <2>2. RM!Enter(order.market, order.side, response.fill, response.price)
    BY <1>1, <1>2 DEF RM!Enter
  <2> QED
    BY <1>1, <1>2, <2>1, <2>2 DEF RM!Next
<1> QED
  BY <1>2 DEF RecordBuy

\* Every step of the bot, its operator and its surroundings is a step of the
\* risk manager's protocol, or does not touch the books.
LEMMA BooksStep ==
  ASSUME IInv, [Next]_vars
  PROVE  [RM!Next]_RM!vars
<1>a. BooksAlive
  BY DEF IInv, OrderInv
<1>b. ASSUME alive, RM!GetCurrentDatetime \/ RM!ResetDailyIfNeeded \/ RM!EndCycle
      PROVE  RM!Next
  BY <1>b DEF RM!Next
<1>1. CASE BeginCycle
  <2>1. UNCHANGED books \/ RM!ResetDailyIfNeeded
    BY <1>1 DEF BeginCycle
  <2> QED
    BY <1>1, <1>a, <1>b, <2>1, BooksSame DEF BeginCycle, BooksAlive
<1>2. CASE Fetch \/ FetchFails \/ ChooseSignals \/ CycleRaises \/ BeginEntries \/ BeginSeries
           \/ EntriesDone \/ CheckHeld \/ CheckHeldFails \/ SubmitSell \/ PassRaises
           \/ SaleUnrecorded \/ Terminate \/ CreateStopFile \/ RemoveStopFile \/ ExchangeStep
  <2>1. UNCHANGED books
    BY <1>2 DEF Fetch, FetchFails, ChooseSignals, CycleRaises, BeginEntries, BeginSeries,
                EntriesDone, CheckHeld, CheckHeldFails, SubmitSell, PassRaises,
                SaleUnrecorded, Terminate, CreateStopFile, RemoveStopFile, ExchangeStep
  <2> QED
    BY <2>1, BooksSame
<1>3. ASSUME NEW m \in Markets, KeepPosition(m) \/ DecideExit(m) \/ SeriesIdle(m) \/ SeriesExit(m)
      PROVE  [RM!Next]_RM!vars
  <2>1. /\ UNCHANGED books \/ RM!GetCurrentDatetime
        /\ pc # "down"
    BY <1>3 DEF KeepPosition, DecideExit, SeriesIdle, SeriesExit, InPass
  <2> QED
    BY <1>a, <1>b, <2>1, BooksSame DEF BooksAlive
<1>4. ASSUME NEW m \in Markets, SkipPosition(m) \/ ReconcileSettled(m)
      PROVE  [RM!Next]_RM!vars
  <2>1. SkipPosition(m) => UNCHANGED books
    BY DEF SkipPosition
  <2> QED
    BY <1>4, <2>1, SettlementFollows, BooksSame
<1>5. ASSUME NEW m \in Markets, NEW price, NEW size,
             RefuseEntry(m, price, size) \/ SeriesRefuse(m, price, size)
      PROVE  [RM!Next]_RM!vars
  <2>1. RM!ResetDailyIfNeeded /\ pc # "down"
    BY <1>5 DEF RefuseEntry, SeriesRefuse
  <2> QED
    BY <1>a, <1>b, <2>1 DEF BooksAlive
<1>6. ASSUME NEW m \in Markets, NEW side, NEW price, NEW size,
             SubmitBuy(m, side, price, size) \/ SeriesEnter(m, side, price, size)
      PROVE  [RM!Next]_RM!vars
  <2>1. RM!ResetDailyIfNeeded /\ pc # "down"
    BY <1>6 DEF SubmitBuy, SeriesEnter, PlaceBuy
  <2> QED
    BY <1>a, <1>b, <2>1 DEF BooksAlive
<1>7. CASE RecordSell \/ RecordBuy
  BY <1>7, SaleFollows, PurchaseFollows, BooksSame
<1>8. CASE FinishCycle
  <2>1. RM!EndCycle /\ pc # "down"
    BY <1>8 DEF FinishCycle
  <2> QED
    BY <1>a, <1>b, <2>1 DEF BooksAlive
<1>9. CASE Shutdown \/ Crash \/ Start \/ NextDay
  <2>1. RM!Stop \/ RM!Crash \/ RM!Start \/ RM!NextDay
    BY <1>9 DEF Shutdown, Crash, Start, NextDay
  <2> QED
    BY <2>1 DEF RM!Next
<1>10. ASSUME NEW m \in Markets, NEW n, NEW price, ManualTrade(m, n, price)
       PROVE  [RM!Next]_RM!vars
  <2>1. UNCHANGED books
    BY <1>10 DEF ManualTrade
  <2> QED
    BY <2>1, BooksSame
<1>11. CASE UNCHANGED vars
  BY <1>11, BooksSame DEF vars
<1> QED
  BY <1>1, <1>2, <1>3, <1>4, <1>5, <1>6, <1>7, <1>8, <1>9, <1>10, <1>11
  DEF Next, BotStep, Environment

\* The books of TradingCycle are the ones RiskManagerProofs is about.
LEMMA SameBooks ==
  /\ RM!TypeOK <=> RMP!TypeOK
  /\ RM!Init <=> RMP!Init
  /\ [RM!Next]_RM!vars <=> [RMP!Next]_RMP!vars
<1>1. RM!Init <=> RMP!Init
  BY DEF RM!Init, RMP!Init, RM!NoDay, RMP!NoDay, RM!NoPosition, RMP!NoPosition,
         RM!NoLog, RMP!NoLog,
         RM!Days, RMP!Days, RM!NoRows, RMP!NoRows
<1>2. RM!vars = RMP!vars
  BY DEF RM!vars, RMP!vars, RM!memory, RMP!memory
<1>3. RM!Start <=> RMP!Start
  BY DEF RM!Start, RMP!Start, RM!NoRows, RMP!NoRows, RM!NoPosition, RMP!NoPosition,
         RM!NoDay, RMP!NoDay, RM!NoLog, RMP!NoLog, RM!Days, RMP!Days
<1>4. RM!GetCurrentDatetime <=> RMP!GetCurrentDatetime
  BY DEF RM!GetCurrentDatetime, RMP!GetCurrentDatetime, RM!Now, RMP!Now, RM!NoDay,
         RMP!NoDay
<1>5. RM!ResetDailyIfNeeded <=> RMP!ResetDailyIfNeeded
  BY DEF RM!ResetDailyIfNeeded, RMP!ResetDailyIfNeeded, RM!Now, RMP!Now, RM!NoDay,
         RMP!NoDay, RM!CountToday, RMP!CountToday, RM!PnlToday, RMP!PnlToday
<1>6. RM!EndCycle <=> RMP!EndCycle
  BY DEF RM!EndCycle, RMP!EndCycle, RM!Flush, RMP!Flush, RM!FlushFails, RMP!FlushFails,
         RM!FirstRows, RMP!FirstRows, RM!Buffered, RMP!Buffered, RM!NoDay, RMP!NoDay,
         RM!NoLog, RMP!NoLog, RM!Days, RMP!Days, RM!MergeLogs, RMP!MergeLogs,
         RM!Plus, RMP!Plus, RM!NoRows, RMP!NoRows
<1>7. RM!Stop <=> RMP!Stop
  BY DEF RM!Stop, RMP!Stop, RM!MemoryGone, RMP!MemoryGone, RM!FlushFails, RMP!FlushFails,
         RM!FirstRows, RMP!FirstRows, RM!Buffered, RMP!Buffered, RM!NoPosition,
         RMP!NoPosition, RM!NoDay, RMP!NoDay, RM!NoLog, RMP!NoLog, RM!Days,
         RMP!Days, RM!MergeLogs, RMP!MergeLogs, RM!Plus, RMP!Plus, RM!NoRows,
         RMP!NoRows
<1>8. RM!Crash <=> RMP!Crash
  BY DEF RM!Crash, RMP!Crash, RM!MemoryGone, RMP!MemoryGone, RM!FlushFails, RMP!FlushFails,
         RM!FirstRows, RMP!FirstRows, RM!Buffered, RMP!Buffered, RM!NoPosition,
         RMP!NoPosition, RM!NoDay, RMP!NoDay, RM!NoLog, RMP!NoLog, RM!Days,
         RMP!Days, RM!MergeLogs, RMP!MergeLogs, RM!Plus, RMP!Plus, RM!NoRows,
         RMP!NoRows
<1>9. RM!NextDay <=> RMP!NextDay
  BY DEF RM!NextDay, RMP!NextDay, RM!memory, RMP!memory
<1>10. ASSUME NEW m, NEW a, NEW b, NEW c
       PROVE  RM!Enter(m, a, b, c) <=> RMP!Enter(m, a, b, c)
  BY DEF RM!Enter, RMP!Enter, RM!Tracked, RMP!Tracked, RM!new_entries_blocked,
         RMP!new_entries_blocked, RM!RecordEntry, RMP!RecordEntry, RM!BufferRow, RMP!BufferRow,
         RM!FirstRows, RMP!FirstRows, RM!Buffered, RMP!Buffered, RM!NoLog, RMP!NoLog,
         RM!Days, RMP!Days, RM!NoRows, RMP!NoRows, RM!AddRows,
         RMP!AddRows, RM!Plus, RMP!Plus, RM!Now, RMP!Now, RM!NoDay, RMP!NoDay,
         RM!CountToday, RMP!CountToday, RM!PnlToday, RMP!PnlToday
<1>11. ASSUME NEW m, NEW a, NEW b
       PROVE  RM!Exit(m, a, b) <=> RMP!Exit(m, a, b)
  BY DEF RM!Exit, RMP!Exit, RM!RecordExit, RMP!RecordExit, RM!BufferRow, RMP!BufferRow,
         RM!FirstRows, RMP!FirstRows, RM!Buffered, RMP!Buffered, RM!NoLog, RMP!NoLog,
         RM!Days, RMP!Days, RM!NoRows, RMP!NoRows, RM!AddRows, RMP!AddRows,
         RM!Plus, RMP!Plus, RM!Now, RMP!Now, RM!NoDay, RMP!NoDay, RM!CountToday,
         RMP!CountToday, RM!PnlToday, RMP!PnlToday, RM!compute_pnl_cents,
         RMP!compute_pnl_cents, RM!Shrunk, RMP!Shrunk, RM!NoPosition, RMP!NoPosition
<1>12. RM!Next <=> RMP!Next
  BY <1>3, <1>4, <1>5, <1>6, <1>7, <1>8, <1>9, <1>10, <1>11 DEF RM!Next, RMP!Next,
         RM!Prices, RMP!Prices, RM!ExitPrices, RMP!ExitPrices
<1>13. [RM!Next]_RM!vars <=> [RMP!Next]_RMP!vars
  BY <1>12 DEF RM!vars, RMP!vars, RM!memory, RMP!memory
<1>14. RM!TypeOK <=> RMP!TypeOK
  BY DEF RM!TypeOK, RMP!TypeOK, RM!Days, RMP!Days, RM!NoDay, RMP!NoDay,
         RM!Position, RMP!Position, RM!Log, RMP!Log, RM!Rows, RMP!Rows
<1> QED
  BY <1>1, <1>13, <1>14

\* The assumptions of the books, in their own module's words.
LEMMA BooksAssumed == RMP!ConfigAssumption /\ RMP!DiskAssumption
BY BooksAssumption
DEF RM!ConfigAssumption, RMP!ConfigAssumption, RM!DiskAssumption, RMP!DiskAssumption

\* The books keep their types.
LEMMA BooksTyped ==
  ASSUME IInv, [Next]_vars
  PROVE  RM!TypeOK'
<1>1. RM!TypeOK /\ [RM!Next]_RM!vars
  BY BooksStep DEF IInv, TypeOK
<1>2. RMP!TypeOK /\ [RMP!Next]_RMP!vars
  BY <1>1, SameBooks
<1>3. RMP!TypeOK'
  BY <1>2, BooksAssumed, RMP!NextTypeOK
<1>4. RM!TypeOK' <=> RMP!TypeOK'
  BY DEF RM!TypeOK, RMP!TypeOK, RM!Days, RMP!Days, RM!NoDay, RMP!NoDay,
         RM!Position, RMP!Position, RM!Log, RMP!Log, RM!Rows, RMP!Rows
<1> QED
  BY <1>3, <1>4

-----------------------------------------------------------------------------
(* The order in hand, step by step *)

\* Between orders nothing is in hand.
LEMMA NothingInHand ==
  pc' \notin {"checkHeld", "sell", "sold", "bought"} => SaleInHand' /\ PurchaseInHand'
BY DEF SaleInHand, PurchaseInHand

\* What others do, the calendar included, leaves the order in hand as good as
\* it was.
LEMMA HandKept ==
  ASSUME OrderInv,
         UNCHANGED <<pc, todo, order, response, openPositions, alive, cachedNow, today,
                     dailyTradeCount, dailyRealizedPnl, tradesInCurrentWindow>>
  PROVE  OrderInv'
<1>1. \A m : RM!Tracked(m)' = RM!Tracked(m)
  BY DEF RM!Tracked
<1>2. (RM!TrackedMarkets)' = RM!TrackedMarkets
  BY DEF RM!TrackedMarkets, RM!Tracked
<1>3. cachedNow # RM!NoDay => (RM!Now)' = RM!Now
  BY DEF RM!Now
<1>4. cachedNow # RM!NoDay => (RM!new_entries_blocked)' = RM!new_entries_blocked
  BY <1>3 DEF RM!new_entries_blocked, RM!CountToday, RM!PnlToday
<1>5. PurchaseInHand'
  BY <1>1, <1>4 DEF OrderInv, PurchaseInHand
<1>6. SaleInHand'
  BY <1>2 DEF OrderInv, SaleInHand
<1> QED
  BY <1>2, <1>5, <1>6 DEF OrderInv, BooksAlive, PassesWalkPositions, PositionsWithinBudget

\* An exit keeps the positions within the budget, and every other market tracked.
LEMMA ExitKeeps ==
  ASSUME RM!TypeOK, PositionsWithinBudget,
         NEW m \in Markets, NEW k \in 1 .. openPositions[m].quantity, NEW x,
         RM!RecordExit(m, k, x), todo \subseteq RM!TrackedMarkets
  PROVE  PositionsWithinBudget' /\ todo \ {m} \subseteq (RM!TrackedMarkets)'
<1>1. /\ \A n \in Markets \ {m} : openPositions'[n] = openPositions[n]
      /\ openPositions'[m].quantity = openPositions[m].quantity - k
  BY ExitShrinks
<1>2. openPositions[m].quantity \in Nat /\ MAX_TRADE_DOLLARS \in Nat
  BY Numbers DEF RM!TypeOK, RM!Position
<1>3. PositionsWithinBudget'
  BY <1>1, <1>2 DEF PositionsWithinBudget
<1>4. todo \ {m} \subseteq (RM!TrackedMarkets)'
  BY <1>1 DEF RM!TrackedMarkets, RM!Tracked
<1> QED
  BY <1>3, <1>4

\* The empty books.
LEMMA NoPositions ==
  openPositions' = [m \in Markets |-> RM!NoPosition] => PositionsWithinBudget'
BY Numbers DEF PositionsWithinBudget, RM!NoPosition

\* A sale chosen, whatever pass it is in.
LEMMA PlaceSellKeeps ==
  ASSUME IInv, NEW m \in Markets, RM!Tracked(m), PlaceSell(m),
         pc \in {"exits", "reversals", "series"},
         UNCHANGED <<openPositions, todo, alive>>
  PROVE  HandTyped' /\ OrderInv'
<1>1. HandTyped' /\ SaleInHand' /\ pc' \in {"end", "sold", "checkHeld"}
  BY PlaceSellInHand, TypeParts DEF IInv, OrderInv, PassesWalkPositions
<1>2. PurchaseInHand' /\ PassesWalkPositions'
  BY <1>1 DEF PurchaseInHand, PassesWalkPositions
<1>3. BooksAlive' /\ PositionsWithinBudget'
  BY <1>1 DEF IInv, OrderInv, BooksAlive, PositionsWithinBudget
<1> QED
  BY <1>1, <1>2, <1>3 DEF OrderInv

\* Every step keeps the account's types and what holds of the order in hand.
LEMMA OrderStep ==
  ASSUME IInv, Next
  PROVE  AccountTyped' /\ HandTyped' /\ OrderInv'
<1>t. /\ RM!TypeOK /\ AccountTyped /\ ControlTyped /\ CycleTyped /\ HandTyped
      /\ WindowsTyped /\ OperatorTyped
  BY TypeParts DEF IInv
<1>o. /\ OrderInv /\ BooksAlive /\ PassesWalkPositions /\ PositionsWithinBudget
      /\ SaleInHand /\ PurchaseInHand
  BY DEF IInv, OrderInv
<1>h. ASSUME UNCHANGED <<order, response>>
      PROVE  HandTyped'
  BY <1>t, <1>h DEF HandTyped
<1>a. ASSUME UNCHANGED exchange
      PROVE  AccountTyped'
  BY <1>t, <1>a DEF exchange, AccountTyped
<1>e. ASSUME order' = NoOrder, response' = NoResponse
      PROVE  HandTyped'
  BY <1>e, EmptyLocals DEF HandTyped
<1>u. ASSUME UNCHANGED books
      PROVE  /\ UNCHANGED <<openPositions, alive, cachedNow, today,
                            dailyTradeCount, dailyRealizedPnl>>
             /\ (RM!TrackedMarkets)' = RM!TrackedMarkets /\ PositionsWithinBudget'
  BY <1>u, <1>o DEF books, RM!TrackedMarkets, RM!Tracked, PositionsWithinBudget
<1>q. ASSUME UNCHANGED <<openPositions, alive, pc>>, todo' \subseteq todo,
             pc \in {"exits", "reversals", "entries", "series"}
      PROVE  OrderInv'
  <2>1. PassesWalkPositions' /\ PositionsWithinBudget' /\ BooksAlive'
    BY <1>q, <1>o DEF PassesWalkPositions, PositionsWithinBudget, BooksAlive,
                      RM!TrackedMarkets, RM!Tracked
  <2> QED
    BY <1>q, <2>1, NothingInHand DEF OrderInv
<1>p. ASSUME UNCHANGED <<openPositions, alive>>, pc # "down",
             pc' \in {"idle", "fetch", "entries", "series", "end"}
      PROVE  OrderInv'
  <2>1. PassesWalkPositions' /\ PositionsWithinBudget' /\ BooksAlive'
    BY <1>p, <1>o DEF PassesWalkPositions, PositionsWithinBudget, BooksAlive
  <2> QED
    BY <1>p, <2>1, NothingInHand DEF OrderInv
<1>1. CASE BeginCycle
  <2>1. /\ UNCHANGED <<openPositions, alive>> /\ pc # "down" /\ pc' \in {"fetch", "end"}
        /\ UNCHANGED <<order, response, exchange>>
    BY <1>1, <1>t, <1>u, ClockIsRead DEF BeginCycle
  <2> QED
    BY <2>1, <1>a, <1>h, <1>p
<1>2. CASE Fetch
  <2>1. /\ UNCHANGED <<order, response, exchange, books>> /\ pc' = "exits" /\ pc # "down"
        /\ todo' = RM!TrackedMarkets
    BY <1>2 DEF Fetch
  <2>2. PassesWalkPositions' /\ BooksAlive'
    BY <2>1, <1>u, <1>o DEF PassesWalkPositions, BooksAlive
  <2> QED
    BY <2>1, <2>2, <1>a, <1>h, <1>u, NothingInHand DEF OrderInv
<1>3. CASE FetchFails \/ CycleRaises \/ EntriesDone \/ BeginEntries \/ BeginSeries
  <2>1. /\ UNCHANGED <<order, response, exchange, books>> /\ pc # "down"
        /\ pc' \in {"end", "entries", "series"}
    BY <1>3 DEF FetchFails, CycleRaises, EntriesDone, BeginEntries, BeginSeries, locals
  <2> QED
    BY <2>1, <1>a, <1>h, <1>u, <1>p
<1>4. CASE ChooseSignals
  <2>1. /\ UNCHANGED <<order, response, exchange, books>> /\ pc # "down" /\ pc' = "reversals"
        /\ todo' \subseteq RM!TrackedMarkets
    BY <1>4 DEF ChooseSignals
  <2>2. PassesWalkPositions' /\ BooksAlive'
    BY <2>1, <1>u, <1>o DEF PassesWalkPositions, BooksAlive
  <2> QED
    BY <2>1, <2>2, <1>a, <1>h, <1>u, NothingInHand DEF OrderInv
<1>5. CASE PassRaises
  <2>1. /\ UNCHANGED <<order, response, exchange, books, pc>> /\ todo' \subseteq todo
        /\ pc \in {"exits", "reversals"}
    BY <1>5 DEF PassRaises, InPass, control
  <2> QED
    BY <2>1, <1>a, <1>h, <1>u, <1>q
<1>23. CASE SaleUnrecorded
  <2>1. /\ UNCHANGED <<exchange, books>> /\ order' = NoOrder /\ response' = NoResponse
        /\ pc = "sold" /\ todo' = {} /\ pc' \in {"exits", "reversals", "end"}
    BY <1>23, <1>o DEF SaleUnrecorded, GoOn, SaleInHand
  <2>2. PassesWalkPositions' /\ BooksAlive'
    BY <2>1, <1>u, <1>o DEF PassesWalkPositions, BooksAlive
  <2> QED
    BY <2>1, <2>2, <1>a, <1>e, <1>u, NothingInHand DEF OrderInv
<1>6. ASSUME NEW m \in Markets, KeepPosition(m) \/ SkipPosition(m) \/ SeriesIdle(m)
      PROVE  AccountTyped' /\ HandTyped' /\ OrderInv'
  <2>1. /\ UNCHANGED <<order, response, exchange, pc>> /\ todo' \subseteq todo
        /\ pc \in {"exits", "reversals", "series"}
        /\ UNCHANGED books \/ RM!GetCurrentDatetime
    BY <1>6 DEF KeepPosition, SkipPosition, SeriesIdle, InPass, control
  <2>2. UNCHANGED <<openPositions, alive>>
    BY <2>1, <1>t, <1>u, ClockIsRead
  <2> QED
    BY <2>1, <2>2, <1>a, <1>h, <1>q
<1>7. ASSUME NEW m \in Markets, NEW price, NEW size,
             RefuseEntry(m, price, size) \/ SeriesRefuse(m, price, size)
      PROVE  AccountTyped' /\ HandTyped' /\ OrderInv'
  <2>1. /\ UNCHANGED <<order, response, exchange, pc>> /\ todo' \subseteq todo
        /\ pc \in {"entries", "series"} /\ RM!ResetDailyIfNeeded
    BY <1>7 DEF RefuseEntry, SeriesRefuse, control
  <2>2. UNCHANGED <<openPositions, alive>>
    BY <2>1, <1>t, ClockIsRead
  <2> QED
    BY <2>1, <2>2, <1>a, <1>h, <1>q
<1>8. ASSUME NEW m \in Markets, DecideExit(m) \/ SeriesExit(m)
      PROVE  AccountTyped' /\ HandTyped' /\ OrderInv'
  <2>1. /\ PlaceSell(m) /\ UNCHANGED <<exchange, todo>>
        /\ pc \in {"exits", "reversals", "series"}
        /\ UNCHANGED books \/ RM!GetCurrentDatetime
        /\ pc = "series" => RM!Tracked(m)
        /\ pc # "series" => m \in todo
    BY <1>8 DEF DecideExit, SeriesExit, InPass
  <2>2. UNCHANGED <<openPositions, alive>>
    BY <2>1, <1>t, <1>u, ClockIsRead
  <2>3. RM!Tracked(m)
    BY <2>1, <1>o DEF PassesWalkPositions, RM!TrackedMarkets
  <2> QED
    BY <2>1, <2>2, <2>3, <1>a, PlaceSellKeeps
<1>9. ASSUME NEW m \in Markets, ReconcileSettled(m)
      PROVE  AccountTyped' /\ HandTyped' /\ OrderInv'
  <2>1. /\ UNCHANGED <<order, response, exchange, pc>> /\ todo' = todo \ {m} /\ pc = "exits"
        /\ todo \subseteq RM!TrackedMarkets
    BY <1>9, <1>o DEF ReconcileSettled, control, PassesWalkPositions
  <2>2. PICK x : RM!RecordExit(m, openPositions[m].quantity, x)
    BY <1>9, SettlementFollows
  <2>3. openPositions[m].quantity \in 1 .. openPositions[m].quantity
    BY <1>9, SettlementFollows
  <2>4. PositionsWithinBudget' /\ todo \ {m} \subseteq (RM!TrackedMarkets)'
    BY <2>1, <2>2, <2>3, <1>t, <1>o, ExitKeeps
  <2>5. BooksAlive' /\ PassesWalkPositions'
    BY <2>1, <2>2, <2>4, <1>o DEF RM!RecordExit, BooksAlive, PassesWalkPositions
  <2> QED
    BY <2>1, <2>4, <2>5, <1>a, <1>h, NothingInHand DEF OrderInv
<1>10. CASE CheckHeld
  <2>1. /\ UNCHANGED <<response, exchange, books>> /\ pc = "checkHeld"
    BY <1>10 DEF CheckHeld
  <2>2. CASE order' = NoOrder /\ todo' = todo \ {order.market} /\ pc' = order.pass
    <3>1. PassesWalkPositions' /\ BooksAlive' /\ pc' \in {"exits", "reversals", "series"}
      BY <2>1, <2>2, <1>u, <1>o DEF PassesWalkPositions, BooksAlive, SaleInHand
    <3>2. HandTyped'
      BY <1>t, <2>1, <2>2, EmptyLocals DEF HandTyped
    <3> QED
      BY <3>1, <3>2, <2>1, <1>a, <1>u, NothingInHand DEF OrderInv
  <2>3. CASE /\ EX!HeldOnSide(order.market, order.side) # 0
             /\ order' = [order EXCEPT
                  !.quantity = EX!Least(@, EX!HeldOnSide(order.market, order.side)),
                  !.clamped = EX!HeldOnSide(order.market, order.side) < order.quantity]
             /\ todo' = todo /\ pc' = "sell"
    <3> DEFINE onSide == EX!HeldOnSide(order.market, order.side)
               left == EX!Least(order.quantity, onSide)
               less == onSide < order.quantity
    <3>1. order.market \in Markets /\ order \in Orders /\ order.quantity \in Nat /\ 1 <= order.quantity
      BY <2>1, <1>t, <1>o DEF SaleInHand, HandTyped, Orders
    <3>2. onSide \in Nat
      BY <3>1, <1>t DEF EX!HeldOnSide, EX!Signed, EX!Abs, AccountTyped
    <3>3. left \in Nat /\ 1 <= left /\ left <= order.quantity
      BY <2>3, <3>1, <3>2 DEF EX!Least
    <3>4. order' = [order EXCEPT !.quantity = left, !.clamped = less] /\ less \in BOOLEAN
      BY <2>3
    <3> HIDE DEF left, onSide, less
    <3>5. /\ order'.market = order.market /\ order'.side = order.side
          /\ order'.limit = order.limit /\ order'.pass = order.pass /\ order'.quantity = left
          /\ order' \in Orders
      BY <3>1, <3>3, <3>4 DEF Orders
    <3>6. openPositions[order.market].quantity \in Nat
      BY <3>1, <1>t DEF RM!TypeOK, RM!Position
    <3>7. SaleInHand'
      BY <2>1, <2>3, <3>3, <3>5, <3>6, <3>1, <1>o, <1>u DEF SaleInHand
    <3>8. PurchaseInHand' /\ PassesWalkPositions' /\ BooksAlive'
      BY <2>1, <2>3, <1>o, <1>u DEF PurchaseInHand, PassesWalkPositions, BooksAlive
    <3>9. HandTyped'
      BY <2>1, <3>5, <1>t DEF HandTyped
    <3> QED
      BY <2>1, <3>7, <3>8, <3>9, <1>a, <1>u DEF OrderInv
  <2> QED
    BY <1>10, <2>2, <2>3 DEF CheckHeld, GoOn
<1>11. CASE CheckHeldFails
  <2>1. UNCHANGED <<order, response, exchange, books>> /\ pc # "down" /\ pc' = "end"
    BY <1>11 DEF CheckHeldFails, HaltTrading, locals
  <2> QED
    BY <2>1, <1>a, <1>h, <1>u, <1>p
<1>12. CASE SubmitSell
  <2>1. AccountTyped' /\ HandTyped' /\ SaleInHand' /\ pc' = "sold"
    BY <1>12, <1>t, <1>o, SubmitSellInHand
  <2>2. UNCHANGED books /\ pc # "down"
    BY <1>12 DEF SubmitSell
  <2>3. PurchaseInHand' /\ PassesWalkPositions' /\ BooksAlive'
    BY <2>1, <2>2, <1>o, <1>u DEF PurchaseInHand, PassesWalkPositions, BooksAlive
  <2> QED
    BY <2>1, <2>2, <2>3, <1>u DEF OrderInv
<1>13. CASE RecordSell
  <2>1. /\ UNCHANGED exchange /\ order' = NoOrder /\ response' = NoResponse /\ pc = "sold"
    BY <1>13 DEF RecordSell
  <2>2. \/ pc' = "end" /\ UNCHANGED books
        \/ pc' = order.pass /\ todo' = todo \ {order.market}
    BY <1>13 DEF RecordSell, HaltTrading, GoOn
  <2>3. order.market \in Markets /\ order.pass \in {"exits", "reversals", "series"}
    BY <2>1, <1>o DEF SaleInHand
  <2>4. /\ PositionsWithinBudget' /\ alive' = alive
        /\ todo \subseteq RM!TrackedMarkets => todo \ {order.market} \subseteq (RM!TrackedMarkets)'
    <3>1. CASE UNCHANGED books
      BY <3>1, <1>u
    <3>2. CASE /\ response.fill \in 1 .. openPositions[order.market].quantity
               /\ RM!RecordExit(order.market, response.fill, response.price)
      <4>1. /\ \A n \in Markets \ {order.market} : openPositions'[n] = openPositions[n]
            /\ openPositions'[order.market].quantity
                 = openPositions[order.market].quantity - response.fill
            /\ alive' = alive
        BY <3>2, <2>3, <1>t, ExitShrinks
      <4>2. openPositions[order.market].quantity \in Nat /\ MAX_TRADE_DOLLARS \in Nat
        BY <2>3, <1>t, Numbers DEF RM!TypeOK, RM!Position
      <4>3. PositionsWithinBudget'
        BY <3>2, <4>1, <4>2, <1>o DEF PositionsWithinBudget
      <4> QED
        BY <4>1, <4>3 DEF RM!TrackedMarkets, RM!Tracked
    <3> QED
      BY <1>13, <3>1, <3>2, SaleFollows
  <2>5. PassesWalkPositions' /\ BooksAlive'
    BY <2>1, <2>2, <2>3, <2>4, <1>o DEF PassesWalkPositions, BooksAlive, SaleInHand
  <2> QED
    BY <2>1, <2>2, <2>3, <2>4, <2>5, <1>a, <1>e, NothingInHand DEF OrderInv
<1>14. ASSUME NEW m \in Markets, NEW side \in Sides, NEW price \in EX!Prices,
              NEW size \in SignalSizes,
              SubmitBuy(m, side, price, size) \/ SeriesEnter(m, side, price, size)
       PROVE  AccountTyped' /\ HandTyped' /\ OrderInv'
  <2>1. PlaceBuy(m, side, price, size) /\ pc \in {"entries", "series"}
    BY <1>14 DEF SubmitBuy, SeriesEnter
  <2>2. pc = "series" => tradesInCurrentWindow'[SeriesOf(m)] < MAX_TRADES_PER_WINDOW
    <3>1. ASSUME SeriesEnter(m, side, price, size)
          PROVE  TradesIn(m) < MAX_TRADES_PER_WINDOW /\ RollWindow(m)
      BY <3>1 DEF SeriesEnter, MayEnter
    <3>2. RollWindow(m) => tradesInCurrentWindow'[SeriesOf(m)] = TradesIn(m)
      BY <1>t, SeriesOfMarket DEF RollWindow, WindowsTyped
    <3> QED
      BY <1>14, <3>1, <3>2 DEF SubmitBuy
  <2>3. AccountTyped' /\ HandTyped' /\ PurchaseInHand' /\ pc' \in {"end", "bought"}
    BY <2>1, <2>2, <1>t, PlaceBuyInHand
  <2>4. UNCHANGED <<alive, openPositions>>
    BY <2>1, <1>t, ClockIsRead DEF PlaceBuy
  <2>5. SaleInHand' /\ PassesWalkPositions' /\ PositionsWithinBudget' /\ BooksAlive'
    BY <2>1, <2>3, <2>4, <1>o
    DEF SaleInHand, PassesWalkPositions, PositionsWithinBudget, BooksAlive
  <2> QED
    BY <2>3, <2>5 DEF OrderInv
<1>15. CASE RecordBuy
  <2>1. /\ UNCHANGED exchange /\ order' = NoOrder /\ response' = NoResponse /\ pc = "bought"
    BY <1>15 DEF RecordBuy
  <2>2. pc' \in {"end", "entries", "series"}
    BY <1>15, <1>o DEF RecordBuy, HaltTrading, GoOn, PurchaseInHand
  <2>3. PositionsWithinBudget' /\ alive' = alive
    <3>1. CASE /\ response.fill \in 1 .. MAX_TRADE_DOLLARS
               /\ RM!RecordEntry(order.market, order.side, response.fill, response.price)
      <4>1. /\ \A n \in Markets \ {order.market} : openPositions'[n] = openPositions[n]
            /\ openPositions'[order.market].quantity = response.fill
            /\ alive' = alive
        <5>1. order.market \in Markets
          BY <2>1, <1>o DEF PurchaseInHand
        <5>2. /\ \A n \in Markets \ {order.market} : openPositions'[n] = openPositions[n]
              /\ openPositions'[order.market] = [side |-> order.side, quantity |-> response.fill,
                                                 entryPrice |-> response.price]
              /\ alive' = alive
          BY <3>1, <5>1, <1>t, EntryTracks
        <5> QED
          BY <5>2
      <4> QED
        BY <3>1, <4>1, <1>o, Numbers DEF PositionsWithinBudget
    <3> QED
      BY <1>15, <3>1, <1>u, PurchaseFollows
  <2>4. PassesWalkPositions' /\ BooksAlive'
    BY <2>1, <2>2, <2>3, <1>o DEF PassesWalkPositions, BooksAlive
  <2> QED
    BY <2>1, <2>2, <2>3, <2>4, <1>a, <1>e, NothingInHand DEF OrderInv
<1>16. CASE FinishCycle
  <2>1. /\ UNCHANGED <<openPositions, alive, exchange>> /\ pc # "down" /\ pc' = "idle"
        /\ order' = NoOrder /\ response' = NoResponse
    BY <1>16 DEF FinishCycle, RM!EndCycle, ClearLocals
  <2> QED
    BY <2>1, <1>a, <1>e, <1>p
<1>17. CASE Shutdown \/ Crash
  <2>1. /\ openPositions' = [m \in Markets |-> RM!NoPosition] /\ alive' = FALSE
        /\ order' = NoOrder /\ response' = NoResponse /\ pc' = "down" /\ UNCHANGED exchange
    BY <1>17 DEF Shutdown, Crash, Gone, ClearLocals, RM!Stop, RM!Crash, RM!MemoryGone
  <2>2. PassesWalkPositions' /\ BooksAlive' /\ PositionsWithinBudget'
    BY <2>1, NoPositions DEF PassesWalkPositions, BooksAlive
  <2> QED
    BY <2>1, <2>2, <1>a, <1>e, NothingInHand DEF OrderInv
<1>18. CASE Start
  <2>1. /\ openPositions' = [m \in Markets |-> RM!NoPosition] /\ alive' = TRUE
        /\ UNCHANGED <<order, response, exchange>> /\ pc' = "idle"
    BY <1>18 DEF Start, RM!Start, locals
  <2>2. PassesWalkPositions' /\ BooksAlive' /\ PositionsWithinBudget'
    BY <2>1, NoPositions DEF PassesWalkPositions, BooksAlive
  <2> QED
    BY <2>1, <2>2, <1>a, <1>h, NothingInHand DEF OrderInv
<1>19. CASE Terminate \/ CreateStopFile \/ RemoveStopFile
  <2>1. UNCHANGED <<books, exchange, locals, windows, pc>>
    BY <1>19 DEF Terminate, CreateStopFile, RemoveStopFile, control
  <2> QED
    BY <2>1, <1>o, <1>a, <1>h, HandKept DEF books, locals, windows
<1>20. ASSUME NEW m \in Markets, NEW n \in Int, NEW price \in EX!Prices, ManualTrade(m, n, price)
       PROVE  AccountTyped' /\ HandTyped' /\ OrderInv'
  <2>1. UNCHANGED <<books, locals, windows, pc>> /\ EX!Trade(m, n, price)
    BY <1>20 DEF ManualTrade, control
  <2>2. price \in Nat
    BY Numbers DEF EX!Prices
  <2>3. AccountTyped'
    BY <2>1, <2>2, <1>t, TradeTyped
  <2> QED
    BY <2>1, <2>3, <1>o, <1>h, HandKept DEF books, locals, windows
<1>21. CASE ExchangeStep
  <2>1. UNCHANGED <<books, locals, windows, pc>>
    BY <1>21 DEF ExchangeStep, control
  <2>2. AccountTyped'
    <3>1. PICK m \in Markets :
            EX!OpenMarket(m) \/ EX!CloseMarket(m) \/ \E r \in {"yes", "no"} : EX!SettleMarket(m, r)
      BY <1>21 DEF ExchangeStep
    <3> QED
      BY <3>1, <1>t DEF EX!OpenMarket, EX!CloseMarket, EX!SettleMarket, EX!account, EX!Statuses,
                        AccountTyped
  <2> QED
    BY <2>1, <2>2, <1>o, <1>h, HandKept DEF books, locals, windows
<1>22. CASE NextDay
  <2>1. UNCHANGED <<exchange, locals, windows, pc, openPositions, alive, cachedNow, today,
                    dailyTradeCount, dailyRealizedPnl>>
    BY <1>22 DEF NextDay, RM!NextDay, RM!memory, control
  <2> QED
    BY <2>1, <1>o, <1>a, <1>h, HandKept DEF locals, windows
<1>n. \A q \in Quantities : q \in Int /\ -q \in Int
  BY BooksAssumption DEF RM!ConfigAssumption
<1> QED
  BY <1>1, <1>2, <1>3, <1>4, <1>5, <1>6, <1>7, <1>8, <1>9, <1>10, <1>11, <1>12, <1>13, <1>14,
     <1>15, <1>16, <1>17, <1>18, <1>19, <1>20, <1>21, <1>22, <1>23, <1>n
  DEF Next, BotStep, Environment

-----------------------------------------------------------------------------
(* The invariant holds *)

\* The entries counted for a window are no more than one window allows.
LEMMA RollTyped ==
  ASSUME WindowsTyped, NEW m \in Markets, RollWindow(m),
         UNCHANGED <<entryPlaced, lastTradeWindow>>,
         windowEntries' \in [Markets -> Nat]
  PROVE  WindowsTyped'
<1>1. SeriesOf(m) \in DOMAIN Windows
  BY SeriesOfMarket
<1>2. TradesIn(m) \in 0 .. MAX_TRADES_PER_WINDOW
  BY <1>1, Numbers DEF TradesIn, WindowsTyped
<1> QED
  BY <1>1, <1>2 DEF RollWindow, WindowsTyped

\* Counters start at zero.
LEMMA ZeroCounts ==
  /\ 0 \in 0 .. MAX_TRADES_PER_WINDOW /\ 0 \in 0 .. MaxStops /\ 0 \in 0 .. MaxManualTrades
  /\ 0 \in Nat
BY Numbers

\* A process that has not entered anything.
LEMMA NoEntriesTyped == NoEntries => WindowsTyped'
BY ZeroCounts DEF NoEntries, WindowsTyped

\* Every step keeps the types of the window counters.
LEMMA WindowsStep ==
  ASSUME IInv, Next
  PROVE  WindowsTyped'
<1>t. WindowsTyped /\ PurchaseInHand
  BY TypeParts DEF IInv, OrderInv
<1>u. UNCHANGED windows => WindowsTyped'
  BY <1>t DEF windows, WindowsTyped
<1>1. CASE \/ BeginCycle \/ Fetch \/ FetchFails \/ CheckHeld \/ CheckHeldFails \/ SubmitSell
           \/ RecordSell \/ PassRaises \/ SaleUnrecorded \/ ChooseSignals \/ CycleRaises \/ BeginEntries
           \/ BeginSeries \/ EntriesDone \/ Start \/ Terminate \/ CreateStopFile
           \/ RemoveStopFile \/ ExchangeStep \/ NextDay
  <2>1. UNCHANGED windows
    BY <1>1 DEF BeginCycle, Fetch, FetchFails, CheckHeld, CheckHeldFails, SubmitSell,
                RecordSell, PassRaises, SaleUnrecorded, ChooseSignals, CycleRaises, BeginEntries,
                BeginSeries, EntriesDone, Start, Terminate, CreateStopFile,
                RemoveStopFile, ExchangeStep, NextDay
  <2> QED
    BY <2>1, <1>u
<1>2. ASSUME NEW m \in Markets,
             KeepPosition(m) \/ SkipPosition(m) \/ DecideExit(m) \/ ReconcileSettled(m)
      PROVE  WindowsTyped'
  BY <1>2, <1>u DEF KeepPosition, SkipPosition, DecideExit, ReconcileSettled
<1>3. ASSUME NEW m \in Markets, NEW price, NEW size,
             SeriesIdle(m) \/ SeriesExit(m) \/ SeriesRefuse(m, price, size)
      PROVE  WindowsTyped'
  <2>1. RollWindow(m) /\ UNCHANGED <<entryPlaced, lastTradeWindow, windowEntries>>
    BY <1>3 DEF SeriesIdle, SeriesExit, SeriesRefuse
  <2> QED
    BY <2>1, <1>t, RollTyped DEF WindowsTyped
<1>4. ASSUME NEW m \in Markets, NEW side, NEW price, NEW size,
             RefuseEntry(m, price, size) \/ SubmitBuy(m, side, price, size)
      PROVE  WindowsTyped'
  BY <1>4, <1>u DEF RefuseEntry, SubmitBuy
<1>5. ASSUME NEW m \in Markets, NEW side, NEW price, NEW size, SeriesEnter(m, side, price, size)
      PROVE  WindowsTyped'
  <2>1. /\ RollWindow(m) /\ UNCHANGED <<entryPlaced, lastTradeWindow>>
        /\ \/ windowEntries' = windowEntries
           \/ windowEntries' = [windowEntries EXCEPT ![m] = @ + 1]
    BY <1>5 DEF SeriesEnter
  <2>2. windowEntries' \in [Markets -> Nat]
    BY <2>1, <1>t DEF WindowsTyped
  <2> QED
    BY <2>1, <2>2, <1>t, RollTyped
<1>6. CASE RecordBuy
  <2>1. CASE CountEntry(order.market) /\ order.pass = "series"
    <3>1. /\ order.market \in Markets
          /\ tradesInCurrentWindow[SeriesOf(order.market)] < MAX_TRADES_PER_WINDOW
      BY <1>6, <2>1, <1>t DEF RecordBuy, PurchaseInHand
    <3>2. SeriesOf(order.market) \in DOMAIN Windows
      BY <3>1, SeriesOfMarket
    <3>3. tradesInCurrentWindow[SeriesOf(order.market)] + 1 \in 0 .. MAX_TRADES_PER_WINDOW
      BY <3>1, <3>2, <1>t, Numbers DEF WindowsTyped
    <3> QED
      BY <2>1, <3>1, <3>2, <3>3, <1>t DEF CountEntry, WindowsTyped
  <2> QED
    BY <1>6, <2>1, <1>u DEF RecordBuy
<1>7. CASE FinishCycle
  BY <1>7, <1>t DEF FinishCycle, WindowsTyped
<1>8. CASE Shutdown \/ Crash
  <2>1. NoEntries
    BY <1>8 DEF Shutdown, Crash, Gone
  <2> QED
    BY <2>1, NoEntriesTyped
<1>9. ASSUME NEW m \in Markets, NEW n, NEW price, ManualTrade(m, n, price)
      PROVE  WindowsTyped'
  BY <1>9, <1>u DEF ManualTrade
<1> QED
  BY <1>1, <1>2, <1>3, <1>4, <1>5, <1>6, <1>7, <1>8, <1>9
  DEF Next, BotStep, Environment

\* There is no process, no account and no order.
LEMMA InitIInv == Init => IInv
<1> SUFFICES ASSUME Init
             PROVE  IInv
  OBVIOUS
<1>1. RM!TypeOK
  <2>1. RM!Init
    BY DEF Init
  <2> QED
    BY <2>1, SameBooks, BooksAssumed, RMP!InitTypeOK
<1>2. AccountTyped
  BY DEF Init, EX!Init, EX!Statuses, AccountTyped
<1>3. ControlTyped /\ OperatorTyped
  BY ZeroCounts DEF Init, ControlTyped, OperatorTyped
<1>4. CycleTyped /\ HandTyped
  BY EmptyLocals DEF Init, CycleTyped, HandTyped
<1>5. WindowsTyped
  BY ZeroCounts DEF Init, WindowsTyped
<1>6. OrderInv
  <2>1. BooksAlive /\ PassesWalkPositions /\ SaleInHand /\ PurchaseInHand
    BY DEF Init, RM!Init, BooksAlive, PassesWalkPositions, SaleInHand, PurchaseInHand
  <2>2. PositionsWithinBudget
    BY Numbers DEF Init, RM!Init, RM!NoPosition, PositionsWithinBudget
  <2> QED
    BY <2>1, <2>2 DEF OrderInv
<1> QED
  BY <1>1, <1>2, <1>3, <1>4, <1>5, <1>6, TypeParts DEF IInv

\* Every step keeps it.
LEMMA NextIInv == IInv /\ [Next]_vars => IInv'
<1> SUFFICES ASSUME IInv, [Next]_vars
             PROVE  IInv'
  OBVIOUS
<1>b. RM!TypeOK'
  BY BooksTyped
<1>t. /\ AccountTyped /\ ControlTyped /\ CycleTyped /\ HandTyped /\ WindowsTyped
      /\ OperatorTyped /\ OrderInv /\ SaleInHand /\ PurchaseInHand
  BY TypeParts DEF IInv, OrderInv
<1>1. CASE Next
  <2>1. AccountTyped' /\ HandTyped' /\ OrderInv'
    BY <1>1, OrderStep
  <2>2. ControlTyped' /\ OperatorTyped'
    BY <1>1, <1>t, ControlStep
  <2>3. CycleTyped'
    BY <1>1, <1>t, CycleStep
  <2>4. WindowsTyped'
    BY <1>1, WindowsStep
  <2> QED
    BY <1>b, <2>1, <2>2, <2>3, <2>4
    DEF IInv, TypeOK, AccountTyped, ControlTyped, CycleTyped, HandTyped, WindowsTyped,
        OperatorTyped
<1>2. CASE UNCHANGED vars
  <2>1. OrderInv'
    BY <1>2, <1>t, HandKept DEF vars, books, locals, control, windows
  <2>2. AccountTyped' /\ ControlTyped' /\ CycleTyped' /\ HandTyped' /\ WindowsTyped'
        /\ OperatorTyped'
    BY <1>2, <1>t
    DEF vars, exchange, control, locals, windows, operator,
        AccountTyped, ControlTyped, CycleTyped, HandTyped, WindowsTyped, OperatorTyped
  <2> QED
    BY <1>b, <2>1, <2>2
    DEF IInv, TypeOK, AccountTyped, ControlTyped, CycleTyped, HandTyped, WindowsTyped,
        OperatorTyped
<1> QED
  BY <1>1, <1>2

\* In every state of the bot the invariant holds.
LEMMA IInvHolds == Spec => []IInv
BY InitIInv, NextIInv, PTL DEF Spec

-----------------------------------------------------------------------------
(* The theorems *)

\* Every variable of the bot, the account and the operator has its type: in
\* particular a cost never becomes negative and no counter passes its limit,
\* whatever the loop of bot.py is interrupted by.
THEOREM TypeCorrect == Spec => []TypeOK
<1>1. IInv => TypeOK
  BY DEF IInv
<1> QED
  BY IInvHolds, <1>1, PTL

\* The loop of bot.py never leaves the protocol risk_manager.py relies on:
\* entries are only recorded for a market approved in the same cycle, with the
\* day rolled over, and exits are never larger than the position, although the
\* order travels between the approval and the record and anything may happen
\* meanwhile.
THEOREM BooksFollowed == Spec => FollowsBooks
<1>1. Init => RM!Init
  BY DEF Init
<1>2. IInv /\ [Next]_vars => [RM!Next]_RM!vars
  BY BooksStep
<1> QED
  BY IInvHolds, <1>1, <1>2, PTL DEF Spec, FollowsBooks, RM!Spec

\* MAX_DAILY_TRADES bounds what the whole bot enters on a UTC day, over all its
\* processes, but for the entries whose rows were lost with a process: the gate
\* of risk_manager.py as the loop of bot.py uses it, with writes of the log that
\* fail half-way and are repeated.
THEOREM DailyTradesOfTheBot ==
  ASSUME "read" \notin DiskFaults
  PROVE  Spec => []RM!DailyEntriesBounded
<1>1. RM!Spec => RMP!Spec
  BY SameBooks, PTL DEF RM!Spec, RMP!Spec
<1>2. RMP!Spec => []RMP!DailyEntriesBounded
  BY BooksAssumed, RMP!DailyTradesAreBounded
<1>3. RMP!DailyEntriesBounded <=> RM!DailyEntriesBounded
  BY DEF RM!DailyEntriesBounded, RMP!DailyEntriesBounded, RM!Days, RMP!Days
<1> QED
  BY BooksFollowed, <1>1, <1>2, <1>3, PTL DEF FollowsBooks

\* The whole bot stops entering at the daily loss limit, the losses of earlier
\* processes of the day that are on record included, as long as no write of the
\* log has failed.
THEOREM LossGateOfTheBot ==
  ASSUME "read" \notin DiskFaults
  PROVE  Spec => RM!LossGate
<1>1. RM!Spec => RMP!Spec
  BY SameBooks, PTL DEF RM!Spec, RMP!Spec
<1>2. RMP!Spec => RMP!LossGate
  BY BooksAssumed, RMP!LossGateHolds
<1>3. [failedWrites = 0 => RMP!EntriesWithinLosses]_RMP!vars
        <=> [failedWrites = 0 => RM!EntriesWithinLosses]_RM!vars
  BY DEF RM!EntriesWithinLosses, RMP!EntriesWithinLosses, RM!Days, RMP!Days,
         RM!vars, RMP!vars, RM!memory, RMP!memory
<1> QED
  BY BooksFollowed, <1>1, <1>2, <1>3, PTL DEF FollowsBooks, RM!LossGate, RMP!LossGate

-----------------------------------------------------------------------------
(* The STOP file *)

\* An order that has passed the gates and is not submitted yet is the only one
\* that can still reach the exchange.
StopInv ==
  /\ AtMostOneOrderAfterStop
  /\ ~ stopFile => afterStop = 0
  /\ pc \in {"checkHeld", "sell"} => afterStop = 0

\* A halt writes the file or leaves it as it is.
LEMMA HaltAfterStop == StopInv /\ OperatorTyped /\ HaltTrading => StopInv'
BY DEF HaltTrading, StopInv, AtMostOneOrderAfterStop, OperatorTyped

\* The gates let no order pass once the file exists.
LEMMA PlaceSellAfterStop ==
  ASSUME StopInv, OperatorTyped, NEW m \in Markets, PlaceSell(m)
  PROVE  StopInv'
<1>1. CASE HaltTrading
  BY <1>1, HaltAfterStop
<1>2. CASE GateCode = "PASSED" /\ UNCHANGED <<afterStop, stopFile>>
  <2>1. ~ stopFile
    BY <1>2 DEF GateCode
  <2> QED
    BY <1>2, <2>1 DEF StopInv, AtMostOneOrderAfterStop
<1> QED
  BY <1>1, <1>2 DEF PlaceSell, GoOn

LEMMA PlaceBuyAfterStop ==
  ASSUME StopInv, OperatorTyped, NEW m, NEW side, NEW price, NEW size, PlaceBuy(m, side, price, size)
  PROVE  StopInv'
<1>1. CASE HaltTrading
  BY <1>1, HaltAfterStop
<1>2. CASE /\ GateCode = "PASSED" /\ stopFile' = stopFile /\ pc' = "bought"
           /\ UNCHANGED afterStop \/ CountSubmission
  <2>1. ~ stopFile
    BY <1>2 DEF GateCode
  <2> QED
    BY <1>2, <2>1 DEF StopInv, AtMostOneOrderAfterStop, CountSubmission
<1> QED
  BY <1>1, <1>2 DEF PlaceBuy, GoOn

LEMMA InitStop == Init => StopInv
BY DEF Init, StopInv, AtMostOneOrderAfterStop

\* Every step: a submission is counted once, the file's coming and going resets
\* the count.
LEMMA NextStop == IInv /\ StopInv /\ [Next]_vars => StopInv'
<1> SUFFICES ASSUME IInv, StopInv, [Next]_vars
             PROVE  StopInv'
  OBVIOUS
<1>t. OperatorTyped /\ SaleInHand /\ PurchaseInHand
  BY TypeParts DEF IInv, OrderInv
<1>k. ASSUME UNCHANGED <<stopFile, afterStop>>,
             pc' = pc \/ pc' \notin {"checkHeld", "sell"}
      PROVE  StopInv'
  BY <1>k DEF StopInv, AtMostOneOrderAfterStop
<1>1. CASE BeginCycle \/ Fetch \/ FetchFails \/ ChooseSignals \/ CycleRaises \/ BeginEntries
           \/ BeginSeries \/ EntriesDone \/ FinishCycle \/ PassRaises
  <2>1. UNCHANGED operator /\ (pc' = pc \/ pc' \notin {"checkHeld", "sell"})
    BY <1>1 DEF BeginCycle, Fetch, FetchFails, ChooseSignals, CycleRaises, BeginEntries,
                BeginSeries, EntriesDone, FinishCycle, PassRaises, control
  <2> QED
    BY <2>1, <1>k DEF operator
<1>2. ASSUME NEW m \in Markets, NEW price, NEW size,
             \/ KeepPosition(m) \/ SkipPosition(m) \/ ReconcileSettled(m) \/ SeriesIdle(m)
             \/ RefuseEntry(m, price, size) \/ SeriesRefuse(m, price, size)
      PROVE  StopInv'
  <2>1. UNCHANGED <<operator, control>>
    BY <1>2 DEF KeepPosition, SkipPosition, ReconcileSettled, SeriesIdle,
                RefuseEntry, SeriesRefuse
  <2> QED
    BY <2>1, <1>k DEF operator, control
<1>3. ASSUME NEW m \in Markets, DecideExit(m) \/ SeriesExit(m)
      PROVE  StopInv'
  BY <1>3, <1>t, PlaceSellAfterStop DEF DecideExit, SeriesExit
<1>4. ASSUME NEW m \in Markets, NEW side, NEW price, NEW size,
             SubmitBuy(m, side, price, size) \/ SeriesEnter(m, side, price, size)
      PROVE  StopInv'
  BY <1>4, <1>t, PlaceBuyAfterStop DEF SubmitBuy, SeriesEnter
<1>5. CASE CheckHeld
  <2>1. UNCHANGED <<stopFile, afterStop>> /\ pc = "checkHeld"
    BY <1>5 DEF CheckHeld, GoOn
  <2> QED
    BY <2>1 DEF StopInv, AtMostOneOrderAfterStop
<1>6. CASE CheckHeldFails
  BY <1>6, <1>t, HaltAfterStop DEF CheckHeldFails
<1>7. CASE SubmitSell
  <2>1. /\ pc = "sell" /\ pc' = "sold" /\ stopFile' = stopFile
        /\ afterStop' = IF stopFile THEN afterStop + 1 ELSE 0
    BY <1>7 DEF SubmitSell, CountSubmission, GoOn
  <2> QED
    BY <2>1 DEF StopInv, AtMostOneOrderAfterStop
<1>8. CASE RecordSell \/ RecordBuy
  <2>1. CASE HaltTrading
    BY <2>1, <1>t, HaltAfterStop
  <2>2. CASE ~ HaltTrading
    <3>1. UNCHANGED <<stopFile, afterStop>> /\ pc' \notin {"checkHeld", "sell"}
      BY <1>8, <2>2, <1>t DEF RecordSell, RecordBuy, GoOn, SaleInHand, PurchaseInHand
    <3> QED
      BY <3>1, <1>k
  <2> QED
    BY <2>1, <2>2
<1>13. CASE SaleUnrecorded
  <2>1. UNCHANGED <<stopFile, afterStop>> /\ pc' \notin {"checkHeld", "sell"}
    BY <1>13, <1>t DEF SaleUnrecorded, GoOn, SaleInHand
  <2> QED
    BY <2>1, <1>k
<1>9. CASE Shutdown \/ Crash \/ Start
  <2>1. UNCHANGED operator /\ pc' \in {"down", "idle"}
    BY <1>9 DEF Shutdown, Crash, Start, Gone
  <2> QED
    BY <2>1, <1>k DEF operator
<1>10. CASE CreateStopFile \/ RemoveStopFile
  <2>1. afterStop' = 0
    BY <1>10 DEF CreateStopFile, RemoveStopFile
  <2> QED
    BY <2>1 DEF StopInv, AtMostOneOrderAfterStop
<1>11. CASE Terminate \/ ExchangeStep \/ NextDay \/ UNCHANGED vars
  <2>1. UNCHANGED <<operator, pc>>
    BY <1>11 DEF Terminate, ExchangeStep, NextDay, vars, control
  <2> QED
    BY <2>1, <1>k DEF operator
<1>12. ASSUME NEW m \in Markets, NEW n, NEW price, ManualTrade(m, n, price)
       PROVE  StopInv'
  <2>1. UNCHANGED <<stopFile, afterStop, pc>>
    BY <1>12 DEF ManualTrade, control
  <2> QED
    BY <2>1, <1>k
<1> QED
  BY <1>1, <1>2, <1>3, <1>4, <1>5, <1>6, <1>7, <1>8, <1>9, <1>10, <1>11, <1>12, <1>13
  DEF Next, BotStep, Environment

\* Once the STOP_TRADING file exists at most one more order of the bot reaches
\* the exchange: the one whose gates were passed before.  However many cycles
\* and restarts follow, whether or not a halt can write the file itself.
THEOREM StopFileObeyed == Spec => []AtMostOneOrderAfterStop
<1>1. StopInv => AtMostOneOrderAfterStop
  BY DEF StopInv
<1> QED
  BY InitStop, IInvHolds, NextStop, <1>1, PTL DEF Spec

-----------------------------------------------------------------------------
(* The account: decisions made on what was seen earlier in the cycle *)

\* An order is in hand.
InHand == pc \in {"checkHeld", "sell", "sold", "bought"}

\* The part of a cycle that relies on what Fetch saw.
Deciding == pc \in {"exits", "reversals", "entries", "series"} \/ InHand

\* Only the time-delay cycle goes on after an entry, and then it remembers it.
EntryRemembered ==
  entryPlaced => pc \in {"series", "end"} \/ (InHand /\ order.pass = "series")

\* The exchange may have executed a purchase since the snapshot.
Purchased ==
  entryPlaced \/ (pc = "bought" /\ (response.fill > 0 \/ ~ response.ok))

\* Until then the account holds no market and no exposure the snapshot does not
\* show; unless no account was fetched, and then there is no balance to spend.
SnapshotCovers ==
  Deciding /\ ~ Purchased =>
    \/ snapshot.balance < MAX_TRADE_DOLLARS
    \/ EX!HeldMarkets \subseteq snapshot.positions /\ EX!Deployed <= snapshot.deployed

LimitsInv == EntryRemembered /\ SnapshotCovers /\ OpenCountBounded /\ ExposureBounded

\* The market trades no more and is no candidate of this cycle.
Over(m) == status[m] \notin {"future", "open"} /\ m \notin markets

OpenedInOrder ==
  \A m, e \in Markets : Earlier(m, e) /\ status[m] # "future" => status[e] # "future"

\* Of each series the bot looks at one window, and those before it are over.
OneWindowAtATime ==
  \A m \in markets, e \in Markets : Earlier(m, e) => Over(e)

InMarkets ==
  pc = "series" \/ (InHand /\ order.pass = "series") =>
    todo \subseteq markets /\ (pc = "bought" => order.market \in markets)

HaltedStays == halted => pc \in {"end", "idle"}

\* Entering a window is final for those before it.
EnteredInOrder ==
  \A m, e \in Markets : Earlier(m, e) /\ windowEntries[m] > 0 => Over(e)

\* The purchase in hand is counted for the window, but not by the bot yet.
Uncounted(m) ==
  /\ pc = "bought" /\ order.pass = "series" /\ m = order.market
  /\ response.fill > 0 \/ ~ response.ok

EntriesCounted ==
  ~ halted =>
    \A m \in Markets :
      windowEntries[m] > TradesIn(m) =>
        \/ Over(m)
        \/ /\ Uncounted(m)
           /\ windowEntries[m] <= tradesInCurrentWindow[SeriesOf(m)] + 1

WindowInv ==
  /\ OpenedInOrder /\ OneWindowAtATime /\ InMarkets /\ HaltedStays
  /\ EnteredInOrder /\ EntriesCounted /\ WindowEntriesBounded

Matches(m, side, quantity, price) ==
  held[m] = EX!Signed(side, quantity) /\ cost[m] = quantity * price

\* Whatever is settled has left the account.
SettledEmpty == \A m \in Markets : EX!Settled(m) => held[m] = 0

\* Before the one process starts there is nothing on the account.
FreshAccount ==
  restarts = 0 => pc = "down" /\ \A m \in Markets : held[m] = 0 /\ cost[m] = 0

\* The books say what the account holds.
Booked(m) ==
  Matches(m, openPositions[m].side, openPositions[m].quantity, openPositions[m].entryPrice)

InOrder(m) == pc \in {"sold", "bought"} /\ m = order.market

\* Of the order in hand, its answer tells by how much they are behind.
SaleAnswered ==
  pc = "sold" /\ response.ok /\ ~ EX!Settled(order.market) =>
    LET p == openPositions[order.market]
    IN  Matches(order.market, p.side, p.quantity - response.fill, p.entryPrice)

PurchaseAnswered ==
  pc = "bought" /\ response.ok /\ ~ EX!Settled(order.market) =>
    Matches(order.market, order.side, response.fill, response.price)

\* Books and account agree on every market, but for the order in hand: there
\* they differ by exactly what the answer says.
BooksMatch ==
  pc # "down" /\ ~ halted =>
    /\ \A m \in Markets : EX!Settled(m) \/ InOrder(m) \/ Booked(m)
    /\ pc \in {"sell", "sold"} => ~ order.clamped
    /\ SaleAnswered
    /\ PurchaseAnswered

MatchInv == SettledEmpty /\ FreshAccount /\ BooksMatch

-----------------------------------------------------------------------------
(* The account *)

\* Multiplication and division, as far as costs need them.
LEMMA ProductsGrow ==
  ASSUME NEW a \in Nat, NEW b \in Nat, NEW c \in Nat, a <= b
  PROVE  a * c \in Nat /\ a * c <= b * c /\ c * a <= c * b
OBVIOUS

LEMMA PartOfCost ==
  ASSUME NEW c \in Nat, NEW a \in Nat, NEW b \in Nat \ {0}, a <= b
  PROVE  (c * a) \div b <= c
<1> DEFINE q == (c * a) \div b
<1>1. c * a \in Nat /\ c * a <= c * b
  BY ProductsGrow
<1>2. q \in Nat /\ q * b <= c * a
  BY <1>1
<1> HIDE DEF q
<1>3. q * b <= c * b
  BY <1>1, <1>2
<1> QED
  BY <1>2, <1>3 DEF q

\* A trade changes one market.  It costs no more than it is worth, and nothing
\* when it closes part of what is held.
LEMMA TradeAt ==
  ASSUME AccountTyped, NEW m \in Markets, NEW n \in Int, NEW price \in Nat,
         EX!Trade(m, n, price)
  PROVE  /\ status' = status
         /\ \A x \in Markets \ {m} : held'[x] = held[x] /\ cost'[x] = cost[x]
         /\ held'[m] = held[m] + n
         /\ cost'[m] <= cost[m] + EX!Abs(n) * price
         /\ held[m] * n < 0 /\ EX!Abs(n) <= EX!Abs(held[m]) => cost'[m] <= cost[m]
         /\ n = 0 => held' = held /\ cost' = cost
<1> DEFINE old == held[m]
           left == old + n
           paid == IF old * n >= 0 THEN cost[m] + EX!Abs(n) * price
                   ELSE IF EX!Abs(n) <= EX!Abs(old) THEN (cost[m] * EX!Abs(left)) \div EX!Abs(old)
                   ELSE EX!Abs(left) * price
<1>1. old \in Int /\ left \in Int /\ cost[m] \in Nat
  BY DEF AccountTyped
<1>2. EX!Abs(n) \in Nat /\ EX!Abs(old) \in Nat /\ EX!Abs(left) \in Nat
  BY <1>1 DEF EX!Abs
<1>3. held' = [held EXCEPT ![m] = left] /\ cost' = [cost EXCEPT ![m] = paid] /\ status' = status
  BY DEF EX!Trade
<1>4. held'[m] = left /\ cost'[m] = paid
      /\ \A x \in Markets \ {m} : held'[x] = held[x] /\ cost'[x] = cost[x]
  <2> HIDE DEF left, paid
  <2> QED BY <1>3 DEF AccountTyped
<1>5. EX!Abs(n) * price \in Nat
  BY <1>2
<1>6. CASE old * n >= 0
  <2>1. paid = cost[m] + EX!Abs(n) * price
    BY <1>6
  <2>2. n = 0 => left = old /\ paid = cost[m]
    BY <1>1, <2>1 DEF EX!Abs
  <2>3. n = 0 => held' = held /\ cost' = cost
    <3> HIDE DEF left, paid
    <3> QED BY <1>3, <2>2 DEF AccountTyped
  <2>4. ~ (old * n < 0)
    BY <1>1, <1>6
  <2>5. paid <= cost[m] + EX!Abs(n) * price
    BY <1>1, <1>5, <2>1
  <2> QED
    BY <1>3, <1>4, <2>3, <2>4, <2>5
<1>7. CASE ~ old * n >= 0
  <2>1. old # 0 /\ n # 0 /\ (old < 0 => n > 0) /\ (old > 0 => n < 0)
    BY <1>1, <1>7
  <2>2. EX!Abs(old) # 0
    BY <1>1, <2>1 DEF EX!Abs
  <2>3. CASE EX!Abs(n) <= EX!Abs(old)
    <3>1. EX!Abs(left) <= EX!Abs(old)
      BY <1>1, <2>1, <2>3 DEF EX!Abs
    <3>2. (cost[m] * EX!Abs(left)) \div EX!Abs(old) <= cost[m]
      BY <1>1, <1>2, <2>2, <3>1, PartOfCost
    <3>3. paid <= cost[m] /\ paid \in Int
      <4>1. cost[m] * EX!Abs(left) \in Int
        BY <1>1, <1>2
      <4> QED BY <1>2, <1>7, <2>2, <2>3, <3>2, <4>1
    <3> HIDE DEF paid
    <3>4. paid <= cost[m] + EX!Abs(n) * price
      BY <1>1, <1>5, <3>3
    <3> QED
      BY <1>3, <1>4, <2>1, <3>3, <3>4
  <2>4. CASE ~ EX!Abs(n) <= EX!Abs(old)
    <3>1. EX!Abs(left) <= EX!Abs(n)
      BY <1>1, <2>1, <2>4 DEF EX!Abs
    <3>2. EX!Abs(left) * price <= EX!Abs(n) * price
      BY <1>2, <3>1, ProductsGrow
    <3>3. EX!Abs(left) * price \in Nat
      BY <1>2
    <3>4. paid = EX!Abs(left) * price
      BY <1>7, <2>4
    <3>5. paid <= cost[m] + EX!Abs(n) * price
      BY <1>1, <1>5, <3>2, <3>3, <3>4
    <3> QED
      BY <1>3, <1>4, <2>1, <2>4, <3>5
  <2> QED
    BY <2>3, <2>4
<1> QED
  BY <1>6, <1>7

\* One market's cost changes the exposure by as much.
LEMMA DeployedChanges ==
  ASSUME AccountTyped, AccountTyped', NEW m \in Markets,
         \A x \in Markets \ {m} : cost'[x] = cost[x]
  PROVE  /\ (EX!Deployed)' = EX!Deployed + cost'[m] - cost[m]
         /\ EX!Deployed \in Int /\ (EX!Deployed)' \in Int /\ cost[m] \in Nat /\ cost'[m] \in Nat
<1>1. IsFiniteSet(Markets)
  BY TradingAssumption
<1>2. /\ \A x \in Markets : cost[x] \in Nat
      /\ \A x \in Markets : cost'[x] \in Nat
  BY DEF AccountTyped
<1>3. Sum(cost', Markets) = Sum(cost, Markets) + cost'[m] - cost[m]
  BY <1>1, <1>2, SumChanges
<1>4. Sum(cost, Markets) \in Nat /\ Sum(cost', Markets) \in Nat
  BY <1>1, <1>2, SumIsNat
<1> QED
  BY <1>2, <1>3, <1>4, DeployedIsSum

\* What the account holds and what it cost, after a step that adds nothing.
Shrinks ==
  (EX!HeldMarkets)' \subseteq EX!HeldMarkets /\ (EX!Deployed)' <= EX!Deployed

LEMMA SameShrinks == AccountTyped /\ UNCHANGED <<held, cost>> => Shrinks
<1> SUFFICES ASSUME AccountTyped, UNCHANGED <<held, cost>>
             PROVE  Shrinks
  OBVIOUS
<1>1. (EX!HeldMarkets)' = EX!HeldMarkets
  BY DEF EX!HeldMarkets
<1>2. (EX!Deployed)' = EX!Deployed /\ EX!Deployed \in Nat
  BY DeployedIsSum, DeployedType
<1> QED
  BY <1>1, <1>2 DEF Shrinks

\* A sale is reduce-only.
LEMMA SaleShrinks ==
  ASSUME IInv, SubmitSell
  PROVE  Shrinks /\ status' = status
<1>t. AccountTyped /\ HandTyped /\ SaleInHand /\ AccountTyped'
  BY TypeParts, SubmitSellInHand DEF IInv, OrderInv
<1> DEFINE m == order.market
           onSide == EX!HeldOnSide(m, order.side)
<1>1. /\ m \in Markets /\ order.quantity \in Nat /\ order.limit \in RM!Prices /\ order' = order
  BY <1>t DEF SubmitSell, SaleInHand, HandTyped, Orders
<1>2. CASE UNCHANGED exchange
  BY <1>2, <1>t, SameShrinks DEF exchange
<1>3. ASSUME NEW f \in EX!SellFills(m, order.side, order.quantity, order.limit),
             EX!Trade(m, EX!Signed(order.side, (-1) * f.fill), f.price)
      PROVE  Shrinks /\ status' = status
  <2> DEFINE n == EX!Signed(order.side, (-1) * f.fill)
  <2>1. f.fill \in Nat /\ f.price \in RM!Prices /\ f.price \in Nat
    BY <1>1, <1>t, FillTypes, Numbers DEF RM!Prices
  <2>2. held[m] \in Int
    BY <1>1, <1>t DEF AccountTyped
  <2>3. f.fill <= onSide
    <3>1. f.fill \in 0 .. EX!Least(order.quantity, onSide)
      BY DEF EX!SellFills
    <3>2. onSide \in Int
      BY <2>2 DEF EX!HeldOnSide, EX!Abs
    <3> QED
      BY <1>1, <3>1, <3>2 DEF EX!Least
  <2>4. n \in Int
    BY <2>1 DEF EX!Signed
  <2>5. n = 0 \/ (held[m] * n < 0 /\ EX!Abs(n) <= EX!Abs(held[m]) /\ held[m] # 0)
    <3>1. CASE f.fill = 0
      <4>1. (-1) * f.fill = 0
        BY <3>1
      <4> QED
        BY <4>1 DEF EX!Signed
    <3>2. CASE f.fill # 0
      <4>1. EX!Signed(order.side, held[m]) > 0 /\ f.fill <= EX!Abs(held[m])
        BY <2>1, <2>3, <3>2 DEF EX!HeldOnSide
      <4>2. \/ n = -f.fill /\ held[m] > 0
            \/ n = f.fill /\ held[m] < 0
        BY <2>1, <2>2, <4>1 DEF EX!Signed
      <4>3. EX!Abs(n) = f.fill
        BY <2>1, <3>2, <4>2 DEF EX!Abs
      <4>4. held[m] * n < 0
        BY <2>1, <2>2, <3>2, <4>2
      <4> QED
        BY <4>1, <4>2, <4>3, <4>4, <2>2
    <3> QED
      BY <3>1, <3>2
  <2>6. EX!Trade(m, n, f.price)
    BY <1>3
  <2> HIDE DEF n, m
  <2>7. /\ status' = status
        /\ \A x \in Markets \ {m} : held'[x] = held[x] /\ cost'[x] = cost[x]
        /\ held[m] * n < 0 /\ EX!Abs(n) <= EX!Abs(held[m]) => cost'[m] <= cost[m]
        /\ n = 0 => held' = held /\ cost' = cost
    BY <1>1, <1>t, <2>1, <2>4, <2>6, TradeAt
  <2>8. CASE n = 0
    BY <1>t, <2>7, <2>8, SameShrinks
  <2>9. CASE n # 0
    <3>1. held[m] # 0 /\ cost'[m] <= cost[m]
      BY <2>5, <2>7, <2>9
    <3>2. (EX!HeldMarkets)' \subseteq EX!HeldMarkets
      BY <2>7, <3>1 DEF EX!HeldMarkets
    <3>3. (EX!Deployed)' <= EX!Deployed
      BY <1>1, <1>t, <2>7, <3>1, DeployedChanges
    <3> QED
      BY <2>7, <3>2, <3>3 DEF Shrinks
  <2> QED
    BY <2>8, <2>9
<1>4. \/ UNCHANGED exchange
      \/ \E f \in EX!SellFills(m, order.side, order.quantity, order.limit) :
           EX!Trade(m, EX!Signed(order.side, (-1) * f.fill), f.price)
  <2> DEFINE fills == EX!SellFills(m, order.side, order.quantity, order.limit)
  <2>1. Execute(order.side, -1, fills)
    BY DEF SubmitSell
  <2> HIDE DEF fills
  <2>2. \/ UNCHANGED exchange
        \/ \E f \in fills : EX!Trade(m, EX!Signed(order.side, (-1) * f.fill), f.price)
    BY <1>1, <2>1 DEF Execute
  <2> QED
    BY <2>2 DEF fills
<1> QED
  BY <1>2, <1>3, <1>4 DEF exchange

\* A purchase adds at most one market, and at most the budget of one trade; one
\* that the exchange says it did not fill adds nothing.
LEMMA PurchaseGrows ==
  ASSUME IInv, pc \in {"entries", "series"},
         NEW m \in Markets, NEW side \in Sides, NEW price \in EX!Prices, NEW size \in SignalSizes,
         PlaceBuy(m, side, price, size), AccountTyped'
  PROVE  /\ status' = status
         /\ (EX!HeldMarkets)' \subseteq EX!HeldMarkets \cup {m}
         /\ (EX!Deployed)' <= EX!Deployed + MAX_TRADE_DOLLARS
         /\ \/ UNCHANGED <<held, cost>>
            \/ pc' = "bought" /\ (response'.fill > 0 \/ ~ response'.ok)
<1>t. AccountTyped /\ EX!Deployed \in Nat /\ MAX_TRADE_DOLLARS \in Nat
  BY TypeParts, DeployedType, Numbers DEF IInv
<1> DEFINE q == Contracts(size, price)
<1>1. /\ order' = [market |-> m, side |-> side, quantity |-> q, limit |-> price,
                   clamped |-> FALSE, pass |-> pc]
      /\ \/ UNCHANGED exchange
         \/ Execute(side, 1, EX!BuyFills(order'.quantity, price)) /\ pc' = "bought"
  BY DEF PlaceBuy, GoOn
<1>2. q \in 1 .. MAX_TRADE_DOLLARS /\ q * price <= MAX_TRADE_DOLLARS
  BY ContractsBounded DEF PlaceBuy
<1>3. price \in RM!Prices /\ price \in Nat /\ q \in Nat
  BY <1>2, Numbers DEF RM!Prices
<1>4. CASE UNCHANGED <<status, held, cost>>
  <2>1. Shrinks
    BY <1>t, <1>4, SameShrinks
  <2>2. (EX!Deployed)' <= EX!Deployed + MAX_TRADE_DOLLARS
    <3>1. (EX!Deployed)' \in Int
      BY DeployedIsSum, SumIsNat, TradingAssumption DEF AccountTyped
    <3> QED
      BY <1>t, <2>1, <3>1 DEF Shrinks
  <2> QED
    BY <1>4, <2>1, <2>2 DEF Shrinks
<1> HIDE DEF q
<1>5. CASE \E f \in EX!BuyFills(q, price) :
             /\ EX!Trade(m, EX!Signed(side, 1 * f.fill), f.price)
             /\ response' \in {Filled(f.fill, f.price)}
                                \cup (IF "order" \in Faults THEN {Failed} ELSE {})
             /\ pc' = "bought"
  <2>1. PICK f \in EX!BuyFills(q, price) :
             /\ EX!Trade(m, EX!Signed(side, 1 * f.fill), f.price)
             /\ response' \in {Filled(f.fill, f.price)}
                                \cup (IF "order" \in Faults THEN {Failed} ELSE {})
             /\ pc' = "bought"
    BY <1>5
  <2>2. f \in [fill : 0 .. q, price : 1 .. price]
    BY DEF EX!BuyFills
  <2>3. f.fill \in Nat /\ f.fill <= q /\ f.price \in Nat /\ f.price <= price
    BY <1>3, <2>2
  <2> DEFINE n == EX!Signed(side, 1 * f.fill)
  <2>4. n \in Int /\ EX!Abs(n) = f.fill /\ (f.fill = 0 => n = 0)
    BY <2>3 DEF EX!Signed, EX!Abs
  <2>5. f.fill * f.price <= MAX_TRADE_DOLLARS /\ f.fill * f.price \in Nat
    <3>1. f.fill * f.price <= q * f.price /\ q * f.price <= q * price
      BY <1>3, <2>3, ProductsGrow
    <3>2. f.fill * f.price \in Nat /\ q * f.price \in Nat /\ q * price \in Nat
      BY <1>3, <2>3
    <3> QED
      BY <1>2, <1>t, <3>1, <3>2
  <2>6. EX!Trade(m, n, f.price)
    BY <2>1
  <2> HIDE DEF n
  <2>7. /\ status' = status
        /\ \A x \in Markets \ {m} : held'[x] = held[x] /\ cost'[x] = cost[x]
        /\ cost'[m] <= cost[m] + EX!Abs(n) * f.price
        /\ n = 0 => held' = held /\ cost' = cost
    BY <1>t, <2>3, <2>4, <2>6, TradeAt
  <2>8. (EX!HeldMarkets)' \subseteq EX!HeldMarkets \cup {m}
    BY <2>7 DEF EX!HeldMarkets
  <2>9. (EX!Deployed)' <= EX!Deployed + MAX_TRADE_DOLLARS
    <3>1. cost'[m] <= cost[m] + f.fill * f.price
      BY <2>4, <2>7
    <3>2. /\ (EX!Deployed)' = EX!Deployed + cost'[m] - cost[m]
          /\ EX!Deployed \in Int /\ (EX!Deployed)' \in Int /\ cost[m] \in Nat /\ cost'[m] \in Nat
      BY <1>t, <2>7, DeployedChanges
    <3> QED
      BY <1>t, <2>5, <3>1, <3>2
  <2>10. UNCHANGED <<held, cost>> \/ (pc' = "bought" /\ (response'.fill > 0 \/ ~ response'.ok))
    BY <2>1, <2>3, <2>4, <2>7 DEF Filled, Failed
  <2> QED
    BY <2>7, <2>8, <2>9, <2>10
<1>6. \/ UNCHANGED exchange
      \/ \E f \in EX!BuyFills(q, price) :
             /\ EX!Trade(m, EX!Signed(side, 1 * f.fill), f.price)
             /\ response' \in {Filled(f.fill, f.price)}
                                \cup (IF "order" \in Faults THEN {Failed} ELSE {})
             /\ pc' = "bought"
  <2>1. order'.quantity = q /\ order'.market = m
    BY <1>1
  <2> DEFINE fills == EX!BuyFills(q, price)
  <2>2. UNCHANGED exchange \/ (Execute(side, 1, fills) /\ pc' = "bought")
    BY <1>1, <2>1
  <2> HIDE DEF fills
  <2>3. \/ UNCHANGED exchange
        \/ \E f \in fills :
             /\ EX!Trade(m, EX!Signed(side, 1 * f.fill), f.price)
             /\ response' \in {Filled(f.fill, f.price)}
                                \cup (IF "order" \in Faults THEN {Failed} ELSE {})
             /\ pc' = "bought"
    BY <2>1, <2>2 DEF Execute
  <2> QED
    BY <2>3 DEF fills
<1> QED
  BY <1>4, <1>5, <1>6 DEF exchange

\* Markets open, close and settle: nothing is added to the account, and their
\* life only goes forward.
LEMMA MarketsLive ==
  ASSUME AccountTyped, AccountTyped', ExchangeStep
  PROVE  /\ Shrinks
         /\ \E m \in Markets :
              /\ \A x \in Markets \ {m} :
                   status'[x] = status[x] /\ held'[x] = held[x] /\ cost'[x] = cost[x]
              /\ \/ /\ status[m] = "future" /\ status'[m] = "open"
                    /\ \A e \in Markets : Earlier(m, e) => status[e] # "future"
                    /\ UNCHANGED <<held, cost>>
                 \/ status[m] = "open" /\ status'[m] = "closed" /\ UNCHANGED <<held, cost>>
                 \/ status[m] = "closed" /\ status'[m] \in {"yes", "no"} /\ held'[m] = 0
<1>1. PICK m \in Markets :
        \/ /\ \A e \in Markets : Earlier(m, e) => status[e] # "future"
           /\ EX!OpenMarket(m)
        \/ EX!CloseMarket(m)
        \/ \E r \in {"yes", "no"} : EX!SettleMarket(m, r)
  BY DEF ExchangeStep
<1>2. CASE UNCHANGED <<held, cost>>
  <2>1. Shrinks
    BY <1>2, SameShrinks
  <2>2. /\ \A x \in Markets \ {m} : status'[x] = status[x]
        /\ \/ /\ status[m] = "future" /\ status'[m] = "open"
              /\ \A e \in Markets : Earlier(m, e) => status[e] # "future"
           \/ status[m] = "open" /\ status'[m] = "closed"
           \/ status[m] = "closed" /\ status'[m] \in {"yes", "no"} /\ held'[m] = 0
    BY <1>1 DEF EX!OpenMarket, EX!CloseMarket, EX!SettleMarket, AccountTyped
  <2> QED
    BY <1>2, <2>1, <2>2
<1>3. CASE \E r \in {"yes", "no"} : EX!SettleMarket(m, r)
  <2>1. /\ \A x \in Markets \ {m} :
             status'[x] = status[x] /\ held'[x] = held[x] /\ cost'[x] = cost[x]
        /\ status[m] = "closed" /\ status'[m] \in {"yes", "no"} /\ held'[m] = 0 /\ cost'[m] = 0
    BY <1>3 DEF EX!SettleMarket, AccountTyped
  <2>2. (EX!HeldMarkets)' \subseteq EX!HeldMarkets
    BY <2>1 DEF EX!HeldMarkets
  <2>3. /\ (EX!Deployed)' = EX!Deployed + cost'[m] - cost[m]
        /\ EX!Deployed \in Int /\ cost[m] \in Nat
    BY <2>1, DeployedChanges
  <2> QED
    BY <2>1, <2>2, <2>3 DEF Shrinks
<1> QED
  BY <1>1, <1>2, <1>3 DEF EX!OpenMarket, EX!CloseMarket, EX!account

\* A command that failed halts the bot, and a clean one goes on.
LEMMA OrderActions ==
  /\ OrderAction("COMMAND_FAILED") = "HALT_TRADING"
  /\ OrderAction("BUY_PLACED") = "CONTINUE" /\ OrderAction("SELL_PLACED") = "CONTINUE"
  /\ OrderAction("SELL_CLAMPED") # "HALT_TRADING"
<1> USE DEF OrderAction, interpret_cli_response, Envelope, decision_flags, CleanCodes,
            TransientCodes, ReviewCodes, SuccessCodes, can_retry
<1>1. OrderAction("COMMAND_FAILED") = "HALT_TRADING"
  OBVIOUS
<1>2. OrderAction("BUY_PLACED") = "CONTINUE" /\ OrderAction("SELL_PLACED") = "CONTINUE"
  OBVIOUS
<1>3. OrderAction("SELL_CLAMPED") # "HALT_TRADING"
  OBVIOUS
<1> QED
  BY <1>1, <1>2, <1>3

-----------------------------------------------------------------------------
(* The limits on the account *)

\* Sets of markets are finite, and so comparable in size.
LEMMA SubsetOfMarkets ==
  ASSUME NEW S \in SUBSET Markets, NEW T \in SUBSET S
  PROVE  Cardinality(T) \in Nat /\ Cardinality(S) \in Nat /\ Cardinality(T) <= Cardinality(S)
<1>1. IsFiniteSet(S)
  BY TradingAssumption, FS_Subset
<1> QED
  BY <1>1, FS_Subset, FS_CardinalityType

LEMMA OneMarketMore ==
  ASSUME NEW S \in SUBSET Markets, NEW m \in Markets
  PROVE  Cardinality(S) \in Nat /\ Cardinality(S \cup {m}) \in Nat
         /\ Cardinality(S \cup {m}) <= Cardinality(S) + 1
<1>1. IsFiniteSet(S)
  BY TradingAssumption, FS_Subset
<1>2. IsFiniteSet(S \cup {m}) /\ Cardinality(S \cup {m}) =
        IF m \in S THEN Cardinality(S) ELSE Cardinality(S) + 1
  BY <1>1, FS_AddElement
<1> QED
  BY <1>1, <1>2, FS_CardinalityType

LEMMA LimitNumbers ==
  /\ MAX_OPEN_POSITIONS \in Nat /\ 1 <= MAX_OPEN_POSITIONS
  /\ MAX_TOTAL_EXPOSURE \in Nat /\ MAX_TRADE_DOLLARS \in Nat /\ 1 <= MAX_TRADE_DOLLARS
BY BooksAssumption DEF RM!ConfigAssumption

\* A step that adds nothing to the account keeps it within its limits, and
\* covered by the snapshot.
LEMMA LimitsKept ==
  ASSUME IInv, LimitsInv, AccountTyped', Shrinks,
         \/ ~ Deciding'
         \/ snapshot' = snapshot /\ (~ Purchased' => Deciding /\ ~ Purchased)
  PROVE  SnapshotCovers' /\ OpenCountBounded' /\ ExposureBounded'
<1>1. EX!Deployed \in Nat /\ (EX!Deployed)' \in Nat
  <2>1. AccountTyped
    BY TypeParts DEF IInv
  <2> QED
    BY <2>1, DeployedIsSum, SumIsNat, TradingAssumption DEF AccountTyped
<1>2. /\ EX!HeldMarkets \subseteq Markets /\ (EX!HeldMarkets)' \subseteq EX!HeldMarkets
      /\ (EX!Deployed)' <= EX!Deployed
  BY DEF EX!HeldMarkets, Shrinks
<1>3. Cardinality((EX!HeldMarkets)') \in Nat /\ Cardinality(EX!HeldMarkets) \in Nat
      /\ Cardinality((EX!HeldMarkets)') <= Cardinality(EX!HeldMarkets)
  BY <1>2, SubsetOfMarkets
<1>4. OpenCountBounded'
  BY <1>3, LimitNumbers DEF LimitsInv, OpenCountBounded
<1>5. ExposureBounded'
  BY <1>1, <1>2, LimitNumbers DEF LimitsInv, ExposureBounded
<1>6. SnapshotCovers'
  <2>1. CASE ~ Deciding'
    BY <2>1 DEF SnapshotCovers
  <2>2. CASE Purchased'
    BY <2>2 DEF SnapshotCovers
  <2>3. CASE snapshot' = snapshot /\ Deciding /\ ~ Purchased
    <3>1. snapshot.deployed \in Nat
      BY TypeParts DEF IInv, CycleTyped
    <3>2. \/ snapshot.balance < MAX_TRADE_DOLLARS
          \/ EX!HeldMarkets \subseteq snapshot.positions /\ EX!Deployed <= snapshot.deployed
      BY <2>3 DEF LimitsInv, SnapshotCovers
    <3>3. EX!Deployed <= snapshot.deployed => (EX!Deployed)' <= snapshot.deployed
      BY <1>1, <1>2, <3>1
    <3> QED
      BY <1>2, <2>3, <3>2, <3>3 DEF SnapshotCovers
  <2> QED
    BY <2>1, <2>2, <2>3
<1> QED
  BY <1>4, <1>5, <1>6

\* An approved purchase stays within the limits.
LEMMA PurchaseWithinLimits ==
  ASSUME IInv, LimitsInv, AccountTyped', pc \in {"entries", "series"}, ~ entryPlaced,
         NEW m \in Markets, NEW side \in Sides, NEW price \in EX!Prices, NEW size \in SignalSizes,
         PlaceBuy(m, side, price, size), pc' \in {"end", "bought"}, entryPlaced' = entryPlaced
  PROVE  SnapshotCovers' /\ OpenCountBounded' /\ ExposureBounded'
<1>1. Deciding /\ ~ Purchased
  BY DEF Deciding, Purchased
<1>2. snapshot' = snapshot /\ RM!Approved(m, snapshot, price)
  BY DEF PlaceBuy
<1>3. CASE UNCHANGED <<held, cost>>
  <2>1. Shrinks
    BY <1>3, SameShrinks, TypeParts DEF IInv
  <2> QED
    BY <1>1, <1>2, <2>1, LimitsKept
<1>4. CASE ~ UNCHANGED <<held, cost>>
  <2>1. /\ (EX!HeldMarkets)' \subseteq EX!HeldMarkets \cup {m}
        /\ (EX!Deployed)' <= EX!Deployed + MAX_TRADE_DOLLARS
        /\ pc' = "bought" /\ (response'.fill > 0 \/ ~ response'.ok)
    BY <1>4, PurchaseGrows
  <2>2. SnapshotCovers'
    BY <2>1 DEF SnapshotCovers, Purchased
  <2>3. snapshot \in [positions : SUBSET Markets, deployed : Nat, balance : Nat]
    BY TypeParts DEF IInv, CycleTyped
  <2>4. EX!HeldMarkets \subseteq snapshot.positions /\ EX!Deployed <= snapshot.deployed
    <3>1. ~ snapshot.balance < MAX_TRADE_DOLLARS
      BY <1>2, <2>3, LimitNumbers DEF RM!Approved
    <3> QED
      BY <1>1, <3>1 DEF LimitsInv, SnapshotCovers
  <2>5. OpenCountBounded'
    <3>1. Cardinality(snapshot.positions) < MAX_OPEN_POSITIONS
      BY <1>2 DEF RM!Approved, RM!Cardinality, Cardinality
    <3>2. /\ Cardinality(snapshot.positions) \in Nat
          /\ Cardinality(snapshot.positions \cup {m}) \in Nat
          /\ Cardinality(snapshot.positions \cup {m}) <= Cardinality(snapshot.positions) + 1
      BY <2>3, OneMarketMore
    <3>3. (EX!HeldMarkets)' \in SUBSET (snapshot.positions \cup {m})
          /\ snapshot.positions \cup {m} \in SUBSET Markets
      BY <2>1, <2>3, <2>4
    <3>4. Cardinality((EX!HeldMarkets)') \in Nat
          /\ Cardinality((EX!HeldMarkets)') <= Cardinality(snapshot.positions \cup {m})
      BY <3>3, SubsetOfMarkets
    <3> QED
      BY <3>1, <3>2, <3>4, LimitNumbers DEF OpenCountBounded
  <2>6. ExposureBounded'
    <3>1. EX!Deployed \in Nat /\ (EX!Deployed)' \in Nat
      <4>1. AccountTyped
        BY TypeParts DEF IInv
      <4> QED
        BY <4>1, DeployedIsSum, SumIsNat, TradingAssumption DEF AccountTyped
    <3>2. snapshot.deployed + MAX_TRADE_DOLLARS <= MAX_TOTAL_EXPOSURE /\ snapshot.deployed \in Nat
      BY <1>2, <2>3 DEF RM!Approved
    <3> QED
      BY <2>1, <2>4, <3>1, <3>2, LimitNumbers DEF ExposureBounded
  <2> QED
    BY <2>2, <2>5, <2>6
<1> QED
  BY <1>3, <1>4

LEMMA InitLimits == Init => LimitsInv
<1> SUFFICES ASSUME Init
             PROVE  LimitsInv
  OBVIOUS
<1>1. EntryRemembered /\ SnapshotCovers
  BY DEF Init, EntryRemembered, SnapshotCovers, Deciding, InHand
<1>2. OpenCountBounded
  <2>1. EX!HeldMarkets = {}
    BY DEF Init, EX!Init, EX!HeldMarkets
  <2> QED
    BY <2>1, FS_EmptySet, LimitNumbers DEF OpenCountBounded
<1>3. ExposureBounded
  <2>1. \A x \in Markets : cost[x] = 0
    BY DEF Init, EX!Init
  <2>2. EX!Deployed = 0
    BY <2>1, DeployedIsSum, SumOfZeros, TradingAssumption
  <2> QED
    BY <2>2, LimitNumbers DEF ExposureBounded
<1> QED
  BY <1>1, <1>2, <1>3 DEF LimitsInv

\* Every step, but for those of another trader on the account.
LEMMA NextLimits ==
  ASSUME "manual" \notin Faults, IInv, LimitsInv, [Next]_vars
  PROVE  LimitsInv'
<1>t. AccountTyped /\ SaleInHand /\ PurchaseInHand /\ EntryRemembered /\ IInv' /\ AccountTyped'
  <2>1. IInv'
    BY NextIInv
  <2>2. AccountTyped'
    BY <2>1 DEF IInv, TypeOK, AccountTyped
  <2> QED
    BY <2>1, <2>2, TypeParts DEF IInv, OrderInv, LimitsInv
<1>s. UNCHANGED exchange => Shrinks
  BY <1>t, SameShrinks DEF exchange
<1>k. ASSUME Shrinks, EntryRemembered',
             \/ ~ Deciding'
             \/ snapshot' = snapshot /\ (~ Purchased' => Deciding /\ ~ Purchased)
      PROVE  LimitsInv'
  BY <1>k, <1>t, LimitsKept DEF LimitsInv
<1>1. CASE BeginCycle
  <2>1. UNCHANGED <<exchange, entryPlaced>> /\ pc = "idle" /\ pc' \in {"fetch", "end"}
    BY <1>1 DEF BeginCycle, windows
  <2>2. EntryRemembered' /\ ~ Deciding'
    BY <2>1, <1>t DEF EntryRemembered, Deciding, InHand
  <2> QED
    BY <2>1, <2>2, <1>s, <1>k
<1>2. CASE Fetch
  <2>1. UNCHANGED <<exchange, entryPlaced>> /\ pc = "fetch" /\ pc' = "exits"
    BY <1>2 DEF Fetch, windows
  <2>2. EntryRemembered'
    BY <2>1, <1>t DEF EntryRemembered, InHand
  <2>3. PICK balance \in Balances :
          snapshot' = IF NeedAccount
                      THEN [positions |-> EX!HeldMarkets, deployed |-> EX!Deployed,
                            balance |-> balance]
                      ELSE NoSnapshot
    BY <1>2 DEF Fetch
  <2>4. SnapshotCovers'
    <3>1. (EX!HeldMarkets)' = EX!HeldMarkets /\ (EX!Deployed)' = EX!Deployed /\ EX!Deployed \in Nat
      BY <2>1, <1>t, DeployedType, DeployedIsSum DEF exchange, EX!HeldMarkets
    <3>2. CASE NeedAccount
      <4>1. snapshot'.positions = EX!HeldMarkets /\ snapshot'.deployed = EX!Deployed
        BY <2>3, <3>2
      <4> QED
        BY <3>1, <4>1 DEF SnapshotCovers
    <3>3. CASE ~ NeedAccount
      <4>1. snapshot'.balance = 0
        BY <2>3, <3>3 DEF NoSnapshot
      <4> QED
        BY <4>1, LimitNumbers DEF SnapshotCovers
    <3> QED
      BY <3>2, <3>3
  <2>5. OpenCountBounded' /\ ExposureBounded'
    <3>1. (EX!HeldMarkets)' = EX!HeldMarkets /\ (EX!Deployed)' = EX!Deployed
      BY <2>1, DeployedIsSum DEF exchange, EX!HeldMarkets
    <3> QED
      BY <3>1 DEF LimitsInv, OpenCountBounded, ExposureBounded
  <2> QED
    BY <2>2, <2>4, <2>5 DEF LimitsInv
<1>3. CASE FetchFails \/ CycleRaises \/ EntriesDone \/ CheckHeldFails
  <2>1. UNCHANGED exchange /\ pc' = "end"
    BY <1>3 DEF FetchFails, CycleRaises, EntriesDone, CheckHeldFails, HaltTrading
  <2> QED
    BY <2>1, <1>s, <1>k DEF EntryRemembered, Deciding, InHand
<1>4. CASE ChooseSignals \/ BeginEntries \/ BeginSeries
  <2>1. /\ UNCHANGED <<exchange, snapshot, entryPlaced>> /\ pc \in {"exits", "reversals"}
        /\ pc' \in {"reversals", "entries", "series", "end"}
    BY <1>4 DEF ChooseSignals, BeginEntries, BeginSeries, windows
  <2>2. EntryRemembered' /\ (~ Purchased' => Deciding /\ ~ Purchased)
    BY <2>1, <1>t DEF EntryRemembered, InHand, Purchased, Deciding
  <2> QED
    BY <2>1, <2>2, <1>s, <1>k
<1>5. ASSUME UNCHANGED <<pc, order, response, snapshot, entryPlaced>>, Shrinks
      PROVE  LimitsInv'
  <2>1. EntryRemembered'
    BY <1>5, <1>t DEF EntryRemembered, InHand
  <2>2. Deciding' = Deciding /\ Purchased' = Purchased
    BY <1>5 DEF Deciding, InHand, Purchased
  <2> QED
    BY <1>5, <2>1, <2>2, <1>k
<1>6. CASE PassRaises
  <2>1. UNCHANGED <<exchange, pc, order, response, snapshot, entryPlaced>>
    BY <1>6 DEF PassRaises, windows, control
  <2> QED
    BY <2>1, <1>5, <1>s
<1>7. ASSUME NEW m \in Markets, NEW price, NEW size,
             \/ KeepPosition(m) \/ SkipPosition(m) \/ ReconcileSettled(m) \/ SeriesIdle(m)
             \/ RefuseEntry(m, price, size) \/ SeriesRefuse(m, price, size)
      PROVE  LimitsInv'
  <2>1. UNCHANGED <<exchange, pc, order, response, snapshot, entryPlaced>>
    BY <1>7 DEF KeepPosition, SkipPosition, ReconcileSettled, SeriesIdle, RefuseEntry,
                SeriesRefuse, windows, control
  <2> QED
    BY <2>1, <1>5, <1>s
<1>8. ASSUME NEW m \in Markets, DecideExit(m) \/ SeriesExit(m)
      PROVE  LimitsInv'
  <2>1. /\ UNCHANGED <<exchange, snapshot, entryPlaced>> /\ order'.pass = pc
        /\ pc \in {"exits", "reversals", "series"} /\ pc' \in {"end", "sold", "checkHeld"}
    <3>1. /\ PlaceSell(m) /\ UNCHANGED <<exchange, snapshot, entryPlaced>>
          /\ pc \in {"exits", "reversals", "series"}
      BY <1>8 DEF DecideExit, SeriesExit, InPass, windows
    <3>2. order'.pass = pc
      BY <3>1 DEF PlaceSell
    <3>3. pc' \in {"end", "sold", "checkHeld"}
      BY <3>1 DEF PlaceSell, HaltTrading, GoOn
    <3> QED
      BY <3>1, <3>2, <3>3
  <2>2. EntryRemembered' /\ (~ Purchased' => Deciding /\ ~ Purchased)
    BY <2>1, <1>t DEF EntryRemembered, InHand, Purchased, Deciding
  <2> QED
    BY <2>1, <2>2, <1>s, <1>k
<1>9. CASE CheckHeld
  <2>1. /\ UNCHANGED <<exchange, snapshot, entryPlaced>> /\ pc = "checkHeld"
        /\ pc' = order.pass \/ (pc' = "sell" /\ order'.pass = order.pass)
    <3>1. order \in Orders
      BY TypeParts DEF IInv, HandTyped
    <3> QED
      BY <1>9, <3>1 DEF CheckHeld, GoOn, windows, Orders
  <2>2. pc' \in {"exits", "reversals", "series", "sell"}
    BY <2>1, <1>t DEF SaleInHand
  <2>3. EntryRemembered' /\ (~ Purchased' => Deciding /\ ~ Purchased)
    BY <2>1, <2>2, <1>t DEF EntryRemembered, InHand, Purchased, Deciding
  <2> QED
    BY <2>1, <2>3, <1>s, <1>k
<1>10. CASE SubmitSell
  <2>1. /\ UNCHANGED <<snapshot, entryPlaced, order>> /\ pc = "sell" /\ pc' = "sold" /\ Shrinks
    BY <1>10, SaleShrinks DEF SubmitSell, GoOn, windows
  <2>2. EntryRemembered' /\ (~ Purchased' => Deciding /\ ~ Purchased)
    BY <2>1, <1>t DEF EntryRemembered, InHand, Purchased, Deciding
  <2> QED
    BY <2>1, <2>2, <1>k
<1>11. CASE RecordSell
  <2>1. /\ UNCHANGED <<exchange, snapshot, entryPlaced>> /\ pc = "sold"
        /\ pc' = order.pass \/ pc' = "end"
    BY <1>11 DEF RecordSell, HaltTrading, GoOn, windows
  <2>2. pc' \in {"exits", "reversals", "series", "end"}
    BY <2>1, <1>t DEF SaleInHand
  <2>3. EntryRemembered' /\ (~ Purchased' => Deciding /\ ~ Purchased)
    BY <2>1, <2>2, <1>t DEF EntryRemembered, InHand, Purchased, Deciding
  <2> QED
    BY <2>1, <2>3, <1>s, <1>k
<1>19. CASE SaleUnrecorded
  <2>1. /\ UNCHANGED <<exchange, snapshot, entryPlaced>> /\ pc = "sold"
        /\ pc' = order.pass \/ pc' = "end"
    BY <1>19 DEF SaleUnrecorded, GoOn, windows
  <2>2. pc' \in {"exits", "reversals", "series", "end"}
    BY <2>1, <1>t DEF SaleInHand
  <2>3. EntryRemembered' /\ (~ Purchased' => Deciding /\ ~ Purchased)
    BY <2>1, <2>2, <1>t DEF EntryRemembered, InHand, Purchased, Deciding
  <2> QED
    BY <2>1, <2>3, <1>s, <1>k
<1>12. ASSUME NEW m \in Markets, NEW side \in Sides, NEW price \in EX!Prices,
              NEW size \in SignalSizes,
              SubmitBuy(m, side, price, size) \/ SeriesEnter(m, side, price, size)
       PROVE  LimitsInv'
  <2>1. PlaceBuy(m, side, price, size) /\ pc \in {"entries", "series"} /\ entryPlaced' = entryPlaced
    BY <1>12 DEF SubmitBuy, SeriesEnter, windows
  <2>2. ~ entryPlaced
    BY <1>12, <1>t DEF SubmitBuy, SeriesEnter, MayEnter, EntryRemembered, InHand
  <2>3. pc' \in {"end", "bought"}
    BY <2>1 DEF PlaceBuy, HaltTrading, GoOn
  <2>4. EntryRemembered'
    BY <2>1, <2>2 DEF EntryRemembered
  <2> QED
    BY <2>1, <2>2, <2>3, <2>4, <1>t, PurchaseWithinLimits DEF LimitsInv
<1>13. CASE RecordBuy
  <2>1. /\ UNCHANGED <<exchange, snapshot>> /\ pc = "bought"
        /\ \/ pc' = "end"
           \/ /\ response.fill > 0 /\ order.pass = "series" /\ pc' = "series" /\ entryPlaced' = TRUE
           \/ /\ ~ response.fill > 0 /\ response.ok /\ pc' = order.pass /\ entryPlaced' = entryPlaced
    BY <1>13, OrderActions DEF RecordBuy, BuyCode, HaltTrading, GoOn, CountEntry, windows
  <2>2. order.pass \in {"entries", "series"}
    BY <2>1, <1>t DEF PurchaseInHand
  <2>3. EntryRemembered'
    BY <2>1, <2>2, <1>t DEF EntryRemembered, InHand
  <2>4. ~ Deciding' \/ (~ Purchased' => Deciding /\ ~ Purchased)
    BY <2>1, <2>2 DEF Purchased, Deciding, InHand
  <2> QED
    BY <2>1, <2>3, <2>4, <1>s, <1>k
<1>14. CASE FinishCycle \/ Shutdown \/ Crash
  <2>1. UNCHANGED exchange /\ pc' \in {"idle", "down"} /\ entryPlaced' = FALSE
    BY <1>14 DEF FinishCycle, Shutdown, Crash, Gone, NoEntries
  <2> QED
    BY <2>1, <1>s, <1>k DEF EntryRemembered, Deciding, InHand
<1>15. CASE Start
  <2>1. UNCHANGED <<exchange, entryPlaced>> /\ pc = "down" /\ pc' = "idle"
    BY <1>15 DEF Start, windows
  <2> QED
    BY <2>1, <1>t, <1>s, <1>k DEF EntryRemembered, Deciding, InHand
<1>16. CASE Terminate \/ CreateStopFile \/ RemoveStopFile \/ NextDay \/ UNCHANGED vars
  <2>1. UNCHANGED <<exchange, locals, windows, pc>>
    BY <1>16 DEF Terminate, CreateStopFile, RemoveStopFile, NextDay, control, vars
  <2> QED
    BY <2>1, <1>5, <1>s DEF locals, windows
<1>17. CASE ExchangeStep
  <2>1. UNCHANGED <<locals, windows, pc>>
    BY <1>17 DEF ExchangeStep, control
  <2>2. Shrinks
    BY <1>17, <1>t, MarketsLive
  <2> QED
    BY <2>1, <2>2, <1>5 DEF locals, windows
<1>18. \A m, n, price : ~ ManualTrade(m, n, price)
  BY DEF ManualTrade
<1> QED
  BY <1>1, <1>2, <1>3, <1>4, <1>6, <1>7, <1>8, <1>9, <1>10, <1>11, <1>12, <1>13, <1>14, <1>15,
     <1>16, <1>17, <1>18, <1>19
  DEF Next, BotStep, Environment

\* With no other trader on the account it never holds more than
\* MAX_OPEN_POSITIONS markets, although approve_trade counts the positions of a
\* snapshot taken before the cycle's exits, and although an order whose answer
\* is lost is in no book.
THEOREM OpenCountIsBounded ==
  ASSUME "manual" \notin Faults
  PROVE  Spec => []OpenCountBounded
<1>1. IInv /\ LimitsInv /\ [Next]_vars => LimitsInv'
  BY NextLimits
<1>2. LimitsInv => OpenCountBounded
  BY DEF LimitsInv
<1> QED
  BY InitLimits, IInvHolds, <1>1, <1>2, PTL DEF Spec

\* With no other trader on the account its exposure never passes
\* MAX_TOTAL_EXPOSURE: over all processes, with positions the bot has forgotten
\* and markets it buys again, partial fills, netting and lost answers.
THEOREM ExposureIsBounded ==
  ASSUME "manual" \notin Faults
  PROVE  Spec => []ExposureBounded
<1>1. IInv /\ LimitsInv /\ [Next]_vars => LimitsInv'
  BY NextLimits
<1>2. LimitsInv => ExposureBounded
  BY DEF LimitsInv
<1> QED
  BY InitLimits, IInvHolds, <1>1, <1>2, PTL DEF Spec

-----------------------------------------------------------------------------
(* After a failed exit pass *)

\* A cycle whose exit pass has raised is past it, in the other one, or done.
ExitErrorInv ==
  exitError =>
    \/ pc \in {"exits", "reversals", "end"}
    \/ pc \in {"checkHeld", "sell", "sold"} /\ order.pass \in {"exits", "reversals"}

LEMMA InitExitError == Init => ExitErrorInv
BY DEF Init, ExitErrorInv

LEMMA NextExitError ==
  ASSUME IInv, ExitErrorInv, [Next]_vars
  PROVE  ExitErrorInv'
<1>t. SaleInHand /\ PurchaseInHand /\ HandTyped
  BY TypeParts DEF IInv, OrderInv
<1>1. CASE BeginCycle \/ Fetch \/ FetchFails \/ ChooseSignals \/ BeginEntries \/ BeginSeries
           \/ EntriesDone
  <2>1. /\ exitError' = exitError \/ exitError' = FALSE
        /\ \/ pc \in {"idle", "fetch", "entries", "series"}
           \/ pc' = "reversals"
           \/ ~ exitError
           \/ pc' = "end"
    BY <1>1 DEF BeginCycle, Fetch, FetchFails, ChooseSignals, BeginEntries, BeginSeries,
                EntriesDone, locals
  <2> QED
    BY <2>1 DEF ExitErrorInv
<1>2. CASE CycleRaises \/ CheckHeldFails
  <2>1. pc' = "end"
    BY <1>2 DEF CycleRaises, CheckHeldFails, HaltTrading
  <2> QED
    BY <2>1 DEF ExitErrorInv
<1>3. CASE PassRaises
  <2>1. pc \in {"exits", "reversals"} /\ pc' = pc
    BY <1>3 DEF PassRaises, InPass, control
  <2> QED
    BY <2>1 DEF ExitErrorInv
<1>4. CASE SaleUnrecorded
  <2>1. order.pass # "series" => pc' = order.pass
    BY <1>4 DEF SaleUnrecorded, GoOn
  <2>2. order.pass \in {"exits", "reversals", "series"} /\ (order.pass = "series" => pc' = "end")
    BY <1>4, <1>t DEF SaleUnrecorded, GoOn, SaleInHand
  <2> QED
    BY <2>1, <2>2 DEF ExitErrorInv
<1>5. ASSUME NEW m \in Markets, NEW price, NEW size,
             \/ KeepPosition(m) \/ SkipPosition(m) \/ ReconcileSettled(m) \/ SeriesIdle(m)
             \/ RefuseEntry(m, price, size) \/ SeriesRefuse(m, price, size)
      PROVE  ExitErrorInv'
  <2>1. UNCHANGED <<exitError, pc, order>>
    BY <1>5 DEF KeepPosition, SkipPosition, ReconcileSettled, SeriesIdle, RefuseEntry,
                SeriesRefuse, control
  <2> QED
    BY <2>1 DEF ExitErrorInv
<1>6. ASSUME NEW m \in Markets, DecideExit(m) \/ SeriesExit(m)
      PROVE  ExitErrorInv'
  <2>1. /\ PlaceSell(m) /\ exitError' = exitError
        /\ pc \in {"exits", "reversals", "series"}
    BY <1>6 DEF DecideExit, SeriesExit, InPass
  <2>2. order'.pass = pc
    BY <2>1 DEF PlaceSell
  <2>3. pc' \in {"end", "sold", "checkHeld"}
    BY <2>1 DEF PlaceSell, HaltTrading, GoOn
  <2> QED
    BY <2>1, <2>2, <2>3 DEF ExitErrorInv
<1>7. CASE CheckHeld
  <2>1. /\ exitError' = exitError /\ pc = "checkHeld"
        /\ pc' = order.pass \/ (pc' = "sell" /\ order'.pass = order.pass)
    BY <1>7, <1>t DEF CheckHeld, GoOn, HandTyped, Orders
  <2> QED
    BY <2>1 DEF ExitErrorInv
<1>8. CASE SubmitSell
  <2>1. UNCHANGED <<exitError, order>> /\ pc = "sell" /\ pc' = "sold"
    BY <1>8 DEF SubmitSell, GoOn
  <2> QED
    BY <2>1 DEF ExitErrorInv
<1>9. CASE RecordSell
  <2>1. exitError' = exitError /\ pc = "sold" /\ (pc' = order.pass \/ pc' = "end")
    BY <1>9 DEF RecordSell, HaltTrading, GoOn
  <2> QED
    BY <2>1 DEF ExitErrorInv
<1>10. ASSUME NEW m \in Markets, NEW side, NEW price, NEW size,
              SubmitBuy(m, side, price, size) \/ SeriesEnter(m, side, price, size)
       PROVE  ExitErrorInv'
  <2>1. pc \in {"entries", "series"} /\ exitError' = exitError
    BY <1>10 DEF SubmitBuy, SeriesEnter, PlaceBuy
  <2> QED
    BY <2>1 DEF ExitErrorInv
<1>11. CASE RecordBuy
  <2>1. pc = "bought" /\ exitError' = exitError
    BY <1>11 DEF RecordBuy
  <2> QED
    BY <2>1 DEF ExitErrorInv
<1>12. CASE FinishCycle \/ Shutdown \/ Crash
  <2>1. exitError' = FALSE
    BY <1>12 DEF FinishCycle, Shutdown, Crash, Gone, ClearLocals
  <2> QED
    BY <2>1 DEF ExitErrorInv
<1>13. CASE Start
  <2>1. pc = "down" /\ exitError' = exitError
    BY <1>13 DEF Start, locals
  <2> QED
    BY <2>1 DEF ExitErrorInv
<1>14. CASE Terminate \/ CreateStopFile \/ RemoveStopFile \/ ExchangeStep \/ NextDay
            \/ UNCHANGED vars
  <2>1. UNCHANGED <<exitError, pc, order>>
    BY <1>14 DEF Terminate, CreateStopFile, RemoveStopFile, ExchangeStep, NextDay, vars,
                 locals, control
  <2> QED
    BY <2>1 DEF ExitErrorInv
<1>15. ASSUME NEW m \in Markets, NEW n, NEW price, ManualTrade(m, n, price)
       PROVE  ExitErrorInv'
  <2>1. UNCHANGED <<exitError, pc, order>>
    BY <1>15 DEF ManualTrade, locals, control
  <2> QED
    BY <2>1 DEF ExitErrorInv
<1> QED
  BY <1>1, <1>2, <1>3, <1>4, <1>5, <1>6, <1>7, <1>8, <1>9, <1>10, <1>11, <1>12, <1>13, <1>14,
     <1>15
  DEF Next, BotStep, Environment

\* From then on nobody buys.
LEMMA NothingBought ==
  ASSUME IInv, ExitErrorInv, exitError, UNCHANGED manualTrades, [Next]_vars
  PROVE  (EX!Deployed)' <= EX!Deployed
<1>t. AccountTyped /\ AccountTyped'
  <2>1. IInv'
    BY NextIInv
  <2> QED
    BY <2>1, TypeParts DEF IInv, TypeOK, AccountTyped
<1>s. ASSUME UNCHANGED exchange
      PROVE  (EX!Deployed)' <= EX!Deployed
  BY <1>s, <1>t, SameShrinks DEF exchange, Shrinks
<1>1. CASE BeginCycle \/ Fetch \/ FetchFails \/ ChooseSignals \/ BeginEntries \/ BeginSeries
           \/ EntriesDone \/ CycleRaises \/ CheckHeld \/ CheckHeldFails \/ PassRaises
           \/ SaleUnrecorded \/ RecordSell \/ RecordBuy \/ FinishCycle \/ Shutdown
  <2>1. UNCHANGED exchange
    BY <1>1 DEF BeginCycle, Fetch, FetchFails, ChooseSignals, BeginEntries, BeginSeries,
                EntriesDone, CycleRaises, CheckHeld, CheckHeldFails, PassRaises,
                SaleUnrecorded, RecordSell, RecordBuy, FinishCycle, Shutdown, Gone
  <2> QED
    BY <2>1, <1>s
<1>2. ASSUME NEW m \in Markets, NEW price, NEW size,
             \/ KeepPosition(m) \/ SkipPosition(m) \/ ReconcileSettled(m) \/ SeriesIdle(m)
             \/ DecideExit(m) \/ SeriesExit(m)
             \/ RefuseEntry(m, price, size) \/ SeriesRefuse(m, price, size)
      PROVE  (EX!Deployed)' <= EX!Deployed
  <2>1. UNCHANGED exchange
    BY <1>2 DEF KeepPosition, SkipPosition, ReconcileSettled, SeriesIdle, DecideExit,
                SeriesExit, RefuseEntry, SeriesRefuse
  <2> QED
    BY <2>1, <1>s
<1>3. CASE SubmitSell
  BY <1>3, SaleShrinks DEF Shrinks
<1>4. ASSUME NEW m \in Markets, NEW side, NEW price, NEW size,
             SubmitBuy(m, side, price, size) \/ SeriesEnter(m, side, price, size)
      PROVE  FALSE
  <2>1. pc \in {"entries", "series"}
    BY <1>4 DEF SubmitBuy, SeriesEnter
  <2> QED
    BY <2>1 DEF ExitErrorInv
<1>5. CASE Terminate \/ CreateStopFile \/ RemoveStopFile \/ Start \/ Crash \/ NextDay
           \/ UNCHANGED vars
  <2>1. UNCHANGED exchange
    BY <1>5 DEF Terminate, CreateStopFile, RemoveStopFile, Start, Crash, Gone, NextDay, vars
  <2> QED
    BY <2>1, <1>s
<1>6. CASE ExchangeStep
  BY <1>6, <1>t, MarketsLive DEF Shrinks
<1>7. \A m, n, price : ~ ManualTrade(m, n, price)
  <2>1. manualTrades \in Nat
    BY TypeParts DEF IInv, TypeOK, OperatorTyped
  <2> QED
    BY <2>1 DEF ManualTrade
<1> QED
  BY <1>1, <1>2, <1>3, <1>4, <1>5, <1>6, <1>7 DEF Next, BotStep, Environment

\* When an exit pass of either strategy has raised, be it between the answer to
\* a sale and its record, the bot's exposure only shrinks for the rest of the
\* cycle: exit_error outlives the signals and the other pass.
THEOREM NoEntryAfterFailedExits == Spec => FailedExitsForbidEntries
<1>1. IInv /\ ExitErrorInv /\ [Next]_vars => ExitErrorInv'
  BY NextExitError
<1>2. IInv /\ ExitErrorInv /\ [Next]_vars
        => [exitError /\ UNCHANGED manualTrades => (EX!Deployed)' <= EX!Deployed]_vars
  BY NothingBought
<1> QED
  BY InitExitError, IInvHolds, <1>1, <1>2, PTL DEF Spec, FailedExitsForbidEntries

-----------------------------------------------------------------------------
(* The entries of a window *)

\* The windows of a series are ordered.
LEMMA SeriesWindows ==
  ASSUME NEW m \in Markets
  PROVE  SeriesOf(m) \in DOMAIN Windows /\ m \in Range(Windows[SeriesOf(m)])
         /\ \A t \in DOMAIN Windows : m \in Range(Windows[t]) => t = SeriesOf(m)
<1>1. PICK s \in DOMAIN Windows : /\ m \in Range(Windows[s])
                                  /\ \A t \in DOMAIN Windows : m \in Range(Windows[t]) => t = s
  BY TradingAssumption
<1>2. SeriesOf(m) \in DOMAIN Windows /\ m \in Range(Windows[SeriesOf(m)])
  BY <1>1 DEF SeriesOf
<1> QED
  BY <1>1, <1>2

LEMMA EarlierInSeries ==
  ASSUME NEW m \in Markets, NEW e \in Markets
  PROVE  /\ Earlier(m, e) => m # e /\ SeriesOf(m) = SeriesOf(e)
         /\ m # e /\ SeriesOf(m) = SeriesOf(e) => Earlier(m, e) \/ Earlier(e, m)
<1>1. ASSUME Earlier(m, e)
      PROVE  m # e /\ SeriesOf(m) = SeriesOf(e)
  <2>1. PICK s \in DOMAIN Windows : \E i, j \in DOMAIN Windows[s] :
               i < j /\ Windows[s][i] = e /\ Windows[s][j] = m
    BY <1>1 DEF Earlier
  <2>2. PICK i, j \in DOMAIN Windows[s] : i < j /\ Windows[s][i] = e /\ Windows[s][j] = m
    BY <2>1
  <2>3. m \in Range(Windows[s]) /\ e \in Range(Windows[s])
    BY <2>2 DEF Range
  <2>4. i \in Nat /\ j \in Nat
    BY <2>2, TradingAssumption
  <2>5. m = e => i = j
    BY <2>2, TradingAssumption
  <2> QED
    BY <2>2, <2>3, <2>4, <2>5, SeriesWindows
<1>2. ASSUME m # e, SeriesOf(m) = SeriesOf(e)
      PROVE  Earlier(m, e) \/ Earlier(e, m)
  <2> DEFINE s == SeriesOf(m)
  <2>1. s \in DOMAIN Windows /\ m \in Range(Windows[s]) /\ e \in Range(Windows[s])
    BY <1>2, SeriesWindows
  <2> HIDE DEF s
  <2>2. PICK i, j \in DOMAIN Windows[s] : Windows[s][i] = e /\ Windows[s][j] = m
    BY <2>1 DEF Range
  <2>3. i \in Nat /\ j \in Nat
    BY <2>1, <2>2, TradingAssumption
  <2>4. i < j \/ j < i
    BY <1>2, <2>2, <2>3
  <2> QED
    BY <2>1, <2>2, <2>4 DEF Earlier
<1> QED
  BY <1>1, <1>2

\* While one window is a candidate, another one that was entered is over.
LEMMA OtherWindowsOver ==
  ASSUME WindowInv, NEW m \in markets, markets \subseteq Markets, NEW x \in Markets \ {m},
         SeriesOf(x) = SeriesOf(m), windowEntries[x] > 0
  PROVE  Over(x)
<1>1. m \in Markets /\ ~ Over(m)
  BY DEF Over
<1>2. Earlier(m, x) \/ Earlier(x, m)
  BY <1>1, EarlierInSeries
<1> QED
  BY <1>1, <1>2 DEF WindowInv, OneWindowAtATime, EnteredInOrder

\* The count of a window is the counter of its series, or nothing.
LEMMA CountOfWindow ==
  ASSUME WindowsTyped, NEW m \in Markets
  PROVE  /\ TradesIn(m) \in 0 .. MAX_TRADES_PER_WINDOW
         /\ tradesInCurrentWindow[SeriesOf(m)] \in 0 .. MAX_TRADES_PER_WINDOW
         /\ TradesIn(m) <= tradesInCurrentWindow[SeriesOf(m)]
         /\ windowEntries[m] \in Nat
<1>1. SeriesOf(m) \in DOMAIN Windows /\ 0 \in 0 .. MAX_TRADES_PER_WINDOW
  BY SeriesOfMarket, ZeroCounts
<1>2. tradesInCurrentWindow[SeriesOf(m)] \in 0 .. MAX_TRADES_PER_WINDOW /\ windowEntries[m] \in Nat
  BY <1>1 DEF WindowsTyped
<1> QED
  BY <1>1, <1>2 DEF TradesIn

\* Looking at a candidate resets the counter when it still belongs to another
\* window, which is over if it was entered at all.
LEMMA RollKeepsCounts ==
  ASSUME WindowInv, WindowsTyped, WindowsTyped', NEW m \in markets, markets \subseteq Markets,
         ~ halted, pc # "bought", RollWindow(m), lastTradeWindow' = lastTradeWindow
  PROVE  /\ \A x \in Markets : windowEntries[x] > TradesIn(x)' => Over(x)
         /\ tradesInCurrentWindow'[SeriesOf(m)] = TradesIn(m)
         /\ windowEntries[m] <= TradesIn(m)
<1>1. m \in Markets /\ SeriesOf(m) \in DOMAIN Windows /\ ~ Over(m)
  BY SeriesOfMarket DEF Over
<1>2. \A x \in Markets : windowEntries[x] > TradesIn(x) => Over(x)
  BY DEF WindowInv, EntriesCounted, Uncounted
<1>3. /\ tradesInCurrentWindow'[SeriesOf(m)] = TradesIn(m)
      /\ \A s \in DOMAIN Windows \ {SeriesOf(m)} :
           tradesInCurrentWindow'[s] = tradesInCurrentWindow[s]
  BY <1>1 DEF RollWindow, WindowsTyped
<1>4. windowEntries[m] <= TradesIn(m)
  <2>1. windowEntries[m] \in Nat /\ TradesIn(m) \in Nat
    BY <1>1, CountOfWindow
  <2> QED
    BY <1>1, <1>2, <2>1
<1>5. ASSUME NEW x \in Markets, windowEntries[x] > TradesIn(x)'
      PROVE  Over(x)
  <2>1. windowEntries[x] \in Nat /\ TradesIn(x) \in Nat
    BY CountOfWindow
  <2>2. CASE SeriesOf(x) # SeriesOf(m)
    <3>1. TradesIn(x)' = TradesIn(x)
      BY <1>3, <2>2, SeriesOfMarket DEF TradesIn
    <3> QED
      BY <1>2, <1>5, <3>1
  <2>3. CASE x = m
    <3>1. TradesIn(m)' = TradesIn(m)
      BY <1>3 DEF TradesIn
    <3> QED
      BY <1>2, <1>5, <2>3, <3>1
  <2>4. CASE x # m /\ SeriesOf(x) = SeriesOf(m)
    <3>1. CASE lastTradeWindow[SeriesOf(m)] = x
      <4>1. TradesIn(m) = 0
        BY <2>4, <3>1 DEF TradesIn
      <4>2. TradesIn(x)' = 0
        BY <1>3, <2>4, <3>1, <4>1 DEF TradesIn
      <4> QED
        BY <1>5, <2>4, <4>2, OtherWindowsOver
    <3>2. CASE lastTradeWindow[SeriesOf(m)] # x
      <4>1. TradesIn(x)' = 0
        BY <2>4, <3>2 DEF TradesIn
      <4> QED
        BY <1>5, <2>4, <4>1, OtherWindowsOver
    <3> QED
      BY <3>1, <3>2
  <2> QED
    BY <2>2, <2>3, <2>4
<1> QED
  BY <1>3, <1>4, <1>5

\* A step that leaves markets and candidates alone, or drops candidates, leaves
\* their order as it is.
LEMMA OrderOfWindowsKept ==
  ASSUME WindowInv, status' = status, markets' \subseteq markets, markets \subseteq Markets
  PROVE  /\ OpenedInOrder' /\ OneWindowAtATime' /\ \A x \in Markets : Over(x) => Over(x)'
<1>1. \A x \in Markets : Over(x) => Over(x)'
  BY DEF Over
<1>2. OpenedInOrder'
  <2>1. OpenedInOrder
    BY DEF WindowInv
  <2> QED
    BY <2>1 DEF OpenedInOrder, Earlier
<1>3. OneWindowAtATime'
  <2>1. OneWindowAtATime
    BY DEF WindowInv
  <2> QED
    BY <1>1, <2>1 DEF OneWindowAtATime, Earlier
<1> QED
  BY <1>1, <1>2, <1>3

\* A step that counts nothing.
LEMMA CountsKept ==
  ASSUME WindowInv, UNCHANGED <<lastTradeWindow, tradesInCurrentWindow, windowEntries>>,
         \A x \in Markets : Over(x) => Over(x)',
         OpenedInOrder', OneWindowAtATime', InMarkets', HaltedStays',
         ~ halted' => ~ halted,
         \A m \in Markets : ~ halted' /\ Uncounted(m) => Uncounted(m)'
  PROVE  WindowInv'
<1>1. EnteredInOrder'
  BY DEF WindowInv, EnteredInOrder, Earlier
<1>2. EntriesCounted'
  <2>1. \A m \in Markets : TradesIn(m)' = TradesIn(m)
    BY DEF TradesIn
  <2>2. EntriesCounted
    BY DEF WindowInv
  <2> QED
    BY <2>1, <2>2 DEF EntriesCounted
<1>3. WindowEntriesBounded'
  BY DEF WindowInv, WindowEntriesBounded
<1> QED
  BY <1>1, <1>2, <1>3 DEF WindowInv

\* The counters of a candidate rolled over, and nothing entered.
LEMMA RollKept ==
  ASSUME WindowInv, WindowsTyped, WindowsTyped', NEW m \in markets, markets \subseteq Markets,
         ~ halted, pc # "bought", RollWindow(m), UNCHANGED <<lastTradeWindow, windowEntries>>,
         OpenedInOrder', OneWindowAtATime', InMarkets', HaltedStays',
         \A x \in Markets : Over(x) => Over(x)'
  PROVE  WindowInv'
<1>1. \A x \in Markets : windowEntries[x] > TradesIn(x)' => Over(x)
  BY RollKeepsCounts
<1>2. EnteredInOrder'
  BY DEF WindowInv, EnteredInOrder, Earlier
<1>3. EntriesCounted'
  BY <1>1 DEF EntriesCounted
<1>4. WindowEntriesBounded'
  BY DEF WindowInv, WindowEntriesBounded
<1> QED
  BY <1>2, <1>3, <1>4 DEF WindowInv

\* A purchase in a window the bot has entered less often than it may.
LEMMA EntryOfWindow ==
  ASSUME IInv, IInv', WindowInv, NEW m \in Markets, NEW side \in Sides, NEW price \in EX!Prices,
         NEW size \in SignalSizes, SeriesEnter(m, side, price, size)
  PROVE  WindowInv'
<1>t. WindowsTyped /\ WindowsTyped' /\ CycleTyped /\ AccountTyped'
  BY TypeParts DEF IInv, TypeOK, WindowsTyped, AccountTyped
<1>1. /\ pc = "series" /\ m \in todo /\ MayEnter(m) /\ PlaceBuy(m, side, price, size)
      /\ RollWindow(m) /\ lastTradeWindow' = lastTradeWindow
      /\ markets' = markets /\ todo' = todo /\ order'.market = m /\ order'.pass = "series"
  BY DEF SeriesEnter, PlaceBuy
<1>2. /\ status' = status
      /\ UNCHANGED <<held, cost>> \/ (pc' = "bought" /\ (response'.fill > 0 \/ ~ response'.ok))
  BY <1>1, <1>t, PurchaseGrows
<1>3. m \in markets /\ markets \subseteq Markets /\ ~ Over(m) /\ ~ halted /\ todo \subseteq markets
  BY <1>1, <1>t DEF WindowInv, InMarkets, HaltedStays, CycleTyped, Over
<1>4. OpenedInOrder' /\ OneWindowAtATime' /\ \A x \in Markets : Over(x) => Over(x)'
  BY <1>1, <1>2, <1>3, OrderOfWindowsKept
<1>5. (pc' = "bought" /\ halted' = halted) \/ (pc' = "end" /\ halted')
  BY <1>1 DEF PlaceBuy, HaltTrading, GoOn
<1>6. InMarkets' /\ HaltedStays'
  BY <1>1, <1>3, <1>5 DEF InMarkets, HaltedStays, InHand
<1>7. /\ \A x \in Markets : windowEntries[x] > TradesIn(x)' => Over(x)
      /\ tradesInCurrentWindow'[SeriesOf(m)] = TradesIn(m)
      /\ windowEntries[m] <= TradesIn(m)
  BY <1>1, <1>3, <1>t, RollKeepsCounts
<1>8. /\ windowEntries[m] \in Nat /\ TradesIn(m) \in Nat /\ MAX_TRADES_PER_WINDOW \in Nat
      /\ TradesIn(m) < MAX_TRADES_PER_WINDOW
  BY <1>1, <1>t, CountOfWindow, Numbers DEF MayEnter
<1>9. /\ \A x \in Markets \ {m} : windowEntries'[x] = windowEntries[x]
      /\ \/ windowEntries'[m] = windowEntries[m]
         \/ /\ windowEntries'[m] = windowEntries[m] + 1
            /\ held' # held \/ response'.fill > 0
  BY <1>t DEF SeriesEnter, WindowsTyped
<1>10. EnteredInOrder'
  <2>1. ASSUME NEW x \in Markets, NEW e \in Markets, Earlier(x, e), windowEntries'[x] > 0
        PROVE  Over(e)
    <3>1. CASE x = m
      BY <1>3, <2>1, <3>1 DEF WindowInv, OneWindowAtATime
    <3>2. CASE x # m
      BY <1>9, <2>1, <3>2 DEF WindowInv, EnteredInOrder
    <3> QED
      BY <3>1, <3>2
  <2> QED
    BY <1>4, <2>1 DEF EnteredInOrder, Earlier
<1>11. EntriesCounted'
  <2>1. SUFFICES ASSUME ~ halted', NEW x \in Markets, windowEntries'[x] > TradesIn(x)'
                 PROVE  \/ Over(x)'
                        \/ /\ Uncounted(x)'
                           /\ windowEntries'[x] <= tradesInCurrentWindow'[SeriesOf(x)] + 1
    BY DEF EntriesCounted
  <2>2. CASE windowEntries'[x] = windowEntries[x]
    BY <1>4, <1>7, <2>1, <2>2
  <2>3. CASE windowEntries'[x] # windowEntries[x]
    <3>1. /\ x = m /\ windowEntries'[m] = windowEntries[m] + 1
          /\ held' # held \/ response'.fill > 0
      BY <1>9, <2>3
    <3>2. response'.fill > 0 \/ ~ response'.ok
      BY <1>2, <3>1
    <3>3. Uncounted(m)'
      BY <1>1, <1>5, <2>1, <3>2 DEF Uncounted
    <3>4. windowEntries'[m] <= tradesInCurrentWindow'[SeriesOf(m)] + 1
      BY <1>7, <1>8, <3>1
    <3> QED
      BY <3>1, <3>3, <3>4
  <2> QED
    BY <2>2, <2>3
<1>12. WindowEntriesBounded'
  <2>1. windowEntries'[m] <= MAX_TRADES_PER_WINDOW
    BY <1>7, <1>8, <1>9
  <2> QED
    BY <1>9, <2>1 DEF WindowInv, WindowEntriesBounded
<1> QED
  BY <1>4, <1>6, <1>10, <1>11, <1>12 DEF WindowInv

\* The entry is counted for the window it was made in.
LEMMA EntryCounted ==
  ASSUME IInv, IInv', WindowInv, RecordBuy
  PROVE  WindowInv'
<1>t. WindowsTyped /\ WindowsTyped' /\ CycleTyped /\ PurchaseInHand
  BY TypeParts DEF IInv, TypeOK, WindowsTyped, OrderInv
<1> DEFINE m == order.market
<1>1. /\ pc = "bought" /\ status' = status /\ markets' = markets /\ ~ halted
      /\ order.market \in Markets /\ order.pass \in {"entries", "series"} /\ markets \subseteq Markets
  BY <1>t DEF RecordBuy, exchange, PurchaseInHand, CycleTyped, WindowInv, HaltedStays
<1>2. OpenedInOrder' /\ OneWindowAtATime' /\ \A x \in Markets : Over(x) => Over(x)'
  BY <1>1, OrderOfWindowsKept
<1>3. CASE ~ response.ok
  <2>1. UNCHANGED windows /\ halted' /\ pc' = "end"
    BY <1>3, OrderActions DEF RecordBuy, BuyCode, HaltTrading
  <2>2. InMarkets' /\ HaltedStays'
    BY <2>1 DEF InMarkets, HaltedStays, InHand
  <2> QED
    BY <1>1, <1>2, <2>1, <2>2, CountsKept DEF windows
<1>4. CASE response.ok
  <2>1. /\ todo' \subseteq todo /\ halted' = halted /\ pc' \in {order.pass, "end"}
        /\ IF response.fill > 0 /\ order.pass = "series"
           THEN CountEntry(order.market) ELSE UNCHANGED windows
    BY <1>4, OrderActions DEF RecordBuy, BuyCode, GoOn
  <2>2. InMarkets' /\ HaltedStays'
    <3>1. pc' = "series" => order.pass = "series"
      BY <2>1
    <3> QED
      BY <1>1, <2>1, <3>1 DEF InMarkets, HaltedStays, InHand, WindowInv
  <2>3. CASE ~ (response.fill > 0 /\ order.pass = "series")
    <3>1. \A x \in Markets : ~ Uncounted(x)
      BY <1>4, <2>3 DEF Uncounted
    <3> QED
      BY <1>1, <1>2, <2>1, <2>2, <2>3, <3>1, CountsKept DEF windows
  <2>4. CASE response.fill > 0 /\ order.pass = "series"
    <3>1. CountEntry(m) /\ m \in markets /\ m \in Markets /\ SeriesOf(m) \in DOMAIN Windows /\ ~ Over(m)
      BY <1>1, <2>1, <2>4, SeriesOfMarket DEF WindowInv, InMarkets, InHand, Over
    <3> HIDE DEF m
    <3>2. /\ lastTradeWindow'[SeriesOf(m)] = m
          /\ tradesInCurrentWindow'[SeriesOf(m)] = tradesInCurrentWindow[SeriesOf(m)] + 1
          /\ \A s \in DOMAIN Windows \ {SeriesOf(m)} :
               /\ lastTradeWindow'[s] = lastTradeWindow[s]
               /\ tradesInCurrentWindow'[s] = tradesInCurrentWindow[s]
          /\ windowEntries' = windowEntries
      BY <1>t, <3>1 DEF CountEntry, WindowsTyped
    <3>3. EnteredInOrder' /\ WindowEntriesBounded'
      BY <1>2, <3>2 DEF WindowInv, EnteredInOrder, WindowEntriesBounded, Earlier
    <3>4. ASSUME NEW x \in Markets, windowEntries[x] > TradesIn(x)'
          PROVE  Over(x)
      <4>1. /\ windowEntries[x] \in Nat /\ TradesIn(x) \in Nat
            /\ tradesInCurrentWindow[SeriesOf(x)] \in Nat
            /\ TradesIn(x) <= tradesInCurrentWindow[SeriesOf(x)]
        BY <1>t, CountOfWindow
      <4>2. windowEntries[x] > TradesIn(x) =>
              Over(x) \/ (Uncounted(x) /\ windowEntries[x] <= tradesInCurrentWindow[SeriesOf(x)] + 1)
        BY <1>1 DEF WindowInv, EntriesCounted
      <4>3. CASE x = m
        <5>1. TradesIn(x)' = tradesInCurrentWindow[SeriesOf(x)] + 1
          BY <3>2, <4>3 DEF TradesIn
        <5> QED
          BY <3>4, <4>1, <4>2, <5>1
      <4>4. CASE SeriesOf(x) # SeriesOf(m)
        <5>1. TradesIn(x)' = TradesIn(x)
          BY <3>2, <4>4, SeriesOfMarket DEF TradesIn
        <5>2. ~ Uncounted(x)
          BY <4>4 DEF Uncounted, m
        <5> QED
          BY <3>4, <4>2, <5>1, <5>2
      <4>5. CASE x # m /\ SeriesOf(x) = SeriesOf(m)
        <5>1. TradesIn(x)' = 0
          BY <3>2, <4>5 DEF TradesIn
        <5> QED
          BY <1>1, <3>1, <3>4, <4>5, <5>1, OtherWindowsOver
      <4> QED
        BY <4>3, <4>4, <4>5
    <3>5. EntriesCounted'
      BY <1>2, <3>2, <3>4 DEF EntriesCounted
    <3> QED
      BY <1>2, <2>2, <3>3, <3>5 DEF WindowInv
  <2> QED
    BY <2>3, <2>4
<1> QED
  BY <1>3, <1>4

LEMMA InitWindow == Init => WindowInv
<1> SUFFICES ASSUME Init
             PROVE  WindowInv
  OBVIOUS
<1>1. /\ \A m \in Markets : status[m] = "future" /\ windowEntries[m] = 0
      /\ pc = "down" /\ halted = FALSE /\ markets = {}
  BY DEF Init, EX!Init
<1>2. OpenedInOrder /\ OneWindowAtATime /\ InMarkets /\ HaltedStays /\ EnteredInOrder
  BY <1>1 DEF OpenedInOrder, OneWindowAtATime, InMarkets, HaltedStays, EnteredInOrder, InHand
<1>3. \A m \in Markets : TradesIn(m) = 0
  BY SeriesOfMarket DEF Init, TradesIn
<1>4. EntriesCounted /\ WindowEntriesBounded
  BY <1>1, <1>3, Numbers DEF EntriesCounted, WindowEntriesBounded
<1> QED
  BY <1>2, <1>4 DEF WindowInv

\* Every step, another trader's on the account included.
LEMMA NextWindow ==
  ASSUME IInv, WindowInv, [Next]_vars
  PROVE  WindowInv'
<1>t. /\ AccountTyped /\ AccountTyped' /\ CycleTyped /\ HandTyped /\ WindowsTyped /\ WindowsTyped'
      /\ SaleInHand /\ PurchaseInHand /\ IInv'
      /\ OpenedInOrder /\ OneWindowAtATime /\ InMarkets /\ HaltedStays /\ markets \subseteq Markets
  <2>1. IInv'
    BY NextIInv
  <2>2. AccountTyped' /\ WindowsTyped'
    BY <2>1 DEF IInv, TypeOK, AccountTyped, WindowsTyped
  <2> QED
    BY <2>1, <2>2, TypeParts DEF IInv, OrderInv, WindowInv, CycleTyped
\* The bot moves on within its cycle and counts nothing.
<1>k. ASSUME UNCHANGED <<status, lastTradeWindow, tradesInCurrentWindow, windowEntries>>,
             markets' \subseteq markets, InMarkets',
             pc \notin {"bought", "down", "idle", "end"},
             halted' = halted \/ (halted' /\ pc' = "end")
      PROVE  WindowInv'
  <2>1. OpenedInOrder' /\ OneWindowAtATime' /\ \A x \in Markets : Over(x) => Over(x)'
    BY <1>k, <1>t, OrderOfWindowsKept
  <2>2. HaltedStays' /\ (~ halted' => ~ halted)
    BY <1>k, <1>t DEF HaltedStays
  <2>3. \A m \in Markets : ~ Uncounted(m)
    BY <1>k DEF Uncounted
  <2> QED
    BY <1>k, <2>1, <2>2, <2>3, CountsKept
\* It looks at a candidate.
<1>r. ASSUME NEW m \in Markets, m \in todo, pc = "series", RollWindow(m),
             UNCHANGED <<status, markets, lastTradeWindow, windowEntries>>,
             todo' \subseteq todo,
             \/ pc' = pc /\ halted' = halted
             \/ halted' /\ pc' = "end"
             \/ pc' \in {"checkHeld", "sold"} /\ halted' = halted
      PROVE  WindowInv'
  <2>1. m \in markets /\ ~ halted /\ todo \subseteq markets
    BY <1>r, <1>t DEF InMarkets, HaltedStays
  <2>2. OpenedInOrder' /\ OneWindowAtATime' /\ \A x \in Markets : Over(x) => Over(x)'
    BY <1>r, <1>t, OrderOfWindowsKept
  <2>3. InMarkets' /\ HaltedStays'
    BY <1>r, <2>1 DEF InMarkets, HaltedStays, InHand
  <2> QED
    BY <1>r, <1>t, <2>1, <2>2, <2>3, RollKept
<1>1. CASE BeginCycle
  <2>1. /\ UNCHANGED <<status, lastTradeWindow, tradesInCurrentWindow, windowEntries>>
        /\ markets' \subseteq ActiveMarkets /\ pc = "idle" /\ pc' \in {"fetch", "end"}
        /\ ~ halted /\ halted' = halted
    BY <1>1 DEF BeginCycle, windows, exchange
  <2>2. \A x \in Markets : Over(x) => Over(x)'
    BY <2>1 DEF Over, ActiveMarkets, EX!OpenMarkets
  <2>3. OpenedInOrder'
    BY <2>1, <1>t DEF OpenedInOrder, Earlier
  <2>4. OneWindowAtATime'
    <3>1. ASSUME NEW m \in markets', NEW e \in Markets, Earlier(m, e)
          PROVE  status[e] \notin {"future", "open"}
      <4>1. m \in ActiveMarkets /\ m \in Markets /\ status[m] = "open"
        BY <2>1 DEF ActiveMarkets, EX!OpenMarkets
      <4>2. status[e] # "future"
        BY <1>t, <3>1, <4>1 DEF OpenedInOrder
      <4>3. status[e] # "open"
        BY <3>1, <4>1 DEF ActiveMarkets, EX!OpenMarkets
      <4> QED
        BY <4>2, <4>3
    <3>2. \A e \in markets' : status[e] = "open"
      BY <2>1 DEF ActiveMarkets, EX!OpenMarkets
    <3> QED
      BY <2>1, <3>1, <3>2 DEF OneWindowAtATime, Over, Earlier
  <2>5. InMarkets' /\ HaltedStays'
    BY <2>1 DEF InMarkets, HaltedStays, InHand
  <2>6. \A m \in Markets : ~ Uncounted(m)
    BY <2>1 DEF Uncounted
  <2> QED
    BY <2>1, <2>2, <2>3, <2>4, <2>5, <2>6, CountsKept
<1>2. CASE Fetch \/ FetchFails \/ CycleRaises \/ CheckHeldFails \/ PassRaises
           \/ ChooseSignals \/ BeginEntries
  <2>1. CASE Fetch
    BY <2>1, <1>k DEF Fetch, windows, exchange, InMarkets, InHand
  <2>2. CASE FetchFails \/ CycleRaises
    BY <2>2, <1>k DEF FetchFails, CycleRaises, windows, exchange, locals, InMarkets, InHand
  <2>3. CASE CheckHeldFails
    BY <2>3, <1>k DEF CheckHeldFails, HaltTrading, windows, exchange, locals, InMarkets, InHand
  <2>4. CASE PassRaises
    BY <2>4, <1>k DEF PassRaises, InPass, windows, control, exchange, InMarkets, InHand
  <2>5. CASE ChooseSignals \/ BeginEntries
    BY <2>5, <1>k DEF ChooseSignals, BeginEntries, windows, exchange, InMarkets, InHand
  <2> QED
    BY <1>2, <2>1, <2>2, <2>3, <2>4, <2>5
<1>3. CASE BeginSeries
  <2>1. InMarkets'
    BY <1>3 DEF BeginSeries, InMarkets, InHand
  <2> QED
    BY <1>3, <2>1, <1>k DEF BeginSeries, windows, exchange
<1>4. CASE EntriesDone
  BY <1>4, <1>k DEF EntriesDone, windows, exchange, locals, InMarkets, InHand
<1>5. ASSUME NEW m \in Markets, NEW price, NEW size,
             \/ KeepPosition(m) \/ SkipPosition(m) \/ ReconcileSettled(m)
             \/ RefuseEntry(m, price, size)
      PROVE  WindowInv'
  <2>1. /\ UNCHANGED <<exchange, windows, markets, pc, halted>>
        /\ pc \in {"exits", "reversals", "entries"}
    BY <1>5 DEF KeepPosition, SkipPosition, ReconcileSettled, RefuseEntry, InPass, control
  <2> QED
    BY <2>1, <1>k DEF exchange, windows, InMarkets, InHand
<1>6. ASSUME NEW m \in Markets, NEW price, NEW size, SeriesIdle(m) \/ SeriesRefuse(m, price, size)
      PROVE  WindowInv'
  <2>1. /\ pc = "series" /\ m \in todo /\ RollWindow(m) /\ todo' \subseteq todo
        /\ UNCHANGED <<exchange, markets, lastTradeWindow, windowEntries, pc, halted>>
    BY <1>6 DEF SeriesIdle, SeriesRefuse, control
  <2> QED
    BY <2>1, <1>r DEF exchange
<1>7. ASSUME NEW m \in Markets, PlaceSell(m)
      PROVE  /\ pc' \in {"end", "sold", "checkHeld"} /\ order'.pass = pc
             /\ (halted' /\ pc' = "end") \/ (halted' = halted /\ pc' \in {"sold", "checkHeld"})
  <2>1. order'.pass = pc
    BY <1>7 DEF PlaceSell
  <2> QED
    BY <1>7, <2>1 DEF PlaceSell, HaltTrading, GoOn
<1>8. ASSUME NEW m \in Markets, DecideExit(m)
      PROVE  WindowInv'
  <2>1. /\ PlaceSell(m) /\ pc \in {"exits", "reversals"}
        /\ UNCHANGED <<exchange, windows, markets, todo>>
    BY <1>8 DEF DecideExit, InPass
  <2>2. InMarkets' /\ (halted' = halted \/ (halted' /\ pc' = "end"))
    BY <2>1, <1>7 DEF InMarkets, InHand
  <2> QED
    BY <2>1, <2>2, <1>k DEF exchange, windows
<1>9. ASSUME NEW m \in Markets, SeriesExit(m)
      PROVE  WindowInv'
  <2>1. /\ PlaceSell(m) /\ pc = "series" /\ m \in todo /\ RollWindow(m)
        /\ UNCHANGED <<exchange, lastTradeWindow, windowEntries, markets, todo>>
    BY <1>9 DEF SeriesExit
  <2> QED
    BY <2>1, <1>7, <1>r DEF exchange
<1>10. CASE CheckHeld
  <2>1. /\ pc = "checkHeld" /\ UNCHANGED <<exchange, windows, markets, halted>>
        /\ todo' \subseteq todo
        /\ pc' = order.pass \/ (pc' = "sell" /\ order'.pass = order.pass)
    <3>1. order \in Orders
      BY <1>t DEF HandTyped
    <3> QED
      BY <1>10, <3>1 DEF CheckHeld, GoOn, Orders
  <2>2. InMarkets'
    BY <2>1, <1>t DEF InMarkets, InHand, SaleInHand
  <2> QED
    BY <2>1, <2>2, <1>k DEF exchange, windows
<1>11. CASE SubmitSell
  <2>1. /\ pc = "sell" /\ pc' = "sold" /\ UNCHANGED <<windows, markets, todo, order, halted>>
        /\ status' = status
    BY <1>11, SaleShrinks DEF SubmitSell, GoOn
  <2>2. InMarkets'
    BY <2>1, <1>t DEF InMarkets, InHand
  <2> QED
    BY <2>1, <2>2, <1>k DEF windows
<1>12. CASE RecordSell
  <2>1. /\ pc = "sold" /\ UNCHANGED <<exchange, windows, markets>> /\ todo' \subseteq todo
        /\ (halted' /\ pc' = "end") \/ (halted' = halted /\ pc' = order.pass)
    BY <1>12 DEF RecordSell, HaltTrading, GoOn
  <2>2. InMarkets'
    BY <2>1, <1>t DEF InMarkets, InHand, SaleInHand
  <2> QED
    BY <2>1, <2>2, <1>k DEF exchange, windows
<1>23. CASE SaleUnrecorded
  <2>1. /\ pc = "sold" /\ UNCHANGED <<exchange, windows, markets>> /\ todo' \subseteq todo
        /\ halted' = halted /\ (pc' = order.pass \/ pc' = "end")
    BY <1>23 DEF SaleUnrecorded, GoOn
  <2>2. InMarkets'
    BY <2>1, <1>t DEF InMarkets, InHand, SaleInHand
  <2> QED
    BY <2>1, <2>2, <1>k DEF exchange, windows
<1>13. ASSUME NEW m \in Markets, NEW side \in Sides, NEW price \in EX!Prices,
              NEW size \in SignalSizes, SubmitBuy(m, side, price, size)
       PROVE  WindowInv'
  <2>1. /\ pc = "entries" /\ PlaceBuy(m, side, price, size)
        /\ UNCHANGED <<windows, markets>> /\ order'.pass = "entries"
    BY <1>13 DEF SubmitBuy, PlaceBuy
  <2>2. status' = status
    BY <2>1, <1>t, PurchaseGrows
  <2>3. (halted' /\ pc' = "end") \/ (halted' = halted /\ pc' = "bought")
    BY <2>1 DEF PlaceBuy, HaltTrading, GoOn
  <2>4. InMarkets'
    BY <2>1, <2>3 DEF InMarkets, InHand
  <2> QED
    BY <2>1, <2>2, <2>3, <2>4, <1>k DEF windows
<1>14. CASE RecordBuy
  BY <1>14, <1>t, EntryCounted
<1>15. CASE FinishCycle
  <2>1. /\ UNCHANGED <<status, lastTradeWindow, tradesInCurrentWindow, windowEntries, halted>>
        /\ markets' = {} /\ pc = "end" /\ pc' = "idle"
    BY <1>15 DEF FinishCycle, ClearLocals, exchange
  <2>2. OpenedInOrder' /\ OneWindowAtATime' /\ \A x \in Markets : Over(x) => Over(x)'
    BY <2>1, <1>t, OrderOfWindowsKept
  <2>3. InMarkets' /\ HaltedStays' /\ \A m \in Markets : ~ Uncounted(m)
    BY <2>1 DEF InMarkets, InHand, HaltedStays, Uncounted
  <2> QED
    BY <2>1, <2>2, <2>3, CountsKept
<1>16. CASE Shutdown \/ Crash
  <2>1. /\ status' = status /\ markets' = {} /\ pc' = "down" /\ halted' = FALSE
        /\ \A m \in Markets : windowEntries'[m] = 0
    BY <1>16 DEF Shutdown, Crash, Gone, ClearLocals, NoEntries, exchange
  <2>2. OpenedInOrder' /\ OneWindowAtATime'
    BY <2>1, <1>t, OrderOfWindowsKept
  <2>3. InMarkets' /\ HaltedStays' /\ EnteredInOrder' /\ WindowEntriesBounded'
    BY <2>1, Numbers DEF InMarkets, InHand, HaltedStays, EnteredInOrder, WindowEntriesBounded
  <2>4. EntriesCounted'
    <3>1. \A m \in Markets : TradesIn(m)' = 0
      BY <1>16, SeriesOfMarket DEF Shutdown, Crash, Gone, NoEntries, TradesIn
    <3> QED
      BY <2>1, <3>1 DEF EntriesCounted
  <2> QED
    BY <2>2, <2>3, <2>4 DEF WindowInv
\* Everybody else leaves the counters, the candidates and the order in hand.
<1>e. ASSUME UNCHANGED <<lastTradeWindow, tradesInCurrentWindow, windowEntries, markets, todo,
                         order, response, pc, halted>>,
             OpenedInOrder', \A x \in Markets : Over(x) => Over(x)'
      PROVE  WindowInv'
  <2>1. OneWindowAtATime'
    BY <1>e, <1>t DEF OneWindowAtATime, Earlier
  <2>2. InMarkets' /\ HaltedStays' /\ \A m \in Markets : Uncounted(m)' = Uncounted(m)
    BY <1>e, <1>t DEF InMarkets, InHand, HaltedStays, Uncounted
  <2> QED
    BY <1>e, <2>1, <2>2, CountsKept
<1>17. CASE Start
  <2>1. /\ UNCHANGED <<exchange, locals, windows, halted>> /\ pc = "down" /\ pc' = "idle"
    BY <1>17 DEF Start
  <2>2. OpenedInOrder' /\ OneWindowAtATime' /\ \A x \in Markets : Over(x) => Over(x)'
    BY <2>1, <1>t, OrderOfWindowsKept DEF exchange, locals
  <2>3. InMarkets' /\ HaltedStays' /\ \A m \in Markets : ~ Uncounted(m)
    BY <2>1 DEF InMarkets, InHand, HaltedStays, Uncounted
  <2> QED
    BY <2>1, <2>2, <2>3, CountsKept DEF windows
<1>18. ASSUME UNCHANGED <<locals, windows, pc, halted>>, status' = status
       PROVE  WindowInv'
  <2>1. OpenedInOrder' /\ \A x \in Markets : Over(x) => Over(x)'
    BY <1>18, <1>t, OrderOfWindowsKept DEF locals
  <2> QED
    BY <1>18, <2>1, <1>e DEF locals, windows
<1>19. CASE Terminate \/ CreateStopFile \/ RemoveStopFile \/ NextDay \/ UNCHANGED vars
  BY <1>19, <1>18 DEF Terminate, CreateStopFile, RemoveStopFile, NextDay, control, vars, exchange
<1>20. ASSUME NEW m \in Markets, NEW n, NEW price, ManualTrade(m, n, price)
       PROVE  WindowInv'
  BY <1>20, <1>18 DEF ManualTrade, control, EX!Trade
<1>21. CASE ExchangeStep
  <2>1. UNCHANGED <<locals, windows, control>>
    BY <1>21 DEF ExchangeStep
  <2>2. PICK m \in Markets :
          /\ \A x \in Markets \ {m} : status'[x] = status[x]
          /\ \/ /\ status[m] = "future" /\ status'[m] = "open"
                /\ \A e \in Markets : Earlier(m, e) => status[e] # "future"
             \/ status[m] = "open" /\ status'[m] = "closed"
             \/ status[m] = "closed" /\ status'[m] \in {"yes", "no"}
    BY <1>21, <1>t, MarketsLive
  <2>3. \A x \in Markets : Over(x) => Over(x)'
    BY <2>1, <2>2 DEF Over, locals
  <2>4. OpenedInOrder'
    BY <2>2, <1>t DEF OpenedInOrder, Earlier
  <2> QED
    BY <2>1, <2>3, <2>4, <1>e DEF locals, windows, control
<1>22. ASSUME NEW m \in Markets, NEW side \in Sides, NEW price \in EX!Prices,
              NEW size \in SignalSizes, SeriesEnter(m, side, price, size)
       PROVE  WindowInv'
  BY <1>22, <1>t, EntryOfWindow
<1> QED
  BY <1>1, <1>2, <1>3, <1>4, <1>5, <1>6, <1>8, <1>9, <1>10, <1>11, <1>12, <1>13, <1>14, <1>15,
     <1>16, <1>17, <1>19, <1>20, <1>21, <1>22, <1>23
  DEF Next, BotStep, Environment

\* One process buys at most MAX_TRADES_PER_WINDOW times in a 15-minute window,
\* although _trades_in_current_window is one counter for all windows of a
\* series, reset whenever the bot looks at another one, and although the answer
\* to an order may get lost after the exchange acted.
THEOREM WindowEntriesAreBounded == Spec => []WindowEntriesBounded
<1>1. IInv /\ WindowInv /\ [Next]_vars => WindowInv'
  BY NextWindow
<1>2. WindowInv => WindowEntriesBounded
  BY DEF WindowInv
<1> QED
  BY InitWindow, IInvHolds, <1>1, <1>2, PTL DEF Spec

-----------------------------------------------------------------------------
(* Books and account *)

\* Nothing, bought or sold, is nothing.
LEMMA NothingSigned ==
  ASSUME NEW side, NEW a \in Int, a <= 0, a >= 0
  PROVE  EX!Signed(side, a) = 0
<1>1. ASSUME NEW x \in Int, x <= 0, x >= 0
      PROVE  x = 0
  BY <1>1
<1>2. -a \in Int /\ -a <= 0 /\ -a >= 0
  OBVIOUS
<1> QED
  BY <1>1, <1>2 DEF EX!Signed

LEMMA ZeroSigned == \A side : EX!Signed(side, 0) = 0
<1>1. 0 \in Int /\ 0 <= 0 /\ 0 >= 0
  OBVIOUS
<1> QED
  BY <1>1, NothingSigned

LEMMA SignedArithmetic ==
  ASSUME NEW side, NEW a \in Int, NEW b \in Int
  PROVE  /\ EX!Signed(side, a) \in Int
         /\ EX!Signed(side, a) + EX!Signed(side, (-1) * b) = EX!Signed(side, a - b)
         /\ EX!Signed(side, EX!Signed(side, a)) = a
         /\ EX!Abs(EX!Signed(side, a)) = EX!Abs(a)
<1>1. CASE side = "yes"
  <2>1. a + (-1) * b = a - b
    OBVIOUS
  <2> QED
    BY <1>1, <2>1 DEF EX!Signed
<1>2. CASE side # "yes"
  <2>1. -a + -((-1) * b) = -(a - b) /\ -(-a) = a /\ -a \in Int
    OBVIOUS
  <2>2. EX!Abs(-a) = EX!Abs(a)
    BY DEF EX!Abs
  <2> QED
    BY <1>2, <2>1, <2>2 DEF EX!Signed
<1> QED
  BY <1>1, <1>2

\* A holding shrinks in proportion to its cost.
LEMMA CostShare ==
  ASSUME NEW q \in Nat \ {0}, NEW p \in Nat, NEW l \in Nat
  PROVE  ((q * p) * l) \div q = l * p
<1>1. (q * p) * l = q * (l * p) /\ l * p \in Nat
  OBVIOUS
<1> DEFINE n == l * p
<1>2. n \in Nat
  BY <1>1
<1> HIDE DEF n
<1>3. (q * n) \div q = n
  BY <1>2
<1> QED
  BY <1>1, <1>3 DEF n

\* A sale of a position at its price.
LEMMA SoldExactly ==
  ASSUME AccountTyped, NEW m \in Markets, NEW side, NEW q \in Nat, NEW p \in Nat,
         NEW k \in 0 .. q, NEW price \in Nat,
         Matches(m, side, q, p), EX!Trade(m, EX!Signed(side, (-1) * k), price)
  PROVE  held'[m] = EX!Signed(side, q - k) /\ cost'[m] = (q - k) * p
<1> DEFINE n == EX!Signed(side, (-1) * k)
           old == EX!Signed(side, q)
           left == EX!Signed(side, q - k)
           paid == IF old * n >= 0 THEN cost[m] + EX!Abs(n) * price
                   ELSE IF EX!Abs(n) <= EX!Abs(old) THEN (cost[m] * EX!Abs(left)) \div EX!Abs(old)
                   ELSE EX!Abs(left) * price
<1>1. /\ held[m] = old /\ cost[m] = q * p /\ old \in Int /\ q * p \in Nat /\ old + n = left
      /\ k \in Nat /\ k <= q /\ q - k \in Nat
  BY SignedArithmetic DEF Matches
<1>2. EX!Abs(n) = k /\ EX!Abs(old) = q /\ EX!Abs(left) = q - k
  <2>1. EX!Abs((-1) * k) = k /\ EX!Abs(q) = q /\ EX!Abs(q - k) = q - k
    BY <1>1 DEF EX!Abs
  <2> QED
    BY <1>1, <2>1, SignedArithmetic
<1>3. held'[m] = left /\ cost'[m] = paid
  <2>1. held' = [held EXCEPT ![m] = left] /\ cost' = [cost EXCEPT ![m] = paid]
    BY <1>1 DEF EX!Trade
  <2> HIDE DEF left, paid
  <2> QED
    BY <2>1 DEF AccountTyped
<1>4. CASE k = 0
  <2>1. n = 0 /\ old * n = 0
    <3>1. (-1) * k \in Int /\ (-1) * k <= 0 /\ (-1) * k >= 0
      BY <1>1, <1>4
    <3>2. n = 0
      BY <3>1, NothingSigned
    <3> QED
      BY <1>1, <3>2
  <2>2. paid = q * p + 0 * price
    BY <1>1, <1>2, <1>4, <2>1
  <2>3. 0 * price = 0 /\ (q - k) * p = q * p
    BY <1>4
  <2> QED
    BY <1>1, <1>3, <2>2, <2>3
<1>5. CASE k # 0
  <2>1. old * n < 0
    <3>1. (old = q /\ n = -k) \/ (old = -q /\ n = k)
      BY <1>1 DEF EX!Signed
    <3>2. q * k > 0
      BY <1>1, <1>5
    <3>3. q * (-k) = -(q * k) /\ (-q) * k = -(q * k) /\ q * k \in Int
      BY <1>1
    <3> QED
      BY <3>1, <3>2, <3>3
  <2>2. ~ (old * n >= 0)
    <3>1. old * n \in Int
      BY <1>1 DEF EX!Signed
    <3> QED
      BY <2>1, <3>1
  <2>3. paid = ((q * p) * (q - k)) \div q
    BY <1>1, <1>2, <2>2
  <2>4. q \in Nat \ {0} /\ q - k \in Nat
    BY <1>1, <1>5
  <2>5. ((q * p) * (q - k)) \div q = (q - k) * p
    <3> DEFINE l == q - k
    <3>1. l \in Nat
      BY <2>4
    <3> HIDE DEF l
    <3>2. ((q * p) * l) \div q = l * p
      BY <2>4, <3>1, CostShare
    <3> QED
      BY <3>2 DEF l
  <2> HIDE DEF paid, left
  <2>6. cost'[m] = (q - k) * p
    BY <1>3, <2>3, <2>5
  <2>7. held'[m] = EX!Signed(side, q - k)
    BY <1>3 DEF left
  <2> QED
    BY <2>6, <2>7
<1> QED
  BY <1>4, <1>5

\* A purchase in a market the account does not hold.
LEMMA BoughtExactly ==
  ASSUME AccountTyped, NEW m \in Markets, NEW side, NEW k \in Nat, NEW price \in Nat,
         held[m] = 0, cost[m] = 0, EX!Trade(m, EX!Signed(side, 1 * k), price)
  PROVE  held'[m] = EX!Signed(side, k) /\ cost'[m] = k * price
<1> DEFINE n == EX!Signed(side, k)
<1>1. n \in Int /\ EX!Signed(side, 1 * k) = n /\ EX!Abs(n) = k
  BY DEF EX!Signed, EX!Abs
<1>2. EX!Trade(m, n, price)
  BY <1>1
<1> HIDE DEF n
<1>3. 0 + n = n /\ 0 * n >= 0 /\ 0 + k * price = k * price
  BY <1>1
<1>4. held' = [held EXCEPT ![m] = n] /\ cost' = [cost EXCEPT ![m] = k * price]
  BY <1>1, <1>2, <1>3 DEF EX!Trade
<1> QED
  BY <1>4 DEF AccountTyped, n

\* What the books are behind a market they do not track.
LEMMA NothingHeld ==
  ASSUME NEW m, NEW side, NEW p \in Nat
  PROVE  Matches(m, side, 0, p) <=> held[m] = 0 /\ cost[m] = 0
<1>1. 0 * p = 0 /\ EX!Signed(side, 0) = 0
  BY ZeroSigned
<1>2. Matches(m, side, 0, p) <=> held[m] = EX!Signed(side, 0) /\ cost[m] = 0 * p
  BY DEF Matches
<1> QED
  BY <1>1, <1>2

LEMMA PositionTyped ==
  ASSUME IInv, NEW m \in Markets
  PROVE  /\ openPositions[m].quantity \in Nat /\ openPositions[m].entryPrice \in Nat
         /\ ~ RM!Tracked(m) => openPositions[m].quantity = 0
         /\ openPositions[m] \in RM!Position
<1>1. openPositions[m] \in RM!Position
  BY DEF IInv, TypeOK, RM!TypeOK
<1> QED
  BY <1>1, Numbers DEF RM!Position, RM!Tracked

\* A step between orders that touches neither books nor account.
LEMMA MatchKept ==
  ASSUME MatchInv, UNCHANGED <<exchange, openPositions, restarts>>,
         pc \notin {"down", "sold", "bought"}, pc' \notin {"sold", "bought"},
         halted' = halted \/ halted', pc' = "sell" => ~ order'.clamped
  PROVE  MatchInv'
<1>1. UNCHANGED <<status, held, cost>>
  BY DEF exchange
<1>2. SettledEmpty' /\ FreshAccount'
  BY <1>1 DEF MatchInv, SettledEmpty, FreshAccount, EX!Settled
<1>3. BooksMatch'
  <2>1. ASSUME ~ halted, NEW m \in Markets
        PROVE  EX!Settled(m)' \/ Booked(m)'
    <3>1. EX!Settled(m) \/ Booked(m)
      BY <2>1 DEF MatchInv, BooksMatch, InOrder
    <3> QED
      BY <1>1, <3>1 DEF EX!Settled, Booked, Matches
  <2>2. SaleAnswered' /\ PurchaseAnswered'
    BY DEF SaleAnswered, PurchaseAnswered
  <2> QED
    BY <2>1, <2>2 DEF BooksMatch
<1> QED
  BY <1>2, <1>3 DEF MatchInv

\* A step of somebody else that touches neither.
LEMMA MatchUntouched ==
  ASSUME MatchInv, UNCHANGED <<exchange, openPositions, restarts, pc, order, response, halted>>
  PROVE  MatchInv'
<1>1. UNCHANGED <<status, held, cost>>
  BY DEF exchange
<1>2. SettledEmpty' /\ FreshAccount'
  BY <1>1 DEF MatchInv, SettledEmpty, FreshAccount, EX!Settled
<1>3. BooksMatch'
  BY <1>1 DEF MatchInv, BooksMatch, EX!Settled, InOrder, Booked, Matches, SaleAnswered,
              PurchaseAnswered
<1> QED
  BY <1>2, <1>3 DEF MatchInv

\* Once halted, the bot only has its process to end.
LEMMA MatchHalted ==
  ASSUME MatchInv, UNCHANGED <<exchange, restarts>>, pc # "down", halted'
  PROVE  MatchInv'
<1>1. SettledEmpty' /\ FreshAccount' /\ BooksMatch'
  BY DEF MatchInv, SettledEmpty, FreshAccount, BooksMatch, EX!Settled, exchange
<1> QED
  BY <1>1 DEF MatchInv

\* What the account holds is what the books say, so no sale is clamped.
LEMMA NeverClamped ==
  ASSUME IInv, MatchInv, CheckHeld, ~ halted
  PROVE  pc' = "sell" => ~ order'.clamped
<1> DEFINE m == order.market
           p == openPositions[m]
           onSide == EX!HeldOnSide(m, order.side)
<1>1. /\ pc = "checkHeld" /\ m \in Markets /\ order.side = p.side /\ order.quantity \in 1 .. p.quantity
      /\ p.quantity \in Nat /\ order \in Orders /\ order.pass # "sell"
  BY PositionTyped, TypeParts DEF CheckHeld, IInv, OrderInv, SaleInHand, HandTyped
<1>2. CASE EX!Settled(m)
  <2>1. held[m] = 0
    BY <1>1, <1>2 DEF MatchInv, SettledEmpty
  <2>2. EX!Signed(order.side, held[m]) = 0
    BY <2>1, ZeroSigned
  <2>3. onSide = 0
    BY <2>2 DEF EX!HeldOnSide
  <2>4. pc' = order.pass
    BY <2>3 DEF CheckHeld, GoOn
  <2> QED
    BY <1>1, <2>4
<1>3. CASE ~ EX!Settled(m)
  <2>1. held[m] = EX!Signed(p.side, p.quantity)
    BY <1>1, <1>3 DEF MatchInv, BooksMatch, InOrder, Booked, Matches
  <2>2. EX!Signed(order.side, held[m]) = p.quantity /\ EX!Abs(held[m]) = EX!Abs(p.quantity)
    BY <1>1, <2>1, SignedArithmetic
  <2>3. EX!Abs(p.quantity) = p.quantity /\ p.quantity > 0
    BY <1>1 DEF EX!Abs
  <2>4. onSide = p.quantity
    BY <2>2, <2>3 DEF EX!HeldOnSide
  <2>5. ~ (onSide < order.quantity)
    BY <1>1, <2>4
  <2>6. pc' = "sell" => order'.clamped = (onSide < order.quantity)
    <3> HIDE DEF onSide
    <3>1. CASE onSide = 0
      <4>1. pc' = order.pass
        BY <3>1 DEF CheckHeld, GoOn, onSide
      <4> QED
        BY <1>1, <4>1
    <3>2. CASE onSide # 0
      <4>1. order' = [order EXCEPT !.quantity = EX!Least(@, onSide),
                                   !.clamped = onSide < order.quantity]
        BY <3>2 DEF CheckHeld, onSide
      <4> QED
        BY <1>1, <4>1 DEF Orders
    <3> QED
      BY <3>1, <3>2
  <2> QED
    BY <2>5, <2>6
<1> QED
  BY <1>2, <1>3

\* What the exchange did with an order.
LEMMA Executed ==
  ASSUME NEW side, NEW sign, NEW fills, Execute(side, sign, fills)
  PROVE  \/ status[order'.market] # "open" /\ ~ response'.ok /\ UNCHANGED exchange
         \/ /\ status[order'.market] = "open"
            /\ \E f \in fills :
                 /\ EX!Trade(order'.market, EX!Signed(side, sign * f.fill), f.price)
                 /\ ~ response'.ok \/ (response'.fill = f.fill /\ response'.price = f.price)
BY DEF Execute, Filled, Failed

\* A trade in one market leaves the others matched.
LEMMA OthersMatched ==
  ASSUME MatchInv, AccountTyped, NEW m \in Markets, NEW n, NEW price, EX!Trade(m, n, price),
         status[m] = "open", UNCHANGED <<openPositions, restarts>>, pc \notin {"down", "sold", "bought"},
         ~ halted
  PROVE  /\ SettledEmpty' /\ FreshAccount' /\ status' = status
         /\ \A x \in Markets \ {m} : EX!Settled(x)' \/ Booked(x)'
<1>1. status' = status /\ \A x \in Markets \ {m} : held'[x] = held[x] /\ cost'[x] = cost[x]
  BY DEF EX!Trade, AccountTyped
<1>2. SettledEmpty' /\ FreshAccount'
  BY <1>1 DEF MatchInv, SettledEmpty, FreshAccount, EX!Settled
<1>3. \A x \in Markets \ {m} : EX!Settled(x) \/ Booked(x)
  BY DEF MatchInv, BooksMatch, InOrder
<1> QED
  BY <1>1, <1>2, <1>3 DEF EX!Settled, Booked, Matches

\* The answer to a sale says what is left.
LEMMA SaleMatched ==
  ASSUME IInv, MatchInv, SubmitSell, ~ halted
  PROVE  MatchInv'
<1>t. AccountTyped /\ HandTyped /\ SaleInHand
  BY TypeParts DEF IInv, OrderInv
<1> DEFINE m == order.market
           p == openPositions[m]
           fills == EX!SellFills(m, order.side, order.quantity, order.limit)
<1>1. /\ pc = "sell" /\ pc' = "sold" /\ order' = order /\ halted' = halted
      /\ UNCHANGED <<openPositions, restarts>>
      /\ m \in Markets /\ order.side = p.side /\ order.quantity \in 1 .. p.quantity
      /\ order.limit \in RM!Prices /\ p.quantity \in Nat /\ p.entryPrice \in Nat
      /\ ~ order.clamped
  BY <1>t, PositionTyped DEF SubmitSell, GoOn, SaleInHand, books, MatchInv, BooksMatch
<1>2. /\ m = order'.market
      /\ Execute(order.side, -1, fills)
  BY <1>1 DEF SubmitSell
<1>3. \A f \in fills : f.fill \in Nat /\ f.fill <= order.quantity /\ f.price \in RM!Prices
  BY <1>1, <1>t, FillTypes DEF HandTyped, Orders
<1>4. \A x \in Markets : EX!Settled(x) \/ Booked(x)
  BY <1>1 DEF MatchInv, BooksMatch, InOrder
<1> HIDE DEF fills
<1>5. PurchaseAnswered'
  BY <1>1 DEF PurchaseAnswered
<1>6. CASE ~ response'.ok /\ UNCHANGED exchange
  <2>1. SettledEmpty' /\ FreshAccount'
    BY <1>1, <1>6 DEF MatchInv, SettledEmpty, FreshAccount, EX!Settled, exchange
  <2>2. \A x \in Markets : EX!Settled(x)' \/ Booked(x)'
    BY <1>1, <1>4, <1>6 DEF EX!Settled, Booked, Matches, exchange
  <2>3. SaleAnswered'
    BY <1>6 DEF SaleAnswered
  <2> QED
    BY <1>1, <1>5, <2>1, <2>2, <2>3 DEF MatchInv, BooksMatch
<1>7. ASSUME NEW f \in fills, status[m] = "open",
             EX!Trade(m, EX!Signed(order.side, (-1) * f.fill), f.price),
             ~ response'.ok \/ (response'.fill = f.fill /\ response'.price = f.price)
      PROVE  MatchInv'
  <2>1. /\ SettledEmpty' /\ FreshAccount' /\ status' = status
        /\ \A x \in Markets \ {m} : EX!Settled(x)' \/ Booked(x)'
    <3> HIDE DEF m
    <3> QED
      BY <1>1, <1>7, <1>t, OthersMatched
  <2>2. f.fill \in 0 .. p.quantity /\ f.price \in Nat
    BY <1>1, <1>3 DEF RM!Prices
  <2>3. Matches(m, order.side, p.quantity, p.entryPrice)
    BY <1>1, <1>4, <1>7 DEF EX!Settled, Booked
  <2>4. held'[m] = EX!Signed(order.side, p.quantity - f.fill)
        /\ cost'[m] = (p.quantity - f.fill) * p.entryPrice
    <3> DEFINE side == order.side
               q == p.quantity
               price == p.entryPrice
               k == f.fill
    <3>1. /\ m \in Markets /\ q \in Nat /\ price \in Nat /\ k \in 0 .. q /\ f.price \in Nat
          /\ Matches(m, side, q, price) /\ EX!Trade(m, EX!Signed(side, (-1) * k), f.price)
      BY <1>1, <1>7, <2>2, <2>3
    <3> HIDE DEF m, side, q, price, k
    <3>2. held'[m] = EX!Signed(side, q - k) /\ cost'[m] = (q - k) * price
      BY <1>t, <3>1, SoldExactly
    <3> QED
      BY <3>2 DEF side, q, price, k
  <2>5. SaleAnswered'
    BY <1>1, <1>7, <2>4 DEF SaleAnswered, Matches
  <2> QED
    BY <1>1, <1>5, <2>1, <2>5 DEF MatchInv, BooksMatch, InOrder
<1>8. \/ ~ response'.ok /\ UNCHANGED exchange
      \/ /\ status[m] = "open"
         /\ \E f \in fills :
              /\ EX!Trade(m, EX!Signed(order.side, (-1) * f.fill), f.price)
              /\ ~ response'.ok \/ (response'.fill = f.fill /\ response'.price = f.price)
  BY <1>2, Executed
<1> QED
  BY <1>6, <1>7, <1>8

\* The answer to a purchase says what is held now.
LEMMA PurchaseMatched ==
  ASSUME "dry_run" \notin Modes, IInv, MatchInv, pc \in {"entries", "series"}, ~ halted,
         NEW m \in Markets, NEW side \in Sides, NEW price \in EX!Prices, NEW size \in SignalSizes,
         PlaceBuy(m, side, price, size)
  PROVE  MatchInv'
<1>t. AccountTyped /\ ControlTyped
  BY TypeParts DEF IInv
<1> DEFINE fills == EX!BuyFills(order'.quantity, price)
           p == openPositions[m]
<1>1. /\ UNCHANGED <<openPositions, restarts>>
      /\ order' = [market |-> m, side |-> side, quantity |-> Contracts(size, price),
                   limit |-> price, clamped |-> FALSE, pass |-> pc]
      /\ ~ RM!Tracked(m)
  BY DEF PlaceBuy, RM!ResetDailyIfNeeded, RM!Approved
<1>2. mode # "dry_run"
  BY <1>t DEF ControlTyped
<1>3. CASE HaltTrading /\ UNCHANGED exchange
  BY <1>1, <1>3, MatchHalted DEF HaltTrading
<1>4. CASE pc' = "bought" /\ halted' = halted /\ Execute(side, 1, fills)
  <2>1. /\ order'.market = m /\ order'.side = side /\ price \in RM!Prices
        /\ order'.quantity \in 1 .. MAX_TRADE_DOLLARS
    <3>1. Contracts(size, price) \in 1 .. MAX_TRADE_DOLLARS
      BY ContractsBounded DEF PlaceBuy
    <3> QED
      BY <1>1, <3>1, Numbers
  <2>2. \A f \in fills : f.fill \in Nat /\ f.price \in RM!Prices
    <3>1. order'.quantity \in Nat
      BY <2>1
    <3> QED
      BY <2>1, <3>1, FillTypes
  <2>3. \A x \in Markets : EX!Settled(x) \/ Booked(x)
    BY DEF MatchInv, BooksMatch, InOrder
  <2> HIDE DEF fills
  <2>4. SaleAnswered'
    BY <1>4 DEF SaleAnswered
  <2>5. CASE ~ response'.ok /\ UNCHANGED exchange
    <3>1. SettledEmpty' /\ FreshAccount'
      BY <1>1, <2>5 DEF MatchInv, SettledEmpty, FreshAccount, EX!Settled, exchange
    <3>2. \A x \in Markets : EX!Settled(x)' \/ Booked(x)'
      BY <1>1, <2>3, <2>5 DEF EX!Settled, Booked, Matches, exchange
    <3>3. PurchaseAnswered'
      BY <2>5 DEF PurchaseAnswered
    <3> QED
      BY <1>4, <2>4, <3>1, <3>2, <3>3 DEF MatchInv, BooksMatch
  <2>6. ASSUME NEW f \in fills, status[m] = "open",
               EX!Trade(m, EX!Signed(side, 1 * f.fill), f.price),
               ~ response'.ok \/ (response'.fill = f.fill /\ response'.price = f.price)
        PROVE  MatchInv'
    <3>1. /\ SettledEmpty' /\ FreshAccount' /\ status' = status
          /\ \A x \in Markets \ {m} : EX!Settled(x)' \/ Booked(x)'
      BY <1>1, <1>t, <2>6, OthersMatched
    <3>2. f.fill \in Nat /\ f.price \in Nat
      BY <2>2 DEF RM!Prices
    <3>3. held[m] = 0 /\ cost[m] = 0
      <4>1. p.quantity = 0 /\ p.entryPrice \in Nat
        BY <1>1, PositionTyped
      <4>2. Matches(m, p.side, p.quantity, p.entryPrice)
        BY <2>3, <2>6 DEF EX!Settled, Booked
      <4> HIDE DEF p
      <4> QED
        BY <4>1, <4>2, NothingHeld
    <3>4. held'[m] = EX!Signed(side, f.fill) /\ cost'[m] = f.fill * f.price
      BY <1>t, <2>6, <3>2, <3>3, BoughtExactly
    <3>5. PurchaseAnswered'
      BY <2>1, <2>6, <3>4 DEF PurchaseAnswered, Matches
    <3> QED
      BY <1>4, <2>1, <2>4, <3>1, <3>5 DEF MatchInv, BooksMatch, InOrder
  <2>7. \/ ~ response'.ok /\ UNCHANGED exchange
        \/ /\ status[m] = "open"
           /\ \E f \in fills :
                /\ EX!Trade(m, EX!Signed(side, 1 * f.fill), f.price)
                /\ ~ response'.ok \/ (response'.fill = f.fill /\ response'.price = f.price)
    BY <1>4, <2>1, Executed
  <2> QED
    BY <2>5, <2>6, <2>7
<1> QED
  BY <1>2, <1>3, <1>4 DEF PlaceBuy, GoOn

\* Recording the answer brings the books up to the account.
LEMMA RecordMatched ==
  ASSUME MatchInv, NEW m \in Markets, order.market = m, pc \in {"sold", "bought"}, ~ halted,
         UNCHANGED <<exchange, restarts>>, pc' \notin {"sell", "sold", "bought"},
         \A x \in Markets \ {m} : openPositions'[x] = openPositions[x],
         EX!Settled(m) \/ Matches(m, openPositions'[m].side, openPositions'[m].quantity,
                                  openPositions'[m].entryPrice)
  PROVE  MatchInv'
<1>1. UNCHANGED <<status, held, cost>>
  BY DEF exchange
<1>2. SettledEmpty' /\ FreshAccount'
  BY <1>1 DEF MatchInv, SettledEmpty, FreshAccount, EX!Settled
<1>3. ASSUME NEW x \in Markets
      PROVE  EX!Settled(x)' \/ Booked(x)'
  <2>1. CASE x = m
    BY <1>1, <2>1 DEF EX!Settled, Booked, Matches
  <2>2. CASE x # m
    <3>1. EX!Settled(x) \/ Booked(x)
      BY <2>2 DEF MatchInv, BooksMatch, InOrder
    <3> QED
      BY <1>1, <2>2, <3>1 DEF EX!Settled, Booked, Matches
  <2> QED
    BY <2>1, <2>2
<1> QED
  BY <1>2, <1>3 DEF MatchInv, BooksMatch, SaleAnswered, PurchaseAnswered

LEMMA SaleRecorded ==
  ASSUME IInv, MatchInv, RecordSell, ~ halted
  PROVE  MatchInv'
<1>t. SaleInHand /\ HandTyped /\ RM!TypeOK
  BY TypeParts DEF IInv, OrderInv
<1> DEFINE m == order.market
           p == openPositions[m]
<1>1. /\ pc = "sold" /\ UNCHANGED exchange /\ m \in Markets /\ order.quantity \in 1 .. p.quantity
      /\ response.fill <= order.quantity /\ response.fill \in Nat /\ ~ order.clamped
      /\ order.pass \in {"exits", "reversals", "series"}
      /\ p.quantity \in Nat /\ p.entryPrice \in Nat /\ p \in RM!Position
  BY <1>t, PositionTyped DEF RecordSell, SaleInHand, HandTyped, MatchInv, BooksMatch
<1>2. CASE ~ response.ok
  <2>1. halted' /\ UNCHANGED books
    BY <1>2, OrderActions DEF RecordSell, SellCode, HaltTrading
  <2> QED
    BY <1>1, <2>1, MatchHalted DEF books
<1>3. CASE response.ok
  <2>1. EX!Settled(m) \/ Matches(m, p.side, p.quantity - response.fill, p.entryPrice)
    BY <1>1, <1>3 DEF MatchInv, BooksMatch, SaleAnswered
  <2>2. /\ pc' = order.pass
        /\ IF response.fill > 0 THEN RM!RecordExit(m, response.fill, response.price)
           ELSE UNCHANGED books
    BY <1>1, <1>3, OrderActions DEF RecordSell, SellCode, GoOn
  <2>3. CASE ~ response.fill > 0
    <3>1. p.quantity - response.fill = p.quantity
      BY <1>1, <2>3
    <3>2. UNCHANGED <<openPositions, restarts>>
      BY <2>2, <2>3 DEF books
    <3> QED
      BY <1>1, <2>1, <2>2, <3>1, <3>2, RecordMatched
  <2>4. CASE response.fill > 0
    <3>1. /\ openPositions' = [openPositions EXCEPT ![m] = RM!Shrunk(p, response.fill)]
          /\ restarts' = restarts
      BY <2>2, <2>4 DEF RM!RecordExit
    <3>2. /\ openPositions'[m] = RM!Shrunk(p, response.fill)
          /\ \A x \in Markets \ {m} : openPositions'[x] = openPositions[x]
      BY <1>1, <1>t, <3>1 DEF RM!TypeOK
    <3>3. EX!Settled(m) \/ Matches(m, openPositions'[m].side, openPositions'[m].quantity,
                                   openPositions'[m].entryPrice)
      <4>1. CASE p.quantity > response.fill
        <5>1. openPositions'[m] = [p EXCEPT !.quantity = @ - response.fill]
          BY <3>2, <4>1 DEF RM!Shrunk
        <5>2. /\ openPositions'[m].side = p.side /\ openPositions'[m].entryPrice = p.entryPrice
              /\ openPositions'[m].quantity = p.quantity - response.fill
          BY <1>1, <5>1 DEF RM!Position
        <5> QED
          BY <2>1, <5>2
      <4>2. CASE ~ p.quantity > response.fill
        <5>1. openPositions'[m] = RM!NoPosition
          BY <3>2, <4>2 DEF RM!Shrunk
        <5>2. /\ openPositions'[m].quantity = 0 /\ openPositions'[m].entryPrice = 0
          BY <5>1 DEF RM!NoPosition
        <5>3. p.quantity - response.fill = 0
          BY <1>1, <4>2
        <5>4. EX!Settled(m) \/ (held[m] = 0 /\ cost[m] = 0)
          <6> HIDE DEF m, p
          <6> QED
            BY <1>1, <2>1, <5>3, NothingHeld
        <5>5. 0 \in Nat
          OBVIOUS
        <5> HIDE DEF m
        <5> QED
          BY <5>2, <5>4, <5>5, NothingHeld
      <4> QED
        BY <4>1, <4>2
    <3>4. pc' \notin {"sell", "sold", "bought"}
      BY <1>1, <2>2
    <3> HIDE DEF m
    <3> QED
      BY <1>1, <3>1, <3>2, <3>3, <3>4, RecordMatched DEF m
  <2> QED
    BY <2>3, <2>4
<1> QED
  BY <1>2, <1>3

LEMMA PurchaseRecorded ==
  ASSUME IInv, MatchInv, RecordBuy, ~ halted
  PROVE  MatchInv'
<1>t. PurchaseInHand /\ HandTyped /\ RM!TypeOK
  BY TypeParts DEF IInv, OrderInv
<1> DEFINE m == order.market
           p == openPositions[m]
<1>1. /\ pc = "bought" /\ UNCHANGED exchange /\ m \in Markets /\ ~ RM!Tracked(m)
      /\ response.fill \in Nat /\ response.price \in Nat
      /\ order.pass \in {"entries", "series"}
      /\ p.quantity = 0 /\ p.entryPrice \in Nat
  BY <1>t, PositionTyped, Numbers DEF RecordBuy, PurchaseInHand, HandTyped
<1>2. CASE ~ response.ok
  <2>1. halted' /\ UNCHANGED books
    BY <1>2, OrderActions DEF RecordBuy, BuyCode, HaltTrading
  <2> QED
    BY <1>1, <2>1, MatchHalted DEF books
<1>3. CASE response.ok
  <2>1. EX!Settled(m) \/ Matches(m, order.side, response.fill, response.price)
    BY <1>1, <1>3 DEF MatchInv, BooksMatch, PurchaseAnswered
  <2>2. /\ pc' \in {"entries", "series", "end"}
        /\ IF response.fill > 0
           THEN RM!RecordEntry(m, order.side, response.fill, response.price)
           ELSE UNCHANGED books
    BY <1>1, <1>3, OrderActions DEF RecordBuy, BuyCode, GoOn
  <2>3. CASE ~ response.fill > 0
    <3>1. response.fill = 0
      BY <1>1, <2>3
    <3>2. UNCHANGED <<openPositions, restarts>>
      BY <2>2, <2>3 DEF books
    <3>3. EX!Settled(m) \/ Matches(m, p.side, p.quantity, p.entryPrice)
      <4> HIDE DEF m, p
      <4> QED
        BY <1>1, <2>1, <3>1, NothingHeld
    <3> QED
      BY <1>1, <2>2, <3>2, <3>3, RecordMatched
  <2>4. CASE response.fill > 0
    <3>1. /\ openPositions' = [openPositions EXCEPT ![m] =
                [side |-> order.side, quantity |-> response.fill, entryPrice |-> response.price]]
          /\ restarts' = restarts
      BY <2>2, <2>4 DEF RM!RecordEntry
    <3>2. /\ openPositions'[m] =
                [side |-> order.side, quantity |-> response.fill, entryPrice |-> response.price]
          /\ \A x \in Markets \ {m} : openPositions'[x] = openPositions[x]
      BY <1>1, <1>t, <3>1 DEF RM!TypeOK
    <3>3. /\ openPositions'[m].side = order.side /\ openPositions'[m].quantity = response.fill
          /\ openPositions'[m].entryPrice = response.price
      BY <3>2
    <3>4. EX!Settled(m) \/ Matches(m, openPositions'[m].side, openPositions'[m].quantity,
                                   openPositions'[m].entryPrice)
      BY <2>1, <3>3
    <3> QED
      BY <1>1, <2>2, <3>1, <3>2, <3>4, RecordMatched
  <2> QED
    BY <2>3, <2>4
<1> QED
  BY <1>2, <1>3

LEMMA InitMatch == Init => MatchInv
<1> SUFFICES ASSUME Init
             PROVE  MatchInv
  OBVIOUS
<1>1. pc = "down" /\ \A m \in Markets : held[m] = 0 /\ cost[m] = 0
  BY DEF Init, EX!Init
<1> QED
  BY <1>1 DEF MatchInv, SettledEmpty, FreshAccount, BooksMatch

\* Every step of the one process, and of everybody but another trader.
LEMMA NextMatch ==
  ASSUME MaxRestarts = 1, {"manual", "record"} \cap Faults = {}, "dry_run" \notin Modes,
         IInv, WindowInv, MatchInv, [Next]_vars
  PROVE  MatchInv'
<1>t. /\ AccountTyped /\ AccountTyped' /\ ControlTyped /\ HandTyped /\ RM!TypeOK
      /\ SaleInHand /\ PurchaseInHand /\ BooksAlive
      /\ (halted => pc \in {"end", "idle"}) /\ halted \in BOOLEAN
  <2>1. IInv'
    BY NextIInv
  <2>2. AccountTyped'
    BY <2>1 DEF IInv, TypeOK, AccountTyped
  <2> QED
    BY <2>2, TypeParts DEF IInv, OrderInv, WindowInv, HaltedStays, ControlTyped
<1>b. /\ RM!GetCurrentDatetime => UNCHANGED <<openPositions, restarts>>
      /\ RM!ResetDailyIfNeeded => UNCHANGED <<openPositions, restarts>>
      /\ RM!EndCycle => UNCHANGED <<openPositions, restarts>>
      /\ UNCHANGED books => UNCHANGED <<openPositions, restarts>>
  BY DEF RM!GetCurrentDatetime, RM!ResetDailyIfNeeded, RM!EndCycle, books
<1>1. CASE BeginCycle
  <2>1. /\ UNCHANGED <<exchange, openPositions, restarts, halted>>
        /\ pc = "idle" /\ pc' \in {"fetch", "end"}
    BY <1>1, <1>b DEF BeginCycle
  <2> QED
    BY <2>1, MatchKept
<1>2. CASE Fetch \/ FetchFails \/ CycleRaises \/ EntriesDone
  <2>1. /\ UNCHANGED <<exchange, openPositions, restarts, halted>>
        /\ pc \in {"fetch", "exits", "entries", "series"} /\ pc' \in {"exits", "end"}
    BY <1>2, <1>b DEF Fetch, FetchFails, CycleRaises, EntriesDone
  <2> QED
    BY <2>1, MatchKept
<1>3. CASE ChooseSignals \/ BeginEntries \/ BeginSeries
  <2>1. /\ UNCHANGED <<exchange, openPositions, restarts, halted>>
        /\ pc \in {"exits", "reversals"} /\ pc' \in {"reversals", "entries", "series", "end"}
    BY <1>3, <1>b DEF ChooseSignals, BeginEntries, BeginSeries
  <2> QED
    BY <2>1, MatchKept
<1>4. CASE PassRaises
  <2>1. /\ UNCHANGED <<exchange, openPositions, restarts, halted, pc>>
        /\ pc \in {"exits", "reversals"}
    BY <1>4, <1>b DEF PassRaises, InPass, control
  <2> QED
    BY <2>1, MatchKept
<1>5. CASE CheckHeldFails
  <2>1. UNCHANGED <<exchange, openPositions, restarts>> /\ pc = "checkHeld" /\ halted'
    BY <1>5, <1>b DEF CheckHeldFails, HaltTrading
  <2> QED
    BY <2>1, MatchHalted
<1>6. ASSUME NEW m \in Markets, NEW price, NEW size,
             \/ KeepPosition(m) \/ SkipPosition(m) \/ SeriesIdle(m)
             \/ RefuseEntry(m, price, size) \/ SeriesRefuse(m, price, size)
      PROVE  MatchInv'
  <2>1. /\ UNCHANGED <<exchange, openPositions, restarts, halted, pc>>
        /\ pc \in {"exits", "reversals", "entries", "series"}
    BY <1>6, <1>b DEF KeepPosition, SkipPosition, SeriesIdle, RefuseEntry, SeriesRefuse, InPass, control
  <2> QED
    BY <2>1, MatchKept
<1>7. ASSUME NEW m \in Markets, DecideExit(m) \/ SeriesExit(m)
      PROVE  MatchInv'
  <2>1. /\ UNCHANGED <<exchange, openPositions, restarts>> /\ PlaceSell(m)
        /\ pc \in {"exits", "reversals", "series"}
    BY <1>7, <1>b DEF DecideExit, SeriesExit, InPass
  <2>2. mode # "dry_run"
    BY <1>t DEF ControlTyped
  <2>3. halted' \/ (halted' = halted /\ pc' = "checkHeld")
    BY <2>1, <2>2 DEF PlaceSell, HaltTrading, GoOn
  <2>4. CASE halted'
    BY <2>1, <2>4, MatchHalted
  <2>5. CASE halted' = halted /\ pc' = "checkHeld"
    BY <2>1, <2>5, MatchKept
  <2> QED
    BY <2>3, <2>4, <2>5
<1>8. ASSUME NEW m \in Markets, ReconcileSettled(m)
      PROVE  MatchInv'
  <2>1. /\ UNCHANGED <<exchange, pc, halted>> /\ pc = "exits" /\ EX!Settled(m)
        /\ \E x : RM!RecordExit(m, openPositions[m].quantity, x)
    BY <1>8 DEF ReconcileSettled, control
  <2>2. restarts' = restarts /\ \A x \in Markets \ {m} : openPositions'[x] = openPositions[x]
    BY <2>1, <1>t DEF RM!RecordExit, RM!TypeOK
  <2>3. SettledEmpty' /\ FreshAccount'
    BY <2>1, <2>2 DEF MatchInv, SettledEmpty, FreshAccount, EX!Settled, exchange
  <2>4. ASSUME NEW x \in Markets
        PROVE  EX!Settled(x)' \/ Booked(x)'
    <3>1. CASE x = m
      BY <2>1, <3>1 DEF EX!Settled, exchange
    <3>2. CASE x # m
      <4>1. EX!Settled(x) \/ Booked(x)
        BY <1>t, <2>1 DEF MatchInv, BooksMatch, InOrder
      <4> QED
        BY <2>1, <2>2, <3>2, <4>1 DEF EX!Settled, Booked, Matches, exchange
    <3> QED
      BY <3>1, <3>2
  <2> QED
    BY <2>1, <2>3, <2>4 DEF MatchInv, BooksMatch, SaleAnswered, PurchaseAnswered
<1>9. CASE CheckHeld
  <2>1. /\ UNCHANGED <<exchange, openPositions, restarts, halted>> /\ pc = "checkHeld" /\ ~ halted
        /\ pc' \in {order.pass, "sell"}
    BY <1>9, <1>b, <1>t DEF CheckHeld, GoOn
  <2>2. pc' \notin {"sold", "bought"}
    BY <2>1, <1>t DEF SaleInHand
  <2>3. pc' = "sell" => ~ order'.clamped
    BY <1>9, <2>1, NeverClamped
  <2> QED
    BY <2>1, <2>2, <2>3, MatchKept
<1>10. CASE SubmitSell
  <2>1. ~ halted
    BY <1>10, <1>t DEF SubmitSell
  <2> QED
    BY <1>10, <2>1, SaleMatched
<1>11. CASE RecordSell
  <2>1. ~ halted
    BY <1>11, <1>t DEF RecordSell
  <2> QED
    BY <1>11, <2>1, SaleRecorded
<1>12. ASSUME NEW m \in Markets, NEW side \in Sides, NEW price \in EX!Prices,
              NEW size \in SignalSizes,
              SubmitBuy(m, side, price, size) \/ SeriesEnter(m, side, price, size)
       PROVE  MatchInv'
  <2>1. PlaceBuy(m, side, price, size) /\ pc \in {"entries", "series"}
    BY <1>12 DEF SubmitBuy, SeriesEnter
  <2> QED
    BY <2>1, <1>t, PurchaseMatched
<1>13. CASE RecordBuy
  <2>1. ~ halted
    BY <1>13, <1>t DEF RecordBuy
  <2> QED
    BY <1>13, <2>1, PurchaseRecorded
<1>14. CASE FinishCycle
  <2>1. /\ UNCHANGED <<exchange, openPositions, restarts, halted>> /\ pc = "end" /\ pc' = "idle"
    BY <1>14, <1>b DEF FinishCycle
  <2> QED
    BY <2>1, MatchKept
<1>15. CASE Shutdown \/ Crash
  <2>1. /\ UNCHANGED <<exchange, restarts>> /\ pc # "down" /\ pc' = "down"
    BY <1>15, <1>t DEF Shutdown, Crash, Gone, RM!Stop, RM!Crash, RM!MemoryGone, BooksAlive
  <2> QED
    BY <2>1 DEF MatchInv, SettledEmpty, FreshAccount, BooksMatch, EX!Settled, exchange
\* Only the first process starts, and it finds an empty account.
<1>16. CASE Start
  <2>1. /\ UNCHANGED <<exchange, halted>> /\ pc = "down" /\ pc' = "idle"
        /\ restarts < MaxRestarts /\ restarts' = restarts + 1
        /\ openPositions' = [m \in Markets |-> RM!NoPosition]
    BY <1>16 DEF Start, RM!Start
  <2>2. restarts = 0 /\ restarts' # 0
    BY <2>1, <1>t DEF RM!TypeOK
  <2>3. SettledEmpty' /\ FreshAccount'
    BY <2>1, <2>2 DEF MatchInv, SettledEmpty, FreshAccount, EX!Settled, exchange
  <2>4. ASSUME NEW m \in Markets
        PROVE  Booked(m)'
    <3>1. held'[m] = 0 /\ cost'[m] = 0
      BY <2>1, <2>2 DEF MatchInv, FreshAccount, exchange
    <3>2. openPositions'[m].quantity = 0 /\ openPositions'[m].entryPrice = 0
      BY <2>1 DEF RM!NoPosition
    <3>3. EX!Signed(openPositions'[m].side, 0) = 0 /\ 0 * 0 = 0
      BY ZeroSigned
    <3> QED
      BY <3>1, <3>2, <3>3 DEF Booked, Matches
  <2> QED
    BY <2>1, <2>3, <2>4 DEF MatchInv, BooksMatch, SaleAnswered, PurchaseAnswered
<1>17. CASE Terminate \/ CreateStopFile \/ RemoveStopFile \/ NextDay \/ UNCHANGED vars
  <2>1. UNCHANGED <<exchange, openPositions, restarts, pc, order, response, halted>>
    BY <1>17, <1>b DEF Terminate, CreateStopFile, RemoveStopFile, NextDay, RM!NextDay, RM!memory,
                       locals, control, vars
  <2> QED
    BY <2>1, MatchUntouched
<1>18. CASE ExchangeStep
  <2>1. UNCHANGED <<openPositions, restarts, pc, order, response, halted>>
    BY <1>18, <1>b DEF ExchangeStep, locals, control
  <2>2. PICK m \in Markets :
          /\ \A x \in Markets \ {m} :
               status'[x] = status[x] /\ held'[x] = held[x] /\ cost'[x] = cost[x]
          /\ \/ EX!OpenMarket(m) \/ EX!CloseMarket(m)
             \/ \E r \in {"yes", "no"} : EX!SettleMarket(m, r)
    BY <1>18, <1>t DEF ExchangeStep, EX!OpenMarket, EX!CloseMarket, EX!SettleMarket,
                       EX!account, AccountTyped
  <2>3. /\ \A x \in Markets : EX!Settled(x) => EX!Settled(x)' /\ held'[x] = held[x]
        /\ \A x \in Markets : ~ EX!Settled(x)' => held'[x] = held[x] /\ cost'[x] = cost[x]
        /\ \A x \in Markets : EX!Settled(x)' => EX!Settled(x) \/ held'[x] = 0
        /\ \A x \in Markets : held[x] = 0 /\ cost[x] = 0 => held'[x] = 0 /\ cost'[x] = 0
    <3>1. CASE EX!OpenMarket(m) \/ EX!CloseMarket(m)
      <4>1. UNCHANGED <<held, cost>> /\ ~ EX!Settled(m) /\ ~ EX!Settled(m)'
        BY <1>t, <3>1 DEF EX!OpenMarket, EX!CloseMarket, EX!account, EX!Settled, AccountTyped
      <4> QED
        BY <2>2, <4>1 DEF EX!Settled
    <3>2. CASE \E r \in {"yes", "no"} : EX!SettleMarket(m, r)
      <4>1. ~ EX!Settled(m) /\ EX!Settled(m)' /\ held'[m] = 0 /\ cost'[m] = 0
        BY <1>t, <3>2 DEF EX!SettleMarket, EX!Settled, AccountTyped
      <4> QED
        BY <2>2, <4>1 DEF EX!Settled
    <3> QED
      BY <2>2, <3>1, <3>2
  <2>4. SettledEmpty' /\ FreshAccount'
    BY <2>1, <2>3 DEF MatchInv, SettledEmpty, FreshAccount
  <2>5. ASSUME pc # "down", ~ halted
        PROVE  /\ \A x \in Markets : EX!Settled(x)' \/ InOrder(x)' \/ Booked(x)'
               /\ (pc \in {"sell", "sold"} => ~ order.clamped)
               /\ SaleAnswered' /\ PurchaseAnswered'
    <3>1. /\ \A x \in Markets : EX!Settled(x) \/ InOrder(x) \/ Booked(x)
          /\ (pc \in {"sell", "sold"} => ~ order.clamped)
          /\ SaleAnswered /\ PurchaseAnswered
      BY <2>5 DEF MatchInv, BooksMatch
    <3>2. \A x \in Markets : EX!Settled(x)' \/ InOrder(x)' \/ Booked(x)'
      BY <2>1, <2>3, <3>1 DEF InOrder, Booked, Matches
    <3>3. pc \in {"sold", "bought"} => order.market \in Markets
      BY <1>t DEF SaleInHand, PurchaseInHand
    <3>4. SaleAnswered'
      BY <2>1, <2>3, <3>1, <3>3 DEF SaleAnswered, Matches
    <3>5. PurchaseAnswered'
      BY <2>1, <2>3, <3>1, <3>3 DEF PurchaseAnswered, Matches
    <3> QED
      BY <3>1, <3>2, <3>4, <3>5
  <2> QED
    BY <2>1, <2>4, <2>5 DEF MatchInv, BooksMatch
<1>19. ~ SaleUnrecorded /\ \A m, n, price : ~ ManualTrade(m, n, price)
  BY DEF SaleUnrecorded, ManualTrade
<1> QED
  BY <1>1, <1>2, <1>3, <1>4, <1>5, <1>6, <1>7, <1>8, <1>9, <1>10, <1>11, <1>12, <1>13, <1>14,
     <1>15, <1>16, <1>17, <1>18, <1>19
  DEF Next, BotStep, Environment

\* For one live process and no other trader, the risk manager's positions are
\* the account: after every partial fill, unfilled order, failed call and
\* exception that leaves no answer unrecorded, whatever opened, closed or settled between an order and its answer.
\* A lost answer makes them differ, and halts the bot.
THEOREM BooksMatchTheExchange ==
  ASSUME MaxRestarts = 1, {"manual", "record"} \cap Faults = {}, "dry_run" \notin Modes
  PROVE  Spec => []BooksMatchExchange
<1>1. IInv /\ WindowInv /\ MatchInv /\ [Next]_vars => MatchInv'
  BY NextMatch
<1>2. IInv /\ WindowInv /\ [Next]_vars => WindowInv'
  BY NextWindow
<1>3. MatchInv => BooksMatchExchange
  BY DEF MatchInv, BooksMatch, BooksMatchExchange, InOrder, Booked, Matches
<1> QED
  BY InitMatch, InitWindow, IInvHolds, <1>1, <1>2, <1>3, PTL DEF Spec

=============================================================================
