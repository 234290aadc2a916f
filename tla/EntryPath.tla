------------------------------- MODULE EntryPath -------------------------------
(***************************************************************************)
(* One contract's way through the bot: from the book to a signal, to an    *)
(* order on the exchange's single YES book, to the fill the exchange       *)
(* reports, to the position and the PnL the bot books for it.              *)
(*                                                                         *)
(* Where a price is translated decides whether the books are right: the    *)
(* signal's price is in cents of its own side, the order's and the fill's  *)
(* are in cents of YES, the position's is in cents of its own side again.  *)
(* Whether the risk manager allows the entry is the subject of             *)
(* TradingCycle; here it always does.                                      *)
(***************************************************************************)
EXTENDS EntryDecision

CONSTANTS
  Books,              \* the levels of each side, worst first
  Momenta,
  StaleQuotes,        \* what the legacy fields may hold from before
  MAX_TRADE_DOLLARS,  \* in cents
  PartFills,          \* fills of an order other than none and all
  Improvements,       \* half cents by which an average fill may beat its limit
  ExitBids,           \* the best bid when an exit triggers
  MaxSales            \* bounds the orders that close a position

\* A book has one level of a price.  A position is sold at the best bid of its
\* side, which is a price.
ASSUME EntryAssumption ==
  /\ Books \subseteq [BookSides -> Seq([price : 1 .. Payout - 1, size : Nat])]
  /\ \A book \in Books, side \in BookSides : \A i, j \in DOMAIN book[side] :
       book[side][i].price = book[side][j].price => i = j
  /\ Momenta \subseteq -MomentumSteps .. MomentumSteps
  /\ StaleQuotes \subseteq [BookSides -> [bid : 0 .. Payout - 1, ask : 0 .. Payout - 1]]
  /\ MAX_TRADE_DOLLARS \in Nat
  /\ PartFills \subseteq Nat \ {0}
  /\ Improvements \subseteq Nat
  /\ ExitBids \subseteq 1 .. Payout - 1
  /\ MaxSales \in Nat

VARIABLES
  phase,
  view,               \* the book and the momentum the signal comes from
  signal,
  order,              \* the order in flight: the bot's terms and the payload
  account,            \* what the exchange holds: positive for YES
  paid,               \* what a contract of it cost, in half cents of its side
  position,           \* what the bot tracks
  earned,             \* what the closed parts made, in half cents per fill
  booked,             \* what the log says they made, in cents
  sold, sales,        \* fills and orders of the closed parts
  averagesSent        \* whether every fill came with its average price

books == <<account, paid, position, earned, booked, sold, sales, averagesSent>>
vars == <<phase, view, signal, order, books>>

NoView == [book |-> [side \in BookSides |-> <<>>], momentum |-> 0]
NoOrder == [side |-> "none", action |-> "none", limit |-> 0, count |-> 0,
            bookSide |-> "none", price |-> 0]
NoPosition == [side |-> "none", quantity |-> 0, entryPrice |-> 0]

\* REST lists the worst bid first, the WebSocket client the best one.
Listings(book) == {book, [side \in BookSides |-> Reverse(book[side])]}

\* The signal of a cycle: an unusable book is skipped.
SignalFrom(listed, legacy, momentum) ==
  LET quotes == _quotes_from_orderbook(listed)
  IN  IF Usable(quotes) THEN generate_signal(Quoted(quotes, legacy), listed, momentum)
      ELSE NoSignal

\* Mutant: only the price of a NO order is turned around, not its direction.
OnYesBookSameDirection(side, action, limit) ==
  [bookSide |-> IF action = "buy" THEN "bid" ELSE "ask",
   price |-> IF side = "yes" THEN limit ELSE Payout - limit]

\* _build_order_payload: every order is a bid or an ask for YES.
OnYesBook(side, action, limit) ==
  [bookSide |-> IF (side = "yes") = (action = "buy") THEN "bid" ELSE "ask",
   price |-> IF side = "yes" THEN limit ELSE Payout - limit]

Order(side, action, limit, count) ==
  LET payload == OnYesBook(side, action, limit)
  IN  [side |-> side, action |-> action, limit |-> limit, count |-> count,
       bookSide |-> payload.bookSide, price |-> payload.price]

\* Mutant: the average fill price of a NO order is not turned around.
SideCentsUnmirrored(side, average) == (average + 1) \div 2

\* _submit_order: the average, in half cents of YES, rounded half up to a cent
\* and turned around for NO.
SideCents(side, average) ==
  IF side = "yes" THEN (average + 1) \div 2 ELSE Payout - (average + 1) \div 2

\* _order_fill_info: without an average, or at an average of 0, the submitted
\* price stands in.
FillPrice(reported) ==
  LET cents == SideCents(order.side, reported.average)
  IN  IF reported.averageSent /\ cents # 0 THEN cents ELSE order.limit

\* Mutant: a part's PnL is cut to whole cents.
compute_pnl_cents_cut(entryPrice, exitPrice, size) ==
  ((exitPrice - entryPrice) * size) \div Unit

\* Rounded to a cent, half to even, as Python does.
compute_pnl_cents(entryPrice, exitPrice, size) ==
  LET whole == ((exitPrice - entryPrice) * size) \div Unit
      rest == ((exitPrice - entryPrice) * size) % Unit
  IN  IF 2 * rest > Unit \/ (2 * rest = Unit /\ whole % 2 = 1) THEN whole + 1 ELSE whole

-----------------------------------------------------------------------------
\* What the exchange may report of the order in flight.  An immediate-or-cancel
\* order fills in part or not at all, at its price or better, and a sale only
\* reduces.
Averages ==
  {IF order.bookSide = "bid" THEN 2 * order.price - better ELSE 2 * order.price + better :
     better \in Improvements} \cap 2 .. 2 * (Payout - 1)

Reports ==
  {r \in [fill : {0, order.count} \cup {f \in PartFills : f < order.count},
          average : Averages, averageSent : BOOLEAN] :
     r.fill = 0 => ~ r.averageSent /\ r.average = 2 * order.price}

\* A fill of n moves the account on the YES book.
Moved(n) == IF order.bookSide = "bid" THEN account + n ELSE account - n

\* In half cents of the side the account holds.
OwnSide(holding, average) == IF holding > 0 THEN average ELSE 2 * Payout - average

-----------------------------------------------------------------------------
Init ==
  /\ phase = "quoted"
  /\ view \in [book : Books, momentum : Momenta]
  /\ signal = NoSignal
  /\ order = NoOrder
  /\ account = 0
  /\ paid = 0
  /\ position = NoPosition
  /\ earned = 0
  /\ booked = 0
  /\ sold = 0
  /\ sales = 0
  /\ averagesSent = TRUE

Evaluate ==
  /\ phase = "quoted"
  /\ \E listed \in Listings(view.book), legacy \in StaleQuotes :
       signal' = SignalFrom(listed, legacy, view.momentum)
  /\ phase' = "signalled"
  /\ UNCHANGED <<view, order, books>>

\* calculate_contracts and _compute_trade_contracts.
Contracts(price, size) == Smaller(size, MAX_TRADE_DOLLARS \div price)

\* _try_enter up to the order.
PlaceBuy ==
  /\ phase = "signalled"
  /\ signal.size > 0
  /\ Contracts(signal.price, signal.size) >= 1
  /\ order' = Order(signal.side, "buy", signal.price,
                    Contracts(signal.price, signal.size) * Unit)
  /\ phase' = "buying"
  /\ UNCHANGED <<view, signal, books>>

\* The rest of _try_enter.  What led to the order no longer matters.
Bought ==
  /\ phase = "buying"
  /\ \E r \in Reports :
       /\ account' = Moved(r.fill)
       /\ paid' = IF r.fill = 0 THEN 0 ELSE OwnSide(account', r.average)
       /\ position' = IF r.fill = 0 THEN NoPosition
                      ELSE [side |-> order.side, quantity |-> r.fill,
                            entryPrice |-> FillPrice(r)]
       /\ averagesSent' = (r.fill > 0 => r.averageSent)
       /\ phase' = IF r.fill = 0 THEN "flat" ELSE "holding"
  /\ view' = NoView
  /\ signal' = NoSignal
  /\ UNCHANGED <<order, earned, booked, sold, sales>>

\* _manage_single_position: a limit a cent below the bid, for all that is
\* tracked.
PlaceSell ==
  /\ phase = "holding"
  /\ sales < MaxSales
  /\ \E bid \in ExitBids :
       order' = Order(position.side, "sell", Larger(1, bid - 1), position.quantity)
  /\ phase' = "selling"
  /\ UNCHANGED <<view, signal, books>>

\* The exit record and its row of the log; an exit in part shrinks the position.
Sold ==
  /\ phase = "selling"
  /\ \E r \in Reports :
       /\ account' = Moved(r.fill)
       /\ earned' = earned + (OwnSide(account, r.average) - paid) * r.fill
       /\ booked' = IF r.fill = 0 THEN booked
                    ELSE booked + compute_pnl_cents(position.entryPrice, FillPrice(r), r.fill)
       /\ sold' = sold + r.fill
       /\ position' = IF r.fill = position.quantity THEN NoPosition
                      ELSE [position EXCEPT !.quantity = @ - r.fill]
       /\ averagesSent' = (averagesSent /\ (r.fill > 0 => r.averageSent))
       /\ phase' = IF r.fill = position.quantity THEN "flat" ELSE "holding"
  /\ sales' = sales + 1
  /\ UNCHANGED <<view, signal, order, paid>>

Next == Evaluate \/ PlaceBuy \/ Bought \/ PlaceSell \/ Sold

Spec == Init /\ [][Next]_vars

-----------------------------------------------------------------------------
\* What the model expects a purchase of C contracts to make, in parts of a cent,
\* told in the terms of the side that is bought and of the view it is based on:
\* its worth to the model, its price and the fees both ways.
Market == Quoted(_quotes_from_orderbook(view.book),
                 [side \in BookSides |-> [bid |-> None, ask |-> None]])
Den == Composite(view.momentum, view.book).den
Part == 2 * Den

OwnWorth(side) ==
  LET yes == ModelYes(Market, Composite(view.momentum, view.book))
  IN  IF side = "yes" THEN yes ELSE Payout * Part - yes

ExpectedNet(side, price, C) ==
  C * (OwnWorth(side) - price * Part) - (Fee(C, price) + Fee(C, Payout \div 2)) * Part

\* README.md:45-52 and strategy.py:256-285.  A signal to buy has its edge on the
\* side it buys, earns its minimum after the fees of its size, and is not in
\* the forbidden band, whichever side it is on.
SignalHasEdge ==
  signal.size > 0 =>
    /\ OwnWorth(signal.side) - signal.price * Part >= MIN_EDGE_PCT * Part
    /\ ExpectedNet(signal.side, signal.price, signal.size)
         >= signal.size * MIN_EXPECTED_NET_PER_CONTRACT * Part
    /\ LET yes == IF signal.side = "yes" THEN signal.price ELSE Payout - signal.price
       IN  yes <= FORBIDDEN_PRICE_LOW \/ yes >= FORBIDDEN_PRICE_HIGH

\* strategy.py:330-346, bot.py:79-87.  Fees are rounded up per order and checked
\* for the size of the signal; the dollar cap shrinks the order afterwards.
\* That costs the whole order less than the two cents of the rounding.
CapCostsRoundingOnly ==
  phase = "buying" =>
    LET C == order.count \div Unit
    IN  /\ C * order.limit <= MAX_TRADE_DOLLARS
        /\ ExpectedNet(order.side, order.limit, C)
             > (C * MIN_EXPECTED_NET_PER_CONTRACT - 2) * Part

\* orderbook_utils.py:74-82, bot.py:739-747.  The signal depends on the book's
\* levels alone: not on whether they came over REST or the WebSocket, and not on
\* quotes the market dict still holds from before.
SignalFromBookAlone ==
  phase = "quoted" =>
    \A one, other \in Listings(view.book), legacy, stale \in StaleQuotes :
      SignalFrom(one, legacy, view.momentum) = SignalFrom(other, stale, view.momentum)

\* kalshi_client.py:613-650.  What the bot tracks is what the account holds, on
\* the same side, through the translation to YES orders and back.
TracksAccount ==
  account = IF position.side = "no" THEN -position.quantity ELSE position.quantity

\* bot.py:899, bot.py:437.  What a purchase paid is, in cents of its side, at
\* most the signal's price; and the entry price the exits compare with is at most
\* half a cent from the truth when the exchange says what it was, and never
\* further below it.
EntryPriceHonest ==
  position # NoPosition =>
    /\ 2 * position.entryPrice >= paid - 1
    /\ phase = "holding" /\ sales = 0 => paid <= 2 * order.limit
    /\ averagesSent => 2 * position.entryPrice <= paid + 1

\* risk_manager.py:30-42, bot.py:269, kalshi_client.py:697-702.  The PnL that the
\* daily loss limit counts stays within half a cent per closed part, and half a
\* cent per contract for each of the two average prices, of what the parts
\* really made.  A missing average only makes it lower.
BookedPnlHonest ==
  LET drift == booked * 2 * Unit - earned
      allowed == sales * Unit + 2 * sold
  IN  /\ drift <= allowed
      /\ averagesSent => drift >= -allowed
=============================================================================
