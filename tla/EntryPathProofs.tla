---------------------------- MODULE EntryPathProofs ----------------------------
(***************************************************************************)
(* Proofs about EntryPath, for all books, limits, fills and prices: that   *)
(* prices, sides and the booked PnL survive the way through the exchange's *)
(* YES book, and that a signal is what the book's levels make it, with the *)
(* edge it claims.                                                         *)
(***************************************************************************)
EXTENDS EntryPath, SumTheorems, TLAPS

-----------------------------------------------------------------------------
(* The invariant of the way there and back *)

Views == [book : Books, momentum : Momenta]
Prices == 1 .. Payout - 1

\* An order to buy or sell a side at a price of that side.
Ordered(side, action, count) ==
  /\ side \in BookSides
  /\ count \in Nat \ {0}
  /\ \E limit \in Prices : order = Order(side, action, limit, count)

FiguresTyped ==
  /\ account \in Int /\ paid \in Nat /\ earned \in Int /\ booked \in Int
  /\ sold \in Nat /\ sales \in Nat /\ averagesSent \in BOOLEAN

\* Nothing is held or made before the purchase is answered.
Untouched ==
  /\ account = 0 /\ paid = 0 /\ position = NoPosition
  /\ earned = 0 /\ booked = 0 /\ sold = 0 /\ sales = 0 /\ averagesSent = TRUE

\* What is tracked is what is held, and was entered at what it cost, as far as
\* its price was reported.
Holding ==
  /\ position \in [side : BookSides, quantity : Nat \ {0}, entryPrice : Int]
  /\ account = IF position.side = "yes" THEN position.quantity ELSE -position.quantity
  /\ 2 * position.entryPrice >= paid - 1
  /\ averagesSent => 2 * position.entryPrice <= paid + 1

PathInv ==
  /\ phase \in {"quoted", "signalled", "buying", "holding", "selling", "flat"}
  /\ FiguresTyped
  /\ phase \in {"quoted", "signalled", "buying"} => Untouched
  /\ phase = "buying" => Ordered(order.side, "buy", order.count)
  /\ phase \in {"holding", "selling"} => position # NoPosition /\ Holding
  /\ phase = "holding" /\ sales = 0 => paid <= 2 * order.limit
  /\ phase = "selling" => Ordered(position.side, "sell", position.quantity)
  /\ phase = "flat" => position = NoPosition /\ account = 0
  /\ BookedPnlHonest

\* What a side is worth to a model of YES, and what a signal to buy it claims:
\* its edge, its minimum after the fees of its size, and a price that is not
\* forbidden.
Worth(side, model, part) == IF side = "yes" THEN model ELSE Payout * part - model

Claims(s, model, part) ==
  LET edge == Worth(s.side, model, part) - s.price * part
  IN  /\ edge >= MIN_EDGE_PCT * part
      /\ (edge - MIN_EXPECTED_NET_PER_CONTRACT * part) * s.size
           >= (Fee(s.size, s.price) + Fee(s.size, Payout \div 2)) * part
      /\ \/ YesPrice(s.side, s.price) <= FORBIDDEN_PRICE_LOW
         \/ YesPrice(s.side, s.price) >= FORBIDDEN_PRICE_HIGH

\* The signals of a cycle: none, or a side and a price, and a size if it is
\* one to buy.
Signals == {NoSignal} \cup [side : BookSides, price : Prices, size : Nat]
Model == ModelYes(Market, Composite(view.momentum, view.book))

SignalInv ==
  /\ phase \in {"quoted", "signalled", "buying"} => view \in Views
  /\ phase \in {"signalled", "buying"} => signal \in Signals
  /\ phase \in {"quoted", "signalled", "buying", "holding", "selling", "flat"}
  /\ phase \notin {"signalled", "buying"} => signal = NoSignal
  /\ signal.size > 0 => Claims(signal, Model, Part)

\* The purchase in flight is the signal's, within its size and the dollar cap.
CapInv ==
  phase = "buying" =>
    /\ signal.size > 0
    /\ \E C \in Nat \ {0} :
         /\ C <= signal.size /\ C * signal.price <= MAX_TRADE_DOLLARS
         /\ order = Order(signal.side, "buy", signal.price, C * Unit)

-----------------------------------------------------------------------------
\* The constants as the provers need them.
LEMMA Constants ==
  /\ Payout \in Nat \ {0, 1} /\ Unit \in Nat \ {0}
  /\ MAX_TRADE_DOLLARS \in Nat
  /\ PartFills \subseteq Nat \ {0} /\ Improvements \subseteq Nat
  /\ ExitBids \subseteq Prices
BY QuotesAssumption, EntryAssumption DEF Prices

\* The fields of an order, and of what it becomes on the YES book.
LEMMA OrderFields ==
  ASSUME NEW side, NEW action, NEW limit, NEW count, order = Order(side, action, limit, count)
  PROVE  /\ order.side = side /\ order.limit = limit /\ order.count = count
         /\ order.bookSide = IF (side = "yes") = (action = "buy") THEN "bid" ELSE "ask"
         /\ order.price = IF side = "yes" THEN limit ELSE Payout - limit
BY DEF Order, OnYesBook

LEMMA Quotient ==
  ASSUME NEW x \in Int
  PROVE  /\ x \div Unit \in Int /\ x % Unit \in 0 .. Unit - 1
         /\ x = Unit * (x \div Unit) + (x % Unit)
BY Constants

LEMMA Scaled ==
  ASSUME NEW a \in Int, NEW b \in Int, NEW n \in Nat, a <= b
  PROVE  a * n <= b * n
OBVIOUS

LEMMA WholeQuotient ==
  ASSUME NEW C \in Int
  PROVE  (C * Unit) \div Unit = C
<1> DEFINE q == (C * Unit) \div Unit
           r == (C * Unit) % Unit
<1>1. q \in Int /\ r \in 0 .. Unit - 1 /\ C * Unit = Unit * q + r
  <2>1. C * Unit \in Int
    BY Constants
  <2> QED
    BY <2>1, Quotient
<1>2. Unit \in Nat \ {0}
  BY Constants
<1> HIDE DEF q, r
<1>3. r = Unit * (C - q)
  <2>1. Unit * (C - q) = C * Unit - Unit * q /\ C * Unit \in Int /\ Unit * q \in Int
    BY <1>1, <1>2
  <2> QED
    BY <1>1, <2>1
<1>4. CASE C - q >= 1
  <2>1. 1 * Unit <= (C - q) * Unit
    BY <1>1, <1>2, <1>4, Scaled
  <2>2. (C - q) * Unit = Unit * (C - q)
    BY <1>1, <1>2
  <2> QED
    BY <1>1, <1>2, <1>3, <2>1, <2>2
<1>5. CASE C - q <= -1
  <2>1. (C - q) * Unit <= (-1) * Unit
    BY <1>1, <1>2, <1>5, Scaled
  <2>2. (C - q) * Unit = Unit * (C - q)
    BY <1>1, <1>2
  <2> QED
    BY <1>1, <1>2, <1>3, <2>1, <2>2
<1> QED
  BY <1>1, <1>4, <1>5 DEF q

\* A price rounded half up to a cent is at most half a cent above the average.
LEMMA Halves ==
  ASSUME NEW n \in Int
  PROVE  /\ (n + 1) \div 2 \in Int
         /\ 2 * ((n + 1) \div 2) \in {n, n + 1}
OBVIOUS

\* What is booked for a part is half a cent or less off its worth.
LEMMA PnlRounds ==
  ASSUME NEW entry \in Int, NEW exit \in Int, NEW size \in Nat
  PROVE  /\ compute_pnl_cents(entry, exit, size) \in Int
         /\ LET worth == (exit - entry) * size
                off == 2 * (Unit * compute_pnl_cents(entry, exit, size)) - 2 * worth
            IN  -Unit <= off /\ off <= Unit
<1> DEFINE worth == (exit - entry) * size
           whole == worth \div Unit
           rest == worth % Unit
           pnl == compute_pnl_cents(entry, exit, size)
<1>1. worth \in Int
  OBVIOUS
<1> HIDE DEF worth
<1>2. whole \in Int /\ rest \in 0 .. Unit - 1 /\ worth = Unit * whole + rest
  BY <1>1, Quotient
<1>3. \/ pnl = whole + 1 /\ 2 * rest >= Unit
      \/ pnl = whole /\ 2 * rest <= Unit
  BY <1>2, Constants DEF compute_pnl_cents, worth
<1> HIDE DEF whole, rest, pnl
<1>4. Unit \in Nat /\ rest \in Int
  BY <1>2, Constants
<1>5. CASE pnl = whole + 1 /\ 2 * rest >= Unit
  <2>1. Unit * pnl = Unit * whole + Unit
    BY <1>2, <1>4, <1>5
  <2>2. Unit * whole \in Int
    BY <1>2, <1>4
  <2>3. 2 * (Unit * pnl) - 2 * worth = 2 * Unit - 2 * rest
    BY <1>2, <1>4, <2>1, <2>2
  <2>4. -Unit <= 2 * Unit - 2 * rest /\ 2 * Unit - 2 * rest <= Unit
    BY <1>2, <1>4, <1>5
  <2> QED
    BY <1>2, <1>5, <2>3, <2>4 DEF pnl, worth
<1>6. CASE pnl = whole /\ 2 * rest <= Unit
  <2>1. Unit * whole \in Int
    BY <1>2, <1>4
  <2>2. 2 * (Unit * pnl) - 2 * worth = -(2 * rest)
    BY <1>2, <1>4, <1>6, <2>1
  <2>3. -Unit <= -(2 * rest) /\ -(2 * rest) <= Unit
    BY <1>2, <1>4, <1>6
  <2> QED
    BY <1>2, <1>6, <2>2, <2>3 DEF pnl, worth
<1> QED
  BY <1>3, <1>5, <1>6

\* What the exchange reports, in half cents of the side of the order.
Own(side, average) == IF side = "yes" THEN average ELSE 2 * Payout - average

LEMMA ReportIs ==
  ASSUME NEW side \in BookSides, NEW action \in {"buy", "sell"}, NEW limit \in Prices,
         NEW count \in Nat \ {0}, order = Order(side, action, limit, count),
         NEW r \in Reports
  PROVE  /\ r.fill \in 0 .. count
         /\ r.average \in 2 .. 2 * (Payout - 1) /\ r.averageSent \in BOOLEAN
         /\ r.fill = 0 => ~ r.averageSent
         /\ action = "buy" => Own(side, r.average) <= 2 * limit
         /\ action = "sell" => Own(side, r.average) >= 2 * limit
<1>1. /\ order.side = side /\ order.limit = limit /\ order.count = count
      /\ order.bookSide = IF (side = "yes") = (action = "buy") THEN "bid" ELSE "ask"
      /\ order.price = IF side = "yes" THEN limit ELSE Payout - limit
  BY OrderFields
<1>2. /\ r.fill \in {0, count} \cup {f \in PartFills : f < count}
      /\ r.average \in Averages /\ r.averageSent \in BOOLEAN
      /\ r.fill = 0 => ~ r.averageSent
  BY <1>1 DEF Reports
<1>3. r.fill \in 0 .. count
  <2>1. PartFills \subseteq Nat
    BY Constants
  <2>2. \/ r.fill = 0
        \/ r.fill = count
        \/ r.fill \in Nat /\ r.fill < count
    BY <1>2, <2>1
  <2> QED
    BY <2>2
<1>4. /\ r.average \in 2 .. 2 * (Payout - 1)
      /\ \E better \in Nat :
           r.average = IF order.bookSide = "bid" THEN 2 * order.price - better
                       ELSE 2 * order.price + better
  BY <1>2, Constants DEF Averages
<1>5. PICK better \in Nat :
        r.average = IF order.bookSide = "bid" THEN 2 * order.price - better
                    ELSE 2 * order.price + better
  BY <1>4
<1>6. limit \in Nat /\ Payout \in Nat
  BY Constants DEF Prices
<1>7. CASE side = "yes"
  BY <1>1, <1>2, <1>3, <1>4, <1>5, <1>6, <1>7 DEF Own
<1>8. CASE side = "no"
  BY <1>1, <1>2, <1>3, <1>4, <1>5, <1>6, <1>8 DEF Own
<1> QED
  BY <1>7, <1>8 DEF BookSides

\* The price the bot takes for that of a fill: half a cent off, if the average
\* was sent, and otherwise no better than it.
LEMMA FillPriceIs ==
  ASSUME NEW side \in BookSides, NEW action \in {"buy", "sell"}, NEW limit \in Prices,
         NEW count \in Nat \ {0}, order = Order(side, action, limit, count),
         NEW r \in Reports
  PROVE  /\ FillPrice(r) \in Int
         /\ action = "buy" => 2 * FillPrice(r) >= Own(side, r.average) - 1
         /\ action = "sell" => 2 * FillPrice(r) <= Own(side, r.average) + 1
         /\ r.averageSent => /\ 2 * FillPrice(r) >= Own(side, r.average) - 1
                             /\ 2 * FillPrice(r) <= Own(side, r.average) + 1
<1> DEFINE half == (r.average + 1) \div 2
           cents == SideCents(side, r.average)
<1>1. order.side = side /\ order.limit = limit
  BY OrderFields
<1>2. /\ r.average \in 2 .. 2 * (Payout - 1)
      /\ action = "buy" => Own(side, r.average) <= 2 * limit
      /\ action = "sell" => Own(side, r.average) >= 2 * limit
  BY ReportIs
<1>3. half \in Int /\ 2 * half \in {r.average, r.average + 1}
  BY <1>2, Halves
<1>4. cents = IF side = "yes" THEN half ELSE Payout - half
  BY DEF SideCents
<1>5. FillPrice(r) = IF r.averageSent /\ cents # 0 THEN cents ELSE limit
  BY <1>1 DEF FillPrice
<1> HIDE DEF half, cents
<1>6. Payout \in Nat /\ limit \in Nat
  BY Constants DEF Prices
<1>7. cents \in Int /\ cents # 0
  BY <1>2, <1>3, <1>4, <1>6
<1>8. /\ 2 * cents >= Own(side, r.average) - 1
      /\ 2 * cents <= Own(side, r.average) + 1
  BY <1>2, <1>3, <1>4, <1>6 DEF Own
<1>9. Own(side, r.average) \in Int
  BY <1>2, <1>6 DEF Own
<1>10. CASE r.averageSent
  BY <1>5, <1>7, <1>8, <1>10
<1>11. CASE ~ r.averageSent
  BY <1>2, <1>5, <1>6, <1>9, <1>11
<1> QED
  BY <1>10, <1>11

\* What a part adds to the drift, given what is known of both its prices.
LEMMA PartDrifts ==
  ASSUME NEW entry \in Int, NEW exit \in Int, NEW fill \in Nat, NEW own \in Int, NEW cost \in Int,
         2 * exit <= own + 1, 2 * entry >= cost - 1, NEW sent \in BOOLEAN,
         sent => 2 * exit >= own - 1 /\ 2 * entry <= cost + 1
  PROVE  LET pnl == compute_pnl_cents(entry, exit, fill)
             off == 2 * (Unit * pnl) - (own - cost) * fill
         IN  /\ pnl \in Int
             /\ off <= Unit + 2 * fill
             /\ sent => off >= -(Unit + 2 * fill)
<1> DEFINE pnl == compute_pnl_cents(entry, exit, fill)
           worth == (exit - entry) * fill
           gain == own - cost
           rise == 2 * (exit - entry)
<1>1. /\ pnl \in Int /\ Unit \in Nat
      /\ -Unit <= 2 * (Unit * pnl) - 2 * worth
      /\ 2 * (Unit * pnl) - 2 * worth <= Unit
  BY PnlRounds, Constants
<1>2. 2 * worth = rise * fill
  OBVIOUS
<1>3. /\ rise \in Int /\ gain \in Int /\ rise <= gain + 2
      /\ sent => rise >= gain - 2
  OBVIOUS
<1> HIDE DEF rise, gain
<1>4. rise * fill <= (gain + 2) * fill /\ (sent => rise * fill >= (gain - 2) * fill)
  BY <1>3, Scaled
<1>5. /\ (gain + 2) * fill = gain * fill + 2 * fill
      /\ (gain - 2) * fill = gain * fill - 2 * fill
      /\ gain * fill \in Int /\ rise * fill \in Int
  BY <1>3
<1>6. worth \in Int /\ Unit * pnl \in Int
  BY <1>1
<1> HIDE DEF worth, pnl
<1>7. /\ 2 * (Unit * pnl) - gain * fill <= Unit + 2 * fill
      /\ sent => 2 * (Unit * pnl) - gain * fill >= -(Unit + 2 * fill)
  BY <1>1, <1>2, <1>4, <1>5, <1>6
<1> QED
  BY <1>1, <1>7 DEF gain, pnl

-----------------------------------------------------------------------------
\* Drift counts nothing while nothing was sold.
LEMMA UntouchedIsHonest ==
  ASSUME earned = 0, booked = 0, sold = 0, sales = 0
  PROVE  BookedPnlHonest
BY Constants DEF BookedPnlHonest

LEMMA InitPath ==
  ASSUME Init
  PROVE  PathInv
<1>1. /\ phase = "quoted" /\ Untouched /\ FiguresTyped
      /\ earned = 0 /\ booked = 0 /\ sold = 0 /\ sales = 0
  BY DEF Init, Untouched, FiguresTyped
<1>2. BookedPnlHonest
  BY <1>1, UntouchedIsHonest
<1> QED
  BY <1>1, <1>2 DEF PathInv

LEMMA BoughtKeepsPath ==
  ASSUME PathInv, Bought
  PROVE  PathInv'
<1>1. PICK r \in Reports :
        /\ account' = Moved(r.fill)
        /\ paid' = IF r.fill = 0 THEN 0 ELSE OwnSide(account', r.average)
        /\ position' = IF r.fill = 0 THEN NoPosition
                       ELSE [side |-> order.side, quantity |-> r.fill,
                             entryPrice |-> FillPrice(r)]
        /\ averagesSent' = (r.fill > 0 => r.averageSent)
        /\ phase' = IF r.fill = 0 THEN "flat" ELSE "holding"
  BY DEF Bought
<1>2. /\ phase = "buying" /\ Untouched /\ FiguresTyped /\ Ordered(order.side, "buy", order.count)
      /\ UNCHANGED <<order, earned, booked, sold, sales>>
  BY DEF Bought, PathInv
<1> DEFINE side == order.side
           count == order.count
<1>3. PICK limit \in Prices : order = Order(side, "buy", limit, count)
  BY <1>2 DEF Ordered
<1>4. side \in BookSides /\ count \in Nat \ {0}
  BY <1>2 DEF Ordered
<1>5. /\ order.limit = limit
      /\ order.bookSide = IF side = "yes" THEN "bid" ELSE "ask"
  BY <1>3, OrderFields
<1> HIDE DEF side, count
<1>6. /\ r.fill \in Nat /\ r.average \in 2 .. 2 * (Payout - 1) /\ r.averageSent \in BOOLEAN
      /\ Own(side, r.average) <= 2 * limit
  BY <1>3, <1>4, ReportIs
<1>7. /\ FillPrice(r) \in Int
      /\ 2 * FillPrice(r) >= Own(side, r.average) - 1
      /\ r.averageSent => 2 * FillPrice(r) <= Own(side, r.average) + 1
  BY <1>3, <1>4, FillPriceIs
<1>8. Own(side, r.average) \in Nat
  BY <1>6, Constants DEF Own
<1>9. account = 0 /\ account' = IF side = "yes" THEN r.fill ELSE 0 - r.fill
  <2>1. account = 0 /\ side \in {"yes", "no"}
    BY <1>2, <1>4 DEF Untouched, BookSides
  <2>2. account' = IF side = "yes" THEN 0 + r.fill ELSE 0 - r.fill
    BY <1>1, <1>5, <2>1 DEF Moved
  <2> QED
    BY <1>6, <2>1, <2>2
<1>10. BookedPnlHonest'
  BY <1>2, Constants DEF Untouched, BookedPnlHonest
<1>11. CASE r.fill = 0
  <2>1. account' = 0 /\ paid' = 0 /\ position' = NoPosition /\ phase' = "flat"
    BY <1>1, <1>9, <1>11
  <2>2. averagesSent' \in BOOLEAN
    BY <1>1
  <2> QED
    BY <1>2, <1>10, <2>1, <2>2 DEF PathInv, FiguresTyped
<1>12. CASE r.fill # 0
  <2>1. paid' = Own(side, r.average)
    BY <1>1, <1>4, <1>6, <1>9, <1>12 DEF OwnSide, Own, BookSides
  <2>2. averagesSent' = r.averageSent /\ phase' = "holding"
    BY <1>1, <1>6, <1>12
  <2>3. /\ position' = [side |-> side, quantity |-> r.fill, entryPrice |-> FillPrice(r)]
        /\ position'.side = side /\ position'.quantity = r.fill /\ position'.entryPrice = FillPrice(r)
    BY <1>1, <1>12 DEF side
  <2>4. Holding'
    BY <1>4, <1>6, <1>7, <1>8, <1>9, <1>12, <2>1, <2>2, <2>3 DEF Holding
  <2>5. position' # NoPosition
    BY <1>4, <2>3 DEF NoPosition, BookSides
  <2>6. paid' <= 2 * order'.limit
    BY <1>2, <1>5, <1>6, <2>1
  <2>7. FiguresTyped'
    BY <1>2, <1>6, <1>8, <1>9, <2>1, <2>2 DEF FiguresTyped
  <2> QED
    BY <1>10, <2>2, <2>4, <2>5, <2>6, <2>7 DEF PathInv
<1> QED
  BY <1>11, <1>12

\* A sale moves the account back towards nothing, and drifts by no more than it
\* may.
LEMMA SoldKeepsPath ==
  ASSUME PathInv, Sold
  PROVE  PathInv'
<1>1. PICK r \in Reports :
        /\ account' = Moved(r.fill)
        /\ earned' = earned + (OwnSide(account, r.average) - paid) * r.fill
        /\ booked' = IF r.fill = 0 THEN booked
                     ELSE booked + compute_pnl_cents(position.entryPrice, FillPrice(r), r.fill)
        /\ sold' = sold + r.fill
        /\ position' = IF r.fill = position.quantity THEN NoPosition
                       ELSE [position EXCEPT !.quantity = @ - r.fill]
        /\ averagesSent' = (averagesSent /\ (r.fill > 0 => r.averageSent))
        /\ phase' = IF r.fill = position.quantity THEN "flat" ELSE "holding"
  BY DEF Sold
<1>2. /\ phase = "selling" /\ FiguresTyped /\ Holding /\ BookedPnlHonest
      /\ position # NoPosition
      /\ Ordered(position.side, "sell", position.quantity)
      /\ sales' = sales + 1 /\ UNCHANGED <<order, paid>>
  BY DEF Sold, PathInv
<1> DEFINE side == position.side
           count == position.quantity
           own == Own(side, r.average)
           exit == FillPrice(r)
           entry == position.entryPrice
           fill == r.fill
<1>3. PICK limit \in Prices : order = Order(side, "sell", limit, count)
  BY <1>2 DEF Ordered
<1>4. /\ side \in BookSides /\ count \in Nat \ {0} /\ entry \in Int
      /\ account = IF side = "yes" THEN count ELSE -count
      /\ 2 * entry >= paid - 1
      /\ averagesSent => 2 * entry <= paid + 1
  BY <1>2 DEF Holding
<1>t. position = [side |-> side, quantity |-> count, entryPrice |-> entry]
  BY <1>2 DEF Holding
<1>5. order.bookSide = IF side = "yes" THEN "ask" ELSE "bid"
  BY <1>3, <1>4, OrderFields DEF BookSides
<1>6. /\ fill \in 0 .. count /\ r.average \in 2 .. 2 * (Payout - 1) /\ r.averageSent \in BOOLEAN
      /\ own \in Int
  <2>1. own \in Int
    BY <1>3, <1>4, ReportIs, Constants DEF Own
  <2> QED
    BY <1>3, <1>4, <2>1, ReportIs
<1>7. /\ exit \in Int
      /\ 2 * exit <= own + 1
      /\ r.averageSent => 2 * exit >= own - 1
  BY <1>3, <1>4, FillPriceIs
<1>8. OwnSide(account, r.average) = own
  <2>1. account > 0 <=> side = "yes"
    BY <1>4 DEF BookSides
  <2> QED
    BY <2>1 DEF OwnSide, Own
<1>9. account' = IF side = "yes" THEN count - fill ELSE 0 - (count - fill)
  <2>1. account' = IF side = "yes" THEN account - fill ELSE account + fill
    BY <1>1, <1>5 DEF Moved
  <2>2. side = "yes" => account = count
    BY <1>4
  <2>3. side # "yes" => account + count = 0 /\ account \in Int
    BY <1>4
  <2> QED
    BY <1>4, <1>6, <2>1, <2>2, <2>3
<1>10. FiguresTyped'
  <2>1. /\ account' \in Int /\ sold' \in Nat /\ sales' \in Nat /\ paid' \in Nat
        /\ earned' \in Int
    BY <1>1, <1>2, <1>4, <1>6, <1>8, <1>9 DEF FiguresTyped
  <2>2. booked' \in Int
    <3>1. booked' = IF fill = 0 THEN booked ELSE booked + compute_pnl_cents(entry, exit, fill)
      BY <1>1
    <3>2. fill \in Nat
      BY <1>4, <1>6
    <3> HIDE DEF entry, exit, fill
    <3>3. compute_pnl_cents(entry, exit, fill) \in Int
      BY <1>4, <1>7, <3>2, PnlRounds
    <3> QED
      BY <1>2, <3>1, <3>3 DEF FiguresTyped
  <2>3. averagesSent' \in BOOLEAN
    BY <1>1
  <2> QED
    BY <2>1, <2>2, <2>3 DEF FiguresTyped
<1>11. BookedPnlHonest'
  <2> DEFINE pnl == compute_pnl_cents(entry, exit, fill)
             drift == booked * 2 * Unit - earned
             allowed == sales * Unit + 2 * sold
             off == 2 * (Unit * pnl) - (own - paid) * fill
  <2>1. /\ booked \in Int /\ earned \in Int /\ sales \in Nat /\ sold \in Nat /\ paid \in Int
        /\ fill \in Nat /\ Unit \in Nat
    BY <1>2, <1>4, <1>6, Constants DEF FiguresTyped
  <2>2. drift <= allowed /\ (averagesSent => drift >= -allowed)
    BY <1>2 DEF BookedPnlHonest
  <2>3. /\ earned' = earned + (own - paid) * fill
        /\ sold' = sold + fill /\ sales' = sales + 1
        /\ averagesSent' => averagesSent
    BY <1>1, <1>2, <1>8
  <2>4. fill # 0 /\ averagesSent' => averagesSent /\ r.averageSent
    <3>1. fill # 0 => fill > 0
      BY <2>1
    <3>2. averagesSent' = (averagesSent /\ (fill > 0 => r.averageSent))
      BY <1>1
    <3> QED
      BY <3>1, <3>2
  <2>5. booked' = IF fill = 0 THEN booked ELSE booked + pnl
    BY <1>1
  <2>6. pnl \in Int /\ off <= Unit + 2 * fill /\ (averagesSent /\ r.averageSent => off >= -(Unit + 2 * fill))
    BY <1>4, <1>6, <1>7, <2>1, PartDrifts
  <2> HIDE DEF pnl, own, fill, exit, entry
  <2>7. CASE fill = 0
    <3>1. (own - paid) * fill = 0
      BY <1>6, <2>1, <2>7
    <3>2. allowed' = allowed + Unit /\ drift' = drift
      BY <2>1, <2>3, <2>5, <2>7, <3>1
    <3>3. drift \in Int /\ allowed \in Int
      BY <2>1
    <3> HIDE DEF drift, allowed
    <3>4. drift' <= allowed' /\ (averagesSent' => drift' >= -allowed')
      BY <2>1, <2>2, <2>3, <3>2, <3>3
    <3> QED
      BY <3>4 DEF BookedPnlHonest, drift, allowed
  <2>8. CASE fill # 0
    <3>1. allowed' = allowed + (Unit + 2 * fill) /\ drift' = drift + off
      BY <1>6, <2>1, <2>3, <2>5, <2>6, <2>8
    <3>2. drift \in Int /\ allowed \in Int /\ off \in Int
      BY <1>6, <2>1, <2>6
    <3> HIDE DEF drift, allowed, off
    <3>3. drift' <= allowed' /\ (averagesSent' => drift' >= -allowed')
      BY <2>1, <2>2, <2>4, <2>6, <2>8, <3>1, <3>2
    <3> QED
      BY <3>3 DEF BookedPnlHonest, drift, allowed
  <2> QED
    BY <2>7, <2>8
<1>12. CASE fill = count
  <2>1. position' = NoPosition /\ phase' = "flat"
    BY <1>1, <1>12
  <2>2. account' = 0
    BY <1>4, <1>9, <1>12
  <2> QED
    BY <1>10, <1>11, <2>1, <2>2 DEF PathInv
<1>13. CASE fill # count
  <2>1. phase' = "holding"
    BY <1>1, <1>13
  <2>2. /\ position' = [side |-> side, quantity |-> count - fill, entryPrice |-> entry]
        /\ position'.side = side /\ position'.entryPrice = entry
        /\ position'.quantity = count - fill
    BY <1>t, <1>1, <1>13
  <2>3. count - fill \in Nat \ {0} /\ UNCHANGED paid /\ (averagesSent' => averagesSent)
    <3>1. averagesSent' => averagesSent
      BY <1>1
    <3> QED
      BY <1>2, <1>4, <1>6, <1>13, <3>1
  <2> HIDE DEF side, count, entry, fill
  <2>6. Holding'
    BY <1>4, <1>9, <2>2, <2>3 DEF Holding
  <2>4. position' # NoPosition
    BY <1>4, <2>2 DEF NoPosition, BookSides
  <2>5. sales' # 0
    BY <1>2 DEF FiguresTyped
  <2> QED
    BY <1>10, <1>11, <2>1, <2>4, <2>5, <2>6 DEF PathInv
<1> QED
  BY <1>12, <1>13

\* The contracts bought, and their cost.
LEMMA ContractsAre ==
  ASSUME NEW price \in Prices, NEW size \in Nat
  PROVE  /\ Contracts(price, size) \in Nat
         /\ Contracts(price, size) <= size
         /\ Contracts(price, size) * price <= MAX_TRADE_DOLLARS
<1> DEFINE most == MAX_TRADE_DOLLARS \div price
           C == Contracts(price, size)
<1>1. price \in Nat \ {0} /\ MAX_TRADE_DOLLARS \in Nat
  BY Constants DEF Prices
<1>2. most \in Nat /\ price * most <= MAX_TRADE_DOLLARS
  BY <1>1
<1>3. C = IF size < most THEN size ELSE most
  BY DEF Contracts, Smaller
<1> HIDE DEF most, C
<1>4. C \in Nat /\ C <= most /\ C <= size
  BY <1>2, <1>3
<1>5. C * price <= most * price /\ most * price = price * most
  BY <1>1, <1>2, <1>4, Scaled
<1>6. C * price \in Int /\ most * price \in Int
  BY <1>1, <1>2, <1>4
<1> QED
  BY <1>1, <1>2, <1>4, <1>5, <1>6 DEF C

LEMMA SizedSignals ==
  \A s \in Signals :
    /\ s.size \in Nat
    /\ s.size > 0 => s.side \in BookSides /\ s.price \in Prices
BY DEF Signals, NoSignal

LEMMA PlaceBuyKeepsPath ==
  ASSUME PathInv, SignalInv, PlaceBuy
  PROVE  PathInv'
<1> DEFINE C == Contracts(signal.price, signal.size)
<1>1. /\ phase = "signalled" /\ phase' = "buying" /\ signal.size > 0 /\ C >= 1
      /\ order' = Order(signal.side, "buy", signal.price, C * Unit)
      /\ UNCHANGED <<account, paid, position, earned, booked, sold, sales, averagesSent>>
  BY DEF PlaceBuy, books
<1>2. signal.side \in BookSides /\ signal.price \in Prices /\ signal.size \in Nat
  <2>1. signal \in Signals
    BY <1>1 DEF SignalInv
  <2> QED
    BY <1>1, <2>1, SizedSignals
<1>3. C * Unit \in Nat \ {0}
  <2>1. C \in Nat /\ Unit \in Nat \ {0}
    BY <1>2, ContractsAre, Constants
  <2> HIDE DEF C
  <2> QED
    BY <1>1, <2>1
<1> HIDE DEF C
<1>4. Ordered(order.side, "buy", order.count)'
  <2>1. order'.side = signal.side /\ order'.count = C * Unit
    BY <1>1 DEF Order
  <2> QED
    BY <1>1, <1>2, <1>3, <2>1 DEF Ordered
<1>5. Untouched' /\ FiguresTyped' /\ BookedPnlHonest'
  BY <1>1 DEF PathInv, Untouched, FiguresTyped, BookedPnlHonest
<1> QED
  BY <1>1, <1>4, <1>5 DEF PathInv

LEMMA PlaceSellKeepsPath ==
  ASSUME PathInv, PlaceSell
  PROVE  PathInv'
<1>1. /\ phase = "holding" /\ phase' = "selling"
      /\ UNCHANGED <<account, paid, position, earned, booked, sold, sales, averagesSent>>
  BY DEF PlaceSell, books
<1>2. PICK bid \in ExitBids :
        order' = Order(position.side, "sell", Larger(1, bid - 1), position.quantity)
  BY DEF PlaceSell
<1>3. Larger(1, bid - 1) \in Prices
  BY Constants DEF Prices, Larger
<1>4. position.side \in BookSides /\ position.quantity \in Nat \ {0}
  BY <1>1 DEF PathInv, Holding
<1>5. Ordered(position.side, "sell", position.quantity)'
  BY <1>1, <1>2, <1>3, <1>4 DEF Ordered
<1>6. Holding' /\ FiguresTyped' /\ BookedPnlHonest' /\ position' # NoPosition
  BY <1>1 DEF PathInv, Holding, FiguresTyped, BookedPnlHonest
<1> QED
  BY <1>1, <1>5, <1>6 DEF PathInv

LEMMA EvaluateKeepsPath ==
  ASSUME PathInv, Evaluate
  PROVE  PathInv'
<1>1. /\ phase = "quoted" /\ phase' = "signalled"
      /\ UNCHANGED <<account, paid, position, earned, booked, sold, sales, averagesSent>>
  BY DEF Evaluate, books
<1> QED
  BY <1>1 DEF PathInv, Untouched, FiguresTyped, BookedPnlHonest

LEMMA StutterKeepsPath ==
  ASSUME PathInv, UNCHANGED vars
  PROVE  PathInv'
BY DEF PathInv, Untouched, FiguresTyped, BookedPnlHonest, Ordered, Holding, vars, books

LEMMA NextPath ==
  ASSUME PathInv, SignalInv, [Next]_vars
  PROVE  PathInv'
BY EvaluateKeepsPath, PlaceBuyKeepsPath, BoughtKeepsPath, PlaceSellKeepsPath, SoldKeepsPath,
   StutterKeepsPath DEF Next

-----------------------------------------------------------------------------
(* Books and quotes *)

Bid == [price : Prices, size : Nat]

LEMMA LevelsTyped ==
  ASSUME NEW bids \in Seq(Bid)
  PROVE  Levels(bids) \subseteq Bid /\ IsFiniteSet(Levels(bids))
<1>1. Len(bids) \in Nat /\ DOMAIN bids = 1 .. Len(bids) /\ \A i \in DOMAIN bids : bids[i] \in Bid
  OBVIOUS
<1>2. \A bid \in Bid : Parsed(bid) \in Bid
  <2> SUFFICES ASSUME NEW bid \in Bid PROVE Parsed(bid) \in Bid
    OBVIOUS
  <2>1. bid.size \div Unit \in Nat
    BY Constants DEF Bid
  <2> QED
    BY <2>1 DEF Parsed, Bid
<1>3. Levels(bids) \subseteq Bid
  BY <1>1, <1>2 DEF Levels
<1>4. IsFiniteSet(Levels(bids))
  <2> DEFINE f == [i \in DOMAIN bids |-> Parsed(bids[i])]
  <2>1. f \in [DOMAIN bids -> Levels(bids)] /\ \A level \in Levels(bids) : \E i \in DOMAIN bids : f[i] = level
    BY DEF Levels
  <2>2. f \in Surjection(DOMAIN bids, Levels(bids))
    BY <2>1 DEF Surjection
  <2>3. IsFiniteSet(DOMAIN bids)
    BY <1>1, FS_Interval
  <2> HIDE DEF f
  <2> QED
    BY <2>2, <2>3, FS_Surjection
<1> QED
  BY <1>3, <1>4

\* A finite set of levels has a best one.
LEMMA BestExists ==
  ASSUME NEW levels \in SUBSET Bid, IsFiniteSet(levels), levels # {}
  PROVE  \E best \in levels : \A other \in levels : other.price <= best.price
<1> DEFINE HasBest(T) == \E best \in T : \A other \in T : other.price <= best.price
           B == {T \in SUBSET levels : T = {} \/ HasBest(T)}
<1>0. \A bid \in levels : bid.price \in Int
  BY DEF Bid, Prices
<1>1. ASSUME NEW T \in SUBSET levels, \A U \in SUBSET T : U # T => U \in B
      PROVE  T \in B
  <2>1. CASE T = {}
    BY <2>1
  <2>2. CASE T # {}
    <3>1. PICK x \in T : TRUE
      BY <2>2
    <3>2. T \ {x} \in B
      BY <1>1, <3>1
    <3>3. CASE T \ {x} = {}
      <4>1. \A other \in T : other.price <= x.price
        BY <1>0, <3>1, <3>3
      <4> QED
        BY <4>1
    <3>4. CASE HasBest(T \ {x})
      <4>1. PICK best \in T \ {x} : \A other \in T \ {x} : other.price <= best.price
        BY <3>4
      <4>2. CASE x.price <= best.price
        BY <4>1, <4>2
      <4>3. CASE ~ (x.price <= best.price)
        <5>1. \A other \in T : other.price <= x.price
          BY <1>0, <3>1, <4>1, <4>3
        <5> QED
          BY <5>1
      <4> QED
        BY <4>2, <4>3
    <3> QED
      BY <3>2, <3>3, <3>4
  <2> QED
    BY <2>1, <2>2
<1>2. \A T \in SUBSET levels : T \in B
  <2> HIDE DEF B
  <2> QED BY <1>1, SubsetInduction
<1> QED
  BY <1>2

LEMMA BestOfIs ==
  ASSUME NEW levels \in SUBSET Bid, IsFiniteSet(levels)
  PROVE  /\ levels = {} => BestOf(levels) = NoBid
         /\ levels # {} => BestOf(levels) \in levels
BY BestExists DEF BestOf

Quote == [bid : 0 .. Payout - 1, ask : 0 .. Payout - 1]
TypedBooks == [BookSides -> Seq(Bid)]

\* The best bid of a side and the ask inferred from both.
LEMMA QuotesAre ==
  ASSUME NEW book \in TypedBooks
  PROVE  LET q == _quotes_from_orderbook(book)
         IN  /\ q \in [BookSides -> [bid : 0 .. Payout - 1, ask : 0 .. Payout - 1, size : Nat]]
             /\ q.yes.bid # None => q.yes.ask # None /\ q.no.ask # None
             /\ q.no.bid = None <=> Levels(book["no"]) = {}
<1> DEFINE q == _quotes_from_orderbook(book)
<1>1. \A side \in BookSides : Levels(book[side]) \in SUBSET Bid /\ IsFiniteSet(Levels(book[side]))
  BY LevelsTyped DEF TypedBooks
<1>2. ASSUME NEW side \in BookSides
      PROVE  /\ _best_bid(book[side]) \in [price : 0 .. Payout - 1, size : Nat]
             /\ _best_bid(book[side]).price = None <=> Levels(book[side]) = {}
  <2>1. CASE Levels(book[side]) = {}
    <3>1. _best_bid(book[side]) = [price |-> 0, size |-> 0]
      BY <2>1 DEF _best_bid, BestOf, NoBid, None
    <3>2. 0 \in 0 .. Payout - 1
      BY Constants
    <3> QED
      BY <2>1, <3>1, <3>2 DEF None
  <2>2. CASE Levels(book[side]) # {}
    BY <1>1, <2>2, BestOfIs, Constants DEF _best_bid, None, Bid, Prices
  <2> QED
    BY <2>1, <2>2
<1>3. \A side \in BookSides : Opposite(side) \in BookSides
  BY DEF BookSides, Opposite
<1>4. \A a, b \in 0 .. Payout - 1 :
        AskOf(a, b) \in 0 .. Payout - 1 /\ (a # None \/ b # None => AskOf(a, b) # None)
  BY Constants DEF AskOf, None, Smaller
<1>5. ASSUME NEW side \in BookSides
      PROVE  /\ q[side].bid = _best_bid(book[side]).price
             /\ q[side].ask = AskOf(_best_bid(book[side]).price, _best_bid(book[Opposite(side)]).price)
             /\ q[side] \in [bid : 0 .. Payout - 1, ask : 0 .. Payout - 1, size : Nat]
  <2>1. /\ _best_bid(book[side]) \in [price : 0 .. Payout - 1, size : Nat]
        /\ _best_bid(book[Opposite(side)]) \in [price : 0 .. Payout - 1, size : Nat]
    BY <1>2, <1>3
  <2>2. q[side] = [bid |-> _best_bid(book[side]).price,
                   ask |-> AskOf(_best_bid(book[side]).price, _best_bid(book[Opposite(side)]).price),
                   size |-> _best_bid(book[side]).size]
    BY DEF _quotes_from_orderbook
  <2> HIDE DEF q
  <2> QED
    BY <1>4, <2>1, <2>2
<1>6. q \in [BookSides -> [bid : 0 .. Payout - 1, ask : 0 .. Payout - 1, size : Nat]]
  <2>1. q = [side \in BookSides |-> q[side]]
    BY DEF _quotes_from_orderbook
  <2> HIDE DEF q
  <2> QED
    BY <1>5, <2>1
<1>7. "yes" \in BookSides /\ "no" \in BookSides /\ Opposite("yes") = "no" /\ Opposite("no") = "yes"
  BY DEF BookSides, Opposite
<1> HIDE DEF q
<1>8. q.yes.bid # None => q.yes.ask # None /\ q.no.ask # None
  <2>1. /\ _best_bid(book["yes"]).price \in 0 .. Payout - 1
        /\ _best_bid(book["no"]).price \in 0 .. Payout - 1
    BY <1>2, <1>7
  <2> QED
    BY <1>4, <1>5, <1>7, <2>1
<1>9. q.no.bid = None <=> Levels(book["no"]) = {}
  BY <1>2, <1>5, <1>7
<1> QED
  BY <1>6, <1>8, <1>9 DEF q

\* Liquidity is a sum over the levels of a side.
LEMMA LiquidityIsSum ==
  ASSUME NEW bids
  PROVE  get_weighted_bid_liquidity(bids)
           = Sum([bid \in parse_bid_array(bids, max_levels) |-> bid.price * bid.size],
                 parse_bid_array(bids, max_levels))
<1> DEFINE kept == parse_bid_array(bids, max_levels)
           worth == [bid \in kept |-> bid.price * bid.size]
<1>1. get_weighted_bid_liquidity(bids) = MapThenSumSet(LAMBDA bid : worth[bid], kept)
  BY DEF get_weighted_bid_liquidity
<1> HIDE DEF kept, worth
<1>2. MapThenSumSet(LAMBDA bid : worth[bid], kept) = Sum(worth, kept)
  BY SumIsMapThenSumSet
<1> QED
  BY <1>1, <1>2 DEF worth, kept

LEMMA LiquidityIsNat ==
  ASSUME NEW bids \in Seq(Bid)
  PROVE  get_weighted_bid_liquidity(bids) \in Nat
<1> DEFINE kept == parse_bid_array(bids, max_levels)
           worth == [bid \in kept |-> bid.price * bid.size]
<1>1. kept \subseteq Bid /\ IsFiniteSet(kept)
  <2>1. kept \in SUBSET Levels(bids)
    BY DEF parse_bid_array
  <2> HIDE DEF kept
  <2> QED
    BY <2>1, LevelsTyped, FS_Subset
<1>2. \A bid \in kept : worth[bid] \in Nat
  BY <1>1 DEF Bid, Prices
<1>3. Sum(worth, kept) \in Nat
  <2> HIDE DEF worth, kept
  <2> QED BY <1>1, <1>2, SumIsNat
<1> QED
  BY <1>3, LiquidityIsSum

LEMMA SkewIs ==
  ASSUME NEW book \in TypedBooks
  PROVE  get_orderbook_skew(book).num \in Int /\ get_orderbook_skew(book).den \in Nat \ {0}
<1>1. /\ get_weighted_bid_liquidity(book.yes) \in Nat
      /\ get_weighted_bid_liquidity(book.no) \in Nat
  BY LiquidityIsNat DEF TypedBooks, BookSides
<1> QED
  BY <1>1 DEF get_orderbook_skew

\* A book lists the same levels in either order.
LEMMA ListedLevels ==
  ASSUME NEW bids \in Seq(Bid)
  PROVE  Reverse(bids) \in Seq(Bid) /\ Levels(Reverse(bids)) = Levels(bids)
<1> DEFINE n == Len(bids)
<1>1. n \in Nat /\ DOMAIN bids = 1 .. n /\ \A i \in 1 .. n : bids[i] \in Bid
  OBVIOUS
<1>2. /\ DOMAIN Reverse(bids) = 1 .. n
      /\ \A i \in 1 .. n : Reverse(bids)[i] = bids[(n - i) + 1]
  BY DEF Reverse
<1> HIDE DEF n
<1>3. \A i \in 1 .. n : (n - i) + 1 \in 1 .. n /\ (n - ((n - i) + 1)) + 1 = i
  BY <1>1
<1>4. Reverse(bids) \in Seq(Bid)
  <2>1. Reverse(bids) \in [1 .. n -> Bid]
    <3>1. Reverse(bids) = [i \in 1 .. n |-> bids[(n - i) + 1]]
      BY DEF Reverse, n
    <3> QED
      BY <1>1, <1>3, <3>1
  <2> QED
    BY <1>1, <2>1
<1>5. Levels(Reverse(bids)) = Levels(bids)
  <2>1. ASSUME NEW i \in 1 .. n PROVE Parsed(Reverse(bids)[i]) \in Levels(bids)
    BY <1>1, <1>2, <1>3 DEF Levels
  <2>2. ASSUME NEW i \in 1 .. n PROVE Parsed(bids[i]) \in Levels(Reverse(bids))
    <3>1. Reverse(bids)[(n - i) + 1] = bids[i] /\ (n - i) + 1 \in 1 .. n
      BY <1>2, <1>3
    <3> QED
      BY <1>2, <3>1 DEF Levels
  <2> QED
    BY <1>1, <1>2, <2>1, <2>2 DEF Levels
<1> QED
  BY <1>4, <1>5

LEMMA ListingIs ==
  ASSUME NEW book \in Books, NEW listed \in Listings(book)
  PROVE  /\ book \in TypedBooks /\ listed \in TypedBooks
         /\ \A side \in BookSides : Levels(listed[side]) = Levels(book[side])
<1>1. book \in TypedBooks
  BY EntryAssumption DEF TypedBooks, Bid, Prices
<1>2. CASE listed = book
  BY <1>1, <1>2
<1>3. CASE listed = [side \in BookSides |-> Reverse(book[side])]
  <2>1. \A side \in BookSides : book[side] \in Seq(Bid)
    BY <1>1 DEF TypedBooks
  <2>2. \A side \in BookSides : listed[side] \in Seq(Bid) /\ Levels(listed[side]) = Levels(book[side])
    BY <1>3, <2>1, ListedLevels
  <2>3. listed \in TypedBooks
    BY <1>3, <2>2 DEF TypedBooks
  <2> QED
    BY <1>1, <2>2, <2>3
<1> QED
  BY <1>2, <1>3 DEF Listings

\* All that is read from a book is read from its levels.
LEMMA SameLevels ==
  ASSUME NEW one, NEW other, \A side \in BookSides : Levels(one[side]) = Levels(other[side])
  PROVE  /\ _quotes_from_orderbook(one) = _quotes_from_orderbook(other)
         /\ get_orderbook_skew(one) = get_orderbook_skew(other)
         /\ \A side \in BookSides :
              _extract_best_bid_depth(one[side]) = _extract_best_bid_depth(other[side])
<1>1. "yes" \in BookSides /\ "no" \in BookSides /\ \A side \in BookSides : Opposite(side) \in BookSides
  BY DEF BookSides, Opposite
<1>2. \A side \in BookSides : _best_bid(one[side]) = _best_bid(other[side])
  BY DEF _best_bid
<1>3. _quotes_from_orderbook(one) = _quotes_from_orderbook(other)
  BY <1>1, <1>2 DEF _quotes_from_orderbook
<1>4. \A side \in BookSides :
        parse_bid_array(one[side], max_levels) = parse_bid_array(other[side], max_levels)
  BY DEF parse_bid_array
<1>5. \A side \in BookSides :
        get_weighted_bid_liquidity(one[side]) = get_weighted_bid_liquidity(other[side])
  <2> SUFFICES ASSUME NEW side \in BookSides
               PROVE  get_weighted_bid_liquidity(one[side]) = get_weighted_bid_liquidity(other[side])
    OBVIOUS
  <2>1. parse_bid_array(one[side], max_levels) = parse_bid_array(other[side], max_levels)
    BY <1>4
  <2> QED
    BY <2>1, LiquidityIsSum
<1>6. get_orderbook_skew(one) = get_orderbook_skew(other)
  BY <1>1, <1>5 DEF get_orderbook_skew
<1>7. \A side \in BookSides :
        _extract_best_bid_depth(one[side]) = _extract_best_bid_depth(other[side])
  BY DEF _extract_best_bid_depth
<1> QED
  BY <1>3, <1>6, <1>7

-----------------------------------------------------------------------------
(* The decision *)

LEMMA Limits ==
  /\ MIN_CONTRACT_PRICE_CENTS \in Prices /\ MAX_CONTRACT_PRICE_CENTS \in Prices
  /\ MomentumSteps \in Nat \ {0}
  /\ MIN_EDGE_PCT \in Nat /\ MAX_EDGE_PCT \in Nat /\ MIN_EDGE_PCT < MAX_EDGE_PCT
  /\ MIN_EXPECTED_NET_PER_CONTRACT \in Nat
  /\ BASE_SIZE \in Nat /\ MAX_SIZE \in Nat
  /\ KALSHI_FEE_RATE \in Nat
  /\ FORBIDDEN_PRICE_LOW \in Int /\ FORBIDDEN_PRICE_HIGH \in Int
BY QuotesAssumption, DecisionAssumption DEF Prices

Markets == [BookSides -> Quote]

\* The quotes of a usable book, whatever was there before; only a missing NO
\* bid can be an old one.
LEMMA QuotedAre ==
  ASSUME NEW book \in TypedBooks, NEW legacy \in Markets,
         Usable(_quotes_from_orderbook(book))
  PROVE  LET q == _quotes_from_orderbook(book)
             market == Quoted(q, legacy)
         IN  /\ market \in Markets
             /\ market.yes.bid = q.yes.bid /\ market.yes.ask = q.yes.ask
             /\ market.no.ask = q.no.ask
             /\ Levels(book["no"]) # {} => market.no.bid = q.no.bid
<1> DEFINE q == _quotes_from_orderbook(book)
           market == Quoted(q, legacy)
<1>1. /\ q \in [BookSides -> [bid : 0 .. Payout - 1, ask : 0 .. Payout - 1, size : Nat]]
      /\ q.yes.bid # None => q.yes.ask # None /\ q.no.ask # None
      /\ q.no.bid = None <=> Levels(book["no"]) = {}
  BY QuotesAre
<1>2. q.yes.bid # None
  BY DEF Usable
<1> HIDE DEF q
<1>3. ASSUME NEW side \in BookSides
      PROVE  /\ market[side].bid = IF q[side].bid # None THEN q[side].bid ELSE legacy[side].bid
             /\ market[side].ask = IF q[side].ask # None THEN q[side].ask ELSE legacy[side].ask
             /\ market[side] \in Quote
  <2>1. /\ q[side].bid \in 0 .. Payout - 1 /\ q[side].ask \in 0 .. Payout - 1
        /\ legacy[side].bid \in 0 .. Payout - 1 /\ legacy[side].ask \in 0 .. Payout - 1
    BY <1>1 DEF Markets, Quote
  <2>2. market[side] = [bid |-> IF q[side].bid # None THEN q[side].bid ELSE legacy[side].bid,
                        ask |-> IF q[side].ask # None THEN q[side].ask ELSE legacy[side].ask]
    BY DEF Quoted
  <2> QED
    BY <2>1, <2>2 DEF Quote
<1>4. market \in Markets
  <2>1. market = [side \in BookSides |-> market[side]]
    BY DEF Quoted
  <2> HIDE DEF market
  <2> QED
    BY <1>3, <2>1 DEF Markets
<1>5. "yes" \in BookSides /\ "no" \in BookSides
  BY DEF BookSides
<1> HIDE DEF market
<1>6. /\ market.yes.bid = q.yes.bid /\ market.yes.ask = q.yes.ask
      /\ market.no.ask = q.no.ask
      /\ Levels(book["no"]) # {} => market.no.bid = q.no.bid
  BY <1>1, <1>2, <1>3, <1>5
<1> QED
  BY <1>4, <1>6 DEF market, q

LEMMA PriceIs ==
  ASSUME NEW market \in Markets, NEW side \in BookSides
  PROVE  suggest_limit_price(market, side) \in Prices
<1>1. market[side].bid \in Int /\ market[side].ask \in Int
  BY DEF Markets, Quote
<1>2. Payout \div 2 \in Int
  BY Constants
<1> QED
  BY <1>1, <1>2, Limits, Constants DEF suggest_limit_price, Larger, Smaller, Prices

LEMMA CompositeIs ==
  ASSUME NEW book \in TypedBooks, NEW momentum \in Int
  PROVE  Composite(momentum, book).num \in Int /\ Composite(momentum, book).den \in Nat \ {0}
<1> DEFINE skew == get_orderbook_skew(book)
<1>1. skew.num \in Int /\ skew.den \in Nat \ {0}
  BY SkewIs
<1>2. Composite(momentum, book)
        = [num |-> 6 * momentum * skew.den + 4 * skew.num * MomentumSteps,
           den |-> 10 * MomentumSteps * skew.den]
  BY DEF Composite
<1> HIDE DEF skew
<1>3. 10 * MomentumSteps * skew.den \in Nat \ {0}
  <2>1. 10 * MomentumSteps \in Nat \ {0}
    BY Limits
  <2>2. \A a, b \in Nat \ {0} : a * b \in Nat \ {0}
    OBVIOUS
  <2> QED
    BY <1>1, <2>1, <2>2
<1>4. 6 * momentum * skew.den + 4 * skew.num * MomentumSteps \in Int
  BY <1>1, Limits
<1> QED
  BY <1>2, <1>3, <1>4

LEMMA ModelIs ==
  ASSUME NEW market \in Markets, NEW composite, composite.num \in Int, composite.den \in Nat
  PROVE  ModelYes(market, composite) \in Int
<1>1. market.yes.bid \in Int /\ market.yes.ask \in Int
  BY DEF Markets, Quote, BookSides
<1>2. /\ (market.yes.bid + market.yes.ask) * composite.den + composite.num * Payout \in Int
      /\ 2 * composite.den \in Int
      /\ 2 * composite.den * (Payout - 1) \in Int
  BY <1>1, Constants
<1> QED
  BY <1>2 DEF ModelYes, Clip, Larger, Smaller

LEMMA SizeIs ==
  ASSUME NEW edge \in Int, NEW part \in Nat \ {0}
  PROVE  SizeFor(edge, part) \in Nat \ {0}
<1> DEFINE span == (MAX_EDGE_PCT - MIN_EDGE_PCT) * part
           over == Clip(edge - MIN_EDGE_PCT * part, 0, span)
           top == 2 * (BASE_SIZE * span + over * (MAX_SIZE - BASE_SIZE)) + span
<1>1. span \in Nat \ {0}
  <2>1. MAX_EDGE_PCT - MIN_EDGE_PCT \in Nat \ {0}
    BY Limits
  <2>2. \A a, b \in Nat \ {0} : a * b \in Nat \ {0}
    OBVIOUS
  <2> QED
    BY <2>1, <2>2
<1>2. SizeFor(edge, part) = Larger(1, top \div (2 * span))
  BY DEF SizeFor
<1>3. over \in Int
  <2>1. edge - MIN_EDGE_PCT * part \in Int
    BY Limits
  <2> HIDE DEF span
  <2> QED
    BY <1>1, <2>1 DEF Clip, Larger, Smaller
<1> HIDE DEF span, over
<1>4. top \in Int
  BY <1>1, <1>3, Limits
<1> HIDE DEF top
<1>5. top \div (2 * span) \in Int
  BY <1>1, <1>4
<1> QED
  BY <1>2, <1>5 DEF Larger

LEMMA SignalIs ==
  ASSUME NEW market \in Markets, NEW book \in TypedBooks, NEW momentum \in Int
  PROVE  generate_signal(market, book, momentum) \in Signals
<1> DEFINE composite == Composite(momentum, book)
           side == SideOf(composite)
           price == suggest_limit_price(market, side)
           part == 2 * composite.den
           model == ModelYes(market, composite)
           decision == decide_trade_fee_aware(YesPrice(side, price), model, part)
<1>1. composite.num \in Int /\ composite.den \in Nat \ {0}
  BY CompositeIs
<1>2. side \in BookSides
  BY DEF SideOf, BookSides
<1>3. price \in Prices
  BY <1>2, PriceIs
<1>4. model \in Int
  BY <1>1, ModelIs
<1>5. part \in Nat \ {0}
  BY <1>1
<1>6. YesPrice(side, price) \in Int
  BY <1>3, Constants DEF YesPrice, Prices
<1> HIDE DEF composite, part, model, price
<1>7. decision.size \in Nat
  <2>1. Magnitude(model - YesPrice(side, price) * part) \in Int
    BY <1>4, <1>5, <1>6 DEF Magnitude
  <2>2. SizeFor(Magnitude(model - YesPrice(side, price) * part), part) \in Nat
    BY <1>5, <2>1, SizeIs
  <2> QED
    BY <2>2 DEF decide_trade_fee_aware
<1> HIDE DEF decision, side
<1>8. \/ generate_signal(market, book, momentum) = NoSignal
      \/ \E size \in {decision.size, 0} :
           generate_signal(market, book, momentum) = [side |-> side, price |-> price, size |-> size]
  BY DEF generate_signal, composite, side, price, part, model, decision
<1> QED
  BY <1>2, <1>3, <1>7, <1>8 DEF Signals

LEMMA LegacyAre == StaleQuotes \subseteq Markets /\ Momenta \subseteq Int
BY EntryAssumption, Limits DEF Markets, Quote

LEMMA SignalFromIs ==
  ASSUME NEW book \in Books, NEW listed \in Listings(book), NEW legacy \in StaleQuotes,
         NEW momentum \in Momenta
  PROVE  SignalFrom(listed, legacy, momentum) \in Signals
<1>1. listed \in TypedBooks /\ legacy \in Markets /\ momentum \in Int
  BY ListingIs, LegacyAre
<1>2. CASE Usable(_quotes_from_orderbook(listed))
  <2>1. Quoted(_quotes_from_orderbook(listed), legacy) \in Markets
    BY <1>1, <1>2, QuotedAre
  <2> QED
    BY <1>1, <1>2, <2>1, SignalIs DEF SignalFrom
<1>3. CASE ~ Usable(_quotes_from_orderbook(listed))
  BY <1>3 DEF SignalFrom, Signals
<1> QED
  BY <1>2, <1>3

\* A side without levels is too shallow to trade.
LEMMA EmptyIsShallow ==
  ASSUME NEW market, NEW book, NEW composite, NEW side \in BookSides,
         MIN_DEPTH[side] > 0, Levels(book[side]) = {}
  PROVE  ~ Tradable(market, book, side, composite)
<1>1. {bid \in Levels(book[side]) : bid.size > 0} = {}
  BY Zenon
<1>2. _extract_best_bid_depth(book[side]).size = 0
  BY <1>1 DEF _extract_best_bid_depth, BestOf, NoBid
<1>3. MIN_DEPTH[side] \in Nat
  BY DecisionAssumption
<1>4. ~ (_extract_best_bid_depth(book[side]).size >= MIN_DEPTH[side])
  BY <1>2, <1>3
<1> QED
  BY <1>4 DEF Tradable

LEMMA BookAlone ==
  ASSUME \A side \in BookSides : MIN_DEPTH[side] > 0,
         NEW book \in Books, NEW one \in Listings(book), NEW other \in Listings(book),
         NEW legacy \in StaleQuotes, NEW stale \in StaleQuotes, NEW momentum \in Momenta
  PROVE  SignalFrom(one, legacy, momentum) = SignalFrom(other, stale, momentum)
<1> DEFINE q == _quotes_from_orderbook(one)
           A == Quoted(q, legacy)
           B == Quoted(q, stale)
           composite == Composite(momentum, one)
           side == SideOf(composite)
<1>1. /\ one \in TypedBooks /\ legacy \in Markets /\ stale \in Markets /\ momentum \in Int
      /\ \A s \in BookSides : Levels(one[s]) = Levels(other[s])
  BY ListingIs, LegacyAre
<1>2. /\ _quotes_from_orderbook(other) = q
      /\ get_orderbook_skew(one) = get_orderbook_skew(other)
      /\ \A s \in BookSides : _extract_best_bid_depth(one[s]) = _extract_best_bid_depth(other[s])
  BY <1>1, SameLevels
<1>3. Composite(momentum, other) = composite
  BY <1>2 DEF Composite
<1>4. CASE ~ Usable(q)
  BY <1>2, <1>4 DEF SignalFrom
<1>5. CASE Usable(q)
  <2>1. /\ A.yes.bid = q.yes.bid /\ A.yes.ask = q.yes.ask /\ A.no.ask = q.no.ask
        /\ B.yes.bid = q.yes.bid /\ B.yes.ask = q.yes.ask /\ B.no.ask = q.no.ask
        /\ Levels(one["no"]) # {} => A.no.bid = q.no.bid /\ B.no.bid = q.no.bid
    BY <1>1, <1>5, QuotedAre
  <2>2. /\ SignalFrom(one, legacy, momentum) = generate_signal(A, one, momentum)
        /\ SignalFrom(other, stale, momentum) = generate_signal(B, other, momentum)
    BY <1>2, <1>5 DEF SignalFrom
  <2>3. side \in BookSides /\ "yes" \in BookSides /\ "no" \in BookSides
    BY DEF SideOf, BookSides
  <2> HIDE DEF q, A, B
  <2>4. ModelYes(A, composite) = ModelYes(B, composite)
    BY <2>1 DEF ModelYes
  <2>5. Spread(A, one) = Spread(B, other)
    BY <1>2, <2>1, <2>3 DEF Spread
  <2> HIDE DEF side
  <2>6. Tradable(A, one, side, composite) = Tradable(B, other, side, composite)
    BY <1>2, <2>1, <2>3, <2>4, <2>5 DEF Tradable
  <2>7. CASE Levels(one[side]) = {}
    <3>1. ~ Tradable(A, one, side, composite) /\ ~ Tradable(B, other, side, composite)
      BY <2>3, <2>6, <2>7, EmptyIsShallow
    <3> QED
      BY <1>3, <2>2, <3>1 DEF generate_signal, side
  <2>8. CASE Levels(one[side]) # {}
    <3>1. A[side].bid = B[side].bid /\ A[side].ask = B[side].ask
      BY <2>1, <2>3, <2>8 DEF BookSides
    <3>2. suggest_limit_price(A, side) = suggest_limit_price(B, side)
      BY <3>1 DEF suggest_limit_price
    <3> QED
      BY <1>3, <2>2, <2>4, <2>6, <3>2 DEF generate_signal, side
  <2> QED
    BY <2>7, <2>8
<1> QED
  BY <1>4, <1>5

-----------------------------------------------------------------------------
(* Fees *)

LEMMA StrictlyScaled ==
  ASSUME NEW a \in Int, NEW b \in Int, NEW n \in Nat \ {0}
  PROVE  n * a < n * b <=> a < b
<1>1. a < b => n * a < n * b
  <2> SUFFICES ASSUME a < b PROVE n * a < n * b
    OBVIOUS
  <2>1. (a + 1) * n <= b * n
    BY Scaled
  <2>2. (a + 1) * n = n * a + n /\ b * n = n * b /\ n * a \in Int /\ n * b \in Int
    OBVIOUS
  <2> QED
    BY <2>1, <2>2
<1>2. ~ (a < b) => ~ (n * a < n * b)
  <2> SUFFICES ASSUME b <= a PROVE ~ (n * a < n * b)
    OBVIOUS
  <2>1. b * n <= a * n
    BY Scaled
  <2>2. a * n = n * a /\ b * n = n * b /\ n * a \in Int /\ n * b \in Int
    OBVIOUS
  <2> QED
    BY <2>1, <2>2
<1> QED
  BY <1>1, <1>2

LEMMA CeilDivIs ==
  ASSUME NEW n \in Int, NEW d \in Nat \ {0}
  PROVE  /\ CeilDiv(n, d) \in Int
         /\ n <= d * CeilDiv(n, d) /\ d * CeilDiv(n, d) < n + d
<1> DEFINE q == (-n) \div d
           r == (-n) % d
<1>1. q \in Int /\ r \in 0 .. d - 1 /\ -n = d * q + r
  OBVIOUS
<1>2. CeilDiv(n, d) = -q
  BY DEF CeilDiv
<1> HIDE DEF q, r
<1>3. d * (-q) = -(d * q) /\ d * q \in Int
  BY <1>1
<1>4. n <= d * (-q) /\ d * (-q) < n + d
  BY <1>1, <1>3
<1> QED
  BY <1>1, <1>2, <1>4

\* What a contract costs in fees, in units of 1 / Granularity cent.
Granularity == 100 * Payout
Charge(price) == KALSHI_FEE_RATE * price * (Payout - price)

LEMMA FeeIs ==
  ASSUME NEW C \in Nat, NEW price \in Int
  PROVE  /\ Fee(C, price) \in Int /\ Charge(price) \in Int /\ Granularity \in Nat \ {0}
         /\ C * Charge(price) <= Granularity * Fee(C, price)
         /\ Granularity * Fee(C, price) < C * Charge(price) + Granularity
<1>1. Payout \in Nat \ {0} /\ KALSHI_FEE_RATE \in Nat
  BY Constants, Limits
<1>2. Granularity \in Nat \ {0} /\ Charge(price) \in Int
  BY <1>1 DEF Granularity, Charge
<1>3. KALSHI_FEE_RATE * C * price * (Payout - price) = C * Charge(price)
  BY <1>1 DEF Charge
<1>4. Fee(C, price) = CeilDiv(C * Charge(price), Granularity)
  BY <1>3 DEF Fee, Granularity
<1>5. C * Charge(price) \in Int
  BY <1>2
<1> QED
  BY <1>2, <1>4, <1>5, CeilDivIs

\* The fees both ways, as a signal is charged for them.
LEMMA FeesTyped ==
  ASSUME NEW C \in Nat, NEW price \in Int
  PROVE  Fee(C, price) \in Int /\ Fee(C, Payout \div 2) \in Int
<1>1. Fee(C, price) \in Int
  BY FeeIs
<1>2. Payout \div 2 \in Int
  BY Constants
<1>3. Fee(C, Payout \div 2) \in Int
  BY <1>2, FeeIs
<1> QED
  BY <1>1, <1>3

LEMMA FeeMirrored ==
  ASSUME NEW C \in Nat, NEW price \in Int
  PROVE  Fee(C, Payout - price) = Fee(C, price)
<1>1. Payout \in Nat \ {0} /\ KALSHI_FEE_RATE \in Nat
  BY Constants, Limits
<1>2. Payout - (Payout - price) = price
  BY <1>1
<1>3. /\ KALSHI_FEE_RATE * C \in Int
      /\ (KALSHI_FEE_RATE * C) * (Payout - price) * price = (KALSHI_FEE_RATE * C) * price * (Payout - price)
  BY <1>1
<1> QED
  BY <1>2, <1>3 DEF Fee

\* Rounding up costs a smaller order less than a cent beyond its share of a
\* larger one's fee.
LEMMA FeeShare ==
  ASSUME NEW C \in Nat, NEW S \in Nat \ {0}, NEW price \in Int
  PROVE  S * (Fee(C, price) - 1) < C * Fee(S, price)
<1> DEFINE u == Charge(price)
           fee == Fee(C, price) - 1
           whole == Fee(S, price)
           D == Granularity
<1>1. /\ fee \in Int /\ whole \in Int /\ u \in Int /\ D \in Nat \ {0}
      /\ D * fee < C * u
      /\ S * u <= D * whole
  <2>1. /\ Fee(C, price) \in Int /\ u \in Int /\ D \in Nat \ {0}
        /\ D * Fee(C, price) < C * u + D
    BY FeeIs
  <2>2. whole \in Int /\ S * u <= D * whole
    BY FeeIs
  <2>3. D * (Fee(C, price) - 1) = D * Fee(C, price) - D /\ D * Fee(C, price) \in Int /\ C * u \in Int
    <3> HIDE DEF D, u
    <3> QED BY <2>1
  <2> HIDE DEF D, u
  <2> QED
    BY <2>1, <2>2, <2>3
<1> HIDE DEF u, fee, whole, D
<1>2. S * (D * fee) < S * (C * u)
  BY <1>1, StrictlyScaled
<1>3. (S * u) * C <= (D * whole) * C
  <2>1. S * u \in Int /\ D * whole \in Int
    BY <1>1
  <2> QED
    BY <1>1, <2>1, Scaled
<1>4. /\ S * (D * fee) = D * (S * fee) /\ S * (C * u) = (S * u) * C
      /\ (D * whole) * C = D * (C * whole)
      /\ D * (S * fee) \in Int /\ (S * u) * C \in Int /\ D * (C * whole) \in Int
  BY <1>1
<1>5. D * (S * fee) < D * (C * whole)
  BY <1>2, <1>3, <1>4
<1>6. S * fee < C * whole
  <2>1. S * fee \in Int /\ C * whole \in Int
    BY <1>1
  <2> QED
    BY <1>1, <1>5, <2>1, StrictlyScaled
<1> QED
  BY <1>6 DEF fee, whole

-----------------------------------------------------------------------------
(* The edge *)

\* What buying the side with the edge earns is the mispricing, on either side.
LEMMA EdgeIsMispricing ==
  ASSUME NEW side \in BookSides, NEW price \in Prices, NEW model \in Int, NEW part \in Nat \ {0},
         LET mispricing == model - YesPrice(side, price) * part
         IN  side = "yes" <=> mispricing > 0
  PROVE  Magnitude(model - YesPrice(side, price) * part) = Worth(side, model, part) - price * part
<1>1. price \in Nat /\ Payout \in Nat
  BY Constants DEF Prices
<1>2. CASE side = "yes"
  BY <1>1, <1>2 DEF YesPrice, Magnitude, Worth
<1>3. CASE side # "yes"
  <2>1. (Payout - price) * part = Payout * part - price * part /\ Payout * part \in Int /\ price * part \in Int
    BY <1>1
  <2>2. model - (Payout - price) * part <= 0
    BY <1>1, <1>3 DEF YesPrice
  <2> QED
    BY <1>3, <2>1, <2>2 DEF YesPrice, Magnitude, Worth
<1> QED
  BY <1>2, <1>3

LEMMA SignalClaims ==
  ASSUME NEW market \in Markets, NEW book \in TypedBooks, NEW momentum \in Int,
         generate_signal(market, book, momentum).size > 0
  PROVE  LET composite == Composite(momentum, book)
         IN  Claims(generate_signal(market, book, momentum), ModelYes(market, composite),
                    2 * composite.den)
<1> DEFINE composite == Composite(momentum, book)
           side == SideOf(composite)
           price == suggest_limit_price(market, side)
           part == 2 * composite.den
           model == ModelYes(market, composite)
           P == YesPrice(side, price)
           mispricing == model - P * part
           C == SizeFor(Magnitude(mispricing), part)
           decision == decide_trade_fee_aware(P, model, part)
           s == generate_signal(market, book, momentum)
<1>1. composite.num \in Int /\ composite.den \in Nat \ {0}
  BY CompositeIs
<1>2. side \in BookSides
  BY DEF SideOf, BookSides
<1>3. price \in Prices
  BY <1>2, PriceIs
<1>4. model \in Int /\ part \in Nat \ {0}
  BY <1>1, ModelIs
<1>5. P \in Int
  BY <1>3, Constants DEF YesPrice, Prices
<1>6. mispricing \in Int
  <2> HIDE DEF model, P, part
  <2> QED BY <1>4, <1>5
<1>7. C \in Nat \ {0}
  <2>1. Magnitude(mispricing) \in Int
    <3> HIDE DEF mispricing
    <3> QED BY <1>6 DEF Magnitude
  <2> HIDE DEF mispricing, part
  <2> QED BY <1>4, <2>1, SizeIs
<1>8. /\ decision.action = (IF side = "yes" THEN "BUY_YES" ELSE "BUY_NO")
      /\ s = [side |-> side, price |-> price, size |-> decision.size]
  <2>1. NoSignal.size = 0
    BY DEF NoSignal
  <2> HIDE DEF decision, price, side
  <2>2. \/ s = NoSignal
        \/ s = [side |-> side, price |-> price,
                size |-> IF decision.action = (IF side = "yes" THEN "BUY_YES" ELSE "BUY_NO")
                           THEN decision.size ELSE 0]
    BY DEF generate_signal, decision, price, side
  <2> HIDE DEF s
  <2>3. s.size > 0
    BY DEF s
  <2> QED
    BY <2>1, <2>2, <2>3
<1> HIDE DEF s, composite, side, price, part, model, P, C
<1>9. /\ ~ (Magnitude(mispricing) < MIN_EDGE_PCT * part)
      /\ ~ (P > FORBIDDEN_PRICE_LOW /\ P < FORBIDDEN_PRICE_HIGH)
      /\ ~ ((Magnitude(mispricing) - MIN_EXPECTED_NET_PER_CONTRACT * part) * C < Fees(C, P) * part)
      /\ decision = [action |-> IF mispricing > 0 THEN "BUY_YES" ELSE "BUY_NO", size |-> C]
  <2>1. \A d : d = [action |-> "NO_TRADE", size |-> 0] => d.action = "NO_TRADE"
    OBVIOUS
  <2> QED
    BY <1>8, <2>1 DEF decide_trade_fee_aware, C
<1>10. side = "yes" <=> mispricing > 0
  <2> HIDE DEF decision, mispricing
  <2> QED BY <1>8, <1>9
<1>11. Magnitude(mispricing) = Worth(side, model, part) - price * part
  BY <1>2, <1>3, <1>4, <1>10, EdgeIsMispricing DEF P
<1>12. decision.size = C
  <2> HIDE DEF decision
  <2> QED BY <1>9
<1> HIDE DEF mispricing, decision
<1>13. s.side = side /\ s.price = price /\ s.size = C
  BY <1>8, <1>12
<1>14. Fees(C, P) = Fee(C, price) + Fee(C, Payout \div 2)
  <2>1. Fee(C, P) = Fee(C, price)
    BY <1>3, <1>7, FeeMirrored DEF P, YesPrice, Prices
  <2> QED
    BY <2>1 DEF Fees
<1>15. Magnitude(mispricing) \in Int
  BY <1>6 DEF Magnitude
<1>16. Fees(C, P) \in Int
  <2>1. Payout \div 2 \in Int
    BY Constants
  <2> QED
    BY <1>5, <1>7, <2>1, FeeIs DEF Fees
<1>17. Magnitude(mispricing) >= MIN_EDGE_PCT * part
  BY <1>4, <1>9, <1>15, Limits
<1>18. (Magnitude(mispricing) - MIN_EXPECTED_NET_PER_CONTRACT * part) * C >= Fees(C, P) * part
  <2>1. (Magnitude(mispricing) - MIN_EXPECTED_NET_PER_CONTRACT * part) * C \in Int /\ Fees(C, P) * part \in Int
    BY <1>4, <1>7, <1>15, <1>16, Limits
  <2> QED
    BY <1>9, <2>1
<1>19. P <= FORBIDDEN_PRICE_LOW \/ P >= FORBIDDEN_PRICE_HIGH
  BY <1>5, <1>9, Limits
<1>20. Claims(s, model, part)
  BY <1>11, <1>13, <1>14, <1>17, <1>18, <1>19 DEF Claims, P
<1> QED
  BY <1>20 DEF s, model, part, composite

LEMMA InitSignal == Init => SignalInv /\ CapInv
<1>1. NoSignal.size = 0
  BY DEF NoSignal
<1> QED
  BY <1>1 DEF Init, SignalInv, CapInv, Views

LEMMA EvaluateKeepsSignal ==
  ASSUME SignalInv, Evaluate
  PROVE  SignalInv'
<1>1. PICK listed \in Listings(view.book), legacy \in StaleQuotes :
        signal' = SignalFrom(listed, legacy, view.momentum)
  BY DEF Evaluate
<1>2. phase = "quoted" /\ phase' = "signalled" /\ UNCHANGED view
  BY DEF Evaluate
<1>3. view \in Views /\ view.book \in Books /\ view.momentum \in Momenta
  BY <1>2 DEF SignalInv, Views
<1>4. signal' \in Signals
  BY <1>1, <1>3, SignalFromIs
<1>5. ASSUME signal'.size > 0
      PROVE  Claims(signal', Model, Part)
  <2> DEFINE q == _quotes_from_orderbook(listed)
             nothing == [side \in BookSides |-> [bid |-> None, ask |-> None]]
             quoted == Quoted(q, legacy)
             composite == Composite(view.momentum, listed)
  <2>1. /\ view.book \in TypedBooks /\ listed \in TypedBooks
        /\ \A side \in BookSides : Levels(listed[side]) = Levels(view.book[side])
        /\ legacy \in Markets /\ view.momentum \in Int
    BY <1>3, ListingIs, LegacyAre
  <2>2. /\ q = _quotes_from_orderbook(view.book)
        /\ composite = Composite(view.momentum, view.book)
    BY <2>1, SameLevels DEF Composite
  <2>3. Usable(q) /\ signal' = generate_signal(quoted, listed, view.momentum)
    <3>1. NoSignal.size = 0
      BY DEF NoSignal
    <3> QED
      BY <1>1, <1>5, <3>1 DEF SignalFrom
  <2>4. nothing \in Markets
    BY Constants DEF Markets, Quote, None
  <2>5. /\ quoted \in Markets
        /\ quoted.yes.bid = q.yes.bid /\ quoted.yes.ask = q.yes.ask
    BY <2>1, <2>3, QuotedAre
  <2>6. Market.yes.bid = q.yes.bid /\ Market.yes.ask = q.yes.ask
    <3> HIDE DEF nothing
    <3>1. Usable(_quotes_from_orderbook(view.book))
      BY <2>2, <2>3
    <3>2. /\ Quoted(_quotes_from_orderbook(view.book), nothing).yes.bid = q.yes.bid
          /\ Quoted(_quotes_from_orderbook(view.book), nothing).yes.ask = q.yes.ask
      BY <2>1, <2>2, <2>4, <3>1, QuotedAre
    <3> QED
      BY <3>2 DEF Market, nothing
  <2> HIDE DEF q, nothing, quoted, composite
  <2>7. ModelYes(Market, composite) = ModelYes(quoted, composite)
    BY <2>5, <2>6 DEF ModelYes
  <2>8. Claims(signal', ModelYes(quoted, composite), 2 * composite.den)
    BY <1>5, <2>1, <2>3, <2>5, SignalClaims DEF composite
  <2> QED
    BY <2>2, <2>7, <2>8 DEF Model, Part, Den
<1>6. Model' = Model /\ Part' = Part
  BY <1>2 DEF Model, Part, Den, Market
<1> QED
  BY <1>2, <1>3, <1>4, <1>5, <1>6 DEF SignalInv

LEMMA NextSignal ==
  ASSUME SignalInv, [Next]_vars
  PROVE  SignalInv'
<1>1. CASE Evaluate
  BY <1>1, EvaluateKeepsSignal
<1>2. CASE PlaceBuy
  <2>1. /\ phase = "signalled" /\ phase' = "buying" /\ UNCHANGED <<view, signal>>
    BY <1>2 DEF PlaceBuy
  <2>2. Model' = Model /\ Part' = Part
    BY <2>1 DEF Model, Part, Den, Market
  <2> QED
    BY <2>1, <2>2 DEF SignalInv
<1>3. CASE Bought
  <2>1. phase' \in {"flat", "holding"} /\ signal' = NoSignal /\ signal'.size = 0
    BY <1>3 DEF Bought, NoSignal
  <2> QED
    BY <2>1 DEF SignalInv
<1>4. CASE PlaceSell \/ Sold
  <2>1. phase \in {"holding", "selling"} /\ phase' \in {"holding", "selling", "flat"} /\ signal' = signal
    BY <1>4 DEF PlaceSell, Sold
  <2>2. signal' = NoSignal /\ NoSignal.size = 0
    BY <2>1 DEF SignalInv, NoSignal
  <2> QED
    BY <2>1, <2>2 DEF SignalInv
<1>5. CASE UNCHANGED vars
  <2>1. UNCHANGED <<phase, view, signal>>
    BY <1>5 DEF vars
  <2>2. Model' = Model /\ Part' = Part
    BY <2>1 DEF Model, Part, Den, Market
  <2> QED
    BY <2>1, <2>2 DEF SignalInv
<1> QED
  BY <1>1, <1>2, <1>3, <1>4, <1>5 DEF Next

LEMMA NextCap ==
  ASSUME SignalInv, CapInv, [Next]_vars
  PROVE  CapInv'
<1>1. CASE PlaceBuy
  <2> DEFINE C == Contracts(signal.price, signal.size)
  <2>1. /\ phase = "signalled" /\ signal.size > 0 /\ C >= 1 /\ signal' = signal
        /\ order' = Order(signal.side, "buy", signal.price, C * Unit)
    BY <1>1 DEF PlaceBuy
  <2>2. signal.price \in Prices /\ signal.size \in Nat
    BY <2>1, SizedSignals DEF SignalInv
  <2>3. C \in Nat /\ C <= signal.size /\ C * signal.price <= MAX_TRADE_DOLLARS
    BY <2>2, ContractsAre
  <2> HIDE DEF C
  <2> QED
    BY <2>1, <2>3 DEF CapInv
<1>2. CASE Evaluate \/ Bought \/ PlaceSell \/ Sold
  BY <1>2 DEF Evaluate, Bought, PlaceSell, Sold, CapInv
<1>3. CASE UNCHANGED vars
  BY <1>3 DEF vars, CapInv
<1> QED
  BY <1>1, <1>2, <1>3 DEF Next

-----------------------------------------------------------------------------
(* What the invariants say *)

\* The terms of a signal to buy, and the model it comes from.
LEMMA TermsTyped ==
  ASSUME SignalInv, signal.size > 0
  PROVE  /\ signal.side \in BookSides /\ signal.price \in Prices /\ signal.size \in Nat \ {0}
         /\ Model \in Int /\ Part \in Nat \ {0} /\ Worth(signal.side, Model, Part) \in Int
         /\ OwnWorth(signal.side) = Worth(signal.side, Model, Part)
<1>1. phase \in {"signalled", "buying"} /\ view \in Views /\ signal \in Signals
  BY DEF SignalInv, NoSignal
<1>2. signal.side \in BookSides /\ signal.price \in Prices /\ signal.size \in Nat \ {0}
  BY <1>1, SizedSignals
<1>3. view.book \in TypedBooks /\ view.momentum \in Int
  BY <1>1, ListingIs, LegacyAre DEF Views, Listings
<1> DEFINE composite == Composite(view.momentum, view.book)
<1>4. composite.num \in Int /\ composite.den \in Nat \ {0}
  BY <1>3, CompositeIs
<1>5. Part \in Nat \ {0}
  BY <1>4 DEF Part, Den
<1>6. Market.yes.bid \in Int /\ Market.yes.ask \in Int
  <2> DEFINE nothing == [side \in BookSides |-> [bid |-> None, ask |-> None]]
  <2>1. \A side \in BookSides :
          /\ _quotes_from_orderbook(view.book)[side].bid \in Int
          /\ _quotes_from_orderbook(view.book)[side].ask \in Int
    BY <1>3, QuotesAre
  <2>2. "yes" \in BookSides /\ None \in Int
    BY DEF BookSides, None
  <2> QED
    BY <2>1, <2>2 DEF Market, Quoted
<1>7. Model \in Int
  <2> HIDE DEF composite
  <2>1. /\ (Market.yes.bid + Market.yes.ask) * composite.den + composite.num * Payout \in Int
        /\ 2 * composite.den \in Int
        /\ 2 * composite.den * (Payout - 1) \in Int
    BY <1>4, <1>6, Constants
  <2>2. ModelYes(Market, composite) \in Int
    BY <2>1 DEF ModelYes, Clip, Larger, Smaller
  <2> QED
    BY <2>2 DEF Model, composite
<1>8. Worth(signal.side, Model, Part) \in Int
  BY <1>5, <1>7, Constants DEF Worth
<1>9. OwnWorth(signal.side) = Worth(signal.side, Model, Part)
  BY DEF OwnWorth, Worth, Model
<1> QED
  BY <1>2, <1>5, <1>7, <1>8, <1>9

\* The terms of a purchase in other words.
LEMMA NetIs ==
  ASSUME NEW C \in Nat, NEW worth \in Int, NEW price \in Int, NEW fees \in Int, NEW part \in Nat,
         NEW least \in Int
  PROVE  (C * (worth - price * part) - fees * part) - C * least * part
           = (worth - price * part - least * part) * C - fees * part
<1>1. price * part \in Int /\ least * part \in Int
  OBVIOUS
<1>2. \A a, b, n \in Int : (a - b) * n = n * a - n * b
  OBVIOUS
<1>3. C * least * part = C * (least * part)
  OBVIOUS
<1>4. (worth - price * part - least * part) * C = C * (worth - price * part) - C * (least * part)
  BY <1>1, <1>2
<1>5. C * (worth - price * part) \in Int /\ C * (least * part) \in Int /\ fees * part \in Int
  BY <1>1
<1> QED
  BY <1>3, <1>4, <1>5

LEMMA SignalEdge ==
  ASSUME SignalInv
  PROVE  SignalHasEdge
<1> SUFFICES ASSUME signal.size > 0
             PROVE  /\ OwnWorth(signal.side) - signal.price * Part >= MIN_EDGE_PCT * Part
                    /\ ExpectedNet(signal.side, signal.price, signal.size)
                         >= signal.size * MIN_EXPECTED_NET_PER_CONTRACT * Part
                    /\ LET yes == IF signal.side = "yes" THEN signal.price ELSE Payout - signal.price
                       IN  yes <= FORBIDDEN_PRICE_LOW \/ yes >= FORBIDDEN_PRICE_HIGH
  BY DEF SignalHasEdge
<1> DEFINE worth == Worth(signal.side, Model, Part)
           fees == Fee(signal.size, signal.price) + Fee(signal.size, Payout \div 2)
           least == MIN_EXPECTED_NET_PER_CONTRACT
           net == ExpectedNet(signal.side, signal.price, signal.size)
<1>1. /\ signal.side \in BookSides /\ signal.price \in Prices /\ signal.size \in Nat \ {0}
      /\ Part \in Nat \ {0} /\ worth \in Int /\ OwnWorth(signal.side) = worth
  BY TermsTyped
<1>2. /\ worth - signal.price * Part >= MIN_EDGE_PCT * Part
      /\ (worth - signal.price * Part - least * Part) * signal.size >= fees * Part
      /\ \/ YesPrice(signal.side, signal.price) <= FORBIDDEN_PRICE_LOW
         \/ YesPrice(signal.side, signal.price) >= FORBIDDEN_PRICE_HIGH
  BY DEF SignalInv, Claims
<1>3. signal.price \in Int /\ fees \in Int /\ least \in Int
  <2>1. signal.price \in Int /\ signal.size \in Nat
    BY <1>1, Constants DEF Prices
  <2>2. Fee(signal.size, signal.price) \in Int /\ Fee(signal.size, Payout \div 2) \in Int
    BY <2>1, FeesTyped
  <2>3. least \in Int
    BY Limits
  <2>4. fees \in Int
    BY <2>2
  <2> QED
    BY <2>1, <2>3, <2>4
<1>4. net = signal.size * (worth - signal.price * Part) - fees * Part
  BY <1>1 DEF ExpectedNet
<1> HIDE DEF worth, fees, least, net
<1>5. net >= signal.size * least * Part
  <2>1. net - signal.size * least * Part
          = (worth - signal.price * Part - least * Part) * signal.size - fees * Part
    BY <1>1, <1>3, <1>4, NetIs
  <2>2. /\ net \in Int /\ signal.size * least * Part \in Int /\ fees * Part \in Int
        /\ (worth - signal.price * Part - least * Part) * signal.size \in Int
    BY <1>1, <1>3, <1>4
  <2> QED
    BY <1>2, <2>1, <2>2
<1> QED
  BY <1>1, <1>2, <1>5 DEF least, net, YesPrice

\* Each fee of the smaller order is less than a cent beyond its share, so what
\* is left of the minimum is missing less than two.
LEMMA CapCosts ==
  ASSUME SignalInv, CapInv
  PROVE  CapCostsRoundingOnly
<1> SUFFICES ASSUME phase = "buying"
             PROVE  LET C == order.count \div Unit
                    IN  /\ C * order.limit <= MAX_TRADE_DOLLARS
                        /\ ExpectedNet(order.side, order.limit, C)
                             > (C * MIN_EXPECTED_NET_PER_CONTRACT - 2) * Part
  BY DEF CapCostsRoundingOnly
<1>1. PICK C \in Nat \ {0} :
        /\ C <= signal.size /\ C * signal.price <= MAX_TRADE_DOLLARS
        /\ order = Order(signal.side, "buy", signal.price, C * Unit)
  BY DEF CapInv
<1> DEFINE side == signal.side
           price == signal.price
           S == signal.size
           worth == Worth(side, Model, Part)
           half == Payout \div 2
           fees == Fee(C, price) + Fee(C, half)
           whole == Fee(S, price) + Fee(S, half)
           least == MIN_EXPECTED_NET_PER_CONTRACT
           gain == worth - price * Part - least * Part
<1>2. /\ side \in BookSides /\ price \in Prices /\ S \in Nat \ {0}
      /\ Part \in Nat \ {0} /\ worth \in Int /\ OwnWorth(side) = worth
      /\ gain * S >= whole * Part
  <2>1. signal.size > 0
    BY DEF CapInv
  <2>2. gain * S >= whole * Part
    BY <2>1 DEF SignalInv, Claims
  <2> QED
    BY <2>1, <2>2, TermsTyped
<1>3. order.side = side /\ order.limit = price /\ order.count = C * Unit
  BY <1>1, OrderFields
<1>4. (C * Unit) \div Unit = C
  BY <1>1, Constants, WholeQuotient
<1>5. /\ price \in Int /\ half \in Int /\ least \in Int
      /\ Fee(C, price) \in Int /\ Fee(C, half) \in Int /\ Fee(S, price) \in Int /\ Fee(S, half) \in Int
  <2>1. price \in Int /\ half \in Int /\ S \in Nat /\ C \in Nat
    BY <1>2, Constants DEF Prices
  <2>2. least \in Int
    BY Limits
  <2>3. Fee(C, price) \in Int /\ Fee(C, half) \in Int
    BY <2>1, FeesTyped
  <2>4. Fee(S, price) \in Int /\ Fee(S, half) \in Int
    BY <2>1, FeesTyped
  <2> QED
    BY <2>1, <2>2, <2>3, <2>4
<1>6. /\ S * (Fee(C, price) - 1) < C * Fee(S, price)
      /\ S * (Fee(C, half) - 1) < C * Fee(S, half)
  BY <1>2, <1>5, FeeShare
<1>7. S * (fees - 2) < C * whole
  <2> DEFINE a == Fee(C, price)
             b == Fee(C, half)
             x == Fee(S, price)
             y == Fee(S, half)
  <2>1. fees = a + b /\ whole = x + y
    OBVIOUS
  <2>2. a \in Int /\ b \in Int /\ x \in Int /\ y \in Int /\ S \in Nat /\ C \in Nat
    BY <1>2, <1>5
  <2>3. S * (a - 1) < C * x /\ S * (b - 1) < C * y
    BY <1>6
  <2> HIDE DEF a, b, x, y, S, fees, whole
  <2>4. S * ((a + b) - 2) = S * (a - 1) + S * (b - 1)
    BY <2>2
  <2>5. C * (x + y) = C * x + C * y
    BY <2>2
  <2>6. S * (a - 1) \in Int /\ S * (b - 1) \in Int /\ C * x \in Int /\ C * y \in Int
    BY <2>2
  <2>7. S * ((a + b) - 2) < C * (x + y)
    BY <2>3, <2>4, <2>5, <2>6
  <2> QED
    BY <2>1, <2>7
<1>8. ExpectedNet(side, price, C) = C * (worth - price * Part) - fees * Part
  BY <1>2 DEF ExpectedNet
<1>9. fees \in Int /\ whole \in Int /\ gain \in Int
  <2>1. fees \in Int /\ whole \in Int
    BY <1>5
  <2>2. price * Part \in Int /\ least * Part \in Int
    BY <1>2, <1>5
  <2> HIDE DEF worth
  <2> QED
    BY <1>2, <2>1, <2>2
<1> HIDE DEF side, price, S, worth, half, fees, whole, least, gain
\* By the share of the fees, and the gain the signal claims for its size.
<1>10. (fees - 2) * Part < gain * C
  <2>1. Part * (S * (fees - 2)) < Part * (C * whole)
    <3>1. S * (fees - 2) \in Int /\ C * whole \in Int
      BY <1>2, <1>9
    <3> QED
      BY <1>2, <1>7, <3>1, StrictlyScaled
  <2>2. (whole * Part) * C <= (gain * S) * C
    <3>1. whole * Part \in Int /\ gain * S \in Int
      BY <1>2, <1>9
    <3> QED
      BY <1>2, <3>1, Scaled
  <2>3. /\ Part * (S * (fees - 2)) = S * ((fees - 2) * Part)
        /\ Part * (C * whole) = (whole * Part) * C
        /\ (gain * S) * C = S * (gain * C)
    BY <1>2, <1>9
  <2>4. S * ((fees - 2) * Part) \in Int /\ (whole * Part) * C \in Int /\ S * (gain * C) \in Int
    BY <1>2, <1>9
  <2>5. S * ((fees - 2) * Part) < S * (gain * C)
    BY <2>1, <2>2, <2>3, <2>4
  <2>6. (fees - 2) * Part \in Int /\ gain * C \in Int
    BY <1>2, <1>9
  <2> QED
    BY <1>2, <2>5, <2>6, StrictlyScaled
<1>11. ExpectedNet(side, price, C) > (C * least - 2) * Part
  <2> DEFINE net == C * (worth - price * Part) - fees * Part
  <2>1. net - C * least * Part = gain * C - fees * Part
    BY <1>2, <1>5, <1>9, NetIs DEF gain
  <2>2. /\ (fees - 2) * Part = fees * Part - 2 * Part
        /\ (C * least - 2) * Part = C * least * Part - 2 * Part
    BY <1>2, <1>5, <1>9
  <2>3. net \in Int /\ C * least * Part \in Int /\ gain * C \in Int /\ fees * Part \in Int /\ Part \in Int
    BY <1>2, <1>5, <1>9
  <2> HIDE DEF net
  <2>4. net > (C * least - 2) * Part
    BY <1>10, <2>1, <2>2, <2>3
  <2> QED
    BY <1>8, <2>4 DEF net
<1> QED
  BY <1>1, <1>3, <1>4, <1>11 DEF side, price, least

-----------------------------------------------------------------------------
(* The theorems *)

LEMMA InvariantInit == Init => PathInv /\ SignalInv /\ CapInv
BY InitPath, InitSignal

LEMMA InvariantKept ==
  PathInv /\ SignalInv /\ CapInv /\ [Next]_vars => (PathInv /\ SignalInv /\ CapInv)'
BY NextPath, NextSignal, NextCap

LEMMA PathSays ==
  ASSUME PathInv
  PROVE  TracksAccount /\ EntryPriceHonest /\ BookedPnlHonest
<1>1. CASE phase \in {"holding", "selling"}
  <2>1. Holding /\ position.side \in BookSides /\ "no" # "yes"
    BY <1>1 DEF PathInv, Holding
  <2>2. TracksAccount
    BY <2>1 DEF Holding, TracksAccount, BookSides
  <2>3. EntryPriceHonest
    BY <2>1 DEF PathInv, Holding, EntryPriceHonest
  <2> QED
    BY <2>2, <2>3 DEF PathInv
<1>2. CASE phase \notin {"holding", "selling"}
  <2>1. position = NoPosition /\ account = 0
    BY <1>2 DEF PathInv, Untouched
  <2> QED
    BY <2>1 DEF PathInv, TracksAccount, EntryPriceHonest, NoPosition
<1> QED
  BY <1>1, <1>2

\* bot.py:739-747: whenever a signal is about to be made, the one the book's
\* levels make does not depend on the order they are listed in, nor on what the
\* market dict still holds from before.  A side with no bids at all is not deep
\* enough as long as some depth is asked of it.
THEOREM SignalsComeFromTheBook ==
  ASSUME \A side \in BookSides : MIN_DEPTH[side] > 0
  PROVE  Spec => []SignalFromBookAlone
<1>1. SignalInv => SignalFromBookAlone
  <2> SUFFICES ASSUME SignalInv, phase = "quoted",
                      NEW one \in Listings(view.book), NEW other \in Listings(view.book),
                      NEW legacy \in StaleQuotes, NEW stale \in StaleQuotes
               PROVE  SignalFrom(one, legacy, view.momentum) = SignalFrom(other, stale, view.momentum)
    BY DEF SignalFromBookAlone
  <2>1. view.book \in Books /\ view.momentum \in Momenta
    BY DEF SignalInv, Views
  <2> QED
    BY <2>1, BookAlone
<1> QED
  BY InvariantInit, InvariantKept, <1>1, PTL DEF Spec

\* README.md:45-52: every signal to buy has its edge over the price of the side
\* it buys, earns its minimum after the fees of its size, and stays out of the
\* forbidden band of YES prices, whichever side it is on.
THEOREM SignalsHaveEdge == Spec => []SignalHasEdge
<1>1. SignalInv => SignalHasEdge
  BY SignalEdge
<1> QED
  BY InvariantInit, InvariantKept, <1>1, PTL DEF Spec

\* bot.py:79-87: the dollar cap shrinks an order after its fees were checked for
\* the size of the signal.  It stays within the cap, and misses the minimum of
\* its own size by less than the two cents its fees are rounded up by.
THEOREM CapCostsOnlyRounding == Spec => []CapCostsRoundingOnly
<1>1. SignalInv /\ CapInv => CapCostsRoundingOnly
  BY CapCosts
<1> QED
  BY InvariantInit, InvariantKept, <1>1, PTL DEF Spec

\* kalshi_client.py:613-650: through orders that are all told in YES, partial
\* fills and exits in parts, the bot tracks the contracts and the side the
\* account holds.
THEOREM AccountIsTracked == Spec => []TracksAccount
<1>1. PathInv => TracksAccount
  BY PathSays
<1> QED
  BY InvariantInit, InvariantKept, <1>1, PTL DEF Spec

\* kalshi_client.py:697-702, bot.py:899: the entry price that the exits compare
\* with is what the contracts cost on their own side, up to half a cent of
\* rounding; when the exchange does not say, it is no lower than that, and the
\* purchase cost at most the signal's price.
THEOREM EntryPricesAreHonest == Spec => []EntryPriceHonest
<1>1. PathInv => EntryPriceHonest
  BY PathSays
<1> QED
  BY InvariantInit, InvariantKept, <1>1, PTL DEF Spec

\* risk_manager.py:30-42, bot.py:269: however many parts a position is closed
\* in, the PnL that the daily loss limit counts is above what the parts made by
\* no more than the rounding of each part and each price; and when every price
\* was reported, below it by no more either.
THEOREM BookedPnlIsHonest == Spec => []BookedPnlHonest
<1>1. PathInv => BookedPnlHonest
  BY PathSays
<1> QED
  BY InvariantInit, InvariantKept, <1>1, PTL DEF Spec
=============================================================================
