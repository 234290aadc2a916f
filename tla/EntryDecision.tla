----------------------------- MODULE EntryDecision -----------------------------
(***************************************************************************)
(* The fee-aware model of strategy.py, as operators: from a book and a     *)
(* momentum to a signal.                                                   *)
(*                                                                         *)
(* The code computes with floats; here every number is exact.  The         *)
(* composite score is a fraction num / den.  Probabilities count in        *)
(* parts of a cent, 2 * den to the cent: a mid may end in half a cent, and *)
(* the score moves the model by half a dollar at most.  All limits of the  *)
(* configuration are in cents of a one-dollar contract, the fee rate in    *)
(* percent.                                                                *)
(***************************************************************************)
EXTENDS Quotes

CONSTANTS
  MomentumSteps,               \* momentum is a multiple of 1 / MomentumSteps
  MIN_CONFIDENCE,              \* in 1 / 1000
  MAX_PRICE_DEVIATION, MAX_SLIPPAGE,
  MIN_DEPTH,                   \* MIN_YES_DEPTH and MIN_NO_DEPTH, by side
  MIN_EDGE_PCT, MAX_EDGE_PCT,
  FORBIDDEN_PRICE_LOW, FORBIDDEN_PRICE_HIGH,
  MIN_EXPECTED_NET_PER_CONTRACT,
  BASE_SIZE, MAX_SIZE,
  KALSHI_FEE_RATE

\* What config.validate() accepts.
ASSUME DecisionAssumption ==
  /\ MomentumSteps \in Nat \ {0}
  /\ MIN_CONFIDENCE \in 1 .. 999
  /\ MIN_EDGE_PCT \in 1 .. Payout - 1
  /\ MAX_EDGE_PCT \in MIN_EDGE_PCT + 1 .. Payout
  /\ MAX_PRICE_DEVIATION \in MIN_EDGE_PCT + 5 .. Payout
  /\ MAX_SLIPPAGE \in 1 .. Payout
  /\ MIN_DEPTH \in [BookSides -> Nat]
  /\ FORBIDDEN_PRICE_LOW \in 0 .. Payout - 1
  /\ FORBIDDEN_PRICE_HIGH \in FORBIDDEN_PRICE_LOW + 1 .. Payout
  /\ MIN_EXPECTED_NET_PER_CONTRACT \in Nat
  /\ BASE_SIZE \in Nat \ {0}
  /\ MAX_SIZE \in Nat /\ MAX_SIZE >= BASE_SIZE
  /\ KALSHI_FEE_RATE \in 1 .. 99

Magnitude(n) == IF n < 0 THEN -n ELSE n
Clip(n, low, high) == Larger(low, Smaller(high, n))
CeilDiv(n, d) == -((-n) \div d)

-----------------------------------------------------------------------------
\* ceil(rate * C * P * (1 - P)), in cents, for an order of C contracts.
Fee(C, P) == CeilDiv(KALSHI_FEE_RATE * C * P * (Payout - P), 100 * Payout)

\* The open fee at the price and the close fee at the worst price.
Fees(C, P) == Fee(C, P) + Fee(C, Payout \div 2)

\* The edge decides between BASE_SIZE and MAX_SIZE contracts, rounded half up.
\* Edge and price are in parts of a cent.
SizeFor(edge, part) ==
  LET span == (MAX_EDGE_PCT - MIN_EDGE_PCT) * part
      over == Clip(edge - MIN_EDGE_PCT * part, 0, span)
  IN  Larger(1, (2 * (BASE_SIZE * span + over * (MAX_SIZE - BASE_SIZE)) + span) \div (2 * span))

\* Mutant: fees are charged as if every price cost the same.
decide_trade_flat_fee(P, model, part) ==
  LET mispricing == model - P * part
      C == SizeFor(Magnitude(mispricing), part)
  IN  IF \/ Magnitude(mispricing) < MIN_EDGE_PCT * part
         \/ P > FORBIDDEN_PRICE_LOW /\ P < FORBIDDEN_PRICE_HIGH
         \/ (Magnitude(mispricing) - MIN_EXPECTED_NET_PER_CONTRACT * part) * C
              < Fee(C, P) * part
      THEN [action |-> "NO_TRADE", size |-> 0]
      ELSE [action |-> IF mispricing > 0 THEN "BUY_YES" ELSE "BUY_NO", size |-> C]

\* P is the price of a YES contract, model what the model thinks it is worth,
\* in parts of a cent.  What buying the side with the edge earns on average is
\* the mispricing on either side.
decide_trade_fee_aware(P, model, part) ==
  LET mispricing == model - P * part
      C == SizeFor(Magnitude(mispricing), part)
  IN  IF \/ Magnitude(mispricing) < MIN_EDGE_PCT * part
         \/ P > FORBIDDEN_PRICE_LOW /\ P < FORBIDDEN_PRICE_HIGH
         \/ (Magnitude(mispricing) - MIN_EXPECTED_NET_PER_CONTRACT * part) * C
              < Fees(C, P) * part
      THEN [action |-> "NO_TRADE", size |-> 0]
      ELSE [action |-> IF mispricing > 0 THEN "BUY_YES" ELSE "BUY_NO", size |-> C]

-----------------------------------------------------------------------------
NoSignal == [side |-> "none", price |-> 0, size |-> 0]

\* 0.6 * momentum + 0.4 * skew.
Composite(momentum, book) ==
  LET skew == get_orderbook_skew(book)
  IN  [num |-> 6 * momentum * skew.den + 4 * skew.num * MomentumSteps,
       den |-> 10 * MomentumSteps * skew.den]

\* The composite moves the model off the mid by half of itself.
ModelYes(market, composite) ==
  Clip((market.yes.bid + market.yes.ask) * composite.den + composite.num * Payout,
       2 * composite.den, 2 * composite.den * (Payout - 1))

\* The spread between the best whole contracts, or what the quotes say.
Spread(market, book) ==
  LET yesBid == _extract_best_bid_depth(book.yes).price
      noBid == _extract_best_bid_depth(book.no).price
  IN  (IF noBid # None THEN Payout - noBid ELSE market.yes.ask)
        - (IF yesBid # None THEN yesBid ELSE market.yes.bid)

\* The filters before the decision; the ghost-market guard is a spread of 99
\* cents.
Tradable(market, book, side, composite) ==
  LET model == ModelYes(market, composite)
      mid == (market.yes.bid + market.yes.ask) * composite.den
  IN  /\ Magnitude(composite.num) * 1000 >= MIN_CONFIDENCE * composite.den
      /\ market.yes.bid # None /\ market.yes.ask # None
      /\ Spread(market, book) < Payout - 1
      /\ Spread(market, book) <= MAX_SLIPPAGE
      /\ _extract_best_bid_depth(book[side]).size >= MIN_DEPTH[side]
      /\ Magnitude(model - mid) <= MAX_PRICE_DEVIATION * 2 * composite.den

SideOf(composite) == IF composite.num > 0 THEN "yes" ELSE "no"

\* Mutant: the price of a NO contract is taken for the price of YES.
YesPriceUnmirrored(side, price) == price

\* Costs are compared in terms of YES.
YesPrice(side, price) == IF side = "yes" THEN price ELSE Payout - price

\* A signal of size 0 only serves reversal exits.
generate_signal(market, book, momentum) ==
  LET composite == Composite(momentum, book)
      side == SideOf(composite)
      price == suggest_limit_price(market, side)
      decision == decide_trade_fee_aware(YesPrice(side, price),
                                         ModelYes(market, composite), 2 * composite.den)
      agreed == decision.action = (IF side = "yes" THEN "BUY_YES" ELSE "BUY_NO")
  IN  IF ~ Tradable(market, book, side, composite) THEN NoSignal
      ELSE [side |-> side, price |-> price,
            size |-> IF agreed THEN decision.size ELSE 0]
=============================================================================
