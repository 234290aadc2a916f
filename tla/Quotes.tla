-------------------------------- MODULE Quotes --------------------------------
(***************************************************************************)
(* What the bot reads from an orderbook: orderbook_utils.py, the quotes of *)
(* bot.py and the skew and limit price of strategy.py, as operators.       *)
(*                                                                         *)
(* A book holds, for each side, the bids as they were received: the REST   *)
(* interface lists them in ascending order of their prices, the WebSocket  *)
(* client in descending order.  A size counts the smallest fill (0.01      *)
(* contract); the code floors it to contracts.  A side has at most one     *)
(* level of a price.  None is 0, which no quote is.                        *)
(***************************************************************************)
EXTENDS Integers, SequencesExt

CONSTANTS
  Payout,         \* what a winning contract pays, in cents
  Unit,           \* fills per contract
  max_levels,     \* how many levels of a side the skew looks at
  MIN_CONTRACT_PRICE_CENTS, MAX_CONTRACT_PRICE_CENTS

ASSUME QuotesAssumption ==
  /\ Payout \in Nat \ {0, 1}
  /\ Unit \in Nat \ {0}
  /\ max_levels \in Nat \ {0}
  /\ MIN_CONTRACT_PRICE_CENTS \in 1 .. Payout - 1
  /\ MAX_CONTRACT_PRICE_CENTS \in MIN_CONTRACT_PRICE_CENTS .. Payout - 1

None == 0
BookSides == {"yes", "no"}
Opposite(side) == IF side = "yes" THEN "no" ELSE "yes"
Smaller(a, b) == IF a < b THEN a ELSE b
Larger(a, b) == IF a > b THEN a ELSE b

Parsed(bid) == [price |-> bid.price, size |-> bid.size \div Unit]
Levels(bids) == {Parsed(bids[i]) : i \in DOMAIN bids}

\* Mutant: the cut comes before the sort.
parse_bid_array_cut_first(bids, levels) ==
  {Parsed(bids[i]) : i \in 1 .. Smaller(levels, Len(bids))}

\* Sorted, best first, and cut: the levels that fewer than that many are better
\* than.  No caller needs to know more of their order.
parse_bid_array(bids, levels) ==
  {bid \in Levels(bids) :
     Cardinality({other \in Levels(bids) : other.price > bid.price}) < levels}

get_weighted_bid_liquidity(bids) ==
  LET kept == parse_bid_array(bids, max_levels)
      worth == [bid \in kept |-> bid.price * bid.size]
  IN  MapThenSumSet(LAMBDA bid : worth[bid], kept)

\* A fraction; an empty book leans to neither side.
get_orderbook_skew(book) ==
  LET yes == get_weighted_bid_liquidity(book.yes)
      no == get_weighted_bid_liquidity(book.no)
  IN  IF yes + no = 0 THEN [num |-> 0, den |-> 1]
      ELSE [num |-> yes - no, den |-> yes + no]

\* The best level of a side, whatever it holds (_quotes_from_orderbook), and
\* the best one that holds a whole contract (_extract_best_bid_depth).
NoBid == [price |-> None, size |-> 0]
BestOf(levels) ==
  IF levels = {} THEN NoBid
  ELSE CHOOSE best \in levels : \A other \in levels : other.price <= best.price

_best_bid(bids) == BestOf(Levels(bids))

_extract_best_bid_depth(bids) == BestOf({bid \in Levels(bids) : bid.size > 0})

\* The ask of a side is what the other side's best bid leaves; on a one-sided
\* book it is taken to be a cent above the bid.
AskOf(bid, otherBid) ==
  IF otherBid # None THEN Payout - otherBid
  ELSE IF bid # None THEN Smaller(bid + 1, Payout - 1)
  ELSE None

_quotes_from_orderbook(book) ==
  [side \in BookSides |->
     LET bid == _best_bid(book[side])
         other == _best_bid(book[Opposite(side)])
     IN  [bid |-> bid.price, ask |-> AskOf(bid.price, other.price), size |-> bid.size]]

\* _prepare_market: the book must have a YES bid of a contract or more, and not
\* be crossed.
Usable(quotes) ==
  /\ quotes.yes.bid # None
  /\ quotes.yes.size > 0
  /\ quotes.yes.bid <= quotes.yes.ask

\* The market dict after the merge: a quote the book does not have falls back on
\* what the legacy field holds from before.
Quoted(quotes, legacy) ==
  [side \in BookSides |->
     [bid |-> IF quotes[side].bid # None THEN quotes[side].bid ELSE legacy[side].bid,
      ask |-> IF quotes[side].ask # None THEN quotes[side].ask ELSE legacy[side].ask]]

\* Two cents above the bid but not above the ask, within the entry band.
suggest_limit_price(market, side) ==
  LET ask == IF market[side].ask # None THEN market[side].ask ELSE Payout \div 2
      bid == IF market[side].bid # None THEN market[side].bid ELSE Larger(1, ask - 4)
  IN  Larger(MIN_CONTRACT_PRICE_CENTS,
             Smaller(MAX_CONTRACT_PRICE_CENTS, Smaller(ask, bid + 2)))
=============================================================================
