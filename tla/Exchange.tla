------------------------------- MODULE Exchange -------------------------------
(***************************************************************************)
(* The Kalshi account, as far as the bot can tell it from the calls of     *)
(* kalshi_client.py: every market's life, what the account holds in it and *)
(* the exposure the positions endpoint reports.  Nothing here is the       *)
(* repository's code; it is what that code is written against.             *)
(***************************************************************************)
EXTENDS Integers, FiniteSetsExt

CONSTANTS
  Markets,
  Payout          \* what a winning contract pays, in cents

VARIABLES
  status,         \* of each market: "future", "open", "closed", or its result
  held,           \* contracts: positive for YES, negative for NO
  cost            \* what the holding cost

account == <<held, cost>>
vars == <<status, account>>

Prices == 1 .. Payout - 1
Statuses == {"future", "open", "closed", "yes", "no"}
OpenMarkets == {m \in Markets : status[m] = "open"}
Settled(m) == status[m] \in {"yes", "no"}

Abs(n) == IF n < 0 THEN -n ELSE n
Least(a, b) == IF a < b THEN a ELSE b
Signed(side, n) == IF side = "yes" THEN n ELSE -n

\* get_positions: the unsettled positions, their exposure and their side.
HeldMarkets == {m \in Markets : held[m] # 0}
Deployed == MapThenSumSet(LAMBDA m : cost[m], Markets)
HeldOnSide(m, side) == IF Signed(side, held[m]) > 0 THEN Abs(held[m]) ELSE 0

\* The account's position in m changes by n contracts.  A purchase of the
\* other side first nets against what is held; the exposure shrinks with it.
Trade(m, n, price) ==
  LET old == held[m]
      left == old + n
  IN  /\ held' = [held EXCEPT ![m] = left]
      /\ cost' = [cost EXCEPT ![m] =
           IF old * n >= 0 THEN @ + Abs(n) * price
           ELSE IF Abs(n) <= Abs(old) THEN (@ * Abs(left)) \div Abs(old)
           ELSE Abs(left) * price]
      /\ UNCHANGED status

\* The possible outcomes of an immediate-or-cancel order: how much fills, and
\* at which price.  What does not fill has no price.
BuyFills(quantity, limit) ==
  {f \in [fill : 0 .. quantity, price : 1 .. limit] : f.fill = 0 => f.price = limit}

\* A sale is reduce-only.
SellFills(m, side, quantity, limit) ==
  {f \in [fill : 0 .. Least(quantity, HeldOnSide(m, side)), price : limit .. Payout - 1] :
     f.fill = 0 => f.price = limit}

Init ==
  /\ status = [m \in Markets |-> "future"]
  /\ held = [m \in Markets |-> 0]
  /\ cost = [m \in Markets |-> 0]

OpenMarket(m) ==
  /\ status[m] = "future"
  /\ status' = [status EXCEPT ![m] = "open"]
  /\ UNCHANGED account

CloseMarket(m) ==
  /\ status[m] = "open"
  /\ status' = [status EXCEPT ![m] = "closed"]
  /\ UNCHANGED account

\* Settlement pays the winning side and removes the position from the account.
SettleMarket(m, result) ==
  /\ status[m] = "closed"
  /\ status' = [status EXCEPT ![m] = result]
  /\ held' = [held EXCEPT ![m] = 0]
  /\ cost' = [cost EXCEPT ![m] = 0]
=============================================================================
