------------------------------- MODULE CycleData -------------------------------
(***************************************************************************)
(* How old the market dict and the quotes are that a cycle decides on.     *)
(* One series, and the bid of one side.                                    *)
(*                                                                         *)
(* Time passes while the loop sleeps or waits for answers; what it         *)
(* computes takes none.  Every clock is kept as an age or as what is left, *)
(* so that the program runs for ever; ages stop at Oldest, which is beyond *)
(* every limit of the code.                                                *)
(***************************************************************************)
EXTENDS Integers, FiniteSetsExt

CONSTANTS
  Window,          \* how long a market is open; the next one follows at once
  DiscoveryTtl,    \* get_active_market keeps a market for 30 s ...
  CloseMargin,     \* ... or until 5 s before its close
  Interval,        \* LOOP_INTERVAL_SECONDS
  MaxCall,         \* the longest search for the series' market
  MaxGather,       \* the longest wait for the other markets, the books and the account
  MaxAct,          \* the longest rest of a cycle: exits, momentum, entries
  MaxBookAge       \* how long a book of the stream may have missed a change

ASSUME CycleDataAssumption ==
  /\ {Window, DiscoveryTtl, CloseMargin, Interval, MaxCall, MaxGather, MaxAct}
       \subseteq Nat \ {0}
  /\ MaxBookAge \in Nat
  /\ CloseMargin < Window

VARIABLES
  pc, spent,       \* what the loop waits for, and since when
  left,            \* until the window closes
  market,          \* the cached dict: its time to live and its quotes' ages
  sinceDiscovery   \* since the cycle asked for its market

vars == <<pc, spent, left, market, sinceDiscovery>>

None == -1
Oldest == DiscoveryTtl + MaxBookAge + MaxCall + MaxGather + MaxAct + 1
Ages == {None} \cup 0 .. Oldest
Older(age) == IF age = None \/ age = Oldest THEN age ELSE age + 1
Left(n) == IF n > 0 THEN n - 1 ELSE 0
Positive(n) == IF n > 0 THEN n ELSE 0

NoMarket == [known |-> FALSE, open |-> FALSE, ttl |-> 0, best |-> None, legacy |-> None]

\* A cycle the series sits out goes on for the others before the loop sleeps.
Limit == [sleep |-> MaxGather + MaxAct + Interval, listing |-> MaxCall, book |-> MaxGather,
          act |-> MaxAct]

\* An answer tells what was the case at some moment of the wait for it.
AnswerAges == 0 .. spent

\* _fetch_market_orderbook: a REST answer; or the book the WebSocket client keeps
\* in memory, which shows no change whose message was delayed or lost while
\* others keep the connection fresh.
BookAges == 0 .. spent + MaxBookAge

\* _manage_single_position: the book's bid, else the legacy field; None stands
\* for the entry price, which is no quote.
ExitQuote == IF market.best # None THEN market.best ELSE market.legacy

TypeOK ==
  /\ pc \in DOMAIN Limit
  /\ spent \in 0 .. Limit[pc]
  /\ left \in 1 .. Window
  /\ market \in [known : BOOLEAN, open : BOOLEAN, ttl : 0 .. DiscoveryTtl,
                 best : Ages, legacy : Ages]
  /\ sinceDiscovery \in Ages

Goto(next) == pc' = next /\ spent' = 0

-----------------------------------------------------------------------------
Init ==
  /\ pc = "sleep"
  /\ spent = Interval
  /\ left = Window
  /\ market = NoMarket
  /\ sinceDiscovery = None

Tick ==
  /\ spent < Limit[pc]
  /\ spent' = spent + 1
  /\ left' = IF left = 1 THEN Window ELSE left - 1
  /\ market' = [market EXCEPT !.open = @ /\ left > 1, !.ttl = Left(@),
                              !.best = Older(@), !.legacy = Older(@)]
  /\ sinceDiscovery' = Older(sinceDiscovery)
  /\ UNCHANGED pc

-----------------------------------------------------------------------------
\* get_active_market: the cached dict, as the cycles before left it, while it
\* lives.
Wake ==
  /\ pc = "sleep"
  /\ spent >= Interval
  /\ sinceDiscovery' = 0
  /\ Goto(IF market.known /\ market.ttl > 0 THEN "book" ELSE "listing")
  /\ UNCHANGED <<left, market>>

\* Mutant: the market's close does not end its life in the cache.
LifetimePastClose == Positive(DiscoveryTtl - spent)

\* Counted from before the call.
Lifetime == Positive(Min({DiscoveryTtl - spent, left - CloseMargin}))

\* A fresh dict, with quotes of the listing when the payload has them.  The
\* answer may be about a window that closed while it was under way.
Listed ==
  /\ pc = "listing"
  /\ \E quote \in {None} \cup AnswerAges, open \in {TRUE, left <= Window - spent} :
       market' = [known |-> TRUE, open |-> open, ttl |-> IF open THEN Lifetime ELSE 0,
                  best |-> quote, legacy |-> quote]
  /\ Goto("book")
  /\ UNCHANGED <<left, sinceDiscovery>>

\* No market for the series, or an error: the series sits the cycle out.
NothingListed ==
  /\ pc = "listing"
  /\ market' \in {market, NoMarket}
  /\ Goto("sleep")
  /\ UNCHANGED <<left, sinceDiscovery>>

\* Mutant: a book also keeps the dict alive.
QuotesMergedKeepAlive(bid) ==
  [market EXCEPT !.best = bid, !.legacy = IF bid # None THEN bid ELSE @, !.ttl = DiscoveryTtl]

\* _prepare_market updates the dict in place, and so in the cache.  A book
\* without the bid clears only its new field.
QuotesMerged(bid) ==
  [market EXCEPT !.best = bid, !.legacy = IF bid # None THEN bid ELSE @]

\* The books are merged when all of them and the account have been fetched.
BookFetched ==
  /\ pc = "book"
  /\ \E bid \in {None} \cup BookAges : market' = QuotesMerged(bid)
  /\ Goto("act")
  /\ UNCHANGED <<left, sinceDiscovery>>

\* The book's own fetch fails, or the account's.
BookFails ==
  /\ pc = "book"
  /\ Goto("sleep")
  /\ UNCHANGED <<left, market, sinceDiscovery>>

\* The safety exits, the momentum, the reversal exits and the entry.
CycleEnds ==
  /\ pc = "act"
  /\ Goto("sleep")
  /\ UNCHANGED <<left, market, sinceDiscovery>>

Next ==
  \/ Tick \/ Wake \/ Listed \/ NothingListed \/ BookFetched \/ BookFails \/ CycleEnds

Spec == Init /\ [][Next]_vars

-----------------------------------------------------------------------------
\* bot.py:701-747 and 398-405, kalshi_client.py:298-342.  A quote an exit is
\* decided on was true less than the life of a cached market before the cycle
\* asked for its market, and the lag of the stream before that: even when the
\* book has lost its bids since and the legacy field of earlier cycles serves,
\* for that field dies with the dict.
ExitQuoteFresh ==
  pc = "act" /\ ExitQuote # None =>
    ExitQuote < sinceDiscovery + DiscoveryTtl + MaxBookAge

\* kalshi_client.py:328-341.  While a market is served from the cache its window
\* is open, and stays so for the margin.
CachedMarketOpen ==
  market.known /\ market.ttl > 0 => market.open /\ left > CloseMargin
=============================================================================
