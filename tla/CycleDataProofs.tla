---------------------------- MODULE CycleDataProofs ----------------------------
(***************************************************************************)
(* Proofs about CycleData, for all lengths of windows, lives, calls and    *)
(* lags.                                                                   *)
(*                                                                         *)
(* Each bound on the age of data rests on a sum that time leaves alone: a  *)
(* quote grows older as its dict lives less long, and the dict lives less  *)
(* long as its window closes.                                              *)
(***************************************************************************)
EXTENDS CycleData, TLAPS

-----------------------------------------------------------------------------
(* Times and ages *)

\* The smaller of two numbers.
LEMMA MinOfTwo ==
  ASSUME NEW a \in Int, NEW b \in Int
  PROVE  Min({a, b}) \in {a, b} /\ Min({a, b}) <= a /\ Min({a, b}) <= b
<1>1. \E x \in {a, b} : \A y \in {a, b} : x <= y
  OBVIOUS
<1> QED
  BY <1>1 DEF Min

\* The limits are numbers of their sizes.
LEMMA Limits ==
  /\ Window \in Nat /\ Window > 0 /\ DiscoveryTtl \in Nat /\ DiscoveryTtl > 0
  /\ CloseMargin \in Nat /\ CloseMargin > 0 /\ Interval \in Nat /\ Interval > 0
  /\ MaxCall \in Nat /\ MaxCall > 0 /\ MaxGather \in Nat /\ MaxGather > 0
  /\ MaxAct \in Nat /\ MaxAct > 0 /\ MaxBookAge \in Nat
BY CycleDataAssumption

LEMMA OldestBounds ==
  /\ Oldest \in Nat
  /\ Oldest > DiscoveryTtl /\ Oldest > MaxCall /\ Oldest > MaxGather + MaxBookAge
BY Limits DEF Oldest

\* Growing older.
LEMMA OlderAge ==
  ASSUME NEW age \in Ages
  PROVE  /\ Older(age) \in Ages
         /\ age = None => Older(age) = None
         /\ age # None => age \in 0 .. Oldest /\ Older(age) \in 0 .. Oldest
         /\ age # None /\ age < Oldest => Older(age) = age + 1
         /\ age = Oldest => Older(age) = Oldest
BY OldestBounds DEF Older, Ages, None

-----------------------------------------------------------------------------
(* Types *)

LEMMA Waits ==
  /\ DOMAIN Limit = {"sleep", "listing", "book", "act"}
  /\ Limit["sleep"] = MaxGather + MaxAct + Interval /\ Limit["listing"] = MaxCall
  /\ Limit["book"] = MaxGather /\ Limit["act"] = MaxAct
BY DEF Limit

\* The wait of every state is a number within its limit.
LEMMA SpentBounds ==
  ASSUME TypeOK
  PROVE  /\ spent \in Nat
         /\ pc = "listing" => spent <= MaxCall
         /\ pc = "book" => spent <= MaxGather
BY Waits, Limits DEF TypeOK

\* An answer tells of a moment at most one call ago, and that is an age.
LEMMA AnswersAreAges ==
  ASSUME TypeOK, pc = "listing", NEW n \in AnswerAges
  PROVE  n \in Ages /\ n \in Nat /\ n <= spent /\ n # None
BY OldestBounds, SpentBounds, Limits DEF AnswerAges, Ages, None

\* A book may lag behind, by MaxBookAge at most.
LEMMA BooksHaveAges ==
  ASSUME TypeOK, pc = "book", NEW n \in BookAges
  PROVE  n \in Ages /\ n \in Nat /\ n <= spent + MaxBookAge /\ n # None
BY OldestBounds, SpentBounds, Limits DEF BookAges, Ages, None

\* A life in the cache is between nothing and DiscoveryTtl.
LEMMA LifetimeBounds ==
  ASSUME TypeOK, pc = "listing"
  PROVE  /\ Lifetime \in 0 .. DiscoveryTtl
         /\ Lifetime > 0 => Lifetime <= DiscoveryTtl - spent /\ Lifetime <= left - CloseMargin
<1>1. spent \in Nat /\ left \in Nat
  BY SpentBounds, Limits DEF TypeOK
<1>2. DiscoveryTtl - spent \in Int /\ left - CloseMargin \in Int
  BY <1>1, Limits
<1> DEFINE m == Min({DiscoveryTtl - spent, left - CloseMargin})
<1>3. m \in Int /\ m <= DiscoveryTtl - spent /\ m <= left - CloseMargin
  BY <1>2, MinOfTwo
<1>4. Lifetime = IF m > 0 THEN m ELSE 0
  BY DEF Lifetime, Positive
<1> HIDE DEF m
<1> QED
  BY <1>1, <1>3, <1>4, Limits

\* The initial state is well typed.
LEMMA InitTypes == Init => TypeOK
BY OldestBounds, Limits, Waits DEF Init, TypeOK, NoMarket, Ages, None

\* Time keeps the types.
LEMMA TickTypes ==
  ASSUME TypeOK, Tick
  PROVE  TypeOK'
<1>1. pc' = pc /\ pc \in DOMAIN Limit /\ spent' \in 0 .. Limit[pc]
  BY Waits, Limits DEF Tick, TypeOK
<1>2. left' \in 1 .. Window
  BY Limits DEF Tick, TypeOK
<1>3. market' \in [known : BOOLEAN, open : BOOLEAN, ttl : 0 .. DiscoveryTtl,
                   best : Ages, legacy : Ages]
  <2>1. Left(market.ttl) \in 0 .. DiscoveryTtl
    BY Limits DEF TypeOK, Left
  <2>2. Older(market.best) \in Ages /\ Older(market.legacy) \in Ages
    BY OlderAge DEF TypeOK
  <2> QED
    BY <2>1, <2>2 DEF Tick, TypeOK
<1>4. sinceDiscovery' \in Ages
  BY OlderAge DEF Tick, TypeOK
<1> QED
  BY <1>1, <1>2, <1>3, <1>4 DEF TypeOK

\* Every step of the loop keeps them, and starts a wait.
LEMMA LoopTypes ==
  ASSUME TypeOK, Wake \/ Listed \/ NothingListed \/ BookFetched \/ BookFails \/ CycleEnds
  PROVE  TypeOK'
<1>1. ASSUME NEW next \in {"sleep", "listing", "book", "act"}, Goto(next)
      PROVE  pc' \in DOMAIN Limit /\ spent' \in 0 .. Limit[pc']
  BY <1>1, Waits, Limits DEF Goto
<1>2. CASE Wake
  <2>1. Goto("book") \/ Goto("listing")
    BY <1>2 DEF Wake
  <2> QED
    BY <1>1, <1>2, <2>1, OldestBounds DEF Wake, TypeOK, Ages
<1>3. CASE Listed
  <2>1. PICK quote \in {None} \cup AnswerAges, open \in {TRUE, left <= Window - spent} :
          market' = [known |-> TRUE, open |-> open, ttl |-> IF open THEN Lifetime ELSE 0,
                     best |-> quote, legacy |-> quote]
    BY <1>3 DEF Listed
  <2>2. pc = "listing" /\ Goto("book")
    BY <1>3 DEF Listed
  <2>3. quote \in Ages /\ open \in BOOLEAN
    <3>1. quote \in Ages
      BY <2>2, AnswersAreAges DEF Ages
    <3>2. (left <= Window - spent) \in BOOLEAN
      OBVIOUS
    <3> QED
      BY <3>1, <3>2, Zenon
  <2>4. (IF open THEN Lifetime ELSE 0) \in 0 .. DiscoveryTtl
    BY <2>2, LifetimeBounds, Limits
  <2> QED
    BY <1>1, <1>3, <2>1, <2>2, <2>3, <2>4 DEF Listed, TypeOK
<1>4. CASE NothingListed
  <2>1. NoMarket \in [known : BOOLEAN, open : BOOLEAN, ttl : 0 .. DiscoveryTtl,
                      best : Ages, legacy : Ages]
    BY Limits DEF NoMarket, Ages
  <2>2. market' \in [known : BOOLEAN, open : BOOLEAN, ttl : 0 .. DiscoveryTtl,
                     best : Ages, legacy : Ages]
    BY <1>4, <2>1 DEF NothingListed, TypeOK
  <2> QED
    BY <1>1, <1>4, <2>2 DEF NothingListed, TypeOK
<1>5. CASE BookFetched
  <2>1. PICK bid \in {None} \cup BookAges : market' = QuotesMerged(bid)
    BY <1>5 DEF BookFetched
  <2>2. bid \in Ages
    BY <1>5, BooksHaveAges DEF BookFetched, Ages
  <2>3. market' \in [known : BOOLEAN, open : BOOLEAN, ttl : 0 .. DiscoveryTtl,
                     best : Ages, legacy : Ages]
    BY <2>1, <2>2 DEF QuotesMerged, TypeOK
  <2> QED
    BY <1>1, <1>5, <2>3 DEF BookFetched, TypeOK
<1>6. CASE BookFails \/ CycleEnds
  BY <1>1, <1>6 DEF BookFails, CycleEnds, TypeOK
<1> QED
  BY <1>2, <1>3, <1>4, <1>5, <1>6

LEMMA NextTypes == TypeOK /\ [Next]_vars => TypeOK'
<1>1. TypeOK /\ UNCHANGED vars => TypeOK'
  BY DEF TypeOK, vars
<1> QED
  BY <1>1, TickTypes, LoopTypes DEF Next

\* The types of CycleData, for every length of its times.
THEOREM TypesAreKept == Spec => []TypeOK
BY InitTypes, NextTypes, PTL DEF Spec

-----------------------------------------------------------------------------
(* The cached market and its quotes *)

\* A dict lives no longer than its window, and its quotes no longer than it:
\* those it came with, and those a book brings while it lives.
LifeInv ==
  market.ttl > 0 =>
    /\ market.open
    /\ market.ttl <= left - CloseMargin
    /\ market.best # None => market.best + market.ttl <= DiscoveryTtl + MaxBookAge
    /\ market.legacy # None => market.legacy + market.ttl <= DiscoveryTtl + MaxBookAge
    /\ pc = "book" => spent + market.ttl <= DiscoveryTtl

LEMMA MarketTypes ==
  ASSUME TypeOK
  PROVE  /\ market.ttl \in 0 .. DiscoveryTtl /\ market.open \in BOOLEAN
         /\ market.best \in Ages /\ market.legacy \in Ages
         /\ left \in 1 .. Window /\ spent \in Nat /\ sinceDiscovery \in Ages
         /\ market = [known |-> market.known, open |-> market.open, ttl |-> market.ttl,
                      best |-> market.best, legacy |-> market.legacy]
BY SpentBounds DEF TypeOK

\* What time does to the dict.
LEMMA TickMarket ==
  ASSUME TypeOK, Tick
  PROVE  /\ market'.ttl = Left(market.ttl)
         /\ market'.open = (market.open /\ left > 1)
         /\ market'.best = Older(market.best) /\ market'.legacy = Older(market.legacy)
         /\ pc' = pc /\ spent' = spent + 1 /\ sinceDiscovery' = Older(sinceDiscovery)
         /\ left' = IF left = 1 THEN Window ELSE left - 1
BY MarketTypes DEF Tick

\* An age grows by one at most.
LEMMA OlderByOne ==
  ASSUME NEW age \in Ages, Older(age) # None
  PROVE  age # None /\ age \in Nat /\ Older(age) \in Nat /\ Older(age) <= age + 1
BY OldestBounds DEF Older, Ages, None

\* What a book does to the dict.
LEMMA MergedMarket ==
  ASSUME TypeOK, NEW bid \in Ages, market' = QuotesMerged(bid)
  PROVE  /\ market'.ttl = market.ttl /\ market'.open = market.open
         /\ market'.best = bid
         /\ market'.legacy = IF bid # None THEN bid ELSE market.legacy
BY MarketTypes DEF QuotesMerged

LEMMA NextLife ==
  ASSUME TypeOK, LifeInv, [Next]_vars
  PROVE  LifeInv'
<1> USE DEF LifeInv
<1>t. /\ market.ttl \in 0 .. DiscoveryTtl /\ market.best \in Ages /\ market.legacy \in Ages
      /\ left \in 1 .. Window /\ spent \in Nat
  BY MarketTypes
<1>1. CASE Tick
  <2> SUFFICES ASSUME market'.ttl > 0 PROVE LifeInv'
    OBVIOUS
  <2>1. market.ttl > 0 /\ market'.ttl = market.ttl - 1
    BY <1>1, <1>t, TickMarket DEF Left
  <2>2. left > 1 /\ left' = left - 1
    BY <1>1, <1>t, <2>1, TickMarket, Limits
  <2>3. market'.open
    BY <1>1, <2>1, <2>2, TickMarket
  <2>4. market'.ttl <= left' - CloseMargin
    BY <1>t, <2>1, <2>2, Limits
  <2>5. market'.best # None => market'.best + market'.ttl <= DiscoveryTtl + MaxBookAge
    BY <1>1, <1>t, <2>1, TickMarket, OlderByOne, Limits
  <2>6. market'.legacy # None => market'.legacy + market'.ttl <= DiscoveryTtl + MaxBookAge
    BY <1>1, <1>t, <2>1, TickMarket, OlderByOne, Limits
  <2>7. pc' = "book" => spent' + market'.ttl <= DiscoveryTtl
    BY <1>1, <1>t, <2>1, TickMarket, Limits
  <2> QED
    BY <2>3, <2>4, <2>5, <2>6, <2>7
<1>2. CASE Wake
  BY <1>2, <1>t DEF Wake, Goto
<1>3. CASE Listed
  <2>1. PICK quote \in {None} \cup AnswerAges, open \in {TRUE, left <= Window - spent} :
          market' = [known |-> TRUE, open |-> open, ttl |-> IF open THEN Lifetime ELSE 0,
                     best |-> quote, legacy |-> quote]
    BY <1>3 DEF Listed
  <2>2. pc = "listing" /\ pc' = "book" /\ spent' = 0 /\ left' = left
    BY <1>3 DEF Listed, Goto
  <2>3. /\ market'.open = open /\ market'.best = quote /\ market'.legacy = quote
        /\ market'.ttl = IF open THEN Lifetime ELSE 0
    BY <2>1
  <2> SUFFICES ASSUME market'.ttl > 0 PROVE LifeInv'
    OBVIOUS
  <2>4. open /\ market'.ttl = Lifetime
    BY <2>3
  <2>5. /\ Lifetime \in 0 .. DiscoveryTtl /\ Lifetime <= DiscoveryTtl - spent
        /\ Lifetime <= left - CloseMargin
    BY <2>2, <2>4, LifetimeBounds
  <2>6. quote # None => quote \in Nat /\ quote <= spent
    BY <2>2, AnswersAreAges
  <2>7. quote # None => quote + Lifetime <= DiscoveryTtl + MaxBookAge
    BY <1>t, <2>5, <2>6, Limits
  <2>8. spent' + market'.ttl <= DiscoveryTtl
    BY <2>2, <2>4, <2>5, Limits
  <2>9. market'.open
    BY <2>3, <2>4
  <2> QED
    BY <2>2, <2>3, <2>4, <2>5, <2>7, <2>8, <2>9
<1>4. CASE NothingListed
  <2>1. pc' = "sleep" /\ left' = left
    BY <1>4 DEF NothingListed, Goto
  <2>2. CASE market' = market
    BY <2>1, <2>2
  <2>3. CASE market' = NoMarket
    BY <2>1, <2>3 DEF NoMarket
  <2> QED
    BY <1>4, <2>2, <2>3 DEF NothingListed
<1>5. CASE BookFetched
  <2>1. PICK bid \in {None} \cup BookAges : market' = QuotesMerged(bid)
    BY <1>5 DEF BookFetched
  <2>2. pc = "book" /\ pc' = "act" /\ left' = left
    BY <1>5 DEF BookFetched, Goto
  <2>3. bid \in Ages /\ (bid # None => bid \in Nat /\ bid <= spent + MaxBookAge)
    BY <2>2, BooksHaveAges DEF Ages
  <2>4. /\ market'.ttl = market.ttl /\ market'.open = market.open /\ market'.best = bid
        /\ market'.legacy = IF bid # None THEN bid ELSE market.legacy
    BY <2>1, <2>3, MergedMarket
  <2>5. market.ttl > 0 /\ bid # None => bid + market.ttl <= DiscoveryTtl + MaxBookAge
    BY <1>t, <2>2, <2>3, Limits
  <2> QED
    BY <2>2, <2>4, <2>5
<1>6. CASE BookFails \/ CycleEnds
  <2>1. market' = market /\ left' = left /\ pc' = "sleep"
    BY <1>6 DEF BookFails, CycleEnds, Goto
  <2> QED
    BY <2>1
<1>7. CASE UNCHANGED vars
  BY <1>7 DEF vars
<1> QED
  BY <1>1, <1>2, <1>3, <1>4, <1>5, <1>6, <1>7 DEF Next

LEMMA InitLife == Init => LifeInv
BY DEF Init, LifeInv, NoMarket

\* kalshi_client.py:328-341.  As long as a market is served from the cache its
\* window is open, with the margin to spare, wherever in the call it closed.
THEOREM CachedMarketAlwaysOpen == Spec => []CachedMarketOpen
<1>1. TypeOK /\ LifeInv => CachedMarketOpen
  <2> SUFFICES ASSUME TypeOK, LifeInv, market.ttl > 0
               PROVE  market.open /\ left > CloseMargin
    BY DEF CachedMarketOpen
  <2> QED
    BY MarketTypes, Limits DEF LifeInv
<1> QED
  BY <1>1, InitLife, NextLife, InitTypes, NextTypes, PTL DEF Spec

\* A quote is younger than the cycle's question for its market, one life and one
\* lag of the stream.
Younger(age) == age # None => age < sinceDiscovery + DiscoveryTtl + MaxBookAge

\* From its answer on, a cycle's quotes are that young; and no call of a cycle
\* began before its question.
YoungInv ==
  /\ pc \in {"listing", "book"} => sinceDiscovery # None /\ spent <= sinceDiscovery
  /\ pc \in {"book", "act"} =>
       sinceDiscovery # None /\ Younger(market.best) /\ Younger(market.legacy)

LEMMA NextYoung ==
  ASSUME TypeOK, LifeInv, YoungInv, [Next]_vars
  PROVE  YoungInv'
<1> USE DEF YoungInv, Younger
<1>t. /\ market.ttl \in 0 .. DiscoveryTtl /\ market.best \in Ages /\ market.legacy \in Ages
      /\ spent \in Nat /\ sinceDiscovery \in Ages
  BY MarketTypes
<1>n. \A age \in Ages : age # None => age \in Nat /\ age <= Oldest
  BY OldestBounds DEF Ages
<1>1. CASE Tick
  <2>1. /\ market'.best = Older(market.best) /\ market'.legacy = Older(market.legacy)
        /\ pc' = pc /\ spent' = spent + 1 /\ sinceDiscovery' = Older(sinceDiscovery)
    BY <1>1, TickMarket
  <2>2. pc \in {"listing", "book"} => spent' <= Oldest
    BY <1>1, <1>t, Waits, OldestBounds, Limits DEF Tick
  <2>3. ASSUME sinceDiscovery # None
        PROVE  /\ sinceDiscovery' # None /\ sinceDiscovery' \in Nat
               /\ sinceDiscovery' = IF sinceDiscovery = Oldest THEN Oldest
                                    ELSE sinceDiscovery + 1
    BY <1>t, <1>n, <2>1, <2>3, OldestBounds DEF Older, None
  <2>4. pc' \in {"listing", "book"} => sinceDiscovery' # None /\ spent' <= sinceDiscovery'
    BY <1>t, <1>n, <2>1, <2>2, <2>3, OldestBounds
  <2>5. ASSUME NEW age \in Ages, sinceDiscovery # None, Younger(age), Older(age) # None
        PROVE  Older(age) < sinceDiscovery' + DiscoveryTtl + MaxBookAge
    <3>1. /\ age # None /\ age \in Nat /\ Older(age) \in Nat /\ Older(age) <= age + 1
          /\ Older(age) <= Oldest
      BY <1>n, <2>5, OlderByOne, OlderAge
    <3> QED
      BY <1>t, <1>n, <2>3, <2>5, <3>1, Limits, OldestBounds
  <2> QED
    BY <1>t, <2>1, <2>3, <2>4, <2>5
<1>2. CASE Wake
  <2>1. sinceDiscovery' = 0 /\ spent' = 0 /\ market' = market /\ 0 # None
    BY <1>2 DEF Wake, Goto, None
  <2>2. CASE market.known /\ market.ttl > 0
    <3>1. pc' = "book"
      BY <1>2, <2>2 DEF Wake, Goto
    <3>2. /\ market.best # None => market.best < DiscoveryTtl + MaxBookAge
          /\ market.legacy # None => market.legacy < DiscoveryTtl + MaxBookAge
      BY <1>t, <1>n, <2>2, Limits DEF LifeInv
    <3> QED
      BY <2>1, <3>1, <3>2, Limits
  <2>3. CASE ~ (market.known /\ market.ttl > 0)
    <3>1. pc' = "listing"
      BY <1>2, <2>3 DEF Wake, Goto
    <3> QED
      BY <2>1, <3>1
  <2> QED
    BY <2>2, <2>3
<1>3. CASE Listed
  <2>1. PICK quote \in {None} \cup AnswerAges, open \in {TRUE, left <= Window - spent} :
          market' = [known |-> TRUE, open |-> open, ttl |-> IF open THEN Lifetime ELSE 0,
                     best |-> quote, legacy |-> quote]
    BY <1>3 DEF Listed
  <2>2. pc = "listing" /\ pc' = "book" /\ spent' = 0 /\ sinceDiscovery' = sinceDiscovery
    BY <1>3 DEF Listed, Goto
  <2>3. market'.best = quote /\ market'.legacy = quote
    BY <2>1
  <2>4. quote # None => quote \in Nat /\ quote <= spent
    BY <2>2, AnswersAreAges
  <2>5. sinceDiscovery # None /\ sinceDiscovery \in Nat /\ spent <= sinceDiscovery
    BY <1>t, <1>n, <2>2
  <2> QED
    BY <1>t, <2>2, <2>3, <2>4, <2>5, Limits
<1>4. CASE NothingListed \/ BookFails \/ CycleEnds
  <2>1. pc' = "sleep"
    BY <1>4 DEF NothingListed, BookFails, CycleEnds, Goto
  <2> QED
    BY <2>1
<1>5. CASE BookFetched
  <2>1. PICK bid \in {None} \cup BookAges : market' = QuotesMerged(bid)
    BY <1>5 DEF BookFetched
  <2>2. pc = "book" /\ pc' = "act" /\ sinceDiscovery' = sinceDiscovery
    BY <1>5 DEF BookFetched, Goto
  <2>3. bid \in Ages /\ (bid # None => bid \in Nat /\ bid <= spent + MaxBookAge)
    BY <2>2, BooksHaveAges DEF Ages
  <2>4. market'.best = bid /\ market'.legacy = IF bid # None THEN bid ELSE market.legacy
    BY <2>1, <2>3, MergedMarket
  <2>5. sinceDiscovery # None /\ sinceDiscovery \in Nat /\ spent <= sinceDiscovery
    BY <1>t, <1>n, <2>2
  <2> QED
    BY <1>t, <2>2, <2>3, <2>4, <2>5, Limits
<1>6. CASE UNCHANGED vars
  BY <1>6 DEF vars
<1> QED
  BY <1>1, <1>2, <1>3, <1>4, <1>5, <1>6 DEF Next

\* bot.py:701-747 and 398-405.  No exit is decided on a quote that was true more
\* than one life of a cached dict, and one lag of the stream, before the cycle
\* asked for its market.
THEOREM ExitQuoteAlwaysFresh == Spec => []ExitQuoteFresh
<1>1. Init => YoungInv
  BY DEF Init, YoungInv
<1>2. YoungInv => ExitQuoteFresh
  BY DEF YoungInv, Younger, ExitQuoteFresh, ExitQuote
<1> QED
  BY <1>1, <1>2, NextYoung, InitLife, NextLife, InitTypes, NextTypes, PTL DEF Spec
=============================================================================
