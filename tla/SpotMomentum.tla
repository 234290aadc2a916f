------------------------------ MODULE SpotMomentum ------------------------------
(***************************************************************************)
(* The momentum a cycle's signals rest on: the settlement index of the     *)
(* series, else the cached spot price of its symbol, else that of BTC.     *)
(* The loop asks series by series; daemon threads refresh the cache.       *)
(*                                                                         *)
(* Time passes while the loop rests, trades or waits for an answer.  The   *)
(* cache keeps the age of an entry and of the prices in it; ages of the    *)
(* cache stop at Oldest, which is beyond every limit of the code.          *)
(***************************************************************************)
EXTENDS Integers, Sequences

CONSTANTS
  Symbols, Btc,    \* the symbols of the spot feed; config.BTC_TICKER
  SymbolOf,        \* spot_symbol_for_series, by the place of a series in the cycle
  SoftTtl,         \* half of _SPOT_MOMENTUM_TTL_SECONDS
  MaxStale,        \* _SPOT_MOMENTUM_MAX_STALE_SECONDS
  Interval,        \* LOOP_INTERVAL_SECONDS
  MaxWork,         \* the longest discovery, books and safety exits of a cycle
  MaxCall,         \* the longest call for a settlement index
  MaxFetch,        \* the longest fetch of spot prices
  MaxAct           \* the longest reversal pass and entry

ASSUME SpotMomentumAssumption ==
  /\ Btc \in Symbols
  /\ SymbolOf \in Seq(Symbols) \ {<<>>}
  /\ {SoftTtl, MaxStale, Interval, MaxCall, MaxFetch, MaxAct} \subseteq Nat \ {0}
  /\ MaxWork \in Nat
  /\ SoftTtl <= MaxStale

VARIABLES
  pc, spent,       \* what the loop waits for, and since when
  asked,           \* the place of the series whose signal is under way
  fallback,        \* generate_signal asks for BTC in its stead
  sinceSignals,    \* since the cycle asked for the first momentum
  momentum,        \* by series: what its own feeds said, and what its signal uses
  cache,           \* _spot_momentum_cache
  threads, fetching,  \* refreshes in flight, and since when
  unstarted        \* the symbols of which a thread failed to start

loop == <<pc, spent, asked, fallback, sinceSignals, momentum>>
spots == <<cache, threads, fetching, unstarted>>
vars == <<loop, spots>>

None == -1
Oldest == MaxStale + MaxFetch
Ages == {None} \cup 0 .. Oldest
Older(age) == IF age = None \/ age = Oldest THEN age ELSE age + 1
Elapsed(age) == IF age = None THEN age ELSE age + 1

Places == DOMAIN SymbolOf
Symbol == IF fallback THEN Btc ELSE SymbolOf[asked]
Entry == cache[Symbol]
NoEntry == [age |-> None, dataAge |-> None, refreshing |-> FALSE]
NoMomentum == [own |-> "unasked", used |-> "none", age |-> None]
Limit == [rest |-> Interval + MaxWork, index |-> MaxCall, spot |-> 0, cold |-> MaxFetch,
          act |-> MaxAct]

TypeOK ==
  /\ pc \in DOMAIN Limit
  /\ spent \in 0 .. Limit[pc]
  /\ asked \in Places
  /\ fallback \in BOOLEAN
  /\ sinceSignals \in Nat
  /\ momentum \in [Places -> [own : {"unasked", "index", "spot", "expired", "failed"},
                              used : {"none", "index", "spot", "btc"},
                              age : Nat \cup {None}]]
  /\ cache \in [Symbols -> [age : Ages, dataAge : Ages, refreshing : BOOLEAN]]
  /\ \A s \in Symbols : cache[s].age = None <=> cache[s].dataAge = None
  /\ threads \in [Symbols -> Nat]
  /\ fetching \in [Symbols -> 0 .. MaxFetch]
  /\ unstarted \subseteq Symbols

Goto(next) == pc' = next /\ spent' = 0

-----------------------------------------------------------------------------
Init ==
  /\ pc = "rest"
  /\ spent = Interval
  /\ asked = 1
  /\ fallback = FALSE
  /\ sinceSignals = 0
  /\ momentum = [p \in Places |-> NoMomentum]
  /\ cache = [s \in Symbols |-> NoEntry]
  /\ threads = [s \in Symbols |-> 0]
  /\ fetching = [s \in Symbols |-> 0]
  /\ unstarted = {}

Tick ==
  /\ spent < Limit[pc]
  /\ \A s \in Symbols : threads[s] > 0 => fetching[s] < MaxFetch
  /\ spent' = spent + 1
  /\ sinceSignals' = IF pc = "rest" THEN 0 ELSE sinceSignals + 1
  /\ momentum' = [p \in Places |-> [momentum[p] EXCEPT !.age = Elapsed(@)]]
  /\ cache' = [s \in Symbols |->
                 [cache[s] EXCEPT !.age = Older(@), !.dataAge = Older(@)]]
  /\ fetching' = [s \in Symbols |-> IF threads[s] > 0 THEN fetching[s] + 1 ELSE 0]
  /\ UNCHANGED <<pc, asked, fallback, threads, unstarted>>

-----------------------------------------------------------------------------
\* The cycle has its books, and the safety exits are over.
Begin ==
  /\ pc = "rest"
  /\ spent >= Interval
  /\ Goto("index")
  /\ UNCHANGED <<asked, fallback, sinceSignals, momentum, spots>>

\* generate_signal has what it needs, or does without a signal.
NextSeries ==
  /\ fallback' = FALSE
  /\ IF asked < Len(SymbolOf)
     THEN Goto("index") /\ asked' = asked + 1
     ELSE Goto("act") /\ UNCHANGED asked

\* The series has no market or no usable book in this cycle.
NotTradable ==
  /\ pc = "index"
  /\ spent = 0
  /\ NextSeries
  /\ UNCHANGED <<sinceSignals, momentum, spots>>

\* get_index_momentum.
IndexAnswers ==
  /\ pc = "index"
  /\ momentum' = [momentum EXCEPT ![asked] = [own |-> "index", used |-> "index", age |-> None]]
  /\ NextSeries
  /\ UNCHANGED <<sinceSignals, spots>>

IndexFails ==
  /\ pc = "index"
  /\ Goto("spot")
  /\ UNCHANGED <<asked, fallback, sinceSignals, momentum, spots>>

-----------------------------------------------------------------------------
\* get_spot_momentum answers, the series or generate_signal ...
Serve(dataAge) ==
  /\ momentum' = [momentum EXCEPT ![asked] =
                    IF fallback THEN [@ EXCEPT !.used = "btc", !.age = dataAge]
                    ELSE [own |-> "spot", used |-> "spot", age |-> dataAge]]
  /\ NextSeries
  /\ UNCHANGED sinceSignals

\* ... or returns None: then generate_signal asks get_btc_momentum.
Refuse(why) ==
  /\ IF fallback THEN NextSeries /\ UNCHANGED momentum
     ELSE /\ momentum' = [momentum EXCEPT ![asked].own = why]
          /\ fallback' = TRUE
          /\ Goto("spot")
          /\ UNCHANGED asked
  /\ UNCHANGED sinceSignals

\* Mutant: the thread says that it refreshes only when it has the data.
StartRefreshUnmarked(s) ==
  /\ threads' = [threads EXCEPT ![s] = @ + 1]
  /\ fetching' = [fetching EXCEPT ![s] = 0]
  /\ UNCHANGED <<cache, unstarted>>

\* _maybe_start_spot_refresh.
StartRefresh(s) ==
  IF cache[s].refreshing THEN UNCHANGED spots
  ELSE /\ cache' = [cache EXCEPT ![s].refreshing = TRUE]
       /\ threads' = [threads EXCEPT ![s] = @ + 1]
       /\ fetching' = [fetching EXCEPT ![s] = 0]
       /\ UNCHANGED unstarted

FreshSpot ==
  /\ pc = "spot"
  /\ Entry.age # None
  /\ Entry.age < SoftTtl
  /\ Serve(Entry.dataAge)
  /\ UNCHANGED spots

\* Mutant: what is too old still serves while it is being refreshed.
UsableForEver(age) == age >= SoftTtl

Usable(age) == age >= SoftTtl /\ age < MaxStale

AgingSpot ==
  /\ pc = "spot"
  /\ Entry.age # None
  /\ Usable(Entry.age)
  /\ StartRefresh(Symbol)
  /\ Serve(Entry.dataAge)

ExpiredSpot ==
  /\ pc = "spot"
  /\ Entry.age # None
  /\ Entry.age >= SoftTtl
  /\ ~ Usable(Entry.age)
  /\ StartRefresh(Symbol)
  /\ Refuse("expired")

\* Thread.start raises after the entry was marked: the cycle is over, and the
\* main loop goes on.
RefreshNotStarted ==
  /\ pc = "spot"
  /\ Entry.age # None
  /\ Entry.age >= SoftTtl
  /\ ~ Entry.refreshing
  /\ cache' = [cache EXCEPT ![Symbol].refreshing = TRUE]
  /\ unstarted' = unstarted \cup {Symbol}
  /\ Goto("rest")
  /\ asked' = 1
  /\ fallback' = FALSE
  /\ sinceSignals' = 0
  /\ momentum' = [p \in Places |-> NoMomentum]
  /\ UNCHANGED <<threads, fetching>>

\* Before a symbol's first success the loop fetches itself, and waits.
ColdStart ==
  /\ pc = "spot"
  /\ Entry.age = None
  /\ Goto("cold")
  /\ UNCHANGED <<asked, fallback, sinceSignals, momentum, spots>>

\* _store_spot_momentum stamps the moment the data is stored, not the moment
\* it is from.
Stored(dataAge) == [age |-> 0, dataAge |-> dataAge, refreshing |-> FALSE]

StoredNothing(entry) == [entry EXCEPT !.refreshing = FALSE]

ColdFetched ==
  /\ pc = "cold"
  /\ \E dataAge \in 0 .. spent :
       /\ cache' = [cache EXCEPT ![Symbol] = Stored(dataAge)]
       /\ Serve(dataAge)
  /\ UNCHANGED <<threads, fetching, unstarted>>

\* Too little history, or an exception.
ColdFails ==
  /\ pc = "cold"
  /\ cache' = [cache EXCEPT ![Symbol] = StoredNothing(@)]
  /\ Refuse("failed")
  /\ UNCHANGED <<threads, fetching, unstarted>>

\* The reversal pass and the entries are over.
CycleEnds ==
  /\ pc = "act"
  /\ Goto("rest")
  /\ asked' = 1
  /\ sinceSignals' = 0
  /\ momentum' = [p \in Places |-> NoMomentum]
  /\ UNCHANGED <<fallback, spots>>

-----------------------------------------------------------------------------
\* _background_refresh_spot.
RefreshStores(s) ==
  /\ threads[s] > 0
  /\ \E dataAge \in 0 .. fetching[s] : cache' = [cache EXCEPT ![s] = Stored(dataAge)]
  /\ threads' = [threads EXCEPT ![s] = @ - 1]
  /\ UNCHANGED <<loop, fetching, unstarted>>

RefreshFindsNothing(s) ==
  /\ threads[s] > 0
  /\ cache' = [cache EXCEPT ![s] = StoredNothing(@)]
  /\ threads' = [threads EXCEPT ![s] = @ - 1]
  /\ UNCHANGED <<loop, fetching, unstarted>>

\* Mutant: a refresh that raises is never marked as over.
AfterRaiseUncleared(entry) == entry

AfterRaise(entry) == [entry EXCEPT !.refreshing = FALSE]

RefreshRaises(s) ==
  /\ threads[s] > 0
  /\ cache' = [cache EXCEPT ![s] = AfterRaise(@)]
  /\ threads' = [threads EXCEPT ![s] = @ - 1]
  /\ UNCHANGED <<loop, fetching, unstarted>>

LoopStep ==
  \/ Begin \/ NotTradable \/ IndexAnswers \/ IndexFails
  \/ FreshSpot \/ AgingSpot \/ ExpiredSpot \/ RefreshNotStarted
  \/ ColdStart \/ ColdFetched \/ ColdFails \/ CycleEnds

RefreshEnds(s) == RefreshStores(s) \/ RefreshFindsNothing(s) \/ RefreshRaises(s)

Next == Tick \/ LoopStep \/ \E s \in Symbols : RefreshEnds(s)

Spec == Init /\ [][Next]_vars

\* Time passes, calls return and threads run, and a fetch of spot prices that is
\* made again and again succeeds some time.
Fairness ==
  /\ WF_vars(Tick)
  /\ WF_vars(LoopStep)
  /\ \A s \in Symbols : /\ WF_vars(RefreshEnds(s))
                        /\ SF_vars(RefreshStores(s))
                        /\ SF_vars(Symbol = s /\ ColdFetched)

FairSpec == Spec /\ Fairness

-----------------------------------------------------------------------------
\* strategy.py:33-41 and 107-139, bot.py:990-1047.  Spot momentum a cycle trades
\* on, of whichever symbol, describes the market as it was less than the hard
\* limit and one fetch before the cycle first asked for momentum, however many
\* refreshes failed and whatever the series before it waited for.
MomentumFresh ==
  pc = "act" =>
    \A p \in Places :
      momentum[p].used \in {"spot", "btc"} =>
        momentum[p].age < MaxStale + MaxFetch + sinceSignals

\* strategy.py:34-36 and 90-102.  One fetch of a symbol at a time, the loop's own
\* included: after the first success the loop never fetches, and a slow refresh
\* is not joined by another, whether a series asks for the symbol or
\* generate_signal does.
OneFetchAtATime ==
  \A s \in Symbols : threads[s] + (IF pc = "cold" /\ Symbol = s THEN 1 ELSE 0) <= 1

\* strategy.py:80-88.  When every cycle comes to ask the fallback feeds, a series
\* gets the momentum of its own symbol again and again, whatever became of the
\* fetches and the threads of another: no feed refuses for ever while its fetches
\* can succeed.  Only a thread that cannot be started ends a feed for good, for it
\* leaves the entry marked (strategy.py:91-102).
AsksEveryCycle == [][~ (NotTradable \/ IndexAnswers)]_vars

SpotRecovers ==
  <>AsksEveryCycle =>
    \A p \in Places :
      [](SymbolOf[p] \notin unstarted) => []<>(pc = "act" /\ momentum[p].used = "spot")
=============================================================================
