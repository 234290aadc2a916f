--------------------------- MODULE SpotMomentumProofs ---------------------------
(***************************************************************************)
(* Proofs about SpotMomentum, for any symbols, any series in a cycle and   *)
(* all lengths of limits, calls and fetches, with threads that may fail to *)
(* start.                                                                  *)
(*                                                                         *)
(* The prices of an entry are at most one fetch older than the entry, and  *)
(* time leaves that alone; so does the loop, which only reads them.        *)
(***************************************************************************)
EXTENDS SpotMomentum, TLAPS

-----------------------------------------------------------------------------
(* Times, ages and places *)

\* The limits are numbers of their sizes.
LEMMA Limits ==
  /\ SoftTtl \in Nat /\ SoftTtl > 0 /\ MaxStale \in Nat /\ MaxStale > 0 /\ SoftTtl <= MaxStale
  /\ Interval \in Nat /\ Interval > 0 /\ MaxWork \in Nat /\ MaxCall \in Nat /\ MaxCall > 0
  /\ MaxFetch \in Nat /\ MaxFetch > 0 /\ MaxAct \in Nat /\ MaxAct > 0
BY SpotMomentumAssumption

LEMMA OldestBounds == Oldest \in Nat /\ Oldest = MaxStale + MaxFetch
BY Limits DEF Oldest

\* The places of the series, and their symbols.
LEMMA PlacesAndSymbols ==
  /\ Places = 1 .. Len(SymbolOf) /\ Len(SymbolOf) \in Nat /\ 1 \in Places
  /\ Btc \in Symbols
  /\ \A p \in Places : SymbolOf[p] \in Symbols
BY SpotMomentumAssumption DEF Places

LEMMA Waits ==
  /\ DOMAIN Limit = {"rest", "index", "spot", "cold", "act"}
  /\ Limit["rest"] = Interval + MaxWork /\ Limit["index"] = MaxCall /\ Limit["spot"] = 0
  /\ Limit["cold"] = MaxFetch /\ Limit["act"] = MaxAct
BY DEF Limit

Entries == [age : Ages, dataAge : Ages, refreshing : BOOLEAN]
Momenta == [own : {"unasked", "index", "spot", "expired", "failed"},
            used : {"none", "index", "spot", "btc"},
            age : Nat \cup {None}]

\* Growing older.
LEMMA OlderAge ==
  ASSUME NEW age \in Ages
  PROVE  /\ Older(age) \in Ages
         /\ Older(age) = None <=> age = None
         /\ age # None => age \in Nat /\ Older(age) \in Nat /\ Older(age) >= age
                          /\ Older(age) <= age + 1
         /\ age # None /\ age < Oldest => Older(age) = age + 1
BY OldestBounds DEF Older, Ages, None

\* An entry and the symbol the loop asks for.
LEMMA AskedSymbol ==
  ASSUME TypeOK
  PROVE  Symbol \in Symbols /\ Entry = cache[Symbol] /\ Entry \in Entries
BY PlacesAndSymbols DEF TypeOK, Symbol, Entry, Entries

\* The age of fetched prices is an age.
LEMMA FetchedAges ==
  ASSUME NEW n \in 0 .. MaxFetch
  PROVE  n \in Ages /\ n \in Nat /\ n # None /\ 0 \in Ages /\ 0 # None
BY OldestBounds, Limits DEF Ages, None

-----------------------------------------------------------------------------
(* The steps of the loop, by what they leave to the rest of the proof *)

\* A state of the loop is well typed when a wait starts.
LEMMA GotoTypes ==
  ASSUME NEW next \in {"rest", "index", "spot", "cold", "act"}, Goto(next)
  PROVE  pc' = next /\ pc' \in DOMAIN Limit /\ spent' \in 0 .. Limit[pc']
BY Waits, Limits DEF Goto

LEMMA NextSeriesTypes ==
  ASSUME TypeOK, NextSeries
  PROVE  /\ pc' \in {"index", "act"} /\ pc' \in DOMAIN Limit /\ spent' \in 0 .. Limit[pc']
         /\ asked' \in Places /\ fallback' \in BOOLEAN
<1>1. CASE asked < Len(SymbolOf)
  <2>1. Goto("index") /\ asked' = asked + 1 /\ fallback' = FALSE
    BY <1>1 DEF NextSeries
  <2>2. asked + 1 \in Places
    BY <1>1, PlacesAndSymbols DEF TypeOK
  <2> QED
    BY <2>1, <2>2, GotoTypes
<1>2. CASE ~ (asked < Len(SymbolOf))
  <2>1. Goto("act") /\ asked' = asked /\ fallback' = FALSE
    BY <1>2 DEF NextSeries
  <2> QED
    BY <2>1, GotoTypes DEF TypeOK
<1> QED
  BY <1>1, <1>2

\* What the loop's own variables become.
LoopTypes ==
  /\ pc' \in DOMAIN Limit /\ spent' \in 0 .. Limit[pc'] /\ asked' \in Places
  /\ fallback' \in BOOLEAN /\ sinceSignals' \in Nat /\ momentum' \in [Places -> Momenta]

\* The signal of a series uses what it used; or prices of the given age.
Same(p) == momentum'[p].used = momentum[p].used /\ momentum'[p].age = momentum[p].age
Keeps(p, n) == Same(p) \/ momentum'[p].age = n

LEMMA ServeTypes ==
  ASSUME TypeOK, NEW n \in Nat, Serve(n)
  PROVE  /\ LoopTypes /\ pc' \in {"index", "act"} /\ sinceSignals' = sinceSignals
         /\ \A p \in Places : Keeps(p, n)
<1>1. NextSeries /\ sinceSignals' = sinceSignals
  BY DEF Serve
<1>2. momentum \in [Places -> Momenta] /\ asked \in Places
  BY DEF TypeOK, Momenta
<1> DEFINE served == IF fallback THEN [momentum[asked] EXCEPT !.used = "btc", !.age = n]
                     ELSE [own |-> "spot", used |-> "spot", age |-> n]
<1>3. momentum' = [momentum EXCEPT ![asked] = served]
  BY DEF Serve
<1>4. served \in Momenta /\ served.age = n
  BY <1>2 DEF Momenta
<1> HIDE DEF served
<1>5. momentum' \in [Places -> Momenta]
  BY <1>2, <1>3, <1>4
<1>6. \A p \in Places : Keeps(p, n)
  BY <1>2, <1>3, <1>4 DEF Keeps, Same
<1> QED
  BY <1>1, <1>5, <1>6, NextSeriesTypes DEF LoopTypes, TypeOK

LEMMA RefuseTypes ==
  ASSUME TypeOK, NEW why \in {"expired", "failed"}, Refuse(why)
  PROVE  /\ LoopTypes /\ pc' \in {"index", "act", "spot"} /\ sinceSignals' = sinceSignals
         /\ \A p \in Places : Same(p)
<1>1. sinceSignals' = sinceSignals
  BY DEF Refuse
<1>2. momentum \in [Places -> Momenta] /\ asked \in Places /\ fallback \in BOOLEAN
  BY DEF TypeOK, Momenta
<1>3. CASE fallback
  <2>1. NextSeries /\ momentum' = momentum
    BY <1>3 DEF Refuse
  <2>2. \A p \in Places : Same(p)
    BY <2>1 DEF Same
  <2> QED
    BY <1>1, <1>2, <2>1, <2>2, NextSeriesTypes DEF LoopTypes, TypeOK
<1>4. CASE ~ fallback
  <2>1. /\ momentum' = [momentum EXCEPT ![asked] = [@ EXCEPT !.own = why]]
        /\ fallback' = TRUE /\ Goto("spot") /\ asked' = asked
    BY <1>4 DEF Refuse
  <2>2. [momentum[asked] EXCEPT !.own = why] \in Momenta
    BY <1>2 DEF Momenta
  <2>3. momentum' \in [Places -> Momenta]
    BY <1>2, <2>1, <2>2
  <2>4. \A p \in Places : Same(p)
    <3> TAKE p \in Places
    <3>1. CASE p = asked
      <4>1. momentum'[p] = [momentum[p] EXCEPT !.own = why] /\ momentum[p] \in Momenta
        BY <1>2, <2>1, <3>1
      <4>2. momentum'[p].used = momentum[p].used /\ momentum'[p].age = momentum[p].age
        BY <4>1 DEF Momenta
      <4> QED
        BY <4>2 DEF Same
    <3>2. CASE p # asked
      BY <1>2, <2>1, <3>2 DEF Same
    <3> QED
      BY <3>1, <3>2
  <2>5. pc' = "spot" /\ pc' \in DOMAIN Limit /\ spent' \in 0 .. Limit[pc']
    BY <2>1, GotoTypes
  <2> QED
    BY <1>1, <1>2, <2>1, <2>3, <2>4, <2>5 DEF LoopTypes, TypeOK
<1> QED
  BY <1>2, <1>3, <1>4

\* The loop is at rest again, and has forgotten its momentum.
LEMMA RestTypes ==
  ASSUME TypeOK, Goto("rest"), asked' = 1, fallback' = FALSE \/ fallback' = fallback,
         sinceSignals' = 0, momentum' = [p \in Places |-> NoMomentum]
  PROVE  LoopTypes /\ pc' = "rest" /\ \A p \in Places : momentum'[p].used = "none"
<1>1. NoMomentum \in Momenta /\ NoMomentum.used = "none"
  BY DEF NoMomentum, Momenta, None
<1> QED
  BY <1>1, GotoTypes, PlacesAndSymbols DEF LoopTypes, TypeOK

\* An entry that is as old as it was, or freshly stored.
SpotTypes ==
  /\ cache' \in [Symbols -> Entries]
  /\ \A s \in Symbols : cache'[s].age = None <=> cache'[s].dataAge = None
  /\ threads' \in [Symbols -> Nat] /\ fetching' \in [Symbols -> 0 .. MaxFetch]
  /\ unstarted' \subseteq Symbols

LEMMA TypesFromParts ==
  ASSUME LoopTypes, SpotTypes
  PROVE  TypeOK'
BY DEF LoopTypes, SpotTypes, TypeOK, Momenta, Entries

\* What a change of one entry's mark does.
LEMMA MarkTypes ==
  ASSUME TypeOK, NEW s \in Symbols, NEW b \in BOOLEAN,
         cache' = [cache EXCEPT ![s] = [@ EXCEPT !.refreshing = b]]
  PROVE  /\ cache' \in [Symbols -> Entries]
         /\ \A x \in Symbols : /\ cache'[x].age = cache[x].age
                               /\ cache'[x].dataAge = cache[x].dataAge
                               /\ cache'[x].refreshing =
                                    IF x = s THEN b ELSE cache[x].refreshing
         /\ \A x \in Symbols : cache'[x].age = None <=> cache'[x].dataAge = None
<1>1. cache \in [Symbols -> Entries] /\ [cache[s] EXCEPT !.refreshing = b] \in Entries
  BY DEF TypeOK, Entries
<1>2. cache' \in [Symbols -> Entries]
  BY <1>1
<1>3. ASSUME NEW x \in Symbols
      PROVE  /\ cache'[x].age = cache[x].age /\ cache'[x].dataAge = cache[x].dataAge
             /\ cache'[x].refreshing = IF x = s THEN b ELSE cache[x].refreshing
  <2>1. CASE x = s
    <3>1. cache'[x] = [cache[x] EXCEPT !.refreshing = b] /\ cache[x] \in Entries
      BY <1>1, <2>1
    <3> QED
      BY <2>1, <3>1 DEF Entries
  <2>2. CASE x # s
    BY <1>1, <2>2
  <2> QED
    BY <2>1, <2>2
<1> QED
  BY <1>2, <1>3 DEF TypeOK

\* What a successful fetch does.
LEMMA StoredTypes ==
  ASSUME TypeOK, NEW s \in Symbols, NEW n \in 0 .. MaxFetch,
         cache' = [cache EXCEPT ![s] = Stored(n)]
  PROVE  /\ cache' \in [Symbols -> Entries]
         /\ cache'[s].age = 0 /\ cache'[s].dataAge = n /\ cache'[s].refreshing = FALSE
         /\ \A x \in Symbols : x # s => cache'[x] = cache[x]
         /\ \A x \in Symbols : cache'[x].age = None <=> cache'[x].dataAge = None
<1>1. cache \in [Symbols -> Entries]
  BY DEF TypeOK, Entries
<1>2. Stored(n) \in Entries
  BY FetchedAges DEF Stored, Entries
<1>3. /\ Stored(n).age = 0 /\ Stored(n).dataAge = n /\ Stored(n).refreshing = FALSE
      /\ 0 # None /\ n # None
  BY FetchedAges DEF Stored
<1> QED
  BY <1>1, <1>2, <1>3 DEF TypeOK

\* What asking for a refresh does.
LEMMA StartTypes ==
  ASSUME TypeOK, NEW s \in Symbols, StartRefresh(s)
  PROVE  /\ SpotTypes
         /\ \A x \in Symbols : /\ cache'[x].age = cache[x].age
                               /\ cache'[x].dataAge = cache[x].dataAge
         /\ \A x \in Symbols : x # s => /\ threads'[x] = threads[x]
                                        /\ cache'[x].refreshing = cache[x].refreshing
         /\ cache'[s].refreshing
         /\ \/ cache[s].refreshing /\ threads'[s] = threads[s]
            \/ ~ cache[s].refreshing /\ threads'[s] = threads[s] + 1
<1>s. /\ cache \in [Symbols -> Entries] /\ threads \in [Symbols -> Nat]
      /\ fetching \in [Symbols -> 0 .. MaxFetch] /\ unstarted' = unstarted
      /\ unstarted \subseteq Symbols
      /\ \A x \in Symbols : cache[x].age = None <=> cache[x].dataAge = None
  BY DEF TypeOK, Entries, StartRefresh, spots
<1>1. CASE cache[s].refreshing
  <2>1. cache' = cache /\ threads' = threads /\ fetching' = fetching
    BY <1>1 DEF StartRefresh, spots
  <2> QED
    BY <1>s, <1>1, <2>1 DEF SpotTypes
<1>2. CASE ~ cache[s].refreshing
  <2>1. /\ cache' = [cache EXCEPT ![s] = [@ EXCEPT !.refreshing = TRUE]]
        /\ threads' = [threads EXCEPT ![s] = @ + 1]
        /\ fetching' = [fetching EXCEPT ![s] = 0]
    BY <1>2 DEF StartRefresh
  <2>2. /\ cache' \in [Symbols -> Entries]
        /\ \A x \in Symbols : /\ cache'[x].age = cache[x].age
                              /\ cache'[x].dataAge = cache[x].dataAge
                              /\ cache'[x].refreshing =
                                   IF x = s THEN TRUE ELSE cache[x].refreshing
        /\ \A x \in Symbols : cache'[x].age = None <=> cache'[x].dataAge = None
    BY <2>1, MarkTypes
  <2>3. threads' \in [Symbols -> Nat] /\ fetching' \in [Symbols -> 0 .. MaxFetch]
    BY <1>s, <2>1, Limits
  <2>4. threads'[s] = threads[s] + 1 /\ \A x \in Symbols : x # s => threads'[x] = threads[x]
    BY <1>s, <2>1
  <2> QED
    BY <1>s, <1>2, <2>2, <2>3, <2>4 DEF SpotTypes
<1> QED
  BY <1>1, <1>2

-----------------------------------------------------------------------------
(* Types *)

\* The initial state is well typed.
LEMMA InitTypes == Init => TypeOK
<1> SUFFICES ASSUME Init PROVE TypeOK
  OBVIOUS
<1>1. NoMomentum \in Momenta /\ NoEntry \in Entries /\ NoEntry.age = NoEntry.dataAge
  BY DEF NoMomentum, Momenta, NoEntry, Entries, Ages, None
<1>2. /\ momentum \in [Places -> Momenta] /\ cache \in [Symbols -> Entries]
      /\ \A s \in Symbols : cache[s].age = None <=> cache[s].dataAge = None
  BY <1>1 DEF Init
<1>3. /\ pc \in DOMAIN Limit /\ spent \in 0 .. Limit[pc] /\ asked \in Places
      /\ fallback \in BOOLEAN /\ sinceSignals \in Nat
  <2>1. pc = "rest" /\ spent = Interval /\ asked = 1 /\ sinceSignals = 0
    BY DEF Init
  <2>2. fallback \in BOOLEAN
    BY DEF Init
  <2>3. Interval \in 0 .. Interval + MaxWork
    BY Limits
  <2>4. spent \in 0 .. Limit[pc]
    BY <2>1, <2>3, Waits
  <2> QED
    BY <2>1, <2>2, <2>4, Waits, PlacesAndSymbols
<1>4. /\ threads \in [Symbols -> Nat] /\ fetching \in [Symbols -> 0 .. MaxFetch]
      /\ unstarted \subseteq Symbols
  BY Limits DEF Init
<1> QED
  BY <1>2, <1>3, <1>4 DEF TypeOK, Momenta, Entries

\* What time does to an entry and to the loop's momentum.
LEMMA TickFields ==
  ASSUME TypeOK, Tick
  PROVE  /\ \A s \in Symbols : /\ cache'[s].age = Older(cache[s].age)
                               /\ cache'[s].dataAge = Older(cache[s].dataAge)
                               /\ cache'[s].refreshing = cache[s].refreshing
                               /\ cache'[s] \in Entries
         /\ \A p \in Places : /\ momentum'[p].used = momentum[p].used
                              /\ momentum'[p].age = Elapsed(momentum[p].age)
                              /\ momentum'[p] \in Momenta
<1>1. ASSUME NEW s \in Symbols
      PROVE  /\ cache'[s].age = Older(cache[s].age)
             /\ cache'[s].dataAge = Older(cache[s].dataAge)
             /\ cache'[s].refreshing = cache[s].refreshing
             /\ cache'[s] \in Entries
  <2>1. cache[s] \in Entries
    BY DEF TypeOK, Entries
  <2>2. cache'[s] = [cache[s] EXCEPT !.age = Older(@), !.dataAge = Older(@)]
    BY DEF Tick
  <2>3. Older(cache[s].age) \in Ages /\ Older(cache[s].dataAge) \in Ages
    BY <2>1, OlderAge DEF Entries
  <2> QED
    BY <2>1, <2>2, <2>3 DEF Entries
<1>2. ASSUME NEW p \in Places
      PROVE  /\ momentum'[p].used = momentum[p].used
             /\ momentum'[p].age = Elapsed(momentum[p].age)
             /\ momentum'[p] \in Momenta
  <2>1. momentum[p] \in Momenta
    BY DEF TypeOK, Momenta
  <2>2. momentum'[p] = [momentum[p] EXCEPT !.age = Elapsed(@)]
    BY DEF Tick
  <2>3. Elapsed(momentum[p].age) \in Nat \cup {None}
    BY <2>1 DEF Elapsed, Momenta, None
  <2> QED
    BY <2>1, <2>2, <2>3 DEF Momenta
<1> QED
  BY <1>1, <1>2

LEMMA TickTypes ==
  ASSUME TypeOK, Tick
  PROVE  LoopTypes /\ SpotTypes
<1>0. /\ spent < Limit[pc] /\ spent' = spent + 1
      /\ sinceSignals' = IF pc = "rest" THEN 0 ELSE sinceSignals + 1
      /\ UNCHANGED <<pc, asked, fallback, threads, unstarted>>
      /\ \A s \in Symbols : threads[s] > 0 => fetching[s] < MaxFetch
      /\ fetching' = [s \in Symbols |-> IF threads[s] > 0 THEN fetching[s] + 1 ELSE 0]
  BY DEF Tick
<1>1. pc' = pc /\ pc \in DOMAIN Limit /\ spent' \in 0 .. Limit[pc]
  BY <1>0, Waits, Limits DEF TypeOK
<1>2. momentum' \in [Places -> Momenta]
  <2>1. momentum' = [p \in Places |-> momentum'[p]]
    BY DEF Tick
  <2> QED
    BY <2>1, TickFields
<1>3. cache' \in [Symbols -> Entries]
  <2>1. cache' = [s \in Symbols |-> cache'[s]]
    BY DEF Tick
  <2> QED
    BY <2>1, TickFields
<1>4. \A s \in Symbols : cache'[s].age = None <=> cache'[s].dataAge = None
  <2> TAKE s \in Symbols
  <2>1. /\ cache[s].age \in Ages /\ cache[s].dataAge \in Ages
        /\ cache[s].age = None <=> cache[s].dataAge = None
    BY DEF TypeOK
  <2> QED
    BY <2>1, TickFields, OlderAge
<1>5. fetching' \in [Symbols -> 0 .. MaxFetch]
  <2> SUFFICES ASSUME NEW s \in Symbols
               PROVE  (IF threads[s] > 0 THEN fetching[s] + 1 ELSE 0) \in 0 .. MaxFetch
    BY <1>0
  <2> QED
    BY <1>0, Limits DEF TypeOK
<1>6. /\ asked' \in Places /\ fallback' \in BOOLEAN /\ sinceSignals' \in Nat
      /\ threads' \in [Symbols -> Nat] /\ unstarted' \subseteq Symbols
  BY <1>0 DEF TypeOK
<1> QED
  BY <1>1, <1>2, <1>3, <1>4, <1>5, <1>6 DEF LoopTypes, SpotTypes

\* Nothing happens to the cache and its threads.
LEMMA SameSpots ==
  ASSUME TypeOK, UNCHANGED spots
  PROVE  SpotTypes
BY DEF TypeOK, SpotTypes, spots, Entries

LEMMA LoopStepTypes ==
  ASSUME TypeOK, LoopStep
  PROVE  LoopTypes /\ SpotTypes
<1>1. CASE Begin \/ IndexFails \/ ColdStart
  <2>1. Goto("index") \/ Goto("spot") \/ Goto("cold")
    BY <1>1 DEF Begin, IndexFails, ColdStart
  <2>2. UNCHANGED <<asked, fallback, sinceSignals, momentum>> /\ UNCHANGED spots
    BY <1>1 DEF Begin, IndexFails, ColdStart
  <2>3. LoopTypes
    BY <2>1, <2>2, GotoTypes DEF LoopTypes, TypeOK, Momenta
  <2> QED
    BY <2>2, <2>3, SameSpots
<1>2. CASE NotTradable
  <2>1. NextSeries /\ UNCHANGED <<sinceSignals, momentum>> /\ UNCHANGED spots
    BY <1>2 DEF NotTradable
  <2>2. LoopTypes
    BY <2>1, NextSeriesTypes DEF LoopTypes, TypeOK, Momenta
  <2> QED
    BY <2>1, <2>2, SameSpots
<1>3. CASE IndexAnswers
  <2>1. NextSeries /\ UNCHANGED sinceSignals /\ UNCHANGED spots
    BY <1>3 DEF IndexAnswers
  <2>2. momentum' \in [Places -> Momenta]
    <3>1. [own |-> "index", used |-> "index", age |-> None] \in Momenta
      BY DEF Momenta
    <3>2. momentum \in [Places -> Momenta]
      BY DEF TypeOK, Momenta
    <3> QED
      BY <1>3, <3>1, <3>2 DEF IndexAnswers
  <2>3. LoopTypes
    BY <2>1, <2>2, NextSeriesTypes DEF LoopTypes, TypeOK
  <2> QED
    BY <2>1, <2>3, SameSpots
<1>4. CASE FreshSpot \/ AgingSpot
  <2>1. Entry.age # None /\ Serve(Entry.dataAge)
    BY <1>4 DEF FreshSpot, AgingSpot
  <2>2. Entry.dataAge \in Nat
    BY <2>1, AskedSymbol DEF TypeOK, Entries, Ages
  <2>3. LoopTypes
    BY <2>1, <2>2, ServeTypes
  <2>4. UNCHANGED spots \/ StartRefresh(Symbol)
    BY <1>4 DEF FreshSpot, AgingSpot
  <2> QED
    BY <2>3, <2>4, SameSpots, StartTypes, AskedSymbol
<1>5. CASE ExpiredSpot
  <2>1. Refuse("expired") /\ StartRefresh(Symbol)
    BY <1>5 DEF ExpiredSpot
  <2> QED
    BY <2>1, RefuseTypes, StartTypes, AskedSymbol
<1>6. CASE RefreshNotStarted
  <2>1. LoopTypes
    BY <1>6, RestTypes DEF RefreshNotStarted
  <2>2. /\ cache' = [cache EXCEPT ![Symbol] = [@ EXCEPT !.refreshing = TRUE]]
        /\ unstarted' = unstarted \cup {Symbol}
        /\ UNCHANGED <<threads, fetching>>
    BY <1>6 DEF RefreshNotStarted
  <2>3. SpotTypes
    BY <2>2, MarkTypes, AskedSymbol DEF SpotTypes, TypeOK
  <2> QED
    BY <2>1, <2>3
<1>7. CASE ColdFetched
  <2>1. PICK n \in 0 .. spent : cache' = [cache EXCEPT ![Symbol] = Stored(n)] /\ Serve(n)
    BY <1>7 DEF ColdFetched
  <2>2. n \in 0 .. MaxFetch /\ n \in Nat
    BY <1>7, Waits, Limits DEF ColdFetched, TypeOK
  <2>3. SpotTypes
    BY <1>7, <2>1, <2>2, StoredTypes, AskedSymbol DEF ColdFetched, SpotTypes, TypeOK
  <2> QED
    BY <2>1, <2>2, <2>3, ServeTypes
<1>8. CASE ColdFails
  <2>1. /\ cache' = [cache EXCEPT ![Symbol] = [@ EXCEPT !.refreshing = FALSE]]
        /\ Refuse("failed") /\ UNCHANGED <<threads, fetching, unstarted>>
    BY <1>8 DEF ColdFails, StoredNothing
  <2>2. SpotTypes
    BY <2>1, MarkTypes, AskedSymbol DEF SpotTypes, TypeOK
  <2> QED
    BY <2>1, <2>2, RefuseTypes
<1>9. CASE CycleEnds
  <2>1. LoopTypes
    BY <1>9, RestTypes DEF CycleEnds
  <2> QED
    BY <1>9, <2>1, SameSpots DEF CycleEnds
<1> QED
  BY <1>1, <1>2, <1>3, <1>4, <1>5, <1>6, <1>7, <1>8, <1>9 DEF LoopStep

\* The end of a refresh: prices are stored, or only the mark goes.
LEMMA RefreshFields ==
  ASSUME TypeOK, NEW s \in Symbols, RefreshEnds(s)
  PROVE  /\ SpotTypes
         /\ UNCHANGED loop /\ threads[s] > 0
         /\ threads'[s] = threads[s] - 1 /\ ~ cache'[s].refreshing
         /\ \A x \in Symbols : x # s => /\ cache'[x].age = cache[x].age
                                        /\ cache'[x].dataAge = cache[x].dataAge
                                        /\ cache'[x].refreshing = cache[x].refreshing
                                        /\ threads'[x] = threads[x]
         /\ \/ cache'[s].age = cache[s].age /\ cache'[s].dataAge = cache[s].dataAge
            \/ cache'[s].age = 0 /\ cache'[s].dataAge \in 0 .. MaxFetch
<1>1. /\ UNCHANGED loop /\ threads[s] > 0
      /\ threads' = [threads EXCEPT ![s] = @ - 1] /\ fetching' = fetching
      /\ unstarted' = unstarted
  BY DEF RefreshEnds, RefreshStores, RefreshFindsNothing, RefreshRaises
<1>2. /\ threads' \in [Symbols -> Nat] /\ threads'[s] = threads[s] - 1
      /\ unstarted' \subseteq Symbols
      /\ \A x \in Symbols : x # s => threads'[x] = threads[x]
  BY <1>1 DEF TypeOK
<1>3. CASE RefreshStores(s)
  <2>1. PICK n \in 0 .. fetching[s] : cache' = [cache EXCEPT ![s] = Stored(n)]
    BY <1>3 DEF RefreshStores
  <2>2. n \in 0 .. MaxFetch
    BY Limits DEF TypeOK
  <2>3. /\ cache' \in [Symbols -> Entries]
        /\ cache'[s].age = 0 /\ cache'[s].dataAge = n /\ cache'[s].refreshing = FALSE
        /\ \A x \in Symbols : x # s => cache'[x] = cache[x]
        /\ \A x \in Symbols : cache'[x].age = None <=> cache'[x].dataAge = None
    BY <2>1, <2>2, StoredTypes
  <2> QED
    BY <1>1, <1>2, <2>2, <2>3 DEF SpotTypes, TypeOK
<1>4. CASE RefreshFindsNothing(s) \/ RefreshRaises(s)
  <2>1. cache' = [cache EXCEPT ![s] = [@ EXCEPT !.refreshing = FALSE]]
    BY <1>4 DEF RefreshFindsNothing, RefreshRaises, StoredNothing, AfterRaise
  <2>2. /\ cache' \in [Symbols -> Entries]
        /\ \A x \in Symbols : /\ cache'[x].age = cache[x].age
                              /\ cache'[x].dataAge = cache[x].dataAge
                              /\ cache'[x].refreshing =
                                   IF x = s THEN FALSE ELSE cache[x].refreshing
        /\ \A x \in Symbols : cache'[x].age = None <=> cache'[x].dataAge = None
    BY <2>1, MarkTypes
  <2> QED
    BY <1>1, <1>2, <2>2 DEF SpotTypes, TypeOK
<1> QED
  BY <1>3, <1>4 DEF RefreshEnds

LEMMA NextTypes == TypeOK /\ [Next]_vars => TypeOK'
<1> SUFFICES ASSUME TypeOK, [Next]_vars PROVE TypeOK'
  OBVIOUS
<1>1. CASE Tick \/ LoopStep
  BY <1>1, TickTypes, LoopStepTypes, TypesFromParts
<1>2. CASE \E s \in Symbols : RefreshEnds(s)
  <2>1. SpotTypes /\ UNCHANGED loop
    BY <1>2, RefreshFields
  <2>2. LoopTypes
    BY <2>1 DEF LoopTypes, TypeOK, Momenta, loop
  <2> QED
    BY <2>1, <2>2, TypesFromParts
<1>3. CASE UNCHANGED vars
  BY <1>3 DEF vars, loop, spots, TypeOK
<1> QED
  BY <1>1, <1>2, <1>3 DEF Next

\* The types of SpotMomentum, for any symbols and series.
THEOREM TypesAreKept == Spec => []TypeOK
BY InitTypes, NextTypes, PTL DEF Spec

-----------------------------------------------------------------------------
(* One fetch at a time *)

\* A refresh in flight is marked, and there was a first success before it.
Marked(s) == threads[s] > 0 => cache[s].refreshing /\ cache[s].age # None

FetchInv ==
  /\ \A s \in Symbols : Marked(s) /\ threads[s] <= 1
  /\ pc = "cold" => cache[Symbol].age = None

LEMMA NextFetch ==
  ASSUME TypeOK, FetchInv, [Next]_vars
  PROVE  FetchInv'
<1>s. threads \in [Symbols -> Nat] /\ cache \in [Symbols -> Entries] /\ 0 # None
  BY DEF TypeOK, Entries, None
<1>f. \A s \in Symbols : Marked(s) /\ threads[s] <= 1
  BY DEF FetchInv
<1>1. CASE Tick
  <2>1. ASSUME NEW s \in Symbols
        PROVE  (cache'[s].age = None <=> cache[s].age = None)
               /\ cache'[s].refreshing = cache[s].refreshing /\ threads'[s] = threads[s]
    <3>1. cache[s].age \in Ages /\ cache'[s].age = Older(cache[s].age)
      BY <1>1, <1>s, TickFields DEF Entries
    <3> QED
      BY <1>1, <3>1, TickFields, OlderAge DEF Tick
  <2>2. \A s \in Symbols : Marked(s)' /\ threads'[s] <= 1
    BY <1>f, <2>1 DEF Marked
  <2>3. pc' = pc /\ Symbol' = Symbol
    BY <1>1 DEF Tick, Symbol
  <2> QED
    BY <2>1, <2>2, <2>3, AskedSymbol DEF FetchInv
<1>2. CASE Begin \/ NotTradable \/ IndexAnswers \/ IndexFails \/ FreshSpot \/ CycleEnds
  <2>1. cache' = cache /\ threads' = threads
    BY <1>2 DEF Begin, NotTradable, IndexAnswers, IndexFails, FreshSpot, CycleEnds, spots
  <2>2. pc' # "cold"
    <3>1. CASE NotTradable \/ IndexAnswers \/ FreshSpot
      <4>1. NextSeries
        BY <3>1 DEF NotTradable, IndexAnswers, FreshSpot, Serve
      <4> QED
        BY <4>1, NextSeriesTypes
    <3>2. CASE Begin \/ IndexFails \/ CycleEnds
      BY <3>2 DEF Begin, IndexFails, CycleEnds, Goto
    <3> QED
      BY <1>2, <3>1, <3>2
  <2> QED
    BY <1>f, <2>1, <2>2 DEF FetchInv, Marked
<1>3. CASE AgingSpot \/ ExpiredSpot
  <2>1. StartRefresh(Symbol) /\ cache[Symbol].age # None /\ Symbol \in Symbols
    BY <1>3, AskedSymbol DEF AgingSpot, ExpiredSpot
  <2>2. pc' # "cold"
    <3>1. CASE AgingSpot
      BY <3>1, NextSeriesTypes DEF AgingSpot, Serve
    <3>2. CASE ExpiredSpot
      BY <3>2, RefuseTypes DEF ExpiredSpot
    <3> QED
      BY <1>3, <3>1, <3>2
  <2>3. ASSUME NEW s \in Symbols
        PROVE  Marked(s)' /\ threads'[s] <= 1
    <3>1. CASE s = Symbol
      BY <1>s, <1>f, <2>1, <3>1, StartTypes DEF Marked
    <3>2. CASE s # Symbol
      BY <1>f, <2>1, <3>2, StartTypes DEF Marked
    <3> QED
      BY <3>1, <3>2
  <2> QED
    BY <2>2, <2>3 DEF FetchInv
<1>4. CASE RefreshNotStarted
  <2>1. /\ cache' = [cache EXCEPT ![Symbol] = [@ EXCEPT !.refreshing = TRUE]]
        /\ threads' = threads /\ pc' = "rest"
    BY <1>4 DEF RefreshNotStarted, Goto
  <2>2. \A s \in Symbols : /\ cache'[s].age = cache[s].age
                           /\ cache[s].refreshing => cache'[s].refreshing
    BY <2>1, AskedSymbol, MarkTypes
  <2> QED
    BY <1>f, <2>1, <2>2 DEF FetchInv, Marked
<1>5. CASE ColdStart
  BY <1>5, <1>f DEF ColdStart, Goto, spots, FetchInv, Marked, Entry, Symbol
<1>6. CASE ColdFetched
  <2>1. PICK n \in 0 .. spent : cache' = [cache EXCEPT ![Symbol] = Stored(n)] /\ Serve(n)
    BY <1>6 DEF ColdFetched
  <2>2. n \in 0 .. MaxFetch
    BY <1>6, Waits, Limits DEF ColdFetched, TypeOK
  <2>3. threads[Symbol] = 0 /\ threads' = threads
    BY <1>6, <1>s, <1>f, AskedSymbol DEF ColdFetched, FetchInv, Marked
  <2>4. \A s \in Symbols : s # Symbol => cache'[s] = cache[s]
    BY <2>1, <2>2, AskedSymbol, StoredTypes
  <2>5. pc' # "cold"
    BY <2>1, NextSeriesTypes DEF Serve
  <2> QED
    BY <1>f, <2>3, <2>4, <2>5 DEF FetchInv, Marked
<1>7. CASE ColdFails
  <2>1. /\ cache' = [cache EXCEPT ![Symbol] = [@ EXCEPT !.refreshing = FALSE]]
        /\ Refuse("failed") /\ threads' = threads
    BY <1>7 DEF ColdFails, StoredNothing
  <2>2. threads[Symbol] = 0
    BY <1>7, <1>s, <1>f, AskedSymbol DEF ColdFails, FetchInv, Marked
  <2>3. \A s \in Symbols : s # Symbol => /\ cache'[s].age = cache[s].age
                                         /\ cache'[s].refreshing = cache[s].refreshing
    BY <2>1, AskedSymbol, MarkTypes
  <2>4. pc' # "cold"
    BY <2>1, RefuseTypes
  <2> QED
    BY <1>f, <2>1, <2>2, <2>3, <2>4 DEF FetchInv, Marked
<1>8. ASSUME NEW s \in Symbols, RefreshEnds(s)
      PROVE  FetchInv'
  <2>1. UNCHANGED loop /\ threads'[s] = threads[s] - 1 /\ threads[s] > 0
    BY <1>8, RefreshFields
  <2>2. threads'[s] = 0
    BY <1>s, <1>f, <2>1
  <2>3. \A x \in Symbols : x # s => /\ cache'[x].age = cache[x].age
                                    /\ cache'[x].refreshing = cache[x].refreshing
                                    /\ threads'[x] = threads[x]
    BY <1>8, RefreshFields
  <2>4. pc' = pc /\ Symbol' = Symbol
    BY <2>1 DEF loop, Symbol
  <2>5. pc = "cold" => Symbol # s
    BY <1>f, <2>1 DEF FetchInv, Marked
  <2>6. pc' = "cold" => cache'[Symbol'].age = None
    BY <2>3, <2>4, <2>5, AskedSymbol DEF FetchInv
  <2>7. \A x \in Symbols : Marked(x)' /\ threads'[x] <= 1
    BY <1>f, <2>2, <2>3 DEF Marked
  <2> QED
    BY <2>6, <2>7 DEF FetchInv
<1>9. CASE UNCHANGED vars
  BY <1>9 DEF vars, loop, spots, FetchInv, Marked, Symbol
<1> QED
  BY <1>1, <1>2, <1>3, <1>4, <1>5, <1>6, <1>7, <1>8, <1>9 DEF Next, LoopStep

LEMMA InitFetch == Init => FetchInv
BY DEF Init, FetchInv, Marked

\* strategy.py:34-36 and 90-102.  A symbol's prices are never fetched twice at a
\* time, by threads or by the loop, for any number of symbols and series.
THEOREM OneFetchAlways == Spec => []OneFetchAtATime
<1>1. TypeOK /\ FetchInv => OneFetchAtATime
  <2> SUFFICES ASSUME TypeOK, FetchInv, NEW s \in Symbols
               PROVE  threads[s] + (IF pc = "cold" /\ Symbol = s THEN 1 ELSE 0) <= 1
    BY DEF OneFetchAtATime
  <2>1. threads[s] \in Nat /\ threads[s] <= 1
    BY DEF TypeOK, FetchInv
  <2>2. pc = "cold" /\ Symbol = s => threads[s] = 0
    BY <2>1 DEF FetchInv, Marked
  <2> QED
    BY <2>1, <2>2
<1> QED
  BY <1>1, InitTypes, NextTypes, InitFetch, NextFetch, PTL DEF Spec

-----------------------------------------------------------------------------
(* How old the momentum of a cycle is *)

\* Prices in a cache entry that still serves are at most one fetch older than it.
Aged(s) ==
  cache[s].age # None /\ cache[s].age < MaxStale =>
    cache[s].dataAge <= cache[s].age + MaxFetch

\* Spot momentum was younger than the bound when the cycle asked for the first.
FreshAt(p) ==
  momentum[p].used \in {"spot", "btc"} =>
    /\ momentum[p].age \in Nat
    /\ momentum[p].age < MaxStale + MaxFetch + sinceSignals

SpotInv ==
  /\ \A s \in Symbols : Aged(s)
  /\ \A p \in Places : FreshAt(p)
  /\ pc = "rest" => \A p \in Places : momentum[p].used \notin {"spot", "btc"}

LEMMA EntryAges ==
  ASSUME TypeOK, NEW s \in Symbols
  PROVE  /\ cache[s].age \in Ages /\ cache[s].dataAge \in Ages
         /\ cache[s].age = None <=> cache[s].dataAge = None
         /\ cache[s].age # None => cache[s].age \in Nat /\ cache[s].dataAge \in Nat
BY DEF TypeOK, Ages

\* The data of a served entry is younger than the limit and one fetch.
LEMMA ServedAge ==
  ASSUME TypeOK, SpotInv, NEW s \in Symbols, cache[s].age # None, cache[s].age < MaxStale
  PROVE  cache[s].dataAge \in Nat /\ cache[s].dataAge < MaxStale + MaxFetch
BY EntryAges, Limits DEF SpotInv, Aged

\* A step of the loop that serves data this young keeps the bound.
LEMMA KeptFresh ==
  ASSUME TypeOK, SpotInv, NEW n \in Nat, n < MaxStale + MaxFetch,
         sinceSignals' = sinceSignals, NEW p \in Places, Keeps(p, n)
  PROVE  FreshAt(p)'
<1>1. FreshAt(p) /\ sinceSignals \in Nat
  BY DEF SpotInv, TypeOK
<1> QED
  BY <1>1, Limits DEF Keeps, Same, FreshAt

LEMMA NextSpot ==
  ASSUME TypeOK, SpotInv, [Next]_vars
  PROVE  SpotInv'
<1>s. /\ \A s \in Symbols : Aged(s)
      /\ \A p \in Places : FreshAt(p)
      /\ pc = "rest" => \A p \in Places : momentum[p].used \notin {"spot", "btc"}
  BY DEF SpotInv
<1>1. CASE Tick
  <2>1. /\ pc' = pc /\ sinceSignals \in Nat
        /\ sinceSignals' = IF pc = "rest" THEN 0 ELSE sinceSignals + 1
    BY <1>1 DEF Tick, TypeOK
  <2>2. ASSUME NEW s \in Symbols
        PROVE  Aged(s)'
    <3>1. /\ cache'[s].age = Older(cache[s].age) /\ cache'[s].dataAge = Older(cache[s].dataAge)
          /\ cache[s].age \in Ages /\ cache[s].dataAge \in Ages
          /\ cache[s].age = None <=> cache[s].dataAge = None
      BY <1>1, TickFields, EntryAges
    <3> SUFFICES ASSUME cache'[s].age # None, cache'[s].age < MaxStale
                 PROVE  cache'[s].dataAge <= cache'[s].age + MaxFetch
      BY DEF Aged
    <3>2. /\ cache[s].age # None /\ cache[s].age \in Nat /\ cache[s].age < MaxStale
          /\ cache[s].dataAge \in Nat /\ cache'[s].dataAge \in Nat
          /\ cache'[s].dataAge <= cache[s].dataAge + 1
      BY <3>1, OlderAge, Limits
    <3>3. cache'[s].age = cache[s].age + 1
      BY <3>1, <3>2, OlderAge, OldestBounds, Limits
    <3>4. cache[s].dataAge <= cache[s].age + MaxFetch
      BY <1>s, <3>2 DEF Aged
    <3> QED
      BY <3>2, <3>3, <3>4, Limits
  <2>3. ASSUME NEW p \in Places, pc # "rest"
        PROVE  FreshAt(p)'
    <3>1. momentum'[p].used = momentum[p].used /\ momentum'[p].age = Elapsed(momentum[p].age)
      BY <1>1, TickFields
    <3> SUFFICES ASSUME momentum'[p].used \in {"spot", "btc"}
                 PROVE  /\ momentum'[p].age \in Nat
                        /\ momentum'[p].age < MaxStale + MaxFetch + sinceSignals'
      BY DEF FreshAt
    <3>2. momentum[p].age \in Nat /\ momentum[p].age < MaxStale + MaxFetch + sinceSignals
      BY <1>s, <3>1 DEF FreshAt
    <3>3. momentum'[p].age = momentum[p].age + 1
      BY <3>1, <3>2 DEF Elapsed, None
    <3> QED
      BY <2>1, <2>3, <3>2, <3>3, Limits
  <2>4. ASSUME pc = "rest", NEW p \in Places
        PROVE  FreshAt(p)' /\ momentum'[p].used \notin {"spot", "btc"}
    BY <1>1, <1>s, <2>4, TickFields DEF FreshAt
  <2> QED
    BY <2>1, <2>2, <2>3, <2>4 DEF SpotInv
<1>2. CASE Begin \/ IndexFails \/ ColdStart \/ NotTradable
  <2>1. UNCHANGED <<sinceSignals, momentum, spots>>
    BY <1>2 DEF Begin, IndexFails, ColdStart, NotTradable
  <2>2. pc' # "rest"
    BY <1>2, NextSeriesTypes DEF Begin, IndexFails, ColdStart, NotTradable, Goto
  <2> QED
    BY <1>s, <2>1, <2>2 DEF SpotInv, Aged, FreshAt, spots
<1>3. CASE IndexAnswers
  <2>1. /\ momentum' = [momentum EXCEPT ![asked] =
                          [own |-> "index", used |-> "index", age |-> None]]
        /\ NextSeries /\ sinceSignals' = sinceSignals /\ cache' = cache
    BY <1>3 DEF IndexAnswers, spots
  <2>2. pc' # "rest"
    BY <2>1, NextSeriesTypes
  <2>3. ASSUME NEW p \in Places PROVE FreshAt(p)'
    <3>1. momentum \in [Places -> Momenta]
      BY DEF TypeOK, Momenta
    <3>2. CASE p = asked
      BY <2>1, <3>1, <3>2 DEF FreshAt
    <3>3. CASE p # asked
      BY <1>s, <2>1, <3>1, <3>3 DEF FreshAt
    <3> QED
      BY <3>2, <3>3
  <2> QED
    BY <1>s, <2>1, <2>2, <2>3 DEF SpotInv, Aged
<1>4. CASE FreshSpot \/ AgingSpot
  <2>1. /\ Serve(Entry.dataAge) /\ Symbol \in Symbols /\ Entry = cache[Symbol]
        /\ cache[Symbol].age # None
    BY <1>4, AskedSymbol DEF FreshSpot, AgingSpot
  <2>2. cache[Symbol].age < MaxStale
    <3>1. cache[Symbol].age \in Nat
      BY <2>1, EntryAges
    <3>2. CASE FreshSpot
      BY <2>1, <3>1, <3>2, Limits DEF FreshSpot
    <3>3. CASE AgingSpot
      BY <2>1, <3>3 DEF AgingSpot, Usable
    <3> QED
      BY <1>4, <3>2, <3>3
  <2>3. Entry.dataAge \in Nat /\ Entry.dataAge < MaxStale + MaxFetch
    BY <2>1, <2>2, ServedAge
  <2>4. /\ pc' \in {"index", "act"} /\ sinceSignals' = sinceSignals
        /\ \A p \in Places : Keeps(p, Entry.dataAge)
    BY <2>1, <2>3, ServeTypes
  <2>5. \A p \in Places : FreshAt(p)'
    BY <2>3, <2>4, KeptFresh
  <2>6. \A s \in Symbols : cache'[s].age = cache[s].age /\ cache'[s].dataAge = cache[s].dataAge
    BY <1>4, <2>1, StartTypes DEF FreshSpot, AgingSpot, spots
  <2> QED
    BY <1>s, <2>4, <2>5, <2>6 DEF SpotInv, Aged
<1>5. CASE ExpiredSpot \/ ColdFails
  <2>1. /\ pc' # "rest" /\ sinceSignals' = sinceSignals /\ \A p \in Places : Same(p)
    BY <1>5, RefuseTypes DEF ExpiredSpot, ColdFails
  <2>2. \A p \in Places : FreshAt(p)'
    BY <1>s, <2>1 DEF FreshAt, Same
  <2>3. \A s \in Symbols : cache'[s].age = cache[s].age /\ cache'[s].dataAge = cache[s].dataAge
    <3>1. CASE ExpiredSpot
      BY <3>1, AskedSymbol, StartTypes DEF ExpiredSpot
    <3>2. CASE ColdFails
      <4>1. cache' = [cache EXCEPT ![Symbol] = [@ EXCEPT !.refreshing = FALSE]]
        BY <3>2 DEF ColdFails, StoredNothing
      <4> QED
        BY <4>1, AskedSymbol, MarkTypes
    <3> QED
      BY <1>5, <3>1, <3>2
  <2> QED
    BY <1>s, <2>1, <2>2, <2>3 DEF SpotInv, Aged
<1>6. CASE RefreshNotStarted \/ CycleEnds
  <2>1. \A p \in Places : momentum'[p].used = "none"
    BY <1>6, RestTypes DEF RefreshNotStarted, CycleEnds
  <2>2. \A s \in Symbols : cache'[s].age = cache[s].age /\ cache'[s].dataAge = cache[s].dataAge
    <3>1. CASE RefreshNotStarted
      <4>1. cache' = [cache EXCEPT ![Symbol] = [@ EXCEPT !.refreshing = TRUE]]
        BY <3>1 DEF RefreshNotStarted
      <4> QED
        BY <4>1, AskedSymbol, MarkTypes
    <3>2. CASE CycleEnds
      BY <3>2 DEF CycleEnds, spots
    <3> QED
      BY <1>6, <3>1, <3>2
  <2> QED
    BY <1>s, <2>1, <2>2 DEF SpotInv, Aged, FreshAt
<1>7. CASE ColdFetched
  <2>1. PICK n \in 0 .. spent : cache' = [cache EXCEPT ![Symbol] = Stored(n)] /\ Serve(n)
    BY <1>7 DEF ColdFetched
  <2>2. n \in 0 .. MaxFetch /\ n \in Nat /\ n < MaxStale + MaxFetch
    BY <1>7, Waits, Limits DEF ColdFetched, TypeOK
  <2>3. /\ pc' # "rest" /\ sinceSignals' = sinceSignals /\ \A p \in Places : Keeps(p, n)
    BY <2>1, <2>2, ServeTypes
  <2>4. \A p \in Places : FreshAt(p)'
    BY <2>2, <2>3, KeptFresh
  <2>5. \A s \in Symbols : Aged(s)'
    <3>1. /\ cache'[Symbol].age = 0 /\ cache'[Symbol].dataAge = n
          /\ \A s \in Symbols : s # Symbol => cache'[s] = cache[s]
      BY <2>1, <2>2, AskedSymbol, StoredTypes
    <3> QED
      BY <1>s, <2>2, <3>1, Limits DEF Aged
  <2> QED
    BY <2>3, <2>4, <2>5 DEF SpotInv
<1>8. ASSUME NEW s \in Symbols, RefreshEnds(s)
      PROVE  SpotInv'
  <2>1. UNCHANGED loop
    BY <1>8, RefreshFields
  <2>2. ASSUME NEW x \in Symbols PROVE Aged(x)'
    <3>1. \/ cache'[x].age = cache[x].age /\ cache'[x].dataAge = cache[x].dataAge
          \/ cache'[x].age = 0 /\ cache'[x].dataAge \in 0 .. MaxFetch
      BY <1>8, RefreshFields
    <3> QED
      BY <1>s, <3>1, Limits DEF Aged
  <2> QED
    BY <1>s, <2>1, <2>2 DEF SpotInv, FreshAt, loop
<1>9. CASE UNCHANGED vars
  BY <1>s, <1>9 DEF vars, loop, spots, SpotInv, Aged, FreshAt
<1> QED
  BY <1>1, <1>2, <1>3, <1>4, <1>5, <1>6, <1>7, <1>8, <1>9 DEF Next, LoopStep

LEMMA InitSpot == Init => SpotInv
<1> SUFFICES ASSUME Init PROVE SpotInv
  OBVIOUS
<1>1. \A p \in Places : momentum[p].used = "none"
  BY DEF Init, NoMomentum
<1>2. \A s \in Symbols : cache[s].age = None
  BY DEF Init, NoEntry
<1> QED
  BY <1>1, <1>2 DEF SpotInv, Aged, FreshAt

\* strategy.py:33-41 and 107-139, bot.py:990-1047.  No cycle trades on spot
\* momentum that was older than the hard limit and one fetch when the cycle first
\* asked for momentum, however many refreshes failed or were never started.
THEOREM MomentumAlwaysFresh == Spec => []MomentumFresh
<1>1. SpotInv => MomentumFresh
  BY DEF SpotInv, FreshAt, MomentumFresh
<1> QED
  BY <1>1, InitTypes, NextTypes, InitSpot, NextSpot, PTL DEF Spec
=============================================================================
