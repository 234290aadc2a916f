-------------------------- MODULE WebSocketBookProofs --------------------------
(***************************************************************************)
(* What TLAPS proves of WebSocketBook, for any number of markets, changes  *)
(* and connections.                                                        *)
(*                                                                         *)
(* The messages between the exchange and the books are seen as one stream: *)
(* the message the reader has taken from the socket, at index 0, followed  *)
(* by those still in flight.                                               *)
(***************************************************************************)
EXTENDS WebSocketBook, SumTheorems

-----------------------------------------------------------------------------
(* The stream. *)

InFlight == (IF reader.pc = "apply" THEN 0 ELSE 1) .. Len(down)
At(i) == IF i = 0 THEN reader.msg ELSE down[i]
IsSnapshot(i, m) == At(i).type = "orderbook_snapshot" /\ At(i).market = m

\* What the version of a market is ahead of the sequence number: the same for
\* all messages of one subscription.
Offset(i) == At(i).version - At(i).seq

\* No snapshot of m among the messages after i, up to and including j.
NoSnapshot(m, i, j) == \A k \in InFlight : i < k /\ k <= j => ~ IsSnapshot(k, m)

-----------------------------------------------------------------------------
(* Types. *)

Messages == [type : {"orderbook_snapshot", "orderbook_delta"}, market : Markets,
             sid : Nat \ {0}, seq : Nat \ {0}, version : Nat]
Commands == {Subscribe(m) : m \in Markets} \union {Unsubscribe(sid) : sid \in Nat \ {0}}
Feeds == {NoFeed} \union [sid : Nat \ {0}, seq : Nat \ {0}, missed : BOOLEAN]

ClientTyped ==
  /\ running \in BOOLEAN
  /\ connected \in BOOLEAN
  /\ orderbooks \in [Markets -> Int]
  /\ sequences \in [Markets -> Nat]
  /\ sids \in [Markets -> Nat]
  /\ subscribedMarkets \in SUBSET Markets
  /\ over \in SUBSET Markets

ReaderTyped ==
  /\ reader \in [pc : {"backoff", "resubscribe", "idle", "apply", "resync",
                       "resyncSubscribe", "clear", "ended"},
                 msg : {NoMessage} \union Messages]
  /\ reader.pc \in {"apply", "resync", "resyncSubscribe"} => reader.msg \in Messages

LoopTyped ==
  /\ loop \in [pc : {"away", "subscribe", "add", "prune", "drop", "read", "invalidate", "close"},
               market : {NoMarket} \union Markets, expired : {NoMarket} \union Markets]
  /\ loop.pc \in {"subscribe", "add"} => loop.market \in Markets
  /\ loop.pc \in {"subscribe", "add"} => loop.market \notin over
  /\ loop.pc = "drop" => loop.expired \in over

NetworkTyped ==
  /\ sock \in {"none", "open", "closed"}
  /\ up \in Seq(Commands)
  /\ down \in Seq(Messages)
  /\ feeds \in [Markets -> Feeds]
  /\ \A m \in Markets : feeds[m].sid <= lastSid
  /\ lastSid \in Nat
  /\ version \in [Markets -> Nat]
  /\ \A m \in Markets : version[m] <= MaxChanges
  /\ connections \in Nat

TypeInv == ClientTyped /\ ReaderTyped /\ LoopTyped /\ NetworkTyped

\* Nothing travels on a closed socket.
SocketInv == sock # "open" => up = << >> /\ down = << >> /\ feeds = [m \in Markets |-> NoFeed]

\* After a connection nothing is left of it, and no message is at hand
\* outside the handlers.
ReaderInv ==
  /\ reader.pc \in {"backoff", "resubscribe", "idle", "clear", "ended"} => reader.msg = NoMessage
  /\ reader.pc \in {"backoff", "ended"} =>
       /\ sock = "none"
       /\ sids = [m \in Markets |-> None]
       /\ \A m \in Markets : orderbooks[m] = NoBook
  /\ reader.pc = "clear" => sock # "open"
  /\ reader.pc \in {"resync", "resyncSubscribe"} => orderbooks[reader.msg.market] = NoBook

ControlInv == SocketInv /\ ReaderInv

-----------------------------------------------------------------------------
(* Why no delta meets a book it does not change. *)

\* A book is a version, and has the sequence number of its last message.
BooksInv ==
  \A m \in Markets :
    \/ orderbooks[m] = NoBook /\ sequences[m] = None
    \/ /\ orderbooks[m] \in 0 .. version[m]
       /\ sequences[m] \in 1 .. orderbooks[m] + 1

\* Neither a message nor a subscription is ahead of the exchange, nor a book
\* ahead of the messages to come, nor a message of a later one.
OrderInv ==
  /\ \A i \in InFlight :
       /\ At(i).seq <= At(i).version + 1
       /\ At(i).version <= version[At(i).market]
       /\ orderbooks[At(i).market] <= At(i).version
  /\ \A i, j \in InFlight :
       i < j /\ At(i).market = At(j).market => At(i).version <= At(j).version
  /\ \A m \in Markets : feeds[m].seq <= version[m] + 1

\* Messages, books and subscriptions that no snapshot separates have one offset.
StreamInv ==
  /\ \A i \in InFlight :
       orderbooks[At(i).market] # NoBook /\ NoSnapshot(At(i).market, -1, i) =>
         Offset(i) = orderbooks[At(i).market] - sequences[At(i).market]
  /\ \A i, j \in InFlight :
       i < j /\ At(i).market = At(j).market /\ NoSnapshot(At(i).market, i, j) =>
         Offset(i) = Offset(j)
  /\ \A i \in InFlight :
       feeds[At(i).market] # NoFeed /\ NoSnapshot(At(i).market, i, Len(down)) =>
         /\ Offset(i) = version[At(i).market] - feeds[At(i).market].seq
         /\ At(i).sid = feeds[At(i).market].sid
  /\ \A m \in Markets :
       feeds[m] # NoFeed /\ orderbooks[m] # NoBook /\ NoSnapshot(m, -1, Len(down)) =>
         orderbooks[m] - sequences[m] = version[m] - feeds[m].seq

BookInv == BooksInv /\ OrderInv /\ StreamInv

-----------------------------------------------------------------------------
(* Why a book the loop may ask for is still fed. *)

\* Subscription ids are used once, and stay with their market.
SidInv ==
  /\ \A m \in Markets : sids[m] <= lastSid
  /\ \A i \in DOMAIN down : down[i].sid <= lastSid
  /\ \A i \in DOMAIN up : up[i].sid <= lastSid
  /\ \A m, n \in Markets :
       m # n /\ feeds[m] # NoFeed => feeds[m].sid # feeds[n].sid /\ feeds[m].sid # sids[n]
  /\ \A i \in DOMAIN down, m \in Markets :
       feeds[m] # NoFeed /\ down[i].sid = feeds[m].sid => down[i].market = m
  /\ \A i \in DOMAIN down : down[i].type = "orderbook_snapshot" =>
       /\ \A m \in Markets : sids[m] # down[i].sid
       /\ \A j \in DOMAIN down : j < i => down[j].sid # down[i].sid

Unsubscribing(sid) == \E i \in DOMAIN up : up[i] = Unsubscribe(sid)
Live(m) == feeds[m] # NoFeed /\ ~ Unsubscribing(feeds[m].sid)

\* A book that is not about to be pruned, and one about to arrive, has a live
\* subscription that nobody is ending.
FedInv ==
  sock = "open" =>
    /\ \A m \in Markets \ over : orderbooks[m] # NoBook => Live(m)
    /\ \A i \in InFlight :
         At(i).type = "orderbook_snapshot" /\ At(i).market \notin over =>
           Live(At(i).market) /\ feeds[At(i).market].sid = At(i).sid

FeedInv == SidInv /\ FedInv

-----------------------------------------------------------------------------
(* Why everything is in step once all is handled. *)

\* Neither pruned nor about to be.
Kept(m) ==
  m \in over => m \in subscribedMarkets /\ ~ (loop.pc = "drop" /\ loop.expired = m)
Tracked(m) == m \in subscribedMarkets \/ (loop.pc = "add" /\ loop.market = m)
Resyncing(m) == reader.pc \in {"resync", "resyncSubscribe"} /\ reader.msg.market = m

\* What m is subscribed to, or will be, outlives all commands sent.
Asked(m) ==
  \E i \in 0 .. Len(up) :
    /\ IF i = 0 THEN feeds[m] # NoFeed ELSE up[i] = Subscribe(m)
    /\ \A j \in i + 1 .. Len(up) : up[j] # Unsubscribe(feeds[m].sid)

\* A tracked market, but between the two sends of a resynchronisation, and
\* before the resubscription.
Due(m) ==
  /\ Tracked(m) /\ Kept(m) /\ ~ Resyncing(m)
  /\ reader.pc = "resubscribe" => m \notin subscribedMarkets

\* Every such market of a live connection has a subscription coming.
AskedInv == connected /\ sock = "open" => \A m \in Markets : Due(m) => Asked(m)

LosingInv == loop.pc \in {"invalidate", "close"} => ~ connected

\* The subscription reported is that of the message at hand.
ReportedInv ==
  reader.pc = "apply" /\ Kept(reader.msg.market) => sids[reader.msg.market] = reader.msg.sid

\* The client has a book, or will get one, or has found a gap and knows which
\* subscription to end.
Begun(m) ==
  \/ orderbooks[m] # NoBook
  \/ \E i \in InFlight : IsSnapshot(i, m)
  \/ reader.pc = "resync" /\ reader.msg.market = m /\ sids[m] = feeds[m].sid

\* Every live subscription has begun.
HeadInv == connected /\ sock = "open" => \A m \in Markets : Live(m) /\ Kept(m) => Begun(m)

\* Unless the last delta was dropped, the last message is the present book.
Complete(m) == feeds[m] # NoFeed /\ ~ feeds[m].missed
LastOf(m, i) == \A j \in InFlight : i < j => At(j).market # m
NewestInv ==
  /\ \A i \in InFlight :
       Complete(At(i).market) /\ LastOf(At(i).market, i) => At(i).version = version[At(i).market]
  /\ \A m \in Markets :
       Complete(m) /\ orderbooks[m] # NoBook /\ LastOf(m, -1) => orderbooks[m] = version[m]

SyncInv == AskedInv /\ LosingInv /\ ReportedInv /\ HeadInv /\ NewestInv

-----------------------------------------------------------------------------
(* Sequences and types. *)

\* SetToSeq lists every element of a set.
LEMMA SetToSeqLists ==
  ASSUME NEW S, IsFiniteSet(S)
  PROVE  /\ Cardinality(S) \in Nat
         /\ SetToSeq(S) \in [1 .. Cardinality(S) -> S]
         /\ \A x \in S : \E i \in 1 .. Cardinality(S) : SetToSeq(S)[i] = x
<1> DEFINE n == Cardinality(S)
<1>1. /\ n \in Nat
      /\ \E f : f \in Bijection(1 .. n, S)
  BY FS_CardinalityType DEF ExistsBijection
<1>2. /\ SetToSeq(S) \in [1 .. n -> S]
      /\ IsInjective(SetToSeq(S))
  BY <1>1 DEF SetToSeq, Bijection, Injection
<1>3. SetToSeq(S) \in Injection(1 .. n, S)
  BY <1>2 DEF Injection
<1>4. Cardinality(1 .. n) = n
  BY <1>1, FS_Interval
<1>5. SetToSeq(S) \in Surjection(1 .. n, S)
  BY <1>3, <1>4, FS_Injection
<1> QED
  BY <1>1, <1>2, <1>5 DEF Surjection

LEMMA SubscribedFinite ==
  ASSUME TypeInv
  PROVE  IsFiniteSet(subscribedMarkets)
BY SocketAssumption, FS_Subset DEF TypeInv, ClientTyped

\* The commands sent after a connection opened.
Resubscriptions ==
  [i \in 1 .. Cardinality(subscribedMarkets) |-> Subscribe(SetToSeq(subscribedMarkets)[i])]

LEMMA ResubscriptionsTyped ==
  ASSUME TypeInv
  PROVE  /\ Resubscriptions \in Seq(Commands)
         /\ Len(Resubscriptions) = Cardinality(subscribedMarkets)
         /\ Cardinality(subscribedMarkets) \in Nat
         /\ \A i \in 1 .. Len(Resubscriptions) :
              \E m \in Markets : Resubscriptions[i] = Subscribe(m)
         /\ \A m \in subscribedMarkets :
              \E i \in 1 .. Len(Resubscriptions) : Resubscriptions[i] = Subscribe(m)
<1> DEFINE n == Cardinality(subscribedMarkets)
           s == SetToSeq(subscribedMarkets)
<1>1. /\ n \in Nat
      /\ s \in [1 .. n -> subscribedMarkets]
      /\ \A x \in subscribedMarkets : \E i \in 1 .. n : s[i] = x
  BY SubscribedFinite, SetToSeqLists
<1>2. subscribedMarkets \subseteq Markets
  BY DEF TypeInv, ClientTyped
<1>3. Resubscriptions = [i \in 1 .. n |-> Subscribe(s[i])]
  BY DEF Resubscriptions
<1> HIDE DEF n, s
<1>4. \A i \in 1 .. n : Subscribe(s[i]) \in Commands /\ s[i] \in Markets
  BY <1>1, <1>2 DEF Commands
<1>5. Resubscriptions \in [1 .. n -> Commands]
  BY <1>3, <1>4
<1>6. Resubscriptions \in Seq(Commands) /\ Len(Resubscriptions) = n
  BY <1>1, <1>5
<1>7. n = Cardinality(subscribedMarkets)
  BY DEF n
<1> QED
  BY <1>1, <1>2, <1>3, <1>4, <1>6, <1>7

\* What sending does to the commands under way.
LEMMA Sent ==
  ASSUME TypeInv, NEW c \in Seq(Commands), Send(c)
  PROVE  /\ up' \in Seq(Commands)
         /\ Len(up') = Len(up) + Len(c)
         /\ Len(up) \in Nat /\ Len(c) \in Nat
         /\ \A i \in 1 .. Len(up) : up'[i] = up[i]
         /\ \A i \in 1 .. Len(c) : up'[Len(up) + i] = c[i]
<1>1. up \in Seq(Commands) /\ up' = up \o c
  BY DEF TypeInv, NetworkTyped, Send
<1> QED
  BY <1>1

LEMMA UnsubscribeTyped ==
  ASSUME TypeInv, NEW m \in Markets
  PROVE  (IF sids[m] = None THEN << >> ELSE <<Unsubscribe(sids[m])>>) \in Seq(Commands)
<1>1. sids[m] \in Nat
  BY DEF TypeInv, ClientTyped
<1>2. CASE sids[m] = None
  BY <1>2
<1>3. CASE sids[m] # None
  <2>1. Unsubscribe(sids[m]) \in Commands
    BY <1>1, <1>3 DEF Commands, None
  <2> QED
    BY <2>1, <1>3
<1> QED
  BY <1>2, <1>3

LEMMA CommandsAre ==
  ASSUME NEW c \in Commands
  PROVE  \/ /\ c.cmd = "subscribe" /\ c.market \in Markets /\ c = Subscribe(c.market)
            /\ c.sid = None
         \/ c.cmd = "unsubscribe" /\ c.sid \in Nat \ {0} /\ c = Unsubscribe(c.sid)
BY DEF Commands, Subscribe, Unsubscribe, None

LEMMA HeadTyped ==
  ASSUME TypeInv
  PROVE  /\ down # << >> =>
              /\ Head(down) = down[1] /\ Head(down) \in Messages
              /\ Tail(down) \in Seq(Messages) /\ Len(Tail(down)) = Len(down) - 1
              /\ \A i \in 1 .. Len(down) - 1 : Tail(down)[i] = down[i + 1]
         /\ up # << >> =>
              /\ Head(up) = up[1] /\ Head(up) \in Commands
              /\ Tail(up) \in Seq(Commands) /\ Len(Tail(up)) = Len(up) - 1
              /\ \A i \in 1 .. Len(up) - 1 : Tail(up)[i] = up[i + 1]
         /\ Len(down) \in Nat /\ Len(up) \in Nat
         /\ down = << >> <=> Len(down) = 0
         /\ up = << >> <=> Len(up) = 0
         /\ \A i \in 1 .. Len(down) : down[i] \in Messages
         /\ \A i \in 1 .. Len(up) : up[i] \in Commands
         /\ DOMAIN down = 1 .. Len(down) /\ DOMAIN up = 1 .. Len(up)
<1>1. up \in Seq(Commands) /\ down \in Seq(Messages)
  BY DEF TypeInv, NetworkTyped
<1> QED
  BY <1>1

LEMMA SpecialBooks ==
  /\ NoBook \in Int /\ NoBook < 0
  /\ Wrong \in Int /\ Wrong < 0
  /\ NoBook # Wrong
BY DEF NoBook, Wrong

\* The sum that bounds the changes bounds those of each market.
LEMMA VersionBelowSum ==
  ASSUME TypeInv, NEW m \in Markets, MapThenSumSet(LAMBDA k : version[k], Markets) < MaxChanges
  PROVE  version[m] < MaxChanges
<1> DEFINE rest == [k \in Markets |-> IF k = m THEN 0 ELSE version[k]]
<1>1. /\ IsFiniteSet(Markets)
      /\ MaxChanges \in Nat
      /\ \A k \in Markets : version[k] \in Nat
      /\ \A k \in Markets : rest[k] \in Nat
      /\ rest[m] = 0
      /\ \A k \in Markets \ {m} : rest[k] = version[k]
  BY SocketAssumption DEF TypeInv, NetworkTyped
<1>2. MapThenSumSet(LAMBDA k : version[k], Markets) = Sum(version, Markets)
  BY SumIsMapThenSumSet
<1> HIDE DEF rest
<1>3. Sum(rest, Markets) = Sum(version, Markets) + rest[m] - version[m]
  BY <1>1, SumChanges
<1>4. Sum(rest, Markets) \in Nat /\ Sum(version, Markets) \in Nat
  BY <1>1, SumIsNat
<1> QED
  BY <1>1, <1>2, <1>3, <1>4

LEMMA InitTyped == Init => TypeInv /\ ControlInv
<1> SUFFICES ASSUME Init PROVE TypeInv /\ ControlInv
  OBVIOUS
<1>1. ClientTyped
  BY SpecialBooks DEF Init, ClientTyped, None
<1>2. ReaderTyped /\ LoopTyped
  BY DEF Init, ReaderTyped, LoopTyped
<1>3. NetworkTyped
  BY SocketAssumption DEF Init, NetworkTyped, Feeds, NoFeed, None
<1>4. ControlInv
  BY DEF Init, ControlInv, SocketInv, ReaderInv
<1> QED
  BY <1>1, <1>2, <1>3, <1>4 DEF TypeInv

\* Each step of the reader keeps the types.
LEMMA ReaderKeepsTypes ==
  ASSUME TypeInv, ControlInv, ReaderStep
  PROVE  TypeInv'
<1> USE DEF TypeInv
<1>1. CASE Connect
  <2>1. feeds = [m \in Markets |-> NoFeed]
    BY <1>1 DEF Connect, ControlInv, ReaderInv, SocketInv
  <2>2. NetworkTyped'
    BY <1>1, <2>1 DEF Connect, NetworkTyped, NoFeed, None
  <2>3. ReaderTyped' /\ LoopTyped' /\ ClientTyped'
    BY <1>1 DEF Connect, ReaderAt, ReaderTyped, LoopTyped, ClientTyped
  <2> QED
    BY <2>2, <2>3
<1>2. CASE ResubscribeAll
  <2>1. NetworkTyped'
    <3>1. CASE Send(Resubscriptions)
      BY <3>1, Sent, ResubscriptionsTyped DEF Send, NetworkTyped
    <3>2. CASE SendRaises
      BY <3>2 DEF SendRaises, network, NetworkTyped
    <3> QED
      BY <1>2, <3>1, <3>2 DEF ResubscribeAll, Resubscriptions
  <2>2. ReaderTyped' /\ LoopTyped' /\ ClientTyped'
    BY <1>2 DEF ResubscribeAll, ReaderDone, ReaderTyped, LoopTyped, ClientTyped, client, books
  <2> QED
    BY <2>1, <2>2
<1>3. CASE Receive
  <2>1. Head(down) \in Messages /\ Tail(down) \in Seq(Messages)
    BY <1>3, HeadTyped DEF Receive
  <2>2. Head(down).market \in Markets /\ Head(down).sid \in Nat
    BY <2>1 DEF Messages
  <2>3. ClientTyped'
    BY <1>3, <2>2 DEF Receive, ClientTyped
  <2>4. ReaderTyped' /\ LoopTyped'
    BY <1>3, <2>1 DEF Receive, ReaderTyped, LoopTyped
  <2>5. NetworkTyped'
    BY <1>3, <2>1 DEF Receive, NetworkTyped
  <2> QED
    BY <2>3, <2>4, <2>5
<1>4. CASE ApplySnapshot \/ ApplyDelta
  <2>1. reader.msg \in Messages
    BY <1>4 DEF ReaderTyped, LoopTyped, ApplySnapshot, ApplyDelta
  <2>2. /\ reader.msg.market \in Markets /\ reader.msg.version \in Nat
        /\ reader.msg.seq \in Nat
    BY <2>1 DEF Messages
  <2>3. \A b : apply_delta(b, reader.msg.version) \in Int
    BY <2>2, SpecialBooks DEF apply_delta
  <2>4. ClientTyped'
    BY <1>4, <2>2, <2>3 DEF ApplySnapshot, ApplyDelta, StoreBook, ClientTyped
  <2>5. ReaderTyped' /\ LoopTyped' /\ NetworkTyped'
    BY <1>4 DEF ApplySnapshot, ApplyDelta, ReaderDone, ReaderTyped, LoopTyped, NetworkTyped, network
  <2> QED
    BY <2>4, <2>5
<1>5. CASE DeltaWithoutBook \/ ReaderEnds \/ OnClose
  <2>1. ClientTyped'
    BY <1>5 DEF DeltaWithoutBook, ReaderEnds, OnClose, ClientTyped, client, books
  <2>2. ReaderTyped'
    BY <1>5 DEF DeltaWithoutBook, ReaderEnds, OnClose, ReaderDone, ReaderAt, ReaderTyped
  <2>3. LoopTyped' /\ NetworkTyped'
    BY <1>5 DEF DeltaWithoutBook, ReaderEnds, OnClose, LoopTyped, NetworkTyped, client, network
  <2> QED
    BY <2>1, <2>2, <2>3
<1>6. CASE SequenceGap
  <2>1. ClientTyped'
    BY <1>6, SpecialBooks DEF SequenceGap, DropBook, ClientTyped, None
  <2>2. ReaderTyped' /\ LoopTyped' /\ NetworkTyped'
    BY <1>6 DEF SequenceGap, ReaderAt, ReaderTyped, LoopTyped, NetworkTyped, network
  <2> QED
    BY <2>1, <2>2
<1>7. CASE ResyncUnsubscribe
  <2>1. reader.msg.market \in Markets
    BY <1>7 DEF ResyncUnsubscribe, ReaderTyped, LoopTyped, Messages
  <2>2. ClientTyped'
    BY <1>7 DEF ResyncUnsubscribe, SendUnsubscribe, ClientTyped, None, books
  <2>3. NetworkTyped'
    BY <1>7, <2>1, Sent, UnsubscribeTyped DEF ResyncUnsubscribe, SendUnsubscribe, Send, NetworkTyped
  <2>4. ReaderTyped' /\ LoopTyped'
    BY <1>7 DEF ResyncUnsubscribe, ReaderAt, ReaderTyped, LoopTyped
  <2> QED
    BY <2>2, <2>3, <2>4
<1>8. CASE ResyncSubscribe
  <2>1. <<Subscribe(reader.msg.market)>> \in Seq(Commands)
    BY <1>8 DEF ResyncSubscribe, ReaderTyped, LoopTyped, Messages, Commands
  <2>2. NetworkTyped'
    BY <1>8, <2>1, Sent DEF ResyncSubscribe, Send, NetworkTyped
  <2>3. ReaderTyped' /\ LoopTyped' /\ ClientTyped'
    BY <1>8 DEF ResyncSubscribe, ReaderDone, ReaderTyped, LoopTyped, ClientTyped, client, books
  <2> QED
    BY <2>2, <2>3
<1>9. CASE ResyncFails
  <2>1. ClientTyped'
    BY <1>9 DEF ResyncFails, SendUnsubscribeRaises, ClientTyped, None, books
  <2>2. ReaderTyped' /\ LoopTyped' /\ NetworkTyped'
    BY <1>9 DEF ResyncFails, SendUnsubscribeRaises, SendRaises, ReaderDone, ReaderTyped, LoopTyped, NetworkTyped, network
  <2> QED
    BY <2>1, <2>2
<1>10. CASE OnCloseClears
  <2>1. ClientTyped'
    BY <1>10, SpecialBooks DEF OnCloseClears, ClearBooks, ClientTyped, None
  <2>2. ReaderTyped' /\ LoopTyped' /\ NetworkTyped'
    BY <1>10 DEF OnCloseClears, ReaderAt, ReaderTyped, LoopTyped, NetworkTyped
  <2> QED
    BY <2>1, <2>2
<1> QED
  BY <1>1, <1>2, <1>3, <1>4, <1>5, <1>6, <1>7, <1>8, <1>9, <1>10 DEF ReaderStep

\* Closing the socket keeps the types of the exchange's end.
LEMMA ClosingTyped ==
  ASSUME TypeInv, SocketCloses
  PROVE  NetworkTyped'
BY DEF TypeInv, SocketCloses, NetworkTyped, Feeds, NoFeed, None

\* So does each step of the trading loop.
LEMMA LoopKeepsTypes ==
  ASSUME TypeInv, LoopStep
  PROVE  TypeInv'
<1> USE DEF TypeInv
<1>1. ASSUME NEW m \in Markets, Ask(m) PROVE TypeInv'
  <2>1. ReaderTyped' /\ LoopTyped'
    BY <1>1 DEF Ask, ReaderTyped, LoopTyped, client
  <2>2. ClientTyped' /\ NetworkTyped'
    BY <1>1 DEF Ask, ClientTyped, NetworkTyped, client, network, books
  <2> QED
    BY <2>1, <2>2
<1>2. ASSUME NEW m \in Markets, PruneStaleMarket(m) PROVE TypeInv'
  <2>1. NetworkTyped'
    <3>1. CASE SendUnsubscribe(m)
      BY <3>1, Sent, UnsubscribeTyped DEF SendUnsubscribe, Send, NetworkTyped
    <3>2. CASE UNCHANGED network
      BY <3>2 DEF NetworkTyped, network
    <3> QED
      BY <1>2, <3>1, <3>2 DEF PruneStaleMarket, SendUnsubscribeRaises, SendRaises
  <2>2. ClientTyped'
    <3>1. sids' = sids \/ sids' = [sids EXCEPT ![m] = None]
      BY <1>2 DEF PruneStaleMarket, SendUnsubscribe, SendUnsubscribeRaises
    <3>2. sids' \in [Markets -> Nat]
      BY <3>1 DEF ClientTyped, None
    <3> QED
      BY <1>2, <3>2 DEF PruneStaleMarket, ClientTyped, books
  <2>3. ReaderTyped' /\ LoopTyped'
    BY <1>2 DEF PruneStaleMarket, ReaderTyped, LoopTyped
  <2> QED
    BY <2>1, <2>2, <2>3
<1>3. CASE SubscribeToMarket
  <2>1. <<Subscribe(loop.market)>> \in Seq(Commands)
    BY <1>3 DEF SubscribeToMarket, ReaderTyped, LoopTyped, Commands
  <2>2. NetworkTyped'
    BY <1>3, <2>1, Sent DEF SubscribeToMarket, Send, NetworkTyped
  <2>3. ReaderTyped' /\ LoopTyped' /\ ClientTyped'
    BY <1>3 DEF SubscribeToMarket, LoopAt, ReaderTyped, LoopTyped, ClientTyped, client, books
  <2> QED
    BY <2>2, <2>3
<1>4. CASE SubscribeFails \/ GetLatestOrderbook \/ FindStale
  <2>1. ClientTyped'
    BY <1>4 DEF SubscribeFails, GetLatestOrderbook, FindStale, ClientTyped, client, books
  <2>2. LoopTyped'
    BY <1>4 DEF SubscribeFails, GetLatestOrderbook, FindStale, LoopAt, LoopDone, LoopTyped, client
  <2>3. ReaderTyped' /\ NetworkTyped'
    BY <1>4 DEF SubscribeFails, GetLatestOrderbook, FindStale, ReaderTyped, NetworkTyped, network
  <2> QED
    BY <2>1, <2>2, <2>3
<1>5. CASE AddSubscribed
  BY <1>5 DEF AddSubscribed, LoopAt, ReaderTyped, LoopTyped, ClientTyped, NetworkTyped, network, books
<1>6. CASE DropPruned
  <2>1. ClientTyped'
    BY <1>6, SpecialBooks DEF DropPruned, DropBook, ClientTyped, None
  <2>2. ReaderTyped' /\ LoopTyped' /\ NetworkTyped'
    BY <1>6 DEF DropPruned, ReaderTyped, LoopTyped, NetworkTyped, network
  <2> QED
    BY <2>1, <2>2
<1>7. CASE Invalidate
  <2>1. ClientTyped'
    BY <1>7, SpecialBooks DEF Invalidate, ClearBooks, ClientTyped, None
  <2>2. ReaderTyped' /\ LoopTyped' /\ NetworkTyped'
    BY <1>7 DEF Invalidate, LoopAt, ReaderTyped, LoopTyped, NetworkTyped, network
  <2> QED
    BY <2>1, <2>2
<1>8. CASE CloseStale \/ Stop
  <2>1. NetworkTyped'
    BY <1>8, ClosingTyped DEF CloseStale, Stop
  <2>2. ClientTyped'
    BY <1>8 DEF CloseStale, Stop, ClientTyped, client, books
  <2>3. ReaderTyped' /\ LoopTyped'
    BY <1>8 DEF CloseStale, Stop, LoopDone, ReaderTyped, LoopTyped, client
  <2> QED
    BY <2>1, <2>2, <2>3
<1> QED
  BY <1>1, <1>2, <1>3, <1>4, <1>5, <1>6, <1>7, <1>8 DEF LoopStep

\* So do the exchange, the network and time.
LEMMA OthersKeepTypes ==
  ASSUME TypeInv, Serve \/ NetworkFails \/ (\E m \in Markets : BookChanges(m) \/ Expire(m))
  PROVE  TypeInv'
<1> USE DEF TypeInv
<1>1. CASE Serve
  <2> DEFINE c == Head(up)
             new == [sid |-> lastSid + 1, seq |-> 1, missed |-> FALSE]
             msg == Message("orderbook_snapshot", c.market, new, version[c.market])
  <2>1. c \in Commands /\ up' \in Seq(Commands)
    BY <1>1, HeadTyped DEF Serve
  <2>2. lastSid \in Nat /\ new \in Feeds /\ new.sid = lastSid + 1
    BY DEF NetworkTyped, Feeds
  <2>3. c.cmd = "subscribe" => c.market \in Markets /\ msg \in Messages
    BY <2>1, <2>2, CommandsAre DEF Message, Messages, NetworkTyped
  <2>4. down \in Seq(Messages) /\ feeds \in [Markets -> Feeds]
    BY DEF NetworkTyped
  <2>5. down' \in Seq(Messages)
    <3> HIDE DEF msg
    <3>1. CASE c.cmd = "subscribe" /\ down' = Append(down, msg)
      BY <3>1, <2>3, <2>4
    <3>2. CASE UNCHANGED down
      BY <3>2, <2>4
    <3> QED
      BY <1>1, <3>1, <3>2 DEF Serve, msg
  <2>6. feeds' \in [Markets -> Feeds] /\ (\A m \in Markets : feeds'[m].sid <= lastSid') /\ lastSid' \in Nat
    <3>1. \A m \in Markets : feeds[m].sid <= lastSid /\ feeds[m].sid \in Nat
      BY <2>4 DEF NetworkTyped, Feeds, NoFeed, None
    <3>2. CASE /\ c.cmd = "subscribe"
               /\ feeds' = [feeds EXCEPT ![c.market] = new]
               /\ lastSid' = new.sid
      BY <3>1, <3>2, <2>2, <2>3, <2>4
    <3>3. CASE UNCHANGED <<feeds, lastSid>>
      BY <3>1, <3>3, <2>2, <2>4
    <3>4. CASE /\ feeds' = [m \in Markets |-> IF feeds[m].sid = c.sid THEN NoFeed ELSE feeds[m]]
               /\ UNCHANGED lastSid
      BY <3>1, <3>4, <2>2, <2>4 DEF Feeds, NoFeed, None
    <3> QED
      BY <1>1, <3>2, <3>3, <3>4 DEF Serve
  <2>7. NetworkTyped'
    BY <1>1, <2>1, <2>5, <2>6 DEF Serve, NetworkTyped
  <2>8. ReaderTyped' /\ LoopTyped' /\ ClientTyped'
    BY <1>1 DEF Serve, ReaderTyped, LoopTyped, ClientTyped, client, books
  <2> QED
    BY <2>7, <2>8
<1>2. CASE NetworkFails
  BY <1>2, ClosingTyped DEF NetworkFails, ReaderTyped, LoopTyped, ClientTyped, client, books
<1>3. ASSUME NEW m \in Markets, BookChanges(m) PROVE TypeInv'
  <2> DEFINE feed == [feeds[m] EXCEPT !.seq = @ + 1]
             msg == Message("orderbook_delta", m, feed, version'[m])
  <2>1. /\ down \in Seq(Messages) /\ feeds \in [Markets -> Feeds] /\ feeds[m].sid <= lastSid
        /\ version \in [Markets -> Nat] /\ \A k \in Markets : version[k] <= MaxChanges
    BY DEF NetworkTyped
  <2>0. MapThenSumSet(LAMBDA k : version[k], Markets) < MaxChanges
    BY <1>3 DEF BookChanges
  <2>2. /\ version' = [version EXCEPT ![m] = @ + 1]
        /\ version'[m] \in Nat
        /\ version[m] < MaxChanges
    <3>1. version[m] < MaxChanges
      BY <2>0, VersionBelowSum
    <3>2. version' = [version EXCEPT ![m] = @ + 1]
      BY <1>3 DEF BookChanges
    <3> QED
      BY <2>1, <3>1, <3>2
  <2>3. \A k \in Markets : version'[k] <= MaxChanges
    BY <2>1, <2>2, SocketAssumption
  <2>4. ASSUME feeds[m] # NoFeed
        PROVE  /\ feed \in Feeds /\ feed.sid = feeds[m].sid
               /\ \A b \in BOOLEAN : [feed EXCEPT !.missed = b] \in Feeds
                                    /\ [feed EXCEPT !.missed = b].sid = feeds[m].sid
               /\ msg \in Messages
    <3>1. feeds[m] \in [sid : Nat \ {0}, seq : Nat \ {0}, missed : BOOLEAN]
      BY <2>1, <2>4 DEF Feeds
    <3>2. feed \in [sid : Nat \ {0}, seq : Nat \ {0}, missed : BOOLEAN] /\ feed.sid = feeds[m].sid
      BY <3>1
    <3> HIDE DEF feed
    <3>3. msg \in Messages
      BY <3>2, <2>2 DEF Messages, Message
    <3> QED
      BY <3>2, <3>3 DEF Feeds
  <2>5. down' \in Seq(Messages)
    <3>0. (feeds[m] # NoFeed /\ down' = Append(down, msg)) \/ UNCHANGED down
      <4>1. CASE feeds[m] = NoFeed /\ UNCHANGED <<feeds, down>>
        BY <4>1
      <4>2. CASE /\ feeds[m] # NoFeed
                 /\ feeds' = [feeds EXCEPT ![m] = [feed EXCEPT !.missed = FALSE]]
                 /\ down' = Append(down, msg)
        BY <4>2
      <4>3. CASE feeds[m] # NoFeed /\ UNCHANGED down
        BY <4>3
      <4> QED
        BY <1>3, <4>1, <4>2, <4>3, Zenon DEF BookChanges
    <3> HIDE DEF msg
    <3>1. CASE feeds[m] # NoFeed /\ down' = Append(down, msg)
      <4>1. msg \in Messages
        BY <3>1, <2>4
      <4> QED
        BY <3>1, <4>1, <2>1
    <3>2. CASE UNCHANGED down
      BY <3>2, <2>1
    <3> QED
      BY <3>0, <3>1, <3>2
  <2>6. feeds' \in [Markets -> Feeds] /\ \A k \in Markets : feeds'[k].sid <= lastSid
    <3>1. \A k \in Markets : feeds[k].sid <= lastSid
      BY DEF NetworkTyped
    <3>2. CASE UNCHANGED feeds
      BY <3>1, <3>2, <2>1
    <3>3. CASE feeds[m] # NoFeed /\ feeds' = [feeds EXCEPT ![m] = [feed EXCEPT !.missed = FALSE]]
      <4> HIDE DEF feed
      <4> QED
        BY <3>1, <3>3, <2>1, <2>4
    <3>4. CASE feeds[m] # NoFeed /\ feeds' = [feeds EXCEPT ![m] = [feed EXCEPT !.missed = TRUE]]
      <4> HIDE DEF feed
      <4> QED
        BY <3>1, <3>4, <2>1, <2>4
    <3>5. \/ UNCHANGED feeds
          \/ feeds[m] # NoFeed /\ feeds' = [feeds EXCEPT ![m] = [feed EXCEPT !.missed = FALSE]]
          \/ feeds[m] # NoFeed /\ feeds' = [feeds EXCEPT ![m] = [feed EXCEPT !.missed = TRUE]]
      BY <1>3, Zenon DEF BookChanges
    <3> HIDE DEF feed
    <3> QED
      BY <3>2, <3>3, <3>4, <3>5, Zenon
  <2>7. NetworkTyped'
    BY <1>3, <2>1, <2>2, <2>3, <2>5, <2>6 DEF BookChanges, NetworkTyped
  <2>8. ReaderTyped' /\ LoopTyped' /\ ClientTyped'
    <3>1. UNCHANGED <<client, reader, loop>>
      BY <1>3, Zenon DEF BookChanges
    <3> QED
      BY <3>1 DEF ReaderTyped, LoopTyped, ClientTyped, client, books
  <2> QED
    BY <2>7, <2>8
<1>4. ASSUME NEW m \in Markets, Expire(m) PROVE TypeInv'
  <2>1. ClientTyped' /\ NetworkTyped'
    BY <1>4 DEF Expire, ClientTyped, NetworkTyped, network, books
  <2>2. ReaderTyped' /\ LoopTyped'
    BY <1>4 DEF Expire, ReaderTyped, LoopTyped
  <2> QED
    BY <2>1, <2>2
<1> QED
  BY <1>1, <1>2, <1>3, <1>4

LEMMA NextTyped ==
  ASSUME TypeInv, ControlInv, [Next]_vars
  PROVE  TypeInv'
<1>1. CASE Next
  BY <1>1, ReaderKeepsTypes, LoopKeepsTypes, OthersKeepTypes DEF Next
<1>2. CASE UNCHANGED vars
  BY <1>2 DEF TypeInv, ClientTyped, ReaderTyped, LoopTyped, NetworkTyped, vars, client, network, books
<1> QED
  BY <1>1, <1>2

\* On a closed socket nothing is sent, and no book changes are reported.
LEMMA NextSocket ==
  ASSUME TypeInv, ControlInv, Next
  PROVE  SocketInv'
<1> USE DEF ControlInv
<1>1. CASE sock' = sock /\ sock # "open" /\ UNCHANGED <<up, down, feeds>>
  BY <1>1 DEF SocketInv
<1>2. CASE sock' = "open"
  BY <1>2 DEF SocketInv
<1>3. CASE SocketCloses
  BY <1>3 DEF SocketCloses, SocketInv
<1>4. CASE OnCloseClears
  BY <1>4 DEF OnCloseClears, SocketInv, ReaderInv
<1>5. ASSUME NEW m \in Markets, BookChanges(m) PROVE SocketInv'
  <2>1. CASE sock = "open"
    BY <1>5, <2>1 DEF BookChanges, SocketInv
  <2>2. CASE sock # "open"
    <3>1. feeds[m] = NoFeed
      BY <2>2 DEF SocketInv
    <3> QED
      BY <1>5, <2>2, <3>1, <1>1 DEF BookChanges
  <2> QED
    BY <2>1, <2>2
<1>6. CASE Serve
  BY <1>6 DEF Serve, SocketInv
<1>7. CASE UNCHANGED network
  BY <1>7 DEF network, SocketInv
<1>8. ASSUME NEW c, Send(c) PROVE SocketInv'
  BY <1>8 DEF Send, SocketInv
<1>9. CASE ReaderStep
  <2>1. CASE Connect
    BY <2>1, <1>2 DEF Connect
  <2>2. CASE ResubscribeAll
    BY <2>2, <1>7, <1>8 DEF ResubscribeAll, SendRaises
  <2>3. CASE Receive
    <3>1. CASE sock = "open"
      BY <2>3, <3>1 DEF Receive, SocketInv
    <3>2. CASE sock # "open"
      BY <2>3, <3>2 DEF Receive, SocketInv
    <3> QED
      BY <3>1, <3>2
  <2>4. CASE ApplySnapshot \/ ApplyDelta \/ DeltaWithoutBook \/ SequenceGap \/ OnClose \/ ReaderEnds
    BY <2>4, <1>7 DEF ApplySnapshot, ApplyDelta, DeltaWithoutBook, SequenceGap, OnClose, ReaderEnds
  <2>5. CASE ResyncUnsubscribe \/ ResyncSubscribe \/ ResyncFails
    BY <2>5, <1>7, <1>8 DEF ResyncUnsubscribe, ResyncSubscribe, ResyncFails, SendUnsubscribe,
       SendUnsubscribeRaises, SendRaises
  <2> QED
    BY <1>9, <1>4, <2>1, <2>2, <2>3, <2>4, <2>5 DEF ReaderStep
<1>10. CASE LoopStep
  BY <1>10, <1>3, <1>7, <1>8 DEF LoopStep, Ask, PruneStaleMarket, SubscribeToMarket, SubscribeFails,
     AddSubscribed, DropPruned, GetLatestOrderbook, FindStale, Invalidate, CloseStale, Stop,
     SendUnsubscribe, SendUnsubscribeRaises, SendRaises
<1> QED
  BY <1>3, <1>5, <1>6, <1>7, <1>9, <1>10 DEF Next, NetworkFails, Expire

LEMMA NextReader ==
  ASSUME TypeInv, ControlInv, Next
  PROVE  ReaderInv'
<1> USE DEF ControlInv
<1>0. orderbooks \in [Markets -> Int] /\ sids \in [Markets -> Nat]
  BY DEF TypeInv, ClientTyped
<1>1. CASE /\ UNCHANGED reader
           /\ sock' = sock \/ (sock = "open" /\ sock' = "closed")
           /\ \A m \in Markets : orderbooks'[m] \in {orderbooks[m], NoBook}
           /\ sids' = sids \/ (\E m \in Markets : sids' = [sids EXCEPT ![m] = None])
  <2>1. reader.pc \in {"backoff", "ended"} =>
          /\ sock' = "none" /\ sids' = [m \in Markets |-> None]
          /\ \A m \in Markets : orderbooks'[m] = NoBook
    BY <1>1, <1>0 DEF ReaderInv
  <2>2. reader.pc \in {"resync", "resyncSubscribe"} => reader.msg.market \in Markets
    BY DEF TypeInv, ReaderTyped, Messages
  <2> QED
    BY <1>1, <2>1, <2>2 DEF ReaderInv
<1>2. CASE ReaderStep
  <2>1. CASE Connect \/ ReaderEnds
    BY <2>1 DEF Connect, ReaderEnds, ReaderAt, ReaderInv, TypeInv, ReaderTyped, client, network, books
  <2>2. CASE ResubscribeAll \/ ApplySnapshot \/ ApplyDelta \/ DeltaWithoutBook \/ ResyncSubscribe \/ ResyncFails
    BY <2>2 DEF ResubscribeAll, ApplySnapshot, ApplyDelta, DeltaWithoutBook, ResyncSubscribe, ResyncFails,
                ReaderDone, ReaderInv
  <2>3. CASE Receive
    BY <2>3 DEF Receive, ReaderInv
  <2>4. CASE SequenceGap
    <3>1. reader.msg.market \in Markets
      BY <2>4 DEF SequenceGap, TypeInv, ReaderTyped, Messages
    <3>2. reader'.pc = "resync" /\ reader'.msg = reader.msg /\ orderbooks'[reader.msg.market] = NoBook
      BY <2>4, <3>1, <1>0 DEF SequenceGap, ReaderAt, DropBook, TypeInv, ReaderTyped
    <3> QED
      BY <3>2 DEF ReaderInv
  <2>5. CASE ResyncUnsubscribe
    <3>1. reader'.pc = "resyncSubscribe" /\ reader'.msg = reader.msg /\ orderbooks' = orderbooks
      BY <2>5 DEF ResyncUnsubscribe, ReaderAt, TypeInv, ReaderTyped, books
    <3> QED
      BY <2>5, <3>1 DEF ReaderInv, ResyncUnsubscribe
  <2>6. CASE OnClose
    <3>1. reader'.pc = "clear" /\ reader'.msg = reader.msg /\ sock' # "open"
      BY <2>6 DEF OnClose, ReaderAt, TypeInv, ReaderTyped, network
    <3> QED
      BY <2>6, <3>1 DEF ReaderInv, OnClose
  <2>7. CASE OnCloseClears
    <3>1. reader'.pc = "backoff" /\ reader'.msg = reader.msg
      BY <2>7 DEF OnCloseClears, ReaderAt, TypeInv, ReaderTyped
    <3> QED
      BY <2>7, <3>1 DEF ReaderInv, OnCloseClears, ClearBooks
  <2> QED
    BY <1>2, <2>1, <2>2, <2>3, <2>4, <2>5, <2>6, <2>7 DEF ReaderStep
<1>3. CASE LoopStep
  <2>1. UNCHANGED reader
    BY <1>3 DEF LoopStep, Ask, PruneStaleMarket, SubscribeToMarket, SubscribeFails,
     AddSubscribed, DropPruned, GetLatestOrderbook, FindStale, Invalidate, CloseStale, Stop
  <2>2. sock' = sock \/ (sock = "open" /\ sock' = "closed")
    BY <1>3 DEF LoopStep, Ask, PruneStaleMarket, SubscribeToMarket, SubscribeFails,
     AddSubscribed, DropPruned, GetLatestOrderbook, FindStale, Invalidate, CloseStale, Stop,
     Send, SendUnsubscribe, SendUnsubscribeRaises, SendRaises, network, SocketCloses
  <2>3. \A m \in Markets : orderbooks'[m] \in {orderbooks[m], NoBook}
    <3>1. CASE Invalidate
      BY <3>1 DEF Invalidate, ClearBooks
    <3>2. CASE DropPruned
      BY <3>2, <1>0 DEF DropPruned, DropBook
    <3>3. CASE UNCHANGED orderbooks
      BY <3>3
    <3> QED
      BY <1>3, <3>1, <3>2, <3>3 DEF LoopStep, Ask, PruneStaleMarket, SubscribeToMarket, SubscribeFails,
       AddSubscribed, GetLatestOrderbook, FindStale, CloseStale, Stop, client, books
  <2>4. sids' = sids \/ (\E m \in Markets : sids' = [sids EXCEPT ![m] = None])
    <3>1. CASE DropPruned
      BY <3>1 DEF DropPruned, TypeInv, LoopTyped, ClientTyped
    <3>2. ASSUME NEW m \in Markets, PruneStaleMarket(m)
          PROVE  sids' = sids \/ sids' = [sids EXCEPT ![m] = None]
      BY <3>2 DEF PruneStaleMarket, SendUnsubscribe, SendUnsubscribeRaises
    <3>3. CASE UNCHANGED sids
      BY <3>3
    <3> QED
      BY <1>3, <3>1, <3>2, <3>3 DEF LoopStep, Ask, SubscribeToMarket, SubscribeFails,
       AddSubscribed, GetLatestOrderbook, FindStale, Invalidate, CloseStale, Stop, client
  <2> QED
    BY <1>1, <2>1, <2>2, <2>3, <2>4
<1>4. CASE Serve \/ NetworkFails \/ \E m \in Markets : BookChanges(m) \/ Expire(m)
  <2>1. UNCHANGED <<reader, orderbooks, sids>>
    BY <1>4 DEF Serve, NetworkFails, BookChanges, Expire, client, books
  <2>2. sock' = sock \/ (sock = "open" /\ sock' = "closed")
    BY <1>4 DEF Serve, NetworkFails, BookChanges, Expire, SocketCloses, network
  <2> QED
    BY <1>1, <2>1, <2>2
<1> QED
  BY <1>2, <1>3, <1>4 DEF Next

LEMMA NextControl ==
  ASSUME TypeInv, ControlInv, [Next]_vars
  PROVE  ControlInv'
<1>1. CASE Next
  BY <1>1, NextSocket, NextReader DEF ControlInv
<1>2. CASE UNCHANGED vars
  BY <1>2 DEF ControlInv, SocketInv, ReaderInv, vars, client, network, books
<1> QED
  BY <1>1, <1>2

-----------------------------------------------------------------------------
(* The stream, step by step. *)

Arrived(m) == orderbooks'[m] = orderbooks[m] /\ sequences'[m] = sequences[m]
Dropped(m) == orderbooks'[m] = NoBook /\ sequences'[m] = None

\* Nothing arrives, books may be dropped and subscriptions ended.
Keeps ==
  /\ UNCHANGED <<version, down>>
  /\ reader' = reader \/ (reader.pc # "apply" /\ reader'.pc # "apply")
  /\ \A m \in Markets : Arrived(m) \/ Dropped(m)
  /\ \A m \in Markets : feeds'[m] \in {feeds[m], NoFeed}

LEMMA StreamTyped ==
  ASSUME TypeInv
  PROVE  /\ Len(down) \in Nat
         /\ InFlight \subseteq 0 .. Len(down)
         /\ 1 .. Len(down) \subseteq InFlight
         /\ 0 \in InFlight <=> reader.pc = "apply"
         /\ \A i \in InFlight : At(i) \in Messages /\ At(i).market \in Markets
                                /\ At(i).seq \in Nat \ {0} /\ At(i).version \in Nat
                                /\ At(i).sid \in Nat \ {0} /\ Offset(i) \in Int
<1>1. /\ Len(down) \in Nat
      /\ \A i \in 1 .. Len(down) : down[i] \in Messages
  BY HeadTyped
<1>2. reader.pc = "apply" => reader.msg \in Messages
  BY DEF TypeInv, ReaderTyped
<1>3. \A i \in InFlight : At(i) \in Messages
  BY <1>1, <1>2 DEF InFlight, At
<1>4. \A i \in InFlight : At(i).market \in Markets /\ At(i).seq \in Nat \ {0} /\ At(i).version \in Nat
                          /\ At(i).sid \in Nat \ {0}
  BY <1>3 DEF Messages
<1> QED
  BY <1>1, <1>3, <1>4 DEF InFlight, Offset

LEMMA KeepsBooks ==
  ASSUME TypeInv, TypeInv', BookInv, Keeps
  PROVE  BookInv'
<1> USE DEF BookInv
<1>1. InFlight' = InFlight /\ Len(down') = Len(down)
  BY DEF Keeps, InFlight
<1>2. \A i \in InFlight : At(i)' = At(i)
  BY DEF Keeps, InFlight, At
<1>3. \A i \in InFlight, m \in Markets : IsSnapshot(i, m)' <=> IsSnapshot(i, m)
  BY <1>2 DEF IsSnapshot
<1>4. \A m \in Markets, i, j \in Int : NoSnapshot(m, i, j)' <=> NoSnapshot(m, i, j)
  BY <1>1, <1>3 DEF NoSnapshot
<1>5. \A i \in InFlight : Offset(i)' = Offset(i)
  BY <1>2 DEF Offset
<1>6. /\ \A m \in Markets : Arrived(m) \/ Dropped(m)
      /\ \A m \in Markets : feeds'[m] \in {feeds[m], NoFeed}
      /\ version' = version
  BY DEF Keeps
<1>7. BooksInv'
  BY <1>6, SpecialBooks DEF BooksInv, Arrived, Dropped
<1>8. OrderInv'
  <2>1. \A m \in Markets : version[m] \in Nat
    BY DEF TypeInv, NetworkTyped
  <2>2. \A i \in InFlight : orderbooks'[At(i).market] <= At(i).version
    BY <1>6, StreamTyped, SpecialBooks DEF OrderInv, Arrived, Dropped
  <2>3. \A m \in Markets : feeds'[m].seq <= version[m] + 1
    BY <1>6, <2>1 DEF OrderInv, NoFeed
  <2> QED
    BY <1>1, <1>2, <1>6, <2>2, <2>3 DEF OrderInv
<1>9. StreamInv'
  <2>1. /\ Len(down) \in Int
        /\ \A i \in InFlight : At(i).market \in Markets /\ i \in Int
    BY StreamTyped
  <2> QED
    BY <1>1, <1>2, <1>4, <1>5, <1>6, <2>1 DEF StreamInv, Arrived, Dropped
<1> QED
  BY <1>7, <1>8, <1>9

\* The socket closes: what the reader has taken stays.
LEMMA ClosingKeepsBooks ==
  ASSUME TypeInv, TypeInv', BookInv, SocketCloses, UNCHANGED <<reader, orderbooks, sequences>>
  PROVE  BookInv'
<1> USE DEF BookInv
<1>1. down' = << >> /\ Len(down') = 0 /\ version' = version /\ reader' = reader
  BY DEF SocketCloses
<1>2. \A i \in InFlight' : i = 0 /\ i \in InFlight /\ At(i)' = At(i) /\ Offset(i)' = Offset(i)
  BY <1>1, StreamTyped DEF InFlight, At, Offset
<1>3. \A m \in Markets : feeds'[m] = NoFeed
  BY DEF SocketCloses
<1>4. BooksInv'
  BY <1>1 DEF BooksInv
<1>5. \A m \in Markets : version[m] \in Nat
  BY DEF TypeInv, NetworkTyped
<1>6. OrderInv'
  BY <1>1, <1>2, <1>3, <1>5, StreamTyped DEF OrderInv, NoFeed
<1>7. \A i \in InFlight' : NoSnapshot(At(i).market, -1, i)' => NoSnapshot(At(i).market, -1, i)
  <2> SUFFICES ASSUME NEW i \in InFlight', NoSnapshot(At(i).market, -1, i)',
                      NEW k \in InFlight, -1 < k, k <= i, IsSnapshot(k, At(i).market)
               PROVE  FALSE
    BY DEF NoSnapshot
  <2>1. k = 0 /\ i = 0
    BY <1>2, StreamTyped
  <2> QED
    BY <1>2, <2>1 DEF NoSnapshot, IsSnapshot
<1>8. StreamInv'
  <2>1. \A i \in InFlight' : At(i).market \in Markets
    BY <1>2, StreamTyped
  <2> QED
    BY <1>1, <1>2, <1>3, <1>7, <2>1 DEF StreamInv
<1> QED
  BY <1>4, <1>6, <1>8

\* The reader takes the next message: all move up by one.
LEMMA ReceiveKeepsBooks ==
  ASSUME TypeInv, TypeInv', BookInv, Receive
  PROVE  BookInv'
<1> USE DEF BookInv
<1>1. /\ InFlight = 1 .. Len(down) /\ InFlight' = 0 .. Len(down) - 1
      /\ Len(down') = Len(down) - 1 /\ Len(down) \in Nat
      /\ UNCHANGED <<orderbooks, sequences, version, feeds>>
  BY HeadTyped DEF Receive, InFlight
<1>2. \A i \in InFlight' : i + 1 \in InFlight /\ At(i)' = At(i + 1)
  <2>1. reader'.msg = down[1] /\ \A i \in 1 .. Len(down) - 1 : down'[i] = down[i + 1]
    BY HeadTyped DEF Receive
  <2> QED
    BY <1>1, <2>1 DEF At
<1>3. \A i \in InFlight' : Offset(i)' = Offset(i + 1)
  BY <1>2 DEF Offset
<1>4. \A m \in Markets, i, j \in Int : NoSnapshot(m, i, j)' => NoSnapshot(m, i + 1, j + 1)
  <2> SUFFICES ASSUME NEW m \in Markets, NEW i \in Int, NEW j \in Int, NoSnapshot(m, i, j)',
                      NEW k \in InFlight, i + 1 < k, k <= j + 1, IsSnapshot(k, m)
               PROVE  FALSE
    BY DEF NoSnapshot
  <2>0. k \in Int
    BY HeadTyped DEF InFlight
  <2>1. k - 1 \in InFlight' /\ i < k - 1 /\ k - 1 <= j /\ (k - 1) + 1 = k
    BY <1>1, <2>0
  <2>2. At(k - 1)' = At((k - 1) + 1)
    BY <1>2, <2>1
  <2>3. IsSnapshot(k - 1, m)'
    BY <2>1, <2>2, Zenon DEF IsSnapshot
  <2> QED
    BY <2>1, <2>3 DEF NoSnapshot
<1>5. \A m \in Markets, j \in Int : NoSnapshot(m, -1, j)' => NoSnapshot(m, -1, j + 1)
  <2>1. \A m \in Markets, j \in Int : NoSnapshot(m, 0, j) => NoSnapshot(m, -1, j)
    BY <1>1 DEF NoSnapshot
  <2> QED
    BY <1>4, <2>1
<1>6. BooksInv'
  BY <1>1 DEF BooksInv
<1>7. OrderInv'
  <2>1. ASSUME NEW i \in InFlight'
        PROVE  /\ At(i)'.seq <= At(i)'.version + 1
               /\ At(i)'.version <= version'[At(i)'.market]
               /\ orderbooks'[At(i)'.market] <= At(i)'.version
    BY <1>1, <1>2 DEF OrderInv
  <2>2. ASSUME NEW i \in InFlight', NEW j \in InFlight', i < j, At(i)'.market = At(j)'.market
        PROVE  At(i)'.version <= At(j)'.version
    <3>1. i + 1 \in InFlight /\ j + 1 \in InFlight /\ i + 1 < j + 1
      BY <1>1, <1>2, <2>2
    <3> QED
      BY <1>2, <2>2, <3>1 DEF OrderInv
  <2>3. \A m \in Markets : feeds'[m].seq <= version'[m] + 1
    BY <1>1 DEF OrderInv
  <2> QED
    BY <2>1, <2>2, <2>3 DEF OrderInv
<1>8. StreamInv'
  <2>1. \A i \in InFlight' : At(i)'.market \in Markets /\ i \in Int /\ i + 1 \in Int
    BY <1>1, <1>2, StreamTyped
  <2>2. ASSUME NEW i \in InFlight', orderbooks'[At(i)'.market] # NoBook, NoSnapshot(At(i).market, -1, i)'
        PROVE  Offset(i)' = orderbooks'[At(i)'.market] - sequences'[At(i)'.market]
    <3>1. NoSnapshot(At(i + 1).market, -1, i + 1)
      BY <1>2, <1>5, <2>1, <2>2
    <3> QED
      BY <1>1, <1>2, <1>3, <2>2, <3>1 DEF StreamInv
  <2>3. ASSUME NEW i \in InFlight', NEW j \in InFlight', i < j, At(i)'.market = At(j)'.market,
               NoSnapshot(At(i).market, i, j)'
        PROVE  Offset(i)' = Offset(j)'
    <3>1. NoSnapshot(At(i + 1).market, i + 1, j + 1)
      BY <1>2, <1>4, <2>1, <2>3
    <3> QED
      BY <1>1, <1>2, <1>3, <2>1, <2>3, <3>1 DEF StreamInv
  <2>4. ASSUME NEW i \in InFlight', feeds'[At(i)'.market] # NoFeed,
               NoSnapshot(At(i).market, i, Len(down))'
        PROVE  /\ Offset(i)' = version'[At(i)'.market] - feeds'[At(i)'.market].seq
               /\ At(i)'.sid = feeds'[At(i)'.market].sid
    <3>1. NoSnapshot(At(i + 1).market, i + 1, Len(down))
      BY <1>1, <1>2, <1>4, <2>1, <2>4
    <3> QED
      BY <1>1, <1>2, <1>3, <2>1, <2>4, <3>1 DEF StreamInv
  <2>5. ASSUME NEW m \in Markets, feeds'[m] # NoFeed, orderbooks'[m] # NoBook,
               NoSnapshot(m, -1, Len(down))'
        PROVE  orderbooks'[m] - sequences'[m] = version'[m] - feeds'[m].seq
    <3>1. NoSnapshot(m, -1, Len(down))
      BY <1>1, <1>5, <2>5
    <3> QED
      BY <1>1, <2>5, <3>1 DEF StreamInv
  <2> QED
    BY <2>2, <2>3, <2>4, <2>5 DEF StreamInv
<1> QED
  BY <1>6, <1>7, <1>8

\* The message in hand is handled.
Consumes ==
  /\ reader.pc = "apply" /\ reader'.pc # "apply"
  /\ UNCHANGED <<version, down, feeds>>
  /\ \A m \in Markets \ {reader.msg.market} : Arrived(m)

LEMMA ConsumedStream ==
  ASSUME TypeInv, Consumes
  PROVE  /\ InFlight = {0} \union InFlight' /\ InFlight' = 1 .. Len(down)
         /\ Len(down) \in Nat /\ Len(down') = Len(down)
         /\ \A i \in InFlight' : At(i)' = At(i) /\ Offset(i)' = Offset(i)
         /\ At(0) = reader.msg
         /\ \A m \in Markets, i, j \in Int : i >= 0 =>
              (NoSnapshot(m, i, j)' <=> NoSnapshot(m, i, j))
         /\ \A m \in Markets, j \in Int : NoSnapshot(m, -1, j)' <=> NoSnapshot(m, 0, j)
         /\ \A m \in Markets, j \in Int : NoSnapshot(m, 0, j) /\ ~ IsSnapshot(0, m) => NoSnapshot(m, -1, j)
<1>1. Len(down) \in Nat
  BY HeadTyped
<1>2. InFlight = {0} \union InFlight' /\ InFlight' = 1 .. Len(down) /\ Len(down') = Len(down)
  BY <1>1 DEF Consumes, InFlight
<1>3. \A i \in InFlight' : At(i)' = At(i)
  BY <1>2 DEF Consumes, At
<1>4. \A i \in InFlight' : Offset(i)' = Offset(i)
  BY <1>3 DEF Offset
<1>5. \A i \in InFlight', m \in Markets : IsSnapshot(i, m)' <=> IsSnapshot(i, m)
  BY <1>3 DEF IsSnapshot
<1>6. At(0) = reader.msg
  BY DEF At
<1> QED
  BY <1>1, <1>2, <1>3, <1>4, <1>5, <1>6 DEF NoSnapshot

\* The message becomes the book, as a snapshot does and a delta in sequence.
Stored ==
  /\ orderbooks'[reader.msg.market] = reader.msg.version
  /\ sequences'[reader.msg.market] = reader.msg.seq

\* Otherwise it finds no book, or takes it away.
LEMMA HandlingKeepsBooks ==
  ASSUME TypeInv, TypeInv', BookInv, Consumes, Stored \/ Dropped(reader.msg.market)
  PROVE  BookInv'
<1> USE DEF BookInv
<1> DEFINE x == reader.msg.market
<1>1. /\ 0 \in InFlight /\ At(0) = reader.msg /\ x \in Markets /\ At(0).market = x
      /\ At(0).version \in Nat /\ At(0).seq \in Nat \ {0}
  BY ConsumedStream, StreamTyped
<1>2. /\ \/ orderbooks'[x] = At(0).version /\ sequences'[x] = At(0).seq
         \/ Dropped(x)
      /\ UNCHANGED <<version, feeds>>
      /\ \A m \in Markets \ {x} : Arrived(m)
  BY <1>1 DEF Consumes, Stored
<1>3. \A m \in Markets : orderbooks[m] \in Int /\ orderbooks'[m] \in Int /\ version[m] \in Nat
  BY DEF TypeInv, ClientTyped, NetworkTyped
<1> HIDE DEF x
<1>4. BooksInv'
  <2>1. \/ orderbooks'[x] \in 0 .. version[x] /\ sequences'[x] \in 1 .. orderbooks'[x] + 1
        \/ Dropped(x)
    BY <1>1, <1>2, <1>3 DEF OrderInv
  <2>2. ASSUME NEW m \in Markets, m # x
        PROVE  orderbooks'[m] = orderbooks[m] /\ sequences'[m] = sequences[m] /\ version'[m] = version[m]
    BY <1>2, <2>2 DEF Arrived
  <2>3. version'[x] = version[x]
    BY <1>2
  <2> QED
    BY <2>1, <2>2, <2>3 DEF BooksInv, Dropped
<1>5. OrderInv'
  <2>1. \A i \in InFlight' : At(i).market = x => At(0).version <= At(i).version
    BY <1>1, ConsumedStream DEF OrderInv
  <2>2. ASSUME NEW i \in InFlight' PROVE orderbooks'[At(i).market] <= At(i).version
    <3>1. i \in InFlight /\ At(i).market \in Markets /\ At(i).version \in Nat
      BY ConsumedStream, StreamTyped
    <3>2. CASE At(i).market = x
      BY <1>1, <1>2, <2>1, <3>1, <3>2, SpecialBooks DEF Dropped
    <3>3. CASE At(i).market # x
      <4>1. orderbooks'[At(i).market] = orderbooks[At(i).market]
        BY <1>2, <3>1, <3>3 DEF Arrived
      <4> QED
        BY <3>1, <4>1 DEF OrderInv
    <3> QED
      BY <3>2, <3>3
  <2> QED
    BY <1>2, <2>2, ConsumedStream DEF OrderInv
<1>6. StreamInv'
  <2>1. orderbooks'[x] # NoBook => Offset(0) = orderbooks'[x] - sequences'[x]
    BY <1>2 DEF Offset, Dropped
  <2>2. ASSUME NEW i \in InFlight', orderbooks'[At(i)'.market] # NoBook, NoSnapshot(At(i).market, -1, i)'
        PROVE  Offset(i)' = orderbooks'[At(i)'.market] - sequences'[At(i)'.market]
    <3>1. At(i)' = At(i) /\ Offset(i)' = Offset(i) /\ i \in InFlight /\ i > 0 /\ At(i).market \in Markets /\ i \in Int
      BY ConsumedStream, StreamTyped
    <3>2. NoSnapshot(At(i).market, 0, i)
      BY <2>2, <3>1, ConsumedStream
    <3>3. CASE At(i).market = x
      BY <1>1, <2>1, <2>2, <3>1, <3>2, <3>3 DEF StreamInv
    <3>4. CASE At(i).market # x
      <4>1. NoSnapshot(At(i).market, -1, i)
        BY <1>1, <3>1, <3>2, <3>4, ConsumedStream DEF IsSnapshot
      <4> QED
        BY <1>2, <2>2, <3>1, <3>4, <4>1 DEF StreamInv, Arrived
    <3> QED
      BY <3>3, <3>4
  <2>3. ASSUME NEW i \in InFlight', NEW j \in InFlight', i < j, At(i)'.market = At(j)'.market,
               NoSnapshot(At(i).market, i, j)'
        PROVE  Offset(i)' = Offset(j)'
    <3>1. /\ At(i)' = At(i) /\ Offset(i)' = Offset(i) /\ i \in InFlight /\ i >= 0 /\ At(i).market \in Markets
          /\ At(j)' = At(j) /\ Offset(j)' = Offset(j) /\ j \in InFlight /\ i \in Int /\ j \in Int
      BY ConsumedStream, StreamTyped
    <3> QED
      BY <2>3, <3>1, ConsumedStream DEF StreamInv
  <2>4. ASSUME NEW i \in InFlight', feeds'[At(i)'.market] # NoFeed,
               NoSnapshot(At(i).market, i, Len(down))'
        PROVE  /\ Offset(i)' = version'[At(i)'.market] - feeds'[At(i)'.market].seq
               /\ At(i)'.sid = feeds'[At(i)'.market].sid
    <3>1. /\ At(i)' = At(i) /\ Offset(i)' = Offset(i) /\ i \in InFlight /\ i >= 0 /\ At(i).market \in Markets
          /\ i \in Int /\ Len(down) \in Int /\ Len(down') = Len(down)
      BY ConsumedStream, StreamTyped
    <3>2. NoSnapshot(At(i).market, i, Len(down))
      BY <2>4, <3>1, ConsumedStream
    <3> QED
      BY <1>2, <2>4, <3>1, <3>2 DEF StreamInv
  <2>5. ASSUME NEW m \in Markets, feeds'[m] # NoFeed, orderbooks'[m] # NoBook,
               NoSnapshot(m, -1, Len(down))'
        PROVE  orderbooks'[m] - sequences'[m] = version'[m] - feeds'[m].seq
    <3>1. Len(down) \in Int /\ Len(down') = Len(down) /\ NoSnapshot(m, 0, Len(down))
      BY <2>5, ConsumedStream
    <3>2. CASE m = x
      BY <1>1, <1>2, <2>1, <2>5, <3>1, <3>2 DEF StreamInv
    <3>3. CASE m # x
      <4>1. NoSnapshot(m, -1, Len(down))
        BY <1>1, <3>1, <3>3, ConsumedStream DEF IsSnapshot
      <4> QED
        BY <1>2, <2>5, <3>3, <4>1 DEF StreamInv, Arrived
    <3> QED
      BY <3>2, <3>3
  <2> QED
    BY <2>2, <2>3, <2>4, <2>5 DEF StreamInv
<1> QED
  BY <1>4, <1>5, <1>6

\* A message enters the stream.
LEMMA AppendedStream ==
  ASSUME TypeInv, NEW msg \in Messages, down' = Append(down, msg), UNCHANGED reader,
         NEW n, n = Len(down) + 1
  PROVE  /\ Len(down) \in Nat /\ Len(down') = n
         /\ InFlight' = InFlight \union {n}
         /\ \A i \in InFlight : At(i)' = At(i) /\ Offset(i)' = Offset(i) /\ i < n /\ i \in Int
         /\ At(n)' = msg /\ Offset(n)' = msg.version - msg.seq
         /\ \A m \in Markets, i, j \in Int : j < n => (NoSnapshot(m, i, j)' <=> NoSnapshot(m, i, j))
         /\ \A m \in Markets, i \in Int : i < n /\ NoSnapshot(m, i, n)' =>
              NoSnapshot(m, i, Len(down)) /\ ~ (msg.type = "orderbook_snapshot" /\ msg.market = m)
<1>1. Len(down) \in Nat /\ down \in Seq(Messages)
  BY HeadTyped DEF TypeInv, NetworkTyped
<1>2. Len(down') = n /\ down'[n] = msg /\ \A i \in 1 .. Len(down) : down'[i] = down[i]
  BY <1>1
<1>3. InFlight' = InFlight \union {n} /\ \A i \in InFlight : i < n /\ i \in Int
  BY <1>1, <1>2 DEF InFlight
<1>4. (\A i \in InFlight : At(i)' = At(i)) /\ At(n)' = msg
  BY <1>1, <1>2 DEF InFlight, At
<1>5. (\A i \in InFlight : Offset(i)' = Offset(i)) /\ Offset(n)' = msg.version - msg.seq
  BY <1>4 DEF Offset
<1>6. /\ \A i \in InFlight, m \in Markets : IsSnapshot(i, m)' <=> IsSnapshot(i, m)
      /\ \A m \in Markets : IsSnapshot(n, m)' <=> msg.type = "orderbook_snapshot" /\ msg.market = m
  BY <1>4 DEF IsSnapshot
<1>7. \A m \in Markets, i, j \in Int : j < n => (NoSnapshot(m, i, j)' <=> NoSnapshot(m, i, j))
  BY <1>1, <1>3, <1>6 DEF NoSnapshot
<1>8. ASSUME NEW m \in Markets, NEW i \in Int, i < n, NoSnapshot(m, i, n)'
      PROVE  NoSnapshot(m, i, Len(down)) /\ ~ (msg.type = "orderbook_snapshot" /\ msg.market = m)
  BY <1>1, <1>3, <1>6, <1>8 DEF NoSnapshot
<1> QED
  BY <1>1, <1>2, <1>3, <1>4, <1>5, <1>7, <1>8

\* A message that ends the stream of its market, and agrees with its subscription.
LEMMA AppendingKeepsBooks ==
  ASSUME TypeInv, TypeInv', BookInv, NEW msg \in Messages, down' = Append(down, msg),
         UNCHANGED <<reader, orderbooks, sequences>>,
         NEW x \in Markets, msg.market = x,
         msg.version = version'[x], msg.seq = feeds'[x].seq, msg.sid = feeds'[x].sid,
         version'[x] >= version[x], feeds'[x].seq <= version'[x] + 1,
         \A m \in Markets \ {x} : version'[m] = version[m] /\ feeds'[m] = feeds[m],
         \/ msg.type = "orderbook_snapshot"
         \/ /\ feeds[x] # NoFeed /\ feeds'[x].sid = feeds[x].sid
            /\ version'[x] - feeds'[x].seq = version[x] - feeds[x].seq
  PROVE  BookInv'
<1> USE DEF BookInv
<1>0. PICK n \in Nat : n = Len(down) + 1
  BY HeadTyped
<1>1. /\ Len(down) \in Nat /\ Len(down') = n /\ Len(down) < n
      /\ InFlight' = InFlight \union {n}
      /\ \A i \in InFlight : At(i)' = At(i) /\ Offset(i)' = Offset(i) /\ i < n /\ i \in Int
      /\ At(n)' = msg /\ Offset(n)' = msg.version - msg.seq /\ n \in Int
      /\ \A m \in Markets, i, j \in Int : j < n => (NoSnapshot(m, i, j)' <=> NoSnapshot(m, i, j))
      /\ \A m \in Markets, i \in Int : i < n /\ NoSnapshot(m, i, n)' =>
           NoSnapshot(m, i, Len(down)) /\ ~ (msg.type = "orderbook_snapshot" /\ msg.market = m)
      /\ \A i \in InFlight : At(i).market \in Markets
  <2>2. /\ Len(down) \in Nat /\ Len(down') = n
        /\ InFlight' = InFlight \union {n}
        /\ \A i \in InFlight : At(i)' = At(i) /\ Offset(i)' = Offset(i) /\ i < n /\ i \in Int
        /\ At(n)' = msg /\ Offset(n)' = msg.version - msg.seq
    BY <1>0, AppendedStream
  <2>3. /\ \A m \in Markets, i, j \in Int : j < n => (NoSnapshot(m, i, j)' <=> NoSnapshot(m, i, j))
        /\ \A m \in Markets, i \in Int : i < n /\ NoSnapshot(m, i, n)' =>
             NoSnapshot(m, i, Len(down)) /\ ~ (msg.type = "orderbook_snapshot" /\ msg.market = m)
    BY <1>0, AppendedStream
  <2>4. \A i \in InFlight : At(i).market \in Markets
    BY StreamTyped
  <2> QED
    BY <1>0, <2>2, <2>3, <2>4
<1>2. \A m \in Markets : /\ version'[m] \in Nat /\ version[m] \in Nat
                         /\ version'[m] >= version[m]
                         /\ orderbooks[m] \in Int /\ sequences[m] \in Int
                         /\ feeds[m].seq \in Nat /\ feeds'[m].seq \in Nat
  <2>1. \A f \in Feeds : f.seq \in Nat
    BY DEF Feeds, NoFeed
  <2>2. feeds \in [Markets -> Feeds] /\ feeds' \in [Markets -> Feeds]
    BY DEF TypeInv, NetworkTyped
  <2>3. version \in [Markets -> Nat] /\ version' \in [Markets -> Nat]
    BY DEF TypeInv, NetworkTyped
  <2>4. orderbooks \in [Markets -> Int] /\ sequences \in [Markets -> Nat]
    BY DEF TypeInv, ClientTyped
  <2>5. \A m \in Markets : version'[m] >= version[m]
    BY <2>3
  <2> QED
    BY <2>1, <2>2, <2>3, <2>4, <2>5
<1>3. msg.version \in Nat /\ msg.seq \in Nat
  BY DEF Messages
<1>4. BooksInv'
  BY <1>2 DEF BooksInv
<1>5. OrderInv'
  <2>1. \A i \in InFlight' :
          /\ At(i)'.seq <= At(i)'.version + 1
          /\ At(i)'.version <= version'[At(i)'.market]
          /\ orderbooks[At(i)'.market] <= At(i)'.version
    <3>1. \A i \in InFlight : At(i).version \in Nat /\ At(i).seq \in Nat /\ At(i).market \in Markets
      BY StreamTyped
    <3>2. orderbooks[x] <= version[x]
      BY <1>2, SpecialBooks DEF BooksInv
    <3>3. ASSUME NEW i \in InFlight
          PROVE  /\ At(i)'.seq <= At(i)'.version + 1
                 /\ At(i)'.version <= version'[At(i)'.market]
                 /\ orderbooks[At(i)'.market] <= At(i)'.version
      <4>1. /\ At(i).seq <= At(i).version + 1
            /\ At(i).version <= version[At(i).market]
            /\ orderbooks[At(i).market] <= At(i).version
        BY DEF OrderInv
      <4>2. At(i)' = At(i)
        BY <1>1
      <4>3. version[At(i).market] <= version'[At(i).market]
        BY <1>2, <3>1
      <4>4. version[At(i).market] \in Nat /\ version'[At(i).market] \in Nat
        BY <1>2, <3>1 DEF TypeInv, NetworkTyped
      <4> QED
        BY <3>1, <4>1, <4>2, <4>3, <4>4
    <3>4. /\ At(n)'.seq <= At(n)'.version + 1
          /\ At(n)'.version <= version'[At(n)'.market]
          /\ orderbooks[At(n)'.market] <= At(n)'.version
      BY <1>1, <1>2, <1>3, <3>2
    <3> QED
      BY <1>1, <3>3, <3>4
  <2>2. ASSUME NEW i \in InFlight', NEW j \in InFlight', i < j, At(i)'.market = At(j)'.market
        PROVE  At(i)'.version <= At(j)'.version
    <3>1. i \in InFlight /\ At(i)' = At(i) /\ At(i).version \in Nat
      BY <1>1, <2>2, StreamTyped
    <3>2. CASE j \in InFlight
      BY <1>1, <2>2, <3>1, <3>2 DEF OrderInv
    <3>3. CASE j = n
      <4>1. At(i).market = x /\ At(j)' = msg
        BY <1>1, <2>2, <3>1, <3>3
      <4> QED
        BY <1>2, <3>1, <4>1 DEF OrderInv
    <3> QED
      BY <1>1, <3>2, <3>3
  <2>3. \A m \in Markets : feeds'[m].seq <= version'[m] + 1
    BY DEF OrderInv
  <2> QED
    BY <2>1, <2>2, <2>3 DEF OrderInv
<1>6. StreamInv'
  <2>1. ASSUME NEW i \in InFlight', orderbooks[At(i)'.market] # NoBook, NoSnapshot(At(i).market, -1, i)'
        PROVE  Offset(i)' = orderbooks[At(i)'.market] - sequences[At(i)'.market]
    <3>1. CASE i \in InFlight
      BY <1>1, <2>1, <3>1 DEF StreamInv
    <3>2. CASE i = n
      <4>1. At(i)' = msg /\ At(i)'.market = x
        BY <1>1, <3>2
      <4>2. NoSnapshot(x, -1, Len(down)) /\ msg.type # "orderbook_snapshot"
        BY <1>1, <2>1, <3>2, <4>1
      <4>3. orderbooks[x] - sequences[x] = version[x] - feeds[x].seq
        BY <2>1, <4>1, <4>2 DEF StreamInv
      <4> QED
        BY <1>1, <3>2, <4>1, <4>2, <4>3
    <3> QED
      BY <1>1, <3>1, <3>2
  <2>2. ASSUME NEW i \in InFlight', NEW j \in InFlight', i < j, At(i)'.market = At(j)'.market,
               NoSnapshot(At(i).market, i, j)'
        PROVE  Offset(i)' = Offset(j)'
    <3>1. i \in InFlight /\ At(i)' = At(i)
      BY <1>1, <2>2
    <3>2. CASE j \in InFlight
      BY <1>1, <2>2, <3>1, <3>2 DEF StreamInv
    <3>3. CASE j = n
      <4>1. At(i).market = x /\ At(j)' = msg
        BY <1>1, <2>2, <3>1, <3>3
      <4>2. NoSnapshot(x, i, Len(down)) /\ msg.type # "orderbook_snapshot"
        BY <1>1, <2>2, <3>1, <3>3, <4>1
      <4>3. Offset(i) = version[x] - feeds[x].seq
        BY <3>1, <4>1, <4>2 DEF StreamInv
      <4> QED
        BY <1>1, <3>1, <3>3, <4>2, <4>3
    <3> QED
      BY <1>1, <3>2, <3>3
  <2>3. ASSUME NEW i \in InFlight', feeds'[At(i)'.market] # NoFeed, NoSnapshot(At(i).market, i, Len(down))'
        PROVE  /\ Offset(i)' = version'[At(i)'.market] - feeds'[At(i)'.market].seq
               /\ At(i)'.sid = feeds'[At(i)'.market].sid
    <3>1. CASE i = n
      BY <1>1, <3>1
    <3>2. CASE i \in InFlight
      <4>1. At(i)' = At(i) /\ NoSnapshot(At(i).market, i, Len(down))
            /\ ~ (msg.type = "orderbook_snapshot" /\ At(i).market = x)
        BY <1>1, <2>3, <3>2
      <4>2. CASE At(i).market = x
        BY <1>1, <3>2, <4>1, <4>2 DEF StreamInv
      <4>3. CASE At(i).market # x
        BY <1>1, <2>3, <3>2, <4>1, <4>3 DEF StreamInv
      <4> QED
        BY <4>2, <4>3
    <3> QED
      BY <1>1, <3>1, <3>2
  <2>4. ASSUME NEW m \in Markets, feeds'[m] # NoFeed, orderbooks[m] # NoBook, NoSnapshot(m, -1, Len(down))'
        PROVE  orderbooks[m] - sequences[m] = version'[m] - feeds'[m].seq
    <3>1. NoSnapshot(m, -1, Len(down)) /\ ~ (msg.type = "orderbook_snapshot" /\ m = x)
      BY <1>1, <2>4
    <3>2. CASE m = x
      BY <2>4, <3>1, <3>2 DEF StreamInv
    <3>3. CASE m # x
      BY <2>4, <3>1, <3>3 DEF StreamInv
    <3> QED
      BY <3>2, <3>3
  <2> QED
    BY <2>1, <2>2, <2>3, <2>4 DEF StreamInv
<1> QED
  BY <1>4, <1>5, <1>6

\* A change that is not told moves the subscription on.
LEMMA MissingKeepsBooks ==
  ASSUME TypeInv, TypeInv', BookInv,
         UNCHANGED <<reader, down, orderbooks, sequences>>,
         NEW x \in Markets,
         version'[x] >= version[x], feeds'[x].seq <= version'[x] + 1,
         \A m \in Markets \ {x} : version'[m] = version[m] /\ feeds'[m] = feeds[m],
         \/ feeds'[x] = NoFeed
         \/ /\ feeds[x] # NoFeed /\ feeds'[x].sid = feeds[x].sid
            /\ version'[x] - feeds'[x].seq = version[x] - feeds[x].seq
  PROVE  BookInv'
<1> USE DEF BookInv
<1>1. InFlight' = InFlight /\ Len(down') = Len(down)
  BY DEF InFlight
<1>2. \A i \in InFlight : At(i)' = At(i)
  BY DEF InFlight, At
<1>3. \A i \in InFlight, m \in Markets : IsSnapshot(i, m)' <=> IsSnapshot(i, m)
  BY <1>2 DEF IsSnapshot
<1>4. \A m \in Markets, i, j \in Int : NoSnapshot(m, i, j)' <=> NoSnapshot(m, i, j)
  BY <1>1, <1>3 DEF NoSnapshot
<1>5. \A i \in InFlight : Offset(i)' = Offset(i)
  BY <1>2 DEF Offset
<1>6. \A m \in Markets : version'[m] \in Nat /\ version[m] \in Nat /\ version'[m] >= version[m]
  <2>1. version \in [Markets -> Nat] /\ version' \in [Markets -> Nat]
    BY DEF TypeInv, NetworkTyped
  <2> QED
    BY <2>1
<1>7. BooksInv'
  BY <1>6 DEF BooksInv
<1>8. OrderInv'
  <2>1. \A i \in InFlight : At(i).version \in Nat /\ At(i).market \in Markets
    BY StreamTyped
  <2>2. \A i \in InFlight : At(i).version <= version'[At(i).market]
    BY <1>6, <2>1 DEF OrderInv
  <2> QED
    BY <1>1, <1>2, <2>2 DEF OrderInv
<1>9. StreamInv'
  <2>1. /\ Len(down) \in Int
        /\ \A i \in InFlight : At(i).market \in Markets /\ i \in Int
    BY StreamTyped
  <2>2. \A m \in Markets : feeds'[m] # NoFeed =>
          /\ feeds[m] # NoFeed /\ feeds'[m].sid = feeds[m].sid
          /\ version'[m] - feeds'[m].seq = version[m] - feeds[m].seq
    OBVIOUS
  <2> QED
    BY <1>1, <1>2, <1>4, <1>5, <2>1, <2>2 DEF StreamInv
<1> QED
  BY <1>7, <1>8, <1>9

LEMMA InitBooks == Init => BookInv
<1> SUFFICES ASSUME Init PROVE BookInv
  OBVIOUS
<1>1. InFlight = {}
  BY DEF Init, InFlight
<1>2. \A m \in Markets : /\ orderbooks[m] = NoBook /\ sequences[m] = None
                         /\ feeds[m] = NoFeed /\ version[m] = 0
  BY DEF Init
<1> QED
  BY <1>1, <1>2 DEF BookInv, BooksInv, OrderInv, StreamInv, NoFeed

\* A delta the reader applies is the change that leads from the book to the next.
LEMMA DeltaFits ==
  ASSUME TypeInv, BookInv, ApplyDelta
  PROVE  /\ reader.msg.version = orderbooks[reader.msg.market] + 1
         /\ orderbooks'[reader.msg.market] = reader.msg.version
<1> DEFINE x == reader.msg.market
<1>1. /\ 0 \in InFlight /\ At(0) = reader.msg /\ x \in Markets
      /\ reader.msg.version \in Nat /\ reader.msg.seq \in Nat
  BY StreamTyped DEF ApplyDelta, At
<1>2. NoSnapshot(x, -1, 0)
  <2>1. \A k \in InFlight : -1 < k /\ k <= 0 => k = 0
    BY StreamTyped
  <2>2. ~ IsSnapshot(0, x)
    BY <1>1 DEF ApplyDelta, IsSnapshot
  <2> QED
    BY <2>1, <2>2 DEF NoSnapshot
<1>3. orderbooks[x] # NoBook /\ orderbooks[x] \in Int /\ sequences[x] \in Nat \ {0}
  BY <1>1 DEF ApplyDelta, BookInv, BooksInv, TypeInv, ClientTyped, NetworkTyped
<1>4. Offset(0) = orderbooks[x] - sequences[x]
  BY <1>1, <1>2, <1>3 DEF BookInv, StreamInv
<1>5. reader.msg.seq = sequences[x] + 1
  BY <1>3 DEF ApplyDelta, InSequence, None
<1>6. reader.msg.version = orderbooks[x] + 1
  BY <1>1, <1>3, <1>4, <1>5 DEF Offset
<1>7. orderbooks'[x] = apply_delta(orderbooks[x], reader.msg.version)
  BY <1>1 DEF ApplyDelta, StoreBook, TypeInv, ClientTyped
<1> QED
  BY <1>6, <1>7 DEF apply_delta

\* What each action of the reader is to the stream.
LEMMA ReaderKeeps ==
  ASSUME TypeInv, \/ Connect \/ ResubscribeAll \/ ResyncUnsubscribe \/ ResyncSubscribe \/ ResyncFails
                  \/ OnClose \/ OnCloseClears \/ ReaderEnds
  PROVE  Keeps
<1>1. reader.pc # "apply" /\ reader'.pc # "apply"
  BY DEF Connect, ResubscribeAll, ResyncUnsubscribe, ResyncSubscribe, ResyncFails, OnClose, OnCloseClears,
         ReaderEnds, ReaderAt, ReaderDone, TypeInv, ReaderTyped
<1>2. UNCHANGED <<version, down, feeds>>
  BY DEF Connect, ResubscribeAll, ResyncUnsubscribe, ResyncSubscribe, ResyncFails, OnClose, OnCloseClears,
         ReaderEnds, Send, SendRaises, SendUnsubscribe, SendUnsubscribeRaises, network
<1>3. \A m \in Markets : Arrived(m) \/ Dropped(m)
  <2>1. CASE OnCloseClears
    BY <2>1 DEF OnCloseClears, ClearBooks, Dropped
  <2>2. CASE UNCHANGED books
    BY <2>2 DEF books, Arrived
  <2> QED
    BY <2>1, <2>2 DEF Connect, ResubscribeAll, ResyncUnsubscribe, ResyncSubscribe, ResyncFails, OnClose,
       ReaderEnds, client, books
<1> QED
  BY <1>1, <1>2, <1>3 DEF Keeps

LEMMA LoopKeeps ==
  ASSUME TypeInv, LoopStep
  PROVE  \/ Keeps
         \/ SocketCloses /\ UNCHANGED <<reader, orderbooks, sequences>>
<1>1. CASE CloseStale \/ Stop
  BY <1>1 DEF CloseStale, Stop, client, books
<1>2. CASE DropPruned
  <2>1. UNCHANGED <<version, down, feeds, reader>>
    BY <1>2 DEF DropPruned, network
  <2>2. loop.expired \in Markets
    BY <1>2 DEF DropPruned, TypeInv, LoopTyped, ClientTyped
  <2>3. \A m \in Markets : Arrived(m) \/ Dropped(m)
    BY <1>2, <2>2 DEF DropPruned, DropBook, Arrived, Dropped, TypeInv, ClientTyped
  <2> QED
    BY <2>1, <2>3 DEF Keeps
<1>3. CASE Invalidate
  BY <1>3 DEF Invalidate, ClearBooks, network, Keeps, Dropped
<1>4. CASE \/ \E m \in Markets : Ask(m) \/ PruneStaleMarket(m)
           \/ SubscribeToMarket \/ SubscribeFails \/ AddSubscribed \/ GetLatestOrderbook \/ FindStale
  <2>1. UNCHANGED <<reader, orderbooks, sequences, version, down, feeds>>
    BY <1>4 DEF Ask, PruneStaleMarket, SubscribeToMarket, SubscribeFails, AddSubscribed,
       GetLatestOrderbook, FindStale, Send, SendUnsubscribe, SendUnsubscribeRaises, SendRaises,
       client, books, network
  <2> QED
    BY <2>1 DEF Keeps, Arrived
<1> QED
  BY <1>1, <1>2, <1>3, <1>4 DEF LoopStep

LEMMA HandlesMessage ==
  ASSUME TypeInv, BookInv, ApplySnapshot \/ ApplyDelta \/ DeltaWithoutBook \/ SequenceGap
  PROVE  Consumes /\ (Stored \/ Dropped(reader.msg.market))
<1> DEFINE x == reader.msg.market
<1>1. reader.pc = "apply" /\ x \in Markets
  BY DEF ApplySnapshot, ApplyDelta, DeltaWithoutBook, SequenceGap, TypeInv, ReaderTyped, Messages
<1>2. reader'.pc # "apply"
  BY DEF ApplySnapshot, ApplyDelta, DeltaWithoutBook, SequenceGap, ReaderDone, ReaderAt, TypeInv, ReaderTyped
<1>3. UNCHANGED <<version, down, feeds>>
  BY DEF ApplySnapshot, ApplyDelta, DeltaWithoutBook, SequenceGap, network
<1>4. orderbooks \in [Markets -> Int] /\ sequences \in [Markets -> Nat]
  BY DEF TypeInv, ClientTyped
<1>5. \A m \in Markets \ {x} : Arrived(m)
  BY <1>1, <1>4 DEF ApplySnapshot, ApplyDelta, DeltaWithoutBook, SequenceGap, StoreBook, DropBook, Arrived,
                    client, books
<1>6. CASE ApplySnapshot \/ ApplyDelta
  <2>1. sequences'[x] = reader.msg.seq
    BY <1>1, <1>4, <1>6 DEF ApplySnapshot, ApplyDelta, StoreBook
  <2>2. orderbooks'[x] = reader.msg.version
    <3>1. CASE ApplySnapshot
      BY <1>1, <1>4, <3>1 DEF ApplySnapshot, StoreBook
    <3>2. CASE ApplyDelta
      BY <3>2, DeltaFits
    <3> QED
      BY <1>6, <3>1, <3>2
  <2> QED
    BY <1>1, <1>2, <1>3, <1>5, <2>1, <2>2 DEF Consumes, Stored
<1>7. CASE DeltaWithoutBook
  <2>1. orderbooks[x] = NoBook /\ sequences[x] = None
    <3>1. orderbooks[x] = NoBook /\ version[x] \in Nat
      BY <1>1, <1>7 DEF DeltaWithoutBook, TypeInv, NetworkTyped
    <3> QED
      BY <1>1, <3>1, SpecialBooks DEF BookInv, BooksInv
  <2>2. Dropped(x)
    BY <1>7, <2>1 DEF DeltaWithoutBook, client, books, Dropped
  <2> QED
    BY <1>1, <1>2, <1>3, <1>5, <2>2 DEF Consumes
<1>8. CASE SequenceGap
  <2>1. Dropped(x)
    BY <1>1, <1>4, <1>8 DEF SequenceGap, DropBook, Dropped
  <2> QED
    BY <1>1, <1>2, <1>3, <1>5, <2>1 DEF Consumes
<1> QED
  BY <1>6, <1>7, <1>8

\* The message a subscription begins with.
First(m) == [type |-> "orderbook_snapshot", market |-> m, sid |-> lastSid + 1, seq |-> 1, version |-> version[m]]
Fresh == [sid |-> lastSid + 1, seq |-> 1, missed |-> FALSE]

LEMMA Served ==
  ASSUME TypeInv, Serve
  PROVE  \/ \E m \in Markets :
              /\ Head(up) = Subscribe(m)
              /\ feeds[m] = NoFeed
              /\ feeds' = [feeds EXCEPT ![m] = Fresh]
              /\ lastSid' = lastSid + 1
              /\ First(m) \in Messages
              /\ down' = Append(down, First(m))
         \/ /\ \E m \in Markets : Head(up) = Subscribe(m) /\ feeds[m] # NoFeed
            /\ UNCHANGED <<feeds, lastSid, down>>
         \/ \E s \in Nat \ {0} :
              /\ Head(up) = Unsubscribe(s)
              /\ feeds' = [m \in Markets |-> IF feeds[m].sid = s THEN NoFeed ELSE feeds[m]]
              /\ UNCHANGED <<lastSid, down>>
<1> DEFINE c == Head(up)
<1>1. c \in Commands
  BY HeadTyped DEF Serve
<1>2. \/ /\ c.cmd = "subscribe"
         /\ feeds[c.market] = NoFeed
         /\ feeds' = [feeds EXCEPT ![c.market] = Fresh]
         /\ lastSid' = lastSid + 1
         /\ down' = Append(down, First(c.market))
      \/ c.cmd = "subscribe" /\ feeds[c.market] # NoFeed /\ UNCHANGED <<feeds, lastSid, down>>
      \/ /\ c.cmd = "unsubscribe"
         /\ feeds' = [m \in Markets |-> IF feeds[m].sid = c.sid THEN NoFeed ELSE feeds[m]]
         /\ UNCHANGED <<lastSid, down>>
  BY DEF Serve, Message, First, Fresh
<1>3. \A m \in Markets : First(m) \in Messages
  BY DEF First, Messages, TypeInv, NetworkTyped
<1> HIDE DEF c
<1>4. CASE c.cmd = "subscribe"
  <2>1. c.market \in Markets /\ c = Subscribe(c.market)
    BY <1>1, <1>4, CommandsAre
  <2> QED
    BY <1>2, <1>3, <1>4, <2>1 DEF c
<1>5. CASE c.cmd = "unsubscribe"
  <2>1. c.sid \in Nat \ {0} /\ c = Unsubscribe(c.sid)
    BY <1>1, <1>5, CommandsAre
  <2> QED
    BY <1>2, <1>5, <2>1 DEF c
<1> QED
  BY <1>2, <1>4, <1>5

LEMMA ServingKeepsBooks ==
  ASSUME TypeInv, TypeInv', BookInv, Serve
  PROVE  BookInv'
<1>1. UNCHANGED <<reader, orderbooks, sequences, version>>
  BY DEF Serve, client, books
<1>2. feeds \in [Markets -> Feeds] /\ version \in [Markets -> Nat] /\ lastSid \in Nat
  BY DEF TypeInv, NetworkTyped
<1>3. ASSUME NEW m \in Markets,
             feeds' = [feeds EXCEPT ![m] = Fresh],
             First(m) \in Messages,
             down' = Append(down, First(m))
      PROVE  BookInv'
  <2>1. PICK msg \in Messages : msg = First(m)
    BY <1>3
  <2>2. /\ msg.market = m /\ msg.version = version[m] /\ msg.seq = 1 /\ msg.sid = lastSid + 1
        /\ msg.type = "orderbook_snapshot"
    BY <2>1 DEF First
  <2>3. feeds'[m].seq = 1 /\ feeds'[m].sid = lastSid + 1
    BY <1>2, <1>3 DEF Fresh
  <2>4. \A k \in Markets \ {m} : feeds'[k] = feeds[k]
    BY <1>2, <1>3
  <2>5. down' = Append(down, msg)
    BY <1>3, <2>1
  <2> QED
    BY <1>1, <1>2, <2>2, <2>3, <2>4, <2>5, AppendingKeepsBooks
<1>4. CASE UNCHANGED down /\ \A m \in Markets : feeds'[m] \in {feeds[m], NoFeed}
  BY <1>1, <1>4, KeepsBooks DEF Keeps, Arrived
<1> QED
  BY <1>3, <1>4, Served

\* What a change of the exchange's book is to the stream.
Told(m) == [type |-> "orderbook_delta", market |-> m, sid |-> feeds[m].sid,
            seq |-> feeds[m].seq + 1, version |-> version[m] + 1]

LEMMA Changed ==
  ASSUME TypeInv, NEW m \in Markets, BookChanges(m)
  PROVE  /\ UNCHANGED <<client, reader, loop, sock, up, lastSid, connections>>
         /\ version' = [version EXCEPT ![m] = version[m] + 1]
         /\ \/ feeds[m] = NoFeed /\ UNCHANGED <<feeds, down>>
            \/ /\ feeds[m] # NoFeed
               /\ feeds' = [feeds EXCEPT ![m] = [sid |-> feeds[m].sid, seq |-> feeds[m].seq + 1, missed |-> FALSE]]
               /\ Told(m) \in Messages
               /\ down' = Append(down, Told(m))
            \/ /\ feeds[m] # NoFeed
               /\ feeds' = [feeds EXCEPT ![m] = [sid |-> feeds[m].sid, seq |-> feeds[m].seq + 1, missed |-> TRUE]]
               /\ UNCHANGED down
<1>1. /\ feeds \in [Markets -> Feeds] /\ version \in [Markets -> Nat]
      /\ version' = [version EXCEPT ![m] = version[m] + 1]
      /\ version'[m] = version[m] + 1
      /\ UNCHANGED <<client, reader, loop, sock, up, lastSid, connections>>
  BY DEF BookChanges, TypeInv, NetworkTyped
<1>2. CASE feeds[m] = NoFeed
  BY <1>1, <1>2 DEF BookChanges
<1>3. CASE feeds[m] # NoFeed
  <2> DEFINE feed == [feeds[m] EXCEPT !.seq = @ + 1]
  <2>1. feeds[m] \in [sid : Nat \ {0}, seq : Nat \ {0}, missed : BOOLEAN]
    BY <1>1, <1>3 DEF Feeds
  <2>2. \A b \in BOOLEAN : [feed EXCEPT !.missed = b] = [sid |-> feeds[m].sid, seq |-> feeds[m].seq + 1, missed |-> b]
    <3>1. feed \in [sid : Nat \ {0}, seq : Nat \ {0}, missed : BOOLEAN]
          /\ feed.sid = feeds[m].sid /\ feed.seq = feeds[m].seq + 1
      BY <2>1
    <3> HIDE DEF feed
    <3> QED
      BY <3>1
  <2>3. Message("orderbook_delta", m, feed, version'[m]) = Told(m) /\ Told(m) \in Messages
    BY <1>1, <2>1 DEF Message, Told, Messages
  <2>4. \/ /\ feeds' = [feeds EXCEPT ![m] = [feed EXCEPT !.missed = FALSE]]
           /\ down' = Append(down, Message("orderbook_delta", m, feed, version'[m]))
        \/ feeds' = [feeds EXCEPT ![m] = [feed EXCEPT !.missed = TRUE]] /\ UNCHANGED down
    BY <1>3 DEF BookChanges
  <2> HIDE DEF feed
  <2> QED
    BY <1>1, <1>3, <2>2, <2>3, <2>4
<1> QED
  BY <1>2, <1>3

LEMMA ChangingKeepsBooks ==
  ASSUME TypeInv, TypeInv', BookInv, NEW m \in Markets, BookChanges(m)
  PROVE  BookInv'
<1>1. /\ UNCHANGED <<reader, orderbooks, sequences>>
      /\ version' = [version EXCEPT ![m] = version[m] + 1]
  BY Changed DEF client, books
<1>2. /\ feeds \in [Markets -> Feeds] /\ version \in [Markets -> Nat] /\ version'[m] = version[m] + 1
      /\ \A k \in Markets \ {m} : version'[k] = version[k]
  BY <1>1 DEF TypeInv, NetworkTyped
<1>3. feeds[m].seq \in Nat /\ feeds[m].seq <= version[m] + 1
  BY <1>2 DEF Feeds, NoFeed, BookInv, OrderInv
<1>4. CASE feeds[m] = NoFeed /\ UNCHANGED <<feeds, down>>
  <2>1. feeds'[m].seq <= version'[m] + 1
    BY <1>2, <1>3, <1>4
  <2> QED
    BY <1>1, <1>2, <1>4, <2>1, MissingKeepsBooks
<1>5. ASSUME feeds[m] # NoFeed, NEW b \in BOOLEAN,
             feeds' = [feeds EXCEPT ![m] = [sid |-> feeds[m].sid, seq |-> feeds[m].seq + 1, missed |-> b]]
      PROVE  /\ feeds'[m].sid = feeds[m].sid /\ feeds'[m].seq = feeds[m].seq + 1
             /\ feeds'[m].seq <= version'[m] + 1
             /\ version'[m] - feeds'[m].seq = version[m] - feeds[m].seq
             /\ version'[m] >= version[m]
             /\ \A k \in Markets \ {m} : feeds'[k] = feeds[k]
  BY <1>2, <1>3, <1>5
<1>6. CASE /\ feeds[m] # NoFeed
           /\ feeds' = [feeds EXCEPT ![m] = [sid |-> feeds[m].sid, seq |-> feeds[m].seq + 1, missed |-> TRUE]]
           /\ UNCHANGED down
  BY <1>1, <1>2, <1>5, <1>6, MissingKeepsBooks
<1>7. CASE /\ feeds[m] # NoFeed
           /\ feeds' = [feeds EXCEPT ![m] = [sid |-> feeds[m].sid, seq |-> feeds[m].seq + 1, missed |-> FALSE]]
           /\ Told(m) \in Messages
           /\ down' = Append(down, Told(m))
  <2>1. PICK msg \in Messages : msg = Told(m)
    BY <1>7
  <2>2. /\ msg.market = m /\ msg.version = version[m] + 1 /\ msg.seq = feeds[m].seq + 1 /\ msg.sid = feeds[m].sid
    BY <2>1 DEF Told
  <2>3. down' = Append(down, msg)
    BY <1>7, <2>1
  <2> QED
    BY <1>1, <1>2, <1>5, <1>7, <2>2, <2>3, AppendingKeepsBooks
<1> QED
  BY <1>4, <1>6, <1>7, Changed

LEMMA NextBooks ==
  ASSUME TypeInv, TypeInv', BookInv, [Next]_vars
  PROVE  BookInv'
<1>1. CASE ReaderStep
  <2>1. CASE Receive
    BY <2>1, ReceiveKeepsBooks
  <2>2. CASE ApplySnapshot \/ ApplyDelta \/ DeltaWithoutBook \/ SequenceGap
    BY <2>2, HandlesMessage, HandlingKeepsBooks
  <2> QED
    BY <1>1, <2>1, <2>2, ReaderKeeps, KeepsBooks DEF ReaderStep
<1>2. CASE LoopStep
  BY <1>2, LoopKeeps, KeepsBooks, ClosingKeepsBooks
<1>3. CASE NetworkFails
  BY <1>3, ClosingKeepsBooks DEF NetworkFails, client, books
<1>4. ASSUME NEW m \in Markets, Expire(m) PROVE BookInv'
  BY <1>4, KeepsBooks DEF Expire, Keeps, Arrived, network, books
<1>5. CASE UNCHANGED vars
  BY <1>5, KeepsBooks DEF vars, client, network, books, Keeps, Arrived
<1> QED
  BY <1>1, <1>2, <1>3, <1>4, <1>5, ServingKeepsBooks, ChangingKeepsBooks DEF Next

-----------------------------------------------------------------------------
(* The abstract feed. *)

\* Books are only forgotten, whatever else happens.
LEMMA Forgetting ==
  ASSUME TypeInv, TypeInv', UNCHANGED version, \A m \in Markets : orderbooks'[m] \in {orderbooks[m], NoBook}
  PROVE  [Feed!Next]_Feed!vars
<1> DEFINE S == {m \in Markets : orderbooks'[m] = NoBook}
<1>1. orderbooks \in [Markets -> Int] /\ orderbooks' \in [Markets -> Int]
  BY DEF TypeInv, ClientTyped
<1>2. orderbooks' = [m \in Markets |-> IF m \in S THEN NoBook ELSE orderbooks[m]]
  BY <1>1
<1>3. S \in SUBSET Markets
  OBVIOUS
<1> HIDE DEF S
<1> QED
  BY <1>2, <1>3 DEF Feed!Next, Feed!Forget

LEMMA FeedStep ==
  ASSUME TypeInv, TypeInv', BookInv, [Next]_vars
  PROVE  [Feed!Next]_Feed!vars
<1>1. orderbooks \in [Markets -> Int] /\ version \in [Markets -> Nat]
  BY DEF TypeInv, ClientTyped, NetworkTyped
<1>2. CASE Keeps
  BY <1>2, Forgetting DEF Keeps, Arrived, Dropped
<1>3. CASE UNCHANGED <<version, orderbooks>>
  BY <1>3 DEF Feed!vars
<1>4. CASE SocketCloses /\ UNCHANGED orderbooks
  BY <1>3, <1>4 DEF SocketCloses
<1>5. CASE ApplySnapshot
  <2> DEFINE x == reader.msg.market
             v == reader.msg.version
  <2>1. 0 \in InFlight /\ At(0) = reader.msg /\ x \in Markets /\ v \in Nat
    BY <1>5, StreamTyped DEF ApplySnapshot, At
  <2>2. v \in 0 .. version[x] /\ v >= orderbooks[x]
    BY <1>1, <2>1 DEF BookInv, OrderInv
  <2>3. orderbooks' = [orderbooks EXCEPT ![x] = v] /\ UNCHANGED version
    BY <1>5 DEF ApplySnapshot, StoreBook, network
  <2> HIDE DEF x, v
  <2>4. Feed!Snapshot(x)
    BY <2>2, <2>3 DEF Feed!Snapshot
  <2> QED
    BY <2>1, <2>4 DEF Feed!Next, x
<1>6. CASE ApplyDelta
  <2> DEFINE x == reader.msg.market
  <2>1. 0 \in InFlight /\ At(0) = reader.msg /\ x \in Markets
    BY <1>6, StreamTyped DEF ApplyDelta, At
  <2>2. orderbooks[x] + 1 <= version[x] /\ orderbooks[x] # NoBook
    BY <1>1, <1>6, <2>1, DeltaFits DEF BookInv, OrderInv, ApplyDelta
  <2>3. orderbooks' = [orderbooks EXCEPT ![x] = orderbooks[x] + 1] /\ UNCHANGED version
    BY <1>6, DeltaFits DEF ApplyDelta, StoreBook, network, apply_delta
  <2>4. Feed!Advance(x)
    BY <1>1, <2>1, <2>2, <2>3 DEF Feed!Advance
  <2> QED
    BY <2>1, <2>4 DEF Feed!Next
<1>7. ASSUME NEW m \in Markets, BookChanges(m) PROVE [Feed!Next]_Feed!vars
  <2>1. Feed!Change(m)
    BY <1>7, Changed DEF Feed!Change, client, books
  <2> QED
    BY <2>1 DEF Feed!Next
<1>8. CASE Receive \/ DeltaWithoutBook \/ Serve
  BY <1>3, <1>8 DEF Receive, DeltaWithoutBook, Serve, client, books, network
<1>9. CASE SequenceGap
  <2>1. UNCHANGED version /\ \A m \in Markets : orderbooks'[m] \in {orderbooks[m], NoBook}
    BY <1>1, <1>9 DEF SequenceGap, DropBook, network
  <2> QED
    BY <2>1, Forgetting
<1>10. CASE ReaderStep
  BY <1>2, <1>5, <1>6, <1>8, <1>9, <1>10, ReaderKeeps DEF ReaderStep
<1>11. CASE LoopStep
  BY <1>2, <1>4, <1>11, LoopKeeps
<1>12. CASE NetworkFails
  BY <1>4, <1>12 DEF NetworkFails, client, books
<1>13. ASSUME NEW m \in Markets, Expire(m) PROVE [Feed!Next]_Feed!vars
  BY <1>3, <1>13 DEF Expire, books, network
<1>14. CASE UNCHANGED vars
  BY <1>3, <1>14 DEF vars, client, books, network
<1> QED
  BY <1>7, <1>8, <1>10, <1>11, <1>12, <1>13, <1>14 DEF Next

-----------------------------------------------------------------------------
(* The theorems about books. *)

LEMMA BookInvHolds == Spec => [](TypeInv /\ ControlInv /\ BookInv)
<1>1. Init => TypeInv /\ ControlInv /\ BookInv
  BY InitTyped, InitBooks
<1>2. TypeInv /\ ControlInv /\ BookInv /\ [Next]_vars => (TypeInv /\ ControlInv /\ BookInv)'
  BY NextTyped, NextControl, NextBooks
<1> QED
  BY <1>1, <1>2, PTL DEF Spec

\* Every shared field of the streaming client holds what its readers expect,
\* for any number of markets, changes and connections (websocket_client.py:75-120).
THEOREM TypeCorrect == Spec => []TypeOK
<1>1. ASSUME TypeInv, BookInv PROVE TypeOK
  <2>1. orderbooks \in [Markets -> Book] /\ sequences \in [Markets -> Numbers(MaxChanges + 1)]
    <3>1. ASSUME NEW m \in Markets
          PROVE  orderbooks[m] \in Book /\ sequences[m] \in Numbers(MaxChanges + 1)
      <4>1. /\ orderbooks[m] \in Int /\ sequences[m] \in Nat
            /\ version[m] \in Nat /\ version[m] <= MaxChanges /\ MaxChanges \in Nat
        BY <1>1, SocketAssumption DEF TypeInv, ClientTyped, NetworkTyped
      <4> QED
        BY <1>1, <4>1 DEF BookInv, BooksInv, Book, Numbers, None
    <3> QED
      BY <1>1, <3>1 DEF TypeInv, ClientTyped
  <2>2. \A m \in Markets : feeds[m].sid \in Numbers(lastSid)
    <3>1. \A f \in Feeds : f.sid \in Nat
      BY DEF Feeds, NoFeed, None
    <3> QED
      BY <1>1, <3>1 DEF TypeInv, NetworkTyped, Numbers
  <2>3. /\ running \in BOOLEAN /\ connected \in BOOLEAN
        /\ sids \in [Markets -> Nat]
        /\ subscribedMarkets \subseteq Markets /\ over \subseteq Markets
    BY <1>1 DEF TypeInv, ClientTyped
  <2>4. /\ reader.pc \in {"backoff", "resubscribe", "idle", "apply", "resync",
                          "resyncSubscribe", "clear", "ended"}
        /\ loop.pc \in {"away", "subscribe", "add", "prune", "drop", "read", "invalidate", "close"}
        /\ sock \in {"none", "open", "closed"}
    BY <1>1 DEF TypeInv, ReaderTyped, LoopTyped, NetworkTyped
  <2> QED
    BY <2>1, <2>2, <2>3, <2>4 DEF TypeOK
<1> QED
  BY BookInvHolds, <1>1, PTL

\* No book the client hands out is one the exchange never had: no delta ever
\* meets a book other than the one it changes, whatever is dropped,
\* resynchronised, pruned or left over from a connection (websocket_client.py:296-326).
THEOREM BooksAreGenuine == Spec => []BooksGenuine
<1>1. ASSUME TypeInv, BookInv PROVE BooksGenuine
  <2>1. \A m \in Markets : version[m] \in Nat /\ orderbooks[m] \in Int
    BY <1>1 DEF TypeInv, NetworkTyped, ClientTyped
  <2> QED
    BY <1>1, <2>1, SpecialBooks DEF BookInv, BooksInv, BooksGenuine
<1> QED
  BY BookInvHolds, <1>1, PTL

\* Reader thread, trading loop, exchange and network together are an
\* OrderbookFeed: what get_latest_orderbook returns is a book the exchange had,
\* moves on change by change or to a later snapshot, or goes away
\* (websocket_client.py:457-490).
THEOREM FeedImplemented == Spec => ImplementsFeed
<1>1. Init => Feed!Init
  BY DEF Init, Feed!Init
<1>2. TypeInv /\ TypeInv' /\ BookInv /\ [Next]_vars => [Feed!Next]_Feed!vars
  BY FeedStep
<1> QED
  BY BookInvHolds, <1>1, <1>2, PTL DEF Spec, ImplementsFeed, Feed!Spec

-----------------------------------------------------------------------------
(* Subscription ids. *)

LEMMA CommandsDiffer ==
  /\ \A a, b : Unsubscribe(a) = Unsubscribe(b) => a = b
  /\ \A m, a : Subscribe(m) # Unsubscribe(a)
  /\ \A m, n : Subscribe(m) = Subscribe(n) => m = n
  /\ \A m : Subscribe(m).sid = None
  /\ \A a : Unsubscribe(a).sid = a
<1>1. \A a : Unsubscribe(a).sid = a /\ Unsubscribe(a).cmd = "unsubscribe"
  BY DEF Unsubscribe
<1>2. \A m : Subscribe(m).sid = None /\ Subscribe(m).cmd = "subscribe" /\ Subscribe(m).market = m
  BY DEF Subscribe
<1> QED
  BY <1>1, <1>2

LEMMA FeedsTyped ==
  ASSUME TypeInv
  PROVE  /\ feeds \in [Markets -> Feeds]
         /\ lastSid \in Nat
         /\ NoFeed.sid = None
         /\ \A m \in Markets : /\ feeds[m].sid \in Nat /\ sids[m] \in Nat /\ feeds[m].sid <= lastSid
                               /\ feeds[m] # NoFeed => feeds[m].sid # None /\ feeds[m].missed \in BOOLEAN
<1>1. \A f \in Feeds : f.sid \in Nat /\ (f # NoFeed => f.sid # None /\ f.missed \in BOOLEAN)
  BY DEF Feeds, NoFeed, None
<1> QED
  BY <1>1 DEF TypeInv, NetworkTyped, ClientTyped, NoFeed

LEMMA DownTyped ==
  ASSUME TypeInv
  PROVE  /\ DOMAIN down = 1 .. Len(down) /\ Len(down) \in Nat
         /\ DOMAIN up = 1 .. Len(up) /\ Len(up) \in Nat
         /\ \A i \in DOMAIN down : down[i].sid \in Nat \ {0} /\ down[i].market \in Markets
         /\ \A i \in DOMAIN up : up[i].sid \in Nat
<1>1. \A msg \in Messages : msg.sid \in Nat \ {0} /\ msg.market \in Markets
  BY DEF Messages
<1>2. \A c \in Commands : c.sid \in Nat
  BY CommandsAre DEF None
<1> QED
  BY <1>1, <1>2, HeadTyped

\* No new id: those known may be forgotten, subscriptions and messages lost.
SidsFade ==
  /\ lastSid' = lastSid
  /\ \A m \in Markets : sids'[m] \in {sids[m], None}
  /\ \A m \in Markets : feeds'[m] \in {feeds[m], NoFeed}
  /\ down' = down \/ down' = << >>

LEMMA FadingKeepsSids ==
  ASSUME TypeInv, TypeInv', SidInv, SidsFade, \A i \in DOMAIN up' : up'[i].sid <= lastSid
  PROVE  SidInv'
<1>1. \A m \in Markets : /\ feeds[m].sid \in Nat /\ sids[m] \in Nat /\ feeds'[m].sid \in Nat
                         /\ feeds[m] # NoFeed => feeds[m].sid # None
                         /\ feeds'[m] # NoFeed => feeds'[m].sid # None /\ feeds[m] # NoFeed /\ feeds'[m] = feeds[m]
                         /\ feeds'[m] = NoFeed => feeds'[m].sid = None
                         /\ sids'[m] \in {sids[m], None}
                         /\ feeds'[m] \in {feeds[m], NoFeed}
  <2>1. \A m \in Markets : sids'[m] \in {sids[m], None} /\ feeds'[m] \in {feeds[m], NoFeed}
    BY DEF SidsFade
  <2>2. \A m \in Markets : /\ feeds[m].sid \in Nat /\ sids[m] \in Nat
                           /\ feeds[m] # NoFeed => feeds[m].sid # None
    BY FeedsTyped
  <2>3. NoFeed.sid = None /\ None \in Nat
    BY DEF NoFeed, None
  <2> QED
    BY <2>1, <2>2, <2>3
<1>2. /\ \A i \in DOMAIN down' : i \in DOMAIN down /\ down'[i] = down[i]
      /\ lastSid' = lastSid /\ lastSid \in Nat
  <2>1. down' = << >> => DOMAIN down' = {}
    OBVIOUS
  <2> QED
    BY <2>1, FeedsTyped DEF SidsFade
<1>3. \A i \in DOMAIN down : down[i].sid \in Nat \ {0}
  BY DownTyped
<1>4. \A m \in Markets : sids'[m] <= lastSid'
  BY <1>1, <1>2 DEF SidInv, None
<1>5. \A m, n \in Markets :
        m # n /\ feeds'[m] # NoFeed => feeds'[m].sid # feeds'[n].sid /\ feeds'[m].sid # sids'[n]
  BY <1>1 DEF SidInv
<1>6. \A i \in DOMAIN down', m \in Markets :
        feeds'[m] # NoFeed /\ down'[i].sid = feeds'[m].sid => down'[i].market = m
  BY <1>1, <1>2 DEF SidInv
<1>7. \A i \in DOMAIN down' : down'[i].type = "orderbook_snapshot" =>
        /\ \A m \in Markets : sids'[m] # down'[i].sid
        /\ \A j \in DOMAIN down' : j < i => down'[j].sid # down'[i].sid
  BY <1>1, <1>2, <1>3 DEF SidInv, None
<1>8. \A i \in DOMAIN down' : down'[i].sid <= lastSid'
  BY <1>2 DEF SidInv
<1> QED
  BY <1>2, <1>4, <1>5, <1>6, <1>7, <1>8 DEF SidInv

\* Commands sent name known ids.
LEMMA SendingKeepsSids ==
  ASSUME TypeInv, SidInv, NEW c \in Seq(Commands), Send(c), \A i \in 1 .. Len(c) : c[i].sid <= lastSid
  PROVE  \A i \in DOMAIN up' : up'[i].sid <= lastSid
<1>1. /\ Len(up') = Len(up) + Len(c) /\ Len(up) \in Nat /\ Len(c) \in Nat
      /\ \A i \in 1 .. Len(up) : up'[i] = up[i]
      /\ \A i \in 1 .. Len(c) : up'[Len(up) + i] = c[i]
      /\ DOMAIN up' = 1 .. Len(up')
  BY Sent
<1>2. ASSUME NEW i \in DOMAIN up' PROVE up'[i].sid <= lastSid
  <2>1. CASE i <= Len(up)
    BY <1>1, <2>1, DownTyped DEF SidInv
  <2>2. CASE i > Len(up)
    <3>1. i - Len(up) \in 1 .. Len(c) /\ i = Len(up) + (i - Len(up))
      BY <1>1, <1>2, <2>2
    <3> QED
      BY <1>1, <3>1
  <2> QED
    BY <1>1, <2>1, <2>2
<1> QED
  BY <1>2

LEMMA SubscribingKeepsSids ==
  ASSUME TypeInv, SidInv, NEW m \in Markets, Send(<<Subscribe(m)>>)
  PROVE  \A i \in DOMAIN up' : up'[i].sid <= lastSid
<1>1. /\ <<Subscribe(m)>> \in Seq(Commands) /\ Len(<<Subscribe(m)>>) = 1
      /\ \A i \in 1 .. 1 : <<Subscribe(m)>>[i].sid = None
  BY CommandsDiffer DEF Commands
<1>2. None <= lastSid
  BY FeedsTyped DEF None
<1> QED
  BY <1>1, <1>2, SendingKeepsSids

LEMMA UnsubscribingKeepsSids ==
  ASSUME TypeInv, SidInv, NEW m \in Markets, SendUnsubscribe(m)
  PROVE  /\ \A i \in DOMAIN up' : up'[i].sid <= lastSid
         /\ \A k \in Markets : sids'[k] \in {sids[k], None}
<1> DEFINE c == IF sids[m] = None THEN << >> ELSE <<Unsubscribe(sids[m])>>
<1>1. c \in Seq(Commands)
  BY UnsubscribeTyped
<1>2. sids[m] <= lastSid
  BY DEF SidInv
<1>3. \A i \in 1 .. Len(c) : c[i].sid <= lastSid
  <2>1. CASE sids[m] = None
    BY <2>1
  <2>2. CASE sids[m] # None
    <3>1. c = <<Unsubscribe(sids[m])>> /\ Len(c) = 1 /\ c[1] = Unsubscribe(sids[m])
      BY <2>2
    <3> QED
      BY <1>2, <3>1, CommandsDiffer
  <2> QED
    BY <2>1, <2>2
<1>4. Send(c)
  BY DEF SendUnsubscribe
<1> HIDE DEF c
<1>5. \A k \in Markets : sids'[k] \in {sids[k], None}
  BY DEF SendUnsubscribe, TypeInv, ClientTyped
<1> QED
  BY <1>1, <1>3, <1>4, <1>5, SendingKeepsSids

LEMMA NextSids ==
  ASSUME TypeInv, TypeInv', ControlInv, SidInv, [Next]_vars
  PROVE  SidInv'
<1> DEFINE UpKnown == \A i \in DOMAIN up' : up'[i].sid <= lastSid
<1>1. CASE UNCHANGED <<lastSid, sids, feeds, down, up>>
  BY <1>1, FadingKeepsSids DEF SidsFade, SidInv
<1>2. CASE SocketCloses /\ UNCHANGED sids
  <2>1. DOMAIN up' = {}
    BY <1>2 DEF SocketCloses
  <2> QED
    BY <1>2, <2>1, FadingKeepsSids DEF SidsFade, SocketCloses
<1>3. CASE UpKnown /\ UNCHANGED <<lastSid, feeds, down>> /\ \A k \in Markets : sids'[k] \in {sids[k], None}
  BY <1>3, FadingKeepsSids DEF SidsFade
<1>4. CASE Connect
  <2>1. /\ \A m \in Markets : sids'[m] = None /\ feeds'[m] = NoFeed
        /\ DOMAIN up' = {} /\ DOMAIN down' = {} /\ lastSid' = 0
    <3>1. /\ sids = [m \in Markets |-> None] /\ feeds = [m \in Markets |-> NoFeed]
          /\ up = << >> /\ down = << >>
      BY <1>4 DEF Connect, ControlInv, ReaderInv, SocketInv
    <3> QED
      BY <1>4, <3>1 DEF Connect
  <2> QED
    BY <2>1 DEF SidInv, None
<1>5. CASE ResubscribeAll
  <2>1. CASE Send(Resubscriptions)
    <3>1. None <= lastSid
      BY FeedsTyped DEF None
    <3>2. /\ Resubscriptions \in Seq(Commands)
          /\ \A i \in 1 .. Len(Resubscriptions) : Resubscriptions[i].sid <= lastSid
      BY <3>1, ResubscriptionsTyped, CommandsDiffer
    <3>3. UpKnown
      BY <2>1, <3>2, SendingKeepsSids
    <3> QED
      BY <1>5, <1>3, <2>1, <3>3 DEF ResubscribeAll, Send, client
  <2>2. CASE SendRaises
    BY <1>1, <1>5, <2>2 DEF ResubscribeAll, SendRaises, client, network
  <2> QED
    BY <1>5, <2>1, <2>2 DEF ResubscribeAll, Resubscriptions
<1>6. CASE Receive
  <2> DEFINE x == Head(down).market
  <2>1. /\ Head(down) = down[1] /\ 1 \in DOMAIN down /\ x \in Markets
        /\ DOMAIN down' = 1 .. Len(down) - 1 /\ DOMAIN down = 1 .. Len(down) /\ Len(down) \in Nat
        /\ \A i \in DOMAIN down' : i + 1 \in DOMAIN down /\ down'[i] = down[i + 1]
    <3>1. down # << >> /\ down' = Tail(down) /\ down \in Seq(Messages)
      BY <1>6 DEF Receive, TypeInv, NetworkTyped
    <3>2. /\ Head(down) = down[1] /\ DOMAIN down = 1 .. Len(down) /\ Len(down) \in Nat
          /\ Len(down) > 0
      BY <3>1
    <3>3. down[1].market \in Markets
      BY <3>2, DownTyped
    <3>4. /\ DOMAIN down' = 1 .. Len(down) - 1
          /\ \A i \in 1 .. Len(down) - 1 : down'[i] = down[i + 1]
      BY <3>1
    <3> QED
      BY <3>2, <3>3, <3>4
  <2>2. /\ sids' = [sids EXCEPT ![x] = down[1].sid] /\ sids \in [Markets -> Nat]
        /\ UNCHANGED <<lastSid, feeds, up>>
    BY <1>6, <2>1 DEF Receive, TypeInv, ClientTyped
  <2> HIDE DEF x
  <2>3. x = down[1].market
    BY <2>1 DEF x
  <2>4. \A m \in Markets : sids'[m] <= lastSid
    BY <2>1, <2>2 DEF SidInv
  <2>5. \A m, n \in Markets :
          m # n /\ feeds[m] # NoFeed => feeds[m].sid # feeds[n].sid /\ feeds[m].sid # sids'[n]
    BY <2>1, <2>2, <2>3 DEF SidInv
  <2>6. \A i \in DOMAIN down' : down'[i].type = "orderbook_snapshot" =>
          /\ \A m \in Markets : sids'[m] # down'[i].sid
          /\ \A j \in DOMAIN down' : j < i => down'[j].sid # down'[i].sid
    <3> SUFFICES ASSUME NEW i \in DOMAIN down', down'[i].type = "orderbook_snapshot"
                 PROVE  /\ \A m \in Markets : sids'[m] # down'[i].sid
                        /\ \A j \in DOMAIN down' : j < i => down'[j].sid # down'[i].sid
      OBVIOUS
    <3>1. i + 1 \in DOMAIN down /\ down'[i] = down[i + 1] /\ 1 < i + 1 /\ i \in Nat
      BY <2>1
    <3>2. /\ \A m \in Markets : sids[m] # down[i + 1].sid
          /\ \A j \in DOMAIN down : j < i + 1 => down[j].sid # down[i + 1].sid
      BY <3>1 DEF SidInv
    <3> QED
      BY <2>1, <2>2, <3>1, <3>2
  <2>7. \A i \in DOMAIN down' : down'[i].sid <= lastSid
    BY <2>1 DEF SidInv
  <2>8. \A i \in DOMAIN down', m \in Markets :
          feeds[m] # NoFeed /\ down'[i].sid = feeds[m].sid => down'[i].market = m
    BY <2>1 DEF SidInv
  <2> QED
    BY <2>2, <2>4, <2>5, <2>6, <2>7, <2>8 DEF SidInv
<1>7. CASE ResyncUnsubscribe
  <2>1. reader.msg.market \in Markets
    BY <1>7 DEF ResyncUnsubscribe, TypeInv, ReaderTyped, Messages
  <2> QED
    BY <1>3, <1>7, <2>1, UnsubscribingKeepsSids DEF ResyncUnsubscribe, SendUnsubscribe, Send
<1>8. CASE ResyncSubscribe
  <2>1. reader.msg.market \in Markets
    BY <1>8 DEF ResyncSubscribe, TypeInv, ReaderTyped, Messages
  <2> QED
    BY <1>3, <1>8, <2>1, SubscribingKeepsSids DEF ResyncSubscribe, Send, client
<1>9. CASE ResyncFails \/ OnCloseClears
  <2>1. UNCHANGED <<lastSid, feeds, down, up>>
    BY <1>9 DEF ResyncFails, OnCloseClears, SendUnsubscribeRaises, SendRaises, network
  <2>2. \A k \in Markets : sids'[k] \in {sids[k], None}
    BY <1>9 DEF ResyncFails, OnCloseClears, SendUnsubscribeRaises, TypeInv, ClientTyped
  <2> QED
    BY <1>3, <2>1, <2>2 DEF SidInv
<1>10. CASE ReaderStep
  BY <1>1, <1>4, <1>5, <1>6, <1>7, <1>8, <1>9, <1>10 DEF ReaderStep, ApplySnapshot, ApplyDelta,
     DeltaWithoutBook, SequenceGap, OnClose, ReaderEnds, client, network
<1>11. ASSUME NEW m \in Markets, PruneStaleMarket(m) PROVE SidInv'
  <2>1. CASE SendUnsubscribe(m)
    BY <1>3, <2>1, UnsubscribingKeepsSids DEF SendUnsubscribe, Send
  <2>2. CASE UNCHANGED network /\ \A k \in Markets : sids'[k] \in {sids[k], None}
    BY <1>3, <2>2 DEF network, SidInv
  <2>3. CASE SendUnsubscribeRaises(m)
    BY <2>2, <2>3 DEF SendUnsubscribeRaises, SendRaises, TypeInv, ClientTyped
  <2> QED
    BY <1>11, <2>1, <2>2, <2>3 DEF PruneStaleMarket
<1>12. CASE SubscribeToMarket
  <2>1. loop.market \in Markets
    BY <1>12 DEF SubscribeToMarket, TypeInv, LoopTyped
  <2> QED
    BY <1>3, <1>12, <2>1, SubscribingKeepsSids DEF SubscribeToMarket, Send, client
<1>13. CASE DropPruned
  <2>1. \A k \in Markets : sids'[k] \in {sids[k], None}
    BY <1>13 DEF DropPruned, TypeInv, ClientTyped
  <2> QED
    BY <1>3, <1>13, <2>1 DEF DropPruned, network, SidInv
<1>14. CASE LoopStep
  BY <1>1, <1>2, <1>11, <1>12, <1>13, <1>14 DEF LoopStep, Ask, SubscribeFails, AddSubscribed,
     GetLatestOrderbook, FindStale, Invalidate, CloseStale, Stop, client, network
<1>15. CASE Serve
  <2>1. /\ DOMAIN up' = 1 .. Len(up) - 1 /\ DOMAIN up = 1 .. Len(up) /\ Len(up) \in Nat
        /\ \A i \in DOMAIN up' : up'[i] = up[i + 1]
    <3>1. up # << >> /\ up' = Tail(up)
      BY <1>15 DEF Serve
    <3> QED
      BY <3>1, HeadTyped
  <2>2. UpKnown
    BY <2>1 DEF SidInv
  <2>3. UNCHANGED sids
    BY <1>15 DEF Serve, client
  <2>4. CASE UNCHANGED <<lastSid, down>> /\ \A k \in Markets : feeds'[k] \in {feeds[k], NoFeed}
    BY <2>2, <2>3, <2>4, FadingKeepsSids DEF SidsFade
  <2>5. ASSUME NEW m \in Markets, feeds[m] = NoFeed, feeds' = [feeds EXCEPT ![m] = Fresh],
               lastSid' = lastSid + 1, First(m) \in Messages, down' = Append(down, First(m))
        PROVE  SidInv'
    <3>1. /\ feeds'[m].sid = lastSid + 1 /\ \A k \in Markets \ {m} : feeds'[k] = feeds[k]
          /\ lastSid \in Nat
          /\ \A k \in Markets : feeds[k].sid \in Nat /\ feeds[k].sid <= lastSid /\ sids[k] \in Nat
      BY <2>5, FeedsTyped DEF Fresh
    <3>2. PICK n \in Nat : n = Len(down) + 1
      BY DownTyped
    <3>3. /\ DOMAIN down' = DOMAIN down \union {n} /\ n \notin DOMAIN down
          /\ \A i \in DOMAIN down : i < n /\ down'[i] = down[i]
          /\ down'[n].sid = lastSid + 1 /\ down'[n].market = m
      <4>1. down \in Seq(Messages)
        BY DEF TypeInv, NetworkTyped
      <4>2. down'[n] = First(m) /\ DOMAIN down' = 1 .. n /\ \A i \in 1 .. Len(down) : down'[i] = down[i]
        BY <2>5, <3>2, <4>1
      <4> QED
        BY <3>2, <4>2, DownTyped DEF First
    <3>4. \A i \in DOMAIN down : down[i].sid \in Nat /\ down[i].sid <= lastSid
      BY DownTyped DEF SidInv
    <3>5. \A k \in Markets : sids[k] <= lastSid
      BY DEF SidInv
    <3>6. \A a, b \in Markets :
            a # b /\ feeds'[a] # NoFeed => feeds'[a].sid # feeds'[b].sid /\ feeds'[a].sid # sids[b]
      BY <3>1, <3>5 DEF SidInv
    <3>7. \A i \in DOMAIN down', k \in Markets :
            feeds'[k] # NoFeed /\ down'[i].sid = feeds'[k].sid => down'[i].market = k
      BY <3>1, <3>3, <3>4 DEF SidInv
    <3>8. \A i \in DOMAIN down' : down'[i].type = "orderbook_snapshot" =>
            /\ \A k \in Markets : sids[k] # down'[i].sid
            /\ \A j \in DOMAIN down' : j < i => down'[j].sid # down'[i].sid
      <4>1. \A i \in DOMAIN down : ~ n < i
        BY <3>2, <3>3, DownTyped
      <4>2. ~ n < n
        BY <3>2
      <4> QED
        BY <3>1, <3>3, <3>4, <3>5, <4>1, <4>2 DEF SidInv
    <3>9. /\ \A k \in Markets : sids[k] <= lastSid'
          /\ \A i \in DOMAIN down' : down'[i].sid <= lastSid'
          /\ \A i \in DOMAIN up' : up'[i].sid <= lastSid'
      <4>1. \A i \in DOMAIN up' : up'[i].sid \in Nat
        BY <2>1, DownTyped
      <4> QED
        BY <2>2, <2>5, <3>1, <3>3, <3>4, <3>5, <4>1
    <3> QED
      BY <2>3, <3>6, <3>7, <3>8, <3>9 DEF SidInv
  <2> QED
    BY <1>15, <2>4, <2>5, Served
<1>16. ASSUME NEW m \in Markets, BookChanges(m) PROVE SidInv'
  <2>1. UNCHANGED <<sids, lastSid, up>>
    BY <1>16, Changed DEF client
  <2>2. \A k \in Markets : /\ feeds'[k].sid = feeds[k].sid /\ (feeds'[k] = NoFeed <=> feeds[k] = NoFeed)
                           /\ feeds[k].sid <= lastSid
    <3>1. feeds[m] # NoFeed => \A b : [sid |-> feeds[m].sid, seq |-> feeds[m].seq + 1, missed |-> b] # NoFeed
      BY FeedsTyped DEF NoFeed
    <3> QED
      BY <1>16, <3>1, Changed, FeedsTyped
  <2>3. CASE UNCHANGED down
    BY <2>1, <2>2, <2>3 DEF SidInv
  <2>4. CASE feeds[m] # NoFeed /\ Told(m) \in Messages /\ down' = Append(down, Told(m))
    <3>2. PICK n \in Nat : n = Len(down) + 1
      BY DownTyped
    <3>3. /\ DOMAIN down' = DOMAIN down \union {n} /\ n \notin DOMAIN down
          /\ \A i \in DOMAIN down : i < n /\ down'[i] = down[i] /\ ~ n < i
          /\ down'[n].sid = feeds[m].sid /\ down'[n].market = m /\ down'[n].type = "orderbook_delta"
      <4>1. down \in Seq(Messages)
        BY DEF TypeInv, NetworkTyped
      <4>2. down'[n] = Told(m) /\ DOMAIN down' = 1 .. n /\ \A i \in 1 .. Len(down) : down'[i] = down[i]
        BY <2>4, <3>2, <4>1
      <4> QED
        BY <3>2, <4>2, DownTyped DEF Told
    <3>4. \A i \in DOMAIN down', k \in Markets :
            feeds'[k] # NoFeed /\ down'[i].sid = feeds'[k].sid => down'[i].market = k
      BY <2>2, <2>4, <3>3 DEF SidInv
    <3>5. \A i \in DOMAIN down' : down'[i].sid <= lastSid
      BY <2>2, <3>3 DEF SidInv
    <3>6. \A i \in DOMAIN down' : down'[i].type = "orderbook_snapshot" =>
            /\ \A k \in Markets : sids[k] # down'[i].sid
            /\ \A j \in DOMAIN down' : j < i => down'[j].sid # down'[i].sid
      BY <3>3 DEF SidInv
    <3>7. \A a, b \in Markets :
            a # b /\ feeds'[a] # NoFeed => feeds'[a].sid # feeds'[b].sid /\ feeds'[a].sid # sids[b]
      BY <2>2 DEF SidInv
    <3> QED
      BY <2>1, <3>4, <3>5, <3>6, <3>7 DEF SidInv
  <2> QED
    BY <1>16, <2>3, <2>4, Changed
<1> QED
  BY <1>1, <1>2, <1>10, <1>14, <1>15, <1>16 DEF Next, NetworkFails, Expire, vars, client, network

-----------------------------------------------------------------------------
(* Every book the loop may ask for is fed. *)

\* What is live stays so, or is not needed: no book arrives without a live
\* subscription, no snapshot without its own.
LEMMA KeepsFed ==
  ASSUME TypeInv', FedInv, sock = "open", over \subseteq over',
         \A m \in Markets \ over' : orderbooks'[m] # NoBook => orderbooks[m] # NoBook \/ Live(m),
         \A i \in InFlight' : At(i)'.type = "orderbook_snapshot" =>
           \/ \E j \in InFlight : At(j) = At(i)'
           \/ Live(At(i).market)' /\ feeds'[At(i)'.market].sid = At(i)'.sid,
         \A m \in Markets \ over' : Live(m) =>
           \/ Live(m)' /\ feeds'[m].sid = feeds[m].sid
           \/ orderbooks'[m] = NoBook /\ \A i \in InFlight' : ~ IsSnapshot(i, m)'
  PROVE  FedInv'
<1>1. ASSUME NEW m \in Markets \ over', orderbooks'[m] # NoBook PROVE Live(m)'
  <2>1. Live(m)
    BY <1>1 DEF FedInv
  <2> QED
    BY <1>1, <2>1
<1>2. ASSUME NEW i \in InFlight', At(i)'.type = "orderbook_snapshot", At(i)'.market \notin over'
      PROVE  Live(At(i).market)' /\ feeds'[At(i)'.market].sid = At(i)'.sid
  <2>1. At(i)'.market \in Markets
    <3>1. down' \in Seq(Messages) /\ (reader'.pc = "apply" => reader'.msg \in Messages)
      BY DEF TypeInv, NetworkTyped, ReaderTyped
    <3>2. (i = 0 /\ reader'.pc = "apply") \/ (i # 0 /\ i \in 1 .. Len(down'))
      <4>1. Len(down') \in Nat
        BY <3>1
      <4> QED
        BY <4>1 DEF InFlight
    <3>3. i \in 1 .. Len(down') => down'[i] \in Messages
      BY <3>1
    <3>4. At(i)' \in Messages
      BY <3>1, <3>2, <3>3 DEF At
    <3> QED
      BY <3>4 DEF Messages
  <2>2. PICK x \in Markets : x = At(i)'.market
    BY <2>1
  <2>3. CASE Live(At(i).market)' /\ feeds'[At(i)'.market].sid = At(i)'.sid
    BY <2>3
  <2>4. CASE \E j \in InFlight : At(j) = At(i)'
    <3>1. Live(x) /\ feeds[x].sid = At(i)'.sid
      BY <1>2, <2>2, <2>4 DEF FedInv
    <3>2. IsSnapshot(i, x)'
      BY <1>2, <2>2 DEF IsSnapshot
    <3>3. Live(x)' /\ feeds'[x].sid = feeds[x].sid
      BY <1>2, <2>2, <3>1, <3>2
    <3> QED
      BY <2>2, <3>1, <3>3 DEF Live, Unsubscribing
  <2> QED
    BY <1>2, <2>3, <2>4
<1> QED
  BY <1>1, <1>2 DEF FedInv

\* Neither messages nor subscriptions change.
LEMMA StillFed ==
  ASSUME TypeInv, TypeInv', FedInv, UNCHANGED <<sock, down, feeds>>, over \subseteq over',
         reader' = reader \/ reader'.pc # "apply",
         \A m \in Markets \ over' : orderbooks'[m] # NoBook => orderbooks[m] # NoBook \/ Live(m),
         \A m \in Markets \ over' : Live(m) =>
           \/ \A i \in DOMAIN up' : up'[i] # Unsubscribe(feeds[m].sid)
           \/ orderbooks'[m] = NoBook /\ \A i \in InFlight : ~ IsSnapshot(i, m)
  PROVE  FedInv'
<1>1. CASE sock # "open"
  BY <1>1 DEF FedInv
<1>2. CASE sock = "open"
  <2>1. \A i \in InFlight' : i \in InFlight /\ At(i)' = At(i)
    <3>1. CASE reader' = reader
      BY <3>1 DEF InFlight, At
    <3>2. CASE reader'.pc # "apply"
      BY <3>2, DownTyped DEF InFlight, At
    <3> QED
      BY <3>1, <3>2
  <2>2. \A m \in Markets, i \in InFlight' : IsSnapshot(i, m)' => IsSnapshot(i, m)
    BY <2>1 DEF IsSnapshot
  <2>3. \A m \in Markets \ over' : Live(m) =>
          \/ Live(m)' /\ feeds'[m].sid = feeds[m].sid
          \/ orderbooks'[m] = NoBook /\ \A i \in InFlight' : ~ IsSnapshot(i, m)'
    BY <2>1, <2>2 DEF Live, Unsubscribing
  <2>4. \A i \in InFlight' : At(i)'.type = "orderbook_snapshot" =>
          \/ \E j \in InFlight : At(j) = At(i)'
          \/ Live(At(i).market)' /\ feeds'[At(i)'.market].sid = At(i)'.sid
    BY <2>1
  <2> QED
    BY <1>2, <2>3, <2>4, KeepsFed
<1> QED
  BY <1>1, <1>2

\* No command is sent.
LEMMA SilentFed ==
  ASSUME TypeInv, TypeInv', FedInv, UNCHANGED <<sock, up, down, feeds>>, over \subseteq over',
         reader' = reader \/ reader'.pc # "apply",
         \A m \in Markets \ over' : orderbooks'[m] # NoBook => orderbooks[m] # NoBook \/ Live(m)
  PROVE  FedInv'
<1>1. \A m \in Markets : Live(m) => \A i \in DOMAIN up' : up'[i] # Unsubscribe(feeds[m].sid)
  BY DEF Live, Unsubscribing
<1> QED
  BY <1>1, StillFed

LEMMA SendingUnsubscribesNone ==
  ASSUME TypeInv, NEW c \in Seq(Commands), Send(c), NEW m \in Markets, Live(m),
         \A i \in 1 .. Len(c) : c[i] # Unsubscribe(feeds[m].sid)
  PROVE  \A i \in DOMAIN up' : up'[i] # Unsubscribe(feeds[m].sid)
<1>1. /\ Len(up') = Len(up) + Len(c) /\ Len(up) \in Nat /\ Len(c) \in Nat
      /\ \A i \in 1 .. Len(up) : up'[i] = up[i]
      /\ \A i \in 1 .. Len(c) : up'[Len(up) + i] = c[i]
      /\ DOMAIN up' = 1 .. Len(up') /\ DOMAIN up = 1 .. Len(up)
  BY Sent, DownTyped
<1>2. ASSUME NEW i \in DOMAIN up' PROVE up'[i] # Unsubscribe(feeds[m].sid)
  <2>1. CASE i <= Len(up)
    BY <1>1, <2>1 DEF Live, Unsubscribing
  <2>2. CASE i > Len(up)
    <3>1. i - Len(up) \in 1 .. Len(c) /\ i = Len(up) + (i - Len(up))
      BY <1>1, <1>2, <2>2
    <3> QED
      BY <1>1, <3>1
  <2> QED
    BY <1>1, <2>1, <2>2
<1> QED
  BY <1>2

LEMMA SubscribingFed ==
  ASSUME TypeInv, TypeInv', FedInv, NEW c \in Seq(Commands), Send(c),
         \A i \in 1 .. Len(c) : \E m \in Markets : c[i] = Subscribe(m),
         UNCHANGED <<orderbooks, over>>, reader' = reader \/ reader'.pc # "apply"
  PROVE  FedInv'
<1>1. \A m \in Markets : Live(m) => \A i \in DOMAIN up' : up'[i] # Unsubscribe(feeds[m].sid)
  BY SendingUnsubscribesNone, CommandsDiffer
<1>2. UNCHANGED <<sock, down, feeds>>
  BY DEF Send
<1> QED
  BY <1>1, <1>2, StillFed

\* The subscription that is given up has no book that is asked for, nor a
\* snapshot on its way: the one reported is the one whose snapshot arrived.
LEMMA UnsubscribingFed ==
  ASSUME TypeInv, TypeInv', SidInv, FedInv, NEW x \in Markets, SendUnsubscribe(x),
         UNCHANGED <<orderbooks, over>>, reader' = reader \/ reader'.pc # "apply",
         x \in over \/ (reader.pc # "apply" /\ orderbooks[x] = NoBook)
  PROVE  FedInv'
<1> DEFINE c == IF sids[x] = None THEN << >> ELSE <<Unsubscribe(sids[x])>>
<1>1. c \in Seq(Commands) /\ Send(c)
  BY UnsubscribeTyped DEF SendUnsubscribe
<1>2. sids[x] = None => Len(c) = 0
  OBVIOUS
<1>3. sids[x] # None => Len(c) = 1 /\ c[1] = Unsubscribe(sids[x])
  OBVIOUS
<1> HIDE DEF c
<1>4. sids[x] # None => \A i \in 1 .. Len(c) : c[i] = Unsubscribe(sids[x])
  BY <1>3
<1>5. UNCHANGED <<sock, down, feeds>>
  BY DEF SendUnsubscribe, Send
<1>6. ASSUME NEW m \in Markets, Live(m), feeds[m].sid # sids[x]
      PROVE  \A i \in DOMAIN up' : up'[i] # Unsubscribe(feeds[m].sid)
  <2>1. \A i \in 1 .. Len(c) : c[i] # Unsubscribe(feeds[m].sid)
    <3>1. CASE sids[x] = None
      BY <1>2, <3>1
    <3>2. CASE sids[x] # None
      BY <1>4, <1>6, <3>2, CommandsDiffer
    <3> QED
      BY <3>1, <3>2
  <2> QED
    BY <1>1, <1>6, <2>1, SendingUnsubscribesNone
<1>7. ASSUME NEW m \in Markets, m # x, Live(m) PROVE feeds[m].sid # sids[x]
  BY <1>7 DEF SidInv, Live
<1>8. CASE x \in over
  BY <1>5, <1>6, <1>7, <1>8, StillFed
<1>9. ASSUME x \notin over, reader.pc # "apply", orderbooks[x] = NoBook, sock = "open",
             feeds[x].sid = sids[x]
      PROVE  \A i \in InFlight : ~ IsSnapshot(i, x)
  <2> SUFFICES ASSUME NEW i \in InFlight, IsSnapshot(i, x) PROVE FALSE
    OBVIOUS
  <2>1. i \in DOMAIN down /\ At(i) = down[i]
    <3>1. i \in 1 .. Len(down)
      BY <1>9 DEF InFlight
    <3> QED
      BY <3>1, DownTyped DEF At
  <2>2. feeds[x].sid = down[i].sid
    BY <1>9, <2>1 DEF FedInv, IsSnapshot
  <2> QED
    BY <1>9, <2>1, <2>2 DEF SidInv, IsSnapshot
<1>10. CASE x \notin over /\ reader.pc # "apply" /\ orderbooks[x] = NoBook
  <2>1. sock = "open"
    BY <1>1 DEF Send
  <2>2. \A m \in Markets \ over' : Live(m) =>
           \/ \A i \in DOMAIN up' : up'[i] # Unsubscribe(feeds[m].sid)
           \/ orderbooks'[m] = NoBook /\ \A i \in InFlight : ~ IsSnapshot(i, m)
    BY <1>6, <1>7, <1>9, <1>10, <2>1
  <2> QED
    BY <1>5, <2>2, StillFed
<1> QED
  BY <1>8, <1>10

LEMMA NextFed ==
  ASSUME TypeInv, TypeInv', ControlInv, BookInv, SidInv, FedInv, [Next]_vars
  PROVE  FedInv'
<1> DEFINE Silent ==
      /\ UNCHANGED <<sock, up, down, feeds>>
      /\ over \subseteq over'
      /\ reader' = reader \/ reader'.pc # "apply"
      /\ \A m \in Markets : orderbooks'[m] \in {orderbooks[m], NoBook}
<1>1. CASE sock' # "open"
  BY <1>1 DEF FedInv
<1>2. CASE Silent
  BY <1>2, SilentFed
<1>3. CASE Connect
  <2>1. /\ \A m \in Markets : orderbooks'[m] = NoBook
        /\ down' = << >> /\ reader'.pc = "resubscribe"
    <3>1. \A m \in Markets : orderbooks[m] = NoBook
      BY <1>3 DEF Connect, ControlInv, ReaderInv
    <3>2. down = << >>
      BY <1>3 DEF Connect, ControlInv, ReaderInv, SocketInv
    <3>3. reader'.pc = "resubscribe"
      BY <1>3 DEF Connect, ReaderAt, TypeInv, ReaderTyped
    <3> QED
      BY <1>3, <3>1, <3>2, <3>3 DEF Connect
  <2>2. InFlight' = {}
    BY <2>1 DEF InFlight
  <2> QED
    BY <2>1, <2>2 DEF FedInv
<1>4. CASE ResubscribeAll
  <2>1. reader'.pc # "apply" /\ UNCHANGED <<orderbooks, over>>
    BY <1>4 DEF ResubscribeAll, ReaderDone, client
  <2>2. CASE Send(Resubscriptions)
    <3>1. /\ Resubscriptions \in Seq(Commands)
          /\ \A i \in 1 .. Len(Resubscriptions) : \E m \in Markets : Resubscriptions[i] = Subscribe(m)
      BY ResubscriptionsTyped
    <3> QED
      BY <2>1, <2>2, <3>1, SubscribingFed
  <2>3. CASE SendRaises
    BY <1>2, <1>4, <2>1, <2>3 DEF SendRaises, network
  <2> QED
    BY <1>4, <2>2, <2>3 DEF ResubscribeAll, Resubscriptions
<1>5. CASE Receive
  <2>1. sock = "open"
    BY <1>5 DEF Receive, ControlInv, SocketInv
  <2>2. /\ reader'.msg = down[1] /\ \A i \in 1 .. Len(down) - 1 : down'[i] = down[i + 1]
        /\ InFlight = 1 .. Len(down) /\ InFlight' = 0 .. Len(down) - 1
        /\ Len(down) \in Nat
    BY <1>5, HeadTyped DEF Receive, InFlight
  <2>3. \A i \in InFlight' : i + 1 \in InFlight /\ At(i)' = At(i + 1)
    BY <2>2 DEF At
  <2>4. UNCHANGED <<orderbooks, over, up, feeds>>
    BY <1>5 DEF Receive
  <2>5. \A m \in Markets \ over' : Live(m) => Live(m)' /\ feeds'[m].sid = feeds[m].sid
    BY <2>4 DEF Live, Unsubscribing
  <2> QED
    BY <2>1, <2>3, <2>4, <2>5, KeepsFed
<1>6. CASE ApplySnapshot \/ ApplyDelta \/ DeltaWithoutBook \/ SequenceGap
  <2> DEFINE x == reader.msg.market
  <2>1. /\ UNCHANGED <<sock, up, down, feeds, over>>
        /\ reader.pc = "apply"
    BY <1>6 DEF ApplySnapshot, ApplyDelta, DeltaWithoutBook, SequenceGap, network, client
  <2>2. Consumes
    BY <1>6, HandlesMessage
  <2>3. x \in Markets
    BY <1>6, <2>1 DEF TypeInv, ReaderTyped, Messages
  <2>4. \A m \in Markets \ {x} : orderbooks'[m] = orderbooks[m]
    BY <2>2 DEF Consumes, Arrived
  <2>5. CASE sock # "open"
    BY <1>1, <2>1, <2>5
  <2>6. orderbooks'[x] # NoBook /\ x \notin over /\ sock = "open" => orderbooks[x] # NoBook \/ Live(x)
    <3>1. CASE ApplySnapshot
      <4>1. 0 \in InFlight /\ At(0) = reader.msg /\ At(0).type = "orderbook_snapshot"
        BY <2>1, <3>1, StreamTyped DEF At, ApplySnapshot
      <4> QED
        BY <4>1 DEF FedInv
    <3>2. CASE ApplyDelta
      BY <3>2 DEF ApplyDelta
    <3>3. CASE DeltaWithoutBook
      BY <3>3 DEF DeltaWithoutBook, client
    <3>4. CASE SequenceGap
      BY <2>3, <3>4 DEF SequenceGap, DropBook, TypeInv, ClientTyped
    <3> QED
      BY <1>6, <3>1, <3>2, <3>3, <3>4
  <2>7. reader'.pc # "apply"
    BY <2>2 DEF Consumes
  <2> HIDE DEF x
  <2>8. CASE sock = "open"
    <3>1. \A m \in Markets \ over' : orderbooks'[m] # NoBook => orderbooks[m] # NoBook \/ Live(m)
      BY <2>1, <2>3, <2>4, <2>6, <2>8
    <3> QED
      BY <2>1, <2>7, <3>1, SilentFed
  <2> QED
    BY <2>5, <2>8
<1>7. CASE ResyncUnsubscribe
  <2>1. /\ reader.msg.market \in Markets /\ orderbooks[reader.msg.market] = NoBook
        /\ reader.pc # "apply"
    BY <1>7 DEF ResyncUnsubscribe, TypeInv, ReaderTyped, Messages, ControlInv, ReaderInv
  <2>2. reader'.pc # "apply"
    BY <1>7 DEF ResyncUnsubscribe, ReaderAt, TypeInv, ReaderTyped
  <2> QED
    BY <1>7, <2>1, <2>2, UnsubscribingFed DEF ResyncUnsubscribe, books
<1>8. CASE ResyncSubscribe
  <2> DEFINE c == <<Subscribe(reader.msg.market)>>
  <2>1. reader.msg.market \in Markets
    BY <1>8 DEF ResyncSubscribe, TypeInv, ReaderTyped, Messages
  <2>2. c \in Seq(Commands) /\ Send(c) /\ \A i \in 1 .. Len(c) : \E m \in Markets : c[i] = Subscribe(m)
    BY <1>8, <2>1 DEF ResyncSubscribe, Commands
  <2>3. reader'.pc # "apply" /\ UNCHANGED <<orderbooks, over>>
    BY <1>8 DEF ResyncSubscribe, ReaderDone, client
  <2> HIDE DEF c
  <2> QED
    BY <2>2, <2>3, SubscribingFed
<1>9. CASE ResyncFails
  <2>1. UNCHANGED <<orderbooks, over, sock, up, down, feeds>>
    BY <1>9 DEF ResyncFails, SendUnsubscribeRaises, SendRaises, books, network
  <2>2. reader'.pc # "apply"
    BY <1>9 DEF ResyncFails, ReaderDone
  <2> QED
    BY <1>2, <2>1, <2>2
<1>10. CASE OnClose \/ ReaderEnds
  <2>1. UNCHANGED <<orderbooks, over, sock, up, down, feeds>>
    BY <1>10 DEF OnClose, ReaderEnds, books, network, client
  <2>2. reader'.pc # "apply"
    BY <1>10 DEF OnClose, ReaderEnds, ReaderAt, TypeInv, ReaderTyped
  <2> QED
    BY <1>2, <2>1, <2>2
<1>11. CASE ReaderStep
  BY <1>1, <1>3, <1>4, <1>5, <1>6, <1>7, <1>8, <1>9, <1>10, <1>11 DEF ReaderStep, OnCloseClears
<1>12. ASSUME NEW m \in Markets, PruneStaleMarket(m) PROVE FedInv'
  <2>1. UNCHANGED <<orderbooks, over, reader>> /\ m \in over
    BY <1>12 DEF PruneStaleMarket, books
  <2>2. CASE SendUnsubscribe(m)
    BY <2>1, <2>2, UnsubscribingFed
  <2>3. CASE UNCHANGED network
    BY <1>2, <2>1, <2>3 DEF network
  <2> QED
    BY <1>12, <2>2, <2>3 DEF PruneStaleMarket, SendUnsubscribeRaises, SendRaises
<1>13. CASE SubscribeToMarket
  <2> DEFINE c == <<Subscribe(loop.market)>>
  <2>1. loop.market \in Markets
    BY <1>13 DEF SubscribeToMarket, TypeInv, LoopTyped
  <2>2. c \in Seq(Commands) /\ Send(c) /\ \A i \in 1 .. Len(c) : \E m \in Markets : c[i] = Subscribe(m)
    BY <1>13, <2>1 DEF SubscribeToMarket, Commands
  <2>3. UNCHANGED <<orderbooks, over, reader>>
    BY <1>13 DEF SubscribeToMarket, client
  <2> HIDE DEF c
  <2> QED
    BY <2>2, <2>3, SubscribingFed
<1>14. CASE DropPruned \/ Invalidate
  <2>1. UNCHANGED <<over, sock, up, down, feeds, reader>>
    BY <1>14 DEF DropPruned, Invalidate, network
  <2>2. \A m \in Markets : orderbooks'[m] \in {orderbooks[m], NoBook}
    BY <1>14 DEF DropPruned, Invalidate, DropBook, ClearBooks, TypeInv, ClientTyped
  <2> QED
    BY <1>2, <2>1, <2>2
<1>15. CASE (\E m \in Markets : Ask(m)) \/ SubscribeFails \/ AddSubscribed \/ GetLatestOrderbook \/ FindStale
  <2>1. UNCHANGED <<orderbooks, over, sock, up, down, feeds, reader>>
    BY <1>15 DEF Ask, SubscribeFails, AddSubscribed, GetLatestOrderbook, FindStale, books, network, client
  <2> QED
    BY <1>2, <2>1
<1>16. CASE SocketCloses
  BY <1>1, <1>16 DEF SocketCloses
<1>17. CASE LoopStep
  BY <1>12, <1>13, <1>14, <1>15, <1>16, <1>17 DEF LoopStep, CloseStale, Stop
<1>18. CASE Serve
  <2>1. /\ sock = "open" /\ UNCHANGED <<orderbooks, over, reader>>
        /\ DOMAIN up' = 1 .. Len(up) - 1 /\ DOMAIN up = 1 .. Len(up) /\ Len(up) \in Nat
        /\ 1 \in DOMAIN up /\ Head(up) = up[1]
        /\ \A i \in DOMAIN up' : i + 1 \in DOMAIN up /\ up'[i] = up[i + 1]
    <3>1. up # << >> /\ up' = Tail(up) /\ sock = "open" /\ UNCHANGED <<orderbooks, over, reader>>
      BY <1>18 DEF Serve, client, books
    <3>2. up \in Seq(Commands)
      BY DEF TypeInv, NetworkTyped
    <3> QED
      BY <3>1, <3>2, DownTyped
  <2>2. \A s : Unsubscribing(s)' => Unsubscribing(s)
    BY <2>1 DEF Unsubscribing
  <2>3. CASE UNCHANGED down /\ \A k \in Markets : Live(k) => feeds'[k] = feeds[k]
    <3>1. \A k \in Markets \ over' : Live(k) => Live(k)' /\ feeds'[k].sid = feeds[k].sid
      BY <2>2, <2>3 DEF Live
    <3>2. \A i \in InFlight' : \E j \in InFlight : At(j) = At(i)'
      BY <2>1, <2>3 DEF InFlight, At
    <3> QED
      BY <2>1, <3>1, <3>2, KeepsFed
  <2>4. ASSUME NEW s \in Nat \ {0}, Head(up) = Unsubscribe(s),
               feeds' = [k \in Markets |-> IF feeds[k].sid = s THEN NoFeed ELSE feeds[k]]
        PROVE  \A k \in Markets : Live(k) => feeds'[k] = feeds[k]
    <3>1. Unsubscribing(s)
      BY <2>1, <2>4 DEF Unsubscribing
    <3> QED
      BY <2>4, <3>1 DEF Live
  <2>5. ASSUME NEW m \in Markets, feeds[m] = NoFeed, feeds' = [feeds EXCEPT ![m] = Fresh],
               lastSid' = lastSid + 1, First(m) \in Messages, down' = Append(down, First(m))
        PROVE  FedInv'
    <3>1. PICK msg \in Messages : msg = First(m)
      BY <2>5
    <3>2. PICK n \in Nat : n = Len(down) + 1
      BY DownTyped
    <3>3. /\ InFlight' = InFlight \union {n} /\ At(n)' = msg
          /\ \A i \in InFlight : At(i)' = At(i)
      BY <2>1, <2>5, <3>1, <3>2, AppendedStream
    <3>4. msg.market = m /\ msg.sid = lastSid + 1
      BY <3>1 DEF First
    <3>5. feeds'[m] = Fresh /\ Fresh # NoFeed /\ Fresh.sid = lastSid + 1
          /\ \A k \in Markets \ {m} : feeds'[k] = feeds[k]
      BY <2>5, FeedsTyped DEF Fresh, NoFeed
    <3>6. \A i \in DOMAIN up' : up'[i] # Unsubscribe(lastSid + 1)
      <4> SUFFICES ASSUME NEW i \in DOMAIN up', up'[i] = Unsubscribe(lastSid + 1) PROVE FALSE
        OBVIOUS
      <4>1. i + 1 \in DOMAIN up /\ up[i + 1].sid = lastSid + 1
        BY <2>1, CommandsDiffer
      <4>2. lastSid + 1 <= lastSid
        BY <4>1 DEF SidInv
      <4> QED
        BY <4>2, FeedsTyped
    <3>7. Live(m)'
      BY <3>5, <3>6 DEF Live, Unsubscribing
    <3>8. \A k \in Markets \ over' : Live(k) => Live(k)' /\ feeds'[k].sid = feeds[k].sid
      BY <2>2, <2>5, <3>5 DEF Live
    <3>9. \A i \in InFlight' :
           \/ \E j \in InFlight : At(j) = At(i)'
           \/ Live(At(i).market)' /\ feeds'[At(i)'.market].sid = At(i)'.sid
      <4>1. Live(At(n).market)' /\ feeds'[At(n)'.market].sid = At(n)'.sid
        BY <3>3, <3>4, <3>5, <3>7 DEF Live, Unsubscribing
      <4> QED
        BY <3>3, <4>1
    <3> QED
      BY <2>1, <3>8, <3>9, KeepsFed
  <2> QED
    BY <1>18, <2>3, <2>4, <2>5, Served
<1>19. ASSUME NEW m \in Markets, BookChanges(m) PROVE FedInv'
  <2>1. UNCHANGED <<sock, up, orderbooks, over, reader>>
    BY <1>19, Changed DEF client, books
  <2>2. \A k \in Markets : feeds'[k].sid = feeds[k].sid /\ (feeds'[k] = NoFeed => feeds[k] = NoFeed)
    <3>1. feeds[m] # NoFeed => \A b : [sid |-> feeds[m].sid, seq |-> feeds[m].seq + 1, missed |-> b] # NoFeed
      BY FeedsTyped DEF NoFeed
    <3> QED
      BY <1>19, <3>1, Changed, FeedsTyped
  <2>3. \A k \in Markets \ over' : Live(k) => Live(k)' /\ feeds'[k].sid = feeds[k].sid
    BY <2>1, <2>2 DEF Live, Unsubscribing
  <2>4. \A i \in InFlight' : At(i)'.type = "orderbook_snapshot" => \E j \in InFlight : At(j) = At(i)'
    <3>1. CASE UNCHANGED down
      BY <2>1, <3>1 DEF InFlight, At
    <3>2. CASE Told(m) \in Messages /\ down' = Append(down, Told(m))
      <4>1. PICK msg \in Messages : msg = Told(m)
        BY <3>2
      <4>2. PICK n \in Nat : n = Len(down) + 1
        BY DownTyped
      <4>3. /\ InFlight' = InFlight \union {n} /\ At(n)' = msg
            /\ \A i \in InFlight : At(i)' = At(i)
        BY <2>1, <3>2, <4>1, <4>2, AppendedStream
      <4>4. msg.type = "orderbook_delta"
        BY <4>1 DEF Told
      <4> QED
        BY <4>3, <4>4
    <3> QED
      BY <1>19, <3>1, <3>2, Changed
  <2>5. CASE sock = "open"
    BY <2>1, <2>3, <2>4, <2>5, KeepsFed
  <2> QED
    BY <1>1, <2>1, <2>5
<1>20. ASSUME NEW m \in Markets, Expire(m) PROVE FedInv'
  <2>1. UNCHANGED <<orderbooks, sock, up, down, feeds, reader>> /\ over \subseteq over'
    BY <1>20 DEF Expire, books, network
  <2> QED
    BY <1>2, <2>1
<1>21. CASE UNCHANGED vars
  BY <1>2, <1>21 DEF vars, client, books, network
<1> QED
  BY <1>11, <1>16, <1>17, <1>18, <1>19, <1>20, <1>21 DEF Next, NetworkFails

-----------------------------------------------------------------------------
(* The theorem about subscriptions. *)

LEMMA FeedInvHolds == Spec => [](TypeInv /\ ControlInv /\ BookInv /\ FeedInv)
<1>1. Init => FeedInv
  <2> SUFFICES ASSUME Init PROVE FeedInv
    OBVIOUS
  <2>1. /\ DOMAIN up = {} /\ DOMAIN down = {} /\ sock = "none" /\ lastSid = 0
        /\ \A m \in Markets : sids[m] = 0 /\ feeds[m] = NoFeed
    BY DEF Init, None
  <2> QED
    BY <2>1 DEF FeedInv, SidInv, FedInv
<1>2. /\ TypeInv /\ TypeInv' /\ ControlInv /\ BookInv /\ FeedInv /\ [Next]_vars
      => FeedInv'
  BY NextSids, NextFed DEF FeedInv
<1> QED
  BY BookInvHolds, <1>1, <1>2, PTL DEF Spec

\* While the socket is up, every cached book the loop may still ask for belongs
\* to a subscription of the exchange's, which nobody is ending: none outlives a
\* reconnect or a resynchronisation (websocket_client.py:305-312, 345-356).
THEOREM BooksAreFed == Spec => []BookIsFed
<1>1. FeedInv => BookIsFed
  BY DEF FeedInv, FedInv, BookIsFed, Live
<1> QED
  BY FeedInvHolds, <1>1, PTL

-----------------------------------------------------------------------------
(* Every tracked market has a subscription coming. *)

\* What is about to be pruned is never kept again.
LEMMA KeptBefore ==
  ASSUME TypeInv, [Next]_vars, NEW m \in Markets, Kept(m)'
  PROVE  Kept(m)
<1>1. CASE over \subseteq over' /\ UNCHANGED subscribedMarkets /\ (loop.pc # "drop" \/ UNCHANGED loop)
  BY <1>1 DEF Kept
<1>2. CASE AddSubscribed
  <2>1. loop.pc = "add" /\ loop.market \notin over
    BY <1>2 DEF AddSubscribed, TypeInv, LoopTyped
  <2> QED
    BY <1>2, <2>1 DEF AddSubscribed, Kept
<1>3. CASE DropPruned
  BY <1>3 DEF DropPruned, Kept
<1>4. CASE ReaderStep
  <2>1. UNCHANGED <<over, subscribedMarkets, loop>>
    BY <1>4 DEF ReaderStep, Connect, ResubscribeAll, Receive, ApplySnapshot, ApplyDelta, DeltaWithoutBook,
       SequenceGap, ResyncUnsubscribe, ResyncSubscribe, ResyncFails, OnClose, OnCloseClears, ReaderEnds, client
  <2> QED
    BY <1>1, <2>1
<1>5. CASE LoopStep
  <2>1. CASE \/ \E k \in Markets : Ask(k) \/ PruneStaleMarket(k)
             \/ SubscribeToMarket \/ SubscribeFails \/ GetLatestOrderbook \/ FindStale \/ Invalidate
             \/ CloseStale \/ Stop
    <3>1. UNCHANGED <<over, subscribedMarkets>> /\ loop.pc # "drop"
      BY <2>1 DEF Ask, PruneStaleMarket, SubscribeToMarket, SubscribeFails, GetLatestOrderbook, FindStale,
         Invalidate, CloseStale, Stop, client
    <3> QED
      BY <1>1, <3>1
  <2> QED
    BY <1>2, <1>3, <1>5, <2>1 DEF LoopStep
<1>6. CASE \/ Serve \/ NetworkFails \/ UNCHANGED vars
           \/ \E k \in Markets : BookChanges(k) \/ Expire(k)
  <2>1. over \subseteq over' /\ UNCHANGED <<subscribedMarkets, loop>>
    BY <1>6 DEF Serve, NetworkFails, BookChanges, Expire, vars, client
  <2> QED
    BY <1>1, <2>1
<1> QED
  BY <1>4, <1>5, <1>6 DEF Next

\* A market becomes due by the subscription that is sent for it.
LEMMA DueBefore ==
  ASSUME TypeInv, [Next]_vars, NEW m \in Markets, Due(m)'
  PROVE  \/ Due(m)
         \/ ResubscribeAll /\ m \in subscribedMarkets
         \/ ResyncSubscribe /\ m = reader.msg.market
         \/ SubscribeToMarket /\ m = loop.market
         \/ ResyncFails
<1>1. Kept(m)
  BY KeptBefore DEF Due
<1>2. Tracked(m)' /\ ~ Resyncing(m)' /\ (reader'.pc = "resubscribe" => m \notin subscribedMarkets')
  BY DEF Due
<1>3. CASE UNCHANGED <<reader, subscribedMarkets>> /\ (UNCHANGED loop \/ loop'.pc # "add")
  BY <1>1, <1>2, <1>3 DEF Due, Tracked, Resyncing
<1>4. CASE /\ UNCHANGED <<loop, subscribedMarkets>>
           /\ reader.pc \notin {"resync", "resyncSubscribe", "resubscribe"}
  BY <1>1, <1>2, <1>4 DEF Due, Tracked, Resyncing
<1>5. CASE Connect
  BY <1>2, <1>5 DEF Connect, ReaderAt, Tracked, TypeInv, ReaderTyped
<1>6. CASE ResubscribeAll
  BY <1>1, <1>2, <1>6 DEF ResubscribeAll, Due, Tracked, Resyncing, client
<1>7. CASE ResyncUnsubscribe
  <2>1. reader.pc = "resync" /\ reader' = [reader EXCEPT !.pc = "resyncSubscribe"]
    BY <1>7 DEF ResyncUnsubscribe, ReaderAt
  <2>2. reader'.pc = "resyncSubscribe" /\ reader'.msg = reader.msg
    BY <2>1 DEF TypeInv, ReaderTyped
  <2> QED
    BY <1>1, <1>2, <1>7, <2>1, <2>2 DEF ResyncUnsubscribe, Due, Tracked, Resyncing
<1>8. CASE ResyncSubscribe
  BY <1>1, <1>2, <1>8 DEF ResyncSubscribe, Due, Tracked, Resyncing, client
<1>9. CASE ReaderStep
  <2>1. CASE Receive \/ ApplySnapshot \/ ApplyDelta \/ DeltaWithoutBook \/ SequenceGap
             \/ OnClose \/ OnCloseClears \/ ReaderEnds
    BY <1>4, <2>1 DEF Receive, ApplySnapshot, ApplyDelta, DeltaWithoutBook, SequenceGap,
       OnClose, OnCloseClears, ReaderEnds, client
  <2> QED
    BY <1>5, <1>6, <1>7, <1>8, <1>9, <2>1 DEF ReaderStep
<1>10. CASE SubscribeToMarket
  <2>1. loop.pc = "subscribe" /\ loop' = [loop EXCEPT !.pc = "add"]
    BY <1>10 DEF SubscribeToMarket, LoopAt
  <2>2. loop'.market = loop.market
    BY <2>1 DEF TypeInv, LoopTyped
  <2> QED
    BY <1>1, <1>2, <1>10, <2>1, <2>2 DEF SubscribeToMarket, Due, Tracked, Resyncing, client
<1>11. CASE AddSubscribed
  <2>1. loop.pc = "add" /\ loop'.pc = "prune"
    BY <1>11 DEF AddSubscribed, LoopAt, TypeInv, LoopTyped
  <2> QED
    BY <1>1, <1>2, <1>11, <2>1 DEF AddSubscribed, Due, Tracked, Resyncing
<1>12. CASE DropPruned
  <2>1. loop.pc = "drop" /\ loop'.pc = "prune"
    BY <1>12 DEF DropPruned, TypeInv, LoopTyped
  <2> QED
    BY <1>1, <1>2, <1>12, <2>1 DEF DropPruned, Due, Tracked, Resyncing
<1>13. CASE LoopStep
  <2>1. CASE \/ \E k \in Markets : Ask(k) \/ PruneStaleMarket(k)
             \/ SubscribeFails \/ GetLatestOrderbook \/ FindStale \/ Invalidate \/ CloseStale \/ Stop
    <3>1. UNCHANGED <<reader, subscribedMarkets>>
      BY <2>1 DEF Ask, PruneStaleMarket, SubscribeFails, GetLatestOrderbook, FindStale,
         Invalidate, CloseStale, Stop, client
    <3>2. UNCHANGED loop \/ loop'.pc # "add"
      <4>1. \A k \in Markets : Ask(k) => loop'.pc \in {"prune", "subscribe"}
        BY DEF Ask
      <4>2. CASE GetLatestOrderbook \/ CloseStale \/ Stop
        BY <4>2 DEF GetLatestOrderbook, CloseStale, Stop, LoopDone
      <4>3. CASE SubscribeFails \/ FindStale \/ Invalidate \/ \E k \in Markets : PruneStaleMarket(k)
        <5>1. loop'.pc \in {"read", "invalidate", "close", "drop"}
          BY <4>3 DEF SubscribeFails, FindStale, Invalidate, PruneStaleMarket, LoopAt, TypeInv, LoopTyped
        <5> QED
          BY <5>1
      <4> QED
        BY <2>1, <4>1, <4>2, <4>3
    <3> QED
      BY <1>3, <3>1, <3>2
  <2> QED
    BY <1>10, <1>11, <1>12, <1>13, <2>1 DEF LoopStep
<1>14. CASE \/ Serve \/ NetworkFails \/ UNCHANGED vars
            \/ \E k \in Markets : BookChanges(k) \/ Expire(k)
  BY <1>3, <1>14 DEF Serve, NetworkFails, BookChanges, Expire, vars, client
<1> QED
  BY <1>9, <1>13, <1>14 DEF Next

\* An open socket and a live connection come with Connect.
LEMMA ConnectedBefore ==
  ASSUME TypeInv, [Next]_vars, ~ Connect
  PROVE  /\ connected' => connected
         /\ sock' = "open" => sock = "open"
<1>1. CASE ReaderStep
  BY <1>1 DEF ReaderStep, ResubscribeAll, Receive, ApplySnapshot, ApplyDelta, DeltaWithoutBook,
     SequenceGap, ResyncUnsubscribe, ResyncSubscribe, ResyncFails, OnClose, OnCloseClears, ReaderEnds,
     Send, SendRaises, SendUnsubscribe, SendUnsubscribeRaises, client, network
<1>2. SocketCloses => sock' # "open"
  BY DEF SocketCloses
<1>3. ASSUME NEW m \in Markets, PruneStaleMarket(m) PROVE UNCHANGED <<connected, sock>>
  BY <1>3 DEF PruneStaleMarket, Send, SendRaises, SendUnsubscribe, SendUnsubscribeRaises, network
<1>4. CASE LoopStep
  <2>1. CASE CloseStale \/ Stop
    BY <1>2, <2>1 DEF CloseStale, Stop, client
  <2>2. CASE SubscribeToMarket \/ FindStale
    BY <2>2 DEF SubscribeToMarket, FindStale, Send, client, network
  <2>3. CASE \/ \E m \in Markets : Ask(m)
             \/ SubscribeFails \/ AddSubscribed \/ DropPruned \/ GetLatestOrderbook \/ Invalidate
    BY <2>3 DEF Ask, SubscribeFails, AddSubscribed, DropPruned, GetLatestOrderbook, Invalidate, client, network
  <2> QED
    BY <1>3, <1>4, <2>1, <2>2, <2>3 DEF LoopStep
<1>5. CASE Serve \/ NetworkFails
  BY <1>2, <1>5 DEF Serve, NetworkFails, client
<1>6. CASE (\E m \in Markets : BookChanges(m) \/ Expire(m)) \/ UNCHANGED vars
  <2>1. ASSUME NEW m \in Markets, BookChanges(m) PROVE UNCHANGED <<connected, sock>>
    BY <2>1, Changed DEF client
  <2>2. ASSUME NEW m \in Markets, Expire(m) PROVE UNCHANGED <<connected, sock>>
    BY <2>2 DEF Expire, network
  <2>3. UNCHANGED vars => UNCHANGED <<connected, sock>>
    BY DEF vars, client, network
  <2> QED
    BY <1>6, <2>1, <2>2, <2>3
<1> QED
  BY <1>1, <1>4, <1>5, <1>6 DEF Next

LEMMA StillAsked ==
  ASSUME NEW m \in Markets, Asked(m), UNCHANGED up,
         feeds'[m].sid = feeds[m].sid, feeds[m] # NoFeed => feeds'[m] # NoFeed
  PROVE  Asked(m)'
BY DEF Asked

LEMMA SendingStillAsked ==
  ASSUME TypeInv, NEW c \in Seq(Commands), Send(c), NEW m \in Markets,
         Asked(m) \/ \E i \in 1 .. Len(c) : c[i] = Subscribe(m),
         \A i \in 1 .. Len(c) : c[i] # Unsubscribe(feeds[m].sid)
  PROVE  Asked(m)'
<1>1. PICK n \in Nat, k \in Nat : n = Len(up) /\ k = Len(c)
  BY Sent
<1>2. /\ Len(up') = n + k
      /\ \A i \in 1 .. n : up'[i] = up[i]
      /\ \A i \in 1 .. k : up'[n + i] = c[i]
      /\ UNCHANGED feeds
  BY <1>1, Sent DEF Send
<1>3. \A j \in n + 1 .. n + k : up'[j] # Unsubscribe(feeds[m].sid)
  <2> SUFFICES ASSUME NEW j \in n + 1 .. n + k PROVE up'[j] # Unsubscribe(feeds[m].sid)
    OBVIOUS
  <2>1. j - n \in 1 .. k /\ n + (j - n) = j
    OBVIOUS
  <2> QED
    BY <1>1, <1>2, <2>1
<1>4. CASE Asked(m)
  <2>1. PICK i \in 0 .. n : /\ IF i = 0 THEN feeds[m] # NoFeed ELSE up[i] = Subscribe(m)
                            /\ \A j \in i + 1 .. n : up[j] # Unsubscribe(feeds[m].sid)
    BY <1>1, <1>4 DEF Asked
  <2>2. i \in 0 .. n + k /\ (IF i = 0 THEN feeds[m] # NoFeed ELSE up'[i] = Subscribe(m))
    BY <1>2, <2>1
  <2>3. \A j \in i + 1 .. n + k : up'[j] # Unsubscribe(feeds[m].sid)
    BY <1>2, <1>3, <2>1
  <2> QED
    BY <1>2, <2>2, <2>3 DEF Asked
<1>5. ASSUME NEW i \in 1 .. k, c[i] = Subscribe(m) PROVE Asked(m)'
  <2>1. n + i \in 0 .. n + k /\ n + i # 0 /\ up'[n + i] = Subscribe(m)
    BY <1>2, <1>5
  <2>2. \A j \in (n + i) + 1 .. n + k : up'[j] # Unsubscribe(feeds[m].sid)
    BY <1>3
  <2> QED
    BY <1>2, <2>1, <2>2 DEF Asked
<1> QED
  BY <1>1, <1>4, <1>5

LEMMA SubscribingStillAsked ==
  ASSUME TypeInv, NEW c \in Seq(Commands), Send(c),
         \A i \in 1 .. Len(c) : \E k \in Markets : c[i] = Subscribe(k),
         NEW m \in Markets, Asked(m) \/ \E i \in 1 .. Len(c) : c[i] = Subscribe(m)
  PROVE  Asked(m)'
<1>1. \A i \in 1 .. Len(c) : c[i] # Unsubscribe(feeds[m].sid)
  BY CommandsDiffer
<1> QED
  BY <1>1, SendingStillAsked

\* A market's subscription outlives the end of another's.
LEMMA UnsubscribingStillAsked ==
  ASSUME TypeInv, SidInv, NEW x \in Markets, SendUnsubscribe(x), NEW m \in Markets, m # x, Asked(m)
  PROVE  Asked(m)'
<1> DEFINE c == IF sids[x] = None THEN << >> ELSE <<Unsubscribe(sids[x])>>
<1>1. c \in Seq(Commands) /\ Send(c)
  BY UnsubscribeTyped DEF SendUnsubscribe
<1>2. sids[x] = None => Len(c) = 0
  OBVIOUS
<1>3. sids[x] # None => Len(c) = 1 /\ c[1] = Unsubscribe(sids[x])
  OBVIOUS
<1> HIDE DEF c
<1>4. sids[x] # None => \A i \in 1 .. Len(c) : c[i] = Unsubscribe(sids[x])
  BY <1>3
<1>5. sids[x] # None => feeds[m].sid # sids[x]
  <2>1. CASE feeds[m] # NoFeed
    BY <2>1 DEF SidInv
  <2>2. CASE feeds[m] = NoFeed
    BY <2>2, FeedsTyped
  <2> QED
    BY <2>1, <2>2
<1>6. \A i \in 1 .. Len(c) : c[i] # Unsubscribe(feeds[m].sid)
  <2>1. CASE sids[x] = None
    BY <1>2, <2>1
  <2>2. CASE sids[x] # None
    BY <1>4, <1>5, <2>2, CommandsDiffer
  <2> QED
    BY <2>1, <2>2
<1> QED
  BY <1>1, <1>6, SendingStillAsked

LEMMA ServingStillAsked ==
  ASSUME TypeInv, SidInv, Serve, NEW m \in Markets, Asked(m)
  PROVE  Asked(m)'
<1>1. PICK n \in Nat : n = Len(up)
  BY DownTyped
<1>2. /\ Len(up') = n - 1 /\ n >= 1 /\ Head(up) = up[1]
      /\ \A j \in 1 .. n - 1 : up'[j] = up[j + 1]
  <2>1. up # << >> /\ up' = Tail(up) /\ up \in Seq(Commands)
    BY DEF Serve, TypeInv, NetworkTyped
  <2> QED
    BY <1>1, <2>1
<1>3. \A j \in 1 .. n : up[j] # Unsubscribe(None) /\ up[j].sid \in Nat /\ up[j].sid <= lastSid
  <2>1. \A c \in Commands : c # Unsubscribe(None)
    <3> SUFFICES ASSUME NEW c \in Commands, c = Unsubscribe(None) PROVE FALSE
      OBVIOUS
    <3>1. c.cmd = "unsubscribe" /\ c.sid = None
      BY DEF Unsubscribe
    <3>2. c.sid \in Nat \ {0}
      BY <3>1, CommandsAre
    <3> QED
      BY <3>1, <3>2 DEF None
  <2>2. \A j \in 1 .. n : up[j] \in Commands
    BY <1>1 DEF TypeInv, NetworkTyped
  <2> QED
    BY <1>1, <2>1, <2>2, DownTyped DEF SidInv
<1>4. PICK i \in 0 .. n : /\ IF i = 0 THEN feeds[m] # NoFeed ELSE up[i] = Subscribe(m)
                          /\ \A j \in i + 1 .. n : up[j] # Unsubscribe(feeds[m].sid)
  BY <1>1 DEF Asked
\* The subscription it has, or gets now, is not among those ended later.
<1>5. CASE /\ feeds'[m] # NoFeed
           /\ \A j \in 2 .. n : up[j] # Unsubscribe(feeds'[m].sid)
  <2>1. \A j \in 1 .. n - 1 : up'[j] # Unsubscribe(feeds'[m].sid)
    <3> SUFFICES ASSUME NEW j \in 1 .. n - 1 PROVE up'[j] # Unsubscribe(feeds'[m].sid)
      OBVIOUS
    <3>1. j + 1 \in 2 .. n
      OBVIOUS
    <3> QED
      BY <1>2, <1>5, <3>1
  <2>2. 0 \in 0 .. Len(up') /\ \A j \in 0 + 1 .. Len(up') : up'[j] # Unsubscribe(feeds'[m].sid)
    BY <1>2, <2>1
  <2>3. IF 0 = 0 THEN feeds'[m] # NoFeed ELSE up'[0] = Subscribe(m)
    BY <1>5
  <2> QED
    BY <2>2, <2>3 DEF Asked
<1>6. CASE i >= 2 /\ (feeds'[m] = feeds[m] \/ feeds'[m] = NoFeed)
  <2>1. i - 1 \in 0 .. n - 1 /\ i - 1 # 0 /\ up'[i - 1] = Subscribe(m)
    <3>1. i - 1 \in 1 .. n - 1 /\ (i - 1) + 1 = i
      BY <1>6
    <3> QED
      BY <1>2, <1>4, <1>6, <3>1
  <2>2. \A j \in (i - 1) + 1 .. n - 1 : up'[j] # Unsubscribe(feeds'[m].sid)
    <3> SUFFICES ASSUME NEW j \in (i - 1) + 1 .. n - 1 PROVE up'[j] # Unsubscribe(feeds'[m].sid)
      OBVIOUS
    <3>1. j \in 1 .. n - 1 /\ j + 1 \in i + 1 .. n /\ j + 1 \in 1 .. n
      BY <1>6
    <3> QED
      BY <1>2, <1>3, <1>4, <1>6, <3>1, FeedsTyped
  <2> QED
    BY <1>2, <2>1, <2>2 DEF Asked
<1>7. ASSUME NEW k \in Markets, Head(up) = Subscribe(k), feeds[k] = NoFeed,
             feeds' = [feeds EXCEPT ![k] = Fresh]
      PROVE  Asked(m)'
  <2>1. CASE m = k
    <3>1. feeds'[m] = Fresh /\ Fresh # NoFeed /\ Fresh.sid = lastSid + 1 /\ lastSid \in Nat
      BY <1>7, <2>1, FeedsTyped DEF Fresh, NoFeed
    <3>2. \A j \in 2 .. n : up[j] # Unsubscribe(lastSid + 1)
      <4> SUFFICES ASSUME NEW j \in 2 .. n, up[j] = Unsubscribe(lastSid + 1) PROVE FALSE
        OBVIOUS
      <4>1. up[j].sid = lastSid + 1 /\ j \in 1 .. n
        BY CommandsDiffer
      <4> QED
        BY <1>3, <3>1, <4>1
    <3> QED
      BY <1>5, <3>1, <3>2
  <2>2. CASE m # k
    <3>1. feeds'[m] = feeds[m]
      BY <1>7, <2>2, FeedsTyped
    <3>2. i # 1
      BY <1>2, <1>4, <1>7, <2>2, CommandsDiffer
    <3>3. CASE i = 0
      BY <1>4, <1>5, <3>1, <3>3
    <3> QED
      BY <1>6, <3>1, <3>2, <3>3
  <2> QED
    BY <2>1, <2>2
<1>8. ASSUME NEW k \in Markets, Head(up) = Subscribe(k), feeds[k] # NoFeed, UNCHANGED feeds
      PROVE  Asked(m)'
  <2>1. CASE i = 0
    BY <1>4, <1>5, <1>8, <2>1
  <2>2. CASE i = 1
    <3>1. m = k
      BY <1>2, <1>4, <1>8, <2>2, CommandsDiffer
    <3> QED
      BY <1>4, <1>5, <1>8, <2>2, <3>1
  <2> QED
    BY <1>6, <1>8, <2>1, <2>2
<1>9. ASSUME NEW s \in Nat \ {0}, Head(up) = Unsubscribe(s),
             feeds' = [k \in Markets |-> IF feeds[k].sid = s THEN NoFeed ELSE feeds[k]]
      PROVE  Asked(m)'
  <2>1. i # 1
    BY <1>2, <1>4, <1>9, CommandsDiffer
  <2>2. CASE i = 0
    <3>1. feeds[m].sid # s
      BY <1>2, <1>4, <1>9, <2>2
    <3>2. feeds'[m] = feeds[m]
      BY <1>9, <3>1
    <3> QED
      BY <1>4, <1>5, <2>2, <3>2
  <2> QED
    BY <1>6, <1>9, <2>1, <2>2
<1> QED
  BY <1>7, <1>8, <1>9, Served

LEMMA NextAsked ==
  ASSUME TypeInv, ControlInv, SidInv, AskedInv, [Next]_vars
  PROVE  AskedInv'
<1> SUFFICES ASSUME connected', sock' = "open", NEW m \in Markets, Due(m)' PROVE Asked(m)'
  BY DEF AskedInv
<1>1. CASE Connect
  <2>1. reader'.pc = "resubscribe" /\ m \in subscribedMarkets'
    BY <1>1 DEF Connect, ReaderAt, TypeInv, ReaderTyped, Due, Tracked
  <2> QED
    BY <2>1 DEF Due
<1>2. CASE ~ Connect
  <2>1. connected /\ sock = "open"
    BY <1>2, ConnectedBefore
  <2>2. ~ SendRaises /\ ~ SocketCloses
    BY <2>1 DEF SendRaises, SocketCloses
  <2>3. ~ ResyncFails
    BY <2>1, <2>2 DEF ResyncFails, SendUnsubscribeRaises
  <2>4. CASE ResubscribeAll
    <3>1. /\ Resubscriptions \in Seq(Commands) /\ Send(Resubscriptions)
          /\ \A i \in 1 .. Len(Resubscriptions) : \E k \in Markets : Resubscriptions[i] = Subscribe(k)
          /\ m \in subscribedMarkets => \E i \in 1 .. Len(Resubscriptions) : Resubscriptions[i] = Subscribe(m)
      BY <2>2, <2>4, ResubscriptionsTyped DEF ResubscribeAll, Resubscriptions
    <3>2. m \notin subscribedMarkets => Due(m)
      BY <2>3, <2>4, DueBefore DEF ResyncSubscribe, SubscribeToMarket, ResubscribeAll, client, Due, Tracked,
         Kept, Resyncing
    <3> QED
      BY <2>1, <3>1, <3>2, SubscribingStillAsked DEF AskedInv
  <2>5. CASE ~ ResubscribeAll /\ (ResyncSubscribe \/ SubscribeToMarket)
    <3>1. PICK k \in Markets : /\ Send(<<Subscribe(k)>>)
                               /\ ResyncSubscribe => k = reader.msg.market
                               /\ SubscribeToMarket => k = loop.market
      <4>1. CASE ResyncSubscribe
        <5>1. reader.msg.market \in Markets /\ ~ SubscribeToMarket
          BY <4>1 DEF ResyncSubscribe, SubscribeToMarket, TypeInv, ReaderTyped, Messages, ReaderDone
        <5> QED
          BY <4>1, <5>1 DEF ResyncSubscribe
      <4>2. CASE SubscribeToMarket
        <5>1. loop.market \in Markets /\ ~ ResyncSubscribe
          BY <4>2 DEF ResyncSubscribe, SubscribeToMarket, TypeInv, LoopTyped, ReaderDone
        <5> QED
          BY <4>2, <5>1 DEF SubscribeToMarket
      <4> QED
        BY <2>5, <4>1, <4>2
    <3> DEFINE c == <<Subscribe(k)>>
    <3>2. /\ c \in Seq(Commands) /\ Send(c)
          /\ \A i \in 1 .. Len(c) : c[i] = Subscribe(k)
          /\ 1 \in 1 .. Len(c)
      BY <3>1 DEF Commands
    <3>3. m = k \/ Due(m)
      BY <2>3, <2>5, <3>1, DueBefore
    <3> HIDE DEF c
    <3> QED
      BY <2>1, <3>2, <3>3, SubscribingStillAsked DEF AskedInv
  <2>6. CASE ~ (ResubscribeAll \/ ResyncSubscribe \/ SubscribeToMarket)
    <3>1. Asked(m)
      BY <2>1, <2>3, <2>6, DueBefore DEF AskedInv
    <3>2. CASE UNCHANGED <<up, feeds>>
      BY <3>1, <3>2, StillAsked
    <3>3. CASE ResyncUnsubscribe
      <4>1. reader.pc = "resync" /\ reader' = [reader EXCEPT !.pc = "resyncSubscribe"]
        BY <3>3 DEF ResyncUnsubscribe, ReaderAt
      <4>2. reader'.pc = "resyncSubscribe" /\ reader'.msg = reader.msg
        BY <4>1 DEF TypeInv, ReaderTyped
      <4>3. reader.msg.market \in Markets /\ m # reader.msg.market
        BY <4>1, <4>2 DEF TypeInv, ReaderTyped, Messages, Due, Resyncing
      <4> QED
        BY <3>1, <3>3, <4>3, UnsubscribingStillAsked DEF ResyncUnsubscribe
    <3>4. ASSUME NEW x \in Markets, PruneStaleMarket(x) PROVE Asked(m)'
      <4>1. x \in over' /\ loop'.pc = "drop" /\ loop'.expired = x
        BY <3>4 DEF PruneStaleMarket, TypeInv, LoopTyped
      <4>2. m # x
        BY <4>1 DEF Due, Kept
      <4>3. SendUnsubscribe(x)
        BY <2>1, <2>2, <3>4 DEF PruneStaleMarket, SendUnsubscribeRaises
      <4> QED
        BY <3>1, <4>2, <4>3, UnsubscribingStillAsked
    <3>5. CASE ReaderStep
      <4>1. CASE \/ Receive \/ ApplySnapshot \/ ApplyDelta \/ DeltaWithoutBook \/ SequenceGap
                 \/ OnClose \/ OnCloseClears \/ ReaderEnds
        BY <3>2, <4>1 DEF Receive, ApplySnapshot, ApplyDelta, DeltaWithoutBook, SequenceGap,
           OnClose, OnCloseClears, ReaderEnds, network
      <4> QED
        BY <1>2, <2>3, <2>6, <3>3, <3>5, <4>1 DEF ReaderStep
    <3>6. CASE LoopStep
      <4>1. CASE \/ \E k \in Markets : Ask(k)
                 \/ SubscribeFails \/ AddSubscribed \/ DropPruned \/ GetLatestOrderbook \/ FindStale \/ Invalidate
        BY <3>2, <4>1 DEF Ask, SubscribeFails, AddSubscribed, DropPruned, GetLatestOrderbook, FindStale,
           Invalidate, network
      <4> QED
        BY <2>2, <2>6, <3>4, <3>6, <4>1 DEF LoopStep, CloseStale, Stop
    <3>7. ASSUME NEW k \in Markets, BookChanges(k) PROVE Asked(m)'
      <4>1. UNCHANGED up
        BY <3>7, Changed
      <4>2. feeds'[m].sid = feeds[m].sid /\ (feeds'[m] = NoFeed => feeds[m] = NoFeed)
        <5>1. feeds[k] # NoFeed => \A b : [sid |-> feeds[k].sid, seq |-> feeds[k].seq + 1, missed |-> b] # NoFeed
          BY FeedsTyped DEF NoFeed
        <5> QED
          BY <3>7, <5>1, Changed, FeedsTyped
      <4> QED
        BY <3>1, <4>1, <4>2, StillAsked
    <3>8. CASE (\E k \in Markets : Expire(k)) \/ UNCHANGED vars
      BY <3>2, <3>8 DEF Expire, network, vars
    <3> QED
      BY <2>2, <3>1, <3>5, <3>6, <3>7, <3>8, ServingStillAsked DEF Next, NetworkFails
  <2> QED
    BY <2>4, <2>5, <2>6
<1> QED
  BY <1>1, <1>2

-----------------------------------------------------------------------------
(* Every subscription begins with a book. *)

LEMMA NextLosing ==
  ASSUME TypeInv, LosingInv, [Next]_vars
  PROVE  LosingInv'
<1>1. CASE Connect
  BY <1>1 DEF Connect, LosingInv
<1>2. CASE ~ Connect /\ UNCHANGED loop
  BY <1>2, ConnectedBefore DEF LosingInv
<1>3. CASE FindStale \/ Invalidate
  BY <1>3 DEF FindStale, Invalidate, LosingInv
<1>4. CASE LoopStep
  <2>1. CASE loop'.pc \notin {"invalidate", "close"}
    BY <2>1 DEF LosingInv
  <2>2. ASSUME NEW k \in Markets, Ask(k) \/ PruneStaleMarket(k) PROVE loop'.pc \in {"prune", "subscribe", "drop"}
    <3>1. Ask(k) => loop'.pc \in {"prune", "subscribe"}
      BY DEF Ask
    <3>2. PruneStaleMarket(k) => loop'.pc = "drop"
      BY DEF PruneStaleMarket, TypeInv, LoopTyped
    <3> QED
      BY <2>2, <3>1, <3>2
  <2>3. CASE SubscribeToMarket \/ SubscribeFails \/ AddSubscribed \/ DropPruned
    <3>1. loop'.pc \in {"add", "read", "prune"}
      BY <2>3 DEF SubscribeToMarket, SubscribeFails, AddSubscribed, DropPruned, LoopAt, TypeInv, LoopTyped
    <3> QED
      BY <2>1, <3>1
  <2>4. CASE GetLatestOrderbook \/ CloseStale
    BY <2>1, <2>4 DEF GetLatestOrderbook, CloseStale, LoopDone
  <2>5. CASE Stop
    BY <2>1, <2>5 DEF Stop
  <2> QED
    BY <1>3, <1>4, <2>1, <2>2, <2>3, <2>4, <2>5 DEF LoopStep
<1>5. CASE ReaderStep
  <2>1. UNCHANGED loop
    BY <1>5 DEF ReaderStep, Connect, ResubscribeAll, Receive, ApplySnapshot, ApplyDelta, DeltaWithoutBook,
       SequenceGap, ResyncUnsubscribe, ResyncSubscribe, ResyncFails, OnClose, OnCloseClears, ReaderEnds
  <2> QED
    BY <1>1, <1>2, <2>1
<1>6. CASE \/ Serve \/ NetworkFails \/ UNCHANGED vars
           \/ \E k \in Markets : BookChanges(k) \/ Expire(k)
  BY <1>1, <1>2, <1>6 DEF Serve, NetworkFails, BookChanges, Expire, vars
<1> QED
  BY <1>4, <1>5, <1>6 DEF Next

LEMMA NextReported ==
  ASSUME TypeInv, TypeInv', ReportedInv, [Next]_vars
  PROVE  ReportedInv'
<1> SUFFICES ASSUME reader'.pc = "apply", Kept(reader.msg.market)'
             PROVE  sids'[reader'.msg.market] = reader'.msg.sid
  BY DEF ReportedInv
<1>1. PICK m \in Markets : m = reader'.msg.market
  BY DEF TypeInv, ReaderTyped, Messages
<1>2. Kept(m)'
  BY <1>1 DEF Kept
<1>3. Kept(m)
  BY <1>2, KeptBefore
<1>4. CASE UNCHANGED <<reader, sids>>
  BY <1>1, <1>3, <1>4 DEF ReportedInv
<1>5. CASE Receive
  <2>1. /\ reader'.msg = Head(down) /\ sids' = [sids EXCEPT ![Head(down).market] = Head(down).sid]
        /\ sids \in [Markets -> Nat]
    BY <1>5 DEF Receive, TypeInv, ClientTyped
  <2> QED
    BY <1>1, <2>1
<1>6. CASE ReaderStep
  <2>1. \/ Receive
        \/ reader'.pc # "apply"
    <3>1. CASE ResubscribeAll \/ ApplySnapshot \/ ApplyDelta \/ DeltaWithoutBook \/ ResyncSubscribe \/ ResyncFails
      BY <3>1 DEF ResubscribeAll, ApplySnapshot, ApplyDelta, DeltaWithoutBook, ResyncSubscribe, ResyncFails, ReaderDone
    <3>2. CASE Connect \/ SequenceGap \/ ResyncUnsubscribe \/ OnClose \/ OnCloseClears \/ ReaderEnds
      <4>1. reader'.pc \in {"resubscribe", "resync", "resyncSubscribe", "clear", "backoff", "ended"}
        BY <3>2 DEF Connect, SequenceGap, ResyncUnsubscribe, OnClose, OnCloseClears, ReaderEnds, ReaderAt,
           TypeInv, ReaderTyped
      <4> QED
        BY <4>1
    <3> QED
      BY <1>6, <3>1, <3>2 DEF ReaderStep
  <2> QED
    BY <1>5, <2>1
<1>7. ASSUME NEW x \in Markets, PruneStaleMarket(x) PROVE sids'[m] = sids[m] /\ UNCHANGED reader
  <2>1. x \in over' /\ loop'.pc = "drop" /\ loop'.expired = x
    BY <1>7 DEF PruneStaleMarket, TypeInv, LoopTyped
  <2>2. m # x
    BY <1>2, <2>1 DEF Kept
  <2> QED
    BY <1>7, <2>2 DEF PruneStaleMarket, SendUnsubscribe, SendUnsubscribeRaises, TypeInv, ClientTyped
<1>8. CASE DropPruned
  <2>1. loop.expired \in over' /\ loop.expired \notin subscribedMarkets'
    BY <1>8 DEF DropPruned, TypeInv, LoopTyped
  <2>2. m # loop.expired
    BY <1>2, <2>1 DEF Kept
  <2>3. sids'[m] = sids[m] /\ UNCHANGED reader
    BY <1>8, <2>2 DEF DropPruned, TypeInv, ClientTyped
  <2> QED
    BY <1>1, <1>3, <2>3 DEF ReportedInv
<1>9. CASE LoopStep
  <2>1. CASE \/ \E k \in Markets : Ask(k)
             \/ SubscribeToMarket \/ SubscribeFails \/ AddSubscribed \/ GetLatestOrderbook
             \/ FindStale \/ Invalidate \/ CloseStale \/ Stop
    BY <1>4, <2>1 DEF Ask, SubscribeToMarket, SubscribeFails, AddSubscribed, GetLatestOrderbook,
       FindStale, Invalidate, CloseStale, Stop, client
  <2>2. ASSUME NEW x \in Markets, PruneStaleMarket(x) PROVE sids'[m] = reader'.msg.sid
    BY <1>1, <1>3, <1>7, <2>2 DEF ReportedInv
  <2> QED
    BY <1>1, <1>8, <1>9, <2>1, <2>2 DEF LoopStep
<1>10. CASE \/ Serve \/ NetworkFails \/ UNCHANGED vars
            \/ \E k \in Markets : BookChanges(k) \/ Expire(k)
  BY <1>4, <1>10 DEF Serve, NetworkFails, BookChanges, Expire, vars, client
<1> QED
  BY <1>6, <1>9, <1>10 DEF Next

LEMMA SameStream ==
  ASSUME TypeInv, UNCHANGED down, reader' = reader \/ (reader.pc # "apply" /\ reader'.pc # "apply")
  PROVE  /\ InFlight' = InFlight
         /\ \A i \in InFlight : At(i)' = At(i)
<1>1. CASE reader' = reader
  BY <1>1 DEF InFlight, At
<1>2. CASE reader.pc # "apply" /\ reader'.pc # "apply"
  <2>1. InFlight' = InFlight /\ \A i \in InFlight : i # 0
    BY <1>2, DownTyped DEF InFlight
  <2> QED
    BY <2>1 DEF At
<1> QED
  BY <1>1, <1>2

\* Nothing handled, the same book, and not the one to be resynchronised.
LEMMA StillBegun ==
  ASSUME TypeInv, UNCHANGED down, reader' = reader \/ (reader.pc # "apply" /\ reader'.pc # "apply"),
         NEW m \in Markets, orderbooks'[m] = orderbooks[m], Begun(m),
         reader.pc = "resync" /\ reader.msg.market = m =>
           reader' = reader /\ sids'[m] = sids[m] /\ feeds'[m] = feeds[m]
  PROVE  Begun(m)'
<1>1. InFlight' = InFlight /\ \A i \in InFlight : At(i)' = At(i)
  BY SameStream
<1>2. \A i \in InFlight : IsSnapshot(i, m) => IsSnapshot(i, m)'
  BY <1>1 DEF IsSnapshot
<1> QED
  BY <1>1, <1>2 DEF Begun

\* What is live after a command was sent was live before, and not given up by it.
LEMMA LiveBeforeSend ==
  ASSUME TypeInv, NEW c \in Seq(Commands), Send(c), NEW m \in Markets, Live(m)'
  PROVE  Live(m) /\ \A i \in 1 .. Len(c) : c[i] # Unsubscribe(feeds[m].sid)
<1>1. PICK n \in Nat, k \in Nat : n = Len(up) /\ k = Len(c)
  BY Sent
<1>2. /\ DOMAIN up' = 1 .. n + k /\ DOMAIN up = 1 .. n
      /\ \A i \in 1 .. n : up'[i] = up[i]
      /\ \A i \in 1 .. k : up'[n + i] = c[i]
      /\ UNCHANGED feeds
  BY <1>1, Sent, DownTyped DEF Send
<1>3. \A i \in 1 .. n + k : up'[i] # Unsubscribe(feeds[m].sid)
  BY <1>2 DEF Live, Unsubscribing
<1>4. \A i \in 1 .. n : up[i] # Unsubscribe(feeds[m].sid)
  <2>1. \A i \in 1 .. n : i \in 1 .. n + k
    OBVIOUS
  <2> QED
    BY <1>2, <1>3, <2>1
<1>5. \A i \in 1 .. k : c[i] # Unsubscribe(feeds[m].sid)
  <2>1. \A i \in 1 .. k : n + i \in 1 .. n + k
    OBVIOUS
  <2> QED
    BY <1>2, <1>3, <2>1
<1> QED
  BY <1>1, <1>2, <1>4, <1>5 DEF Live, Unsubscribing

LEMMA LiveBeforeUnsubscribe ==
  ASSUME TypeInv, NEW x \in Markets, SendUnsubscribe(x), NEW m \in Markets, Live(m)'
  PROVE  Live(m) /\ feeds[m].sid # sids[x]
<1> DEFINE c == IF sids[x] = None THEN << >> ELSE <<Unsubscribe(sids[x])>>
<1>1. c \in Seq(Commands) /\ Send(c)
  BY UnsubscribeTyped DEF SendUnsubscribe
<1>2. sids[x] # None => 1 \in 1 .. Len(c) /\ c[1] = Unsubscribe(sids[x])
  OBVIOUS
<1> HIDE DEF c
<1>3. Live(m) /\ \A i \in 1 .. Len(c) : c[i] # Unsubscribe(feeds[m].sid)
  BY <1>1, LiveBeforeSend
<1>4. feeds[m].sid # None
  BY <1>3, FeedsTyped DEF Live
<1> QED
  BY <1>2, <1>3, <1>4

\* A gap is found in the subscription whose messages come in, while they do.
LEMMA GapBegins ==
  ASSUME TypeInv, TypeInv', BookInv, ReportedInv, SequenceGap, NEW m \in Markets,
         Live(m), Kept(m), Begun(m)
  PROVE  Begun(m)'
<1> DEFINE x == reader.msg.market
<1>1. /\ reader.pc = "apply" /\ reader.msg.type = "orderbook_delta" /\ x \in Markets
      /\ UNCHANGED <<sids, feeds, down>>
      /\ reader' = [reader EXCEPT !.pc = "resync"]
  BY DEF SequenceGap, ReaderAt, network, TypeInv, ReaderTyped, Messages
<1>2. reader'.pc = "resync" /\ reader'.msg = reader.msg
  BY <1>1 DEF TypeInv, ReaderTyped
<1>3. Consumes
  BY HandlesMessage
<1>4. /\ InFlight = {0} \union InFlight' /\ InFlight' = 1 .. Len(down) /\ Len(down) \in Nat
      /\ \A i \in InFlight' : At(i)' = At(i)
      /\ At(0) = reader.msg
  BY <1>3, ConsumedStream
<1>5. ~ IsSnapshot(0, m)
  BY <1>1, <1>4 DEF IsSnapshot
<1>6. CASE \E i \in InFlight : IsSnapshot(i, m)
  <2>1. PICK i \in InFlight' : IsSnapshot(i, m)
    BY <1>4, <1>5, <1>6
  <2>2. IsSnapshot(i, m)'
    BY <1>4, <2>1 DEF IsSnapshot
  <2> QED
    BY <2>2 DEF Begun
<1>7. CASE m # x
  <2>1. orderbooks'[m] = orderbooks[m]
    BY <1>3, <1>7 DEF Consumes, Arrived
  <2> QED
    BY <1>1, <1>6, <2>1 DEF Begun
<1>8. CASE m = x /\ ~ \E i \in InFlight : IsSnapshot(i, m)
  <2>1. NoSnapshot(m, 0, Len(down))
    BY <1>8 DEF NoSnapshot
  <2>2. reader.msg.sid = feeds[m].sid
    BY <1>4, <1>8, <2>1 DEF BookInv, StreamInv, Live
  <2>3. sids[m] = feeds[m].sid
    BY <1>1, <1>8, <2>2 DEF ReportedInv
  <2> QED
    BY <1>1, <1>2, <1>8, <2>3 DEF Begun
<1> QED
  BY <1>6, <1>7, <1>8

LEMMA NextHead ==
  ASSUME TypeInv, TypeInv', ControlInv, BookInv, LosingInv, ReportedInv, HeadInv, [Next]_vars
  PROVE  HeadInv'
<1> SUFFICES ASSUME connected', sock' = "open", NEW m \in Markets, Live(m)', Kept(m)' PROVE Begun(m)'
  BY DEF HeadInv
<1>1. Kept(m)
  BY KeptBefore
<1>2. CASE Connect
  <2>1. feeds' = [k \in Markets |-> NoFeed]
    BY <1>2 DEF Connect, ControlInv, ReaderInv, SocketInv
  <2> QED
    BY <2>1 DEF Live
<1>3. CASE ~ Connect
  <2>1. connected /\ sock = "open" /\ (Live(m) => Begun(m))
    BY <1>1, <1>3, ConnectedBefore DEF HeadInv
  <2>2. ~ SendRaises /\ ~ SocketCloses /\ ~ Invalidate /\ loop.pc # "invalidate"
    BY <2>1 DEF SendRaises, SocketCloses, Invalidate, LosingInv
  <2>3. ~ ResyncFails
    BY <2>1, <2>2 DEF ResyncFails, SendUnsubscribeRaises
  <2>4. UNCHANGED <<up, feeds>> => Live(m)
    BY DEF Live, Unsubscribing
  <2>5. CASE UNCHANGED <<up, down, feeds, sids, reader, orderbooks>>
    BY <2>1, <2>5, StillBegun DEF Live, Unsubscribing
  <2>6. CASE ResubscribeAll \/ ResyncSubscribe \/ SubscribeToMarket
    <3>1. \E c \in Seq(Commands) : Send(c)
      <4>1. CASE ResubscribeAll
        BY <2>2, <4>1, ResubscriptionsTyped DEF ResubscribeAll, Resubscriptions
      <4>2. CASE ResyncSubscribe
        <5>1. reader.msg.market \in Markets
          BY <4>2 DEF ResyncSubscribe, TypeInv, ReaderTyped, Messages
        <5>2. <<Subscribe(reader.msg.market)>> \in Seq(Commands)
          BY <5>1 DEF Commands
        <5> QED
          BY <4>2, <5>2 DEF ResyncSubscribe
      <4>3. CASE SubscribeToMarket
        <5>1. loop.market \in Markets
          BY <4>3 DEF SubscribeToMarket, TypeInv, LoopTyped
        <5>2. <<Subscribe(loop.market)>> \in Seq(Commands)
          BY <5>1 DEF Commands
        <5> QED
          BY <4>3, <5>2 DEF SubscribeToMarket
      <4> QED
        BY <2>6, <4>1, <4>2, <4>3
    <3>2. Live(m) /\ UNCHANGED <<down, feeds>>
      BY <3>1, LiveBeforeSend DEF Send
    <3>3. UNCHANGED <<orderbooks, sids>>
      BY <2>6 DEF ResubscribeAll, ResyncSubscribe, SubscribeToMarket, client
    <3>4. UNCHANGED reader \/ (reader.pc \in {"resubscribe", "resyncSubscribe"} /\ reader'.pc = "idle")
      <4>1. ResubscribeAll => reader.pc = "resubscribe" /\ reader'.pc = "idle"
        BY DEF ResubscribeAll, ReaderDone
      <4>2. ResyncSubscribe => reader.pc = "resyncSubscribe" /\ reader'.pc = "idle"
        BY DEF ResyncSubscribe, ReaderDone
      <4>3. SubscribeToMarket => UNCHANGED reader
        BY DEF SubscribeToMarket
      <4> QED
        BY <2>6, <4>1, <4>2, <4>3
    <3> QED
      BY <2>1, <3>2, <3>3, <3>4, StillBegun
  <2>7. CASE ResyncUnsubscribe
    <3>1. reader.pc = "resync" /\ reader' = [reader EXCEPT !.pc = "resyncSubscribe"]
          /\ UNCHANGED orderbooks /\ reader.msg.market \in Markets
          /\ SendUnsubscribe(reader.msg.market)
      BY <2>7 DEF ResyncUnsubscribe, ReaderAt, books, TypeInv, ReaderTyped, Messages
    <3>2. reader'.pc = "resyncSubscribe"
      BY <3>1 DEF TypeInv, ReaderTyped
    <3>3. Live(m) /\ feeds[m].sid # sids[reader.msg.market] /\ UNCHANGED <<down, feeds>>
      BY <3>1, LiveBeforeUnsubscribe DEF SendUnsubscribe, Send
    <3>4. InFlight' = InFlight /\ \A i \in InFlight : At(i)' = At(i)
      BY <3>1, <3>2, <3>3, SameStream
    <3>5. orderbooks[m] # NoBook \/ \E i \in InFlight : IsSnapshot(i, m)
      BY <2>1, <3>3 DEF Begun
    <3> QED
      BY <3>1, <3>4, <3>5 DEF Begun, IsSnapshot
  <2>8. CASE Receive
    <3>1. Live(m)
      BY <2>8 DEF Receive, Live, Unsubscribing
    <3>2. /\ reader'.msg = down[1] /\ \A i \in 1 .. Len(down) - 1 : down'[i] = down[i + 1]
          /\ InFlight = 1 .. Len(down) /\ InFlight' = 0 .. Len(down) - 1
          /\ Len(down) \in Nat /\ UNCHANGED orderbooks /\ reader.pc = "idle"
      BY <2>8, HeadTyped DEF Receive, InFlight
    <3>3. \A i \in InFlight : i - 1 \in InFlight' /\ At(i - 1)' = At(i)
      <4> SUFFICES ASSUME NEW i \in InFlight PROVE i - 1 \in InFlight' /\ At(i - 1)' = At(i)
        OBVIOUS
      <4>1. i \in 1 .. Len(down) /\ i - 1 \in 0 .. Len(down) - 1 /\ (i - 1) + 1 = i
        BY <3>2
      <4>2. CASE i = 1
        BY <3>2, <4>1, <4>2 DEF At
      <4>3. CASE i # 1
        <5>1. i - 1 \in 1 .. Len(down) - 1
          BY <4>1, <4>3
        <5>2. down'[i - 1] = down[i] /\ i # 0 /\ i - 1 # 0
          BY <3>2, <4>1, <5>1
        <5> QED
          BY <3>2, <4>1, <5>2 DEF At
      <4> QED
        BY <4>2, <4>3
    <3>4. \A i \in InFlight : IsSnapshot(i, m) => IsSnapshot(i - 1, m)'
      BY <3>3 DEF IsSnapshot
    <3> QED
      BY <2>1, <3>1, <3>2, <3>3, <3>4 DEF Begun
  <2>9. CASE ApplySnapshot \/ ApplyDelta \/ DeltaWithoutBook
    <3>1. Live(m) /\ reader.pc = "apply"
      BY <2>9 DEF ApplySnapshot, ApplyDelta, DeltaWithoutBook, network, Live, Unsubscribing
    <3>2. Consumes
      BY <2>9, HandlesMessage
    <3>3. /\ InFlight = {0} \union InFlight'
          /\ \A i \in InFlight' : At(i)' = At(i)
          /\ At(0) = reader.msg
      BY <3>2, ConsumedStream
    <3>4. \A i \in InFlight' : IsSnapshot(i, m) => IsSnapshot(i, m)'
      BY <3>3 DEF IsSnapshot
    <3>5. CASE reader.msg.market # m
      <4>1. orderbooks'[m] = orderbooks[m]
        BY <3>2, <3>5 DEF Consumes, Arrived
      <4>2. ~ IsSnapshot(0, m)
        BY <3>3, <3>5 DEF IsSnapshot
      <4> QED
        BY <2>1, <3>1, <3>3, <3>4, <4>1, <4>2 DEF Begun
    <3>6. CASE reader.msg.market = m /\ (ApplySnapshot \/ ApplyDelta)
      <4>1. orderbooks'[m] = reader.msg.version
        <5>1. CASE ApplySnapshot
          BY <3>6, <5>1 DEF ApplySnapshot, StoreBook, TypeInv, ClientTyped
        <5>2. CASE ApplyDelta
          BY <3>6, <5>2, DeltaFits
        <5> QED
          BY <3>6, <5>1, <5>2
      <4>2. reader.msg.version \in Nat
        BY <3>1 DEF TypeInv, ReaderTyped, Messages
      <4> QED
        BY <4>1, <4>2, SpecialBooks DEF Begun
    <3>7. CASE DeltaWithoutBook
      <4>1. orderbooks'[m] = orderbooks[m] /\ ~ IsSnapshot(0, m)
        BY <3>3, <3>7 DEF DeltaWithoutBook, IsSnapshot, client, books
      <4> QED
        BY <2>1, <3>1, <3>3, <3>4, <4>1 DEF Begun
    <3> QED
      BY <2>9, <3>5, <3>6, <3>7
  <2>10. CASE SequenceGap
    <3>1. Live(m)
      BY <2>10 DEF SequenceGap, network, Live, Unsubscribing
    <3> QED
      BY <1>1, <2>1, <2>10, <3>1, GapBegins
  <2>11. CASE ReaderStep
    <3>1. CASE OnClose \/ OnCloseClears \/ ReaderEnds
      BY <2>1, <3>1 DEF OnClose, OnCloseClears, ReaderEnds, ControlInv, ReaderInv
    <3> QED
      BY <1>3, <2>3, <2>6, <2>7, <2>8, <2>9, <2>10, <2>11, <3>1 DEF ReaderStep
  <2>12. ASSUME NEW x \in Markets, PruneStaleMarket(x) PROVE Begun(m)'
    <3>1. x \in over' /\ loop'.pc = "drop" /\ loop'.expired = x
      BY <2>12 DEF PruneStaleMarket, TypeInv, LoopTyped
    <3>2. m # x
      BY <3>1 DEF Kept
    <3>3. SendUnsubscribe(x) /\ UNCHANGED <<orderbooks, reader>>
      BY <2>1, <2>2, <2>12 DEF PruneStaleMarket, SendUnsubscribeRaises, books
    <3>4. Live(m) /\ UNCHANGED <<down, feeds>>
      BY <3>3, LiveBeforeUnsubscribe DEF SendUnsubscribe, Send
    <3>5. sids'[m] = sids[m]
      BY <3>2, <3>3 DEF SendUnsubscribe, TypeInv, ClientTyped
    <3> QED
      BY <2>1, <3>3, <3>4, <3>5, StillBegun
  <2>13. CASE DropPruned
    <3>1. loop.expired \in over' /\ loop.expired \notin subscribedMarkets'
      BY <2>13 DEF DropPruned, TypeInv, LoopTyped
    <3>2. m # loop.expired
      BY <3>1 DEF Kept
    <3>3. /\ UNCHANGED <<up, down, feeds, reader>>
          /\ sids'[m] = sids[m] /\ orderbooks'[m] = orderbooks[m]
      BY <2>13, <3>2 DEF DropPruned, DropBook, network, TypeInv, ClientTyped
    <3> QED
      BY <2>1, <2>4, <3>3, StillBegun DEF Live, Unsubscribing
  <2>14. CASE LoopStep
    <3>1. CASE \/ \E k \in Markets : Ask(k)
               \/ SubscribeFails \/ AddSubscribed \/ GetLatestOrderbook \/ FindStale
      BY <2>5, <3>1 DEF Ask, SubscribeFails, AddSubscribed, GetLatestOrderbook, FindStale, client, books, network
    <3> QED
      BY <2>2, <2>6, <2>12, <2>13, <2>14, <3>1 DEF LoopStep, CloseStale, Stop
  <2>15. CASE Serve
    <3>1. UNCHANGED <<reader, orderbooks, sids>>
      BY <2>15 DEF Serve, client, books
    <3>2. /\ DOMAIN up' = 1 .. Len(up) - 1 /\ DOMAIN up = 1 .. Len(up) /\ Len(up) \in Nat
          /\ Head(up) = up[1]
          /\ \A i \in DOMAIN up' : up'[i] = up[i + 1]
      <4>1. up # << >> /\ up' = Tail(up) /\ up \in Seq(Commands)
        BY <2>15 DEF Serve, TypeInv, NetworkTyped
      <4> QED
        BY <4>1, DownTyped
    \* No subscription but one just ended had its end under way at the head.
    <3>3. ASSUME feeds'[m] = feeds[m], Head(up) # Unsubscribe(feeds[m].sid) PROVE Live(m)
      <4>1. \A i \in DOMAIN up : i # 1 => i - 1 \in DOMAIN up' /\ up'[i - 1] = up[i]
        <5> SUFFICES ASSUME NEW i \in DOMAIN up, i # 1 PROVE i - 1 \in DOMAIN up' /\ up'[i - 1] = up[i]
          OBVIOUS
        <5>1. i \in 2 .. Len(up) /\ i - 1 \in 1 .. Len(up) - 1 /\ (i - 1) + 1 = i
          BY <3>2
        <5> QED
          BY <3>2, <5>1
      <4> QED
        BY <3>2, <3>3, <4>1 DEF Live, Unsubscribing
    <3>4. CASE UNCHANGED down /\ Live(m) /\ feeds'[m] = feeds[m]
      BY <2>1, <3>1, <3>4, StillBegun
    <3>5. ASSUME NEW k \in Markets, Head(up) = Subscribe(k), feeds[k] = NoFeed,
                 feeds' = [feeds EXCEPT ![k] = Fresh],
                 First(k) \in Messages, down' = Append(down, First(k))
          PROVE  Begun(m)'
      <4>1. PICK msg \in Messages : msg = First(k)
        BY <3>5
      <4>2. PICK n \in Nat : n = Len(down) + 1
        BY DownTyped
      <4>3. /\ InFlight' = InFlight \union {n} /\ At(n)' = msg
            /\ \A i \in InFlight : At(i)' = At(i)
        BY <3>1, <3>5, <4>1, <4>2, AppendedStream
      <4>4. CASE m = k
        <5>1. msg.type = "orderbook_snapshot" /\ msg.market = m
          BY <4>1, <4>4 DEF First
        <5>2. IsSnapshot(n, m)'
          BY <4>3, <5>1 DEF IsSnapshot
        <5> QED
          BY <4>3, <5>2 DEF Begun
      <4>5. CASE m # k
        <5>1. feeds'[m] = feeds[m] /\ Head(up) # Unsubscribe(feeds[m].sid)
          BY <3>5, <4>5, FeedsTyped, CommandsDiffer
        <5>2. Begun(m)
          BY <2>1, <3>3, <5>1
        <5>3. \A i \in InFlight : IsSnapshot(i, m) => IsSnapshot(i, m)'
          BY <4>3 DEF IsSnapshot
        <5> QED
          BY <3>1, <4>3, <5>1, <5>2, <5>3 DEF Begun
      <4> QED
        BY <4>4, <4>5
    <3>6. ASSUME NEW k \in Markets, Head(up) = Subscribe(k), UNCHANGED <<feeds, down>>
          PROVE  Begun(m)'
      <4>1. Head(up) # Unsubscribe(feeds[m].sid)
        BY <3>6, CommandsDiffer
      <4> QED
        BY <3>3, <3>4, <3>6, <4>1
    <3>7. ASSUME NEW s \in Nat \ {0}, Head(up) = Unsubscribe(s), UNCHANGED down,
                 feeds' = [k \in Markets |-> IF feeds[k].sid = s THEN NoFeed ELSE feeds[k]]
          PROVE  Begun(m)'
      <4>1. feeds'[m] # NoFeed
        BY DEF Live
      <4>2. feeds'[m] = feeds[m] /\ feeds[m].sid # s
        BY <3>7, <4>1
      <4>3. Head(up) # Unsubscribe(feeds[m].sid)
        BY <3>7, <4>2, CommandsDiffer
      <4> QED
        BY <3>3, <3>4, <3>7, <4>2, <4>3
    <3> QED
      BY <2>15, <3>5, <3>6, <3>7, Served
  <2>16. ASSUME NEW k \in Markets, BookChanges(k) PROVE Begun(m)'
    <3>1. UNCHANGED <<up, reader, orderbooks, sids>>
      BY <2>16, Changed DEF client, books
    <3>2. feeds'[m].sid = feeds[m].sid /\ (feeds[m] = NoFeed => feeds'[m] = NoFeed)
      BY <2>16, Changed, FeedsTyped
    <3>3. Begun(m)
      BY <2>1, <3>1, <3>2 DEF Live, Unsubscribing
    <3>4. \A i \in InFlight : i \in InFlight' /\ At(i)' = At(i)
      <4>1. CASE UNCHANGED down
        BY <3>1, <4>1 DEF InFlight, At
      <4>2. CASE Told(k) \in Messages /\ down' = Append(down, Told(k))
        <5>1. PICK msg \in Messages : msg = Told(k)
          BY <4>2
        <5>2. PICK n \in Nat : n = Len(down) + 1
          BY DownTyped
        <5> QED
          BY <3>1, <4>2, <5>1, <5>2, AppendedStream
      <4> QED
        BY <2>16, <4>1, <4>2, Changed
    <3>5. \A i \in InFlight : IsSnapshot(i, m) => IsSnapshot(i, m)'
      BY <3>4 DEF IsSnapshot
    <3> QED
      BY <3>1, <3>2, <3>3, <3>4, <3>5 DEF Begun
  <2>17. CASE (\E k \in Markets : Expire(k)) \/ UNCHANGED vars
    BY <2>5, <2>17 DEF Expire, vars, client, books, network
  <2> QED
    BY <2>2, <2>11, <2>14, <2>15, <2>16, <2>17 DEF Next, NetworkFails
<1> QED
  BY <1>2, <1>3

-----------------------------------------------------------------------------
(* The last message is the present book. *)

LEMMA StillNewest ==
  ASSUME TypeInv, NewestInv, Keeps
  PROVE  NewestInv'
<1>1. InFlight' = InFlight /\ \A i \in InFlight : At(i)' = At(i) /\ At(i).market \in Markets
  BY SameStream, StreamTyped DEF Keeps
<1>2. \A m \in Markets, i \in Int : LastOf(m, i)' <=> LastOf(m, i)
  BY <1>1 DEF LastOf
<1>3. \A m \in Markets : Complete(m)' => Complete(m)
  BY DEF Keeps, Complete
<1>4. \A m \in Markets : orderbooks'[m] # NoBook => orderbooks'[m] = orderbooks[m]
  BY DEF Keeps, Arrived, Dropped
<1>5. \A i \in InFlight : i \in Int
  BY StreamTyped
<1> QED
  BY <1>1, <1>2, <1>3, <1>4, <1>5 DEF NewestInv, Keeps

LEMMA ReceivingNewest ==
  ASSUME TypeInv, NewestInv, Receive
  PROVE  NewestInv'
<1>1. /\ InFlight = 1 .. Len(down) /\ InFlight' = 0 .. Len(down) - 1 /\ Len(down) \in Nat
      /\ reader'.msg = down[1] /\ \A i \in 1 .. Len(down) - 1 : down'[i] = down[i + 1]
      /\ UNCHANGED <<orderbooks, version, feeds>>
  BY HeadTyped DEF Receive, InFlight
<1>2. \A i \in InFlight' : i + 1 \in InFlight /\ At(i)' = At(i + 1) /\ i \in Int
  BY <1>1 DEF At
<1>3. ASSUME NEW m \in Markets, NEW i \in Int, LastOf(m, i)' PROVE LastOf(m, i + 1)
  <2> SUFFICES ASSUME NEW j \in InFlight, i + 1 < j PROVE At(j).market # m
    BY DEF LastOf
  <2>1. j - 1 \in InFlight' /\ i < j - 1 /\ (j - 1) + 1 = j
    BY <1>1
  <2>2. At(j - 1)'.market # m
    BY <1>3, <2>1 DEF LastOf
  <2> QED
    BY <1>2, <2>1, <2>2
<1>4. \A m \in Markets : LastOf(m, -1)' => LastOf(m, -1)
  <2>1. \A m \in Markets : LastOf(m, 0) => LastOf(m, -1)
    BY <1>1 DEF LastOf
  <2> QED
    BY <1>3, <2>1
<1>5. \A m \in Markets : Complete(m)' <=> Complete(m)
  BY <1>1 DEF Complete
<1>6. \A i \in InFlight' : At(i + 1).market \in Markets
  BY <1>2, StreamTyped
<1>7. ASSUME NEW i \in InFlight', Complete(At(i).market)', LastOf(At(i).market, i)'
      PROVE  At(i)'.version = version'[At(i)'.market]
  <2>1. Complete(At(i + 1).market) /\ LastOf(At(i + 1).market, i + 1)
    BY <1>2, <1>3, <1>5, <1>6, <1>7 DEF Complete, LastOf
  <2> QED
    BY <1>1, <1>2, <2>1 DEF NewestInv
<1> QED
  BY <1>1, <1>4, <1>5, <1>7 DEF NewestInv

LEMMA HandlingNewest ==
  ASSUME TypeInv, NewestInv, Consumes, Stored \/ Dropped(reader.msg.market)
  PROVE  NewestInv'
<1> DEFINE x == reader.msg.market
<1>1. /\ InFlight = {0} \union InFlight' /\ InFlight' = 1 .. Len(down) /\ Len(down) \in Nat
      /\ \A i \in InFlight' : At(i)' = At(i) /\ At(i).market \in Markets /\ i \in Int /\ 0 < i
      /\ At(0) = reader.msg /\ x \in Markets
  BY ConsumedStream, StreamTyped
<1>2. \A m \in Markets, i \in Int : i >= 0 => (LastOf(m, i)' <=> LastOf(m, i))
  BY <1>1 DEF LastOf
<1>3. \A m \in Markets : LastOf(m, -1)' => LastOf(m, 0) /\ (m # x => LastOf(m, -1))
  BY <1>1 DEF LastOf
<1>4. \A m \in Markets : Complete(m)' <=> Complete(m)
  BY DEF Consumes, Complete
<1>5. UNCHANGED version /\ \A m \in Markets \ {x} : orderbooks'[m] = orderbooks[m]
  BY DEF Consumes, Arrived
<1> HIDE DEF x
<1>6. ASSUME NEW i \in InFlight', Complete(At(i).market)', LastOf(At(i).market, i)'
      PROVE  At(i)'.version = version'[At(i)'.market]
  <2>1. PICK m \in Markets : m = At(i).market
    BY <1>1
  <2>2. Complete(m)' /\ LastOf(m, i)'
    BY <1>1, <1>6, <2>1 DEF Complete, LastOf
  <2>3. Complete(m) /\ LastOf(m, i)
    BY <1>1, <1>2, <1>4, <2>2
  <2> QED
    BY <1>1, <1>5, <2>1, <2>3 DEF NewestInv
<1>7. ASSUME NEW m \in Markets, Complete(m)', orderbooks'[m] # NoBook, LastOf(m, -1)'
      PROVE  orderbooks'[m] = version'[m]
  <2>1. CASE m # x
    BY <1>3, <1>4, <1>5, <1>7, <2>1 DEF NewestInv
  <2>2. CASE m = x
    <3>1. orderbooks'[m] = reader.msg.version
      BY <1>7, <2>2 DEF Stored, Dropped, x
    <3>2. 0 \in InFlight /\ At(0).market = m /\ Complete(m) /\ LastOf(m, 0)
      BY <1>1, <1>3, <1>4, <1>7, <2>2 DEF x
    <3>3. At(0).version = version[m]
      BY <3>2 DEF NewestInv
    <3> QED
      BY <1>1, <1>5, <3>1, <3>3
  <2> QED
    BY <2>1, <2>2
<1> QED
  BY <1>6, <1>7 DEF NewestInv

\* A message with the present version is sent.
LEMMA AppendingNewest ==
  ASSUME TypeInv, NewestInv, NEW msg \in Messages, down' = Append(down, msg), UNCHANGED <<reader, orderbooks>>,
         NEW x \in Markets, msg.market = x, msg.version = version'[x],
         \A m \in Markets \ {x} : feeds'[m] = feeds[m] /\ version'[m] = version[m]
  PROVE  NewestInv'
<1>1. PICK n \in Nat : n = Len(down) + 1
  BY DownTyped
<1>2. /\ InFlight' = InFlight \union {n} /\ At(n)' = msg
      /\ \A i \in InFlight : At(i)' = At(i) /\ i < n /\ i \in Int
  BY <1>1, AppendedStream
<1>3. \A i \in Int : i < n => ~ LastOf(x, i)'
  BY <1>2 DEF LastOf
<1>4. \A m \in Markets \ {x}, i \in Int : LastOf(m, i)' => LastOf(m, i)
  BY <1>2 DEF LastOf
<1>5. \A m \in Markets \ {x} : Complete(m)' <=> Complete(m)
  BY DEF Complete
<1>6. ASSUME NEW i \in InFlight, Complete(At(i).market)', LastOf(At(i).market, i)'
      PROVE  At(i)'.version = version'[At(i)'.market]
  <2>1. PICK m \in Markets : m = At(i).market
    BY StreamTyped
  <2>2. Complete(m)' /\ LastOf(m, i)'
    BY <1>2, <1>6, <2>1 DEF Complete, LastOf
  <2>3. m # x
    BY <1>2, <1>3, <2>2
  <2>4. Complete(m) /\ LastOf(m, i)
    BY <1>2, <1>4, <1>5, <2>2, <2>3
  <2> QED
    BY <1>2, <2>1, <2>3, <2>4 DEF NewestInv
<1>7. At(n)'.version = version'[At(n)'.market]
  BY <1>2
<1>8. \A m \in Markets : Complete(m)' /\ orderbooks'[m] # NoBook /\ LastOf(m, -1)' => orderbooks'[m] = version'[m]
  <2>1. -1 \in Int /\ -1 < n
    OBVIOUS
  <2> QED
    BY <1>3, <1>4, <1>5, <2>1 DEF NewestInv
<1> QED
  BY <1>2, <1>6, <1>7, <1>8 DEF NewestInv

LEMMA ClosingNewest ==
  ASSUME TypeInv, SocketCloses, UNCHANGED reader
  PROVE  NewestInv'
<1>1. \A m \in Markets : ~ Complete(m)'
  BY DEF SocketCloses, Complete
<1>2. \A i \in InFlight' : At(i)'.market \in Markets
  <2> SUFFICES ASSUME NEW i \in InFlight' PROVE At(i)'.market \in Markets
    OBVIOUS
  <2>1. i = 0 /\ reader.pc = "apply"
    BY DEF SocketCloses, InFlight
  <2> QED
    BY <2>1 DEF At, TypeInv, ReaderTyped, Messages
<1>3. \A i \in InFlight' : ~ Complete(At(i).market)'
  <2> SUFFICES ASSUME NEW i \in InFlight' PROVE ~ Complete(At(i).market)'
    OBVIOUS
  <2>1. PICK m \in Markets : m = At(i)'.market
    BY <1>2
  <2> QED
    BY <1>1, <2>1 DEF Complete
<1> QED
  BY <1>1, <1>3 DEF NewestInv

LEMMA ServingNewest ==
  ASSUME TypeInv, NewestInv, Serve
  PROVE  NewestInv'
<1>1. UNCHANGED <<reader, orderbooks, sequences, version>>
  BY DEF Serve, client, books
<1>2. ASSUME NEW m \in Markets, feeds' = [feeds EXCEPT ![m] = Fresh],
             First(m) \in Messages, down' = Append(down, First(m))
      PROVE  NewestInv'
  <2>1. PICK msg \in Messages : msg = First(m)
    BY <1>2
  <2>2. msg.market = m /\ msg.version = version'[m] /\ down' = Append(down, msg)
    BY <1>1, <1>2, <2>1 DEF First
  <2>3. \A k \in Markets \ {m} : feeds'[k] = feeds[k]
    BY <1>2, FeedsTyped
  <2> QED
    BY <1>1, <2>2, <2>3, AppendingNewest
<1>3. CASE UNCHANGED down /\ \A k \in Markets : feeds'[k] \in {feeds[k], NoFeed}
  BY <1>1, <1>3, StillNewest DEF Keeps, Arrived
<1> QED
  BY <1>2, <1>3, Served

LEMMA ChangingNewest ==
  ASSUME TypeInv, NewestInv, NEW k \in Markets, BookChanges(k)
  PROVE  NewestInv'
<1>1. /\ UNCHANGED <<reader, orderbooks>>
      /\ version'[k] = version[k] + 1
      /\ \A m \in Markets \ {k} : version'[m] = version[m] /\ feeds'[m] = feeds[m]
  BY Changed, FeedsTyped DEF client, books, TypeInv, NetworkTyped
\* The subscriber is not told, if there is one.
<1>2. CASE UNCHANGED down /\ ~ Complete(k)'
  <2>1. InFlight' = InFlight /\ \A i \in InFlight : At(i)' = At(i) /\ At(i).market \in Markets /\ i \in Int
    BY <1>1, <1>2, SameStream, StreamTyped
  <2>2. \A m \in Markets, i \in Int : LastOf(m, i)' <=> LastOf(m, i)
    BY <2>1 DEF LastOf
  <2>3. \A m \in Markets : Complete(m)' => m # k /\ Complete(m)
    BY <1>1, <1>2 DEF Complete
  <2>4. ASSUME NEW i \in InFlight, Complete(At(i).market)', LastOf(At(i).market, i)'
        PROVE  At(i)'.version = version'[At(i)'.market]
    <3>1. PICK m \in Markets : m = At(i).market
      BY <2>1
    <3>2. Complete(m)' /\ LastOf(m, i)'
      BY <2>1, <2>4, <3>1 DEF Complete, LastOf
    <3>3. m # k /\ Complete(m) /\ LastOf(m, i)
      BY <2>1, <2>2, <2>3, <3>2
    <3> QED
      BY <1>1, <2>1, <3>1, <3>3 DEF NewestInv
  <2>5. \A m \in Markets : Complete(m)' /\ orderbooks'[m] # NoBook /\ LastOf(m, -1)' => orderbooks'[m] = version'[m]
    BY <1>1, <2>2, <2>3 DEF NewestInv
  <2> QED
    BY <2>1, <2>4, <2>5 DEF NewestInv
<1>3. CASE Told(k) \in Messages /\ down' = Append(down, Told(k))
  <2>1. PICK msg \in Messages : msg = Told(k)
    BY <1>3
  <2>2. msg.market = k /\ msg.version = version'[k] /\ down' = Append(down, msg)
    BY <1>1, <1>3, <2>1 DEF Told
  <2> QED
    BY <1>1, <2>2, AppendingNewest
<1>4. feeds' = [feeds EXCEPT ![k] = [sid |-> feeds[k].sid, seq |-> feeds[k].seq + 1, missed |-> TRUE]]
      => ~ Complete(k)'
  BY FeedsTyped DEF Complete
<1>5. feeds[k] = NoFeed /\ UNCHANGED feeds => ~ Complete(k)'
  BY DEF Complete
<1> QED
  BY <1>2, <1>3, <1>4, <1>5, Changed

LEMMA NextNewest ==
  ASSUME TypeInv, BookInv, NewestInv, [Next]_vars
  PROVE  NewestInv'
<1>1. CASE ReaderStep
  <2>1. CASE Receive
    BY <2>1, ReceivingNewest
  <2>2. CASE ApplySnapshot \/ ApplyDelta \/ DeltaWithoutBook \/ SequenceGap
    BY <2>2, HandlesMessage, HandlingNewest
  <2> QED
    BY <1>1, <2>1, <2>2, ReaderKeeps, StillNewest DEF ReaderStep
<1>2. CASE LoopStep
  BY <1>2, LoopKeeps, StillNewest, ClosingNewest
<1>3. CASE NetworkFails
  BY <1>3, ClosingNewest DEF NetworkFails
<1>4. ASSUME NEW m \in Markets, Expire(m) PROVE NewestInv'
  BY <1>4, StillNewest DEF Expire, Keeps, Arrived, network, books
<1>5. CASE UNCHANGED vars
  BY <1>5, StillNewest DEF vars, client, network, books, Keeps, Arrived
<1> QED
  BY <1>1, <1>2, <1>3, <1>4, <1>5, ServingNewest, ChangingNewest DEF Next

-----------------------------------------------------------------------------
(* The theorem about a quiet connection. *)

LEMMA SyncInvHolds == Spec => [](TypeInv /\ SyncInv /\ BookInv)
<1>1. Init => SyncInv
  <2> SUFFICES ASSUME Init PROVE SyncInv
    OBVIOUS
  <2>1. /\ connected = FALSE /\ InFlight = {} /\ loop.pc = "away" /\ reader.pc = "backoff"
        /\ \A m \in Markets : orderbooks[m] = NoBook
    BY DEF Init, InFlight
  <2> QED
    BY <2>1 DEF SyncInv, AskedInv, LosingInv, ReportedInv, HeadInv, NewestInv
<1>2. /\ TypeInv /\ TypeInv' /\ ControlInv /\ BookInv /\ FeedInv /\ SyncInv /\ [Next]_vars
      => SyncInv'
  BY NextAsked, NextLosing, NextReported, NextHead, NextNewest DEF FeedInv, SyncInv
<1> QED
  BY FeedInvHolds, <1>1, <1>2, PTL DEF Spec

\* Once the socket is up and all that was sent is handled, every market the
\* client believes to be subscribed is, and its book is the exchange's present
\* one, unless the last delta was dropped: no interleaving of subscribing,
\* pruning, resynchronising and reconnecting leaves a market without a feed or
\* with an old book (websocket_client.py:330-339, 375).
THEOREM QuietInSync == Spec => []InSync
<1>1. ASSUME TypeInv, SyncInv PROVE InSync
  <2> SUFFICES ASSUME Quiet, NEW m \in subscribedMarkets
               PROVE  feeds[m] # NoFeed /\ (feeds[m].missed \/ orderbooks[m] = version[m])
    BY DEF InSync
  <2>1. m \in Markets
    BY <1>1 DEF TypeInv, ClientTyped
  <2>2. /\ connected /\ sock = "open" /\ reader.pc = "idle" /\ loop.pc = "away"
        /\ Len(up) = 0 /\ DOMAIN up = {} /\ Len(down) = 0 /\ InFlight = {}
    BY DEF Quiet, InFlight
  <2>3. Kept(m) /\ Due(m)
    BY <2>2 DEF Kept, Due, Tracked, Resyncing
  <2>4. feeds[m] # NoFeed
    <3>1. Asked(m)
      BY <1>1, <2>1, <2>2, <2>3 DEF SyncInv, AskedInv
    <3>2. PICK i \in 0 .. 0 : IF i = 0 THEN feeds[m] # NoFeed ELSE up[i] = Subscribe(m)
      BY <2>2, <3>1 DEF Asked
    <3> QED
      BY <3>2
  <2>5. orderbooks[m] # NoBook
    <3>1. Live(m)
      BY <2>2, <2>4 DEF Live, Unsubscribing
    <3> QED
      BY <1>1, <2>1, <2>2, <2>3, <3>1 DEF SyncInv, HeadInv, Begun
  <2>6. ~ feeds[m].missed => orderbooks[m] = version[m]
    BY <1>1, <2>1, <2>2, <2>4, <2>5 DEF SyncInv, NewestInv, Complete, LastOf
  <2>7. feeds[m].missed \in BOOLEAN
    BY <1>1, <2>1, <2>4, FeedsTyped
  <2> QED
    BY <2>4, <2>6
<1> QED
  BY SyncInvHolds, <1>1, PTL
=============================================================================
