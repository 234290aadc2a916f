----------------------------- MODULE WebSocketBook -----------------------------
(***************************************************************************)
(* The streaming orderbooks of websocket_client.py: the reader thread that *)
(* owns the socket, the trading loop that subscribes, reads, prunes and    *)
(* forces reconnects from its own thread, and the exchange's end of the    *)
(* socket.                                                                 *)
(*                                                                         *)
(* A book is abstracted to the number of the exchange's version it equals: *)
(* a snapshot carries a version, a delta leads from one version to the     *)
(* next, and a delta applied to any other book gives a book the exchange   *)
(* never had.                                                              *)
(*                                                                         *)
(* Time is abstracted.  A market is pruned after 30 minutes without an     *)
(* access, twice the life of a 15-minute market, so once that time is over *)
(* the loop never asks for it again.  The connection may be found stale    *)
(* whenever no message is waiting or being handled.                        *)
(***************************************************************************)
EXTENDS Integers, SequencesExt

CONSTANTS
  Markets,
  MaxChanges,     \* bound on the changes of all books together
  MaxConnections  \* bound on the connections opened

ASSUME SocketAssumption ==
  /\ IsFiniteSet(Markets)
  /\ MaxChanges \in Nat
  /\ MaxConnections \in Nat \ {0}

VARIABLES
  \* the client object, shared by both threads
  running, connected,
  orderbooks,         \* _orderbooks: NoBook, Wrong or a version
  sequences,          \* _sequences: the last sequence number, or None
  sids,               \* _sids: the subscription the server reported, or None
  subscribedMarkets,  \* _subscribed_markets
  reader,             \* where the reader thread is, and the message it handles
  loop,               \* where the trading loop is in the client, and for which markets
  over,               \* the markets last accessed longer than prune_after ago
  \* the socket and the exchange's end of it
  sock, up, down,
  feeds,              \* the subscription that feeds each market
  lastSid, version, connections

books == <<orderbooks, sequences>>
client == <<running, connected, orderbooks, sequences, sids, subscribedMarkets, over>>
network == <<sock, up, down, feeds, lastSid, version, connections>>
vars == <<client, reader, loop, network>>

None == 0
NoBook == -1
Wrong == -2
NoMarket == "no market"
NoFeed == [sid |-> None, seq |-> 0, missed |-> FALSE]
NoMessage == [type |-> "none", market |-> NoMarket, sid |-> None, seq |-> 0, version |-> 0]

Subscribe(m) == [cmd |-> "subscribe", market |-> m, sid |-> None]
Unsubscribe(sid) == [cmd |-> "unsubscribe", market |-> NoMarket, sid |-> sid]
Message(type, m, feed, v) ==
  [type |-> type, market |-> m, sid |-> feed.sid, seq |-> feed.seq, version |-> v]

\* Mutant: the delta's sizes are added although they are totals.
apply_delta_adds(book, delta) == book + delta

apply_delta(book, delta) == IF delta = book + 1 THEN delta ELSE Wrong

Init ==
  /\ running = TRUE
  /\ connected = FALSE
  /\ orderbooks = [m \in Markets |-> NoBook]
  /\ sequences = [m \in Markets |-> None]
  /\ sids = [m \in Markets |-> None]
  /\ subscribedMarkets = {}
  /\ over = {}
  /\ reader = [pc |-> "backoff", msg |-> NoMessage]
  /\ loop = [pc |-> "away", market |-> NoMarket, expired |-> NoMarket]
  /\ sock = "none"
  /\ up = << >>
  /\ down = << >>
  /\ feeds = [m \in Markets |-> NoFeed]
  /\ lastSid = 0
  /\ version = [m \in Markets |-> 0]
  /\ connections = 0

ReaderAt(pc) == reader' = [reader EXCEPT !.pc = pc]
ReaderDone == reader' = [pc |-> "idle", msg |-> NoMessage]
LoopAt(pc) == loop' = [loop EXCEPT !.pc = pc]
LoopDone == loop' = [pc |-> "away", market |-> NoMarket, expired |-> NoMarket]

Send(commands) ==
  /\ sock = "open"
  /\ up' = up \o commands
  /\ UNCHANGED <<sock, down, feeds, lastSid, version, connections>>

\* A send on a closed socket raises; every caller logs the exception.
SendRaises == sock # "open" /\ UNCHANGED network

\* Whoever closes the socket, what was in flight and all subscriptions are gone.
SocketCloses ==
  /\ sock' = IF sock = "open" THEN "closed" ELSE sock
  /\ up' = << >>
  /\ down' = << >>
  /\ feeds' = [m \in Markets |-> NoFeed]
  /\ UNCHANGED <<lastSid, version, connections>>

ClearBooks ==
  /\ orderbooks' = [m \in Markets |-> NoBook]
  /\ sequences' = [m \in Markets |-> None]

DropBook(m) ==
  /\ orderbooks' = [orderbooks EXCEPT ![m] = NoBook]
  /\ sequences' = [sequences EXCEPT ![m] = None]

StoreBook(m, book, seq) ==
  /\ orderbooks' = [orderbooks EXCEPT ![m] = book]
  /\ sequences' = [sequences EXCEPT ![m] = seq]

-----------------------------------------------------------------------------
(* The reader thread. *)

\* The back-off of at least a second outlasts the loop's visit to the client.
Connect ==
  /\ reader.pc = "backoff"
  /\ running
  /\ loop.pc = "away"
  /\ connections < MaxConnections
  /\ connections' = connections + 1
  /\ sock' = "open"
  /\ lastSid' = 0
  /\ connected' = TRUE
  /\ ReaderAt("resubscribe")
  /\ UNCHANGED <<running, orderbooks, sequences, sids, subscribedMarkets, over,
                 loop, up, down, feeds, version>>

\* Mutant: nothing is subscribed again after a reconnect.
ResubscribeNothing ==
  /\ reader.pc = "resubscribe"
  /\ ReaderDone
  /\ UNCHANGED <<client, loop, network>>

ResubscribeAll ==
  /\ reader.pc = "resubscribe"
  /\ \/ Send([i \in 1..Cardinality(subscribedMarkets) |-> Subscribe(SetToSeq(subscribedMarkets)[i])])
     \/ SendRaises
  /\ ReaderDone
  /\ UNCHANGED <<client, loop>>

Receive ==
  /\ reader.pc = "idle"
  /\ down # << >>
  /\ reader' = [pc |-> "apply", msg |-> Head(down)]
  /\ down' = Tail(down)
  /\ sids' = [sids EXCEPT ![Head(down).market] = Head(down).sid]
  /\ UNCHANGED <<running, connected, orderbooks, sequences, subscribedMarkets, over,
                 loop, sock, up, feeds, lastSid, version, connections>>

ApplySnapshot ==
  LET msg == reader.msg IN
  /\ reader.pc = "apply"
  /\ msg.type = "orderbook_snapshot"
  /\ StoreBook(msg.market, msg.version, msg.seq)
  /\ ReaderDone
  /\ UNCHANGED <<running, connected, sids, subscribedMarkets, over, loop, network>>

\* Mutant: only an older message counts as out of sequence.
InSequenceOrLater(msg) == msg.seq > sequences[msg.market]

InSequence(msg) ==
  sequences[msg.market] # None => msg.seq = sequences[msg.market] + 1

ApplyDelta ==
  LET msg == reader.msg IN
  /\ reader.pc = "apply"
  /\ msg.type = "orderbook_delta"
  /\ orderbooks[msg.market] # NoBook
  /\ InSequence(msg)
  /\ StoreBook(msg.market, apply_delta(orderbooks[msg.market], msg.version), msg.seq)
  /\ ReaderDone
  /\ UNCHANGED <<running, connected, sids, subscribedMarkets, over, loop, network>>

DeltaWithoutBook ==
  /\ reader.pc = "apply"
  /\ reader.msg.type = "orderbook_delta"
  /\ orderbooks[reader.msg.market] = NoBook
  /\ ReaderDone
  /\ UNCHANGED <<client, loop, network>>

\* Mutant: the book is dropped, and the next snapshot waited for.
SequenceGapWaits ==
  LET msg == reader.msg IN
  /\ reader.pc = "apply"
  /\ msg.type = "orderbook_delta"
  /\ orderbooks[msg.market] # NoBook
  /\ ~ InSequence(msg)
  /\ DropBook(msg.market)
  /\ ReaderDone
  /\ UNCHANGED <<running, connected, sids, subscribedMarkets, over, loop, network>>

SequenceGap ==
  LET msg == reader.msg IN
  /\ reader.pc = "apply"
  /\ msg.type = "orderbook_delta"
  /\ orderbooks[msg.market] # NoBook
  /\ ~ InSequence(msg)
  /\ DropBook(msg.market)
  /\ ReaderAt("resync")
  /\ UNCHANGED <<running, connected, sids, subscribedMarkets, over, loop, network>>

\* Pops the sid and, if there was one, sends the unsubscribe.
SendUnsubscribe(m) ==
  /\ sids' = [sids EXCEPT ![m] = None]
  /\ Send(IF sids[m] = None THEN << >> ELSE <<Unsubscribe(sids[m])>>)

SendUnsubscribeRaises(m) ==
  /\ sids' = [sids EXCEPT ![m] = None]
  /\ SendRaises

ResyncUnsubscribe ==
  /\ reader.pc = "resync"
  /\ connected
  /\ SendUnsubscribe(reader.msg.market)
  /\ ReaderAt("resyncSubscribe")
  /\ UNCHANGED <<running, connected, books, subscribedMarkets, over, loop>>

ResyncSubscribe ==
  /\ reader.pc = "resyncSubscribe"
  /\ Send(<<Subscribe(reader.msg.market)>>)
  /\ ReaderDone
  /\ UNCHANGED <<client, loop>>

\* Not connected any more, or a send raises.
ResyncFails ==
  /\ \/ /\ reader.pc = "resync"
        /\ ~ connected
        /\ UNCHANGED <<sids, network>>
     \/ /\ reader.pc = "resync"
        /\ connected
        /\ SendUnsubscribeRaises(reader.msg.market)
     \/ /\ reader.pc = "resyncSubscribe"
        /\ UNCHANGED sids
        /\ SendRaises
  /\ ReaderDone
  /\ UNCHANGED <<running, connected, books, subscribedMarkets, over, loop>>

OnClose ==
  /\ reader.pc = "idle"
  /\ sock = "closed"
  /\ connected' = FALSE
  /\ ReaderAt("clear")
  /\ UNCHANGED <<running, books, sids, subscribedMarkets, over, loop, network>>

\* Mutant: the books survive the connection.
OnCloseKeepsBooks ==
  /\ reader.pc = "clear"
  /\ sids' = [m \in Markets |-> None]
  /\ sock' = "none"
  /\ ReaderAt("backoff")
  /\ UNCHANGED <<running, connected, books, subscribedMarkets, over, loop,
                 up, down, feeds, lastSid, version, connections>>

OnCloseClears ==
  /\ reader.pc = "clear"
  /\ ClearBooks
  /\ sids' = [m \in Markets |-> None]
  /\ sock' = "none"
  /\ ReaderAt("backoff")
  /\ UNCHANGED <<running, connected, subscribedMarkets, over, loop,
                 up, down, feeds, lastSid, version, connections>>

ReaderEnds ==
  /\ reader.pc = "backoff"
  /\ ~ running
  /\ ReaderAt("ended")
  /\ UNCHANGED <<client, loop, network>>

ReaderStep ==
  \/ Connect \/ ResubscribeAll \/ Receive
  \/ ApplySnapshot \/ ApplyDelta \/ DeltaWithoutBook \/ SequenceGap
  \/ ResyncUnsubscribe \/ ResyncSubscribe \/ ResyncFails
  \/ OnClose \/ OnCloseClears \/ ReaderEnds

-----------------------------------------------------------------------------
(* The trading loop: _fetch_market_orderbook for one market at a time. *)

Ask(m) ==
  /\ loop.pc = "away"
  /\ running
  /\ connected
  /\ m \notin over
  /\ loop' = [pc |-> IF m \in subscribedMarkets THEN "prune" ELSE "subscribe",
              market |-> m, expired |-> NoMarket]
  /\ UNCHANGED <<client, reader, network>>

SubscribeToMarket ==
  /\ loop.pc = "subscribe"
  /\ connected
  /\ Send(<<Subscribe(loop.market)>>)
  /\ LoopAt("add")
  /\ UNCHANGED <<client, reader>>

SubscribeFails ==
  /\ loop.pc = "subscribe"
  /\ ~ connected \/ sock # "open"
  /\ LoopAt("read")
  /\ UNCHANGED <<client, reader, network>>

AddSubscribed ==
  /\ loop.pc = "add"
  /\ subscribedMarkets' = subscribedMarkets \union {loop.market}
  /\ LoopAt("prune")
  /\ UNCHANGED <<running, connected, books, sids, over, reader, network>>

PruneStaleMarket(m) ==
  /\ loop.pc = "prune"
  /\ m \in subscribedMarkets \intersect over
  /\ \/ connected /\ (SendUnsubscribe(m) \/ SendUnsubscribeRaises(m))
     \/ ~ connected /\ UNCHANGED <<sids, network>>
  /\ loop' = [loop EXCEPT !.pc = "drop", !.expired = m]
  /\ UNCHANGED <<running, connected, books, subscribedMarkets, over, reader>>

DropPruned ==
  LET m == loop.expired IN
  /\ loop.pc = "drop"
  /\ subscribedMarkets' = subscribedMarkets \ {m}
  /\ sids' = [sids EXCEPT ![m] = None]
  /\ DropBook(m)
  /\ loop' = [loop EXCEPT !.pc = "prune", !.expired = NoMarket]
  /\ UNCHANGED <<running, connected, over, reader, network>>

\* Nothing (more) to prune; the book, or its absence, is returned.
GetLatestOrderbook ==
  /\ loop.pc \in {"prune", "read"}
  /\ LoopDone
  /\ UNCHANGED <<client, reader, network>>

FindStale ==
  /\ loop.pc \in {"prune", "read"}
  /\ connected
  /\ down = << >>
  /\ reader.pc = "idle"
  /\ connected' = FALSE
  /\ LoopAt("invalidate")
  /\ UNCHANGED <<running, books, sids, subscribedMarkets, over, reader, network>>

Invalidate ==
  /\ loop.pc = "invalidate"
  /\ ClearBooks
  /\ LoopAt("close")
  /\ UNCHANGED <<running, connected, sids, subscribedMarkets, over, reader, network>>

CloseStale ==
  /\ loop.pc = "close"
  /\ SocketCloses
  /\ LoopDone
  /\ UNCHANGED <<client, reader>>

Stop ==
  /\ loop.pc = "away"
  /\ running
  /\ running' = FALSE
  /\ SocketCloses
  /\ UNCHANGED <<connected, books, sids, subscribedMarkets, over, reader, loop>>

LoopStep ==
  \/ \E m \in Markets : Ask(m) \/ PruneStaleMarket(m)
  \/ SubscribeToMarket \/ SubscribeFails \/ AddSubscribed \/ DropPruned
  \/ GetLatestOrderbook \/ FindStale \/ Invalidate \/ CloseStale \/ Stop

\* Half an hour after the last access its subscription has long been answered.
Expire(m) ==
  /\ loop.pc = "away"
  /\ m \in subscribedMarkets \ over
  /\ reader.msg.market # m
  /\ \A i \in DOMAIN up : up[i].market # m
  /\ \A i \in DOMAIN down : down[i].market # m
  /\ over' = over \union {m}
  /\ UNCHANGED <<running, connected, books, sids, subscribedMarkets, reader, loop, network>>

-----------------------------------------------------------------------------
(* The exchange.  A second subscription to a market is answered by an error *)
(* message, which the client only logs.                                     *)

Serve ==
  /\ sock = "open"
  /\ up # << >>
  /\ up' = Tail(up)
  /\ LET c == Head(up)
         new == [sid |-> lastSid + 1, seq |-> 1, missed |-> FALSE]
     IN \/ /\ c.cmd = "subscribe"
           /\ feeds[c.market] = NoFeed
           /\ feeds' = [feeds EXCEPT ![c.market] = new]
           /\ lastSid' = new.sid
           /\ down' = Append(down, Message("orderbook_snapshot", c.market, new, version[c.market]))
        \/ /\ c.cmd = "subscribe"
           /\ feeds[c.market] # NoFeed
           /\ UNCHANGED <<feeds, lastSid, down>>
        \/ /\ c.cmd = "unsubscribe"
           /\ feeds' = [m \in Markets |-> IF feeds[m].sid = c.sid THEN NoFeed ELSE feeds[m]]
           /\ UNCHANGED <<lastSid, down>>
  /\ UNCHANGED <<client, reader, loop, sock, version, connections>>

\* A market's book changes; its subscriber gets a delta, or the exchange drops it.
BookChanges(m) ==
  LET feed == [feeds[m] EXCEPT !.seq = @ + 1] IN
  /\ MapThenSumSet(LAMBDA k : version[k], Markets) < MaxChanges
  /\ version' = [version EXCEPT ![m] = @ + 1]
  /\ \/ feeds[m] = NoFeed /\ UNCHANGED <<feeds, down>>
     \/ /\ feeds[m] # NoFeed
        /\ feeds' = [feeds EXCEPT ![m] = [feed EXCEPT !.missed = FALSE]]
        /\ down' = Append(down, Message("orderbook_delta", m, feed, version'[m]))
     \/ /\ feeds[m] # NoFeed
        /\ feeds' = [feeds EXCEPT ![m] = [feed EXCEPT !.missed = TRUE]]
        /\ UNCHANGED down
  /\ UNCHANGED <<client, reader, loop, sock, up, lastSid, connections>>

NetworkFails ==
  /\ sock = "open"
  /\ SocketCloses
  /\ UNCHANGED <<client, reader, loop>>

Next ==
  \/ ReaderStep \/ LoopStep
  \/ Serve \/ NetworkFails
  \/ \E m \in Markets : BookChanges(m) \/ Expire(m)

Spec == Init /\ [][Next]_vars

\* Python runs the reader thread, and an open connection's commands get served.
FairSpec == Spec /\ WF_vars(ReaderStep) /\ WF_vars(Serve)

-----------------------------------------------------------------------------
(* Properties. *)

Numbers(n) == 0..n
Book == {NoBook, Wrong} \union Numbers(MaxChanges)

\* Every shared field of the client holds what its readers expect (websocket_client.py:75-120).
TypeOK ==
  /\ running \in BOOLEAN
  /\ connected \in BOOLEAN
  /\ orderbooks \in [Markets -> Book]
  /\ sequences \in [Markets -> Numbers(MaxChanges + 1)]
  /\ sids \in [Markets -> Nat]
  /\ subscribedMarkets \subseteq Markets
  /\ over \subseteq Markets
  /\ sock \in {"none", "open", "closed"}
  /\ reader.pc \in {"backoff", "resubscribe", "idle", "apply", "resync",
                    "resyncSubscribe", "clear", "ended"}
  /\ loop.pc \in {"away", "subscribe", "add", "prune", "drop", "read", "invalidate", "close"}
  /\ \A m \in Markets : feeds[m].sid \in Numbers(lastSid)

\* No cached book is one the exchange never had, whatever deltas are dropped,
\* resynchronised or left over from an earlier subscription (websocket_client.py:296-326).
BooksGenuine == \A m \in Markets : orderbooks[m] # Wrong

Feed == INSTANCE OrderbookFeed WITH
          Absent <- NoBook, changes <- version, book <- orderbooks

\* Threads, gaps, resynchronisations, reconnects and pruning together keep the
\* promise of OrderbookFeed: whatever the loop reads (websocket_client.py:457-490)
\* is a book the exchange had, and never an older one than it read before,
\* unless there was none in between.
ImplementsFeed == Feed!Spec

\* While the socket is up, a cached book the loop may ask for is one the
\* exchange still updates: no book survives a reconnect or a resynchronisation
\* (websocket_client.py:345-356, 305-312).
BookIsFed ==
  connected /\ sock = "open" =>
    \A m \in Markets \ over : orderbooks[m] # NoBook => feeds[m] # NoFeed

Quiet ==
  /\ connected /\ sock = "open"
  /\ up = << >> /\ down = << >>
  /\ reader.pc = "idle" /\ loop.pc = "away"

\* Once everything sent has been handled, every market the client believes to be
\* subscribed is, and its book is the exchange's present one, unless the last
\* delta was dropped and no later one has revealed it (websocket_client.py:330-339, 375).
InSync ==
  Quiet => \A m \in subscribedMarkets :
    feeds[m] # NoFeed /\ (feeds[m].missed \/ orderbooks[m] = version[m])

\* A subscribed market of a live connection gets a book, after a reconnect
\* as after a sequence gap (websocket_client.py:211-230, 330-339).
Recovers ==
  \A m \in Markets :
    m \in subscribedMarkets /\ connected ~>
      orderbooks[m] # NoBook \/ ~ connected \/ m \notin subscribedMarkets
=============================================================================
