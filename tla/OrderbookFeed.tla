----------------------------- MODULE OrderbookFeed -----------------------------
(***************************************************************************)
(* What get_latest_orderbook promises its caller (websocket_client.py),    *)
(* without threads, sockets, subscriptions or sequence numbers: for each   *)
(* market either no book, and then the caller asks the REST API, or a book *)
(* the exchange really had.  While it is there a book only moves forward,  *)
(* by the exchange's next change or to a later snapshot; it may go away at *)
(* any time.                                                               *)
(***************************************************************************)
EXTENDS Integers

CONSTANTS
  Markets,
  Absent      \* no book is cached

VARIABLES
  changes,    \* how often each market's book has changed at the exchange
  book        \* Absent, or the number of the version the client holds

vars == <<changes, book>>

Init ==
  /\ changes = [m \in Markets |-> 0]
  /\ book = [m \in Markets |-> Absent]

\* The exchange's book changes.
Change(m) ==
  /\ changes' = [changes EXCEPT ![m] = @ + 1]
  /\ UNCHANGED book

\* The next change reaches the client.
Advance(m) ==
  /\ book[m] # Absent
  /\ book[m] < changes[m]
  /\ book' = [book EXCEPT ![m] = @ + 1]
  /\ UNCHANGED changes

\* A snapshot reaches the client, maybe overtaken by later changes, but not
\* older than the book it replaces.
Snapshot(m) ==
  /\ \E v \in 0 .. changes[m] :
       /\ book[m] # Absent => v >= book[m]
       /\ book' = [book EXCEPT ![m] = v]
  /\ UNCHANGED changes

\* A gap, a lost connection, pruning: books are forgotten, never altered.
Forget(S) ==
  /\ book' = [m \in Markets |-> IF m \in S THEN Absent ELSE book[m]]
  /\ UNCHANGED changes

Next ==
  \/ \E m \in Markets : Change(m) \/ Advance(m) \/ Snapshot(m)
  \/ \E S \in SUBSET Markets : Forget(S)

Spec == Init /\ [][Next]_vars
=============================================================================
