------------------------------ MODULE MCEntryPath ------------------------------
(* A small instance of EntryPath for TLC: one-dollar contracts, the default  *)
(* limits of the configuration, selected books.                              *)
EXTENDS EntryPath, TLC

Level(price, size) == [price |-> price, size |-> size]

\* Bids of a side: none, one of less than a contract, one of 7 contracts, or
\* one of them above a deeper one of 9.
SideLevels(prices) ==
  {<<>>}
    \cup {<<Level(p, size)>> : p \in prices, size \in {50, 750}}
    \cup {<<Level(p - 3, 900), Level(p, size)>> : p \in prices, size \in {50, 750}}

AllBooks ==
  {[side \in BookSides |-> IF side = "yes" THEN yes ELSE no] :
     yes \in SideLevels({8, 30, 35, 52, 60, 88}), no \in SideLevels({9, 35, 45, 60, 65, 90})}

Both(n) == [side \in BookSides |-> n]
DefaultDepth == Both(5)
SelectedMomenta == {-7, -4, -2, 0, 1, 3, 6}
NothingStale == Both([bid |-> None, ask |-> None])
QuotesFromBefore == {NothingStale, Both([bid |-> 20, ask |-> 22])}
=============================================================================
