---------------------------- MODULE MCTradingCycle ----------------------------
(* Small instances of TradingCycle for TLC. *)
EXTENDS TradingCycle, TLC

Symmetry == Permutations(Markets)

\* Every market is the one window of a series of its own.
OwnSeries == [m \in Markets |-> <<m>>]

\* Two windows of one series, and another series with one.
TwoSeries == [BTC |-> <<"BTC1", "BTC2">>, ETH |-> <<"ETH1">>]
=============================================================================
