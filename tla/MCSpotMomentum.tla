----------------------------- MODULE MCSpotMomentum -----------------------------
(* A small instance of SpotMomentum for TLC: a cycle over ETH and BTC, with   *)
(* the spot feeds of both.                                                    *)
EXTENDS SpotMomentum

EthAndBtc == <<"ETH", "BTC">>
=============================================================================
