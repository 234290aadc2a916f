---------------------------- MODULE MCWebSocketBook ----------------------------
(* Small instances of WebSocketBook for TLC.  No symmetry: the run checks      *)
(* liveness, and the markets are resubscribed in an order.                     *)
EXTENDS WebSocketBook, TLC
=============================================================================
