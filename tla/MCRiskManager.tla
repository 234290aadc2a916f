---------------------------- MODULE MCRiskManager ----------------------------
(* A small instance of RiskManager for TLC. *)
EXTENDS RiskManager, TLC

Symmetry == Permutations(Markets)
=============================================================================
