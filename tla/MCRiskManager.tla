--------------------------- MODULE MCRiskManager ---------------------------
(* Instances of RiskManager for TLC. *)
EXTENDS RiskManager

GainOrLoss == {-2, 1}
===========================================================================
