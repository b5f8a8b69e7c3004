---------------------------- MODULE MCTradeTools ----------------------------
(* Small instances of TradeTools for TLC. *)
EXTENDS TradeTools, TLC
TwoSizes == {2, 3}
Anywhere == Verdict
=============================================================================
