---------------------------- MODULE MCMarketCache ----------------------------
(* Small instances of MarketCache: one or two markets, an open call. *)
EXTENDS MarketCache

CONSTANTS c1, m1, m2
=============================================================================
