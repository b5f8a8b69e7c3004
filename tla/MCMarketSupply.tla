--------------------------- MODULE MCMarketSupply ---------------------------
(* A small instance of MarketSupply: three orderings of five markets and a   *)
(* per-game row, two markets to a page.                                      *)
EXTENDS MarketSupply

CONSTANTS m1, m2, m3, m4, g

MCListings ==
  {[volume24hr |-> <<m1, g, m2>>, volumeNum |-> <<m2, m1, m3, m4>>, startDate |-> <<g>>],
   [volume24hr |-> <<g>>, volumeNum |-> <<m1, m3, m2>>, startDate |-> <<m3>>],
   [volume24hr |-> <<m1>>, volumeNum |-> <<m1, m2, g>>, startDate |-> <<>>]}

\* 0.4, 0.4 and 0.2 of a total of three, rounded up.
MCSlices ==
  <<[order |-> "volume24hr", quota |-> 2], [order |-> "volumeNum", quota |-> 2],
    [order |-> "startDate", quota |-> 1]>>

MCServed == {NoBlob, [builtAt |-> 0, markets |-> <<m4>>]}
=============================================================================
