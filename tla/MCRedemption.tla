---------------------------- MODULE MCRedemption ----------------------------
(* A small instance of Redemption: a regular market that resolved, a         *)
(* neg-risk one of which both outcomes are held, and one still open.         *)
EXTENDS Redemption

CONSTANTS c1, c2, c3

MCWon == (c1 :> 0) @@ (c2 :> 1) @@ (c3 :> 0)
MCHoldings ==
  {(c1 :> [s \in 0..1 |-> IF s = 0 THEN 1 ELSE 0]) @@ (c2 :> [s \in 0..1 |-> s + 1])
     @@ (c3 :> [s \in 0..1 |-> 0]),
   (c1 :> [s \in 0..1 |-> IF s = 1 THEN 1 ELSE 0]) @@ (c2 :> [s \in 0..1 |-> 0])
     @@ (c3 :> [s \in 0..1 |-> 1 - s])}

MCWays ==
  {[noise |-> 1, blind |-> FALSE, turned |-> TRUE],
   [noise |-> 1, blind |-> TRUE, turned |-> FALSE]}
=============================================================================
