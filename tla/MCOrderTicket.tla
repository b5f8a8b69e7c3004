---------------------------- MODULE MCOrderTicket ----------------------------
(* A small instance of OrderTicket: a grid of a cent.  165 cents at 33 cents *)
(* a share come out as 4.99 shares in doubles; an ask of 98 cents has its    *)
(* cap at the top of the grid, a bid of one cent its floor at the bottom.    *)
EXTENDS OrderTicket

CONSTANTS yes, no, tokYes, tokNo

MCTokenOf == (yes :> tokYes) @@ (no :> tokNo)
MCFallsShort == {<<165, 330>>}
Level(price, size) == [price |-> price, size |-> size]
MCLadders == {
  [asks |-> <<Level(990, 100), Level(400, 300), Level(320, 400)>>, bid |-> 310],
  [asks |-> <<Level(980, 5000)>>, bid |-> 970],
  [asks |-> <<>>, bid |-> 10]}
=============================================================================
