---------------------------- MODULE MCPageCheck ----------------------------
(* A small instance of PageCheck.  Article p1: m1 shares words and a number  *)
(* with the headline and is ranked first, but only m2 and m3 clear the floor *)
(* on meaning; m3, the closer of the two, is a slice of a contest years away *)
(* and is ranked behind m2.  Article p2: nothing on the shelf clears the     *)
(* floor, the search lists a fixture, a categorical market, then m4, twice.  *)
EXTENDS PageCheck, TLC

CONSTANTS p1, p2, m1, m2, m3, m4, x, game,
          uranium, talks, iran, deal, coin

MCStemOf == (uranium :> "uran") @@ (talks :> "talk") @@ (iran :> "iran") @@ (deal :> "deal")
MCLowValue == {"iran"}

MCArticle ==
  (p1 :> [words |-> {uranium, talks, iran, deal}, numbers |-> {60, 2026}, years |-> {2026},
          names |-> {}, crypto |-> FALSE])
  @@ (p2 :> [words |-> {deal}, numbers |-> {120000}, years |-> {}, names |-> {}, crypto |-> TRUE])

Plain == [stems |-> {}, numbers |-> {}, brackets |-> {}, years |-> {}, names |-> {}, magnitude |-> 0]
MCQuestion ==
  (m1 :> [Plain EXCEPT !.stems = {"uran", "talk", "iran"}, !.numbers = {60, 2026}, !.magnitude = 9])
  @@ (m2 :> [Plain EXCEPT !.stems = {"iran"}, !.magnitude = 4])
  @@ (m3 :> [Plain EXCEPT !.numbers = {30, 35}, !.brackets = {[lo |-> 30, hi |-> 35]},
                          !.years = {2028}, !.magnitude = -1])
  @@ (m4 :> [Plain EXCEPT !.numbers = {120000}, !.names = {coin}, !.magnitude = 6])
  @@ (x :> [Plain EXCEPT !.stems = {"deal"}, !.magnitude = 5])
  @@ (game :> Plain)

MCRaw ==
  (p1 :> ((m1 :> 330) @@ (m2 :> 500) @@ (m3 :> 610) @@ (m4 :> 100) @@ (x :> 900) @@ (game :> 20)))
  @@ (p2 :> ((m1 :> 200) @@ (m2 :> 300) @@ (m3 :> 0) @@ (m4 :> 400) @@ (x :> 800) @@ (game :> 20)))
MCShelves == {{}, {m1, m2, m3}, {m1}}
MCFinds == (p1 :> <<m4>>) @@ (p2 :> <<game, x, m4, m4, m3>>)

\* No two scores of the instance are the same.
ASSUME \A p \in Page : IsInjective(Rank[p])
=============================================================================
