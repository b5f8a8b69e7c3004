----------------------------- MODULE MCOrderHold -----------------------------
(* Small instances of OrderHold: three orders, on one token or on two. *)
EXTENDS OrderHold

CONSTANTS o1, o2, o3, tokA, tokB

OneToken == (o1 :> tokA @@ o2 :> tokA @@ o3 :> tokA)
TwoTokens == (o1 :> tokA @@ o2 :> tokA @@ o3 :> tokB)
PairOnOne == (o1 :> tokA @@ o2 :> tokA)

\* The two orders of one side are alike.
Alike == Permutations({o1, o3})
=============================================================================
