---------------------------- MODULE SumTheorems ----------------------------
(***************************************************************************)
(* Sums of natural numbers over finite sets: the facts the proofs about    *)
(* budgets and quotas need.  A sum is shown to count the pairs of an       *)
(* element and one of its units, and cardinalities add up; this takes the  *)
(* least counterexample in place of an induction.  The same gives the      *)
(* first and the last index of a sequence at which something holds, and an *)
(* order of any numbers; a sum is the same in any order.                   *)
(* Last, what two sequences joined have at each index, and that the k-th   *)
(* of a finite set of numbers exists and is one number only.               *)
(***************************************************************************)
EXTENDS Integers, Sequences, FiniteSets, FiniteSetsExt, Functions, FiniteSetTheorems, WellFoundedInduction, TLAPS

\* What the specifications write as MapThenSumSet, for a function.
Sum(f, S) == MapThenSumSet(LAMBDA c : f[c], S)
\* The units that are added up, and the recursion of the fold.
Units(f, S) == UNION {{c} \X (1..f[c]) : c \in S}
Some(s) == CHOOSE x \in s : TRUE
SumsUp(f, S, g) ==
  g = [s \in SUBSET S |-> IF s = {} THEN 0 ELSE f[Some(s)] + g[s \ {Some(s)}]]

\* A nonempty set of subsets of a finite set has a least one.
LEMMA LeastSubset ==
  ASSUME NEW S, IsFiniteSet(S), NEW Bad \in SUBSET SUBSET S, Bad # {}
  PROVE  \E T \in Bad : \A U \in Bad : U \subseteq T => U = T
<1>1. FiniteSubsetsOf(S) = SUBSET S
  BY FS_FiniteSubsetsOfFinite
<1>2. IsWellFoundedOn(StrictSubsetOrdering(S), SUBSET S)
  BY <1>1, FS_StrictSubsetOrderingWellFounded
<1>3. \E T \in Bad : \A U \in Bad : <<U, T>> \notin StrictSubsetOrdering(S)
  BY <1>2, WFMin
<1>4. QED
  BY <1>3 DEF StrictSubsetOrdering

\* One element has as many units as its summand says.
LEMMA UnitsOfOne ==
  ASSUME NEW c, NEW n \in Nat
  PROVE  IsFiniteSet({c} \X (1..n)) /\ Cardinality({c} \X (1..n)) = n
<1>1. IsFiniteSet({c}) /\ Cardinality({c}) = 1
  BY FS_Singleton
<1>2. IsFiniteSet(1..n) /\ Cardinality(1..n) = n
  BY FS_Interval
<1>3. IsFiniteSet({c} \X (1..n)) /\ Cardinality({c} \X (1..n)) = Cardinality({c}) * Cardinality(1..n)
  <2> DEFINE one == {c}
  <2> DEFINE all == 1..n
  <2>1. IsFiniteSet(one) /\ IsFiniteSet(all)
    BY <1>1, <1>2
  <2> HIDE DEF one, all
  <2>2. IsFiniteSet(one \X all) /\ Cardinality(one \X all) = Cardinality(one) * Cardinality(all)
    BY <2>1, FS_Product
  <2>3. QED
    BY <2>2 DEF one, all
<1>4. QED
  BY <1>1, <1>2, <1>3

\* Finitely many elements, finitely many units.
LEMMA UnitsFinite ==
  ASSUME NEW S, IsFiniteSet(S), NEW f, \A c \in S : f[c] \in Nat
  PROVE  IsFiniteSet(Units(f, S)) /\ Cardinality(Units(f, S)) \in Nat
<1> DEFINE unitsOf == [c \in S |-> {c} \X (1..f[c])]
<1> DEFINE all == {unitsOf[c] : c \in S}
<1>1. Units(f, S) = UNION all
  BY DEF Units
<1>2. \A T \in all : IsFiniteSet(T)
  <2>1. ASSUME NEW c \in S PROVE IsFiniteSet({c} \X (1..f[c]))
    BY UnitsOfOne
  <2>2. QED
    BY <2>1
<1>3. unitsOf \in Surjection(S, all)
  BY DEF Surjection
<1> HIDE DEF unitsOf, all
<1>4. IsFiniteSet(all)
  BY <1>3, FS_Surjection
<1>5. IsFiniteSet(UNION all)
  BY <1>2, <1>4, FS_UNION
<1>6. QED
  BY <1>1, <1>5, FS_CardinalityType

\* One element more: its units more.
LEMMA UnitsStep ==
  ASSUME NEW S, IsFiniteSet(S), NEW f, \A c \in S : f[c] \in Nat, NEW x \in S
  PROVE  Cardinality(Units(f, S)) = f[x] + Cardinality(Units(f, S \ {x}))
<1> DEFINE one == {x} \X (1..f[x])
<1> DEFINE rest == Units(f, S \ {x})
<1>1. Units(f, S) = one \cup rest
  BY DEF Units
<1>2. one \cap rest = {}
  BY DEF Units
<1>3. IsFiniteSet(S \ {x})
  BY FS_RemoveElement
<1>4. IsFiniteSet(rest) /\ Cardinality(rest) \in Nat
  BY <1>3, UnitsFinite
<1>5. IsFiniteSet(one) /\ Cardinality(one) = f[x]
  BY UnitsOfOne
<1>6. Cardinality(one \cap rest) = 0
  BY <1>2, FS_EmptySet
<1> HIDE DEF one, rest
<1>7. Cardinality(one \cup rest) = Cardinality(one) + Cardinality(rest) - Cardinality(one \cap rest)
  BY <1>4, <1>5, FS_Union
<1>8. QED
  BY <1>1, <1>4, <1>5, <1>6, <1>7 DEF rest

\* The function the folds of the community modules define.
LEMMA SumDef ==
  ASSUME NEW f, NEW S
  PROVE  Sum(f, S) = (CHOOSE g : SumsUp(f, S, g))[S]
  BY DEF Sum, MapThenSumSet, MapThenFoldSet, SumsUp, Some

\* A sum is the number of units in it.
LEMMA SumIsCount ==
  ASSUME NEW S, IsFiniteSet(S), NEW f, \A c \in S : f[c] \in Nat
  PROVE  Sum(f, S) = Cardinality(Units(f, S))
<1> DEFINE count == [s \in SUBSET S |-> Cardinality(Units(f, s))]
<1>1. \A s \in SUBSET S : IsFiniteSet(s) /\ \A c \in s : f[c] \in Nat
  BY FS_Subset
<1>2. ASSUME NEW s \in SUBSET S, s # {}
      PROVE  /\ Some(s) \in s
             /\ count[s] = f[Some(s)] + count[s \ {Some(s)}]
  <2>1. Some(s) \in s
    BY <1>2 DEF Some
  <2>2. Cardinality(Units(f, s)) = f[Some(s)] + Cardinality(Units(f, s \ {Some(s)}))
    BY <1>1, <2>1, UnitsStep
  <2>3. QED
    BY <2>1, <2>2
<1>3. count[{}] = 0
  <2>1. Units(f, {}) = {}
    BY DEF Units
  <2>2. QED
    BY <2>1, FS_EmptySet
<1>4. SumsUp(f, S, count)
  <2>1. \A s \in SUBSET S : count[s] = IF s = {} THEN 0 ELSE f[Some(s)] + count[s \ {Some(s)}]
    BY <1>2, <1>3
  <2>2. count = [s \in SUBSET S |-> count[s]]
    OBVIOUS
  <2> HIDE DEF count
  <2>3. QED
    BY <2>1, <2>2 DEF SumsUp
<1> DEFINE g == CHOOSE h : SumsUp(f, S, h)
<1>5. SumsUp(f, S, g)
  BY <1>4
<1> HIDE DEF g
<1>6. \A s \in SUBSET S : g[s] = IF s = {} THEN 0 ELSE f[Some(s)] + g[s \ {Some(s)}]
  BY <1>5 DEF SumsUp
<1>7. \A s \in SUBSET S : g[s] = count[s]
  <2> DEFINE Bad == {s \in SUBSET S : g[s] # count[s]}
  <2> SUFFICES ASSUME Bad # {} PROVE FALSE
    OBVIOUS
  <2>1. PICK s \in Bad : \A u \in Bad : u \subseteq s => u = s
    <3> HIDE DEF count
    <3>1. Bad \in SUBSET SUBSET S
      OBVIOUS
    <3> HIDE DEF Bad
    <3>2. QED
      BY <3>1, LeastSubset
  <2> HIDE DEF count
  <2>2. s # {}
    BY <1>3, <1>6
  <2>3. Some(s) \in s /\ s \ {Some(s)} \in SUBSET S
    BY <1>2, <2>2
  <2>4. g[s \ {Some(s)}] = count[s \ {Some(s)}]
    BY <2>1, <2>3
  <2>5. QED
    BY <1>2, <1>6, <2>2, <2>4
<1>8. QED
  BY <1>7, SumDef DEF g

-----------------------------------------------------------------------------
(* The laws of sums. *)

\* Of nothing, the sum is zero.
THEOREM SumEmpty == ASSUME NEW f PROVE Sum(f, {}) = 0
<1>1. IsFiniteSet({}) /\ Cardinality({}) = 0
  BY FS_EmptySet
<1>2. Sum(f, {}) = Cardinality(Units(f, {}))
  BY <1>1, SumIsCount
<1>3. Units(f, {}) = {}
  BY DEF Units
<1>4. QED
  BY <1>1, <1>2, <1>3

\* A sum of natural numbers is one.
THEOREM SumNat ==
  ASSUME NEW S, IsFiniteSet(S), NEW f, \A c \in S : f[c] \in Nat
  PROVE  Sum(f, S) \in Nat
BY SumIsCount, UnitsFinite

\* A sum is any of its summands and the sum of the others.
THEOREM SumStep ==
  ASSUME NEW S, IsFiniteSet(S), NEW f, \A c \in S : f[c] \in Nat, NEW x \in S
  PROVE  Sum(f, S) = f[x] + Sum(f, S \ {x})
<1>1. IsFiniteSet(S \ {x}) /\ \A c \in S \ {x} : f[c] \in Nat
  BY FS_RemoveElement
<1>2. Sum(f, S) = Cardinality(Units(f, S))
  BY SumIsCount
<1>3. Sum(f, S \ {x}) = Cardinality(Units(f, S \ {x}))
  BY <1>1, SumIsCount
<1>4. QED
  BY <1>2, <1>3, UnitsStep

\* Only the summands of the set count.
THEOREM SumEqual ==
  ASSUME NEW S, IsFiniteSet(S), NEW f, NEW g,
         \A c \in S : f[c] \in Nat /\ g[c] = f[c]
  PROVE  Sum(g, S) = Sum(f, S)
<1>1. Units(g, S) = Units(f, S)
  BY DEF Units
<1>2. Sum(f, S) = Cardinality(Units(f, S))
  BY SumIsCount
<1>3. Sum(g, S) = Cardinality(Units(g, S))
  BY SumIsCount
<1>4. QED
  BY <1>1, <1>2, <1>3

\* Fewer and smaller summands have a smaller sum.
THEOREM SumMonotonic ==
  ASSUME NEW S, IsFiniteSet(S), NEW T \in SUBSET S, NEW f, NEW g,
         \A c \in S : f[c] \in Nat,
         \A c \in T : g[c] \in Nat /\ g[c] <= f[c]
  PROVE  Sum(g, T) <= Sum(f, S)
<1>1. IsFiniteSet(T)
  BY FS_Subset
<1>2. Units(g, T) \subseteq Units(f, S)
  <2> SUFFICES ASSUME NEW c \in T, NEW n \in 1..g[c] PROVE n \in 1..f[c]
    BY DEF Units
  <2>1. QED
    OBVIOUS
<1>3. IsFiniteSet(Units(f, S))
  BY UnitsFinite
<1>4. Cardinality(Units(g, T)) <= Cardinality(Units(f, S))
  BY <1>2, <1>3, FS_Subset
<1>5. Sum(f, S) = Cardinality(Units(f, S))
  BY SumIsCount
<1>6. Sum(g, T) = Cardinality(Units(g, T))
  BY <1>1, SumIsCount
<1>7. QED
  BY <1>4, <1>5, <1>6

\* A sum does not hang on the order of its summands.
THEOREM SumPermuted ==
  ASSUME NEW n \in Nat, NEW p \in Bijection(1..n, 1..n), NEW f, NEW g,
         \A i \in 1..n : f[i] \in Nat /\ g[i] = f[p[i]]
  PROVE  Sum(g, 1..n) = Sum(f, 1..n)
<1> DEFINE D == 1..n
           move == [u \in Units(g, D) |-> <<p[u[1]], u[2]>>]
<1>1. IsFiniteSet(D)
  BY FS_Interval
<1>2. /\ p \in [D -> D]
      /\ \A i, j \in D : p[i] = p[j] => i = j
      /\ \A x \in D : \E i \in D : p[i] = x
  BY DEF Bijection, Injection, Surjection, IsInjective
<1>3. \A i \in D : f[i] \in Nat /\ g[i] = f[p[i]] /\ g[i] \in Nat
  BY <1>2
<1> HIDE DEF D
<1>4. \A h : Units(h, D) = {<<c, k>> : c \in D, k \in Int} \cap {u \in D \X Int : u[2] \in 1..h[u[1]]}
  BY DEF Units
<1>5. \A h : \A u : u \in Units(h, D) <=> /\ u = <<u[1], u[2]>> /\ u[1] \in D
                                          /\ u[2] \in Int /\ u[2] \in 1..h[u[1]]
  BY <1>4
<1>6. move \in Surjection(Units(g, D), Units(f, D))
  <2>1. ASSUME NEW u \in Units(g, D) PROVE move[u] \in Units(f, D)
    <3>1. u[1] \in D /\ u[2] \in Int /\ u[2] \in 1..g[u[1]]
      BY <1>5
    <3>2. move[u] = <<p[u[1]], u[2]>>
      OBVIOUS
    <3>3. p[u[1]] \in D /\ u[2] \in 1..f[p[u[1]]]
      BY <1>2, <1>3, <3>1
    <3> QED BY <1>5, <3>1, <3>2, <3>3
  <2>2. ASSUME NEW v \in Units(f, D) PROVE \E u \in Units(g, D) : move[u] = v
    <3>1. v = <<v[1], v[2]>> /\ v[1] \in D /\ v[2] \in Int /\ v[2] \in 1..f[v[1]]
      BY <1>5
    <3>2. PICK i \in D : p[i] = v[1]
      BY <1>2, <3>1
    <3>3. <<i, v[2]>> \in Units(g, D)
      BY <1>3, <1>5, <3>1, <3>2
    <3>4. move[<<i, v[2]>>] = v
      BY <3>1, <3>2, <3>3
    <3> QED BY <3>3, <3>4
  <2> QED BY <2>1, <2>2 DEF Surjection
<1>7. move \in Injection(Units(g, D), Units(f, D))
  <2>1. move \in [Units(g, D) -> Units(f, D)]
    BY <1>6 DEF Surjection
  <2>2. ASSUME NEW u \in Units(g, D), NEW v \in Units(g, D), move[u] = move[v] PROVE u = v
    <3>1. /\ u = <<u[1], u[2]>> /\ u[1] \in D /\ v = <<v[1], v[2]>> /\ v[1] \in D
      BY <1>5
    <3>2. p[u[1]] = p[v[1]] /\ u[2] = v[2]
      BY <2>2
    <3> QED BY <1>2, <3>1, <3>2
  <2> QED BY <2>1, <2>2 DEF Injection, IsInjective
<1> HIDE DEF move
<1>8. IsFiniteSet(Units(g, D))
  BY <1>1, <1>3, UnitsFinite
<1>9. Cardinality(Units(f, D)) = Cardinality(Units(g, D))
  BY <1>6, <1>7, <1>8, FS_Surjection
<1>10. Sum(f, D) = Cardinality(Units(f, D)) /\ Sum(g, D) = Cardinality(Units(g, D))
  BY <1>1, <1>3, SumIsCount
<1> QED BY <1>9, <1>10 DEF D

-----------------------------------------------------------------------------
(* The first and the last of a set of indices. *)

\* A set of indices that is not empty has a least member.
LEMMA LeastIndex ==
  ASSUME NEW n \in Nat, NEW I \in SUBSET (1..n), I # {}
  PROVE  \E m \in I : \A i \in I : m <= i
<1>1. IsFiniteSet(1..n)
  BY FS_Interval
<1> DEFINE upTo == {1..i : i \in I}
<1>2. upTo \in SUBSET SUBSET (1..n) /\ upTo # {}
  <2>1. \A i \in I : 1..i \subseteq 1..n
    OBVIOUS
  <2> QED BY <2>1
<1>3. PICK T \in upTo : \A U \in upTo : U \subseteq T => U = T
  <2> DEFINE all == 1..n
  <2>1. IsFiniteSet(all) /\ upTo \in SUBSET SUBSET all /\ upTo # {}
    BY <1>1, <1>2
  <2> HIDE DEF upTo, all
  <2>2. \A B \in SUBSET SUBSET all :
          B # {} => \E T \in B : \A U \in B : U \subseteq T => U = T
    BY <2>1, LeastSubset
  <2> QED BY <2>1, <2>2
<1>4. PICK m \in I : T = 1..m
  BY <1>3
<1>5. ASSUME NEW i \in I, i < m PROVE FALSE
  <2>1. 1..i \subseteq 1..m /\ m \in 1..m /\ m \notin 1..i
    BY <1>5
  <2> QED BY <1>3, <1>4, <2>1
<1> QED BY <1>5

\* The smaller of two numbers is one of them.
LEMMA MinOfTwo ==
  ASSUME NEW m \in Nat, NEW n \in Nat
  PROVE  Min({m, n}) \in Nat /\ Min({m, n}) <= m /\ Min({m, n}) <= n
<1>1. \E x \in {m, n} : \A y \in {m, n} : x <= y
  OBVIOUS
<1> QED BY <1>1 DEF Min

\* A set of indices that is not empty has a last one: the first, counted backwards.
LEMMA GreatestIndex ==
  ASSUME NEW n \in Nat, NEW I \in SUBSET (1..n), I # {}
  PROVE  \E m \in I : \A i \in I : m >= i
<1> DEFINE J == {n + 1 - i : i \in I}
<1>1. J \in SUBSET (1..n) /\ J # {}
  OBVIOUS
<1>2. \E k \in J : \A j \in J : k <= j
  <2> HIDE DEF J
  <2> QED BY <1>1, LeastIndex
<1>3. PICK m \in I : \A j \in J : n + 1 - m <= j
  BY <1>2
<1>4. \A i \in I : n + 1 - m <= n + 1 - i
  BY <1>3
<1> QED BY <1>4

\* The last index of a set of them.
LEMMA MaxIndex ==
  ASSUME NEW n \in Nat, NEW S \in SUBSET (1..n), S # {}
  PROVE  Max(S) \in S /\ \A i \in S : Max(S) >= i
<1>1. \E m \in S : \A i \in S : m >= i
  BY GreatestIndex
<1> QED BY <1>1 DEF Max

\* One sequence after another.
LEMMA Joined ==
  ASSUME NEW S, NEW s \in Seq(S), NEW t \in Seq(S)
  PROVE  /\ s \o t \in Seq(S) /\ Len(s) \in Nat /\ Len(t) \in Nat
         /\ Len(s \o t) = Len(s) + Len(t) /\ DOMAIN (s \o t) = 1..Len(s) + Len(t)
         /\ DOMAIN s = 1..Len(s) /\ DOMAIN t = 1..Len(t)
         /\ \A i \in 1..Len(s) : (s \o t)[i] = s[i]
         /\ \A i \in 1..Len(t) : (s \o t)[Len(s) + i] = t[i]
OBVIOUS

\* The members of a set of indices before one of them.
Below(I, i) == {j \in I : j < i}

\* Every index has its place, and every place its index.
LEMMA NthIndex ==
  ASSUME NEW n \in Nat, NEW I \in SUBSET (1..n)
  PROVE  /\ IsFiniteSet(I) /\ Cardinality(I) \in Nat
         /\ \A i \in I : Cardinality(Below(I, i)) + 1 \in 1..Cardinality(I)
         /\ \A a, b \in I : Cardinality(Below(I, a)) = Cardinality(Below(I, b)) => a = b
         /\ \A k \in 1..Cardinality(I) : \E i \in I : Cardinality(Below(I, i)) = k - 1
<1>1. IsFiniteSet(I) /\ Cardinality(I) \in Nat
  <2>1. IsFiniteSet(1..n)
    BY FS_Interval
  <2>2. IsFiniteSet(I)
    BY <2>1, FS_Subset
  <2> QED BY <2>2, FS_CardinalityType
<1>2. ASSUME NEW i \in I PROVE /\ IsFiniteSet(Below(I, i)) /\ Cardinality(Below(I, i)) \in Nat
                               /\ Cardinality(Below(I, i)) < Cardinality(I)
  <2>1. Below(I, i) \in SUBSET I /\ i \notin Below(I, i)
    BY DEF Below
  <2>2. IsFiniteSet(Below(I, i)) /\ Cardinality(Below(I, i)) <= Cardinality(I)
        /\ (Cardinality(I) = Cardinality(Below(I, i)) => I = Below(I, i))
    BY <1>1, <2>1, FS_Subset
  <2>3. Cardinality(Below(I, i)) \in Nat
    BY <2>2, FS_CardinalityType
  <2> QED BY <1>1, <2>1, <2>2, <2>3
<1>3. ASSUME NEW a \in I, NEW b \in I, a < b PROVE Cardinality(Below(I, a)) < Cardinality(Below(I, b))
  <2>1. Below(I, a) \in SUBSET Below(I, b) /\ a \in Below(I, b) /\ a \notin Below(I, a)
    <3>1. I \subseteq Int
      OBVIOUS
    <3>2. \A j \in I : j < a => j < b
      BY <1>3, <3>1
    <3>3. ~(a < a)
      BY <3>1
    <3> QED BY <1>3, <3>2, <3>3 DEF Below
  <2>2. Cardinality(Below(I, a)) <= Cardinality(Below(I, b))
        /\ (Cardinality(Below(I, b)) = Cardinality(Below(I, a)) => Below(I, b) = Below(I, a))
    BY <1>2, <2>1, FS_Subset
  <2>3. Cardinality(Below(I, a)) \in Nat /\ Cardinality(Below(I, b)) \in Nat
    BY <1>2
  <2>4. Cardinality(Below(I, a)) # Cardinality(Below(I, b))
    BY <2>1, <2>2
  <2> QED BY <2>2, <2>3, <2>4
<1>4. \A a, b \in I : Cardinality(Below(I, a)) = Cardinality(Below(I, b)) => a = b
  <2> TAKE a, b \in I
  <2>1. a < b \/ b < a \/ a = b
    OBVIOUS
  <2>2. a < b => Cardinality(Below(I, a)) < Cardinality(Below(I, b))
    BY <1>3
  <2>3. b < a => Cardinality(Below(I, b)) < Cardinality(Below(I, a))
    BY <1>3
  <2> QED BY <1>2, <2>1, <2>2, <2>3
<1>5. \A i \in I : Cardinality(Below(I, i)) + 1 \in 1..Cardinality(I)
  BY <1>1, <1>2
<1>6. \A k \in 1..Cardinality(I) : \E i \in I : Cardinality(Below(I, i)) = k - 1
  <2> DEFINE place == [i \in I |-> Cardinality(Below(I, i)) + 1]
             all == 1..Cardinality(I)
  <2>1. IsFiniteSet(all) /\ Cardinality(all) = Cardinality(I)
    BY <1>1, FS_Interval
  <2>2. place \in [I -> all]
    BY <1>5
  <2>3. place \in Injection(I, all)
    <3>1. \A a, b \in I : place[a] = place[b] => a = b
      BY <1>2, <1>4
    <3>2. DOMAIN place = I
      OBVIOUS
    <3> HIDE DEF place, all
    <3> QED BY <2>2, <3>1, <3>2 DEF Injection, IsInjective
  <2>4. place \in Surjection(I, all)
    <3> HIDE DEF place, all
    <3> QED BY <1>1, <2>1, <2>3, FS_Injection
  <2>5. \A k \in all : \E i \in I : place[i] = k
    <3> HIDE DEF place, all
    <3> QED BY <2>4 DEF Surjection
  <2>6. \A k \in 1..Cardinality(I) : \E i \in I : Cardinality(Below(I, i)) + 1 = k
    BY <2>5
  <2> QED BY <1>1, <1>2, <2>6
<1> QED BY <1>1, <1>4, <1>5, <1>6

-----------------------------------------------------------------------------
(* Any numbers can be put in order. *)

\* p puts the first m numbers of f in order.
Orders(p, f, m) ==
  /\ p \in [1..m -> 1..m]
  /\ \A i, j \in 1..m : p[i] = p[j] => i = j
  /\ \A x \in 1..m : \E i \in 1..m : p[i] = x
  /\ \A i, j \in 1..m : i < j => f[p[i]] <= f[p[j]]

\* Where the next number goes: before the first that is larger.
LEMMA PlaceExists ==
  ASSUME NEW m \in Nat, NEW f, \A i \in 1..m + 1 : f[i] \in Int, NEW p, Orders(p, f, m)
  PROVE  \E k \in 1..m + 1 : /\ \A i \in 1..m : i < k => f[p[i]] <= f[m + 1]
                             /\ \A i \in 1..m : k <= i => f[m + 1] <= f[p[i]]
<1> DEFINE g == [i \in 1..m |-> f[p[i]]]
           last == f[m + 1]
           Larger == {i \in 1..m : g[i] > last}
<1>1. last \in Int /\ g \in [1..m -> Int] /\ \A i, j \in 1..m : i < j => g[i] <= g[j]
  <2>1. \A i \in 1..m : p[i] \in 1..m + 1
    BY DEF Orders
  <2>2. \A i, j \in 1..m : i < j => f[p[i]] <= f[p[j]]
    BY DEF Orders
  <2> QED BY <2>1, <2>2
<1>2. \A i \in 1..m : f[p[i]] = g[i]
  OBVIOUS
<1> HIDE DEF g, last
<1>3. CASE Larger = {}
  <2>1. \A i \in 1..m : g[i] <= last
    BY <1>1, <1>3
  <2>2. m + 1 \in 1..m + 1 /\ \A i \in 1..m : ~(m + 1 <= i)
    OBVIOUS
  <2> QED BY <1>2, <2>1, <2>2 DEF last
<1>4. CASE Larger # {}
  <2>1. Larger \in SUBSET (1..m)
    OBVIOUS
  <2>2. PICK k \in Larger : \A i \in Larger : k <= i
    <3> HIDE DEF Larger
    <3> QED BY <1>4, <2>1, LeastIndex
  <2>3. k \in 1..m /\ g[k] > last
    OBVIOUS
  <2>4. ASSUME NEW i \in 1..m, i < k PROVE g[i] <= last
    BY <1>1, <2>2, <2>3, <2>4
  <2>5. ASSUME NEW i \in 1..m, k <= i PROVE last <= g[i]
    BY <1>1, <2>3, <2>5
  <2> QED BY <1>2, <2>3, <2>4, <2>5 DEF last
<1> QED BY <1>3, <1>4

\* One number more can be put in its place.
LEMMA PlaceOne ==
  ASSUME NEW m \in Nat, NEW f, \A i \in 1..m + 1 : f[i] \in Int, NEW p, Orders(p, f, m)
  PROVE  \E q : Orders(q, f, m + 1)
<1>1. PICK k \in 1..m + 1 : /\ \A i \in 1..m : i < k => f[p[i]] <= f[m + 1]
                            /\ \A i \in 1..m : k <= i => f[m + 1] <= f[p[i]]
  BY PlaceExists
<1> DEFINE q == [i \in 1..m + 1 |-> IF i < k THEN p[i] ELSE IF i = k THEN m + 1 ELSE p[i - 1]]
<1>2. /\ \A i \in 1..m : p[i] \in 1..m
      /\ \A i, j \in 1..m : p[i] = p[j] => i = j
      /\ \A x \in 1..m : \E i \in 1..m : p[i] = x
      /\ \A i, j \in 1..m : i < j => f[p[i]] <= f[p[j]]
  BY DEF Orders
<1>3. \A i \in 1..m + 1 :
        \/ i < k /\ i \in 1..m /\ q[i] = p[i]
        \/ i = k /\ q[i] = m + 1
        \/ i > k /\ i - 1 \in 1..m /\ q[i] = p[i - 1]
  OBVIOUS
<1>4. q \in [1..m + 1 -> 1..m + 1]
  BY <1>2
<1> HIDE DEF q
<1>5. ASSUME NEW i \in 1..m + 1, NEW j \in 1..m + 1, q[i] = q[j] PROVE i = j
  <2>1. CASE i = k \/ j = k
    BY <1>2, <1>3, <1>5, <2>1
  <2>2. CASE i # k /\ j # k
    <3> DEFINE a == IF i < k THEN i ELSE i - 1
               b == IF j < k THEN j ELSE j - 1
    <3>1. a \in 1..m /\ b \in 1..m /\ q[i] = p[a] /\ q[j] = p[b]
      BY <1>3, <2>2
    <3>2. a = b
      BY <1>2, <1>5, <3>1
    <3> QED BY <1>1, <2>2, <3>2
  <2> QED BY <2>1, <2>2
<1>6. ASSUME NEW x \in 1..m + 1 PROVE \E i \in 1..m + 1 : q[i] = x
  <2>1. CASE x = m + 1
    BY <1>3, <2>1
  <2>2. CASE x # m + 1
    <3>1. PICK a \in 1..m : p[a] = x
      BY <1>2, <2>2
    <3>2. CASE a < k
      BY <1>3, <3>1, <3>2
    <3>3. CASE a >= k
      <4>1. a + 1 \in 1..m + 1 /\ a + 1 > k /\ a + 1 - 1 = a
        BY <3>3
      <4>2. q[a + 1] = p[a + 1 - 1]
        BY <1>3, <4>1
      <4> QED BY <3>1, <4>1, <4>2
    <3> QED BY <3>2, <3>3
  <2> QED BY <2>1, <2>2
<1>7. ASSUME NEW i \in 1..m + 1, NEW j \in 1..m + 1, i < j PROVE f[q[i]] <= f[q[j]]
  <2>1. CASE j < k
    BY <1>2, <1>3, <1>7, <2>1
  <2>2. CASE j = k
    <3>1. q[j] = m + 1 /\ i \in 1..m /\ i < k /\ q[i] = p[i]
      BY <1>3, <1>7, <2>2
    <3> QED BY <1>1, <3>1
  <2>3. CASE j > k
    <3>1. j - 1 \in 1..m /\ q[j] = p[j - 1]
      BY <1>3, <2>3
    <3>2. CASE i = k
      <4>1. q[i] = m + 1 /\ k <= j - 1
        BY <1>3, <2>3, <3>2
      <4> QED BY <1>1, <3>1, <4>1
    <3>3. CASE i < k
      <4>1. i \in 1..m /\ q[i] = p[i] /\ i < j - 1
        BY <1>3, <2>3, <3>3
      <4> QED BY <1>2, <3>1, <4>1
    <3>4. CASE i > k
      <4>1. i - 1 \in 1..m /\ q[i] = p[i - 1] /\ i - 1 < j - 1
        BY <1>3, <1>7, <3>4
      <4> QED BY <1>2, <3>1, <4>1
    <3> QED BY <3>2, <3>3, <3>4
  <2> QED BY <2>1, <2>2, <2>3
<1>8. Orders(q, f, m + 1)
  BY <1>4, <1>5, <1>6, <1>7 DEF Orders
<1> QED BY <1>8

\* So any number of them can be put in order.
LEMMA OrderExists ==
  ASSUME NEW n \in Nat, NEW f, \A i \in 1..n : f[i] \in Int
  PROVE  \E p : Orders(p, f, n)
<1> DEFINE Bad == {m \in 1..n : \A p : ~Orders(p, f, m)}
<1>1. Orders([i \in 1..0 |-> i], f, 0)
  BY DEF Orders
<1>2. ASSUME Bad # {} PROVE FALSE
  <2>1. PICK m \in Bad : \A i \in Bad : m <= i
    <3>1. Bad \in SUBSET (1..n)
      OBVIOUS
    <3> HIDE DEF Bad
    <3> QED BY <1>2, <3>1, LeastIndex
  <2>2. m \in 1..n /\ m - 1 \in Nat /\ m - 1 + 1 = m /\ \A p : ~Orders(p, f, m)
    OBVIOUS
  <2>3. m - 1 \notin Bad
    <3> HIDE DEF Bad
    <3> QED BY <2>1, <2>2
  <2>4. \E p : Orders(p, f, m - 1)
    <3>1. CASE m - 1 = 0
      BY <1>1, <3>1
    <3>2. CASE m - 1 # 0
      BY <2>2, <2>3, <3>2
    <3> QED BY <3>1, <3>2
  <2>5. PICK p : Orders(p, f, m - 1)
    BY <2>4
  <2>6. \A i \in 1..m : f[i] \in Int
    BY <2>2
  <2>7. \E q : Orders(q, f, m - 1 + 1)
    BY <2>2, <2>5, <2>6, PlaceOne
  <2> QED BY <2>2, <2>7
<1> QED
  BY <1>1, <1>2
=============================================================================
