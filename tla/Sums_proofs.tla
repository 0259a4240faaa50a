----------------------------- MODULE Sums_proofs -----------------------------
(***************************************************************************)
(* Facts about Sum, from the cardinality theorems of finite sets.          *)
(***************************************************************************)
EXTENDS Sums, FiniteSetTheorems, FunctionTheorems, TLAPS

\* The units of one amount f[x] are a finite set of f[x] elements.
LEMMA UnitsOfOne ==
    ASSUME NEW x, NEW n \in Nat
    PROVE  /\ IsFiniteSet({x} \X (1 .. n))
           /\ Cardinality({x} \X (1 .. n)) = n
<1> DEFINE g == [i \in 1 .. n |-> <<x, i>>]
<1>1. IsFiniteSet(1 .. n) /\ Cardinality(1 .. n) = n
    BY FS_Interval
<1>2. g \in Bijection(1 .. n, {x} \X (1 .. n))
    <2>1. g \in [1 .. n -> {x} \X (1 .. n)]
        OBVIOUS
    <2>2. \A i, j \in 1 .. n : g[i] = g[j] => i = j
        OBVIOUS
    <2>3. \A t \in {x} \X (1 .. n) : \E i \in 1 .. n : g[i] = t
        OBVIOUS
    <2> HIDE DEF g
    <2> QED BY <2>1, <2>2, <2>3, Fun_IsBij
<1>3. ExistsBijection(1 .. n, {x} \X (1 .. n))
    BY <1>2 DEF ExistsBijection
<1> QED BY <1>1, <1>3, FS_Bijection

\* The units of finitely many natural amounts are finitely many.
LEMMA UnitsFinite ==
    ASSUME NEW S, IsFiniteSet(S), NEW f, \A x \in S : f[x] \in Nat
    PROVE  IsFiniteSet(Units(f, S))
<1> DEFINE F == {{x} \X (1 .. f[x]) : x \in S}
           g == [x \in S |-> {x} \X (1 .. f[x])]
<1>1. g \in Surjection(S, F)
    BY DEF Surjection
<1>2. IsFiniteSet(F)
    <2> HIDE DEF F, g
    <2> QED BY <1>1, FS_Surjection
<1>3. \A T \in F : IsFiniteSet(T)
    <2>1. \A x \in S : IsFiniteSet({x} \X (1 .. f[x]))
        BY UnitsOfOne
    <2> QED BY <2>1, Zenon
<1>4. IsFiniteSet(UNION F)
    <2> HIDE DEF F
    <2> QED BY <1>2, <1>3, FS_UNION
<1> QED BY <1>4 DEF Units

\* A sum of natural numbers is one.
LEMMA SumType ==
    ASSUME NEW S, IsFiniteSet(S), NEW f, \A x \in S : f[x] \in Nat
    PROVE  Sum(f, S) \in Nat
BY UnitsFinite, FS_CardinalityType DEF Sum

\* A sum is one of its amounts plus the sum of the others.
LEMMA SumSplit ==
    ASSUME NEW S, IsFiniteSet(S), NEW f, \A x \in S : f[x] \in Nat,
           NEW r \in S
    PROVE  Sum(f, S) = Sum(f, S \ {r}) + f[r]
<1> DEFINE A == Units(f, S \ {r})
           B == {r} \X (1 .. f[r])
<1>1. IsFiniteSet(S \ {r}) /\ \A x \in S \ {r} : f[x] \in Nat
    BY FS_RemoveElement
<1>2. IsFiniteSet(A)
    BY <1>1, UnitsFinite
<1>3. IsFiniteSet(B) /\ Cardinality(B) = f[r]
    BY UnitsOfOne
<1>4. Units(f, S) = A \cup B
    BY DEF Units
<1>5. A \cap B = {}
    BY DEF Units
<1>6. Cardinality(A) \in Nat
    BY <1>2, FS_CardinalityType
<1> HIDE DEF A, B
<1>7. Cardinality(A \cup B) = Cardinality(A) + Cardinality(B) - Cardinality(A \cap B)
    BY <1>2, <1>3, FS_Union
<1>8. Cardinality(A \cap B) = 0
    BY <1>5, FS_EmptySet
<1>9. Cardinality(A \cup B) = Cardinality(A) + f[r]
    BY <1>3, <1>6, <1>7, <1>8
<1> QED BY <1>4, <1>9 DEF Sum, A

\* Equal amounts have equal sums.
LEMMA SumSame ==
    ASSUME NEW S, NEW f, NEW g, \A x \in S : f[x] = g[x]
    PROVE  Sum(f, S) = Sum(g, S)
<1>1. Units(f, S) = Units(g, S)
    BY DEF Units
<1> QED BY <1>1 DEF Sum

\* Smaller amounts have a smaller sum.
LEMMA SumMonotone ==
    ASSUME NEW S, IsFiniteSet(S), NEW f, NEW g,
           \A x \in S : f[x] \in Nat /\ g[x] \in Nat /\ f[x] <= g[x]
    PROVE  Sum(f, S) <= Sum(g, S)
<1>1. Units(f, S) \subseteq Units(g, S)
    BY DEF Units
<1>2. IsFiniteSet(Units(g, S))
    BY UnitsFinite
<1> QED BY <1>1, <1>2, FS_Subset DEF Sum

\* Changing one amount changes the sum by the difference.
LEMMA SumUpdate ==
    ASSUME NEW S, IsFiniteSet(S), NEW f, NEW g, NEW r \in S,
           \A x \in S : f[x] \in Nat /\ g[x] \in Nat,
           \A x \in S \ {r} : g[x] = f[x]
    PROVE  Sum(g, S) + f[r] = Sum(f, S) + g[r]
<1>1. Sum(f, S) = Sum(f, S \ {r}) + f[r]
    BY SumSplit
<1>2. Sum(g, S) = Sum(g, S \ {r}) + g[r]
    BY SumSplit
<1>3. Sum(g, S \ {r}) = Sum(f, S \ {r})
    BY SumSame
<1>4. IsFiniteSet(S \ {r}) /\ Sum(f, S \ {r}) \in Nat
    <2>1. IsFiniteSet(S \ {r})
        BY FS_RemoveElement
    <2> QED BY <2>1, SumType
<1> QED BY <1>1, <1>2, <1>3, <1>4

\* The sum of nothing but zeros is zero.
LEMMA SumZero ==
    ASSUME NEW S, NEW f, \A x \in S : f[x] = 0
    PROVE  Sum(f, S) = 0
<1>1. Units(f, S) = {}
    BY DEF Units
<1> QED BY <1>1, FS_EmptySet DEF Sum

\* One amount is at most the sum.
LEMMA SumAtLeast ==
    ASSUME NEW S, IsFiniteSet(S), NEW f, \A x \in S : f[x] \in Nat, NEW r \in S
    PROVE  f[r] <= Sum(f, S)
<1>1. IsFiniteSet(S \ {r}) /\ \A x \in S \ {r} : f[x] \in Nat
    BY FS_RemoveElement
<1>2. Sum(f, S \ {r}) \in Nat
    BY <1>1, SumType
<1> QED BY <1>2, SumSplit
=============================================================================
