----------------------------- MODULE OrderFacts -----------------------------
(***************************************************************************)
(* Least elements of sets of numbers, what InOrder and Sublist list, and   *)
(* what a recursive function computes: facts the proofs share.             *)
(***************************************************************************)
EXTENDS Sorting, WellFoundedInduction, FiniteSetTheorems, TLAPS

(* Every set of natural numbers that is not empty has a least element. *)
LEMMA NatHasLeast ==
    ASSUME NEW T, T \subseteq Nat, T # {}
    PROVE  \E m \in T : \A n \in T : ~(n < m)
<1> DEFINE Less == OpToRel(<, Nat)
<1>1. IsWellFoundedOn(Less, Nat)
    BY NatLessThanWellFounded
<1>2. \E m \in T : \A n \in T : ~(<<n, m>> \in Less)
  <2> HIDE DEF Less
  <2> QED
      BY <1>1, WFMin
<1>3. \A m, n \in Nat : <<n, m>> \in Less <=> n < m
    BY DEF OpToRel
<1> QED
    BY <1>2, <1>3

(* Induction up to a number, over a set *)
LEMMA InductionTo ==
    ASSUME NEW n \in Nat, NEW T, 0 \in T, \A k \in 1..n : k - 1 \in T => k \in T
    PROVE  0..n \subseteq T
<1> DEFINE Missing == {k \in 0..n : k \notin T}
<1> SUFFICES ASSUME Missing # {} PROVE FALSE
    OBVIOUS
<1>1. PICK m \in Missing : \A k \in Missing : ~(k < m)
  <2>1. Missing \subseteq Nat
      OBVIOUS
  <2> HIDE DEF Missing
  <2> QED
      BY <2>1, NatHasLeast
<1>2. m \in 1..n /\ m - 1 \in 0..n /\ m - 1 < m
    BY <1>1
<1> QED
    BY <1>1, <1>2

(* A function defined by recursion on a number exists; its steps are given *)
(* as a function.                                                          *)
StepsIn(step, n, S) == \A k \in 1..n, v \in S : step[<<k, v>>] \in S
Repeats(g, n, base, step) ==
    g[0] = base /\ \A k \in 1..n : g[k] = step[<<k, g[k - 1]>>]

LEMMA RecursionExists ==
    ASSUME NEW n \in Nat, NEW S, NEW base \in S, NEW step, StepsIn(step, n, S)
    PROVE  \E g \in [0..n -> S] : Repeats(g, n, base, step)
<1> USE DEF StepsIn, Repeats
<1> DEFINE Upto(m) == \E g \in [0..m -> S] : Repeats(g, m, base, step)
           T == {m \in 0..n : Upto(m)}
<1>1. 0 \in T
  <2> DEFINE g == [k \in 0..0 |-> base]
  <2>1. g \in [0..0 -> S] /\ g[0] = base /\ \A k \in 1..0 : g[k] = step[<<k, g[k - 1]>>]
      OBVIOUS
  <2> HIDE DEF g
  <2>2. Upto(0)
      BY <2>1
  <2> HIDE DEF Upto
  <2> QED
      BY <2>2
<1>2. ASSUME NEW m \in 1..n, m - 1 \in T PROVE m \in T
  <2>1. PICK g \in [0..(m - 1) -> S] :
            /\ g[0] = base
            /\ \A k \in 1..(m - 1) : g[k] = step[<<k, g[k - 1]>>]
      BY <1>2
  <2> DEFINE h == [k \in 0..m |-> IF k = m THEN step[<<m, g[m - 1]>>] ELSE g[k]]
  <2>2. g[m - 1] \in S /\ step[<<m, g[m - 1]>>] \in S
      BY <2>1
  <2>3. h \in [0..m -> S] /\ h[0] = base
      BY <2>1, <2>2
  <2>4. ASSUME NEW k \in 1..m PROVE h[k] = step[<<k, h[k - 1]>>]
    <3>1. h[k - 1] = g[k - 1] /\ k \in 0..m
        BY <2>4
    <3>2. k = m \/ k \in 1..(m - 1)
        BY <2>4
    <3> QED
        BY <2>1, <3>1, <3>2
  <2> HIDE DEF h
  <2> QED
      BY <2>3, <2>4
<1>3. 0..n \subseteq T
  <2> HIDE DEF T
  <2> QED
      BY <1>1, <1>2, InductionTo
<1> QED
    BY <1>3

(* InOrder lists the elements of a finite set, each once, in their order. *)
StrictOrder(S, before) ==
    /\ \A x \in S : <<x, x>> \notin before
    /\ \A x, y \in S : x # y => <<x, y>> \in before \/ <<y, x>> \in before
    /\ \A x, y, z \in S :
        <<x, y>> \in before /\ <<y, z>> \in before => <<x, z>> \in before

LEMMA InOrderLists ==
    ASSUME NEW S, IsFiniteSet(S), NEW before, StrictOrder(S, before)
    PROVE  /\ Cardinality(S) \in Nat /\ InOrder(S, before) \in [1..Cardinality(S) -> S]
           /\ \A k, l \in 1..Cardinality(S) :
                InOrder(S, before)[k] = InOrder(S, before)[l] => k = l
           /\ \A x \in S : \E k \in 1..Cardinality(S) : InOrder(S, before)[k] = x
           /\ \A k, l \in 1..Cardinality(S) :
                k < l => <<InOrder(S, before)[k], InOrder(S, before)[l]>> \in before
<1> DEFINE Below(x) == {y \in S : <<y, x>> \in before}
           n == Cardinality(S)
           rank == [x \in S |-> Cardinality(Below(x))]
           list == InOrder(S, before)
<1> HIDE DEF list
<1>1. n \in Nat
    BY FS_CardinalityType
<1>2. ASSUME NEW x \in S PROVE rank[x] \in 0..(n - 1)
  <2>1. IsFiniteSet(S \ {x}) /\ Cardinality(S \ {x}) = n - 1
      BY FS_RemoveElement
  <2>2. Below(x) \in SUBSET (S \ {x})
      BY DEF StrictOrder
  <2>3. IsFiniteSet(Below(x)) /\ Cardinality(Below(x)) <= n - 1
      BY <2>1, <2>2, FS_Subset, ZenonT(40)
  <2>4. Cardinality(Below(x)) \in Nat
      BY <2>3, FS_CardinalityType
  <2> QED
      BY <1>1, <2>3, <2>4
<1>3. ASSUME NEW x \in S, NEW y \in S, <<x, y>> \in before PROVE rank[x] < rank[y]
  <2>1. IsFiniteSet(Below(x)) /\ IsFiniteSet(Below(y))
      BY FS_Subset
  <2>2. Below(x) \in SUBSET Below(y) /\ x \in Below(y) /\ x \notin Below(x)
      BY <1>3 DEF StrictOrder
  <2>3. /\ Cardinality(Below(x)) <= Cardinality(Below(y))
        /\ Cardinality(Below(x)) # Cardinality(Below(y))
      BY <2>1, <2>2, FS_Subset
  <2>4. rank[x] \in Int /\ rank[y] \in Int
      BY <1>2
  <2>5. rank[x] <= rank[y] /\ rank[x] # rank[y]
      BY <2>3
  <2> HIDE DEF rank
  <2> QED
      BY <2>4, <2>5
<1>4. rank \in Injection(S, 0..(n - 1))
  <2>1. rank \in [S -> 0..(n - 1)]
      BY <1>2
  <2>2. \A x, y \in S : rank[x] = rank[y] => x = y
    <3> SUFFICES ASSUME NEW x \in S, NEW y \in S, x # y PROVE rank[x] # rank[y]
        OBVIOUS
    <3>1. rank[x] < rank[y] \/ rank[y] < rank[x]
        BY <1>3 DEF StrictOrder
    <3>2. rank[x] \in Int /\ rank[y] \in Int
        BY <1>2
    <3> HIDE DEF rank
    <3> QED
        BY <3>1, <3>2
  <2> HIDE DEF rank
  <2> QED
      BY <2>1, <2>2 DEF Injection, IsInjective
<1>5. IsFiniteSet(0..(n - 1)) /\ Cardinality(0..(n - 1)) = n
    BY <1>1, FS_Interval
<1>6. rank \in Surjection(S, 0..(n - 1))
  <2> HIDE DEF rank, n
  <2> QED
      BY <1>4, <1>5, FS_Injection DEF n
<1>7. ASSUME NEW k \in 1..n PROVE list[k] \in S /\ rank[list[k]] = k - 1
  <2>1. PICK x \in S : rank[x] = k - 1
    <3> HIDE DEF rank
    <3> QED
        BY <1>1, <1>6 DEF Surjection
  <2>2. \E y \in S : Cardinality({v \in S : <<v, y>> \in before}) = k - 1
      BY <2>1
  <2> QED
      BY <2>2 DEF list, InOrder
<1>8. ASSUME NEW x \in S PROVE \E k \in 1..n : list[k] = x
  <2>1. rank[x] \in Int /\ rank[x] + 1 \in 1..n
      BY <1>1, <1>2
  <2> HIDE DEF rank, n
  <2>2. PICK k \in 1..n : k - 1 = rank[x]
      BY <2>1
  <2>3. list[k] \in S /\ rank[list[k]] = rank[x]
      BY <1>7, <2>2
  <2> QED
      BY <1>4, <2>3 DEF Injection, IsInjective
<1>9. list \in [1..n -> S]
  <2>1. list = [k \in 1..n |-> list[k]]
    <3> DEFINE At(k) == CHOOSE x \in S : Cardinality({y \in S : <<y, x>> \in before}) = k - 1
    <3>1. list = [k \in 1..n |-> At(k)]
        BY DEF list, InOrder
    <3> HIDE DEF At, n
    <3> QED
        BY <3>1
  <2> HIDE DEF n, rank
  <2> QED
      BY <1>7, <2>1
<1>10. ASSUME NEW k \in 1..n, NEW l \in 1..n, list[k] = list[l] PROVE k = l
  <2> HIDE DEF rank, n
  <2>1. rank[list[k]] = k - 1 /\ rank[list[l]] = l - 1
      BY <1>7
  <2> QED
      BY <1>1, <1>10, <2>1
<1>11. ASSUME NEW k \in 1..n, NEW l \in 1..n, k < l
       PROVE  <<list[k], list[l]>> \in before
  <2>1. /\ list[k] \in S /\ list[l] \in S
        /\ rank[list[k]] = k - 1 /\ rank[list[l]] = l - 1
      BY <1>7
  <2>2. list[k] # list[l]
      BY <1>1, <1>11, <1>10
  <2>3. ASSUME <<list[l], list[k]>> \in before PROVE FALSE
    <3>1. rank[list[l]] < rank[list[k]]
        BY <1>3, <2>1, <2>3
    <3> HIDE DEF rank, n
    <3> QED
        BY <1>1, <1>11, <2>1, <3>1
  <2> QED
      BY <2>1, <2>2, <2>3 DEF StrictOrder
<1> HIDE DEF rank
<1> QED
    BY <1>1, <1>8, <1>9, <1>10, <1>11 DEF list

(* Ascending lists a finite set of numbers, each once. *)
LEMMA AscendingLists ==
    ASSUME NEW I, I \subseteq Nat, IsFiniteSet(I)
    PROVE  /\ Cardinality(I) \in Nat /\ Ascending(I) \in [1..Cardinality(I) -> I]
           /\ \A k, l \in 1..Cardinality(I) : Ascending(I)[k] = Ascending(I)[l] => k = l
           /\ \A i \in I : \E k \in 1..Cardinality(I) : Ascending(I)[k] = i
           /\ \A k, l \in 1..Cardinality(I) : k < l => Ascending(I)[k] < Ascending(I)[l]
<1> DEFINE before == {p \in I \X I : p[1] < p[2]}
<1>1. \A x, y \in I : <<x, y>> \in before <=> x < y
    OBVIOUS
<1>2. StrictOrder(I, before)
  <2>1. \A x \in I : x \in Nat
      OBVIOUS
  <2> HIDE DEF before
  <2> QED
      BY <1>1, <2>1 DEF StrictOrder
<1> DEFINE list == Ascending(I)
<1> HIDE DEF before, list
<1>3. /\ Cardinality(I) \in Nat /\ list \in [1..Cardinality(I) -> I]
      /\ \A k, l \in 1..Cardinality(I) : list[k] = list[l] => k = l
      /\ \A x \in I : \E k \in 1..Cardinality(I) : list[k] = x
      /\ \A k, l \in 1..Cardinality(I) : k < l => <<list[k], list[l]>> \in before
  <2>1. list = InOrder(I, before)
      BY DEF list, before, Ascending
  <2> QED
      BY <1>2, <2>1, InOrderLists
<1>4. \A k, l \in 1..Cardinality(I) : k < l => list[k] < list[l]
    BY <1>1, <1>3
<1> QED
    BY <1>3, <1>4 DEF list

(* A sublist has the elements at the positions, in their order. *)
LEMMA SublistLists ==
    ASSUME NEW T, NEW list \in Seq(T), NEW I, I \subseteq DOMAIN list
    PROVE  /\ IsFiniteSet(I) /\ I \subseteq Nat /\ Cardinality(I) \in Nat
           /\ Sublist(list, I) \in Seq(T) /\ DOMAIN Sublist(list, I) = 1..Cardinality(I)
           /\ \A k \in 1..Cardinality(I) :
                Ascending(I)[k] \in I /\ Sublist(list, I)[k] = list[Ascending(I)[k]]
<1>1. DOMAIN list = 1..Len(list) /\ Len(list) \in Nat /\ IsFiniteSet(1..Len(list))
    BY FS_Interval
<1>2. I \subseteq Nat /\ IsFiniteSet(I)
  <2>1. I \in SUBSET (1..Len(list))
      BY <1>1
  <2> QED
      BY <1>1, <2>1, FS_Subset
<1> DEFINE n == Cardinality(I)
           A == Ascending(I)
<1>3. n \in Nat /\ A \in [1..n -> I]
    BY <1>2, AscendingLists
<1>4. Sublist(list, I) = [k \in 1..n |-> list[A[k]]]
    BY DEF Sublist
<1> HIDE DEF n, A
<1>5. \A k \in 1..n : A[k] \in I /\ A[k] \in DOMAIN list /\ list[A[k]] \in T
    BY <1>3
<1>6. /\ Sublist(list, I) \in Seq(T) /\ DOMAIN Sublist(list, I) = 1..n
      /\ \A k \in 1..n : Sublist(list, I)[k] = list[A[k]]
    BY <1>3, <1>4, <1>5
<1> QED
    BY <1>2, <1>3, <1>5, <1>6 DEF n, A
=============================================================================
