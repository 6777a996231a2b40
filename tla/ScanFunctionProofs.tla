------------------------- MODULE ScanFunctionProofs -------------------------
(***************************************************************************)
(* Proofs about the functions of the scanner, for every input: the lists   *)
(* of intervals it reads and looks frequencies up in (Intervals), the      *)
(* centres of a range's frames and the peaks of a spectrum (Spectrum).     *)
(***************************************************************************)
EXTENDS Intervals, Spectrum, OrderFacts, TLAPS

-----------------------------------------------------------------------------
(* A position of bisect exists: the least one with no start below the key  *)
(* behind it.                                                              *)
LEMMA BisectSplits ==
    ASSUME NEW l, ByStart(l), NEW key \in Int
    PROVE  /\ Bisect(l, key) \in 0..Len(l)
           /\ \A i \in 1..Bisect(l, key) : Start(l[i]) < key
           /\ \A i \in (Bisect(l, key) + 1)..Len(l) : Start(l[i]) >= key
<1> DEFINE Behind(n) == \A i \in (n + 1)..Len(l) : Start(l[i]) >= key
           Splits(n) == (\A i \in 1..n : Start(l[i]) < key) /\ Behind(n)
           T == {n \in 0..Len(l) : Behind(n)}
<1>1. Len(l) \in Nat /\ \A i \in 1..Len(l) : Start(l[i]) \in Int
    BY DEF ByStart, Start
<1>2. T \subseteq Nat /\ T # {}
  <2>1. Len(l) \in T
      BY <1>1
  <2> QED
      BY <1>1, <2>1
<1>3. PICK m \in T : \A n \in T : ~(n < m)
  <2> HIDE DEF T
  <2> QED
      BY <1>2, NatHasLeast
<1>4. m \in 0..Len(l) /\ Behind(m) /\ \A n \in T : ~(n < m)
    BY <1>3
<1>5. Splits(m)
  <2>1. CASE m = 0
      BY <1>4, <2>1
  <2>2. CASE m # 0
    <3>1. m - 1 \in 0..Len(l) /\ m - 1 < m /\ m \in 1..Len(l)
        BY <1>1, <1>4, <2>2
    <3>2. ~Behind(m - 1)
        BY <1>4, <3>1
    <3>3. Start(l[m]) < key
      <4>1. PICK i \in (m - 1 + 1)..Len(l) : ~(Start(l[i]) >= key)
          BY <3>2
      <4>2. i \notin (m + 1)..Len(l)
          BY <1>4, <4>1
      <4>3. i = m
          BY <1>1, <3>1, <4>1, <4>2
      <4> QED
          BY <1>1, <3>1, <4>1, <4>3
    <3>4. \A i \in 1..m : i \in 1..Len(l) /\ Start(l[i]) <= Start(l[m])
        BY <1>1, <3>1 DEF ByStart
    <3> QED
        BY <1>1, <1>4, <3>1, <3>3, <3>4
  <2> QED
      BY <2>1, <2>2
<1>6. Bisect(l, key) \in 0..Len(l) /\ Splits(Bisect(l, key))
  <2>1. Bisect(l, key) = CHOOSE pos \in 0..Len(l) : Splits(pos)
      BY DEF Bisect
  <2> HIDE DEF Splits
  <2> QED
      BY <1>4, <1>5, <2>1
<1> QED
    BY <1>6

(* find_in_interval_list: in whatever list, a frequency is found if and    *)
(* only if it is inside the last interval.                                 *)
THEOREM FindsOnlyLast ==
    ASSUME NEW l, ByStart(l), NEW key \in Int
    PROVE  FindInIntervalList(l, key) <=> l # <<>> /\ Inside(key, l[Len(l)])
<1> DEFINE pos == Bisect(l, key)
<1>1. /\ pos \in 0..Len(l)
      /\ \A i \in 1..pos : Start(l[i]) < key
      /\ \A i \in (pos + 1)..Len(l) : Start(l[i]) >= key
    BY BisectSplits
<1>2. Len(l) \in Nat /\ (l # <<>> => Len(l) \in 1..Len(l))
      /\ \A i \in 1..Len(l) : Start(l[i]) \in Int
    BY DEF ByStart, Start
<1> HIDE DEF pos
<1>3. CASE pos = Len(l)
    BY <1>2, <1>3 DEF FindInIntervalList, pos
<1>4. CASE pos # Len(l)
  <2>1. pos < Len(l) /\ pos + 1 \in (pos + 1)..Len(l) /\ pos + 1 \in 1..Len(l)
        /\ Len(l) \in (pos + 1)..Len(l) /\ Len(l) \in 1..Len(l) /\ ~(pos >= Len(l))
      BY <1>1, <1>2, <1>4
  <2>2. ~Inside(key, l[pos + 1]) /\ ~Inside(key, l[Len(l)])
      BY <1>1, <1>2, <2>1 DEF Inside
  <2> QED
      BY <2>1, <2>2 DEF FindInIntervalList, pos
<1> QED
    BY <1>3, <1>4

-----------------------------------------------------------------------------
(* read_sorted_list sorts the lines with the tag by their starts. *)
LEMMA SortedLists ==
    ASSUME NEW lines \in Seq(Line), NEW tag
    PROVE  /\ ByStart(Sorted(tag, lines))
           /\ \A k \in 1..Len(Sorted(tag, lines)) : \E i \in DOMAIN lines :
                lines[i].tag = tag /\ Sorted(tag, lines)[k] = IntervalOf(lines[i])
<1> DEFINE tagged == {i \in DOMAIN lines : lines[i].tag = tag}
           starts == [i \in tagged |-> Start(IntervalOf(lines[i]))]
           before == {p \in tagged \X tagged :
                        \/ starts[p[1]] < starts[p[2]]
                        \/ starts[p[1]] = starts[p[2]] /\ p[1] < p[2]}
           order == InOrder(tagged, before)
           n == Cardinality(tagged)
           l == [k \in DOMAIN order |-> IntervalOf(lines[order[k]])]
<1>1. Sorted(tag, lines) = l
    BY Zenon DEF Sorted
<1>2. IsFiniteSet(tagged) /\ tagged \subseteq Nat
    BY SublistLists
<1>3. \A i \in DOMAIN lines : IntervalOf(lines[i]) \in Int \X Int
  <2> SUFFICES ASSUME NEW i \in DOMAIN lines PROVE IntervalOf(lines[i]) \in Int \X Int
      OBVIOUS
  <2>1. lines[i] \in Line
      OBVIOUS
  <2>2. lines[i].freq \in Int /\ lines[i].bw \in Int
      BY <2>1 DEF Line
  <2>3. lines[i].bw \div 2 \in Int
      BY <2>2
  <2> QED
      BY <2>2, <2>3 DEF IntervalOf
<1>4. \A i \in tagged : starts[i] \in Int /\ starts[i] = Start(IntervalOf(lines[i]))
    BY <1>3 DEF Start
<1>5. \A i, j \in tagged : <<i, j>> \in before <=>
        starts[i] < starts[j] \/ (starts[i] = starts[j] /\ i < j)
    OBVIOUS
<1> HIDE DEF before, starts
<1>6. StrictOrder(tagged, before)
  <2>1. \A i \in tagged : i \in Nat /\ starts[i] \in Int
      BY <1>2, <1>4
  <2> HIDE DEF tagged
  <2> QED
      BY <1>5, <2>1 DEF StrictOrder
<1>7. /\ n \in Nat /\ order \in [1..n -> tagged]
      /\ \A k, m \in 1..n : k < m => <<order[k], order[m]>> \in before
  <2> HIDE DEF tagged, before
  <2> QED
      BY <1>2, <1>6, InOrderLists
<1> HIDE DEF order, n
<1>8. l \in Seq(Int \X Int) /\ Len(l) = n
    BY <1>3, <1>7
<1>9. \A k \in 1..n : order[k] \in tagged /\ l[k] = IntervalOf(lines[order[k]])
    BY <1>7
<1>10. \A i, j \in 1..n : i <= j => Start(l[i]) <= Start(l[j])
  <2> SUFFICES ASSUME NEW i \in 1..n, NEW j \in 1..n, i <= j PROVE Start(l[i]) <= Start(l[j])
      OBVIOUS
  <2>1. /\ order[i] \in tagged /\ Start(l[i]) = starts[order[i]]
        /\ order[j] \in tagged /\ Start(l[j]) = starts[order[j]]
        /\ starts[order[i]] \in Int
      BY <1>4, <1>9
  <2>2. CASE i = j
      BY <2>1, <2>2
  <2>3. CASE i < j
    <3>1. <<order[i], order[j]>> \in before
        BY <1>7, <2>3
    <3>2. starts[order[i]] <= starts[order[j]]
        BY <1>4, <1>5, <2>1, <3>1
    <3> QED
        BY <2>1, <3>2
  <2> QED
      BY <1>7, <2>2, <2>3
<1> HIDE DEF l
<1> QED
    BY <1>1, <1>8, <1>9, <1>10 DEF ByStart

(* The union keeps intervals of the list, in their order, that follow each *)
(* other without touching.                                                 *)
Unions == [ok : BOOLEAN, list : Seq(Int \X Int)]
IsUnionOf(u, l, k) ==
    /\ ByStart(u.list) /\ FollowEachOther(u.list)
    /\ \A i \in 1..Len(u.list) : \E m \in 1..k : u.list[i] = l[m]

LEMMA UnionType ==
    ASSUME NEW u \in Unions, NEW interval \in Int \X Int
    PROVE  Union(u, interval) \in Unions
<1>1. u.ok \in BOOLEAN /\ u.list \in Seq(Int \X Int) /\ u = [ok |-> u.ok, list |-> u.list]
    BY DEF Unions
<1>2. CASE Union(u, interval) = [u EXCEPT !.list = Append(@, interval)]
  <2>1. Append(u.list, interval) \in Seq(Int \X Int)
      BY <1>1
  <2>2. Union(u, interval) = [ok |-> u.ok, list |-> Append(u.list, interval)]
      BY <1>1, <1>2
  <2> QED
      BY <1>1, <2>1, <2>2 DEF Unions
<1>3. CASE Union(u, interval) =
            [u EXCEPT !.ok = End(u.list[Len(u.list)]) # Start(interval)]
    BY <1>1, <1>3 DEF Unions
<1>4. CASE Union(u, interval) = u
    BY <1>4
<1> QED
    BY <1>2, <1>3, <1>4 DEF Union

LEMMA UnionStep ==
    ASSUME NEW l, ByStart(l), NEW k \in 1..Len(l), NEW u \in Unions,
           IsUnionOf(u, l, k - 1)
    PROVE  IsUnionOf(Union(u, l[k]), l, k)
<1> DEFINE a == u.list
           b == Union(u, l[k]).list
<1>1. Len(l) \in Nat /\ k \in Nat /\ l[k] \in Int \X Int
      /\ \A i \in 1..Len(l) : l[i] \in Int \X Int
    BY DEF ByStart
<1>2. /\ a \in Seq(Int \X Int) /\ Len(a) \in Nat
      /\ \A i \in 1..Len(a) : a[i] \in Int \X Int
      /\ \A i \in 1..Len(a) : \E m \in 1..(k - 1) : a[i] = l[m]
      /\ FollowEachOther(a)
      /\ \A i, j \in 1..Len(a) : i <= j => Start(a[i]) <= Start(a[j])
  <2>1. IsUnionOf(u, l, k - 1)
      OBVIOUS
  <2>2. a \in Seq(Int \X Int) /\ \A i, j \in 1..Len(a) : i <= j => Start(a[i]) <= Start(a[j])
      BY <2>1 DEF IsUnionOf, ByStart
  <2>3. FollowEachOther(a) /\ \A i \in 1..Len(a) : \E m \in 1..(k - 1) : a[i] = l[m]
      BY <2>1 DEF IsUnionOf
  <2> HIDE DEF a
  <2>4. Len(a) \in Nat /\ \A i \in 1..Len(a) : a[i] \in Int \X Int
      BY <2>2
  <2> QED
      BY <2>2, <2>3, <2>4
<1>3. b = a \/ (b = Append(a, l[k]) /\ (a = <<>> \/ End(a[Len(a)]) < Start(l[k])))
    BY DEF Union, Unions
<1> HIDE DEF a
<1>4. CASE b = a
    BY <1>1, <1>2, <1>4 DEF IsUnionOf, ByStart
<1>5. CASE b = Append(a, l[k]) /\ (a = <<>> \/ End(a[Len(a)]) < Start(l[k]))
  <2> DEFINE n == Len(a)
  <2>1. /\ b \in Seq(Int \X Int) /\ Len(b) = n + 1 /\ b[n + 1] = l[k]
        /\ \A i \in 1..n : b[i] = a[i]
      BY <1>1, <1>2, <1>5
  <2> HIDE DEF b
  <2>2. \A i \in 1..n : Start(a[i]) <= Start(l[k])
    <3> SUFFICES ASSUME NEW i \in 1..n PROVE Start(a[i]) <= Start(l[k])
        OBVIOUS
    <3>1. PICK m \in 1..(k - 1) : a[i] = l[m]
        BY <1>2
    <3>2. m \in 1..Len(l) /\ m <= k
        BY <1>1, <3>1
    <3> QED
        BY <3>1, <3>2 DEF ByStart
  <2>3. \A i \in 1..n : End(a[i]) < Start(l[k])
    <3> SUFFICES ASSUME NEW i \in 1..n PROVE End(a[i]) < Start(l[k])
        OBVIOUS
    <3>1. n \in 1..n /\ a # <<>> /\ n \in Nat
        BY <1>2
    <3>2. /\ End(a[i]) \in Int /\ Start(a[n]) \in Int /\ Start(l[k]) \in Int
          /\ End(a[n]) < Start(l[k]) /\ Start(a[n]) <= Start(l[k])
        BY <1>1, <1>2, <1>5, <2>2, <3>1 DEF Start, End
    <3>3. i < n => End(a[i]) < Start(a[n])
        BY <1>2, <3>1 DEF FollowEachOther
    <3> HIDE DEF n
    <3> QED
        BY <3>1, <3>2, <3>3
  <2>4. \A i, j \in 1..(n + 1) : i <= j => Start(b[i]) <= Start(b[j])
    <3> SUFFICES ASSUME NEW i \in 1..(n + 1), NEW j \in 1..(n + 1), i <= j
                 PROVE  Start(b[i]) <= Start(b[j])
        OBVIOUS
    <3>1. Start(l[k]) <= Start(l[k])
        BY <1>1 DEF Start
    <3>2. n \in Nat
        BY <1>2
    <3> HIDE DEF n
    <3>3. CASE j = n + 1 /\ i # n + 1
        BY <2>1, <2>2, <3>2, <3>3
    <3>4. CASE i = n + 1
        BY <2>1, <3>1, <3>2, <3>4
    <3>5. CASE j # n + 1
      <4>1. i \in 1..n /\ j \in 1..n
          BY <3>2, <3>5
      <4> QED
          BY <1>2, <2>1, <4>1 DEF n
    <3> QED
        BY <3>3, <3>4, <3>5
  <2>5. \A i, j \in 1..(n + 1) : i < j => End(b[i]) < Start(b[j])
    <3> SUFFICES ASSUME NEW i \in 1..(n + 1), NEW j \in 1..(n + 1), i < j
                 PROVE  End(b[i]) < Start(b[j])
        OBVIOUS
    <3>1. n \in Nat /\ i \in 1..n
        BY <1>2
    <3>2. CASE j = n + 1
        BY <2>1, <2>3, <3>1, <3>2
    <3>3. CASE j # n + 1
      <4>1. j \in 1..n
          BY <3>1, <3>3
      <4> QED
          BY <1>2, <2>1, <3>1, <4>1 DEF FollowEachOther
    <3> QED
        BY <3>2, <3>3
  <2>6. \A i \in 1..(n + 1) : \E m \in 1..k : b[i] = l[m]
    <3> SUFFICES ASSUME NEW i \in 1..(n + 1) PROVE \E m \in 1..k : b[i] = l[m]
        OBVIOUS
    <3>1. CASE i = n + 1
        BY <1>1, <2>1, <3>1
    <3>2. CASE i # n + 1
      <4>1. i \in 1..n
          BY <1>2, <3>2
      <4>2. PICK m \in 1..(k - 1) : a[i] = l[m]
          BY <1>2, <4>1
      <4> QED
        <5>1. m \in 1..k /\ b[i] = l[m]
            BY <1>1, <2>1, <4>1, <4>2, SMTT(30)
        <5> QED
            BY <5>1
    <3> QED
        BY <3>1, <3>2
  <2> QED
      BY <2>1, <2>4, <2>5, <2>6 DEF IsUnionOf, ByStart, FollowEachOther, b
<1> QED
    BY <1>3, <1>4, <1>5

(* What read_sorted_list returns, from whatever lines *)
LEMMA ReadSound ==
    ASSUME NEW lines \in Seq(Line), NEW tag, NEW u, u = ReadSortedList(tag, lines)
    PROVE  /\ u \in Unions /\ ByStart(u.list) /\ FollowEachOther(u.list)
           /\ \A i \in 1..Len(u.list) : \E k \in DOMAIN lines :
                lines[k].tag = tag /\ u.list[i] = IntervalOf(lines[k])
<1> DEFINE l == Sorted(tag, lines)
           n == Len(l)
           base == [ok |-> TRUE, list |-> <<>>]
           Rec(f) == f = [k \in 0..n |-> IF k = 0 THEN base ELSE Union(f[k - 1], l[k])]
           unioned == CHOOSE f : Rec(f)
<1>1. u = unioned[n]
    BY Zenon DEF ReadSortedList
<1>2. /\ ByStart(l) /\ n \in Nat /\ \A k \in 1..n : l[k] \in Int \X Int
      /\ \A k \in 1..n : \E i \in DOMAIN lines :
            lines[i].tag = tag /\ l[k] = IntervalOf(lines[i])
  <2>1. ByStart(l)
      BY SortedLists
  <2> HIDE DEF l
  <2> QED
      BY <2>1, SortedLists DEF ByStart, l
<1> HIDE DEF l, n
<1>3. base \in Unions /\ IsUnionOf(base, l, 0)
    BY DEF Unions, IsUnionOf, ByStart, FollowEachOther
<1> HIDE DEF base
<1>4. \E f \in [0..n -> Unions] : Rec(f)
  <2> DEFINE step == [p \in (1..n) \X Unions |-> Union(p[2], l[p[1]])]
  <2>1. \A k \in 1..n, v \in Unions : step[<<k, v>>] = Union(v, l[k])
      OBVIOUS
  <2>2. StepsIn(step, n, Unions)
      BY <1>2, <2>1, UnionType DEF StepsIn
  <2> HIDE DEF step
  <2>3. PICK f \in [0..n -> Unions] : Repeats(f, n, base, step)
      BY <1>2, <1>3, <2>2, RecursionExists
  <2>4. \A k \in 1..n : f[k - 1] \in Unions /\ f[k] = Union(f[k - 1], l[k])
    <3> SUFFICES ASSUME NEW k \in 1..n PROVE f[k - 1] \in Unions /\ f[k] = Union(f[k - 1], l[k])
        OBVIOUS
    <3>1. k - 1 \in 0..n
        BY <1>2
    <3>2. f[k - 1] \in Unions
        BY <2>3, <3>1
    <3> QED
        BY <2>1, <2>3, <3>2 DEF Repeats
  <2>5. \A k \in 0..n : f[k] = IF k = 0 THEN base ELSE Union(f[k - 1], l[k])
      BY <1>2, <2>3, <2>4 DEF Repeats
  <2> QED
      BY <2>5
<1>5. Rec(unioned)
  <2> HIDE DEF Rec
  <2> QED
      BY <1>4
<1> HIDE DEF unioned
<1>6. unioned[0] = base /\ \A k \in 1..n : unioned[k] = Union(unioned[k - 1], l[k])
    BY <1>2, <1>5
<1> DEFINE T == {k \in 0..n : unioned[k] \in Unions /\ IsUnionOf(unioned[k], l, k)}
<1>7. 0 \in T
    BY <1>2, <1>3, <1>6
<1>8. ASSUME NEW k \in 1..n, k - 1 \in T PROVE k \in T
  <2>1. unioned[k - 1] \in Unions /\ IsUnionOf(unioned[k - 1], l, k - 1)
      BY <1>8
  <2>2. unioned[k] = Union(unioned[k - 1], l[k]) /\ l[k] \in Int \X Int /\ k \in 1..Len(l)
      BY <1>2, <1>6 DEF n
  <2>3. unioned[k] \in Unions
      BY <2>1, <2>2, UnionType
  <2>4. IsUnionOf(unioned[k], l, k)
      BY <1>2, <2>1, <2>2, UnionStep
  <2> QED
      BY <1>2, <2>3, <2>4
<1>9. n \in T
  <2> HIDE DEF T
  <2>1. 0..n \subseteq T
      BY <1>2, <1>7, <1>8, InductionTo
  <2> QED
      BY <1>2, <2>1
<1>10. u \in Unions /\ IsUnionOf(u, l, n)
    BY <1>1, <1>9
<1> QED
    BY <1>2, <1>10 DEF IsUnionOf

-----------------------------------------------------------------------------
(* Arithmetic *)
LEMMA Euclid ==
    ASSUME NEW a \in Int, NEW b \in Nat \ {0}
    PROVE  /\ a \div b \in Int /\ a % b \in Int
           /\ a = b * (a \div b) + (a % b) /\ 0 <= a % b /\ a % b < b
    BY Z3

LEMMA TimesGrows ==
    ASSUME NEW k \in Int, NEW l \in Int, NEW d \in Nat, k <= l
    PROVE  k * d \in Int /\ l * d \in Int /\ k * d <= l * d
    BY Z3

LEMMA Distributes ==
    ASSUME NEW k \in Int, NEW l \in Int, NEW d \in Int
    PROVE  /\ (k + l) * d = k * d + l * d /\ (k - l) * d = k * d - l * d
           /\ k * d = d * k /\ 1 * d = d /\ 0 * d = 0
    BY Z3

LEMMA MultiplesDivide ==
    ASSUME NEW k \in Int, NEW d \in Nat \ {0}
    PROVE  (k * d) % d = 0
<1> DEFINE a == k * d
           q == a \div d
           r == a % d
<1>1. a \in Int
    OBVIOUS
<1>2. q \in Int /\ r \in Int /\ a = d * q + r /\ 0 <= r /\ r < d
  <2> HIDE DEF a
  <2> QED
      BY <1>1, Euclid
<1>3. r = (k - q) * d
    BY <1>2, Distributes
<1>4. ~(k - q >= 1)
    BY <1>2, <1>3, TimesGrows, Distributes
<1>5. ~(k - q <= -1)
    BY <1>2, <1>3, TimesGrows, Distributes
<1> QED
    BY <1>2, <1>3, <1>4, <1>5, Distributes

LEMMA CeilDivBounds ==
    ASSUME NEW a \in Int, NEW b \in Nat \ {0}
    PROVE  /\ CeilDiv(a, b) \in Int
           /\ (CeilDiv(a, b) - 1) * b < a /\ a <= CeilDiv(a, b) * b
<1> DEFINE q == (-a) \div b
           r == (-a) % b
<1>1. q \in Int /\ r \in Int /\ -a = b * q + r /\ 0 <= r /\ r < b
  <2>1. -a \in Int
      OBVIOUS
  <2> QED
      BY <2>1, Euclid
<1> HIDE DEF q, r
<1>2. /\ -q \in Int /\ q * b = b * q
      /\ (-q) * b = -(q * b) /\ (-q - 1) * b = (-q) * b - b
    BY <1>1, Z3
<1>3. CeilDiv(a, b) = -q
    BY DEF CeilDiv, q
<1> QED
    BY <1>1, <1>2, <1>3

LEMMA HalfStep ==
    /\ Step \in Nat \ {0} /\ Step \div 2 \in Nat \ {0}
    /\ Step = 2 * (Step \div 2)
    /\ Rate \in Nat /\ Step <= Rate /\ Rate \div 2 \in Nat
    /\ \A x \in Int : x <= (Rate - Step) \div 2 => x + Step \div 2 <= Rate \div 2
<1>1. Rate \in Nat
    BY BinAssumption, Z3 DEF Rate
<1>2. Step <= Rate /\ Step \in Nat \ {0} /\ Step % 2 = 0
    BY StepAssumption DEF Rate
<1> QED
    BY <1>1, <1>2

(* The distance of the centres, of n of them over a width D *)
LEMMA Distance ==
    ASSUME NEW D \in Nat \ {0}, NEW n \in Int, NEW s \in Nat, s >= 2,
           (n - 1) * s < D, D <= n * s
    PROVE  /\ n >= 1 /\ D \div n \in 1..s
           /\ n * (D \div n) <= D /\ D - n * (D \div n) <= n - 1
<1>1. n >= 1
  <2>1. ASSUME n <= 0 PROVE FALSE
      BY <2>1, TimesGrows, Distributes
  <2> QED
      BY <2>1
<1>2. n - 1 < D
  <2>1. (n - 1) * 1 <= (n - 1) * s
      BY <1>1, Z3
  <2> QED
      BY <1>1, <2>1
<1> DEFINE d == D \div n
           r == D % n
<1>3. d \in Int /\ r \in Int /\ D = n * d + r /\ 0 <= r /\ r < n
    BY <1>1, Euclid
<1> HIDE DEF d, r
<1>4. d >= 1
  <2>1. ASSUME d <= 0 PROVE FALSE
    <3>1. n * d <= 0
        BY <1>1, <1>3, <2>1, Z3
    <3> QED
        BY <1>1, <1>2, <1>3, <3>1, <2>1
  <2> QED
      BY <1>3, <2>1
<1>5. d <= s
  <2>1. ASSUME d >= s + 1 PROVE FALSE
    <3>1. n * d >= n * s + n
        BY <1>1, <1>3, <2>1, Z3
    <3>2. n * d \in Int /\ n * s \in Int
        BY <1>1, <1>3
    <3> QED
        BY <1>1, <1>3, <3>1, <3>2
  <2> QED
      BY <1>3, <2>1
<1>6. n * d \in Int
    BY <1>3
<1> QED
    BY <1>1, <1>3, <1>4, <1>5, <1>6 DEF d

(* The centre nearest to a point g of the width, if it is not behind them  *)
LEMMA Nearest ==
    ASSUME NEW D \in Nat, NEW h \in Nat \ {0}, NEW d \in 1..(2 * h), NEW g \in 0..(D + h),
           NEW n \in Nat, n * d <= D, NEW e \in Nat, D - n * d <= e
    PROVE  \E k \in Nat : k * d <= D /\ (g - k * d \in -h..h \/ g - k * d \in 0..(e + h))
<1>1. n * d \in Int /\ d \in Nat \ {0}
    OBVIOUS
<1> DEFINE q == g \div d
           r == g % d
<1>2. q \in Int /\ r \in Int /\ g = d * q + r /\ 0 <= r /\ r < d
    BY <1>1, Euclid
<1> HIDE DEF q, r
<1>3. q >= 0
  <2>1. ASSUME q <= -1 PROVE FALSE
    <3>1. q * d <= (-1) * d
        BY <1>1, <1>2, <2>1, TimesGrows
    <3>2. (-1) * d = -d /\ d * q = q * d
        BY <1>1, <1>2, Z3
    <3> QED
        BY <1>1, <1>2, <3>1, <3>2
  <2> QED
      BY <1>2, <2>1
<1>4. q * d \in Int /\ d * q = q * d /\ (q + 1) * d = q * d + d
    BY <1>1, <1>2, Z3
<1>5. PICK k \in Nat : k * d \in Int /\ g - k * d \in -h..h /\ k <= q + 1 /\ q <= k
  <2>1. CASE r <= h
    <3>1. g - q * d \in -h..h
        BY <1>1, <1>2, <1>4, <2>1
    <3> QED
        BY <1>2, <1>3, <1>4, <3>1
  <2>2. CASE r > h
    <3>1. g - (q + 1) * d \in -h..h /\ (q + 1) * d \in Int
        BY <1>1, <1>2, <1>4, <2>2
    <3> QED
        BY <1>2, <1>3, <3>1
  <2> QED
      BY <1>2, <2>1, <2>2
<1>6. CASE k * d <= D
    BY <1>5, <1>6
<1>7. CASE k * d > D
  <2>1. n < k
    <3>1. ASSUME k <= n PROVE FALSE
        BY <1>1, <1>5, <1>7, <3>1, TimesGrows
    <3> QED
        BY <1>5, <3>1
  <2>2. n <= q
      BY <1>2, <1>5, <2>1
  <2>3. n * d <= q * d
      BY <1>1, <1>2, <2>2, TimesGrows
  <2>4. g - n * d \in 0..(e + h)
      BY <1>1, <1>2, <1>4, <2>3
  <2> QED
      BY <2>4
<1> QED
    BY <1>5, <1>6, <1>7

(* ConfReader: the frames planned for a range, however wide, leave no gap  *)
(* in it, when rounding their distance down fits into the overlap.         *)
THEOREM NoGaps ==
    ASSUME NEW freqstart \in Nat \ {0}, NEW width \in Nat, width >= Step,
           RoundingFits(width), NEW f \in freqstart..(freqstart + width)
    PROVE  Covered(f, freqstart, freqstart + width)
<1> DEFINE h == Step \div 2
           first == freqstart + h
           last == (freqstart + width) - h
           D == last - first
           n == CeilDiv(D, Step)
           delta == IF n = 0 THEN last ELSE D \div n
<1>1. /\ h \in Nat \ {0} /\ Step = 2 * h /\ Step \in Nat \ {0}
      /\ Step <= Rate /\ Rate \in Nat /\ Rate \div 2 \in Nat
      /\ \A x \in Int : x <= (Rate - Step) \div 2 => x + h <= Rate \div 2
    BY HalfStep
<1>2. h <= Rate \div 2
  <2>1. 0 <= (Rate - Step) \div 2
      BY <1>1
  <2> QED
      BY <1>1, <2>1
<1>3. /\ Centers(freqstart, freqstart + width) =
            {cf \in first..last : (cf - first) % delta = 0}
      /\ (width - Step) \div Step <= (Rate - Step) \div 2
  <2>1. Centers(freqstart, freqstart + width) =
            {cf \in first..last : (cf - first) % delta = 0}
      BY Zenon DEF Centers
  <2>2. (width - Step) \div Step <= (Rate - Step) \div 2
      BY Zenon DEF RoundingFits
  <2> QED
      BY <2>1, <2>2
<1> HIDE DEF h
<1>4. first \in Nat \ {0} /\ last \in Nat /\ D \in Nat /\ D = width - Step /\ last = first + D
      /\ f - first \in -h..(D + h)
    BY <1>1
<1>5. n \in Int /\ (n - 1) * Step < D /\ D <= n * Step
  <2> HIDE DEF D
  <2>1. D \in Int
      BY <1>4
  <2> QED
      BY <1>1, <2>1, CeilDivBounds, Zenon
<1> HIDE DEF n, D, first, last
<1> SUFFICES \E k \in Nat : /\ k * delta \in 0..D
                            /\ delta \in Nat \ {0}
                            /\ f - (first + k * delta) \in -(Rate \div 2)..(Rate \div 2)
  <2>1. PICK k \in Nat : /\ k * delta \in 0..D /\ delta \in Nat \ {0}
                         /\ f - (first + k * delta) \in -(Rate \div 2)..(Rate \div 2)
      OBVIOUS
  <2> HIDE DEF delta
  <2>2. first + k * delta \in first..last /\ (first + k * delta) - first = k * delta
      BY <1>4, <2>1
  <2>3. first + k * delta \in Centers(freqstart, freqstart + width)
      BY <1>3, <2>1, <2>2, MultiplesDivide
  <2> QED
      BY <2>1, <2>3 DEF Covered
<1>6. CASE f <= first
  <2>1. delta \in Nat \ {0}
    <3>1. CASE n = 0
        BY <1>4, <3>1
    <3>2. CASE n # 0
      <4>1. D # 0
        <5>1. ASSUME D = 0 PROVE FALSE
          <6>1. n >= 1 => 0 * Step <= (n - 1) * Step
              BY <1>1, <1>5, TimesGrows
          <6>2. n <= -1 => n * Step <= (-1) * Step
              BY <1>1, <1>5, TimesGrows
          <6>3. n * Step \in Int /\ (n - 1) * Step \in Int
              BY <1>1, <1>5
          <6> QED
              BY <1>1, <1>5, <3>2, <5>1, <6>1, <6>2, <6>3
        <5> QED
            BY <5>1
      <4>2. D \div n \in 1..Step
          BY <1>1, <1>4, <1>5, <4>1, Distance
      <4> QED
          BY <1>1, <3>2, <4>2
    <3> QED
        BY <3>1, <3>2
  <2>2. 0 * delta = 0
      BY <2>1
  <2>3. f - (first + 0) \in -(Rate \div 2)..(Rate \div 2)
      BY <1>1, <1>2, <1>4, <1>6
  <2> HIDE DEF delta
  <2> QED
      BY <1>4, <2>1, <2>2, <2>3
<1>7. CASE ~(f <= first) /\ D = 0
  <2>1. n = 0
    <3>1. n >= 1 => 0 * Step <= (n - 1) * Step
        BY <1>1, <1>5, TimesGrows
    <3>2. n <= -1 => n * Step <= (-1) * Step
        BY <1>1, <1>5, TimesGrows
    <3>3. n * Step \in Int /\ (n - 1) * Step \in Int
        BY <1>1, <1>5
    <3> QED
        BY <1>1, <1>5, <1>7, <3>1, <3>2, <3>3
  <2>2. delta \in Nat \ {0} /\ 0 * delta = 0
      BY <1>4, <2>1
  <2>3. f - (first + 0) \in -(Rate \div 2)..(Rate \div 2)
      BY <1>1, <1>2, <1>4, <1>7
  <2> HIDE DEF delta
  <2> QED
      BY <1>4, <2>2, <2>3
<1>8. CASE ~(f <= first) /\ D # 0
  <2>1. /\ n >= 1 /\ D \div n \in 1..Step
        /\ n * (D \div n) <= D /\ D - n * (D \div n) <= n - 1
    <3>1. Step >= 2
        BY <1>1
    <3> QED
        BY <1>1, <1>4, <1>5, <1>8, <3>1, Distance
  <2>2. delta = D \div n
      BY <1>5, <2>1
  <2> HIDE DEF delta
  <2>3. delta \in 1..(2 * h) /\ n * delta <= D /\ D - n * delta <= n - 1
        /\ n \in Nat /\ n - 1 \in Nat
      BY <1>1, <1>5, <2>1, <2>2
  <2>4. f - first \in 0..(D + h)
      BY <1>1, <1>4, <1>8
  <2>5. PICK k \in Nat : /\ k * delta <= D
                         /\ \/ (f - first) - k * delta \in -h..h
                            \/ (f - first) - k * delta \in 0..((n - 1) + h)
    <3> DEFINE g == f - first
               e == n - 1
    <3>1. g \in 0..(D + h) /\ e \in Nat /\ D - n * delta <= e
        BY <2>3, <2>4
    <3> HIDE DEF g, e
    <3>2. \E k \in Nat : /\ k * delta <= D
                         /\ (g - k * delta \in -h..h \/ g - k * delta \in 0..(e + h))
        BY <1>1, <1>4, <2>3, <3>1, Nearest
    <3> QED
        BY <3>2 DEF g, e
  <2>6. n - 1 + h <= Rate \div 2
    <3>1. n - 1 <= D \div Step
      <4>1. D \div Step \in Int /\ D % Step \in Int /\ D = Step * (D \div Step) + (D % Step)
            /\ 0 <= D % Step /\ D % Step < Step
        <5>1. D \in Int
            BY <1>4
        <5> QED
            BY <1>1, <5>1, Euclid, Zenon
      <4> DEFINE q == D \div Step
      <4> HIDE DEF q
      <4>2. q \in Int /\ Step * q = q * Step /\ (q + 1) * Step = q * Step + Step
            /\ D < q * Step + Step
          BY <1>1, <4>1, Distributes DEF q
      <4>3. ~(n - 1 >= q + 1)
        <5>1. ASSUME q + 1 <= n - 1 PROVE FALSE
          <6>1. (q + 1) * Step <= (n - 1) * Step /\ (q + 1) * Step \in Int /\ (n - 1) * Step \in Int
              BY <1>1, <1>5, <4>2, <5>1, TimesGrows
          <6> QED
              BY <1>1, <1>4, <1>5, <4>2, <6>1
        <5> QED
            BY <1>5, <4>2, <5>1
      <4> QED
          BY <1>5, <4>2, <4>3 DEF q
    <3>2. n - 1 <= (Rate - Step) \div 2
        BY <1>1, <1>3, <1>4, <1>5, <3>1
    <3> QED
        BY <1>1, <1>5, <3>2
  <2>7. k * delta \in Int /\ k * delta >= 0
      BY <2>3, <2>5, TimesGrows, Distributes
  <2>8. f - (first + k * delta) \in -(Rate \div 2)..(Rate \div 2)
    <3>1. f - (first + k * delta) = (f - first) - k * delta
        BY <1>1, <1>4, <2>4, <2>7
    <3> QED
        BY <1>1, <1>2, <1>5, <2>5, <2>6, <2>7, <3>1, <1>4, <2>4
  <2> QED
      BY <1>1, <1>4, <2>3, <2>5, <2>7, <2>8
<1> QED
    BY <1>1, <1>4, <1>6, <1>7, <1>8

-----------------------------------------------------------------------------
(* Peaks *)
LEMMA LatestOf ==
    ASSUME NEW I, I \subseteq Nat, NEW m \in I, \A j \in I : j <= m
    PROVE  Latest(I) = m
<1>1. \A i \in I : (\A j \in I : j <= i) => i = m
    OBVIOUS
<1> QED
    BY <1>1 DEF Latest

(* In a spectrum without a bin on the floor, a run of bins above it ends   *)
(* where it was last entered.                                              *)
LEMMA RunStarts ==
    ASSUME NEW acc \in CleanSpectra, NEW a \in 1..(Fftw - 1), NEW b \in 1..(Fftw - 1),
           a < b, acc[a - 1] < 0, acc[b] < 0, \A k \in a..(b - 1) : acc[k] > 0
    PROVE  First(acc, b) = a /\ Falls(acc, b)
<1> DEFINE I == {j \in 1..b : acc[j] > 0 /\ acc[j - 1] < 0}
<1>1. \A k \in Bins : acc[k] \in {-1, 1}
    BY DEF CleanSpectra
<1>2. Fftw \in Nat /\ \A k \in 1..(Fftw - 1) : k \in Bins /\ k - 1 \in Bins
    BY BinAssumption DEF Bins
<1>3. a \in I
    BY <1>1, <1>2
<1>4. ASSUME NEW j \in I, j > a PROVE FALSE
  <2>1. j \in Int /\ j <= b /\ acc[j] > 0 /\ acc[j - 1] < 0 /\ j - 1 \in Bins /\ j \in Bins
      BY <1>2
  <2>2. j # b
      BY <1>1, <1>2, <2>1
  <2>3. j - 1 \in a..(b - 1)
      BY <1>4, <2>1, <2>2
  <2>4. acc[j - 1] > 0 /\ acc[j - 1] \in Int
      BY <1>1, <2>1, <2>3
  <2> QED
      BY <2>1, <2>4
<1>5. I \subseteq Nat /\ \A j \in I : j <= a
  <2>1. \A j \in I : j \in Nat
      OBVIOUS
  <2> HIDE DEF I
  <2> QED
      BY <1>4, <2>1
<1>6. Latest(I) = a
  <2> HIDE DEF I
  <2> QED
      BY <1>3, <1>5, LatestOf
<1>7. Falls(acc, b)
  <2>1. b - 1 \in a..(b - 1)
      OBVIOUS
  <2> QED
      BY <2>1 DEF Falls
<1> QED
    BY <1>6, <1>7 DEF First

LEMMA FallEndsRun ==
    ASSUME NEW acc \in CleanSpectra, NEW b \in 1..(Fftw - 1), Falls(acc, b)
    PROVE  \E a \in 1..(b - 1) : acc[a - 1] < 0 /\ \A k \in a..(b - 1) : acc[k] > 0
<1>1. (\A k \in Bins : acc[k] \in {-1, 1}) /\ acc[0] = -1
    BY DEF CleanSpectra
<1>2. Fftw \in Nat /\ \A k \in 1..(Fftw - 1) : k \in Bins /\ k - 1 \in Bins
    BY BinAssumption DEF Bins
<1> DEFINE T == {a \in 1..(b - 1) : \A k \in a..(b - 1) : acc[k] > 0}
<1>3. b - 1 \in T
  <2>1. acc[b - 1] > 0
      BY DEF Falls
  <2>2. b - 1 # 0
      BY <1>1, <2>1
  <2>3. b - 1 \in 1..(b - 1) /\ \A k \in (b - 1)..(b - 1) : k = b - 1
      BY <2>2
  <2> QED
      BY <2>1, <2>3
<1>4. PICK a \in T : \A j \in T : ~(j < a)
  <2>1. T \subseteq Nat
      OBVIOUS
  <2> HIDE DEF T
  <2> QED
      BY <1>3, <2>1, NatHasLeast
<1>5. a \in 1..(b - 1) /\ \A k \in a..(b - 1) : acc[k] > 0
    BY <1>4
<1>6. acc[a - 1] < 0
  <2> SUFFICES ASSUME ~(acc[a - 1] < 0) PROVE FALSE
      OBVIOUS
  <2>1. a \in 1..(Fftw - 1) /\ a - 1 \in Bins
      BY <1>2, <1>5
  <2>2. acc[a - 1] = 1 /\ a - 1 # 0
      BY <1>1, <2>1
  <2>3. a - 1 \in 1..(b - 1) /\ \A k \in (a - 1)..(b - 1) : k = a - 1 \/ k \in a..(b - 1)
      BY <1>5, <2>2
  <2>4. a - 1 \in T
      BY <1>5, <2>2, <2>3
  <2> QED
      BY <1>4, <1>5, <2>4
<1> QED
    BY <1>5, <1>6

LEMMA SpansListed ==
    ASSUME NEW acc
    PROVE  LET ends == {i \in 1..(Fftw - 1) :
                            Falls(acc, i) /\ i - First(acc, i) \in MinSpan..MaxSpan}
           IN  /\ Spans(acc) \in Seq({<<First(acc, i), i>> : i \in ends})
               /\ {Spans(acc)[k] : k \in DOMAIN Spans(acc)} = {<<First(acc, i), i>> : i \in ends}
<1> DEFINE ends == {i \in 1..(Fftw - 1) :
                        Falls(acc, i) /\ i - First(acc, i) \in MinSpan..MaxSpan}
           n == Cardinality(ends)
           A == Ascending(ends)
<1>1. IsFiniteSet(ends) /\ ends \subseteq Nat
  <2>1. Fftw - 1 \in Int /\ ends \in SUBSET (1..(Fftw - 1))
      BY BinAssumption
  <2>2. IsFiniteSet(1..(Fftw - 1))
      BY <2>1, FS_Interval
  <2>3. ends \subseteq Nat
      OBVIOUS
  <2> HIDE DEF ends
  <2> QED
      BY <2>1, <2>2, <2>3, FS_Subset
<1>2. n \in Nat /\ A \in [1..n -> ends] /\ \A i \in ends : \E k \in 1..n : A[k] = i
  <2> HIDE DEF ends
  <2> QED
      BY <1>1, AscendingLists
<1>3. Spans(acc) = [k \in 1..n |-> <<First(acc, A[k]), A[k]>>]
    BY Zenon DEF Spans
<1> HIDE DEF ends, n, A
<1>4. DOMAIN Spans(acc) = 1..n /\ \A k \in 1..n :
        A[k] \in ends /\ Spans(acc)[k] = <<First(acc, A[k]), A[k]>>
    BY <1>2, <1>3
<1> DEFINE pairs == {<<First(acc, i), i>> : i \in ends}
<1>5. \A k \in 1..n : Spans(acc)[k] \in pairs
    BY <1>4
<1>6. Spans(acc) \in Seq(pairs)
  <2>1. Spans(acc) = [k \in 1..n |-> Spans(acc)[k]]
      BY <1>3, <1>4
  <2> HIDE DEF pairs
  <2> QED
      BY <1>2, <1>5, <2>1
<1>7. {Spans(acc)[k] : k \in DOMAIN Spans(acc)} = pairs
  <2>1. \A i \in ends : \E k \in 1..n : Spans(acc)[k] = <<First(acc, i), i>>
      BY <1>2, <1>4
  <2> QED
      BY <1>4, <1>5, <2>1
<1> QED
    BY <1>6, <1>7 DEF ends

(* find_peaks: in a spectrum without a bin on the floor and with bin 0     *)
(* below it, the pairs it makes are the runs of bins above the floor that  *)
(* are wide enough, not too wide, and end before the last bin, each from   *)
(* its first bin to its end.                                               *)
THEOREM SpansAreRuns ==
    ASSUME NEW acc \in CleanSpectra
    PROVE  {Spans(acc)[k] : k \in DOMAIN Spans(acc)} = Runs(acc)
<1> DEFINE ends == {i \in 1..(Fftw - 1) :
                        Falls(acc, i) /\ i - First(acc, i) \in MinSpan..MaxSpan}
           pairs == {<<First(acc, i), i>> : i \in ends}
<1>1. {Spans(acc)[k] : k \in DOMAIN Spans(acc)} = pairs
    BY SpansListed
<1>2. ASSUME NEW run \in pairs PROVE run \in Runs(acc)
  <2>1. PICK b \in ends : run = <<First(acc, b), b>>
      OBVIOUS
  <2>2. b \in 1..(Fftw - 1) /\ Falls(acc, b) /\ b - First(acc, b) \in MinSpan..MaxSpan
      BY <2>1
  <2>3. PICK a \in 1..(b - 1) : acc[a - 1] < 0 /\ \A k \in a..(b - 1) : acc[k] > 0
      BY <2>2, FallEndsRun
  <2>4. a \in 1..(Fftw - 1) /\ a < b /\ acc[b] < 0
      BY <2>2, <2>3, BinAssumption DEF Falls
  <2>5. First(acc, b) = a
      BY <2>2, <2>3, <2>4, RunStarts
  <2> QED
      BY <2>1, <2>2, <2>3, <2>4, <2>5 DEF Runs
<1>3. ASSUME NEW run \in Runs(acc) PROVE run \in pairs
  <2>1. PICK a \in 1..(Fftw - 1), b \in 1..(Fftw - 1) : run = <<a, b>>
      BY DEF Runs
  <2>2. /\ b - a \in MinSpan..MaxSpan /\ a < b /\ acc[a - 1] < 0 /\ acc[b] < 0
        /\ \A k \in a..(b - 1) : acc[k] > 0
      BY <2>1 DEF Runs
  <2>3. First(acc, b) = a /\ Falls(acc, b)
      BY <2>2, RunStarts
  <2> QED
      BY <2>1, <2>2, <2>3
<1> HIDE DEF pairs
<1> QED
    BY <1>1, <1>2, <1>3

-----------------------------------------------------------------------------
(* The peaks of a spectrum as the scanner handles them *)
LEMMA HasGreatest ==
    ASSUME NEW n \in Nat, NEW I, I \subseteq 1..n, I # {}
    PROVE  \E m \in I : \A j \in I : j <= m
<1> DEFINE T == {n - i : i \in I}
<1>1. T \subseteq Nat /\ T # {}
  <2>1. \A i \in I : i \in Int /\ n - i \in Nat
      OBVIOUS
  <2>2. PICK i \in I : TRUE
      OBVIOUS
  <2>3. n - i \in T
      BY <2>2
  <2> QED
      BY <2>1, <2>3
<1>2. PICK t \in T : \A u \in T : ~(u < t)
  <2> HIDE DEF T
  <2> QED
      BY <1>1, NatHasLeast
<1>3. PICK m \in I : t = n - m
    BY <1>2
<1>4. \A j \in I : j \in Int /\ m \in Int /\ ~(n - j < n - m)
    BY <1>2, <1>3
<1> QED
    BY <1>3, <1>4

LEMMA FirstBefore ==
    ASSUME NEW acc \in [Bins -> {-1, 0, 1}], NEW b \in 1..(Fftw - 1), Falls(acc, b)
    PROVE  First(acc, b) \in Int /\ First(acc, b) < b
<1> DEFINE I == {j \in 1..b : acc[j] > 0 /\ acc[j - 1] < 0}
<1>1. \A j \in I : j \in 1..b /\ j # b
  <2>1. b \in Bins /\ acc[b] \in Int /\ acc[b] < 0
      BY BinAssumption DEF Bins, Falls
  <2> QED
      BY <2>1
<1>2. CASE I = {}
    BY <1>2 DEF First, Latest
<1>3. CASE I # {}
  <2> HIDE DEF I
  <2>1. PICK m \in I : \A j \in I : j <= m
      BY <1>1, <1>3, HasGreatest
  <2>2. Latest(I) = m
    <3>1. I \subseteq Nat
        BY <1>1
    <3> QED
        BY <2>1, <3>1, LatestOf
  <2>3. First(acc, b) = m
      BY <2>2 DEF First, I
  <2> QED
      BY <1>1, <2>1, <2>3
<1> QED
    BY <1>2, <1>3

(* A peak as find_peaks makes it: a signal of some width, not of a channel *)
IsSignal(p) == p.freq \in Int /\ p.bw \in Nat \ {0} /\ p.pipe = NoPipe

LEMMA WidePeak ==
    ASSUME NEW a \in Int, NEW b \in Int, a < b
    PROVE  /\ BinHz * ((a + b) \div 2 - Fftw \div 2) \in Int
           /\ (3 * BinHz * (b - a)) \div 2 \in Nat \ {0}
<1>1. BinHz \in Nat \ {0} /\ Fftw \div 2 \in Int /\ (a + b) \div 2 \in Int /\ b - a \in Nat \ {0}
    BY BinAssumption
<1>2. BinHz * (b - a) \in Int /\ BinHz * (b - a) >= 1
    BY <1>1, Z3
<1>3. (3 * BinHz) * (b - a) = 3 * (BinHz * (b - a))
    BY <1>1, Z3
<1> DEFINE w == BinHz * (b - a)
<1>4. (3 * w) \div 2 \in Nat \ {0}
  <2> HIDE DEF w
  <2>1. w \in Int /\ w >= 1
      BY <1>2 DEF w
  <2> QED
      BY <2>1
<1> QED
    BY <1>1, <1>3, <1>4

LEMMA PeaksTyped ==
    ASSUME NEW acc \in [Bins -> {-1, 0, 1}]
    PROVE  /\ FindPeaks(acc) \in Seq([freq : Int, bw : Nat, pipe : {NoPipe}, archive : BOOLEAN])
           /\ \A i \in DOMAIN FindPeaks(acc) : IsSignal(FindPeaks(acc)[i])
<1> DEFINE spans == Spans(acc)
           Freq(k) == BinHz * ((spans[k][1] + spans[k][2]) \div 2 - Fftw \div 2)
           Width(k) == (3 * BinHz * (spans[k][2] - spans[k][1])) \div 2
           ends == {i \in 1..(Fftw - 1) :
                        Falls(acc, i) /\ i - First(acc, i) \in MinSpan..MaxSpan}
           pairs == {<<First(acc, i), i>> : i \in ends}
           peaks == FindPeaks(acc)
<1>1. spans \in Seq(pairs)
    BY SpansListed
<1>2. \A p \in pairs : p[1] \in Int /\ p[2] \in Int /\ p[1] < p[2]
    BY FirstBefore
<1> HIDE DEF pairs
<1>3. DOMAIN spans = 1..Len(spans) /\ Len(spans) \in Nat /\ \A k \in DOMAIN spans : spans[k] \in pairs
    BY <1>1
<1>4. peaks = [k \in DOMAIN spans |-> Peak(Freq(k), Width(k), NoPipe, FALSE)]
    BY Zenon DEF FindPeaks
<1>5. \A k \in DOMAIN spans : Freq(k) \in Int /\ Width(k) \in Nat \ {0}
    BY <1>2, <1>3, WidePeak
<1> HIDE DEF spans, Freq, Width, peaks
<1>6. DOMAIN peaks = 1..Len(spans)
      /\ \A k \in DOMAIN spans : peaks[k] =
            [freq |-> Freq(k), bw |-> Width(k), pipe |-> NoPipe, archive |-> FALSE]
    BY <1>3, <1>4 DEF Peak
<1>7. \A k \in DOMAIN peaks : peaks[k] \in [freq : Int, bw : Nat, pipe : {NoPipe}, archive : BOOLEAN]
  <2> SUFFICES ASSUME NEW k \in DOMAIN spans
               PROVE  peaks[k] \in [freq : Int, bw : Nat, pipe : {NoPipe}, archive : BOOLEAN]
      BY <1>3, <1>6
  <2>1. Freq(k) \in Int /\ Width(k) \in Nat
      BY <1>5
  <2>2. peaks[k] = [freq |-> Freq(k), bw |-> Width(k), pipe |-> NoPipe, archive |-> FALSE]
      BY <1>6
  <2> QED
      BY <2>1, <2>2
<1>8. peaks \in Seq([freq : Int, bw : Nat, pipe : {NoPipe}, archive : BOOLEAN])
  <2>1. peaks = [k \in 1..Len(spans) |-> peaks[k]]
      BY <1>4, <1>6
  <2> QED
      BY <1>3, <1>6, <1>7, <2>1
<1>9. \A k \in DOMAIN peaks : IsSignal(peaks[k])
    BY <1>3, <1>5, <1>6 DEF IsSignal
<1> QED
    BY <1>8, <1>9 DEF peaks

(* The rate of a channel is the rate divided by a whole number. *)
LEMMA RateOfFile ==
    ASSUME NEW bw \in Nat \ {0}
    PROVE  Rate \div CeilDiv(Rate, bw) \in 0..Rate
<1>1. Rate \in Nat \ {0}
    BY BinAssumption, Z3 DEF Rate
<1> DEFINE c == CeilDiv(Rate, bw)
<1>2. c \in Int /\ Rate <= c * bw
    BY <1>1, CeilDivBounds
<1> HIDE DEF c
<1>3. c >= 1
  <2>1. ASSUME c <= 0 PROVE FALSE
    <3>1. c * bw <= 0 * bw /\ 0 * bw = 0
        BY <1>2, <2>1, TimesGrows, Distributes
    <3> QED
        BY <1>1, <1>2, <3>1
  <2> QED
      BY <1>2, <2>1
<1> DEFINE q == Rate \div c
           r == Rate % c
<1>4. q \in Int /\ r \in Int /\ Rate = c * q + r /\ 0 <= r /\ r < c
  <2>1. Rate \in Int /\ c \in Nat \ {0}
      BY <1>1, <1>2, <1>3
  <2> QED
      BY <2>1, Euclid
<1> HIDE DEF q, r
<1>5. q >= 0
  <2>1. ASSUME q <= -1 PROVE FALSE
    <3>1. q * c <= (-1) * c /\ q * c = c * q /\ (-1) * c = -c
      <4>1. c \in Nat
          BY <1>2, <1>3
      <4> QED
          BY <1>4, <2>1, <4>1, TimesGrows, Z3
    <3> QED
        BY <1>1, <1>2, <1>4, <3>1
  <2> QED
      BY <1>4, <2>1
<1>6. q <= c * q
    BY <1>2, <1>3, <1>4, <1>5, Z3
<1>7. c * q \in Int
    BY <1>2, <1>4
<1> QED
    BY <1>1, <1>4, <1>5, <1>6, <1>7 DEF q, c

(* scan: a signal is recorded as it is, or as a channel of the frame. *)
LEMMA RecordedAs ==
    ASSUME NEW peak, NEW frame, NEW S, frame.channels \in Seq(S)
    PROVE  \/ AsChannel(peak, frame) = peak
           \/ \E k \in DOMAIN frame.channels :
                AsChannel(peak, frame) = Peak(frame.channels[k].freq - frame.freq,
                    frame.channels[k].bw, frame.channels[k].pipe, TRUE)
<1> DEFINE n == Len(frame.channels)
           Ch(k) == Peak(frame.channels[k].freq - frame.freq, frame.channels[k].bw,
                         frame.channels[k].pipe, TRUE)
           Match(p, k) ==
                IF /\ frame.channels[k].freq - frame.freq - frame.channels[k].bw \div 2 < p.freq
                   /\ frame.channels[k].freq - frame.freq + frame.channels[k].bw \div 2 > p.freq
                THEN Ch(k) ELSE p
           Rec(f) == f = [k \in 0..n |-> IF k = 0 THEN peak ELSE Match(f[k - 1], k)]
           match == CHOOSE f : Rec(f)
           V == {peak} \cup {Ch(k) : k \in 1..n}
<1>1. AsChannel(peak, frame) = match[n]
    BY Zenon DEF AsChannel
<1>2. n \in Nat /\ DOMAIN frame.channels = 1..n
    OBVIOUS
<1>3. peak \in V /\ \A k \in 1..n, p \in V : Match(p, k) \in V
    OBVIOUS
<1>4. (\A p \in V : p = peak \/ \E k \in 1..n : p = Ch(k))
    OBVIOUS
<1> HIDE DEF Match, V, Ch, n
<1>5. \E f \in [0..n -> V] : Rec(f)
  <2> DEFINE step == [p \in (1..n) \X V |-> Match(p[2], p[1])]
  <2>1. \A k \in 1..n, v \in V : step[<<k, v>>] = Match(v, k)
      OBVIOUS
  <2>2. StepsIn(step, n, V)
      BY <1>3, <2>1 DEF StepsIn
  <2> HIDE DEF step
  <2>3. PICK f \in [0..n -> V] : Repeats(f, n, peak, step)
      BY <1>2, <1>3, <2>2, RecursionExists
  <2>4. \A k \in 1..n : f[k - 1] \in V /\ f[k] = Match(f[k - 1], k)
    <3> SUFFICES ASSUME NEW k \in 1..n PROVE f[k - 1] \in V /\ f[k] = Match(f[k - 1], k)
        OBVIOUS
    <3>1. k - 1 \in 0..n
        BY <1>2
    <3>2. f[k - 1] \in V
        BY <2>3, <3>1
    <3> QED
        BY <2>1, <2>3, <3>2 DEF Repeats
  <2>5. \A k \in 0..n : f[k] = IF k = 0 THEN peak ELSE Match(f[k - 1], k)
      BY <1>2, <2>3, <2>4 DEF Repeats
  <2> QED
      BY <2>5
<1>6. Rec(match)
  <2> HIDE DEF Rec
  <2> QED
      BY <1>5
<1> HIDE DEF match
<1>7. match[0] = peak /\ \A k \in 1..n : match[k] = Match(match[k - 1], k)
    BY <1>2, <1>6
<1> DEFINE T == {k \in 0..n : match[k] \in V}
<1>8. 0 \in T
    BY <1>2, <1>3, <1>7
<1>9. \A k \in 1..n : k - 1 \in T => k \in T
    BY <1>2, <1>3, <1>7
<1>10. n \in T
  <2> HIDE DEF T
  <2>1. 0..n \subseteq T
      BY <1>2, <1>8, <1>9, InductionTo
  <2> QED
      BY <1>2, <2>1
<1> QED
    BY <1>1, <1>2, <1>4, <1>10 DEF Ch
=============================================================================
