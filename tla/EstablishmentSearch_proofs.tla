--------------------- MODULE EstablishmentSearch_proofs ---------------------
(***************************************************************************)
(* What sorting and filtering guarantee, for any finite set and any strict *)
(* total order of it, and what a search of the directory returns.  Nothing *)
(* here is by induction: an element's place is the number of those before  *)
(* it, and places are a bijection because they are an injection between    *)
(* sets of one size.                                                       *)
(***************************************************************************)
EXTENDS EstablishmentSearch, FiniteSetTheorems, TLAPS

\* A strict order of S that tells any two of its elements apart.
StrictlyOrders(R, S) ==
  /\ IsFiniteSet(S)
  /\ \A x \in S : <<x, x>> \notin R
  /\ \A x, y \in S : x = y \/ <<x, y>> \in R \/ <<y, x>> \in R
  /\ \A x, y, z \in S : <<x, y>> \in R /\ <<y, z>> \in R => <<x, z>> \in R

Below(x, S, R) == {y \in S : <<y, x>> \in R}
-----------------------------------------------------------------------------

\* Of two elements, the one before has fewer before it.
LEMMA EarlierHasFewerBelow ==
  ASSUME NEW S, NEW R, StrictlyOrders(R, S), NEW x \in S, NEW y \in S, <<x, y>> \in R
  PROVE  Cardinality(Below(x, S, R)) < Cardinality(Below(y, S, R))
<1>1. Below(x, S, R) \subseteq Below(y, S, R)
  BY DEF StrictlyOrders, Below
<1>2. x \in Below(y, S, R) /\ x \notin Below(x, S, R)
  BY DEF StrictlyOrders, Below
<1>3. IsFiniteSet(Below(y, S, R))
  BY FS_Subset DEF StrictlyOrders, Below
<1>4. IsFiniteSet(Below(x, S, R))
  BY FS_Subset DEF StrictlyOrders, Below
<1>5. /\ Cardinality(Below(x, S, R)) \in Nat /\ Cardinality(Below(y, S, R)) \in Nat
  BY <1>3, <1>4, FS_CardinalityType
<1>6. /\ Cardinality(Below(x, S, R)) <= Cardinality(Below(y, S, R))
      /\ Cardinality(Below(y, S, R)) = Cardinality(Below(x, S, R))
           => Below(y, S, R) = Below(x, S, R)
  BY <1>1, <1>3, FS_Subset
<1> QED
  BY <1>2, <1>5, <1>6

\* Places are from one to the size of the set.
LEMMA PlacesAreInRange ==
  ASSUME NEW S, NEW R, StrictlyOrders(R, S), NEW x \in S
  PROVE  /\ Cardinality(S) \in Nat
         /\ Cardinality(Below(x, S, R)) \in 0..(Cardinality(S) - 1)
<1>1. Below(x, S, R) \in SUBSET S /\ x \notin Below(x, S, R)
  BY DEF StrictlyOrders, Below
<1>2. IsFiniteSet(S) /\ Cardinality(S) \in Nat
  BY FS_CardinalityType DEF StrictlyOrders
<1>3. /\ IsFiniteSet(Below(x, S, R))
      /\ Cardinality(Below(x, S, R)) <= Cardinality(S)
      /\ Cardinality(S) = Cardinality(Below(x, S, R)) => S = Below(x, S, R)
  BY <1>1, <1>2, FS_Subset
<1>4. Cardinality(Below(x, S, R)) \in Nat
  BY <1>3, FS_CardinalityType
<1> QED
  BY <1>1, <1>2, <1>3, <1>4

\* Every place is somebody's.
LEMMA EveryPlaceIsTaken ==
  ASSUME NEW S, NEW R, StrictlyOrders(R, S), NEW k \in 1..Cardinality(S)
  PROVE  \E x \in S : Cardinality(Below(x, S, R)) = k - 1
<1> DEFINE N == Cardinality(S)
           f == [x \in S |-> Cardinality(Below(x, S, R)) + 1]
<1>1. IsFiniteSet(S) /\ N \in Nat
  BY FS_CardinalityType DEF StrictlyOrders
<1>2. f \in [S -> 1..N]
  <2>1. ASSUME NEW x \in S PROVE Cardinality(Below(x, S, R)) + 1 \in 1..N
    BY PlacesAreInRange
  <2> QED
    BY <2>1
<1>3. ASSUME NEW x \in S, NEW y \in S, f[x] = f[y] PROVE x = y
  <2>1. /\ Cardinality(Below(x, S, R)) \in Nat /\ Cardinality(Below(y, S, R)) \in Nat
    BY PlacesAreInRange
  <2>2. Cardinality(Below(x, S, R)) = Cardinality(Below(y, S, R))
    BY <1>3, <2>1
  <2>3. <<x, y>> \notin R /\ <<y, x>> \notin R
    BY <2>1, <2>2, EarlierHasFewerBelow
  <2> QED
    BY <2>3 DEF StrictlyOrders
<1>4. f \in Injection(S, 1..N)
  BY <1>2, <1>3 DEF Injection, IsInjective
<1>5. IsFiniteSet(1..N) /\ Cardinality(1..N) = N
  BY <1>1, FS_Interval
<1>6. f \in Surjection(S, 1..N)
  BY <1>4, <1>5, FS_Injection
<1>7. PICK x \in S : f[x] = k
  BY <1>6 DEF Surjection
<1>8. Cardinality(Below(x, S, R)) \in Nat
  BY PlacesAreInRange
<1> QED
  BY <1>7, <1>8

\* InOrder lists the elements of S, each one once, in their order.
THEOREM InOrderSorts ==
  ASSUME NEW S, NEW R, StrictlyOrders(R, S)
  PROVE  LET o == InOrder(S, R)
             N == Cardinality(S)
         IN /\ N \in Nat /\ o \in [1..N -> S]
            /\ \A x \in S : \E k \in 1..N : o[k] = x
            /\ \A i, j \in 1..N : i < j <=> <<o[i], o[j]>> \in R
            /\ \A i, j \in 1..N : o[i] = o[j] => i = j
<1> DEFINE N == Cardinality(S)
           o == InOrder(S, R)
<1>1. IsFiniteSet(S) /\ N \in Nat
  BY FS_CardinalityType DEF StrictlyOrders
<1>2. ASSUME NEW k \in 1..N
      PROVE  o[k] \in S /\ Cardinality(Below(o[k], S, R)) = k - 1
  <2>1. o[k] = CHOOSE x \in S : Cardinality(Below(x, S, R)) = k - 1
    BY DEF InOrder, Below
  <2>2. \E x \in S : Cardinality(Below(x, S, R)) = k - 1
    BY EveryPlaceIsTaken
  <2> QED
    BY <2>1, <2>2
<1>3. o \in [1..N -> S]
  BY <1>2 DEF InOrder
<1>4. ASSUME NEW i \in 1..N, NEW j \in 1..N, o[i] = o[j] PROVE i = j
  <2>1. Cardinality(Below(o[i], S, R)) = i - 1 /\ Cardinality(Below(o[j], S, R)) = j - 1
    BY <1>2
  <2> QED
    BY <1>4, <2>1
<1>5. ASSUME NEW i \in 1..N, NEW j \in 1..N PROVE i < j <=> <<o[i], o[j]>> \in R
  <2>1. /\ o[i] \in S /\ Cardinality(Below(o[i], S, R)) = i - 1
        /\ o[j] \in S /\ Cardinality(Below(o[j], S, R)) = j - 1
    BY <1>2
  <2>2. ASSUME <<o[i], o[j]>> \in R PROVE i < j
    BY <2>1, <2>2, EarlierHasFewerBelow
  <2>3. ASSUME <<o[j], o[i]>> \in R PROVE j < i
    BY <2>1, <2>3, EarlierHasFewerBelow
  <2>4. o[i] = o[j] \/ <<o[i], o[j]>> \in R \/ <<o[j], o[i]>> \in R
    BY <2>1 DEF StrictlyOrders
  <2> QED
    BY <1>4, <2>2, <2>3, <2>4
<1>6. ASSUME NEW x \in S PROVE \E k \in 1..N : o[k] = x
  <2> DEFINE k == Cardinality(Below(x, S, R)) + 1
  <2>1. k \in 1..N /\ k - 1 = Cardinality(Below(x, S, R))
    BY <1>1, PlacesAreInRange
  <2>2. o[k] \in S /\ Cardinality(Below(o[k], S, R)) = Cardinality(Below(x, S, R))
    BY <1>2, <2>1
  <2>3. Cardinality(Below(x, S, R)) \in Nat
    BY PlacesAreInRange
  <2>4. <<o[k], x>> \notin R /\ <<x, o[k]>> \notin R
    BY <2>2, <2>3, EarlierHasFewerBelow
  <2>5. o[k] = x
    BY <2>2, <2>4 DEF StrictlyOrders
  <2> QED
    BY <2>1, <2>5
<1> QED
  BY <1>1, <1>3, <1>4, <1>5, <1>6
-----------------------------------------------------------------------------
\* Whatever enumerates S and never puts a later element before an earlier one
\* is that list: a sorted result is determined by its order.
THEOREM SortedIsUnique ==
  ASSUME NEW S, NEW R, StrictlyOrders(R, S),
         NEW p \in [1..Cardinality(S) -> S],
         \A i, j \in 1..Cardinality(S) : p[i] = p[j] => i = j,
         \A i, j \in 1..Cardinality(S) : i < j => <<p[j], p[i]>> \notin R
  PROVE  p = InOrder(S, R)
<1> DEFINE N == Cardinality(S)
           o == InOrder(S, R)
<1>1. /\ N \in Nat /\ IsFiniteSet(S) /\ o \in [1..N -> S]
      /\ \A i, j \in 1..N : o[i] = o[j] => i = j
  BY InOrderSorts DEF StrictlyOrders
<1>2. ASSUME NEW i \in 1..N, NEW j \in 1..N PROVE i < j <=> <<p[i], p[j]>> \in R
  <2>1. p[i] \in S /\ p[j] \in S
    OBVIOUS
  <2>2. CASE i = j
    BY <1>1, <2>1, <2>2 DEF StrictlyOrders
  <2>3. CASE i < j
    <3>1. p[i] # p[j] /\ <<p[j], p[i]>> \notin R
      BY <1>1, <2>3
    <3>2. <<p[i], p[j]>> \in R
      BY <2>1, <3>1 DEF StrictlyOrders
    <3> QED
      BY <2>3, <3>2
  <2>4. CASE j < i
    BY <1>1, <2>1, <2>4
  <2> QED
    BY <1>1, <2>2, <2>3, <2>4
<1>3. p \in Injection(1..N, S)
  BY DEF Injection, IsInjective
<1>4. p \in Surjection(1..N, S)
  BY <1>1, <1>3, FS_Injection, FS_Interval
<1>5. ASSUME NEW k \in 1..N PROVE Cardinality(Below(p[k], S, R)) = k - 1
  <2> DEFINE q == [i \in 1..(k - 1) |-> p[i]]
             B == Below(p[k], S, R)
  <2>1. q \in [1..(k - 1) -> B]
    BY <1>1, <1>2 DEF Below
  <2>2. ASSUME NEW x \in B PROVE \E i \in 1..(k - 1) : q[i] = x
    <3>1. PICK i \in 1..N : p[i] = x
      BY <1>4 DEF Surjection, Below
    <3>2. i < k
      BY <1>2, <3>1 DEF Below
    <3> QED
      BY <1>1, <3>1, <3>2
  <2>3. \A i, j \in 1..(k - 1) : q[i] = q[j] => i = j
    BY <1>1
  <2>4. q \in Bijection(1..(k - 1), B)
    <3> HIDE DEF q, B
    <3> QED
      BY <2>1, <2>2, <2>3 DEF Bijection, Injection, Surjection, IsInjective
  <2>5. k - 1 \in Nat /\ ExistsBijection(1..(k - 1), B)
    BY <1>1, <2>4 DEF ExistsBijection
  <2> QED
    BY <2>5, FS_CountingElements
<1>6. ASSUME NEW k \in 1..N PROVE p[k] = o[k]
  <2>1. PICK j \in 1..N : o[j] = p[k]
    BY InOrderSorts
  <2>2. Cardinality(Below(o[j], S, R)) = j - 1
    <3>1. o[j] = CHOOSE x \in S : Cardinality(Below(x, S, R)) = j - 1
      BY DEF InOrder, Below
    <3>2. \E x \in S : Cardinality(Below(x, S, R)) = j - 1
      BY EveryPlaceIsTaken
    <3> QED
      BY <3>1, <3>2
  <2>3. j = k
    BY <1>1, <1>5, <2>1, <2>2
  <2> QED
    BY <2>1, <2>3
<1> QED
  BY <1>1, <1>6
-----------------------------------------------------------------------------
\* The order of the numbers.
LEMMA AscendingOrders ==
  ASSUME NEW I \in SUBSET Int, IsFiniteSet(I)
  PROVE  StrictlyOrders(Ascending(I), I)
<1>1. \A i, j \in I : <<i, j>> \in Ascending(I) <=> i < j
  BY DEF Ascending
<1> QED
  BY <1>1 DEF StrictlyOrders

\* r has what s has at the positions I, and nothing else.
HasExactly(r, s, I) ==
  /\ \A k \in DOMAIN r : \E i \in I : r[k] = s[i]
  /\ \A i \in I : \E k \in DOMAIN r : r[k] = s[i]

\* Filtering keeps what is at the positions, and nothing else.
THEOREM SelectedHas ==
  ASSUME NEW T, NEW s, NEW I \in SUBSET Int, IsFiniteSet(I), \A i \in I : s[i] \in T
  PROVE  /\ Selected(s, I) \in Seq(T)
         /\ Len(Selected(s, I)) = Cardinality(I)
         /\ DOMAIN Selected(s, I) = 1..Cardinality(I)
         /\ HasExactly(Selected(s, I), s, I)
<1> DEFINE N == Cardinality(I)
           r == Selected(s, I)
           p == InOrder(I, Ascending(I))
<1>1. /\ N \in Nat /\ p \in [1..N -> I]
      /\ \A i \in I : \E k \in 1..N : p[k] = i
  BY AscendingOrders, InOrderSorts
<1>2. r = [k \in 1..N |-> r[k]] /\ DOMAIN r = 1..N
  BY DEF Selected
<1>3. \A k \in 1..N : r[k] = s[p[k]]
  BY DEF Selected
<1> HIDE DEF r, N, p
<1>4. \A k \in 1..N : r[k] \in T
  BY <1>1, <1>3
<1>5. r \in Seq(T) /\ Len(r) = N
  BY <1>1, <1>2, <1>4
<1>6. \A k \in 1..N : \E i \in I : r[k] = s[i]
  BY <1>1, <1>3
<1>7. \A i \in I : \E k \in 1..N : r[k] = s[i]
  BY <1>1, <1>3
<1>8. HasExactly(r, s, I)
  BY <1>2, <1>6, <1>7 DEF HasExactly
<1> QED
  BY <1>2, <1>5, <1>8 DEF r, N

\* With one position, it is what is there.
LEMMA OnlyFirstSelected == ASSUME NEW s PROVE Selected(s, {1})[1] = s[1]
<1> DEFINE I == {1}
           p == InOrder(I, Ascending(I))
<1>1. I \in SUBSET Int /\ IsFiniteSet(I) /\ Cardinality(I) = 1
  BY FS_Singleton
<1>2. p \in [1..Cardinality(I) -> I]
  <2> HIDE DEF I
  <2> QED
    BY <1>1, AscendingOrders, InOrderSorts
<1>3. Selected(s, I)[1] = s[p[1]]
  BY <1>1 DEF Selected
<1> HIDE DEF p
<1>4. p[1] = 1
  BY <1>1, <1>2
<1> QED
  BY <1>3, <1>4

\* There are n positions from 1 to n.
LEMMA CountTo ==
  ASSUME NEW n \in Nat PROVE IsFiniteSet(1..n) /\ Cardinality(1..n) = n
<1>1. IsFiniteSet(1..n) /\ Cardinality(1..n) = IF 1 > n THEN 0 ELSE n - 1 + 1
  BY FS_Interval
<1> QED
  BY <1>1

\* Leaving one of them out.
LEMMA CountAllButOne ==
  ASSUME NEW n \in Nat, NEW p \in 1..n
  PROVE  IsFiniteSet((1..n) \ {p}) /\ Cardinality((1..n) \ {p}) = n - 1
<1>1. IsFiniteSet(1..n) /\ Cardinality(1..n) = n
  BY CountTo
<1> QED
  BY <1>1, FS_RemoveElement

\* A set of positions of a sequence is one that can be filtered at.
LEMMA PositionsAreFinite ==
  ASSUME NEW T, NEW s \in Seq(T), NEW I \in SUBSET (DOMAIN s)
  PROVE  IsFiniteSet(I) /\ I \in SUBSET Int /\ Cardinality(I) <= Len(s)
<1>1. Len(s) \in Nat /\ DOMAIN s = 1..Len(s)
  OBVIOUS
<1>2. IsFiniteSet(1..Len(s)) /\ Cardinality(1..Len(s)) = Len(s)
  BY <1>1, CountTo
<1>3. IsFiniteSet(I) /\ Cardinality(I) <= Cardinality(1..Len(s))
  BY <1>1, <1>2, FS_Subset
<1> QED
  BY <1>1, <1>2, <1>3

\* What is filtered out of a sequence without repetitions has none.
THEOREM SelectedKeepsDistinct ==
  ASSUME NEW T, NEW s \in Seq(T), NEW I \in SUBSET (DOMAIN s),
         \A i, j \in DOMAIN s : s[i] = s[j] => i = j
  PROVE  /\ Selected(s, I) \in Seq(T)
         /\ Len(Selected(s, I)) = Cardinality(I)
         /\ \A j, k \in DOMAIN Selected(s, I) :
              Selected(s, I)[j] = Selected(s, I)[k] => j = k
         /\ \A k \in DOMAIN Selected(s, I) : \E i \in I : Selected(s, I)[k] = s[i]
         /\ \A i \in I : \E k \in DOMAIN Selected(s, I) : Selected(s, I)[k] = s[i]
<1> DEFINE N == Cardinality(I)
           r == Selected(s, I)
           p == InOrder(I, Ascending(I))
<1>1. IsFiniteSet(I) /\ I \in SUBSET Int
  BY PositionsAreFinite
<1>2. /\ N \in Nat /\ p \in [1..N -> I]
      /\ \A i \in I : \E k \in 1..N : p[k] = i
      /\ \A j, k \in 1..N : p[j] = p[k] => j = k
  BY <1>1, AscendingOrders, InOrderSorts
<1>3. DOMAIN r = 1..N /\ \A k \in 1..N : r[k] = s[p[k]]
  BY DEF Selected
<1>4. \A i \in I : s[i] \in T
  OBVIOUS
<1>5. r \in Seq(T) /\ Len(r) = N
  BY <1>1, <1>4, SelectedHas
<1> HIDE DEF r, p, N
<1>6. \A j, k \in 1..N : r[j] = r[k] => j = k
  BY <1>2, <1>3
<1>7. /\ \A k \in 1..N : \E i \in I : r[k] = s[i]
      /\ \A i \in I : \E k \in 1..N : r[k] = s[i]
  BY <1>2, <1>3
<1> QED
  BY <1>3, <1>5, <1>6, <1>7 DEF r, N
-----------------------------------------------------------------------------
(* Least and greatest numbers, and the lexicographic order of keys.        *)

\* A finite set of numbers has a least one.
LEMMA LeastNumber ==
  ASSUME NEW I \in SUBSET Int, IsFiniteSet(I), I # {}
  PROVE  \E m \in I : \A i \in I : m <= i
<1> DEFINE N == Cardinality(I)
           p == InOrder(I, Ascending(I))
<1>1. /\ N \in Nat /\ p \in [1..N -> I]
      /\ \A i \in I : \E k \in 1..N : p[k] = i
      /\ \A j, k \in 1..N : j < k <=> <<p[j], p[k]>> \in Ascending(I)
  BY AscendingOrders, InOrderSorts
<1>2. \A j, k \in 1..N : j < k => p[j] < p[k]
  BY <1>1 DEF Ascending
<1> HIDE DEF N, p
<1>3. 1 \in 1..N
  <2>1. PICK i \in I : TRUE
    OBVIOUS
  <2>2. PICK k \in 1..N : p[k] = i
    BY <1>1, <2>1
  <2> QED
    BY <1>1, <2>2
<1>4. ASSUME NEW i \in I PROVE p[1] <= i
  <2>1. PICK k \in 1..N : p[k] = i
    BY <1>1
  <2>2. p[1] \in Int /\ p[k] \in Int /\ (1 < k => p[1] < p[k])
    BY <1>1, <1>2, <1>3, <2>1
  <2>3. k = 1 \/ 1 < k
    BY <1>1
  <2> QED
    BY <2>1, <2>2, <2>3
<1> QED
  BY <1>1, <1>3, <1>4

\* Its greatest one is what Max chooses.
LEMMA GreatestNumber ==
  ASSUME NEW I \in SUBSET Int, IsFiniteSet(I), I # {}
  PROVE  Max(I) \in I /\ \A i \in I : i <= Max(I)
<1> DEFINE N == Cardinality(I)
           p == InOrder(I, Ascending(I))
<1>1. /\ N \in Nat /\ p \in [1..N -> I]
      /\ \A i \in I : \E k \in 1..N : p[k] = i
      /\ \A j, k \in 1..N : j < k <=> <<p[j], p[k]>> \in Ascending(I)
  BY AscendingOrders, InOrderSorts
<1>2. \A j, k \in 1..N : j < k => p[j] < p[k]
  BY <1>1 DEF Ascending
<1> HIDE DEF N, p
<1>3. N \in 1..N
  <2>1. PICK i \in I : TRUE
    OBVIOUS
  <2>2. PICK k \in 1..N : p[k] = i
    BY <1>1, <2>1
  <2> QED
    BY <1>1, <2>2
<1>4. ASSUME NEW i \in I PROVE p[N] >= i
  <2>1. PICK k \in 1..N : p[k] = i
    BY <1>1
  <2>2. p[N] \in Int /\ p[k] \in Int /\ (k < N => p[k] < p[N])
    BY <1>1, <1>2, <1>3, <2>1
  <2>3. k = N \/ k < N
    BY <1>1
  <2> QED
    BY <2>1, <2>2, <2>3
<1>5. \E x \in I : \A y \in I : x >= y
  BY <1>1, <1>3, <1>4
<1> QED
  BY <1>5 DEF Max

\* The first condition that holds, when the last one always does.
LEMMA FirstTrueIsFirst ==
  ASSUME NEW cs \in Seq(BOOLEAN), Len(cs) >= 1, cs[Len(cs)]
  PROVE  /\ FirstTrue(cs) \in 1..Len(cs) /\ cs[FirstTrue(cs)]
         /\ \A j \in 1..(FirstTrue(cs) - 1) : ~cs[j]
<1> DEFINE I == {i \in DOMAIN cs : cs[i]}
<1>1. Len(cs) \in Nat /\ DOMAIN cs = 1..Len(cs) /\ Len(cs) \in I
  OBVIOUS
<1>2. I \in SUBSET (DOMAIN cs)
  OBVIOUS
<1>3. IsFiniteSet(I) /\ I \in SUBSET Int
  <2> HIDE DEF I
  <2> QED
    BY <1>2, PositionsAreFinite
<1>4. PICK m \in I : \A i \in I : m <= i
  <2> HIDE DEF I
  <2> QED
    BY <1>1, <1>3, LeastNumber
<1>5. m \in DOMAIN cs /\ cs[m] /\ \A j \in 1..(m - 1) : ~cs[j]
  BY <1>1, <1>4
<1>6. \E i \in DOMAIN cs : cs[i] /\ \A j \in 1..(i - 1) : ~cs[j]
  BY <1>5
<1> QED
  BY <1>1, <1>6 DEF FirstTrue

\* Keys of one length are totally ordered.
LEMMA BeforeIsAnOrder ==
  ASSUME NEW n \in Nat, NEW k \in [1..n -> Int], NEW l \in [1..n -> Int],
         NEW m \in [1..n -> Int]
  PROVE  /\ ~Before(k, k)
         /\ Before(k, l) /\ Before(l, m) => Before(k, m)
         /\ k = l \/ Before(k, l) \/ Before(l, k)
<1>1. ~Before(k, k)
  BY DEF Before
<1>2. ASSUME Before(k, l), Before(l, m) PROVE Before(k, m)
  <2>1. PICK i \in 1..n : k[i] < l[i] /\ \A h \in 1..(i - 1) : k[h] = l[h]
    BY <1>2 DEF Before
  <2>2. PICK j \in 1..n : l[j] < m[j] /\ \A h \in 1..(j - 1) : l[h] = m[h]
    BY <1>2 DEF Before
  <2>3. CASE i <= j
    <3>1. k[i] < m[i]
      BY <2>1, <2>2, <2>3
    <3>2. \A h \in 1..(i - 1) : k[h] = m[h]
      BY <2>1, <2>2, <2>3
    <3> QED
      BY <3>1, <3>2 DEF Before
  <2>4. CASE j < i
    <3>1. k[j] < m[j]
      BY <2>1, <2>2, <2>4
    <3>2. \A h \in 1..(j - 1) : k[h] = m[h]
      BY <2>1, <2>2, <2>4
    <3> QED
      BY <3>1, <3>2 DEF Before
  <2> QED
    BY <2>3, <2>4
<1>3. ASSUME k # l PROVE Before(k, l) \/ Before(l, k)
  <2> DEFINE I == {i \in 1..n : k[i] # l[i]}
  <2>1. I # {}
    <3>1. k = [i \in 1..n |-> k[i]] /\ l = [i \in 1..n |-> l[i]]
      OBVIOUS
    <3>2. \E i \in 1..n : k[i] # l[i]
      BY <1>3, <3>1
    <3> QED
      BY <3>2
  <2>2. I \in SUBSET Int /\ I \in SUBSET (1..n)
    OBVIOUS
  <2>3. IsFiniteSet(I)
    <3> HIDE DEF I
    <3> QED
      BY <2>2, CountTo, FS_Subset
  <2>4. PICK i \in I : \A j \in I : i <= j
    <3> HIDE DEF I
    <3> QED
      BY <2>1, <2>2, <2>3, LeastNumber
  <2>5. i \in 1..n /\ k[i] # l[i] /\ \A h \in 1..(i - 1) : k[h] = l[h]
    BY <2>4
  <2>6. k[i] < l[i] \/ l[i] < k[i]
    BY <2>5
  <2> QED
    BY <2>5, <2>6 DEF Before
<1> QED
  BY <1>1, <1>2, <1>3

\* Sorting by keys that differ is sorting by a strict total order.
LEMMA KeysOrder ==
  ASSUME NEW S, IsFiniteSet(S), NEW n \in Nat, NEW key \in [S -> [1..n -> Int]],
         \A x, y \in S : key[x] = key[y] => x = y,
         NEW R, \A x, y \in S : <<x, y>> \in R <=> Before(key[x], key[y])
  PROVE  StrictlyOrders(R, S)
<1>1. \A x \in S : key[x] \in [1..n -> Int]
  OBVIOUS
<1>2. \A x \in S : <<x, x>> \notin R
  BY <1>1, BeforeIsAnOrder
<1>3. \A x, y \in S : x = y \/ <<x, y>> \in R \/ <<y, x>> \in R
  BY <1>1, BeforeIsAnOrder
<1>4. \A x, y, z \in S : <<x, y>> \in R /\ <<y, z>> \in R => <<x, z>> \in R
  BY <1>1, BeforeIsAnOrder
<1> QED
  BY <1>2, <1>3, <1>4 DEF StrictlyOrders
-----------------------------------------------------------------------------
(* The order of a search of the directory.                                 *)

KeyLength(c) ==
  (IF c.text = None THEN 0 ELSE 1) + (IF HasLocation(c) THEN 1 ELSE 2) + 2

\* The tier of a match is a number.
LEMMA MatchTierIsANumber == ASSUME NEW q, NEW u, NEW site PROVE MatchTier(q, u, site) \in Int
<1> DEFINE cs == << q = <<u>>, q = site.name, q = site.city \/ q = <<site.postcode>>,
                    Starts(q, site.name), Starts(q, site.city),
                    Occurs(q, site.name), TRUE >>
<1>1. Starts(q, site.name) \in BOOLEAN /\ Starts(q, site.city) \in BOOLEAN
      /\ Occurs(q, site.name) \in BOOLEAN
  BY Zenon DEF Starts, Occurs
<1>2. cs \in Seq(BOOLEAN) /\ Len(cs) = 7 /\ cs[7]
  BY <1>1
<1>3. FirstTrue(cs) \in 1..7
  <2> HIDE DEF cs
  <2>1. Len(cs) >= 1 /\ cs[Len(cs)]
    BY <1>2
  <2>2. FirstTrue(cs) \in 1..Len(cs)
    BY <1>2, <2>1, FirstTrueIsFirst
  <2> QED
    BY <1>2, <2>2
<1> QED
  BY <1>3 DEF MatchTier

\* So is a distance.
LEMMA DistanceIsANumber ==
  ASSUME NEW at, at.lat \in Int, at.lng \in Int, NEW lat \in Int, NEW lng \in Int
  PROVE  Distance(at, lat, lng) \in Int
  BY DEF Distance, Abs

\* Numbers put one after the other.
LEMMA PartsOfAKey ==
  ASSUME NEW A \in Seq(Int), NEW B \in Seq(Int)
  PROVE  /\ A \o B \in Seq(Int) /\ Len(A \o B) = Len(A) + Len(B)
         /\ \A k \in 1..Len(A) : (A \o B)[k] = A[k]
         /\ \A k \in 1..Len(B) : (A \o B)[Len(A) + k] = B[k]
<1>1. A \o B \in Seq(Int) /\ Len(A \o B) = Len(A) + Len(B)
  OBVIOUS
<1>2. Len(A) \in Nat /\ Len(B) \in Nat
  OBVIOUS
<1>3. ASSUME NEW k \in 1..Len(B) PROVE (A \o B)[Len(A) + k] = B[k]
  <2>1. Len(A) + k \in 1..(Len(A) + Len(B)) /\ ~(Len(A) + k <= Len(A))
    BY <1>2
  <2>2. (Len(A) + k) - Len(A) = k
    BY <1>2
  <2> QED
    BY <2>1, <2>2
<1>4. ASSUME NEW k \in 1..Len(A) PROVE (A \o B)[k] = A[k]
  <2>1. k \in 1..(Len(A) + Len(B)) /\ k <= Len(A)
    BY <1>2
  <2> QED
    BY <2>1
<1> QED
  BY <1>1, <1>3, <1>4

BeginsWith(key, part) == \A i \in DOMAIN part : key[i] = part[i]

\* What a key begins with: the tier, then the distance or the city.
TextPart(c, u, site) == IF c.text = None THEN <<>> ELSE <<MatchTier(c.text, u, site)>>
PlacePart(c, site) ==
  IF HasLocation(c) THEN <<Distance(site.at, c.lat, c.lng)>> ELSE CityRank(site)

\* Every match has a key of numbers, whose last one is its identifier's.
LEMMA SortKeyIsAKey ==
  ASSUME NEW d, IsDirectory(d), NEW c, ValidCriteria(c), NEW u \in Matches(d, c)
  PROVE  /\ KeyLength(c) \in Nat
         /\ SortKey(c, u, Canonical(d[u])) \in [1..KeyLength(c) -> Int]
         /\ SortKey(c, u, Canonical(d[u]))[KeyLength(c)] = Collation[u]
         /\ TextPart(c, u, Canonical(d[u])) \in Seq(Int)
         /\ Len(TextPart(c, u, Canonical(d[u]))) = IF c.text = None THEN 0 ELSE 1
         /\ PlacePart(c, Canonical(d[u])) \in Seq(Int)
         /\ Len(PlacePart(c, Canonical(d[u]))) = IF HasLocation(c) THEN 1 ELSE 2
         /\ BeginsWith(SortKey(c, u, Canonical(d[u])),
                       TextPart(c, u, Canonical(d[u])) \o PlacePart(c, Canonical(d[u])))
<1> DEFINE site == Canonical(d[u])
           A == TextPart(c, u, site)
           B == PlacePart(c, site)
           C == <<Collation[site.name], Collation[u]>>
<1>1. /\ u \in DOMAIN d /\ Selects(c, u, d[u])
      /\ u \in DOMAIN Collation /\ site.name \in DOMAIN Collation
      /\ site.city # None => site.city \in DOMAIN Collation
      /\ site.at # None => site.at.lat \in Int /\ site.at.lng \in Int
  BY DEF Matches, IsDirectory, IsSite
<1>2. A \in Seq(Int) /\ Len(A) = IF c.text = None THEN 0 ELSE 1
  BY MatchTierIsANumber DEF TextPart
<1>3. B \in Seq(Int) /\ Len(B) = IF HasLocation(c) THEN 1 ELSE 2
  <2>1. CASE HasLocation(c)
    <3>1. site.at # None /\ c.lat \in Int /\ c.lng \in Int
      BY <1>1, <2>1 DEF Selects, IsWithin, ValidCriteria
    <3>2. Distance(site.at, c.lat, c.lng) \in Int
      BY <1>1, <3>1, DistanceIsANumber
    <3> QED
      BY <2>1, <3>2 DEF PlacePart
  <2>2. CASE ~HasLocation(c)
    <3>1. CityRank(site) \in Seq(Int) /\ Len(CityRank(site)) = 2
      BY <1>1, CollationAssumption DEF CityRank
    <3> QED
      BY <2>2, <3>1 DEF PlacePart
  <2> QED
    BY <2>1, <2>2
<1>4. C \in Seq(Int) /\ Len(C) = 2 /\ C[2] = Collation[u]
  BY <1>1, CollationAssumption
<1>5. SortKey(c, u, site) = A \o B \o C
  BY DEF SortKey, TextPart, PlacePart
<1> HIDE DEF A, B, C, site
<1>6. Len(A) + Len(B) + 2 = KeyLength(c) /\ KeyLength(c) \in Nat
  <2>1. Len(A) + Len(B) + 2 = KeyLength(c)
    BY <1>2, <1>3, Zenon DEF KeyLength
  <2> QED
    BY <1>2, <1>3, <2>1
<1>7. A \o B \in Seq(Int) /\ Len(A \o B) = Len(A) + Len(B)
  BY <1>2, <1>3, PartsOfAKey
<1>8. /\ (A \o B) \o C \in Seq(Int) /\ Len((A \o B) \o C) = Len(A) + Len(B) + 2
      /\ ((A \o B) \o C)[Len(A) + Len(B) + 2] = C[2]
  <2>1. /\ (A \o B) \o C \in Seq(Int) /\ Len((A \o B) \o C) = Len(A \o B) + Len(C)
        /\ \A k \in 1..Len(C) : ((A \o B) \o C)[Len(A \o B) + k] = C[k]
    BY <1>4, <1>7, PartsOfAKey
  <2>2. 2 \in 1..Len(C)
    BY <1>4
  <2> QED
    BY <1>4, <1>7, <2>1, <2>2
<1>9. SortKey(c, u, site) \in [1..KeyLength(c) -> Int]
  <2> DEFINE s == (A \o B) \o C
  <2>1. s \in Seq(Int) /\ Len(s) = KeyLength(c)
    BY <1>6, <1>8
  <2> HIDE DEF s
  <2>2. s \in [1..Len(s) -> Int]
    BY <2>1
  <2> QED
    BY <1>5, <2>1, <2>2 DEF s
<1>10. SortKey(c, u, site)[KeyLength(c)] = Collation[u]
  BY <1>4, <1>5, <1>6, <1>8
<1>11. BeginsWith(SortKey(c, u, site), A \o B)
  <2>1. \A i \in 1..Len(A \o B) : ((A \o B) \o C)[i] = (A \o B)[i]
    BY <1>4, <1>7, PartsOfAKey
  <2> QED
    BY <1>5, <1>7, <2>1 DEF BeginsWith
<1> QED
  BY <1>2, <1>3, <1>6, <1>9, <1>10, <1>11 DEF site, A, B

SearchOrder(d, c) ==
  {e \in Matches(d, c) \X Matches(d, c) :
     Before(SortKey(c, e[1], Canonical(d[e[1]])), SortKey(c, e[2], Canonical(d[e[2]])))}

\* The sort keys tell any two matches apart.
LEMMA SearchOrderIsStrict ==
  ASSUME NEW d, IsDirectory(d), NEW c, ValidCriteria(c)
  PROVE  StrictlyOrders(SearchOrder(d, c), Matches(d, c))
<1> DEFINE M == Matches(d, c)
           key == [u \in M |-> SortKey(c, u, Canonical(d[u]))]
           n == KeyLength(c)
<1>1. IsFiniteSet(M)
  BY FS_Subset DEF Matches, IsDirectory
<1>2. n \in Nat
  BY DEF KeyLength
<1>3. key \in [M -> [1..n -> Int]]
  BY SortKeyIsAKey
<1>4. ASSUME NEW u \in M, NEW v \in M, key[u] = key[v] PROVE u = v
  <2>1. Collation[u] = Collation[v]
    <3>1. \A w \in M : key[w][n] = Collation[w]
      BY SortKeyIsAKey
    <3> QED
      BY <1>4, <3>1
  <2>2. u \in DOMAIN Collation /\ v \in DOMAIN Collation
    BY DEF Matches, IsDirectory
  <2> QED
    BY <2>1, <2>2, CollationAssumption
<1>5. \A u, v \in M : <<u, v>> \in SearchOrder(d, c) <=> Before(key[u], key[v])
  BY DEF SearchOrder
<1> HIDE DEF M, key, n
<1>6. StrictlyOrders(SearchOrder(d, c), M)
  BY <1>1, <1>2, <1>3, <1>4, <1>5, KeysOrder
<1> QED
  BY <1>6 DEF M

\* However the database orders ties, it has no choice: the keys leave one order
\* of the matches (queries.py:189-220).
THEOREM OneOrderOfMatches ==
  ASSUME NEW d, IsDirectory(d), NEW c, ValidCriteria(c)
  PROVE  Orders(d, c) = {InOrder(Matches(d, c), SearchOrder(d, c))}
<1> DEFINE M == Matches(d, c)
           N == Cardinality(M)
           R == SearchOrder(d, c)
           p == InOrder(M, R)
<1>1. /\ StrictlyOrders(R, M)
      /\ N \in Nat /\ p \in [1..N -> M]
      /\ \A i, j \in 1..N : i < j <=> <<p[i], p[j]>> \in R
      /\ \A i, j \in 1..N : p[i] = p[j] => i = j
  BY SearchOrderIsStrict, InOrderSorts
<1>2. \A u, v \in M : <<u, v>> \in R <=>
        Before(SortKey(c, u, Canonical(d[u])), SortKey(c, v, Canonical(d[v])))
  BY DEF SearchOrder
<1>3. p \in Orders(d, c)
  <2>1. p \in SetToSeqs(M)
    <3> HIDE DEF p, M
    <3> QED
      BY <1>1 DEF SetToSeqs
  <2>2. \A i, j \in 1..N : i < j => <<p[j], p[i]>> \notin R
    BY <1>1
  <2>3. DOMAIN p = 1..N /\ \A i \in 1..N : p[i] \in M
    BY <1>1
  <2> HIDE DEF p, R, N
  <2> QED
    BY <1>2, <2>1, <2>2, <2>3 DEF Orders
<1>4. ASSUME NEW o \in Orders(d, c) PROVE o = p
  <2>1. o \in SetToSeqs(M)
    BY DEF Orders
  <2>2. o \in [1..N -> M] /\ \A i, j \in 1..N : o[i] = o[j] => i = j
    BY <2>1 DEF SetToSeqs
  <2>3. \A i, j \in 1..N : i < j => <<o[j], o[i]>> \notin R
    BY <1>2, <2>2 DEF Orders
  <2> HIDE DEF M, R
  <2> QED
    BY <1>1, <2>2, <2>3, SortedIsUnique
<1> QED
  BY <1>3, <1>4
=============================================================================
