---------------------------- MODULE TotalsProofs ----------------------------
(***************************************************************************)
(* Facts about Total and CeilDiv, for every finite domain and every value. *)
(***************************************************************************)
EXTENDS Totals, FiniteSetTheorems, FunctionTheorems,
        WellFoundedInduction, TLAPS

\* A block of units {x} \X (1 .. n) has n members.
LEMMA BlockCardinality ==
    ASSUME NEW x, NEW n \in Nat
    PROVE  /\ IsFiniteSet({x} \X (1 .. n))
           /\ Cardinality({x} \X (1 .. n)) = n
<1>1. IsFiniteSet({x}) /\ Cardinality({x}) = 1
  BY FS_Singleton
<1>2. IsFiniteSet(1 .. n) /\ Cardinality(1 .. n) = n
  BY FS_Interval
<1>3. /\ IsFiniteSet({x} \X (1 .. n))
      /\ Cardinality({x} \X (1 .. n)) = Cardinality({x}) * Cardinality(1 .. n)
  BY <1>1, <1>2, FS_Product, Zenon
<1> QED
  BY <1>1, <1>2, <1>3

\* The units of a function into Nat over a finite domain are finitely many,
\* so its total is a natural number.
LEMMA TotalType ==
    ASSUME NEW D, IsFiniteSet(D), NEW v \in [D -> Nat]
    PROVE  IsFiniteSet(Units(v)) /\ Total(v) \in Nat
<1> DEFINE B == [x \in D |-> {x} \X (1 .. v[x])]
           T == { {x} \X (1 .. v[x]) : x \in D }
<1>1. B \in Surjection(D, T)
  BY DEF Surjection
<1>2. IsFiniteSet(T)
  BY <1>1, FS_Surjection
<1>3. ASSUME NEW b \in T PROVE IsFiniteSet(b)
  <2>1. PICK x \in D : b = {x} \X (1 .. v[x])
    OBVIOUS
  <2>2. v[x] \in Nat
    OBVIOUS
  <2> QED
    BY <2>1, <2>2, BlockCardinality
<1>4. IsFiniteSet(UNION T)
  BY <1>2, <1>3, FS_UNION
<1>5. Units(v) = UNION T
  BY DEF Units
<1> QED
  BY <1>4, <1>5, FS_CardinalityType DEF Total

\* A pair is a unit of v exactly when its number is within v's value.
LEMMA UnitsMember ==
    ASSUME NEW D, NEW v \in [D -> Nat], NEW p
    PROVE  p \in Units(v) <=>
             \E x \in D : \E i \in 1 .. v[x] : p = <<x, i>>
  BY DEF Units

\* A pointwise smaller function has a smaller total.
LEMMA TotalMonotone ==
    ASSUME NEW D, IsFiniteSet(D), NEW u \in [D -> Nat], NEW v \in [D -> Nat],
           \A x \in D : u[x] <= v[x]
    PROVE  Total(u) <= Total(v)
<1>1. Units(u) \subseteq Units(v)
  <2> SUFFICES ASSUME NEW p \in Units(u) PROVE p \in Units(v)
    OBVIOUS
  <2>0. PICK x \in D : \E i \in 1 .. u[x] : p = <<x, i>>
    BY UnitsMember
  <2>1. PICK i \in 1 .. u[x] : p = <<x, i>>
    BY <2>0
  <2>2. i \in 1 .. v[x]
    OBVIOUS
  <2> QED
    BY <2>1, <2>2, UnitsMember
<1> QED
  BY <1>1, TotalType, FS_Subset DEF Total

\* Changing one value changes the total by as much.
LEMMA TotalZeroed ==
    ASSUME NEW D, IsFiniteSet(D), NEW v \in [D -> Nat], NEW d \in D
    PROVE  Total(v) = Total([v EXCEPT ![d] = 0]) + v[d]
<1> DEFINE z == [v EXCEPT ![d] = 0]
           blk == {d} \X (1 .. v[d])
<1>1. z \in [D -> Nat]
  OBVIOUS
<1>2. Units(v) = Units(z) \cup blk
  <2>1. ASSUME NEW p \in Units(v) PROVE p \in Units(z) \cup blk
    <3>0. PICK x \in D : \E i \in 1 .. v[x] : p = <<x, i>>
      BY UnitsMember
    <3>1. PICK i \in 1 .. v[x] : p = <<x, i>>
      BY <3>0
    <3>2. CASE x = d
      BY <3>1, <3>2
    <3>3. CASE x # d
      <4>1. i \in 1 .. z[x]
        BY <3>3
      <4> QED
        BY <1>1, <3>1, <4>1, UnitsMember
    <3> QED
      BY <3>2, <3>3
  <2>2. ASSUME NEW p, p \in Units(z) PROVE p \in Units(v)
    <3>0. PICK x \in D : \E i \in 1 .. z[x] : p = <<x, i>>
      <4> HIDE DEF z
      <4> QED
        BY <1>1, <2>2, UnitsMember
    <3>1. PICK i \in 1 .. z[x] : p = <<x, i>>
      BY <3>0
    <3>2. i \in 1 .. v[x]
      OBVIOUS
    <3> QED
      BY <3>1, <3>2, UnitsMember
  <2>3. ASSUME NEW p \in blk PROVE p \in Units(v)
    BY UnitsMember
  <2> QED
    BY <2>1, <2>2, <2>3
<1>3. Units(z) \cap blk = {}
  <2> SUFFICES ASSUME NEW p \in Units(z), p \in blk PROVE FALSE
    OBVIOUS
  <2>0. PICK x \in D : \E i \in 1 .. z[x] : p = <<x, i>>
    <3> HIDE DEF z
    <3> QED
      BY <1>1, UnitsMember
  <2>1. PICK i \in 1 .. z[x] : p = <<x, i>>
    BY <2>0
  <2>2. x = d
    BY <2>1
  <2> QED
    BY <2>1, <2>2
<1>4. IsFiniteSet(Units(z)) /\ IsFiniteSet(blk) /\ Cardinality(blk) = v[d]
  BY <1>1, TotalType, BlockCardinality
<1>5. Cardinality(Units(z) \cap blk) = 0
  BY <1>3, FS_EmptySet
<1>6. Cardinality(Units(z)) \in Nat
  BY <1>4, FS_CardinalityType
<1>7. Cardinality(Units(z) \cup blk)
        = Cardinality(Units(z)) + Cardinality(blk) - Cardinality(Units(z) \cap blk)
  BY <1>4, FS_Union
<1> QED
  BY <1>2, <1>4, <1>5, <1>6, <1>7 DEF Total

LEMMA TotalUpdate ==
    ASSUME NEW D, IsFiniteSet(D), NEW v \in [D -> Nat], NEW d \in D, NEW n \in Nat
    PROVE  Total([v EXCEPT ![d] = n]) = Total(v) - v[d] + n
<1> DEFINE w == [v EXCEPT ![d] = n]
           z == [v EXCEPT ![d] = 0]
<1>1. w \in [D -> Nat] /\ z \in [D -> Nat] /\ w[d] = n
  OBVIOUS
<1>2. [w EXCEPT ![d] = 0] = z
  OBVIOUS
<1>3. Total(v) = Total(z) + v[d]
  BY TotalZeroed
<1>4. Total(w) = Total(z) + n
  BY <1>1, <1>2, TotalZeroed
<1>5. Total(z) \in Nat
  BY <1>1, TotalType
<1> HIDE DEF w, z
<1>6. v[d] \in Nat
  OBVIOUS
<1> QED
  BY <1>3, <1>4, <1>5, <1>6 DEF w

\* Two functions, one below the other, differ in total by at least as much as
\* they do at any one point.
LEMMA TotalGap ==
    ASSUME NEW D, IsFiniteSet(D), NEW u \in [D -> Nat], NEW v \in [D -> Nat],
           \A x \in D : u[x] <= v[x], NEW d \in D
    PROVE  v[d] - u[d] <= Total(v) - Total(u)
<1> DEFINE uz == [u EXCEPT ![d] = 0]
           vz == [v EXCEPT ![d] = 0]
<1>1. uz \in [D -> Nat] /\ vz \in [D -> Nat]
  OBVIOUS
<1>2. \A x \in D : uz[x] <= vz[x]
  OBVIOUS
<1>3. Total(uz) <= Total(vz)
  <2> HIDE DEF uz, vz
  <2> QED
    BY <1>1, <1>2, TotalMonotone
<1>4. Total(u) = Total(uz) + u[d] /\ Total(v) = Total(vz) + v[d]
  BY TotalZeroed
<1>5. Total(uz) \in Nat /\ Total(vz) \in Nat
  <2> HIDE DEF uz, vz
  <2> QED
    BY <1>1, TotalType
<1> HIDE DEF uz, vz
<1>6. u[d] \in Nat /\ v[d] \in Nat
  OBVIOUS
<1> QED
  BY <1>3, <1>4, <1>5, <1>6

\* A function that is zero everywhere has total zero.
LEMMA TotalZero ==
    ASSUME NEW D, NEW v \in [D -> Nat], \A x \in D : v[x] = 0
    PROVE  Total(v) = 0
<1>1. Units(v) = {}
  <2> SUFFICES ASSUME NEW p \in Units(v) PROVE FALSE
    OBVIOUS
  <2>0. PICK x \in D : \E i \in 1 .. v[x] : p = <<x, i>>
    BY UnitsMember
  <2>1. PICK i \in 1 .. v[x] : p = <<x, i>>
    BY <2>0
  <2> QED
    BY <2>1
<1> QED
  BY <1>1, FS_EmptySet DEF Total

\* The quotient rounded up.
LEMMA CeilDivBounds ==
    ASSUME NEW a \in Int, NEW b \in Nat \ {0}
    PROVE  /\ CeilDiv(a, b) \in Int
           /\ a <= b * CeilDiv(a, b)
           /\ b * (CeilDiv(a, b) - 1) < a
  BY DEF CeilDiv

\* A set of naturals with a member has a least one.
LEMMA LeastExists ==
    ASSUME NEW S \in SUBSET Nat, S # {}
    PROVE  \E r \in S : \A s \in S : r <= s
<1> DEFINE T == { 1 .. s : s \in S }
<1>1. T \subseteq FiniteSubsetsOf(Nat) /\ T # {}
  <2>1. ASSUME NEW t \in T PROVE t \in FiniteSubsetsOf(Nat)
    <3>1. PICK s \in S : t = 1 .. s
      OBVIOUS
    <3>2. s \in Nat
      OBVIOUS
    <3> QED
      BY <3>1, <3>2, FS_Interval DEF FiniteSubsetsOf
  <2> QED
    BY <2>1
<1>2. PICK x \in T : \A y \in T : ~ (<<y, x>> \in StrictSubsetOrdering(Nat))
  <2> HIDE DEF T
  <2> QED
    BY <1>1, FS_StrictSubsetOrderingWellFounded, WFMin
<1>3. PICK r \in S : x = 1 .. r
  OBVIOUS
<1>4. ASSUME NEW s \in S PROVE r <= s
  <2>1. r \in Nat /\ s \in Nat
    OBVIOUS
  <2>2. ~ (<<1 .. s, 1 .. r>> \in StrictSubsetOrdering(Nat))
    BY <1>2, <1>3
  <2>3. ASSUME s < r PROVE 1 .. s \subseteq 1 .. r /\ 1 .. s # 1 .. r
    <3>1. r \in 1 .. r /\ r \notin 1 .. s
      BY <2>1, <2>3
    <3>2. 1 .. s \subseteq 1 .. r
      BY <2>1, <2>3
    <3> QED
      BY <3>1, <3>2
  <2>4. 1 .. s \subseteq Nat /\ 1 .. r \subseteq Nat
    BY <2>1
  <2> QED
    BY <2>1, <2>2, <2>3, <2>4 DEF StrictSubsetOrdering
<1> QED
  BY <1>4

\* The product of naturals is monotone.
LEMMA ProductMonotone ==
    ASSUME NEW a \in Nat, NEW b \in Nat, NEW m \in Nat, NEW n \in Nat,
           a <= b, m <= n
    PROVE  a * m \in Nat /\ a * m <= b * n
<1>1. PICK i \in Nat : b = a + i
  <2>1. b - a \in Nat /\ b = a + (b - a)
    OBVIOUS
  <2> QED
    BY <2>1
<1>2. PICK j \in Nat : n = m + j
  <2>1. n - m \in Nat /\ n = m + (n - m)
    OBVIOUS
  <2> QED
    BY <2>1
<1>3. b * n = a * m + a * j + i * m + i * j
  BY <1>1, <1>2
<1>4. a * m \in Nat /\ a * j \in Nat /\ i * m \in Nat /\ i * j \in Nat
  OBVIOUS
<1> QED
  BY <1>3, <1>4
=============================================================================
