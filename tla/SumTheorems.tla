---------------------------- MODULE SumTheorems ----------------------------
(***************************************************************************)
(* What a ledger that is kept beside the data it sums needs: changing one  *)
(* entry changes the sum by as much.  The sums are those of MapThenSumSet. *)
(* Induction is stated over a set of the values for which a fact holds.    *)
(***************************************************************************)
EXTENDS Integers, FiniteSetsExt, FiniteSetTheorems, TLAPS

\* Induction over the subsets of a finite set, by removing an element.
LEMMA InductionOnSubsets ==
  ASSUME NEW S, IsFiniteSet(S), NEW Good,
         \A s \in SUBSET S : (\A x \in s : s \ {x} \in Good) => s \in Good
  PROVE  SUBSET S \subseteq Good
<1> DEFINE Bad == {s \in SUBSET S : s \notin Good}
<1> SUFFICES ASSUME Bad # {} PROVE FALSE
  OBVIOUS
<1>1. FiniteSubsetsOf(S) = SUBSET S
  BY FS_FiniteSubsetsOfFinite
<1>2. IsWellFoundedOn(StrictSubsetOrdering(S), SUBSET S)
  <2>1. IsWellFoundedOn(StrictSubsetOrdering(S), FiniteSubsetsOf(S))
    BY FS_StrictSubsetOrderingWellFounded
  <2> QED BY <1>1, <2>1, Zenon
<1>3. \E s \in Bad : \A t \in Bad : ~ (<<t, s>> \in StrictSubsetOrdering(S))
  <2>1. Bad \subseteq SUBSET S /\ Bad # {}
    OBVIOUS
  <2> HIDE DEF Bad
  <2> QED BY <1>2, <2>1, WFMin
<1>4. PICK s \in Bad : \A t \in Bad : ~ (<<t, s>> \in StrictSubsetOrdering(S))
  BY <1>3
<1>5. ASSUME NEW x \in s PROVE s \ {x} \in Good
  <2> DEFINE t == s \ {x}
  <2>1. t \in SUBSET S /\ t \subseteq s /\ t # s
    OBVIOUS
  <2>2. <<t, s>> \in StrictSubsetOrdering(S)
    BY <2>1 DEF StrictSubsetOrdering
  <2> QED BY <1>4, <2>1, <2>2
<1> QED BY <1>4, <1>5

\* A set of numbers up to n has a least one, and Min is it.
LEMMA MinOfInterval ==
  ASSUME NEW n \in Nat, NEW s \in SUBSET (1..n), s # {}
  PROVE  Min(s) \in s /\ \A y \in s : Min(s) <= y
<1> DEFINE Least(t) == \E x \in t : \A y \in t : x <= y
           Good == {t \in SUBSET (1..n) : t = {} \/ Least(t)}
<1>1. ASSUME NEW t \in SUBSET (1..n), \A x \in t : t \ {x} \in Good
      PROVE  t \in Good
  <2>1. CASE t = {}
    BY <2>1
  <2>2. CASE t # {}
    <3>1. PICK x \in t : TRUE
      BY <2>2
    <3>2. t \ {x} = {} \/ Least(t \ {x})
      BY <1>1
    <3>3. CASE t \ {x} = {}
      <4>1. x \in Int /\ \A y \in t : y = x
        BY <3>3
      <4> QED BY <4>1
    <3>4. CASE Least(t \ {x})
      <4>1. PICK m \in t \ {x} : \A y \in t \ {x} : m <= y
        BY <3>4
      <4>2. m \in Int /\ x \in Int /\ \A y \in t : y \in Int
        OBVIOUS
      <4>3. CASE m <= x
        BY <4>1, <4>3
      <4>4. CASE ~(m <= x)
        <5>1. \A y \in t : x <= y
          BY <4>1, <4>2, <4>4
        <5> QED BY <5>1
      <4> QED BY <4>3, <4>4
    <3> QED BY <3>2, <3>3, <3>4
  <2> QED BY <2>1, <2>2
<1>2. IsFiniteSet(1..n)
  BY FS_Interval
<1>3. s \in Good
  <2> DEFINE all == 1..n
  <2>1. IsFiniteSet(all) /\ \A t \in SUBSET all : (\A x \in t : t \ {x} \in Good) => t \in Good
    BY <1>1, <1>2
  <2>2. s \in SUBSET all
    OBVIOUS
  <2> HIDE DEF Good, all
  <2>3. SUBSET all \subseteq Good
    BY <2>1, InductionOnSubsets
  <2> QED BY <2>2, <2>3
<1> QED BY <1>3 DEF Min

-----------------------------------------------------------------------------

\* The entry MapThenSumSet takes first, and the table it reads the sum from.
First(s) == CHOOSE x \in s : TRUE

IsTable(h, f, S) ==
    h = [s \in SUBSET S |-> IF s = {} THEN 0 ELSE f[First(s)] + h[s \ {First(s)}]]

Table(f, S) == CHOOSE h : IsTable(h, f, S)

\* A table exists: it is built row by row for ever larger subsets.
LEMMA TableExists ==
  ASSUME NEW S, IsFiniteSet(S), NEW f \in [S -> Int]
  PROVE  \E h : IsTable(h, f, S)
<1> DEFINE Row(h, s) == IF s = {} THEN 0 ELSE f[First(s)] + h[s \ {First(s)}]
           UpTo(h, n) == \A s \in SUBSET S : Cardinality(s) <= n => h[s] = Row(h, s)
           Good == {s \in SUBSET S : \E h \in [SUBSET S -> Int] : UpTo(h, Cardinality(s))}
<1>1. \A s \in SUBSET S : Cardinality(s) \in Nat /\ (Cardinality(s) = 0 <=> s = {})
  BY FS_Subset, FS_CardinalityType, FS_EmptySet
<1>2. \A s \in SUBSET S, x \in S :
        x \in s => s \ {x} \in SUBSET S /\ Cardinality(s \ {x}) = Cardinality(s) - 1
  BY FS_Subset, FS_RemoveElement
<1>3. \A s \in SUBSET S : s # {} => First(s) \in s
  BY DEF First
<1>4. ASSUME NEW s \in SUBSET S, \A x \in s : s \ {x} \in Good
      PROVE  s \in Good
  <2>1. CASE s = {}
    <3> DEFINE h == [t \in SUBSET S |-> 0]
    <3>1. \A t \in SUBSET S : Cardinality(t) <= Cardinality(s) => h[t] = Row(h, t)
      BY <1>1, <2>1
    <3>2. h \in [SUBSET S -> Int]
      OBVIOUS
    <3> QED BY <3>1, <3>2
  <2>2. CASE s # {}
    <3>1. PICK x \in s : TRUE
      BY <2>2
    <3>2. Cardinality(s \ {x}) = Cardinality(s) - 1 /\ Cardinality(s) \in Nat
      BY <1>1, <1>2
    <3>3. PICK h \in [SUBSET S -> Int] : UpTo(h, Cardinality(s \ {x}))
      BY <1>4
    <3> DEFINE g == [t \in SUBSET S |-> Row(h, t)]
    <3>4. g \in [SUBSET S -> Int]
      <4>1. \A t \in SUBSET S : Row(h, t) \in Int
        BY <1>2, <1>3
      <4> QED BY <4>1
    <3>5. ASSUME NEW t \in SUBSET S, Cardinality(t) <= Cardinality(s)
          PROVE  g[t] = Row(g, t)
      <4>1. CASE t = {}
        BY <4>1
      <4>2. CASE t # {}
        <5> DEFINE r == t \ {First(t)}
        <5>1. r \in SUBSET S /\ Cardinality(r) = Cardinality(t) - 1
          BY <1>2, <1>3, <4>2
        <5>2. Cardinality(r) <= Cardinality(s \ {x})
          BY <1>1, <3>2, <3>5, <5>1
        <5>3. h[r] = Row(h, r)
          BY <3>3, <5>1, <5>2
        <5>4. g[r] = h[r]
          BY <5>1, <5>3
        <5> QED BY <4>2, <5>4
      <4> QED BY <4>1, <4>2
    <3>6. UpTo(g, Cardinality(s))
      BY <3>5
    <3> HIDE DEF g, UpTo
    <3> QED BY <3>4, <3>6
  <2> QED BY <2>1, <2>2
<1>5. S \in Good
  <2>1. \A s \in SUBSET S : (\A x \in s : s \ {x} \in Good) => s \in Good
    BY <1>4
  <2> HIDE DEF Good
  <2> QED BY <2>1, InductionOnSubsets
<1>6. PICK h \in [SUBSET S -> Int] : UpTo(h, Cardinality(S))
  BY <1>5
<1>7. \A s \in SUBSET S : Cardinality(s) <= Cardinality(S)
  BY FS_Subset
<1>8. \A s \in SUBSET S : h[s] = Row(h, s)
  BY <1>6, <1>7
<1>9. h = [s \in SUBSET S |-> Row(h, s)]
  BY <1>8
<1> QED BY <1>9 DEF IsTable

-----------------------------------------------------------------------------

\* The sum of f over S.
Total(f, S) == Table(f, S)[S]

\* MapThenSumSet is that sum.
LEMMA SumIsTotal ==
  ASSUME NEW S, NEW f
  PROVE  MapThenSumSet(LAMBDA x : f[x], S) = Total(f, S)
BY DEF MapThenSumSet, MapThenFoldSet, Total, Table, IsTable, First

\* The table obeys its recursion, and its entries are integers.
LEMMA TableRows ==
  ASSUME NEW S, IsFiniteSet(S), NEW f \in [S -> Int]
  PROVE  LET h == Table(f, S) IN
         /\ h[{}] = 0
         /\ \A s \in SUBSET S : s # {} =>
              /\ First(s) \in s
              /\ h[s] = f[First(s)] + h[s \ {First(s)}]
         /\ \A s \in SUBSET S : h[s] \in Int
<1> DEFINE h == Table(f, S)
           Good == {s \in SUBSET S : h[s] \in Int}
<1>1. IsTable(h, f, S)
  BY TableExists DEF Table
<1> HIDE DEF h
<1>2. h = [s \in SUBSET S |-> IF s = {} THEN 0 ELSE f[First(s)] + h[s \ {First(s)}]]
  BY <1>1 DEF IsTable
<1>3. h[{}] = 0
  BY <1>2
<1>4. ASSUME NEW s \in SUBSET S, s # {}
      PROVE  First(s) \in s /\ h[s] = f[First(s)] + h[s \ {First(s)}]
  BY <1>2, <1>4 DEF First
<1>5. ASSUME NEW s \in SUBSET S, \A x \in s : s \ {x} \in Good
      PROVE  s \in Good
  <2>1. CASE s = {}
    BY <1>3, <2>1
  <2>2. CASE s # {}
    <3> DEFINE y == First(s)
    <3>1. y \in s /\ h[s] = f[y] + h[s \ {y}]
      BY <1>4, <2>2
    <3> HIDE DEF y
    <3>2. f[y] \in Int /\ h[s \ {y}] \in Int
      BY <1>5, <3>1
    <3> QED BY <3>1, <3>2
  <2> QED BY <2>1, <2>2
<1>6. SUBSET S \subseteq Good
  <2> HIDE DEF Good
  <2> QED BY <1>5, InductionOnSubsets
<1> QED BY <1>3, <1>4, <1>6 DEF h

\* A sum of integers is an integer.
LEMMA TotalType ==
  ASSUME NEW S, IsFiniteSet(S), NEW f \in [S -> Int]
  PROVE  Total(f, S) \in Int
BY TableRows DEF Total

\* The sum of zeros is zero.
LEMMA TotalOfZeros ==
  ASSUME NEW S, IsFiniteSet(S), NEW f \in [S -> Int], \A x \in S : f[x] = 0
  PROVE  Total(f, S) = 0
<1> DEFINE h == Table(f, S)
           Good == {s \in SUBSET S : h[s] = 0}
<1>1. ASSUME NEW s \in SUBSET S, \A x \in s : s \ {x} \in Good
      PROVE  s \in Good
  <2>1. CASE s = {}
    BY <2>1, TableRows
  <2>2. CASE s # {}
    <3> DEFINE y == First(s)
    <3>1. y \in s /\ h[s] = f[y] + h[s \ {y}]
      BY <2>2, TableRows
    <3> HIDE DEF h, y
    <3>2. f[y] = 0 /\ h[s \ {y}] = 0
      BY <1>1, <3>1
    <3> QED BY <3>1, <3>2
  <2> QED BY <2>1, <2>2
<1>2. SUBSET S \subseteq Good
  <2> HIDE DEF Good
  <2> QED BY <1>1, InductionOnSubsets
<1> QED BY <1>2 DEF Total

\* Any entry may be taken out first.
LEMMA TableRemove ==
  ASSUME NEW S, IsFiniteSet(S), NEW f \in [S -> Int]
  PROVE  \A s \in SUBSET S : \A x \in s : Table(f, S)[s] = f[x] + Table(f, S)[s \ {x}]
<1> DEFINE F == Table(f, S)
           Good == {s \in SUBSET S : \A x \in s : F[s] = f[x] + F[s \ {x}]}
<1>1. /\ \A s \in SUBSET S : s # {} => First(s) \in s /\ F[s] = f[First(s)] + F[s \ {First(s)}]
      /\ \A s \in SUBSET S : F[s] \in Int
  BY TableRows
<1> HIDE DEF F
<1>2. ASSUME NEW s \in SUBSET S, \A x \in s : s \ {x} \in Good
      PROVE  s \in Good
  <2> SUFFICES ASSUME NEW x \in s PROVE F[s] = f[x] + F[s \ {x}]
    OBVIOUS
  <2> DEFINE y == First(s)
  <2>1. y \in s /\ F[s] = f[y] + F[s \ {y}]
    BY <1>1
  <2> HIDE DEF y
  <2>2. CASE x = y
    BY <2>1, <2>2
  <2>3. CASE x # y
    <3> DEFINE r == (s \ {y}) \ {x}
    <3>1. F[s \ {y}] = f[x] + F[r]
      BY <1>2, <2>1, <2>3
    <3>2. F[s \ {x}] = f[y] + F[r]
      <4>1. r = (s \ {x}) \ {y}
        OBVIOUS
      <4> HIDE DEF r
      <4> QED BY <1>2, <2>1, <2>3, <4>1
    <3>3. r \in SUBSET S /\ f[x] \in Int /\ f[y] \in Int
      BY <2>1
    <3> HIDE DEF r
    <3>4. F[r] \in Int
      BY <1>1, <3>3
    <3> QED BY <2>1, <3>1, <3>2, <3>3, <3>4
  <2> QED BY <2>2, <2>3
<1>3. SUBSET S \subseteq Good
  <2> HIDE DEF Good
  <2> QED BY <1>2, InductionOnSubsets
<1> QED BY <1>3 DEF F

\* A sum over a part is the sum over the whole of what is zero outside the part.
LEMMA TotalOfPart ==
  ASSUME NEW S, IsFiniteSet(S), NEW T \in SUBSET S, NEW f \in [T -> Int], NEW g \in [S -> Int],
         \A x \in S : g[x] = IF x \in T THEN f[x] ELSE 0
  PROVE  Total(g, S) = Total(f, T)
<1> DEFINE F == Table(f, T)
           G == Table(g, S)
           Good == {s \in SUBSET S : G[s] = F[s \cap T]}
<1>1. IsFiniteSet(T)
  BY FS_Subset
<1>2. /\ F[{}] = 0 /\ \A s \in SUBSET T : F[s] \in Int
      /\ \A s \in SUBSET T : \A x \in s : F[s] = f[x] + F[s \ {x}]
  BY <1>1, TableRows, TableRemove, SMTT(30)
<1>3. /\ G[{}] = 0 /\ \A s \in SUBSET S : G[s] \in Int
      /\ \A s \in SUBSET S : \A x \in s : G[s] = g[x] + G[s \ {x}]
  BY TableRows, TableRemove
<1> HIDE DEF F, G
<1>4. ASSUME NEW s \in SUBSET S, \A x \in s : s \ {x} \in Good
      PROVE  s \in Good
  <2>1. CASE s = {}
    <3>1. s \cap T = {}
      BY <2>1
    <3> QED BY <1>2, <1>3, <2>1, <3>1
  <2>2. CASE s # {}
    <3>1. PICK x \in s : TRUE
      BY <2>2
    <3>2. G[s] = g[x] + G[s \ {x}] /\ G[s \ {x}] = F[(s \ {x}) \cap T]
      BY <1>3, <1>4
    <3>3. CASE x \in T
      <4>1. (s \ {x}) \cap T = (s \cap T) \ {x} /\ s \cap T \in SUBSET T /\ x \in s \cap T
        BY <3>3
      <4>2. F[s \cap T] = f[x] + F[(s \cap T) \ {x}]
        BY <1>2, <4>1
      <4> QED BY <3>2, <3>3, <4>1, <4>2
    <3>4. CASE x \notin T
      <4>1. (s \ {x}) \cap T = s \cap T /\ s \cap T \in SUBSET T
        BY <3>4
      <4>2. F[s \cap T] \in Int
        BY <1>2, <4>1
      <4> QED BY <3>2, <3>4, <4>1, <4>2
    <3> QED BY <3>3, <3>4
  <2> QED BY <2>1, <2>2
<1>5. SUBSET S \subseteq Good
  <2> HIDE DEF Good
  <2> QED BY <1>4, InductionOnSubsets
<1>6. G[S] = F[T]
  <2>1. S \cap T = T /\ S \in Good
    BY <1>5
  <2> QED BY <2>1
<1> QED BY <1>6 DEF Total, F, G

\* Changing one entry changes the sum by as much.
LEMMA TotalChange ==
  ASSUME NEW S, IsFiniteSet(S), NEW f \in [S -> Int], NEW g \in [S -> Int],
         NEW x \in S, \A y \in S \ {x} : g[y] = f[y]
  PROVE  Total(g, S) = Total(f, S) - f[x] + g[x]
<1> DEFINE F == Table(f, S)
           G == Table(g, S)
           Good == {s \in SUBSET S :
                      G[s] = IF x \in s THEN F[s] - f[x] + g[x] ELSE F[s]}
<1>1. ASSUME NEW s \in SUBSET S, \A y \in s : s \ {y} \in Good
      PROVE  s \in Good
  <2>1. CASE s = {}
    BY <2>1, TableRows
  <2>2. CASE s # {}
    <3> DEFINE y == First(s)
               r == s \ {y}
    <3>1. /\ y \in s /\ F[s] = f[y] + F[r] /\ G[s] = g[y] + G[r]
          /\ F[r] \in Int /\ F[s] \in Int
      BY <2>2, TableRows
    <3>2. r \in Good
      BY <1>1, <3>1
    <3> HIDE DEF F, G, y
    <3>3. f[x] \in Int /\ g[x] \in Int /\ f[y] \in Int /\ g[y] \in Int
      BY <3>1
    <3> QED BY <3>1, <3>2, <3>3
  <2> QED BY <2>1, <2>2
<1>2. SUBSET S \subseteq Good
  <2> HIDE DEF Good
  <2> QED BY <1>1, InductionOnSubsets
<1> QED BY <1>2 DEF Total

-----------------------------------------------------------------------------

\* Two finite sets that differ in one element at most differ in size by as much.
LEMMA CountChange ==
  ASSUME NEW S, IsFiniteSet(S), NEW A \in SUBSET S, NEW B \in SUBSET S, NEW x,
         A \ {x} = B \ {x}
  PROVE  /\ Cardinality(A) \in Nat
         /\ Cardinality(B) = Cardinality(A) + (IF x \in B THEN 1 ELSE 0)
                                            - (IF x \in A THEN 1 ELSE 0)
<1>1. /\ IsFiniteSet(A) /\ IsFiniteSet(B)
      /\ Cardinality(A) \in Nat /\ Cardinality(B) \in Nat
  BY FS_Subset, FS_CardinalityType
<1>2. Cardinality(A \ {x}) = Cardinality(A) - (IF x \in A THEN 1 ELSE 0)
  <2>1. Cardinality(A \ {x}) = IF x \in A THEN Cardinality(A) - 1 ELSE Cardinality(A)
    BY <1>1, FS_RemoveElement, Zenon
  <2> QED BY <1>1, <2>1
<1>3. Cardinality(B \ {x}) = Cardinality(B) - (IF x \in B THEN 1 ELSE 0)
  <2>1. Cardinality(B \ {x}) = IF x \in B THEN Cardinality(B) - 1 ELSE Cardinality(B)
    BY <1>1, FS_RemoveElement, Zenon
  <2> QED BY <1>1, <2>1
<1> QED BY <1>1, <1>2, <1>3

\* The smaller of two numbers.
LEMMA MinOfTwo ==
  ASSUME NEW x \in Int, NEW y \in Int
  PROVE  Min({x, y}) = IF x <= y THEN x ELSE y
<1>1. \E z \in {x, y} : \A w \in {x, y} : z <= w
  OBVIOUS
<1>2. Min({x, y}) \in {x, y} /\ \A w \in {x, y} : Min({x, y}) <= w
  BY <1>1 DEF Min
<1> QED BY <1>2
=============================================================================
