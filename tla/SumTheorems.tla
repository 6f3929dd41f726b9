------------------------------ MODULE SumTheorems ------------------------------
(***************************************************************************)
(* Sums of a function over a finite set, SumFunctionOnSet(f, S): what the    *)
(* proofs about balances and totals use of them.                            *)
(*                                                                         *)
(* The induction theorems of the library take the induction hypothesis as    *)
(* an operator.  The proofs here are by a least counterexample instead,      *)
(* which the library's WFMin provides as a set.                             *)
(***************************************************************************)
EXTENDS Functions, FiniteSetTheorems, WellFoundedInduction, TLAPS

\* A set of numbers has a least one.
LEMMA LeastNumber ==
    ASSUME NEW B \in SUBSET Nat, B # {}
    PROVE  \E n \in B : \A m \in B : n <= m
<1>1. PICK n \in B : \A m \in B : ~(<<m, n>> \in OpToRel(<, Nat))
  BY NatLessThanWellFounded, WFMin, Zenon
<1>2. \A m \in B : ~(m < n)
  BY <1>1 DEF OpToRel
<1> QED BY <1>2

\* Of some subsets of a finite set, one contains no other.
LEMMA MinimalSubset ==
    ASSUME NEW S, IsFiniteSet(S), NEW B \in SUBSET SUBSET S, B # {}
    PROVE  \E T \in B : \A U \in B : U \subseteq T => U = T
<1>1. IsWellFoundedOn(StrictSubsetOrdering(S), FiniteSubsetsOf(S)) /\ B \subseteq FiniteSubsetsOf(S)
  BY FS_StrictSubsetOrderingWellFounded, FS_FiniteSubsetsOfFinite
<1>2. PICK T \in B : \A U \in B : ~(<<U, T>> \in StrictSubsetOrdering(S))
  BY <1>1, WFMin
<1> QED BY <1>2 DEF StrictSubsetOrdering

-----------------------------------------------------------------------------
\* The element that a sum takes out of a set, and the function of sums.
Pick(s) == CHOOSE x \in s : TRUE
SumStep(f, g, s) == IF s = {} THEN 0 ELSE f[Pick(s)] + g[s \ {Pick(s)}]
\* The recursive function of which SumFunctionOnSet(f, S) takes the value at S.
IsSum(g, f, S) == g = [s \in SUBSET S |-> SumStep(f, g, s)]
Iter(f, S) == CHOOSE g : IsSum(g, f, S)

\* What the community modules' definition amounts to.
LEMMA SumIsIter == \A f, S : SumFunctionOnSet(f, S) = Iter(f, S)[S]
  BY DEF SumFunctionOnSet, FoldFunctionOnSet, MapThenFoldSet, Iter, IsSum, SumStep, Pick

\* The element that a sum takes next is one of the set.
LEMMA Picked == \A s : s # {} => Pick(s) \in s
  BY DEF Pick

\* The recursive function exists, by induction on the size of the subsets it is
\* defined on.
LEMMA IterExists ==
    ASSUME NEW f, NEW S, IsFiniteSet(S)
    PROVE  IsSum(Iter(f, S), f, S)
<1> DEFINE Small(n) == {s \in SUBSET S : Cardinality(s) <= n}
           Good(n) == \E g : g = [s \in Small(n) |-> SumStep(f, g, s)]
           Bad == {n \in Nat : ~Good(n)}
<1>0. \A s \in SUBSET S : IsFiniteSet(s) /\ Cardinality(s) \in Nat /\ Cardinality(s) <= Cardinality(S)
  BY FS_Subset, FS_CardinalityType
<1>1. \A s \in SUBSET S : s # {} => s \ {Pick(s)} \in SUBSET S /\ Cardinality(s \ {Pick(s)}) = Cardinality(s) - 1
  BY <1>0, Picked, FS_RemoveElement
<1>2. Good(0)
  <2>1. Small(0) = {{}}
    BY <1>0, FS_EmptySet
  <2> DEFINE g == [s \in Small(0) |-> 0]
  <2>2. g = [s \in Small(0) |-> SumStep(f, g, s)]
    BY <2>1 DEF SumStep
  <2> QED BY <2>2
<1>3. ASSUME NEW n \in Nat, Good(n) PROVE Good(n + 1)
  <2>1. PICK g : g = [s \in Small(n) |-> SumStep(f, g, s)]
    BY <1>3
  <2> DEFINE h == [s \in Small(n + 1) |-> SumStep(f, g, s)]
  <2> HIDE DEF Small
  <2>2. \A s \in Small(n) : s \in Small(n + 1) /\ h[s] = g[s]
    <3> SUFFICES ASSUME NEW s \in Small(n) PROVE s \in Small(n + 1) /\ h[s] = g[s]
      OBVIOUS
    <3>1. s \in Small(n + 1)
      BY <1>0 DEF Small
    <3>2. g[s] = SumStep(f, g, s)
      BY <2>1
    <3> QED BY <3>1, <3>2
  <2>3. \A s \in Small(n + 1) : s # {} => s \ {Pick(s)} \in Small(n)
    BY <1>0, <1>1 DEF Small
  <2>4. \A s \in Small(n + 1) : SumStep(f, g, s) = SumStep(f, h, s)
    BY <2>2, <2>3 DEF SumStep
  <2>5. h = [s \in Small(n + 1) |-> SumStep(f, h, s)]
    BY <2>4
  <2> QED BY <2>5
<1>4. Bad = {}
  <2> SUFFICES ASSUME Bad # {} PROVE FALSE
    OBVIOUS
  <2>1. PICK n \in Bad : \A m \in Bad : n <= m
    <3> HIDE DEF Good
    <3> QED BY LeastNumber
  <2> HIDE DEF Good
  <2>2. n \in Nat \ {0} /\ n - 1 \in Nat /\ n - 1 \notin Bad
    BY <2>1, <1>2
  <2>3. Good(n - 1) /\ n = (n - 1) + 1
    BY <2>2
  <2> QED BY <1>3, <2>1, <2>2, <2>3
<1>5. Good(Cardinality(S))
  <2> HIDE DEF Good
  <2> QED BY <1>0, <1>4
<1>6. Small(Cardinality(S)) = SUBSET S
  BY <1>0
<1>7. \E g : IsSum(g, f, S)
  BY <1>5, <1>6 DEF IsSum
<1> QED BY <1>7 DEF Iter

-----------------------------------------------------------------------------
\* What is summed up matters only where it is summed up, and so does the set
\* in which a recursive function of sums was built.
LEMMA IterCoherent ==
    ASSUME NEW f, NEW e, NEW S, NEW T, NEW U, IsFiniteSet(S), IsFiniteSet(T),
           U \subseteq S, U \subseteq T, \A x \in U : f[x] = e[x]
    PROVE  Iter(f, S)[U] = Iter(e, T)[U]
<1> DEFINE g == Iter(f, S)
           h == Iter(e, T)
           B == {s \in SUBSET U : g[s] # h[s]}
<1>0. IsFiniteSet(U) /\ IsSum(g, f, S) /\ IsSum(h, e, T)
  BY IterExists, FS_Subset
<1> HIDE DEF g, h
<1>1. \A s \in SUBSET U : g[s] = SumStep(f, g, s) /\ h[s] = SumStep(e, h, s)
  BY <1>0 DEF IsSum
<1>2. B = {}
  <2> SUFFICES ASSUME B # {} PROVE FALSE
    OBVIOUS
  <2>1. PICK s \in B : \A t \in B : t \subseteq s => t = s
    <3>1. B \in SUBSET SUBSET U
      OBVIOUS
    <3> HIDE DEF B
    <3> QED BY <1>0, <3>1, MinimalSubset
  <2>2. s # {}
    BY <1>1, <2>1 DEF SumStep
  <2>3. Pick(s) \in U /\ s \ {Pick(s)} \in SUBSET U /\ s \ {Pick(s)} # s /\ s \ {Pick(s)} \subseteq s
    BY <2>1, <2>2, Picked
  <2>4. g[s \ {Pick(s)}] = h[s \ {Pick(s)}] /\ f[Pick(s)] = e[Pick(s)]
    BY <2>1, <2>3
  <2>5. g[s] = h[s]
    BY <1>1, <2>1, <2>2, <2>4 DEF SumStep
  <2> QED BY <2>1, <2>5
<1> QED BY <1>2 DEF g, h

\* Functions that agree on a set have the same sum over it.
THEOREM SumEqual ==
    ASSUME NEW f, NEW e, NEW S, IsFiniteSet(S), \A x \in S : f[x] = e[x]
    PROVE  SumFunctionOnSet(f, S) = SumFunctionOnSet(e, S)
<1>1. Iter(f, S)[S] = Iter(e, S)[S]
  BY IterCoherent
<1> QED BY <1>1, SumIsIter

\* The sum of nothing.
THEOREM SumEmpty == \A f : SumFunctionOnSet(f, {}) = 0
<1> SUFFICES ASSUME NEW f PROVE Iter(f, {})[{}] = 0
  BY SumIsIter
<1>1. IsSum(Iter(f, {}), f, {})
  BY IterExists, FS_EmptySet
<1> QED BY <1>1 DEF IsSum, SumStep

\* The recursion, for the sums themselves.
LEMMA SumUnfold ==
    ASSUME NEW f, NEW S, IsFiniteSet(S), S # {}
    PROVE  SumFunctionOnSet(f, S) = f[Pick(S)] + SumFunctionOnSet(f, S \ {Pick(S)})
<1> DEFINE T == S \ {Pick(S)}
<1>1. IsFiniteSet(T) /\ T \subseteq S
  BY FS_RemoveElement
<1>2. Iter(f, S)[S] = f[Pick(S)] + Iter(f, S)[T]
  <2>1. IsSum(Iter(f, S), f, S)
    BY IterExists
  <2> QED BY <2>1 DEF IsSum, SumStep
<1>3. Iter(f, S)[T] = Iter(f, T)[T]
  <2> HIDE DEF T
  <2> QED BY <1>1, IterCoherent
<1> QED BY <1>2, <1>3, SumIsIter

\* A sum of integers is an integer, one of natural numbers a natural number.
THEOREM SumType ==
    ASSUME NEW S, IsFiniteSet(S), NEW f
    PROVE  /\ (\A x \in S : f[x] \in Int) => SumFunctionOnSet(f, S) \in Int
           /\ (\A x \in S : f[x] \in Nat) => SumFunctionOnSet(f, S) \in Nat
<1>1. ASSUME NEW V \in {Int, Nat}, \A x \in S : f[x] \in V PROVE SumFunctionOnSet(f, S) \in V
  <2> DEFINE B == {s \in SUBSET S : SumFunctionOnSet(f, s) \notin V}
  <2>1. B = {}
    <3> SUFFICES ASSUME B # {} PROVE FALSE
      OBVIOUS
    <3>1. PICK s \in B : \A t \in B : t \subseteq s => t = s
      <4>1. B \in SUBSET SUBSET S
        OBVIOUS
      <4> HIDE DEF B
      <4> QED BY <4>1, MinimalSubset
    <3>2. s # {}
      <4>1. SumFunctionOnSet(f, {}) = 0 /\ 0 \in V
        BY SumEmpty
      <4> QED BY <3>1, <4>1
    <3>3. IsFiniteSet(s) /\ Pick(s) \in s
      BY <3>1, <3>2, FS_Subset, Picked
    <3>4. SumFunctionOnSet(f, s \ {Pick(s)}) \in V /\ f[Pick(s)] \in V
      BY <1>1, <3>1, <3>3
    <3>5. SumFunctionOnSet(f, s) = f[Pick(s)] + SumFunctionOnSet(f, s \ {Pick(s)})
      BY <3>2, <3>3, SumUnfold
    <3>6. SumFunctionOnSet(f, s) \in V
      <4>1. \A a, b \in V : a + b \in V
        OBVIOUS
      <4> QED BY <3>4, <3>5, <4>1
    <3> QED BY <3>1, <3>6
  <2> QED BY <2>1
<1> QED BY <1>1

\* The order of summation does not matter: any element can be taken out.
THEOREM SumRemove ==
    ASSUME NEW S, IsFiniteSet(S), NEW f, \A x \in S : f[x] \in Int, NEW y \in S
    PROVE  SumFunctionOnSet(f, S) = f[y] + SumFunctionOnSet(f, S \ {y})
<1> DEFINE Sum(s) == SumFunctionOnSet(f, s)
           B == {s \in SUBSET S : \E z \in s : Sum(s) # f[z] + Sum(s \ {z})}
<1> HIDE DEF Sum
<1>0. \A s \in SUBSET S : IsFiniteSet(s) /\ Sum(s) \in Int
  BY SumType, FS_Subset DEF Sum
<1>1. \A s \in SUBSET S : s # {} => Pick(s) \in s /\ Sum(s) = f[Pick(s)] + Sum(s \ {Pick(s)})
  BY <1>0, SumUnfold, Picked DEF Sum
<1>2. B = {}
  <2> SUFFICES ASSUME B # {} PROVE FALSE
    OBVIOUS
  <2>1. PICK s \in B : \A t \in B : t \subseteq s => t = s
    <3>1. B \in SUBSET SUBSET S
      OBVIOUS
    <3> HIDE DEF B
    <3> QED BY <3>1, MinimalSubset
  <2>2. PICK z \in s : Sum(s) # f[z] + Sum(s \ {z})
    BY <2>1
  <2> DEFINE x == Pick(s)
             r == (s \ {x}) \ {z}
  <2>3. x \in s /\ x # z /\ Sum(s) = f[x] + Sum(s \ {x})
    BY <1>1, <2>1, <2>2
  <2>4. Sum(s \ {x}) = f[z] + Sum(r)
    <3>1. s \ {x} \in SUBSET S /\ s \ {x} \notin B /\ z \in s \ {x}
      BY <2>1, <2>2, <2>3
    <3> QED BY <3>1
  <2>5. Sum(s \ {z}) = f[x] + Sum(r)
    <3>1. s \ {z} \in SUBSET S /\ s \ {z} \notin B /\ x \in s \ {z} /\ (s \ {z}) \ {x} = r
      BY <2>1, <2>2, <2>3
    <3> QED BY <3>1
  <2>6. Sum(r) \in Int /\ f[x] \in Int /\ f[z] \in Int
    BY <1>0, <2>1, <2>2, <2>3
  <2> HIDE DEF x, r
  <2> QED BY <2>2, <2>3, <2>4, <2>5, <2>6
<1> QED BY <1>2 DEF Sum

\* One element more.
THEOREM SumAdd ==
    ASSUME NEW S, IsFiniteSet(S), NEW f, \A x \in S : f[x] \in Int, NEW y, y \notin S, f[y] \in Int
    PROVE  SumFunctionOnSet(f, S \cup {y}) = SumFunctionOnSet(f, S) + f[y]
<1>1. IsFiniteSet(S \cup {y}) /\ (S \cup {y}) \ {y} = S
  BY FS_AddElement
<1>2. SumFunctionOnSet(f, S \cup {y}) = f[y] + SumFunctionOnSet(f, (S \cup {y}) \ {y})
  BY <1>1, SumRemove
<1>3. SumFunctionOnSet(f, S) \in Int
  BY SumType
<1> QED
  <2>1. \A a, b \in Int : a + b = b + a
    OBVIOUS
  <2> QED BY <1>1, <1>2, <1>3, <2>1

\* The same for a function that was changed elsewhere.
THEOREM SumOneMore ==
    ASSUME NEW S, IsFiniteSet(S), NEW f, NEW e, NEW y, y \notin S,
           \A x \in S : f[x] \in Int /\ e[x] = f[x], e[y] \in Int
    PROVE  SumFunctionOnSet(e, S \cup {y}) = SumFunctionOnSet(f, S) + e[y]
<1>1. SumFunctionOnSet(e, S) = SumFunctionOnSet(f, S)
  BY SumEqual
<1>2. \A x \in S : e[x] \in Int
  OBVIOUS
<1> QED BY <1>1, <1>2, SumAdd

-----------------------------------------------------------------------------
(* The points of a member's rows.                                          *)

RowSum(R, m) == SumFunctionOnSet([r \in {q \in R : q.m = m} |-> r.points], {q \in R : q.m = m})

\* One row more is its points more for its member, and nothing for the others.
THEOREM SumOfRows ==
    ASSUME NEW R, IsFiniteSet(R), NEW c, c \notin R, \A r \in R \cup {c} : r.points \in Nat, NEW m
    PROVE  /\ RowSum(R, m) \in Nat
           /\ RowSum(R \cup {c}, m) = IF c.m = m THEN RowSum(R, m) + c.points ELSE RowSum(R, m)
<1> DEFINE S == {q \in R : q.m = m}
           T == {q \in R \cup {c} : q.m = m}
           f == [r \in S |-> r.points]
           e == [r \in T |-> r.points]
<1>1. IsFiniteSet(S) /\ \A x \in S : f[x] \in Nat
  BY FS_Subset
<1>2. SumFunctionOnSet(f, S) \in Nat
  <2> HIDE DEF S, f
  <2> QED BY <1>1, SumType
<1>3. CASE c.m = m
  <2>1. T = S \cup {c} /\ c \notin S
    BY <1>3
  <2>2. \A x \in S : f[x] \in Int /\ e[x] = f[x]
    BY <1>1
  <2>3. e[c] = c.points /\ e[c] \in Int
    BY <1>3
  <2> HIDE DEF S, T, f, e
  <2>4. SumFunctionOnSet(e, S \cup {c}) = SumFunctionOnSet(f, S) + e[c]
    <3>1. SumFunctionOnSet(e, S) = SumFunctionOnSet(f, S)
      BY <1>1, <2>2, SumEqual
    <3>2. IsFiniteSet(S) /\ c \notin S /\ e[c] \in Int /\ \A x \in S : e[x] \in Int
      BY <1>1, <2>1, <2>2, <2>3
    <3>3. SumFunctionOnSet(e, S \cup {c}) = SumFunctionOnSet(e, S) + e[c]
      BY <3>2, SumAdd
    <3> QED BY <3>1, <3>3
  <2>5. SumFunctionOnSet(e, T) = SumFunctionOnSet(f, S) + c.points
    BY <2>1, <2>3, <2>4
  <2> QED BY <1>2, <1>3, <2>5 DEF S, T, f, e, RowSum
<1>4. CASE c.m # m
  <2>1. T = S
    BY <1>4
  <2>2. RowSum(R \cup {c}, m) = RowSum(R, m)
    BY <2>1 DEF RowSum
  <2> QED BY <1>2, <1>4, <2>2 DEF RowSum
<1> QED BY <1>3, <1>4
=============================================================================
