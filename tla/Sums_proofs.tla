------------------------------ MODULE Sums_proofs ------------------------------
(***************************************************************************)
(* Induction over natural numbers and over finite sets, and what follows   *)
(* for SumOver.  The property an induction is about is given as the set of *)
(* what has it; a smallest counterexample comes from the library's fact    *)
(* that well-founded relations have minimal elements.                      *)
(***************************************************************************)
EXTENDS Sums, FiniteSetTheorems, WellFoundedInduction, TLAPS

\* Induction over natural numbers.
LEMMA NatInduct ==
    ASSUME NEW Good, 0 \in Good, \A n \in Nat : n \in Good => n + 1 \in Good
    PROVE  Nat \subseteq Good
<1>1. SUFFICES ASSUME NEW m \in Nat, m \notin Good PROVE FALSE
  OBVIOUS
<1> DEFINE Bad == {n \in Nat : n \notin Good}
           R == OpToRel(<, Nat)
<1>2. Bad # {} /\ Bad \subseteq Nat
  BY <1>1
<1>3. IsWellFoundedOn(R, Nat)
  BY NatLessThanWellFounded
<1> HIDE DEF Bad, R
<1>4. PICK n \in Bad : \A k \in Bad : ~ (<<k, n>> \in R)
  BY <1>2, <1>3, WFMin
<1>5. n \in Nat /\ n \notin Good
  BY <1>4 DEF Bad
<1>6. n # 0 /\ n - 1 \in Nat /\ n - 1 + 1 = n
  BY <1>5
<1>7. n - 1 \in Good
  <2>1. SUFFICES ASSUME n - 1 \notin Good PROVE FALSE
    OBVIOUS
  <2>2. n - 1 \in Bad
    BY <1>6, <2>1 DEF Bad
  <2>3. <<n - 1, n>> \in R
    BY <1>5, <1>6 DEF R, OpToRel
  <2> QED BY <1>4, <2>2, <2>3
<1> QED BY <1>5, <1>6, <1>7

\* Induction over the subsets of a finite set, from all smaller ones.
LEMMA SubsetInduct ==
    ASSUME NEW U, IsFiniteSet(U), NEW Good,
           \A S \in SUBSET U : (\A R \in SUBSET S : R # S => R \in Good) => S \in Good
    PROVE  \A S \in SUBSET U : S \in Good
<1>1. SUFFICES ASSUME NEW S0 \in SUBSET U, S0 \notin Good PROVE FALSE
  OBVIOUS
<1> DEFINE Bad == {S \in SUBSET U : S \notin Good}
<1>2. Bad # {} /\ Bad \subseteq SUBSET U
  BY <1>1
<1>3. IsWellFoundedOn(StrictSubsetOrdering(U), SUBSET U)
  <2>1. FiniteSubsetsOf(U) = SUBSET U
    BY FS_FiniteSubsetsOfFinite
  <2>2. IsWellFoundedOn(StrictSubsetOrdering(U), FiniteSubsetsOf(U))
    BY FS_StrictSubsetOrderingWellFounded
  <2> QED BY <2>1, <2>2
<1> HIDE DEF Bad
<1>4. PICK S \in Bad : \A R \in Bad : ~ (<<R, S>> \in StrictSubsetOrdering(U))
  BY <1>2, <1>3, WFMin
<1>5. S \in SUBSET U /\ S \notin Good
  BY <1>4 DEF Bad
<1>6. ASSUME NEW R \in SUBSET S, R # S PROVE R \in Good
  <2>1. SUFFICES ASSUME R \notin Good PROVE FALSE
    OBVIOUS
  <2>2. R \in Bad
    BY <1>5, <2>1 DEF Bad
  <2>3. <<R, S>> \in StrictSubsetOrdering(U)
    BY <1>5, <1>6 DEF StrictSubsetOrdering
  <2> QED BY <1>4, <2>2, <2>3
<1> QED BY <1>5, <1>6

\* Induction over the subsets of a finite set, by taking an element away.
LEMMA SetInduct ==
    ASSUME NEW U, IsFiniteSet(U), NEW Good,
           \A S \in SUBSET U : (\A x \in S : S \ {x} \in Good) => S \in Good
    PROVE  \A S \in SUBSET U : S \in Good
<1>1. ASSUME NEW S \in SUBSET U, \A R \in SUBSET S : R # S => R \in Good
      PROVE  S \in Good
  <2>1. \A x \in S : S \ {x} \in SUBSET S /\ S \ {x} # S
    OBVIOUS
  <2> QED BY <1>1, <2>1
<1> QED BY <1>1, SubsetInduct
-------------------------------------------------------------------------------
\* The element that the library's folds take next.
NextOf(s) == CHOOSE x \in s : TRUE

\* What a fold for SumOver(f, S) is to satisfy on the sets in D.
SumsUp(g, f, D) ==
    g = [s \in D |-> IF s = {} THEN 0 ELSE f[NextOf(s)] + g[s \ {NextOf(s)}]]

\* The fold of the library is one that sums up, if there is one.
LEMMA SumIsChosen ==
    ASSUME NEW f, NEW S
    PROVE  SumOver(f, S) = (CHOOSE g : SumsUp(g, f, SUBSET S))[S]
  BY DEF SumOver, MapThenSumSet, MapThenFoldSet, SumsUp, NextOf

LEMMA SumsUpAt ==
    ASSUME NEW g, NEW f, NEW D, SumsUp(g, f, D), NEW s \in D
    PROVE  g[s] = IF s = {} THEN 0 ELSE f[NextOf(s)] + g[s \ {NextOf(s)}]
  BY DEF SumsUp

LEMMA SumExists ==
    ASSUME NEW f, NEW S, IsFiniteSet(S)
    PROVE  \E g : SumsUp(g, f, SUBSET S)
<1> DEFINE Small(n) == {s \in SUBSET S : Cardinality(s) <= n}
           Good == {n \in Nat : \E g : SumsUp(g, f, Small(n))}
<1>1. \A s \in SUBSET S : IsFiniteSet(s) /\ Cardinality(s) \in Nat
  BY FS_Subset, FS_CardinalityType
<1>2. 0 \in Good
  <2>1. \A s \in Small(0) : s = {}
    BY <1>1, FS_EmptySet
  <2>2. SumsUp([s \in Small(0) |-> 0], f, Small(0))
    BY <2>1 DEF SumsUp
  <2> QED BY <2>2
<1>3. ASSUME NEW n \in Nat, n \in Good PROVE n + 1 \in Good
  <2>1. PICK g : SumsUp(g, f, Small(n))
    BY <1>3
  <2> DEFINE step(s) == IF s = {} THEN 0 ELSE f[NextOf(s)] + g[s \ {NextOf(s)}]
             h == [s \in Small(n + 1) |-> step(s)]
  <2>2. ASSUME NEW s \in Small(n + 1), s # {}
        PROVE  s \ {NextOf(s)} \in Small(n)
    <3>1. NextOf(s) \in s
      BY <2>2 DEF NextOf
    <3>2. Cardinality(s \ {NextOf(s)}) = Cardinality(s) - 1
      BY <1>1, <2>2, <3>1, FS_RemoveElement
    <3> QED BY <1>1, <2>2, <3>2
  <2>3. ASSUME NEW s \in Small(n) PROVE s \in Small(n + 1) /\ h[s] = g[s]
    <3>1. Cardinality(s) \in Nat /\ Cardinality(s) <= n
      BY <1>1
    <3>2. s \in Small(n + 1)
      BY <3>1
    <3>3. g[s] = step(s)
      <4> HIDE DEF Small
      <4> QED BY <2>1, SumsUpAt
    <3> QED BY <3>2, <3>3
  <2>4. \A s \in Small(n) : h[s] = g[s]
    BY <2>3
  <2>5. \A s \in Small(n + 1) :
           step(s) = IF s = {} THEN 0 ELSE f[NextOf(s)] + h[s \ {NextOf(s)}]
    BY <2>2, <2>4
  <2>6. SumsUp(h, f, Small(n + 1))
    BY <2>5 DEF SumsUp
  <2>7. \E k : SumsUp(k, f, Small(n + 1))
    <3> HIDE DEF h, Small
    <3> QED BY <2>6
  <2> HIDE DEF Small
  <2> QED BY <2>7
<1>4. Nat \subseteq Good
  <2> HIDE DEF Good
  <2> QED BY <1>2, <1>3, NatInduct
<1>5. Cardinality(S) \in Good
  BY <1>1, <1>4
<1>6. Small(Cardinality(S)) = SUBSET S
  BY FS_Subset
<1> QED BY <1>5, <1>6

\* Two folds agree wherever both are defined.
LEMMA SumsAgree ==
    ASSUME NEW f, NEW S, NEW T, NEW g, NEW h,
           IsFiniteSet(S), T \subseteq S,
           SumsUp(g, f, SUBSET S), SumsUp(h, f, SUBSET T)
    PROVE  \A s \in SUBSET T : g[s] = h[s]
<1> DEFINE Good == {s \in SUBSET T : g[s] = h[s]}
<1>1. IsFiniteSet(T)
  BY FS_Subset
<1>2. ASSUME NEW s \in SUBSET T, \A x \in s : s \ {x} \in Good PROVE s \in Good
  <2>1. s # {} => NextOf(s) \in s
    BY DEF NextOf
  <2>2. /\ g[s] = IF s = {} THEN 0 ELSE f[NextOf(s)] + g[s \ {NextOf(s)}]
        /\ h[s] = IF s = {} THEN 0 ELSE f[NextOf(s)] + h[s \ {NextOf(s)}]
    BY DEF SumsUp
  <2> QED BY <1>2, <2>1, <2>2
<1> HIDE DEF Good
<1>3. \A s \in SUBSET T : s \in Good
  BY <1>1, <1>2, SetInduct
<1> QED BY <1>3 DEF Good

\* The fold for a set gives the sums over its subsets.
LEMMA SumOverSubset ==
    ASSUME NEW f, NEW S, IsFiniteSet(S), NEW T \in SUBSET S
    PROVE  (CHOOSE g : SumsUp(g, f, SUBSET S))[T] = SumOver(f, T)
<1> DEFINE g == CHOOSE g : SumsUp(g, f, SUBSET S)
           h == CHOOSE h : SumsUp(h, f, SUBSET T)
<1>1. IsFiniteSet(T)
  BY FS_Subset
<1>2. SumsUp(g, f, SUBSET S) /\ SumsUp(h, f, SUBSET T)
  BY <1>1, SumExists
<1>3. SumOver(f, T) = h[T]
  BY SumIsChosen
<1> HIDE DEF g, h
<1>4. T \subseteq S
  OBVIOUS
<1>5. T \in SUBSET T
  OBVIOUS
<1>6. g[T] = h[T]
  BY <1>2, <1>4, <1>5, SumsAgree
<1> QED BY <1>3, <1>6 DEF g
-------------------------------------------------------------------------------
LEMMA SumOfNone ==
    ASSUME NEW f
    PROVE  SumOver(f, {}) = 0
<1> DEFINE g == CHOOSE g : SumsUp(g, f, SUBSET {})
<1>1. IsFiniteSet({})
  BY FS_EmptySet
<1>2. SumsUp(g, f, SUBSET {})
  BY <1>1, SumExists
<1>3. SumOver(f, {}) = g[{}]
  BY SumIsChosen
<1> HIDE DEF g
<1>4. {} \in SUBSET {}
  OBVIOUS
<1>5. g[{}] = 0
  BY <1>2, <1>4, SumsUpAt
<1> QED BY <1>3, <1>5

\* The sum over a set that is not empty, by the element the fold takes first.
LEMMA SumOfNext ==
    ASSUME NEW f, NEW S, IsFiniteSet(S), S # {}
    PROVE  /\ NextOf(S) \in S
           /\ SumOver(f, S) = f[NextOf(S)] + SumOver(f, S \ {NextOf(S)})
<1> DEFINE g == CHOOSE g : SumsUp(g, f, SUBSET S)
           T == S \ {NextOf(S)}
<1>1. SumsUp(g, f, SUBSET S)
  BY SumExists
<1>2. NextOf(S) \in S
  BY DEF NextOf
<1>3. SumOver(f, S) = g[S]
  BY SumIsChosen
<1>4. g[T] = SumOver(f, T)
  BY SumOverSubset
<1> HIDE DEF g
<1>5. g[S] = f[NextOf(S)] + g[T]
  BY <1>1, SumsUpAt
<1> QED BY <1>2, <1>3, <1>4, <1>5

\* Integers add up to an integer, natural numbers to a natural number.
LEMMA SumIsInt ==
    ASSUME NEW f, NEW S, IsFiniteSet(S), \A x \in S : f[x] \in Int
    PROVE  SumOver(f, S) \in Int
<1> DEFINE Good == {s \in SUBSET S : SumOver(f, s) \in Int}
<1>1. ASSUME NEW s \in SUBSET S, \A x \in s : s \ {x} \in Good PROVE s \in Good
  <2>1. CASE s = {}
    BY <2>1, SumOfNone
  <2>2. CASE s # {}
    <3>1. /\ NextOf(s) \in s
          /\ SumOver(f, s) = f[NextOf(s)] + SumOver(f, s \ {NextOf(s)})
      BY <2>2, FS_Subset, SumOfNext
    <3>2. f[NextOf(s)] \in Int /\ SumOver(f, s \ {NextOf(s)}) \in Int
      BY <1>1, <3>1
    <3> QED BY <3>1, <3>2
  <2> QED BY <2>1, <2>2
<1> HIDE DEF Good
<1>2. \A s \in SUBSET S : s \in Good
  BY <1>1, SetInduct
<1> QED BY <1>2 DEF Good

LEMMA SumIsNat ==
    ASSUME NEW f, NEW S, IsFiniteSet(S), \A x \in S : f[x] \in Nat
    PROVE  SumOver(f, S) \in Nat
<1> DEFINE Good == {s \in SUBSET S : SumOver(f, s) \in Nat}
<1>1. ASSUME NEW s \in SUBSET S, \A x \in s : s \ {x} \in Good PROVE s \in Good
  <2>1. CASE s = {}
    BY <2>1, SumOfNone
  <2>2. CASE s # {}
    <3>1. /\ NextOf(s) \in s
          /\ SumOver(f, s) = f[NextOf(s)] + SumOver(f, s \ {NextOf(s)})
      BY <2>2, FS_Subset, SumOfNext
    <3>2. f[NextOf(s)] \in Nat /\ SumOver(f, s \ {NextOf(s)}) \in Nat
      BY <1>1, <3>1
    <3> QED BY <3>1, <3>2
  <2> QED BY <2>1, <2>2
<1> HIDE DEF Good
<1>2. \A s \in SUBSET S : s \in Good
  BY <1>1, SetInduct
<1> QED BY <1>2 DEF Good

\* The elements may be taken in any order.
LEMMA SumStep ==
    ASSUME NEW f, NEW S, IsFiniteSet(S), \A x \in S : f[x] \in Int, NEW y \in S
    PROVE  SumOver(f, S) = f[y] + SumOver(f, S \ {y})
<1> DEFINE Good == {s \in SUBSET S :
                       \A z \in s : SumOver(f, s) = f[z] + SumOver(f, s \ {z})}
<1>1. ASSUME NEW s \in SUBSET S, \A x \in s : s \ {x} \in Good PROVE s \in Good
  <2>1. SUFFICES ASSUME NEW z \in s
                 PROVE  SumOver(f, s) = f[z] + SumOver(f, s \ {z})
    OBVIOUS
  <2> DEFINE x == NextOf(s)
  <2>2. x \in s /\ SumOver(f, s) = f[x] + SumOver(f, s \ {x})
    BY FS_Subset, SumOfNext
  <2> HIDE DEF x
  <2>3. CASE z = x
    BY <2>2, <2>3
  <2>4. CASE z # x
    <3>1. /\ z \in s \ {x} /\ x \in s \ {z}
          /\ s \ {x} \in Good /\ s \ {z} \in Good
      BY <1>1, <2>2, <2>4
    <3>2. (s \ {x}) \ {z} = (s \ {z}) \ {x}
      OBVIOUS
    <3>3. /\ SumOver(f, s \ {x}) = f[z] + SumOver(f, (s \ {x}) \ {z})
          /\ SumOver(f, s \ {z}) = f[x] + SumOver(f, (s \ {x}) \ {z})
      BY <3>1, <3>2
    <3>4. f[x] \in Int /\ f[z] \in Int /\ SumOver(f, (s \ {x}) \ {z}) \in Int
      <4>1. IsFiniteSet((s \ {x}) \ {z}) /\ (s \ {x}) \ {z} \subseteq S
        BY FS_Subset
      <4> QED BY <2>2, <4>1, SumIsInt
    <3> HIDE DEF Good
    <3> QED BY <2>2, <3>3, <3>4
  <2> QED BY <2>3, <2>4
<1> HIDE DEF Good
<1>2. \A s \in SUBSET S : s \in Good
  BY <1>1, SetInduct
<1> QED BY <1>2 DEF Good

\* An element more adds its value.
LEMMA SumWith ==
    ASSUME NEW f, NEW S, IsFiniteSet(S), NEW y, y \notin S,
           \A x \in S \cup {y} : f[x] \in Int
    PROVE  SumOver(f, S \cup {y}) = f[y] + SumOver(f, S)
<1>1. (S \cup {y}) \ {y} = S /\ y \in S \cup {y}
  OBVIOUS
<1>2. IsFiniteSet(S \cup {y})
  BY FS_AddElement
<1> QED BY <1>1, <1>2, SumStep

\* Functions that agree on a set have the same sum over it.
LEMMA SumOfSame ==
    ASSUME NEW f, NEW g, NEW S, IsFiniteSet(S), \A x \in S : f[x] = g[x]
    PROVE  SumOver(f, S) = SumOver(g, S)
<1> DEFINE Good == {s \in SUBSET S : SumOver(f, s) = SumOver(g, s)}
<1>1. ASSUME NEW s \in SUBSET S, \A x \in s : s \ {x} \in Good PROVE s \in Good
  <2>1. CASE s = {}
    BY <2>1, SumOfNone
  <2>2. CASE s # {}
    <3>1. IsFiniteSet(s)
      BY FS_Subset
    <3>2. /\ NextOf(s) \in s
          /\ SumOver(f, s) = f[NextOf(s)] + SumOver(f, s \ {NextOf(s)})
          /\ SumOver(g, s) = g[NextOf(s)] + SumOver(g, s \ {NextOf(s)})
      BY <2>2, <3>1, SumOfNext
    <3>3. f[NextOf(s)] = g[NextOf(s)] /\ s \ {NextOf(s)} \in Good
      BY <1>1, <3>2
    <3> QED BY <3>2, <3>3
  <2> QED BY <2>1, <2>2
<1> HIDE DEF Good
<1>2. \A s \in SUBSET S : s \in Good
  BY <1>1, SetInduct
<1> QED BY <1>2 DEF Good

\* The sum of two functions has the sum of their sums.
LEMMA SumOfPlus ==
    ASSUME NEW f, NEW g, NEW h, NEW S, IsFiniteSet(S),
           \A x \in S : g[x] \in Int /\ h[x] \in Int /\ f[x] = g[x] + h[x]
    PROVE  SumOver(f, S) = SumOver(g, S) + SumOver(h, S)
<1> DEFINE Good == {s \in SUBSET S : SumOver(f, s) = SumOver(g, s) + SumOver(h, s)}
<1>1. ASSUME NEW s \in SUBSET S, \A x \in s : s \ {x} \in Good PROVE s \in Good
  <2>1. CASE s = {}
    BY <2>1, SumOfNone
  <2>2. CASE s # {}
    <3> DEFINE x == NextOf(s)
               r == s \ {x}
    <3>1. IsFiniteSet(s) /\ IsFiniteSet(r)
      BY FS_Subset
    <3>2. /\ x \in s
          /\ SumOver(f, s) = f[x] + SumOver(f, r)
          /\ SumOver(g, s) = g[x] + SumOver(g, r)
          /\ SumOver(h, s) = h[x] + SumOver(h, r)
      BY <2>2, <3>1, SumOfNext
    <3>3. /\ f[x] = g[x] + h[x]
          /\ SumOver(f, r) = SumOver(g, r) + SumOver(h, r)
      BY <1>1, <3>2
    <3>4. /\ g[x] \in Int /\ h[x] \in Int
          /\ SumOver(g, r) \in Int /\ SumOver(h, r) \in Int
      BY <3>1, <3>2, SumIsInt
    <3> HIDE DEF x, r
    <3>5. SumOver(f, s) = SumOver(g, s) + SumOver(h, s)
      BY <3>2, <3>3, <3>4
    <3> QED BY <3>5
  <2> QED BY <2>1, <2>2
<1> HIDE DEF Good
<1>2. \A s \in SUBSET S : s \in Good
  BY <1>1, SetInduct
<1> QED BY <1>2 DEF Good

LEMMA SumOfZeros ==
    ASSUME NEW f, NEW S, IsFiniteSet(S), \A x \in S : f[x] = 0
    PROVE  SumOver(f, S) = 0
<1>1. \A x \in S : f[x] \in Int /\ f[x] = f[x] + f[x]
  OBVIOUS
<1>2. SumOver(f, S) \in Int
  BY <1>1, SumIsInt
<1>3. SumOver(f, S) = SumOver(f, S) + SumOver(f, S)
  BY <1>1, SumOfPlus
<1>4. \A n \in Int : n = n + n => n = 0
  OBVIOUS
<1> QED BY <1>2, <1>3, <1>4

\* When at most one value is v and the others are 0, so is the sum.
LEMMA SumOfAtMostOne ==
    ASSUME NEW f, NEW S, IsFiniteSet(S), NEW v \in Int, v # 0,
           \A x \in S : f[x] \in {0, v},
           \A x, y \in S : f[x] = v /\ f[y] = v => x = y
    PROVE  SumOver(f, S) \in {0, v}
<1>1. CASE \E x \in S : f[x] = v
  <2>1. PICK x \in S : f[x] = v
    BY <1>1
  <2>2. \A y \in S \ {x} : f[y] = 0
    BY <2>1
  <2>3. IsFiniteSet(S \ {x})
    BY FS_Subset
  <2>4. SumOver(f, S \ {x}) = 0
    BY <2>2, <2>3, SumOfZeros
  <2>5. \A y \in S : f[y] \in Int
    OBVIOUS
  <2>6. SumOver(f, S) = f[x] + SumOver(f, S \ {x})
    BY <2>5, SumStep
  <2> QED BY <2>1, <2>4, <2>6
<1>2. CASE ~(\E x \in S : f[x] = v)
  <2>1. \A x \in S : f[x] = 0
    BY <1>2
  <2> QED BY <2>1, SumOfZeros
<1> QED BY <1>1, <1>2

\* Natural numbers add up to no more over fewer elements.
LEMMA SumOfFewer ==
    ASSUME NEW f, NEW S, IsFiniteSet(S), \A x \in S : f[x] \in Nat,
           NEW T \in SUBSET S
    PROVE  SumOver(f, T) <= SumOver(f, S)
<1> DEFINE Good == {s \in SUBSET S : \A t \in SUBSET s : SumOver(f, t) <= SumOver(f, s)}
<1>1. \A s \in SUBSET S : IsFiniteSet(s) /\ SumOver(f, s) \in Nat
  BY FS_Subset, SumIsNat
<1>2. ASSUME NEW s \in SUBSET S, \A x \in s : s \ {x} \in Good PROVE s \in Good
  <2>1. SUFFICES ASSUME NEW t \in SUBSET s PROVE SumOver(f, t) <= SumOver(f, s)
    OBVIOUS
  <2>2. CASE t = s
    BY <1>1, <2>2
  <2>3. CASE t # s
    <3>1. PICK x \in s : x \notin t
      BY <2>3
    <3>2. t \in SUBSET (s \ {x}) /\ s \ {x} \in Good /\ s \ {x} \in SUBSET S
      BY <1>2, <3>1
    <3>3. SumOver(f, t) <= SumOver(f, s \ {x})
      BY <3>2
    <3>4. \A y \in s : f[y] \in Int
      OBVIOUS
    <3>5. SumOver(f, s) = f[x] + SumOver(f, s \ {x})
      BY <1>1, <3>1, <3>4, SumStep
    <3> HIDE DEF Good
    <3>6. f[x] \in Nat /\ SumOver(f, s \ {x}) \in Nat /\ SumOver(f, t) \in Nat
      BY <1>1, <3>1, <3>2
    <3> QED BY <3>3, <3>5, <3>6
  <2> QED BY <2>2, <2>3
<1> HIDE DEF Good
<1>3. \A s \in SUBSET S : s \in Good
  BY <1>2, SetInduct
<1> QED BY <1>3 DEF Good

\* A sum over four seats.
LEMMA SumOverFour ==
    ASSUME NEW f, \A i \in 0 .. 3 : f[i] \in Int
    PROVE  SumOver(f, 0 .. 3) = f[0] + f[1] + f[2] + f[3]
<1>1. ASSUME NEW S, IsFiniteSet(S), S \subseteq 0 .. 3, NEW y \in 0 .. 3, y \notin S
      PROVE  /\ IsFiniteSet(S \cup {y}) /\ S \cup {y} \subseteq 0 .. 3
             /\ SumOver(f, S \cup {y}) = f[y] + SumOver(f, S)
  <2>1. \A x \in S \cup {y} : f[x] \in Int
    BY <1>1
  <2> QED BY <1>1, <2>1, FS_AddElement, SumWith
<1> DEFINE E == {}
           A == E \cup {0}
           B == A \cup {1}
           C == B \cup {2}
           D == C \cup {3}
<1>2. IsFiniteSet(E) /\ SumOver(f, E) = 0
  BY FS_EmptySet, SumOfNone
<1>3. IsFiniteSet(A) /\ A \subseteq 0 .. 3 /\ SumOver(f, A) = f[0] + SumOver(f, E)
  <2>1. 0 \in 0 .. 3 /\ 0 \notin E /\ E \subseteq 0 .. 3
    OBVIOUS
  <2> HIDE DEF E
  <2> QED BY <1>1, <1>2, <2>1
<1>4. IsFiniteSet(B) /\ B \subseteq 0 .. 3 /\ SumOver(f, B) = f[1] + SumOver(f, A)
  <2>1. 1 \in 0 .. 3 /\ 1 \notin A
    OBVIOUS
  <2> HIDE DEF A
  <2> QED BY <1>1, <1>3, <2>1
<1>5. IsFiniteSet(C) /\ C \subseteq 0 .. 3 /\ SumOver(f, C) = f[2] + SumOver(f, B)
  <2>1. 2 \in 0 .. 3 /\ 2 \notin B
    OBVIOUS
  <2> HIDE DEF B
  <2> QED BY <1>1, <1>4, <2>1
<1>6. SumOver(f, D) = f[3] + SumOver(f, C)
  <2>1. 3 \in 0 .. 3 /\ 3 \notin C
    OBVIOUS
  <2> HIDE DEF C
  <2> QED BY <1>1, <1>5, <2>1
<1>7. D = 0 .. 3
  OBVIOUS
<1>8. f[0] \in Int /\ f[1] \in Int /\ f[2] \in Int /\ f[3] \in Int
  OBVIOUS
<1> HIDE DEF E, A, B, C, D
<1> QED BY <1>2, <1>3, <1>4, <1>5, <1>6, <1>7, <1>8
===============================================================================
