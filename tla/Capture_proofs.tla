----------------------------- MODULE Capture_proofs -----------------------------
(***************************************************************************)
(* Proofs about the captures a card offers: what subsetSumHelper finds is  *)
(* what a group can add up to, and what ComputeCaptures offers is what the *)
(* rules allow.                                                            *)
(***************************************************************************)
EXTENDS Capture, Sums_proofs

\* Every pile of cards is finite and has a size.
LEMMA CardsFinite == ASSUME NEW S \in SUBSET Pack
                     PROVE  IsFiniteSet(S) /\ Cardinality(S) \in Nat
  BY PackAssumption, FS_Subset, FS_CardinalityType

LEMMA NumeralsCount ==
    \A r \in {"2", "3", "4", "5", "6", "7", "8", "9", "10"} :
        NumeralValue[r] \in Nat /\ NumeralValue[r] >= 2
<1>1. NumeralValue["2"] = 2 /\ NumeralValue["3"] = 3 /\ NumeralValue["4"] = 4
  BY DEF NumeralValue
<1>2. NumeralValue["5"] = 5 /\ NumeralValue["6"] = 6 /\ NumeralValue["7"] = 7
  BY DEF NumeralValue
<1>3. NumeralValue["8"] = 8 /\ NumeralValue["9"] = 9 /\ NumeralValue["10"] = 10
  BY DEF NumeralValue
<1> QED BY <1>1, <1>2, <1>3

\* An ace counts 1 or 11; any other card counts one number, which is 2 or more.
LEMMA ValuesOfACard ==
    ASSUME NEW c \in Card
    PROVE  /\ LowValue[c] \in Nat
           /\ c.rank = "A" => LowValue[c] = 1 /\ CardValues(c) = {1, 11}
           /\ c.rank # "A" => LowValue[c] >= 2 /\ CardValues(c) = {LowValue[c]}
<1>1. \A v \in Nat : Min({v}) = v
  BY DEF Min
<1>2. Min({1, 11}) = 1
  BY DEF Min
<1>3. CASE c.rank = "A"
  BY <1>2, <1>3 DEF CardValues, LowValue
<1>4. ASSUME NEW v \in Nat, v >= 2, c.rank # "A", CardValues(c) = {v}
      PROVE  LowValue[c] = v /\ LowValue[c] >= 2 /\ CardValues(c) = {LowValue[c]}
  BY <1>1, <1>4 DEF LowValue
<1>5. CASE c.rank = "J"
  <2>1. CardValues(c) = {12}
    BY <1>5 DEF CardValues
  <2> QED BY <1>4, <1>5, <2>1
<1>6. CASE c.rank = "Q"
  <2>1. CardValues(c) = {13}
    BY <1>6 DEF CardValues
  <2> QED BY <1>4, <1>6, <2>1
<1>7. CASE c.rank = "K"
  <2>1. CardValues(c) = {14}
    BY <1>7 DEF CardValues
  <2> QED BY <1>4, <1>7, <2>1
<1>8. CASE c.rank \in {"2", "3", "4", "5", "6", "7", "8", "9", "10"}
  <2>1. NumeralValue[c.rank] \in Nat /\ NumeralValue[c.rank] >= 2
    BY <1>8, NumeralsCount
  <2>2. CardValues(c) = {NumeralValue[c.rank]}
    BY <1>8 DEF CardValues
  <2> QED BY <1>4, <1>8, <2>1, <2>2
<1> QED BY <1>3, <1>5, <1>6, <1>7, <1>8 DEF Card, Ranks

\* The numbers a set of cards can add up to: its low sum, and ten more for each
\* of its aces that counts 11.
SumsOf(S) == {LowSum(S) + 10 * high : high \in 0 .. Cardinality(Aces(S))}

LEMMA LowSumNat == ASSUME NEW S \in SUBSET Pack
                   PROVE  LowSum(S) \in Nat /\ Cardinality(Aces(S)) \in Nat
<1>1. \A c \in S : LowValue[c] \in Nat
  BY PackAssumption, ValuesOfACard DEF NewDeck
<1>2. Aces(S) \in SUBSET Pack
  BY DEF Aces
<1> QED BY <1>1, <1>2, CardsFinite, SumIsNat DEF LowSum

\* One card more adds each of its values to each of the sums.
LEMMA SumsOfOneMore ==
    ASSUME NEW S \in SUBSET Pack, NEW c \in S
    PROVE  \A n : n \in SumsOf(S) <=>
                      \E sum \in SumsOf(S \ {c}) : \E v \in CardValues(c) : n = sum + v
<1> DEFINE R == S \ {c}
           k == Cardinality(Aces(R))
           low == LowSum(R)
<1>1. IsFiniteSet(S) /\ R \in SUBSET Pack /\ \A d \in S : d \in Card /\ LowValue[d] \in Nat
  BY PackAssumption, CardsFinite, ValuesOfACard DEF NewDeck
<1>2. k \in Nat /\ low \in Nat
  BY <1>1, LowSumNat
<1>3. LowSum(S) = LowValue[c] + low
  BY <1>1, SumStep DEF LowSum
<1>4. \A n : n \in SumsOf(R) <=> \E high \in 0 .. k : n = low + 10 * high
  BY DEF SumsOf
<1> SUFFICES ASSUME NEW n
             PROVE  n \in SumsOf(S) <=>
                        \E sum \in SumsOf(R) : \E v \in CardValues(c) : n = sum + v
  OBVIOUS
<1>5. CASE c.rank = "A"
  <2>1. Aces(S) = Aces(R) \cup {c} /\ c \notin Aces(R)
    BY <1>5 DEF Aces
  <2>2. Aces(R) \in SUBSET Pack
    BY <1>1 DEF Aces
  <2>3. Cardinality(Aces(S)) = k + 1
    BY <2>1, <2>2, CardsFinite, FS_AddElement
  <2>4. LowValue[c] = 1 /\ CardValues(c) = {1, 11}
    BY <1>1, <1>5, ValuesOfACard
  <2>5. n \in SumsOf(S) <=> \E high \in 0 .. k + 1 : n = 1 + low + 10 * high
    BY <1>3, <2>3, <2>4 DEF SumsOf
  <2> HIDE DEF R, k, low
  <2>6. ASSUME NEW sum \in SumsOf(R), NEW v \in {1, 11}, n = sum + v
        PROVE  n \in SumsOf(S)
    <3>1. PICK high \in 0 .. k : sum = low + 10 * high
      BY <1>4
    <3>2. CASE v = 1
      BY <1>2, <2>5, <2>6, <3>1, <3>2
    <3>3. CASE v = 11
      <4>1. high + 1 \in 0 .. k + 1 /\ n = 1 + low + 10 * (high + 1)
        BY <1>2, <2>6, <3>1, <3>3
      <4> QED BY <2>5, <4>1
    <3> QED BY <3>2, <3>3
  <2>7. ASSUME n \in SumsOf(S)
        PROVE  \E sum \in SumsOf(R) : \E v \in {1, 11} : n = sum + v
    <3>1. PICK high \in 0 .. k + 1 : n = 1 + low + 10 * high
      BY <2>5, <2>7
    <3>2. CASE high <= k
      <4>1. low + 10 * high \in SumsOf(R) /\ n = (low + 10 * high) + 1
        BY <1>2, <1>4, <3>1, <3>2
      <4> QED BY <4>1
    <3>3. CASE ~(high <= k)
      <4>1. k \in 0 .. k /\ n = (low + 10 * k) + 11
        BY <1>2, <3>1, <3>3
      <4>2. low + 10 * k \in SumsOf(R)
        BY <1>4, <4>1
      <4> QED BY <4>1, <4>2
    <3> QED BY <3>2, <3>3
  <2> QED BY <2>4, <2>6, <2>7
<1>6. CASE c.rank # "A"
  <2>1. Aces(S) = Aces(R)
    BY <1>6 DEF Aces
  <2>2. LowValue[c] \in Nat /\ CardValues(c) = {LowValue[c]}
    BY <1>1, <1>6, ValuesOfACard
  <2>3. n \in SumsOf(S) <=> \E high \in 0 .. k : n = LowValue[c] + low + 10 * high
    BY <1>3, <2>1 DEF SumsOf
  <2> HIDE DEF R, k, low
  <2>4. \A high \in 0 .. k : (low + 10 * high) + LowValue[c] = LowValue[c] + low + 10 * high
    BY <1>2, <2>2
  <2>5. ASSUME NEW sum \in SumsOf(R), n = sum + LowValue[c] PROVE n \in SumsOf(S)
    BY <1>4, <2>3, <2>4, <2>5
  <2>6. ASSUME n \in SumsOf(S) PROVE \E sum \in SumsOf(R) : n = sum + LowValue[c]
    BY <1>4, <2>3, <2>4, <2>6
  <2> QED BY <2>2, <2>5, <2>6
<1> QED BY <1>5, <1>6

LEMMA SumsOfNone == SumsOf({}) = {0}
<1>1. LowSum({}) = 0
  BY SumOfNone DEF LowSum
<1>2. Cardinality(Aces({})) = 0
  BY FS_EmptySet DEF Aces
<1> QED BY <1>1, <1>2 DEF SumsOf

\* What the recursive definition of PossibleSums asks of a function.
ReachStep(g, S) ==
    IF S = {} THEN {0}
    ELSE {sum + v : sum \in g[S \ {NextOf(S)}], v \in CardValues(NextOf(S))}

Reaches(g) == g = [S \in SUBSET Pack |-> ReachStep(g, S)]

LEMMA SumsAreChosen == PossibleSums = CHOOSE g : Reaches(g)
  BY DEF PossibleSums, Reaches, ReachStep, NextOf

\* From the sums without the card taken next come the sums with it.
LEMMA StepOfSums ==
    ASSUME NEW S \in SUBSET Pack, NEW g, S # {},
           g[S \ {NextOf(S)}] = SumsOf(S \ {NextOf(S)})
    PROVE  ReachStep(g, S) = SumsOf(S)
<1> DEFINE c == NextOf(S)
<1>1. c \in S
  BY DEF NextOf
<1>2. \A n : n \in ReachStep(g, S) <=>
                 \E sum \in g[S \ {c}] : \E v \in CardValues(c) : n = sum + v
  BY DEF ReachStep
<1> HIDE DEF c
<1>3. \A n : n \in SumsOf(S) <=>
                 \E sum \in SumsOf(S \ {c}) : \E v \in CardValues(c) : n = sum + v
  BY <1>1, SumsOfOneMore
<1>4. g[S \ {c}] = SumsOf(S \ {c})
  BY DEF c
<1> QED BY <1>2, <1>3, <1>4

\* SumsOf satisfies the definition, so it has a solution.
LEMMA SumsOfReach == Reaches([S \in SUBSET Pack |-> SumsOf(S)])
<1> DEFINE g == [S \in SUBSET Pack |-> SumsOf(S)]
<1>1. ASSUME NEW S \in SUBSET Pack, S # {} PROVE ReachStep(g, S) = SumsOf(S)
  <2>1. g[S \ {NextOf(S)}] = SumsOf(S \ {NextOf(S)})
    OBVIOUS
  <2> HIDE DEF g
  <2> QED BY <1>1, <2>1, StepOfSums
<1>2. ReachStep(g, {}) = SumsOf({})
  BY SumsOfNone DEF ReachStep
<1>3. \A S \in SUBSET Pack : ReachStep(g, S) = SumsOf(S)
  BY <1>1, <1>2
<1> QED BY <1>3 DEF Reaches

\* Any solution is SumsOf.
LEMMA ReachesIsSumsOf ==
    ASSUME NEW g, Reaches(g)
    PROVE  \A S \in SUBSET Pack : g[S] = SumsOf(S)
<1> DEFINE Good == {S \in SUBSET Pack : g[S] = SumsOf(S)}
<1>1. ASSUME NEW S \in SUBSET Pack, \A x \in S : S \ {x} \in Good PROVE S \in Good
  <2>1. g[S] = ReachStep(g, S)
    BY DEF Reaches
  <2>2. CASE S = {}
    BY <2>1, <2>2, SumsOfNone DEF ReachStep
  <2>3. CASE S # {}
    <3>1. NextOf(S) \in S
      BY <2>3 DEF NextOf
    <3>2. g[S \ {NextOf(S)}] = SumsOf(S \ {NextOf(S)})
      BY <1>1, <3>1
    <3>3. ReachStep(g, S) = SumsOf(S)
      BY <2>3, <3>2, StepOfSums
    <3> QED BY <2>1, <3>3
  <2> QED BY <2>2, <2>3
<1> HIDE DEF Good
<1>2. \A S \in SUBSET Pack : S \in Good
  BY <1>1, PackAssumption, SetInduct
<1> QED BY <1>2 DEF Good

\* subsetSumHelper finds exactly what a group can add up to.
LEMMA SubsetSumIsRight ==
    ASSUME NEW S \in SUBSET Pack, NEW target
    PROVE  subsetCanSum(S, target) <=> AddsUpTo(S, target)
<1>1. Reaches(PossibleSums)
  BY SumsOfReach, SumsAreChosen
<1>2. PossibleSums[S] = SumsOf(S)
  BY <1>1, ReachesIsSumsOf
<1> QED BY <1>2 DEF subsetCanSum, AddsUpTo, SumsOf

\* What adds up to one is an ace, and adds up to eleven as well.
LEMMA OneIsEleven ==
    ASSUME NEW S \in SUBSET Pack, AddsUpTo(S, 1)
    PROVE  AddsUpTo(S, 11)
<1>a. IsFiniteSet(S) /\ \A d \in S : d \in Card /\ LowValue[d] \in Nat
  BY PackAssumption, CardsFinite, ValuesOfACard DEF NewDeck
<1>1. \A d \in S : /\ LowValue[d] \in Nat
                   /\ d.rank # "A" => LowValue[d] >= 2
                   /\ LowSum(S \ {d}) \in Nat
  BY <1>a, ValuesOfACard, LowSumNat
<1>2. LowSum(S) \in Nat /\ Cardinality(Aces(S)) \in Nat
  BY LowSumNat
<1>3. LowSum(S) = 1
  BY <1>2 DEF AddsUpTo
<1>4. PICK c \in S : TRUE
  BY <1>3, SumOfNone DEF LowSum
<1>5. LowSum(S) = LowValue[c] + LowSum(S \ {c})
  BY <1>a, <1>4, SumStep DEF LowSum
<1>6. c \in Aces(S)
  <2>1. /\ LowValue[c] \in Nat
        /\ LowSum(S \ {c}) \in Nat
        /\ c.rank # "A" => LowValue[c] >= 2
    BY <1>1, <1>4
  <2>2. c.rank = "A"
    BY <1>3, <1>5, <2>1
  <2> QED BY <1>4, <2>2 DEF Aces
<1>7. Cardinality(Aces(S)) # 0
  <2>1. IsFiniteSet(Aces(S))
    BY <1>a, FS_Subset DEF Aces
  <2> QED BY <1>6, <2>1, FS_EmptySet
<1>8. 1 \in 0 .. Cardinality(Aces(S)) /\ LowSum(S) + 10 * 1 = 11
  BY <1>2, <1>3, <1>7
<1> QED BY <1>8 DEF AddsUpTo

\* A group that matches the played card, by the code and by the rules.
Groups(c, T) == {S \in SUBSET T : S # {} /\ \E v \in CardValues(c) : AddsUpTo(S, v)}

Matching(c, T) == UNION {FindSubsets(T, v) : v \in CardValues(c)}

LEMMA MatchingIsRight ==
    ASSUME NEW c, NEW T \in SUBSET Pack
    PROVE  Matching(c, T) = Groups(c, T)
<1>1. \A S : S \in Matching(c, T) <=>
          \E v \in CardValues(c) : S \in SUBSET T /\ S # {} /\ subsetCanSum(S, v)
  BY DEF Matching, FindSubsets
<1>2. \A S \in SUBSET T : \A v : subsetCanSum(S, v) <=> AddsUpTo(S, v)
  BY SubsetSumIsRight
<1>3. \A S : S \in Matching(c, T) <=> S \in Groups(c, T)
  BY <1>1, <1>2 DEF Groups
<1> QED BY <1>3 DEF Groups

\* The groups of an option all add up to one of the values of the played card:
\* for an ace, whose groups for 1 and for 11 are mixed, that one is 11.
LEMMA OptionSharesAValue ==
    ASSUME NEW c \in Pack, NEW T \in SUBSET Pack, NEW option \in ComputeCaptures(c, T)
    PROVE  \E v \in CardValues(c) : \A group \in option : AddsUpTo(group, v)
<1>1. c \in Card
  BY PackAssumption DEF NewDeck
<1>2. option \subseteq Matching(c, T) /\ option # {}
  BY DEF ComputeCaptures, FindCaptureCombinations, Matching
<1>3. \A group \in option :
         /\ group \in SUBSET Pack
         /\ \E v \in CardValues(c) : AddsUpTo(group, v)
  BY <1>2, MatchingIsRight DEF Groups
<1>4. CASE c.rank = "A"
  <2>1. CardValues(c) = {1, 11}
    BY <1>1, <1>4, ValuesOfACard
  <2>2. \A group \in option : AddsUpTo(group, 11)
    BY <1>3, <2>1, OneIsEleven
  <2> QED BY <2>1, <2>2
<1>5. CASE c.rank # "A"
  <2>1. CardValues(c) = {LowValue[c]}
    BY <1>1, <1>5, ValuesOfACard
  <2> QED BY <1>3, <2>1
<1> QED BY <1>4, <1>5
-------------------------------------------------------------------------------
\* What can be taken apart, group by group, is what disjoint groups make up.
Apart(groups, S) ==
    \E option \in SUBSET groups : NonOverlapping(option) /\ UNION option = S

\* What the recursive definition in CapturableSets asks of a function.
ApartStep(g, groups, S) == S = {} \/ \E G \in groups : G \subseteq S /\ g[S \ G]

TakesApart(g, groups, T) == g = [S \in SUBSET T |-> ApartStep(g, groups, S)]

LEMMA CapturableIsChosen ==
    ASSUME NEW c, NEW T
    PROVE  CapturableSets(c, T) =
               {S \in SUBSET T :
                   S # {} /\ (CHOOSE g : TakesApart(g, Groups(c, T), T))[S]}
  BY DEF CapturableSets, Groups, TakesApart, ApartStep

\* A group and what is made up of groups disjoint from it make up their union.
LEMMA ApartWith ==
    ASSUME NEW groups, NEW S, NEW G \in groups, G \subseteq S, Apart(groups, S \ G)
    PROVE  Apart(groups, S)
<1>1. PICK option \in SUBSET groups : NonOverlapping(option) /\ UNION option = S \ G
  BY DEF Apart
<1>2. NonOverlapping(option \cup {G})
  BY <1>1 DEF NonOverlapping
<1>3. UNION (option \cup {G}) = S
  BY <1>1
<1> QED BY <1>2, <1>3 DEF Apart

\* And the other way round: a group of those that make up S may be taken out.
LEMMA ApartWithout ==
    ASSUME NEW groups, NEW S, S # {}, Apart(groups, S)
    PROVE  \E G \in groups : G # {} /\ G \subseteq S /\ Apart(groups, S \ G)
<1>1. PICK option \in SUBSET groups : NonOverlapping(option) /\ UNION option = S
  BY DEF Apart
<1>2. PICK G \in option : G # {}
  BY <1>1
<1>3. NonOverlapping(option \ {G})
  BY <1>1 DEF NonOverlapping
<1>4. UNION (option \ {G}) = S \ G
  <2>1. \A x \in S \ G : \E H \in option \ {G} : x \in H
    BY <1>1
  <2>2. \A H \in option \ {G} : H \subseteq S /\ H \cap G = {}
    BY <1>1, <1>2 DEF NonOverlapping
  <2> QED BY <2>1, <2>2
<1>5. G \in groups /\ G \subseteq S
  BY <1>1, <1>2
<1> QED BY <1>2, <1>3, <1>4, <1>5 DEF Apart

LEMMA ApartSteps ==
    ASSUME NEW groups, NEW S
    PROVE  Apart(groups, S) <=>
               S = {} \/ \E G \in groups : G # {} /\ G \subseteq S /\ Apart(groups, S \ G)
<1>1. Apart(groups, {})
  <2>1. {} \in SUBSET groups /\ NonOverlapping({}) /\ UNION {} = {}
    BY DEF NonOverlapping
  <2> QED BY <2>1 DEF Apart
<1> QED BY <1>1, ApartWith, ApartWithout

\* Apart satisfies the recursive definition.
LEMMA ApartTakesApart ==
    ASSUME NEW groups, {} \notin groups, NEW T
    PROVE  TakesApart([S \in SUBSET T |-> Apart(groups, S)], groups, T)
<1> DEFINE g == [S \in SUBSET T |-> Apart(groups, S)]
<1>1. ASSUME NEW S \in SUBSET T PROVE Apart(groups, S) <=> ApartStep(g, groups, S)
  <2>1. \A G \in groups : G # {} /\ g[S \ G] = Apart(groups, S \ G)
    OBVIOUS
  <2> HIDE DEF g
  <2> QED BY <2>1, ApartSteps DEF ApartStep
<1>2. \A S \in SUBSET T : Apart(groups, S) = ApartStep(g, groups, S)
  BY <1>1 DEF Apart, ApartStep
<1> QED BY <1>2 DEF TakesApart

\* Any solution is Apart.
LEMMA TakesApartIsApart ==
    ASSUME NEW groups, {} \notin groups, NEW T, IsFiniteSet(T),
           NEW g, TakesApart(g, groups, T)
    PROVE  \A S \in SUBSET T : g[S] <=> Apart(groups, S)
<1> DEFINE Good == {S \in SUBSET T : g[S] <=> Apart(groups, S)}
<1>1. ASSUME NEW S \in SUBSET T, \A R \in SUBSET S : R # S => R \in Good
      PROVE  S \in Good
  <2>1. g[S] <=> ApartStep(g, groups, S)
    BY DEF TakesApart
  <2>2. ASSUME NEW G \in groups, G \subseteq S
        PROVE  G # {} /\ (g[S \ G] <=> Apart(groups, S \ G))
    <3>1. G # {} /\ S \ G \in SUBSET S /\ S \ G # S
      BY <2>2
    <3> QED BY <1>1, <3>1
  <2> QED BY <2>1, <2>2, ApartSteps, ZenonT(60) DEF ApartStep
<1> HIDE DEF Good
<1>2. \A S \in SUBSET T : S \in Good
  BY <1>1, SubsetInduct
<1> QED BY <1>2 DEF Good

LEMMA CapturableIsApart ==
    ASSUME NEW c, NEW T, IsFiniteSet(T), NEW S \in SUBSET T
    PROVE  S \in CapturableSets(c, T) <=> S # {} /\ Apart(Groups(c, T), S)
<1> DEFINE g == CHOOSE g : TakesApart(g, Groups(c, T), T)
<1>1. {} \notin Groups(c, T)
  BY DEF Groups
<1>2. TakesApart(g, Groups(c, T), T)
  BY <1>1, ApartTakesApart
<1>3. S \in CapturableSets(c, T) <=> S # {} /\ g[S]
  BY CapturableIsChosen
<1> HIDE DEF g
<1> QED BY <1>1, <1>2, <1>3, TakesApartIsApart

\* As long as the combinations can be counted in an int, the options a card
\* offers take exactly the sets of cards the rules allow.
LEMMA CapturesAreTheRules ==
    ASSUME NEW c, NEW T \in SUBSET Pack, Cardinality(Groups(c, T)) < IntBits - 1
    PROVE  {UNION option : option \in ComputeCaptures(c, T)} = CapturableSets(c, T)
<1> DEFINE groups == Groups(c, T)
<1>1. ComputeCaptures(c, T) = {option \in SUBSET groups : option # {} /\ NonOverlapping(option)}
  <2>1. ComputeCaptures(c, T) = FindCaptureCombinations(groups)
    BY MatchingIsRight DEF ComputeCaptures, Matching
  <2>2. IsFiniteSet(groups)
    <3>1. IsFiniteSet(SUBSET T)
      BY CardsFinite, FS_SUBSET
    <3> QED BY <3>1, FS_Subset DEF Groups
  <2>3. Cardinality(groups) \in Nat
    BY <2>2, FS_CardinalityType
  <2>4. ~(Cardinality(groups) >= IntBits - 1)
    BY <2>3 DEF IntBits
  <2> HIDE DEF groups
  <2> QED BY <2>1, <2>4 DEF FindCaptureCombinations
<1>2. \A G \in groups : G # {} /\ G \subseteq T
  BY DEF Groups
<1>3. \A S \in SUBSET T : S \in CapturableSets(c, T) <=> S # {} /\ Apart(groups, S)
  BY CardsFinite, CapturableIsApart
<1>4. CapturableSets(c, T) \subseteq SUBSET T
  BY CapturableIsChosen
<1> HIDE DEF groups
<1>5. ASSUME NEW option \in ComputeCaptures(c, T)
      PROVE  UNION option \in CapturableSets(c, T)
  <2>1. option \in SUBSET groups /\ option # {} /\ NonOverlapping(option)
    BY <1>1
  <2>2. UNION option \in SUBSET T /\ UNION option # {}
    BY <1>2, <2>1
  <2>3. Apart(groups, UNION option)
    BY <2>1 DEF Apart
  <2> QED BY <1>3, <2>2, <2>3
<1>6. ASSUME NEW S \in CapturableSets(c, T)
      PROVE  \E option \in ComputeCaptures(c, T) : S = UNION option
  <2>1. S # {} /\ Apart(groups, S)
    BY <1>3, <1>4
  <2>2. PICK option \in SUBSET groups : NonOverlapping(option) /\ UNION option = S
    BY <2>1 DEF Apart
  <2>3. option # {}
    BY <2>1, <2>2
  <2> QED BY <1>1, <2>2, <2>3
<1> QED BY <1>5, <1>6

\* The cards of a table that count for no more than c does: only these can be in
\* a group that c takes.
LowCards(c, T) == {t \in T : \E v \in CardValues(c) : LowValue[t] <= v}

LEMMA GroupsAreLow ==
    ASSUME NEW c, NEW T \in SUBSET Pack
    PROVE  Groups(c, T) \subseteq SUBSET LowCards(c, T)
<1> SUFFICES ASSUME NEW S \in Groups(c, T), NEW t \in S PROVE t \in LowCards(c, T)
  OBVIOUS
<1>1. S \in SUBSET T /\ S \in SUBSET Pack /\ S \ {t} \in SUBSET Pack /\ IsFiniteSet(S)
  BY CardsFinite DEF Groups
<1>2. PICK v \in CardValues(c), high \in 0 .. Cardinality(Aces(S)) :
          LowSum(S) + 10 * high = v
  BY DEF Groups, AddsUpTo
<1>3. \A x \in S : LowValue[x] \in Int
  BY <1>1, PackAssumption, ValuesOfACard DEF NewDeck
<1>4. LowSum(S) = LowValue[t] + LowSum(S \ {t})
  BY <1>1, <1>3, SumStep DEF LowSum
<1>5. /\ LowSum(S \ {t}) \in Nat /\ LowSum(S) \in Nat
      /\ Cardinality(Aces(S)) \in Nat
  BY <1>1, LowSumNat
<1>6. LowValue[t] <= v
  BY <1>2, <1>3, <1>4, <1>5
<1> QED BY <1>1, <1>2, <1>6 DEF LowCards

\* The combinations can be counted whenever at most five of these are on the table.
LEMMA FewLowCards ==
    ASSUME NEW c, NEW T \in SUBSET Pack, Cardinality(LowCards(c, T)) <= 5
    PROVE  Cardinality(Groups(c, T)) < IntBits - 1
<1>1. PICK L : L = LowCards(c, T) /\ L \in SUBSET Pack
  BY DEF LowCards
<1>2. IsFiniteSet(L) /\ Cardinality(L) \in 0 .. 5
  BY <1>1, CardsFinite
<1>3. IsFiniteSet(SUBSET L) /\ Cardinality(SUBSET L) = 2^Cardinality(L)
  BY <1>2, FS_SUBSET
<1>4. 2^Cardinality(L) \in 0 .. 32
  <2> DEFINE n == Cardinality(L)
  <2>1. n = 0 \/ n = 1 \/ n = 2 \/ n = 3 \/ n = 4 \/ n = 5
    BY <1>2
  <2> HIDE DEF n
  <2>2. n = 0 => 2^n = 1
    OBVIOUS
  <2>3. n = 1 => 2^n = 2
    OBVIOUS
  <2>4. n = 2 => 2^n = 4
    OBVIOUS
  <2>5. n = 3 => 2^n = 8
    OBVIOUS
  <2>6. n = 4 => 2^n = 16
    OBVIOUS
  <2>7. n = 5 => 2^n = 32
    OBVIOUS
  <2>8. 2^n \in 0 .. 32
    BY <2>1, <2>2, <2>3, <2>4, <2>5, <2>6, <2>7
  <2> QED BY <2>8 DEF n
<1>5. /\ Cardinality(Groups(c, T)) <= Cardinality(SUBSET L)
      /\ Cardinality(Groups(c, T)) \in Nat
  <2>1. Groups(c, T) \subseteq SUBSET L
    BY <1>1, GroupsAreLow
  <2> QED BY <1>3, <2>1, FS_Subset, FS_CardinalityType
<1> QED BY <1>3, <1>4, <1>5 DEF IntBits
===============================================================================
