------------------------------- MODULE Capture -------------------------------
(***************************************************************************)
(* Which captures a played card offers (server/internal/game/capture.go).  *)
(* A group is a set of table cards; an option is a set of disjoint groups. *)
(* The order in which the code lists options is left out: it is the order  *)
(* of the table, which no caller relies on, except that a player names an  *)
(* option by its place in the list that was sent to that player.           *)
(***************************************************************************)
EXTENDS Cards, Sums

\* The width of Go's int on the platforms the server is built for.
IntBits == 64

\* subsetSumHelper: every sum the cards of S can reach, an ace counting 1 or 11.
PossibleSums[S \in SUBSET Pack] ==
    IF S = {}
    THEN {0}
    ELSE LET c == CHOOSE c \in S : TRUE
         IN {sum + v : sum \in PossibleSums[S \ {c}], v \in CardValues(c)}

\* Mutant of subsetCanSum: the sum may exceed the target.
SubsetCanReach(S, target) == \E sum \in PossibleSums[S] : sum >= target

subsetCanSum(S, target) == target \in PossibleSums[S]

FindSubsets(tableCards, target) ==
    {S \in SUBSET tableCards : S # {} /\ subsetCanSum(S, target)}

\* Mutant of NonOverlapping: two groups of an option may share a card.
Overlapping(groups) == IsFiniteSet(groups)

NonOverlapping(groups) == \A a, b \in groups : a # b => a \cap b = {}

\* The loop over masks is bounded by 1 << n: the sign bit is set at n = 63 and
\* nothing is left of it at n >= 64, so from there on the loop never runs.
FindCaptureCombinations(subsets) ==
    IF Cardinality(subsets) >= IntBits - 1
    THEN {}
    ELSE {groups \in SUBSET subsets : groups # {} /\ NonOverlapping(groups)}

\* For an ace the groups for 1 and for 11 are merged before they are combined.
ComputeCaptures(playedCard, tableCards) ==
    FindCaptureCombinations(
        UNION {FindSubsets(tableCards, v) : v \in CardValues(playedCard)})

-------------------------------------------------------------------------------
(***************************************************************************)
(* The rules of the game (rules.md) as a reference for ComputeCaptures:    *)
(* a set of table cards can be captured when it is taken apart, group by   *)
(* group, by groups that add up to a value of the played card.  A group    *)
(* with k aces adds up to its other cards plus k, or 10 more for each ace  *)
(* that counts 11.                                                         *)
(***************************************************************************)
Aces(S) == {c \in S : c.rank = "A"}

LowValue == [c \in Card |-> Min(CardValues(c))]

LowSum(S) == SumOver(LowValue, S)

AddsUpTo(S, v) == \E high \in 0 .. Cardinality(Aces(S)) : LowSum(S) + 10 * high = v

CapturableSets(playedCard, tableCards) ==
    LET groups == {S \in SUBSET tableCards :
                       S # {} /\ \E v \in CardValues(playedCard) : AddsUpTo(S, v)}
        takenApart[S \in SUBSET tableCards] ==
            S = {} \/ \E G \in groups : G \subseteq S /\ takenApart[S \ G]
    IN {S \in SUBSET tableCards : S # {} /\ takenApart[S]}
===============================================================================
