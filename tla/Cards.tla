-------------------------------- MODULE Cards --------------------------------
(***************************************************************************)
(* The playing cards (server/internal/game/types.go, deck.go): what a card *)
(* counts for when it captures and what it is worth at the end of a round. *)
(***************************************************************************)
EXTENDS Integers, FiniteSets

CONSTANT Pack   \* the cards in play: NewDeck in the program

Suits == {"clubs", "diamonds", "hearts", "spades"}

Ranks == {"2", "3", "4", "5", "6", "7", "8", "9", "10", "J", "Q", "K", "A"}

\* A card's ID is its rank and suit, so the record is its own identity.
Card == [rank : Ranks, suit : Suits]

\* NewDeck: one card of each rank and suit.
NewDeck == Card

ASSUME PackAssumption ==
    /\ Pack \subseteq NewDeck
    /\ IsFiniteSet(Pack)

NumeralValue ==
    [r \in {"2", "3", "4", "5", "6", "7", "8", "9", "10"} |->
        CASE r = "2" -> 2 [] r = "3" -> 3 [] r = "4" -> 4
          [] r = "5" -> 5 [] r = "6" -> 6 [] r = "7" -> 7
          [] r = "8" -> 8 [] r = "9" -> 9 [] r = "10" -> 10]

\* The numbers a card can stand for in a capture; an ace is 1 or 11.
CardValues(c) ==
    CASE c.rank = "A" -> {1, 11}
      [] c.rank = "J" -> {12}
      [] c.rank = "Q" -> {13}
      [] c.rank = "K" -> {14}
      [] OTHER        -> {NumeralValue[c.rank]}

\* The scoring value of a captured card: the ten of diamonds counts twice, and
\* of the twos only the two of clubs counts.
CardPoint(c) ==
    IF c = [rank |-> "10", suit |-> "diamonds"] THEN 2
    ELSE IF \/ c.rank \in {"10", "J", "Q", "K", "A"}
            \/ c = [rank |-> "2", suit |-> "clubs"]
         THEN 1
         ELSE 0

\* The points of a pile of captured cards: every card counted CardPoint times.
CardPoints(S) == Cardinality({p \in S \X (1..2) : p[2] <= CardPoint(p[1])})
===============================================================================
