---------------------------- MODULE TurnFlow_proofs ----------------------------
(***************************************************************************)
(* Proofs about TurnFlow, for every pack and every number of players,      *)
(* hand size and table size that the assumptions of TurnFlow allow.        *)
(*                                                                         *)
(* A move takes a game through three stages, each with a predicate of its  *)
(* own: Settled (between moves), Moved (the card has left the hand but the *)
(* turn has not passed) and Undealt (hands empty, cards about to be dealt).*)
(* The last section has what the operations keep of any game (Kept), also  *)
(* of one whose pending choice is out of date.                             *)
(***************************************************************************)
EXTENDS TurnFlow, Capture_proofs

\* What holds of a game at every stage.
Sound(g) ==
    /\ g \in GameType
    /\ NoDuplication(g)
    /\ NoLoss(g)
    /\ LastCapturerOf(g)
    /\ \A i \in Seats : g.phase = "playing" => g.totalScore[i] < WinScore

\* Between moves.
Settled(g) ==
    /\ Sound(g)
    /\ DeckInStepOf(g)
    /\ g.dealNumber # 0
    /\ g.phase \in {"playing", "game_over"}
    /\ g.phase = "playing" => HandsInStepOf(g)
    /\ g.phase = "game_over" => AllHandsEmpty(g)

\* Between a move and the passing of the turn.
Moved(g) ==
    /\ Sound(g)
    /\ DeckInStepOf(g)
    /\ g.dealNumber # 0
    /\ g.phase = "playing"
    /\ \E n \in 1 .. HandSize : \A i \in Seats :
           Cardinality(g.hand[i]) = IF i <= g.currentPlayerIndex THEN n - 1 ELSE n

\* Before a deal, the first of a round or a later one.
Undealt(g) ==
    /\ Sound(g)
    /\ \A i \in Seats : g.hand[i] = {}
    /\ \A i \in Seats : g.totalScore[i] < WinScore
    /\ g.currentPlayerIndex = 0
    /\ \/ g.dealNumber = 0 /\ g.deck = Pack /\ g.tableCards = {}
       \/ g.dealNumber # 0 /\ DeckInStepOf(g) /\ g.deck # {}

\* Taking one card out of a hand.
LEMMA TakeOne == ASSUME NEW S \in SUBSET Pack, NEW c \in S
                 PROVE  Cardinality(S \ {c}) = Cardinality(S) - 1
  BY CardsFinite, FS_RemoveElement

\* A pile of size zero is empty, and no other.
LEMMA NoneLeft == ASSUME NEW S \in SUBSET Pack
                  PROVE  Cardinality(S) = 0 <=> S = {}
  BY CardsFinite, FS_EmptySet

\* Seats are numbered from 0, and NoSeat is none of them.
LEMMA SeatsFacts == /\ 0 \in Seats
                    /\ \A i \in Seats : i \in Nat /\ i < NumPlayers
                    /\ NoSeat \notin Seats
  BY SizeAssumption DEF Seats, NoSeat

\* Arithmetic the solver needs spelt out: the step from one deal to the next.
LEMMA Distribute == ASSUME NEW a \in Int, NEW b \in Int, NEW c \in Int
                    PROVE  (a - b) * c = a * c - b * c
  OBVIOUS

\* Every option a card offers is made of cards on the table.
LEMMA OptionsOnTable ==
    ASSUME NEW c, NEW T, NEW option \in ComputeCaptures(c, T)
    PROVE  UNION option \subseteq T
  BY DEF ComputeCaptures, FindCaptureCombinations, FindSubsets

\* ApplyDiscard takes a settled game to a moved one.
LEMMA DiscardMoves ==
    ASSUME NEW g, Settled(g), g.phase = "playing",
           NEW c \in g.hand[g.currentPlayerIndex]
    PROVE  Moved(ApplyDiscard(g, g.currentPlayerIndex, c))
<1> DEFINE cur == g.currentPlayerIndex
           h == ApplyDiscard(g, cur, c)
<1>1. g \in GameType /\ cur \in Seats /\ c \in Pack /\ g.hand \in [Seats -> SUBSET Pack]
  BY DEF Settled, Sound, GameType
<1>2. /\ h.hand = [g.hand EXCEPT ![cur] = @ \ {c}]
      /\ h.tableCards = g.tableCards \cup {c}
      /\ h.captured = g.captured /\ h.deck = g.deck /\ h.phase = g.phase
      /\ h.totalScore = g.totalScore /\ h.dealNumber = g.dealNumber
      /\ h.currentPlayerIndex = cur
  BY <1>1 DEF ApplyDiscard, GameType
<1>3. h \in GameType
  BY <1>1 DEF ApplyDiscard, GameType
<1>4. NoDuplication(h)
  BY <1>1, <1>2 DEF NoDuplication, Settled, Sound, GameType
<1>5. NoLoss(h)
  BY <1>1, <1>2 DEF NoLoss, Settled, Sound, GameType
<1>6. DeckInStepOf(h)
  BY <1>2 DEF DeckInStepOf, Settled
<1>10. h.dealNumber # 0
  BY <1>2 DEF Settled
<1>7. \E n \in 1 .. HandSize : \A i \in Seats :
         Cardinality(h.hand[i]) = IF i <= h.currentPlayerIndex THEN n - 1 ELSE n
  <2>1. PICK n \in 1 .. HandSize : \A i \in Seats :
           Cardinality(g.hand[i]) = IF i < cur THEN n - 1 ELSE n
    BY DEF Settled, HandsInStepOf
  <2>2. Cardinality(h.hand[cur]) = n - 1
    BY <1>1, <1>2, <2>1, TakeOne, SeatsFacts
  <2>3. ASSUME NEW i \in Seats, i # cur
        PROVE  Cardinality(h.hand[i]) = IF i <= cur THEN n - 1 ELSE n
    BY <1>1, <1>2, <2>1, <2>3, SeatsFacts
  <2> QED BY <1>1, <1>2, <2>2, <2>3, SeatsFacts
<1>8. \A i \in Seats : h.phase = "playing" => h.totalScore[i] < WinScore
  BY <1>2 DEF Settled, Sound
<1>9. LastCapturerOf(h)
  BY <1>1, <1>2, <1>3 DEF LastCapturerOf, Settled, Sound, ApplyDiscard, GameType
<1> QED BY <1>2, <1>3, <1>4, <1>5, <1>6, <1>7, <1>8, <1>9, <1>10 DEF Moved, Sound

\* The parts of a game that a capture changes, replaced by others of their types.
LEMMA PartsOfAGame ==
    ASSUME NEW g \in GameType, NEW hand \in [Seats -> SUBSET Pack],
           NEW captured \in [Seats -> SUBSET Pack], NEW tablas \in [Seats -> Nat],
           NEW tableCards \in SUBSET Pack, NEW last \in Seats
    PROVE  [g EXCEPT !.hand              = hand,
                     !.tableCards        = tableCards,
                     !.captured          = captured,
                     !.lastCapturerIndex = last,
                     !.tablas            = tablas] \in GameType
  BY DEF GameType

\* So does ApplyCapture, when the option is made of cards on the table.
LEMMA CaptureMoves ==
    ASSUME NEW g, Settled(g), g.phase = "playing",
           NEW c, NEW option, CaptureFits(g, g.currentPlayerIndex, c, option)
    PROVE  Moved(ApplyCapture(g, g.currentPlayerIndex, c, option))
<1> DEFINE cur == g.currentPlayerIndex
           won == UNION option
           rest == g.tableCards \ won
           h == ApplyCapture(g, cur, c, option)
<1> HIDE DEF won
<1>1. /\ g \in GameType /\ cur \in Seats /\ c \in g.hand[cur] /\ c \in Pack
      /\ won \subseteq g.tableCards
      /\ g.hand \in [Seats -> SUBSET Pack] /\ g.captured \in [Seats -> SUBSET Pack]
      /\ g.tablas \in [Seats -> Nat]
  BY DEF Settled, Sound, GameType, CaptureFits, won
<1>2. h = [g EXCEPT !.hand[cur]         = @ \ {c},
                    !.tableCards        = rest,
                    !.captured[cur]     = @ \cup {c} \cup won,
                    !.lastCapturerIndex = cur,
                    !.tablas[cur]       = IF rest = {} THEN @ + 1 ELSE @]
  BY DEF ApplyCapture, won
<1>3. /\ h.hand = [g.hand EXCEPT ![cur] = @ \ {c}]
      /\ h.tableCards = rest
      /\ h.captured = [g.captured EXCEPT ![cur] = @ \cup {c} \cup won]
      /\ h.deck = g.deck /\ h.phase = g.phase
      /\ h.totalScore = g.totalScore /\ h.dealNumber = g.dealNumber
      /\ h.currentPlayerIndex = cur
  BY <1>1, <1>2 DEF GameType
<1>4. h \in GameType
  <2>1. rest \in SUBSET Pack /\ won \in SUBSET Pack
    BY <1>1 DEF GameType
  <2>2. [g.hand EXCEPT ![cur] = @ \ {c}] \in [Seats -> SUBSET Pack]
    BY <1>1
  <2>3. [g.captured EXCEPT ![cur] = @ \cup {c} \cup won] \in [Seats -> SUBSET Pack]
    BY <1>1, <2>1
  <2>4. [g.tablas EXCEPT ![cur] = IF rest = {} THEN @ + 1 ELSE @] \in [Seats -> Nat]
    BY <1>1
  <2> HIDE DEF rest
  <2>5. [g EXCEPT !.hand              = [g.hand EXCEPT ![cur] = @ \ {c}],
                  !.tableCards        = rest,
                  !.captured          = [g.captured EXCEPT ![cur] = @ \cup {c} \cup won],
                  !.lastCapturerIndex = cur,
                  !.tablas            = [g.tablas EXCEPT ![cur] = IF rest = {} THEN @ + 1 ELSE @]]
        \in GameType
    BY <1>1, <2>1, <2>2, <2>3, <2>4, PartsOfAGame
  <2> QED BY <1>1, <1>2, <2>5
<1>5. NoDuplication(h)
  <2>1. NoDuplication(g)
    BY DEF Settled, Sound
  <2>2. \A i \in Seats : /\ h.hand[i] \subseteq g.hand[i]
                         /\ i # cur => h.captured[i] = g.captured[i]
    BY <1>1, <1>3
  <2>3. h.captured[cur] = g.captured[cur] \cup {c} \cup won /\ c \notin h.hand[cur]
    BY <1>1, <1>3
  <2>4. h.deck \cap h.tableCards = {}
    BY <1>3, <2>1 DEF NoDuplication
  <2>5. \A i \in Seats :
           (h.hand[i] \cup h.captured[i]) \cap (h.deck \cup h.tableCards) = {}
    BY <1>1, <1>3, <2>1, <2>2, <2>3 DEF NoDuplication
  <2>6. \A i, j \in Seats : h.hand[i] \cap h.captured[j] = {}
    BY <1>1, <1>3, <2>1, <2>2, <2>3 DEF NoDuplication
  <2>7. \A i, j \in Seats : i # j => /\ h.hand[i] \cap h.hand[j] = {}
                                     /\ h.captured[i] \cap h.captured[j] = {}
    BY <1>1, <1>3, <2>1, <2>2, <2>3, SMTT(30) DEF NoDuplication
  <2> QED BY <2>4, <2>5, <2>6, <2>7 DEF NoDuplication
<1>6. NoLoss(h)
  BY <1>1, <1>3 DEF NoLoss, Settled, Sound
<1>7. DeckInStepOf(h)
  BY <1>3 DEF DeckInStepOf, Settled
<1>11. h.dealNumber # 0
  BY <1>3 DEF Settled
<1>8. \E n \in 1 .. HandSize : \A i \in Seats :
         Cardinality(h.hand[i]) = IF i <= h.currentPlayerIndex THEN n - 1 ELSE n
  <2>1. PICK n \in 1 .. HandSize : \A i \in Seats :
           Cardinality(g.hand[i]) = IF i < cur THEN n - 1 ELSE n
    BY DEF Settled, HandsInStepOf
  <2>2. Cardinality(h.hand[cur]) = n - 1
    BY <1>1, <1>3, <2>1, TakeOne, SeatsFacts
  <2>3. ASSUME NEW i \in Seats, i # cur
        PROVE  Cardinality(h.hand[i]) = IF i <= cur THEN n - 1 ELSE n
    BY <1>1, <1>3, <2>1, <2>3, SeatsFacts
  <2> QED BY <1>1, <1>3, <2>2, <2>3, SeatsFacts
<1>9. \A i \in Seats : h.phase = "playing" => h.totalScore[i] < WinScore
  BY <1>3 DEF Settled, Sound
<1>10. LastCapturerOf(h)
  <2>1. h.lastCapturerIndex = cur /\ c \in h.captured[cur]
    BY <1>1, <1>2, <1>3 DEF GameType
  <2> QED BY <1>1, <2>1, SeatsFacts DEF LastCapturerOf
<1> QED BY <1>3, <1>4, <1>5, <1>6, <1>7, <1>8, <1>9, <1>10, <1>11 DEF Moved, Sound

\* A deal comes out: afterwards every hand holds HandSize cards and the deck is
\* one deal shorter.
LEMMA DealSettles ==
    ASSUME NEW g, Undealt(g), NEW h \in DealNextHand(g)
    PROVE  Settled(h) /\ h.phase = "playing"
<1> DEFINE per == NumPlayers * HandSize
<1>1. /\ g \in GameType /\ g.hand \in [Seats -> SUBSET Pack] /\ g.deck \in SUBSET Pack
      /\ g.tableCards \in SUBSET Pack /\ g.dealNumber \in Nat
      /\ NoDuplication(g) /\ NoLoss(g) /\ g.currentPlayerIndex = 0
      /\ \A i \in Seats : g.hand[i] = {} /\ g.totalScore[i] < WinScore
  BY DEF Undealt, Sound, GameType
<1>2. per \in Nat \ {0}
  BY SizeAssumption
<1>3. CanDeal(g)
  <2>1. PICK deals \in 1 .. Cardinality(Pack) :
           Cardinality(Pack) = TableSize + deals * per
    BY DealsAssumption
  <2>2. Cardinality(Pack) \in Nat /\ Cardinality(g.deck) \in Nat
    BY <1>1, CardsFinite
  <2>3. CASE g.dealNumber = 0 /\ g.deck = Pack
    <3>1. deals * per >= per
      BY <1>2, <2>1, <2>2
    <3> QED BY <2>1, <2>2, <2>3, <3>1, <1>2, SizeAssumption DEF CanDeal, Needed, FaceUp
  <2>4. CASE g.dealNumber # 0 /\ DeckInStepOf(g) /\ g.deck # {}
    <3>1. Cardinality(g.deck) + g.dealNumber * per = deals * per
      BY <1>1, <1>2, <2>1, <2>2, <2>4, SizeAssumption DEF DeckInStepOf
    <3>2. Cardinality(g.deck) = (deals - g.dealNumber) * per
      <4>1. deals \in Int /\ g.dealNumber \in Int /\ per \in Int
        BY <1>1, <1>2, <2>1, <2>2
      <4>2. (deals - g.dealNumber) * per = deals * per - g.dealNumber * per
        BY <4>1, Distribute
      <4>3. deals * per \in Int /\ g.dealNumber * per \in Int
        BY <4>1
      <4> HIDE DEF per
      <4> QED BY <3>1, <4>2, <4>3, <2>2
    <3>3. Cardinality(g.deck) # 0
      BY <1>1, <2>4, NoneLeft
    <3>4. deals - g.dealNumber \in Int /\ deals - g.dealNumber >= 1
      BY <3>2, <3>3, <1>1, <1>2, <2>2, <2>1
    <3>5. (deals - g.dealNumber) * per >= per
      BY <3>4, <1>2
    <3> QED BY <3>2, <3>5, <2>2, <2>4, <1>2 DEF CanDeal, Needed, FaceUp
  <2> QED BY <2>3, <2>4 DEF Undealt
<1>a. PICK taken \in kSubset(Needed(g), g.deck) :
         h \in {AfterDeal(g, taken, split) : split \in Splits(taken, FaceUp(g))}
  BY <1>3 DEF DealNextHand
<1>4. PICK split \in Splits(taken, FaceUp(g)) : h = AfterDeal(g, taken, split)
  BY <1>a
<1>5. taken \in SUBSET g.deck /\ Cardinality(taken) = Needed(g)
  BY <1>a DEF kSubset
<1>6. /\ split.table \in SUBSET taken
      /\ split.hands \in [Seats -> SUBSET taken]
      /\ \A i \in Seats : Cardinality(split.hands[i]) = HandSize
      /\ taken = split.table \cup UNION {split.hands[i] : i \in Seats}
      /\ \A i \in Seats : split.hands[i] \cap split.table = {}
      /\ \A i, j \in Seats : i # j => split.hands[i] \cap split.hands[j] = {}
  BY <1>4 DEF Splits, kSubset
<1>7. /\ h.deck = g.deck \ taken
      /\ h.tableCards = g.tableCards \cup split.table
      /\ h.hand = [i \in Seats |-> g.hand[i] \cup split.hands[i]]
      /\ h.dealNumber = g.dealNumber + 1
      /\ h.phase = "playing"
      /\ h.captured = g.captured /\ h.totalScore = g.totalScore
      /\ h.currentPlayerIndex = 0
  BY <1>1, <1>4 DEF AfterDeal, GameType
<1>8. h \in GameType
  <2>1. [i \in Seats |-> g.hand[i] \cup split.hands[i]] \in [Seats -> SUBSET Pack]
    BY <1>1, <1>5, <1>6
  <2>2. g.tableCards \cup split.table \in SUBSET Pack
    BY <1>1, <1>5, <1>6
  <2>3. g.deck \ taken \in SUBSET Pack /\ g.dealNumber + 1 \in Nat
    BY <1>1
  <2> QED BY <1>1, <1>4, <2>1, <2>2, <2>3 DEF AfterDeal, GameType, Phases
<1>9. \A i \in Seats : h.hand[i] = split.hands[i]
  BY <1>1, <1>7
<1>10. NoDuplication(h)
  BY <1>1, <1>5, <1>6, <1>7, <1>9 DEF NoDuplication
<1>11. NoLoss(h)
  BY <1>1, <1>5, <1>6, <1>7, <1>9 DEF NoLoss
<1>12. DeckInStepOf(h)
  <2>1. Cardinality(h.deck) = Cardinality(g.deck) - Needed(g)
    <3>1. g.deck \cap taken = taken
      BY <1>5
    <3>2. IsFiniteSet(g.deck)
      BY <1>1, CardsFinite
    <3>3. Cardinality(g.deck \ taken) = Cardinality(g.deck) - Cardinality(g.deck \cap taken)
      BY <3>2, FS_Difference
    <3> QED BY <1>5, <1>7, <3>1, <3>3
  <2>2. Cardinality(g.deck) \in Nat /\ Cardinality(Pack) \in Nat
    BY <1>1, CardsFinite
  <2>3. (g.dealNumber + 1) * per = g.dealNumber * per + per
    BY <1>1, <1>2
  <2>4. CASE g.dealNumber = 0 /\ g.deck = Pack
    BY <2>1, <2>2, <2>3, <2>4, <1>2, <1>7, SizeAssumption DEF Needed, FaceUp, DeckInStepOf
  <2>5. CASE g.dealNumber # 0 /\ DeckInStepOf(g)
    BY <2>1, <2>2, <2>3, <2>5, <1>1, <1>2, <1>7, SizeAssumption DEF Needed, FaceUp, DeckInStepOf
  <2> QED BY <2>4, <2>5 DEF Undealt
<1>16. h.dealNumber # 0
  BY <1>1, <1>7
<1>13. HandsInStepOf(h)
  <2>1. HandSize \in 1 .. HandSize
    BY SizeAssumption
  <2>2. \A i \in Seats : Cardinality(h.hand[i]) = HandSize
    BY <1>6, <1>9
  <2>3. \A i \in Seats : ~(i < h.currentPlayerIndex)
    BY <1>7, SeatsFacts
  <2> QED BY <2>1, <2>2, <2>3 DEF HandsInStepOf
<1>14. \A i \in Seats : h.totalScore[i] < WinScore
  BY <1>1, <1>7
<1>15. LastCapturerOf(h)
  <2>1. h.lastCapturerIndex = g.lastCapturerIndex
    BY <1>1, <1>4 DEF AfterDeal, GameType
  <2> QED BY <1>7, <2>1 DEF LastCapturerOf, Undealt, Sound
<1> QED BY <1>7, <1>8, <1>10, <1>11, <1>12, <1>13, <1>14, <1>15, <1>16 DEF Settled, Sound

\* Scores are never negative.
LEMMA CardPointsNat == ASSUME NEW S \in SUBSET Pack
                       PROVE  CardPoints(S) \in Nat
<1>1. IsFiniteSet(S) /\ IsFiniteSet(1 .. 2)
  <2>1. IsFiniteSet(S)
    BY CardsFinite
  <2>2. 1 \in Int /\ 2 \in Int
    OBVIOUS
  <2>3. IsFiniteSet(1 .. 2)
    BY ONLY <2>2, FS_Interval
  <2> QED BY <2>1, <2>3
<1>2. IsFiniteSet(S \X (1 .. 2))
  BY <1>1, FS_Product
<1>3. {p \in S \X (1..2) : p[2] <= CardPoint(p[1])} \subseteq S \X (1 .. 2)
  OBVIOUS
<1> QED BY <1>2, <1>3, FS_Subset, FS_CardinalityType DEF CardPoints

\* What a seat scores in a round is a natural number, whatever it captured.
LEMMA ScoresNat == ASSUME NEW g \in GameType, NEW i \in Seats
                   PROVE  Total(ComputeRoundScores(g)[i]) \in Nat
<1>1. g.captured \in [Seats -> SUBSET Pack] /\ g.tablas \in [Seats -> Nat]
  BY DEF GameType
<1>2. \A pile, others : SpilPoints(pile, others) \in Nat
  BY DEF SpilPoints
<1>3. CASE NumPlayers = 4
  <2> DEFINE t == i % 2
             pile(u) == g.captured[u] \cup g.captured[u + 2]
             tablas(u) == g.tablas[u] + g.tablas[u + 2]
             spil == SpilPoints(pile(t), {pile((i + 1) % 2)})
  <2>1. t \in {0, 1} /\ t \in Seats /\ t + 2 \in Seats
    BY <1>3 DEF Seats
  <2>2. pile(t) \in SUBSET Pack /\ tablas(t) \in Nat
    BY <1>1, <2>1
  <2>3. ComputeRoundScores(g)[i]
           = [cardPoints |-> CardPoints(pile(t)), spilPoints |-> spil, tablaPoints |-> tablas(t)]
    BY <1>3 DEF ComputeRoundScores, ComputeTeamRoundScores
  <2>4. CardPoints(pile(t)) \in Nat /\ spil \in Nat
    BY <1>2, <2>2, CardPointsNat
  <2> HIDE DEF t, pile, tablas, spil
  <2> QED BY <2>2, <2>3, <2>4 DEF Total
<1>4. CASE NumPlayers # 4
  <2> DEFINE spil == SpilPoints(g.captured[i], {g.captured[j] : j \in Seats \ {i}})
  <2>1. ComputeRoundScores(g)[i]
           = [cardPoints |-> CardPoints(g.captured[i]), spilPoints |-> spil,
              tablaPoints |-> g.tablas[i]]
    BY <1>4 DEF ComputeRoundScores, IndividualRoundScores
  <2>2. CardPoints(g.captured[i]) \in Nat /\ spil \in Nat /\ g.tablas[i] \in Nat
    BY <1>1, <1>2, CardPointsNat
  <2> HIDE DEF spil
  <2> QED BY <2>1, <2>2 DEF Total
<1> QED BY <1>3, <1>4

\* The award of the last cards neither loses nor duplicates any.
LEMMA LastHandKeeps ==
    ASSUME NEW g, Sound(g), DeckInStepOf(g), g.phase = "playing", AllHandsEmpty(g)
    PROVE  LET last == ApplyLastHandRule(g)
           IN Sound(last) /\ DeckInStepOf(last) /\ AllHandsEmpty(last)
              /\ last.phase = "playing" /\ last.currentPlayerIndex = g.currentPlayerIndex
              /\ last.dealNumber = g.dealNumber
<1> DEFINE last == ApplyLastHandRule(g)
           l == g.lastCapturerIndex
<1>1. CASE g.tableCards = {} \/ l = NoSeat
  BY <1>1 DEF ApplyLastHandRule
<1>2. CASE ~(g.tableCards = {} \/ l = NoSeat)
  <2>1. /\ g \in GameType /\ l \in Seats /\ g.tableCards \in SUBSET Pack
        /\ g.captured \in [Seats -> SUBSET Pack]
    BY <1>2 DEF Sound, GameType
  <2>2. last = [g EXCEPT !.captured[l] = @ \cup g.tableCards, !.tableCards = {}]
    BY <1>2 DEF ApplyLastHandRule
  <2>3. /\ last.captured = [g.captured EXCEPT ![l] = @ \cup g.tableCards]
        /\ last.tableCards = {} /\ last.hand = g.hand /\ last.deck = g.deck
        /\ last.phase = g.phase /\ last.totalScore = g.totalScore
        /\ last.dealNumber = g.dealNumber /\ last.lastCapturerIndex = l
        /\ last.currentPlayerIndex = g.currentPlayerIndex
    BY <2>1, <2>2 DEF GameType
  <2>4. last \in GameType
    <3>1. [g.captured EXCEPT ![l] = @ \cup g.tableCards] \in [Seats -> SUBSET Pack]
      BY <2>1
    <3> QED BY <2>1, <2>2, <3>1 DEF GameType
  <2>5. NoDuplication(last)
    BY <2>1, <2>3 DEF NoDuplication, Sound
  <2>6. NoLoss(last)
    BY <2>1, <2>3 DEF NoLoss, Sound
  <2>7. LastCapturerOf(last)
    BY <1>2, <2>1, <2>3 DEF LastCapturerOf
  <2> QED BY <2>3, <2>4, <2>5, <2>6, <2>7 DEF Sound, DeckInStepOf, AllHandsEmpty
<1> QED BY <1>1, <1>2

\* The end of a round leads to a settled game: over, or with the next round dealt.
LEMMA EndRoundSettles ==
    ASSUME NEW g, Sound(g), DeckInStepOf(g), g.phase = "playing", AllHandsEmpty(g),
           g.currentPlayerIndex = 0, g.dealNumber # 0,
           NEW h \in EndRound(g)
    PROVE  Settled(h)
<1> DEFINE last == ApplyLastHandRule(g)
           scores == ComputeRoundScores(last)
           fresh == ApplyRoundScores(last, scores)
<1>1. /\ Sound(last) /\ DeckInStepOf(last) /\ AllHandsEmpty(last)
      /\ last.phase = "playing" /\ last.currentPlayerIndex = 0 /\ last \in GameType
      /\ last.dealNumber # 0
  BY LastHandKeeps DEF Sound
<1>2. CASE SomeoneWins(last, scores)
  <2>1. h = [last EXCEPT !.phase = "game_over"]
    BY <1>2 DEF EndRound
  <2>2. /\ h.phase = "game_over" /\ h.hand = last.hand /\ h.captured = last.captured
        /\ h.deck = last.deck /\ h.tableCards = last.tableCards
        /\ h.dealNumber = last.dealNumber /\ h.lastCapturerIndex = last.lastCapturerIndex
        /\ h \in GameType
    BY <1>1, <2>1 DEF GameType, Phases
  <2>3. NoDuplication(h) /\ NoLoss(h) /\ LastCapturerOf(h)
    BY <1>1, <2>2 DEF Sound, NoDuplication, NoLoss, LastCapturerOf
  <2>4. DeckInStepOf(h) /\ AllHandsEmpty(h) /\ h.dealNumber # 0
    BY <1>1, <2>2 DEF DeckInStepOf, AllHandsEmpty
  <2> QED BY <2>2, <2>3, <2>4 DEF Settled, Sound
<1>3. CASE ~SomeoneWins(last, scores)
  <2>1. h \in DealNextHand(fresh)
    BY <1>3 DEF EndRound
  <2>2. \A i \in Seats : Standing(last, scores, i) \in Nat
    <3>1. \A i \in Seats : last.totalScore[i] \in Nat
      BY <1>1 DEF GameType
    <3> QED BY <1>1, <3>1, ScoresNat DEF Standing
  <2>3. \A i \in Seats : Standing(last, scores, i) < WinScore
    BY <1>3, <2>2, SizeAssumption DEF SomeoneWins
  <2>4. /\ fresh.hand = [i \in Seats |-> {}] /\ fresh.captured = [i \in Seats |-> {}]
        /\ fresh.deck = Pack /\ fresh.tableCards = {} /\ fresh.dealNumber = 0
        /\ fresh.currentPlayerIndex = 0 /\ fresh.lastCapturerIndex = NoSeat
        /\ fresh.totalScore = [i \in Seats |-> Standing(last, scores, i)]
    BY <1>1 DEF ApplyRoundScores, GameType
  <2>5. fresh \in GameType
    <3>1. [i \in Seats |-> Standing(last, scores, i)] \in [Seats -> Nat]
      BY <2>2
    <3>2. [i \in Seats |-> {}] \in [Seats -> SUBSET Pack] /\ [i \in Seats |-> 0] \in [Seats -> Nat]
      OBVIOUS
    <3>3. last.roundNumber + 1 \in Nat
      BY <1>1 DEF GameType
    <3> HIDE DEF last, scores
    <3> QED BY <1>1, <3>1, <3>2, <3>3 DEF ApplyRoundScores, GameType
  <2>6. NoDuplication(fresh) /\ NoLoss(fresh) /\ LastCapturerOf(fresh)
    BY <2>4 DEF NoDuplication, NoLoss, LastCapturerOf
  <2>7. Undealt(fresh)
    BY <2>3, <2>4, <2>5, <2>6 DEF Undealt, Sound
  <2> QED BY <2>1, <2>7, DealSettles
<1> QED BY <1>2, <1>3

\* Passing the turn settles a moved game: the next seat moves, the next hands
\* are dealt, the next round begins or the game is over.
LEMMA AdvanceSettles ==
    ASSUME NEW g, Moved(g), NEW h \in AdvanceTurnOrDeal(g)
    PROVE  Settled(h)
<1> DEFINE next == AdvanceTurn(g)
           cur == g.currentPlayerIndex
<1>1. /\ g \in GameType /\ cur \in Seats /\ g.hand \in [Seats -> SUBSET Pack]
      /\ NumPlayers \in Nat \ {0} /\ cur \in Nat /\ cur < NumPlayers
  BY SizeAssumption, SeatsFacts DEF Moved, Sound, GameType
<1>2. (cur + 1) % NumPlayers = IF cur + 1 = NumPlayers THEN 0 ELSE cur + 1
  BY <1>1
<1>3. (cur + 1) % NumPlayers \in Seats
  BY <1>1, <1>2 DEF Seats
<1>4. next = [g EXCEPT !.currentPlayerIndex = (cur + 1) % NumPlayers]
  BY DEF AdvanceTurn
<1> HIDE DEF next
<1>5. /\ next \in GameType
      /\ next.currentPlayerIndex = (cur + 1) % NumPlayers
      /\ next.hand = g.hand /\ next.captured = g.captured /\ next.deck = g.deck
      /\ next.tableCards = g.tableCards /\ next.phase = g.phase
      /\ next.totalScore = g.totalScore /\ next.dealNumber = g.dealNumber
      /\ next.lastCapturerIndex = g.lastCapturerIndex
  BY <1>1, <1>3, <1>4 DEF GameType
<1>6. /\ Sound(next) /\ DeckInStepOf(next) /\ next.phase = "playing"
      /\ \A i \in Seats : next.totalScore[i] < WinScore
  BY <1>5 DEF Moved, Sound, NoDuplication, NoLoss, LastCapturerOf, DeckInStepOf
<1>7. PICK n \in 1 .. HandSize : \A i \in Seats :
         Cardinality(next.hand[i]) = IF i <= cur THEN n - 1 ELSE n
  BY <1>5 DEF Moved
<1>8. \A i \in Seats : next.hand[i] \in SUBSET Pack
  BY <1>1, <1>5
<1>9. CASE AllHandsEmpty(next)
  <2>1. cur + 1 = NumPlayers
    <3>1. SUFFICES ASSUME cur + 1 # NumPlayers PROVE FALSE
      OBVIOUS
    <3>2. cur + 1 \in Seats /\ ~(cur + 1 <= cur)
      BY <1>1, <3>1 DEF Seats
    <3>3. Cardinality(next.hand[cur + 1]) = n
      BY <1>7, <3>2
    <3>4. next.hand[cur + 1] = {}
      BY <1>9, <3>2 DEF AllHandsEmpty
    <3> QED BY <1>8, <3>2, <3>3, <3>4, NoneLeft, SizeAssumption
  <2>2. next.currentPlayerIndex = 0
    BY <1>2, <1>5, <2>1
  <2>3. CASE ~DeckEmpty(next)
    <3>1. h \in DealNextHand(next)
      BY <1>9, <2>3 DEF AdvanceTurnOrDeal, next
    <3>2. next.dealNumber # 0
      BY <1>5 DEF Moved
    <3> QED BY <1>6, <1>9, <2>2, <2>3, <3>1, <3>2, DealSettles
            DEF Undealt, AllHandsEmpty, DeckEmpty
  <2>4. CASE DeckEmpty(next)
    <3>1. h \in EndRound(next)
      BY <1>9, <2>4 DEF AdvanceTurnOrDeal, next
    <3>2. next.dealNumber # 0
      BY <1>5 DEF Moved
    <3> QED BY <1>6, <1>9, <2>2, <3>1, <3>2, EndRoundSettles
  <2> QED BY <2>3, <2>4
<1>10. CASE ~AllHandsEmpty(next)
  <2>1. h = next
    BY <1>10 DEF AdvanceTurnOrDeal, next
  <2>2. ASSUME cur + 1 # NumPlayers PROVE HandsInStepOf(next)
    <3>1. next.currentPlayerIndex = cur + 1
      BY <1>2, <1>5, <2>2
    <3>2. \A i \in Seats : i <= cur <=> i < cur + 1
      BY <1>1, SeatsFacts
    <3> QED BY <1>7, <3>1, <3>2 DEF HandsInStepOf
  <2>3. ASSUME cur + 1 = NumPlayers PROVE HandsInStepOf(next)
    <3>1. next.currentPlayerIndex = 0
      BY <1>2, <1>5, <2>3
    <3>2. \A i \in Seats : i <= cur /\ ~(i < 0)
      BY <1>1, <2>3, SeatsFacts
    <3>3. \A i \in Seats : Cardinality(next.hand[i]) = n - 1
      BY <1>7, <3>2
    <3>4. n - 1 # 0
      BY <1>8, <1>10, <3>3, NoneLeft DEF AllHandsEmpty
    <3>5. n - 1 \in 1 .. HandSize
      BY <3>4, SizeAssumption
    <3> QED BY <3>1, <3>2, <3>3, <3>5 DEF HandsInStepOf
  <2>4. next.dealNumber # 0
    BY <1>5 DEF Moved
  <2> QED BY <1>6, <1>10, <2>1, <2>2, <2>3, <2>4 DEF Settled
<1> QED BY <1>9, <1>10

\* A card that is played is played in a game that is on.
LEMMA MoverIsPlaying ==
    ASSUME NEW g, Settled(g), NEW c \in g.hand[g.currentPlayerIndex]
    PROVE  g.phase = "playing" /\ c \in Pack
  BY DEF Settled, Sound, GameType, AllHandsEmpty

\* In a settled game that is on the mover has a card.
LEMMA MoverHasACard ==
    ASSUME NEW g, Settled(g), g.phase = "playing"
    PROVE  g.hand[g.currentPlayerIndex] # {}
<1>1. g.currentPlayerIndex \in Seats
  BY DEF Settled, Sound, GameType
<1>2. PICK n \in 1 .. HandSize : \A i \in Seats :
         Cardinality(g.hand[i]) = IF i < g.currentPlayerIndex THEN n - 1 ELSE n
  BY DEF Settled, HandsInStepOf
<1>3. Cardinality(g.hand[g.currentPlayerIndex]) = n /\ n # 0
  BY <1>1, <1>2, SeatsFacts, SizeAssumption
<1> QED BY <1>3, FS_EmptySet

\* So no deal has failed.
LEMMA NoDealHasFailed == ASSUME NEW g, Settled(g) PROVE ~DealFailed(g)
<1>1. g.currentPlayerIndex \in Seats
  BY DEF Settled, Sound, GameType
<1> QED BY <1>1, MoverHasACard DEF DealFailed, AllHandsEmpty

-------------------------------------------------------------------------------
\* The inductive invariant.
FlowInv ==
    /\ Settled(state)
    /\ FlowTypeOK
    /\ PendingFits

\* The first deal gives a settled game.
LEMMA NewGameSettles ==
    ASSUME NEW g \in DealNextHand(NewGame)
    PROVE  Settled(g) /\ g.phase = "playing" /\ NewGame \in GameType
<1>1. NewGame \in GameType
  BY SeatsFacts DEF NewGame, GameType, Phases
<1>2. NoDuplication(NewGame) /\ NoLoss(NewGame) /\ LastCapturerOf(NewGame)
  BY DEF NewGame, NoDuplication, NoLoss, LastCapturerOf
<1>3. Undealt(NewGame)
  BY <1>1, <1>2, SizeAssumption DEF Undealt, Sound, NewGame
<1> QED BY <1>1, <1>3, DealSettles

LEMMA InitSettles == FlowInit => FlowInv
<1> SUFFICES ASSUME FlowInit PROVE FlowInv
  OBVIOUS
<1>1. Settled(state)
  BY NewGameSettles DEF FlowInit
<1> QED BY <1>1 DEF FlowInit, FlowInv, FlowTypeOK, PendingFits, Settled, Sound

\* A pending option can always be taken: the error path of ApplyCapture, which
\* loses the played card, is never reached.
LEMMA PendingCanBeTaken ==
    ASSUME FlowInv, NEW option \in pendingCapture
    PROVE  CaptureFits(state, CurrentPlayer, pendingCardID, option)
  BY OptionsOnTable DEF FlowInv, PendingFits, CaptureFits

\* An action that puts the game through a move and leaves no choice pending.
LEMMA MoveKeeps ==
    ASSUME FlowInv, NEW g, Moved(g), state' \in AdvanceTurnOrDeal(g),
           pendingCapture' = {}, pendingCardID' \in {pendingCardID} \cup Pack
    PROVE  FlowInv'
<1>1. Settled(state')
  BY AdvanceSettles
<1>2. state' \in GameType
  BY <1>1 DEF Settled, Sound
<1>3. FlowTypeOK'
  BY <1>2 DEF FlowInv, FlowTypeOK
<1>4. PendingFits'
  BY DEF PendingFits
<1> QED BY <1>1, <1>3, <1>4 DEF FlowInv

\* Every handler of the room keeps the inductive invariant.
LEMMA StepSettles == FlowInv /\ [FlowNext]_flowVars => FlowInv'
<1> SUFFICES ASSUME FlowInv, [FlowNext]_flowVars PROVE FlowInv'
  OBVIOUS
<1>1. Settled(state) /\ FlowTypeOK /\ PendingFits
  BY DEF FlowInv
<1>2. ASSUME NEW c \in Pack, Discard(c) PROVE FlowInv'
  <2>1. state.phase = "playing"
    BY <1>1, <1>2, MoverIsPlaying DEF Discard, CurrentPlayer
  <2>2. Moved(ApplyDiscard(state, CurrentPlayer, c))
    BY <1>1, <1>2, <2>1, DiscardMoves DEF Discard, CurrentPlayer
  <2> QED BY <1>2, <2>2, MoveKeeps DEF Discard
<1>3. ASSUME NEW c \in Pack, AutoCapture(c) PROVE FlowInv'
  <2>1. state.phase = "playing"
    BY <1>1, <1>3, MoverIsPlaying DEF AutoCapture, CurrentPlayer
  <2>2. PICK option \in ComputeCaptures(c, state.tableCards) :
           state' \in AdvanceTurnOrDeal(ApplyCapture(state, CurrentPlayer, c, option))
    BY <1>3 DEF AutoCapture
  <2>3. CaptureFits(state, CurrentPlayer, c, option)
    BY <1>3, OptionsOnTable DEF AutoCapture, CaptureFits
  <2>4. Moved(ApplyCapture(state, CurrentPlayer, c, option))
    BY <1>1, <2>1, <2>3, CaptureMoves DEF CurrentPlayer
  <2> QED BY <1>3, <2>2, <2>4, MoveKeeps DEF AutoCapture
<1>4. ASSUME NEW c \in Pack, OfferCaptures(c) PROVE FlowInv'
  <2>1. state.phase = "playing"
    BY <1>1, <1>4, MoverIsPlaying DEF OfferCaptures, CurrentPlayer
  <2>2. /\ state' = state /\ pendingCardID' = c
        /\ pendingCapture' = ComputeCaptures(c, state.tableCards)
        /\ c \in state.hand[CurrentPlayer]
    BY <1>4 DEF OfferCaptures
  <2>3. PendingFits'
    BY <2>1, <2>2 DEF PendingFits, CurrentPlayer
  <2>4. ComputeCaptures(c, state.tableCards) \in SUBSET (SUBSET (SUBSET Pack))
    <3>1. state.tableCards \in SUBSET Pack
      BY <1>1 DEF FlowTypeOK, GameType
    <3> QED BY <3>1 DEF ComputeCaptures, FindCaptureCombinations, FindSubsets
  <2>5. FlowTypeOK'
    BY <1>1, <2>2, <2>4 DEF FlowTypeOK
  <2> QED BY <1>1, <2>2, <2>3, <2>5 DEF FlowInv
<1>5. ASSUME NEW option \in pendingCapture, ChooseCapture(option) PROVE FlowInv'
  <2>1. state.phase = "playing"
    BY <1>1, <1>5 DEF PendingFits
  <2>2. Moved(ApplyCapture(state, CurrentPlayer, pendingCardID, option))
    BY <1>1, <1>5, <2>1, CaptureMoves DEF ChooseCapture, CurrentPlayer
  <2> QED BY <1>5, <2>2, MoveKeeps DEF ChooseCapture
<1>8. ASSUME NEW c \in Pack, NEW option \in ComputeCaptures(c, state.tableCards),
             CaptureAtOnce(c, option)
      PROVE  FlowInv'
  <2>1. state.phase = "playing"
    BY <1>1, <1>8, MoverIsPlaying DEF CaptureAtOnce, CurrentPlayer
  <2>2. CaptureFits(state, CurrentPlayer, c, option)
    BY <1>8, OptionsOnTable DEF CaptureAtOnce, CaptureFits
  <2>3. Moved(ApplyCapture(state, CurrentPlayer, c, option))
    BY <1>1, <2>1, <2>2, CaptureMoves DEF CurrentPlayer
  <2> QED BY <1>8, <2>3, MoveKeeps DEF CaptureAtOnce
<1>6. ASSUME NEW c \in Pack, Skip(c) PROVE FlowInv'
  <2>1. state.phase = "playing"
    BY <1>1, <1>6, MoverIsPlaying DEF Skip, CurrentPlayer
  <2>2. Moved(ApplyDiscard(state, CurrentPlayer, c))
    BY <1>1, <1>6, <2>1, DiscardMoves DEF Skip, CurrentPlayer
  <2> QED BY <1>6, <2>2, MoveKeeps DEF Skip
<1>7. CASE UNCHANGED flowVars
  BY <1>1, <1>7 DEF flowVars, FlowInv, FlowTypeOK, PendingFits, CurrentPlayer
<1> QED
  BY <1>2, <1>3, <1>4, <1>5, <1>6, <1>7, <1>8 DEF FlowNext, Finished

\* Between two critical sections the game is settled and what is pending fits it.
THEOREM FlowInvariance == FlowSpec => []FlowInv
<1> QED BY InitSettles, StepSettles, PTL DEF FlowSpec

\* Every state of the game is well formed.
THEOREM FlowTypeCorrect == FlowSpec => []FlowTypeOK
<1>1. FlowInv => FlowTypeOK
  BY DEF FlowInv
<1> QED BY <1>1, FlowInvariance, PTL

\* No deal, discard, capture, award or new round loses or duplicates a card.
THEOREM CardsAreConserved == FlowSpec => []CardsConserved
<1>1. FlowInv => CardsConserved
  BY DEF FlowInv, Settled, Sound, CardsConserved
<1> QED BY <1>1, FlowInvariance, PTL

\* The hands run down together, so the current player always has a card.
THEOREM HandsRunDownTogether == FlowSpec => []HandsInStep
<1>1. FlowInv => HandsInStep
  BY DEF FlowInv, Settled, HandsInStep
<1> QED BY <1>1, FlowInvariance, PTL

\* What the hands have to do with each other makes a move possible.
THEOREM CurrentPlayerHasACard ==
    FlowSpec => [](state.phase = "playing" => state.hand[CurrentPlayer] # {})
<1>1. FlowInv => (state.phase = "playing" => state.hand[CurrentPlayer] # {})
  BY MoverHasACard DEF FlowInv, CurrentPlayer
<1> QED BY <1>1, FlowInvariance, PTL

\* A deal never runs short of cards.
THEOREM DealsComeOut == FlowSpec => []DeckInStep
<1>1. FlowInv => DeckInStep
  BY NoDealHasFailed DEF FlowInv, Settled, DeckInStep
<1> QED BY <1>1, FlowInvariance, PTL

\* A pending choice is always one that can still be made.
THEOREM PendingChoicesFit == FlowSpec => []PendingFits
<1>1. FlowInv => PendingFits
  BY DEF FlowInv
<1> QED BY <1>1, FlowInvariance, PTL

\* Nobody plays on after winning.
THEOREM WinnersStopTheGame == FlowSpec => []NobodyHasWonYet
<1>1. FlowInv => NobodyHasWonYet
  BY DEF FlowInv, Settled, Sound, NobodyHasWonYet
<1> QED BY <1>1, FlowInvariance, PTL

\* The last capturer of a round, if there is one, has captured.
THEOREM LastHandGoesToACapturer == FlowSpec => []LastCapturerHasCaptured
<1>1. FlowInv => LastCapturerHasCaptured
  BY DEF FlowInv, Settled, Sound, LastCapturerHasCaptured
<1> QED BY <1>1, FlowInvariance, PTL

\* The groups of an option offered to a player add up to one and the same value
\* of the played card.
THEOREM OptionsHaveOneValue == FlowSpec => []OptionsShareOneValue
<1>1. ASSUME FlowInv PROVE OptionsShareOneValue
  <2>1. SUFFICES ASSUME NEW option \in pendingCapture
                 PROVE  \E v \in CardValues(pendingCardID) :
                            \A group \in option : AddsUpTo(group, v)
    BY DEF OptionsShareOneValue
  <2>2. /\ pendingCardID \in Pack /\ state.tableCards \in SUBSET Pack
        /\ option \in ComputeCaptures(pendingCardID, state.tableCards)
    BY <1>1, MoverIsPlaying
       DEF FlowInv, PendingFits, FlowTypeOK, GameType, CurrentPlayer
  <2> QED BY <2>2, OptionSharesAValue
<1>2. FlowInv => OptionsShareOneValue
  BY <1>1
<1> QED BY <1>2, FlowInvariance, PTL

\* The combinations of matching groups can be counted in an int.
FewGroups ==
    \A c \in state.hand[CurrentPlayer] :
        Cardinality(Groups(c, state.tableCards)) < IntBits - 1

\* What the current player's cards can capture is what the rules allow, as long
\* as the shift in findCombinations does not overflow.
THEOREM CapturesAreRight == FlowSpec => [](FewGroups => CapturesFollowTheRules)
<1>1. ASSUME FlowInv PROVE FewGroups => CapturesFollowTheRules
  <2>1. state.tableCards \in SUBSET Pack
    BY <1>1 DEF FlowInv, FlowTypeOK, GameType
  <2> QED BY <2>1, CapturesAreTheRules DEF FewGroups, CapturesFollowTheRules
<1>2. FlowInv => (FewGroups => CapturesFollowTheRules)
  BY <1>1
<1> QED BY <1>2, FlowInvariance, PTL

\* So the offer is right as long as at most five cards on the table count for no
\* more than the card that is played, however many higher ones there are.
THEOREM CapturesAreRightOnLowTables ==
    FlowSpec => []((\A c \in state.hand[CurrentPlayer] :
                        Cardinality(LowCards(c, state.tableCards)) <= 5)
                   => CapturesFollowTheRules)
<1>1. ASSUME FlowInv,
             \A c \in state.hand[CurrentPlayer] :
                 Cardinality(LowCards(c, state.tableCards)) <= 5
      PROVE  CapturesFollowTheRules
  <2>1. state.tableCards \in SUBSET Pack
    BY <1>1 DEF FlowInv, FlowTypeOK, GameType
  <2> QED BY <1>1, <2>1, CapturesAreTheRules, FewLowCards DEF CapturesFollowTheRules
<1>2. FlowInv => ((\A c \in state.hand[CurrentPlayer] :
                       Cardinality(LowCards(c, state.tableCards)) <= 5)
                  => CapturesFollowTheRules)
  BY <1>1
<1> QED BY <1>2, FlowInvariance, PTL
-------------------------------------------------------------------------------
\* The parts of the end of a turn, one at a time: passing the turn, awarding the
\* last cards, adding the scores up, dealing.
LEMMA PassingTheTurn ==
    ASSUME NEW g \in GameType
    PROVE  /\ AdvanceTurn(g) \in GameType
           /\ LET next == AdvanceTurn(g)
              IN /\ next.phase = g.phase /\ next.hand = g.hand
                 /\ next.captured = g.captured /\ next.tablas = g.tablas
                 /\ next.totalScore = g.totalScore /\ next.deck = g.deck
                 /\ next.tableCards = g.tableCards
                 /\ next.dealNumber = g.dealNumber
                 /\ next.roundNumber = g.roundNumber
                 /\ next.lastCapturerIndex = g.lastCapturerIndex
<1>1. (g.currentPlayerIndex + 1) % NumPlayers \in Seats
  BY SizeAssumption, SMTT(30) DEF Seats, GameType
<1>2. AdvanceTurn(g) \in GameType
  BY <1>1 DEF AdvanceTurn, GameType
<1> QED BY <1>2 DEF AdvanceTurn, GameType

LEMMA AwardingTheLastCards ==
    ASSUME NEW g \in GameType
    PROVE  /\ ApplyLastHandRule(g) \in GameType
           /\ LET last == ApplyLastHandRule(g)
              IN /\ last.phase = g.phase /\ last.hand = g.hand
                 /\ last.tablas = g.tablas /\ last.totalScore = g.totalScore
                 /\ last.deck = g.deck /\ last.dealNumber = g.dealNumber
                 /\ last.roundNumber = g.roundNumber
                 /\ last.lastCapturerIndex = g.lastCapturerIndex
                 /\ last.currentPlayerIndex = g.currentPlayerIndex
<1> DEFINE l == g.lastCapturerIndex
           last == ApplyLastHandRule(g)
<1>1. CASE g.tableCards = {} \/ l = NoSeat
  BY <1>1 DEF ApplyLastHandRule
<1>2. CASE ~(g.tableCards = {} \/ l = NoSeat)
  <2>1. last = [g EXCEPT !.captured[l] = @ \cup g.tableCards, !.tableCards = {}]
    BY <1>2 DEF ApplyLastHandRule
  <2>2. [g.captured EXCEPT ![l] = @ \cup g.tableCards] \in [Seats -> SUBSET Pack]
    BY <1>2 DEF GameType
  <2>3. last.captured = [g.captured EXCEPT ![l] = @ \cup g.tableCards]
    BY <2>1 DEF GameType
  <2> QED BY <2>1, <2>2, <2>3 DEF GameType
<1> QED BY <1>1, <1>2

\* The parts of a game that the end of a round changes, replaced likewise.
LEMMA PartsOfARound ==
    ASSUME NEW g \in GameType, NEW totalScore \in [Seats -> Nat],
           NEW piles \in [Seats -> SUBSET Pack], NEW tablas \in [Seats -> Nat],
           NEW deck \in SUBSET Pack, NEW tableCards \in SUBSET Pack, NEW n \in Nat
    PROVE  [g EXCEPT !.totalScore = totalScore, !.captured = piles, !.tablas = tablas,
                     !.hand = piles, !.deck = deck, !.tableCards = tableCards,
                     !.lastCapturerIndex = NoSeat, !.dealNumber = 0,
                     !.roundNumber = n] \in GameType
  BY DEF GameType

LEMMA AddingUp ==
    ASSUME NEW g \in GameType
    PROVE  LET scores == ComputeRoundScores(g)
               fresh  == ApplyRoundScores(g, scores)
           IN /\ fresh \in GameType
              /\ fresh.totalScore = [i \in Seats |-> Standing(g, scores, i)]
              /\ fresh.roundNumber = g.roundNumber + 1
              /\ fresh.phase = g.phase
<1> DEFINE scores == ComputeRoundScores(g)
           sums == [i \in Seats |-> Standing(g, scores, i)]
<1>1. \A i \in Seats : g.totalScore[i] \in Nat
  BY DEF GameType
<1>2. sums \in [Seats -> Nat]
  BY <1>1, ScoresNat DEF Standing
<1>3. /\ [i \in Seats |-> {}] \in [Seats -> SUBSET Pack]
      /\ [i \in Seats |-> 0] \in [Seats -> Nat]
  OBVIOUS
<1>4. g.roundNumber + 1 \in Nat
  BY DEF GameType
<1> HIDE DEF scores
<1>5. ApplyRoundScores(g, scores) =
          [g EXCEPT !.totalScore = sums, !.captured = [i \in Seats |-> {}],
                    !.tablas = [i \in Seats |-> 0], !.hand = [i \in Seats |-> {}],
                    !.deck = Pack, !.tableCards = {}, !.lastCapturerIndex = NoSeat,
                    !.dealNumber = 0, !.roundNumber = @ + 1]
  BY DEF ApplyRoundScores
<1> HIDE DEF sums
<1>6. ApplyRoundScores(g, scores) \in GameType
  <2> DEFINE none == [i \in Seats |-> {}]
             zero == [i \in Seats |-> 0]
             next == g.roundNumber + 1
  <2>1. ApplyRoundScores(g, scores) =
            [g EXCEPT !.totalScore = sums, !.captured = none, !.tablas = zero,
                      !.hand = none, !.deck = Pack, !.tableCards = {},
                      !.lastCapturerIndex = NoSeat, !.dealNumber = 0,
                      !.roundNumber = next]
    BY <1>5
  <2>2. none \in [Seats -> SUBSET Pack] /\ zero \in [Seats -> Nat] /\ next \in Nat
    BY <1>3, <1>4
  <2>3. Pack \in SUBSET Pack /\ {} \in SUBSET Pack
    OBVIOUS
  <2> HIDE DEF none, zero, next
  <2>4. [g EXCEPT !.totalScore = sums, !.captured = none, !.tablas = zero,
                  !.hand = none, !.deck = Pack, !.tableCards = {},
                  !.lastCapturerIndex = NoSeat, !.dealNumber = 0,
                  !.roundNumber = next] \in GameType
    BY <1>2, <2>2, <2>3, PartsOfARound
  <2> QED BY <2>1, <2>4
<1>7. /\ ApplyRoundScores(g, scores).totalScore = sums
      /\ ApplyRoundScores(g, scores).roundNumber = g.roundNumber + 1
      /\ ApplyRoundScores(g, scores).phase = g.phase
  BY <1>5 DEF GameType
<1> QED BY <1>6, <1>7 DEF scores, sums

LEMMA Dealing ==
    ASSUME NEW g \in GameType, NEW h \in DealNextHand(g)
    PROVE  /\ h.totalScore = g.totalScore
           /\ h.roundNumber = g.roundNumber
           /\ h.phase \in {g.phase, "playing"}
<1>1. CASE CanDeal(g)
  <2>1. PICK taken : \E split : h = AfterDeal(g, taken, split)
    BY <1>1 DEF DealNextHand
  <2> QED BY <2>1 DEF AfterDeal, GameType
<1>2. CASE ~CanDeal(g)
  BY <1>2 DEF DealNextHand
<1> QED BY <1>1, <1>2

\* What the scores of a round are for teams.
LEMMA TeamScores ==
    ASSUME NEW g \in GameType, NumPlayers = 4, NEW i \in Seats
    PROVE  LET pile(t) == g.captured[t] \cup g.captured[t + 2]
           IN ComputeRoundScores(g)[i] =
                  [cardPoints  |-> CardPoints(pile(i % 2)),
                   spilPoints  |-> SpilPoints(pile(i % 2), {pile((i + 1) % 2)}),
                   tablaPoints |-> g.tablas[i % 2] + g.tablas[(i % 2) + 2]]
  BY DEF ComputeRoundScores, ComputeTeamRoundScores
-------------------------------------------------------------------------------
\* Partners have the same total in a game.
Tied(g) == NumPlayers = 4 => \A i \in {0, 1} : g.totalScore[i] = g.totalScore[i + 2]

\* Passing the turn adds the same to the totals of partners.
LEMMA AdvanceTied ==
    ASSUME NEW g \in GameType, Tied(g), NEW h \in AdvanceTurnOrDeal(g)
    PROVE  Tied(h)
<1> DEFINE next == AdvanceTurn(g)
           last == ApplyLastHandRule(next)
           scores == ComputeRoundScores(last)
           fresh == ApplyRoundScores(last, scores)
<1>1. next \in GameType /\ next.totalScore = g.totalScore
  BY PassingTheTurn
<1>2. last \in GameType /\ last.totalScore = g.totalScore
  BY <1>1, AwardingTheLastCards
<1>3. Tied(last)
  BY <1>2 DEF Tied
<1>4. ASSUME NumPlayers = 4, NEW i \in {0, 1}
      PROVE  Standing(last, scores, i) = Standing(last, scores, i + 2)
  <2>1. i \in Seats /\ i + 2 \in Seats /\ (i + 2) % 2 = i % 2 /\ (i + 2 + 1) % 2 = (i + 1) % 2
    BY <1>4 DEF Seats
  <2>2. scores[i] = scores[i + 2]
    <3> HIDE DEF last
    <3> QED BY <1>2, <1>4, <2>1, TeamScores, ZenonT(60)
  <2>3. last.totalScore[i] = last.totalScore[i + 2]
    BY <1>3, <1>4 DEF Tied
  <2> HIDE DEF last, scores
  <2> QED BY <2>2, <2>3 DEF Standing
<1>5. fresh \in GameType /\ Tied(fresh)
  <2>1. fresh \in GameType /\ fresh.totalScore = [i \in Seats |-> Standing(last, scores, i)]
    BY <1>2, AddingUp
  <2>2. ASSUME NumPlayers = 4, NEW i \in {0, 1} PROVE i \in Seats /\ i + 2 \in Seats
    BY <2>2 DEF Seats
  <2> HIDE DEF fresh, last, scores
  <2> QED BY <1>4, <2>1, <2>2 DEF Tied
<1>6. CASE ~AllHandsEmpty(next)
  BY <1>1, <1>6 DEF AdvanceTurnOrDeal, Tied
<1>7. CASE AllHandsEmpty(next) /\ ~DeckEmpty(next)
  BY <1>1, <1>7, Dealing DEF AdvanceTurnOrDeal, Tied
<1>8. CASE AllHandsEmpty(next) /\ DeckEmpty(next)
  <2>1. h \in EndRound(next)
    BY <1>8 DEF AdvanceTurnOrDeal
  <2>2. CASE SomeoneWins(last, scores)
    <3>1. h = [last EXCEPT !.phase = "game_over"]
      BY <2>1, <2>2 DEF EndRound
    <3> HIDE DEF last
    <3>2. h.totalScore = last.totalScore
      BY <1>2, <3>1 DEF GameType
    <3> QED BY <1>3, <3>2 DEF Tied
  <2>3. CASE ~SomeoneWins(last, scores)
    <3>1. h \in DealNextHand(fresh)
      BY <2>1, <2>3 DEF EndRound
    <3> HIDE DEF fresh
    <3>2. h.totalScore = fresh.totalScore
      BY <1>5, <3>1, Dealing
    <3> QED BY <1>5, <3>2 DEF Tied
  <2> QED BY <2>2, <2>3
<1> QED BY <1>6, <1>7, <1>8

\* A card has left the hand of the player to move, and no other card has moved
\* between deck and hands.
CardIsOut(g) ==
    \E c \in state.hand[CurrentPlayer] :
        g.deck = state.deck /\ g.hand = [state.hand EXCEPT ![CurrentPlayer] = @ \ {c}]

\* A handler either leaves the game alone or plays a card out of it and passes
\* the turn: what is left of the game before the turn passes.
LEMMA StepIsAMove ==
    ASSUME FlowInv, [FlowNext]_flowVars, ~UNCHANGED flowVars,
           state' # state \/ pendingCapture' = {}
    PROVE  /\ state.phase = "playing"
           /\ \E g : /\ Moved(g) /\ CardIsOut(g)
                     /\ state' \in AdvanceTurnOrDeal(g)
                     /\ g.totalScore = state.totalScore
                     /\ g.roundNumber = state.roundNumber
                     /\ \/ g.tablas = state.tablas
                        \/ g.tablas = [state.tablas EXCEPT ![CurrentPlayer] = @ + 1]
                     /\ state.lastCapturerIndex # NoSeat => g.lastCapturerIndex # NoSeat
<1>1. Settled(state) /\ FlowTypeOK /\ PendingFits /\ state \in GameType
      /\ CurrentPlayer \in Seats
  BY DEF FlowInv, FlowTypeOK, GameType, CurrentPlayer
<1>2. ASSUME NEW c \in state.hand[CurrentPlayer],
             state' \in AdvanceTurnOrDeal(ApplyDiscard(state, CurrentPlayer, c))
      PROVE  state.phase = "playing"
             /\ \E g : /\ Moved(g) /\ CardIsOut(g)
                       /\ state' \in AdvanceTurnOrDeal(g)
                       /\ g.totalScore = state.totalScore
                       /\ g.roundNumber = state.roundNumber
                       /\ g.tablas = state.tablas
                       /\ g.lastCapturerIndex = state.lastCapturerIndex
  <2> DEFINE g == ApplyDiscard(state, CurrentPlayer, c)
  <2>1. state.phase = "playing"
    BY <1>1, MoverIsPlaying DEF CurrentPlayer
  <2>2. Moved(g)
    BY <1>1, <2>1, DiscardMoves DEF CurrentPlayer
  <2>3. /\ g.totalScore = state.totalScore /\ g.roundNumber = state.roundNumber
        /\ g.tablas = state.tablas /\ g.lastCapturerIndex = state.lastCapturerIndex
    BY <1>1 DEF ApplyDiscard, GameType
  <2>4. g.deck = state.deck /\ g.hand = [state.hand EXCEPT ![CurrentPlayer] = @ \ {c}]
    BY <1>1 DEF ApplyDiscard, GameType
  <2> HIDE DEF g
  <2>5. CardIsOut(g)
    BY <1>2, <2>4 DEF CardIsOut
  <2> QED BY <1>2, <2>1, <2>2, <2>3, <2>5 DEF g
<1>3. ASSUME NEW c, NEW option, CaptureFits(state, CurrentPlayer, c, option),
             state' \in AdvanceTurnOrDeal(ApplyCapture(state, CurrentPlayer, c, option))
      PROVE  state.phase = "playing"
             /\ \E g : /\ Moved(g) /\ CardIsOut(g)
                       /\ state' \in AdvanceTurnOrDeal(g)
                       /\ g.totalScore = state.totalScore
                       /\ g.roundNumber = state.roundNumber
                       /\ \/ g.tablas = state.tablas
                          \/ g.tablas = [state.tablas EXCEPT ![CurrentPlayer] = @ + 1]
                       /\ g.lastCapturerIndex = CurrentPlayer
  <2> DEFINE g == ApplyCapture(state, CurrentPlayer, c, option)
             rest == state.tableCards \ UNION option
             cur == CurrentPlayer
  <2>1. c \in state.hand[CurrentPlayer]
    BY <1>3 DEF CaptureFits
  <2>2. state.phase = "playing"
    BY <1>1, <2>1, MoverIsPlaying DEF CurrentPlayer
  <2>3. Moved(g)
    BY <1>1, <1>3, <2>2, CaptureMoves DEF CurrentPlayer
  <2>4. g = [state EXCEPT !.hand[cur]         = @ \ {c},
                          !.tableCards        = rest,
                          !.captured[cur]     = @ \cup {c} \cup UNION option,
                          !.lastCapturerIndex = cur,
                          !.tablas[cur]       = IF rest = {} THEN @ + 1 ELSE @]
    BY <1>3 DEF ApplyCapture
  <2>5. state.tablas \in [Seats -> Nat]
    BY <1>1 DEF GameType
  <2> HIDE DEF g, rest
  <2>6. /\ g.totalScore = state.totalScore /\ g.roundNumber = state.roundNumber
        /\ g.tablas = [state.tablas EXCEPT ![cur] = IF rest = {} THEN @ + 1 ELSE @]
        /\ g.lastCapturerIndex = cur
    BY <1>1, <2>4 DEF GameType
  <2>7. \/ g.tablas = state.tablas
        \/ g.tablas = [state.tablas EXCEPT ![cur] = @ + 1]
    BY <2>5, <2>6
  <2>8. g.deck = state.deck /\ g.hand = [state.hand EXCEPT ![cur] = @ \ {c}]
    BY <1>1, <2>4 DEF GameType
  <2>9. CardIsOut(g)
    BY <2>1, <2>8 DEF CardIsOut
  <2> QED BY <1>3, <2>2, <2>3, <2>6, <2>7, <2>9 DEF g
<1>4. NoSeat # CurrentPlayer
  BY <1>1, SeatsFacts
<1>5. ASSUME NEW c \in Pack, Discard(c) \/ Skip(c)
      PROVE  c \in state.hand[CurrentPlayer]
             /\ state' \in AdvanceTurnOrDeal(ApplyDiscard(state, CurrentPlayer, c))
  BY <1>5 DEF Discard, Skip
<1>6. ASSUME NEW c \in Pack, AutoCapture(c)
      PROVE  \E option : CaptureFits(state, CurrentPlayer, c, option)
             /\ state' \in AdvanceTurnOrDeal(ApplyCapture(state, CurrentPlayer, c, option))
  BY <1>6, OptionsOnTable DEF AutoCapture, CaptureFits
<1>7. ASSUME NEW c \in Pack, NEW option \in ComputeCaptures(c, state.tableCards),
             CaptureAtOnce(c, option)
      PROVE  CaptureFits(state, CurrentPlayer, c, option)
             /\ state' \in AdvanceTurnOrDeal(ApplyCapture(state, CurrentPlayer, c, option))
  BY <1>7, OptionsOnTable DEF CaptureAtOnce, CaptureFits
<1>8. ASSUME NEW option \in pendingCapture, ChooseCapture(option)
      PROVE  CaptureFits(state, CurrentPlayer, pendingCardID, option)
             /\ state' \in AdvanceTurnOrDeal(
                               ApplyCapture(state, CurrentPlayer, pendingCardID, option))
  BY <1>8 DEF ChooseCapture
<1>9. ASSUME NEW c \in Pack PROVE ~OfferCaptures(c)
  <2>1. SUFFICES ASSUME OfferCaptures(c) PROVE FALSE
    OBVIOUS
  <2>2. Cardinality(ComputeCaptures(c, state.tableCards)) >= 2
        /\ ComputeCaptures(c, state.tableCards) = {}
    BY <2>1 DEF OfferCaptures
  <2> QED BY <2>2, FS_EmptySet
<1>10. ~Finished /\ ~(UNCHANGED flowVars)
  BY DEF Finished
<1> QED
  BY <1>2, <1>3, <1>4, <1>5, <1>6, <1>7, <1>8, <1>9, <1>10 DEF FlowNext

\* Every handler keeps partners at the same total.
LEMMA StepKeepsTied == FlowInv /\ Tied(state) /\ [FlowNext]_flowVars => Tied(state)'
<1> SUFFICES ASSUME FlowInv, Tied(state), [FlowNext]_flowVars, state' # state
             PROVE  Tied(state')
  BY DEF Tied
<1>1. PICK g : /\ Moved(g) /\ state' \in AdvanceTurnOrDeal(g)
               /\ g.totalScore = state.totalScore
  BY StepIsAMove DEF flowVars
<1>2. g \in GameType /\ Tied(g)
  BY <1>1 DEF Moved, Sound, Tied
<1> QED BY <1>1, <1>2, AdvanceTied

\* Partners always have the same total.
THEOREM PartnersStayTied == FlowSpec => []PartnersTied
<1>1. FlowInit => Tied(state)
  <2> SUFFICES ASSUME FlowInit PROVE Tied(state)
    OBVIOUS
  <2>1. NewGame \in GameType
    BY SeatsFacts DEF NewGame, GameType, Phases
  <2>2. state.totalScore = [i \in Seats |-> 0]
    BY <2>1, Dealing DEF FlowInit, NewGame
  <2> QED BY <2>2 DEF Tied, Seats
<1>2. Tied(state) <=> PartnersTied
  BY DEF Tied, PartnersTied
<1> QED BY <1>1, <1>2, FlowInvariance, StepKeepsTied, PTL DEF FlowSpec
-------------------------------------------------------------------------------
\* What a round pays.

LEMMA SeatsFinite == IsFiniteSet(Seats)
<1>1. 0 \in Int /\ NumPlayers - 1 \in Int
  BY SizeAssumption
<1> QED BY <1>1, FS_Interval DEF Seats

\* Piles without a card in common have the points of both.
LEMMA PointsOfBoth ==
    ASSUME NEW A \in SUBSET Pack, NEW B \in SUBSET Pack, A \cap B = {}
    PROVE  CardPoints(A \cup B) = CardPoints(A) + CardPoints(B)
<1> DEFINE points(S) == {p \in S \X (1..2) : p[2] <= CardPoint(p[1])}
<1>1. ASSUME NEW S \in SUBSET Pack PROVE IsFiniteSet(points(S))
  <2>1. IsFiniteSet(S)
    BY CardsFinite
  <2>2. 1 \in Int /\ 2 \in Int
    OBVIOUS
  <2>3. IsFiniteSet(1 .. 2)
    BY ONLY <2>2, FS_Interval
  <2>4. IsFiniteSet(S \X (1 .. 2))
    BY <2>1, <2>3, FS_Product
  <2> QED BY <2>4, FS_Subset
<1>2. points(A \cup B) = points(A) \cup points(B)
  OBVIOUS
<1>3. points(A) \cap points(B) = {}
  OBVIOUS
<1>4. IsFiniteSet(points(A)) /\ IsFiniteSet(points(B))
  BY <1>1
<1>5. Cardinality(points(A) \cap points(B)) = 0
  BY <1>3, FS_EmptySet
<1>6. Cardinality(points(A)) \in Nat /\ Cardinality(points(B)) \in Nat
  BY <1>4, FS_CardinalityType
<1>7. CardPoints(A) = Cardinality(points(A)) /\ CardPoints(B) = Cardinality(points(B))
      /\ CardPoints(A \cup B) = Cardinality(points(A \cup B))
  BY DEF CardPoints
<1> HIDE DEF points
<1>8. Cardinality(points(A) \cup points(B)) =
          Cardinality(points(A)) + Cardinality(points(B)) - Cardinality(points(A) \cap points(B))
  BY <1>4, FS_Union
<1>9. Cardinality(points(A) \cup points(B)) = Cardinality(points(A)) + Cardinality(points(B))
  BY <1>5, <1>6, <1>8
<1> QED BY <1>2, <1>7, <1>9

\* The piles of any seats together have the points of their union.
LEMMA PointsOfPiles ==
    ASSUME NEW captured \in [Seats -> SUBSET Pack],
           \A i, j \in Seats : i # j => captured[i] \cap captured[j] = {}
    PROVE  SumOver([i \in Seats |-> CardPoints(captured[i])], Seats)
               = CardPoints(UNION {captured[i] : i \in Seats})
<1> DEFINE f == [i \in Seats |-> CardPoints(captured[i])]
           piles(s) == UNION {captured[i] : i \in s}
           Good == {s \in SUBSET Seats : SumOver(f, s) = CardPoints(piles(s))}
<1>1. ASSUME NEW s \in SUBSET Seats, \A x \in s : s \ {x} \in Good PROVE s \in Good
  <2>1. CASE s = {}
    <3>1. piles(s) = {} /\ {} \X (1 .. 2) = {}
      BY <2>1
    <3>2. {p \in {} \X (1..2) : p[2] <= CardPoint(p[1])} = {}
      BY <3>1
    <3>3. CardPoints({}) = 0
      BY <3>2, FS_EmptySet DEF CardPoints
    <3>4. SumOver(f, s) = 0
      BY <2>1, SumOfNone
    <3> QED BY <3>1, <3>3, <3>4
  <2>2. CASE s # {}
    <3>1. PICK x \in s : TRUE
      BY <2>2
    <3>2. /\ piles(s \ {x}) \in SUBSET Pack /\ captured[x] \in SUBSET Pack
          /\ captured[x] \cap piles(s \ {x}) = {}
          /\ piles(s) = captured[x] \cup piles(s \ {x})
      BY <3>1
    <3>3. CardPoints(piles(s)) = CardPoints(captured[x]) + CardPoints(piles(s \ {x}))
      <4> HIDE DEF piles
      <4> QED BY <3>2, PointsOfBoth
    <3>4. \A i \in s : f[i] \in Int
      BY CardPointsNat
    <3>5. IsFiniteSet(s)
      BY SeatsFinite, FS_Subset
    <3>6. SumOver(f, s) = f[x] + SumOver(f, s \ {x})
      <4> HIDE DEF f
      <4> QED BY <3>1, <3>4, <3>5, SumStep
    <3>7. f[x] = CardPoints(captured[x])
      BY <3>1
    <3>8. SumOver(f, s \ {x}) = CardPoints(piles(s \ {x}))
      BY <1>1, <3>1
    <3> HIDE DEF f, piles
    <3>9. SumOver(f, s) = CardPoints(piles(s))
      BY <3>3, <3>6, <3>7, <3>8
    <3> QED BY <3>9
  <2> QED BY <2>1, <2>2
<1> HIDE DEF Good
<1>2. \A s \in SUBSET Seats : s \in Good
  BY <1>1, SeatsFinite, SetInduct
<1> QED BY <1>2 DEF Good

\* A seat, or a team, gets Spil only if no other pile is as large.
LEMMA SpilGoesToOne ==
    ASSUME NEW A, NEW B, NEW othersOfA, NEW othersOfB,
           B \in othersOfA, A \in othersOfB,
           Cardinality(A) \in Nat, Cardinality(B) \in Nat
    PROVE  /\ SpilPoints(A, othersOfA) \in {0, 3}
           /\ ~(SpilPoints(A, othersOfA) = 3 /\ SpilPoints(B, othersOfB) = 3)
<1>1. SpilPoints(A, othersOfA) = 3 => Cardinality(B) < Cardinality(A)
  BY DEF SpilPoints
<1>2. SpilPoints(B, othersOfB) = 3 => Cardinality(A) < Cardinality(B)
  BY DEF SpilPoints
<1>3. SpilPoints(A, othersOfA) \in {0, 3}
  BY DEF SpilPoints
<1> QED BY <1>1, <1>2, <1>3

\* When everything is captured the scores of a round add up to the points of
\* the pack, the tablas and at most one Spil; for teams to twice that.
ScoresPay(g) ==
    SumOverSeats([i \in Seats |-> Total(ComputeRoundScores(g)[i])])
        \in {(IF NumPlayers = 4 THEN 2 ELSE 1)
                 * (CardPoints(Pack) + SumOverSeats(g.tablas) + s) : s \in {0, 3}}

LEMMA IndividualTotal ==
    ASSUME NEW g, NumPlayers # 4, NEW i \in Seats
    PROVE  Total(ComputeRoundScores(g)[i])
               = CardPoints(g.captured[i])
                     + SpilPoints(g.captured[i], {g.captured[j] : j \in Seats \ {i}})
                     + g.tablas[i]
<1> DEFINE score == [cardPoints  |-> CardPoints(g.captured[i]),
                     spilPoints  |-> SpilPoints(g.captured[i],
                                                {g.captured[j] : j \in Seats \ {i}}),
                     tablaPoints |-> g.tablas[i]]
<1>1. ComputeRoundScores(g)[i] = score
  BY DEF ComputeRoundScores, IndividualRoundScores
<1>2. Total(score) = CardPoints(g.captured[i])
                         + SpilPoints(g.captured[i], {g.captured[j] : j \in Seats \ {i}})
                         + g.tablas[i]
  BY DEF Total
<1> QED BY <1>1, <1>2

LEMMA IndividualsArePaid ==
    ASSUME NEW g \in GameType, NumPlayers # 4,
           \A i, j \in Seats : i # j => g.captured[i] \cap g.captured[j] = {},
           UNION {g.captured[i] : i \in Seats} = Pack
    PROVE  ScoresPay(g)
<1> DEFINE cards == [i \in Seats |-> CardPoints(g.captured[i])]
           others(i) == {g.captured[j] : j \in Seats \ {i}}
           spil == [i \in Seats |-> SpilPoints(g.captured[i], others(i))]
           rest == [i \in Seats |-> spil[i] + g.tablas[i]]
           total == [i \in Seats |-> Total(ComputeRoundScores(g)[i])]
<1>1. g.captured \in [Seats -> SUBSET Pack] /\ g.tablas \in [Seats -> Nat]
  BY DEF GameType
<1>2. SumOver(cards, Seats) = CardPoints(Pack)
  BY <1>1, PointsOfPiles
<1>3. \A i \in Seats : cards[i] \in Int /\ spil[i] \in {0, 3} /\ g.tablas[i] \in Int
  BY <1>1, CardPointsNat DEF SpilPoints
<1>4. ASSUME NEW i \in Seats, NEW j \in Seats, spil[i] = 3, spil[j] = 3 PROVE i = j
  <2>1. SUFFICES ASSUME i # j PROVE FALSE
    OBVIOUS
  <2>2. g.captured[j] \in others(i) /\ g.captured[i] \in others(j)
    BY <2>1
  <2>3. Cardinality(g.captured[i]) \in Nat /\ Cardinality(g.captured[j]) \in Nat
    BY <1>1, CardsFinite
  <2>4. SpilPoints(g.captured[i], others(i)) = 3 /\ SpilPoints(g.captured[j], others(j)) = 3
    BY <1>4
  <2> HIDE DEF others
  <2> QED BY <2>2, <2>3, <2>4, SpilGoesToOne
<1>5. \A i \in Seats : total[i] = cards[i] + rest[i]
  <2>2. \A i \in Seats : Total(ComputeRoundScores(g)[i])
                             = CardPoints(g.captured[i]) + SpilPoints(g.captured[i], others(i))
                                   + g.tablas[i]
    BY IndividualTotal
  <2>3. \A i \in Seats : total[i] = cards[i] + spil[i] + g.tablas[i]
    BY <2>2
  <2>4. \A i \in Seats : rest[i] = spil[i] + g.tablas[i]
    OBVIOUS
  <2> HIDE DEF total, cards, rest, spil
  <2> QED BY <1>3, <2>3, <2>4
<1>6. \A i \in Seats : rest[i] = spil[i] + g.tablas[i]
  OBVIOUS
<1>7. SumOverSeats(total) = SumOver(total, Seats)
  BY DEF SumOverSeats
<1> HIDE DEF cards, spil, rest, total
<1>8. SumOver(spil, Seats) \in {0, 3}
  <2>1. 3 \in Int /\ 3 # 0
    OBVIOUS
  <2> QED BY <1>3, <1>4, <2>1, SeatsFinite, SumOfAtMostOne
<1>9. \A i \in Seats : spil[i] \in Int /\ rest[i] \in Int
  BY <1>3, <1>6
<1>10. SumOver(rest, Seats) = SumOver(spil, Seats) + SumOver(g.tablas, Seats)
  BY <1>3, <1>6, <1>9, SeatsFinite, SumOfPlus
<1>11. SumOver(total, Seats) = SumOver(cards, Seats) + SumOver(rest, Seats)
  BY <1>3, <1>5, <1>9, SeatsFinite, SumOfPlus
<1>12. SumOver(g.tablas, Seats) \in Int /\ CardPoints(Pack) \in Nat
  BY <1>3, SeatsFinite, SumIsInt, CardPointsNat
<1>13. SumOver(total, Seats) = 1 * (CardPoints(Pack) + SumOver(g.tablas, Seats) + SumOver(spil, Seats))
  BY <1>2, <1>8, <1>10, <1>11, <1>12
<1>14. SumOverSeats(g.tablas) = SumOver(g.tablas, Seats)
  BY DEF SumOverSeats
<1>15. SumOverSeats(total) \in {1 * (CardPoints(Pack) + SumOverSeats(g.tablas) + s) : s \in {0, 3}}
  BY <1>7, <1>8, <1>13, <1>14
<1> QED BY <1>15 DEF ScoresPay, total
LEMMA TeamsArePaid ==
    ASSUME NEW g \in GameType, NumPlayers = 4,
           \A i, j \in Seats : i # j => g.captured[i] \cap g.captured[j] = {},
           UNION {g.captured[i] : i \in Seats} = Pack
    PROVE  ScoresPay(g)
<1> DEFINE pile(t) == g.captured[t] \cup g.captured[t + 2]
           A == pile(0)
           B == pile(1)
           a == SpilPoints(A, {B})
           b == SpilPoints(B, {A})
           total == [i \in Seats |-> Total(ComputeRoundScores(g)[i])]
           tab == g.tablas
<1>1. Seats = 0 .. 3 /\ 0 \in Seats /\ 1 \in Seats /\ 2 \in Seats /\ 3 \in Seats
  BY DEF Seats
<1>2. g.captured \in [Seats -> SUBSET Pack] /\ tab \in [Seats -> Nat]
  BY DEF GameType
<1>3. pile(0) = g.captured[0] \cup g.captured[2] /\ pile(1) = g.captured[1] \cup g.captured[3]
  OBVIOUS
<1>4. /\ A \in SUBSET Pack /\ B \in SUBSET Pack
      /\ A \cap B = {}
      /\ A \cup B = Pack
  BY <1>1, <1>2, <1>3
<1>5. \A i \in Seats : total[i] = CardPoints(pile(i % 2))
                                      + SpilPoints(pile(i % 2), {pile((i + 1) % 2)})
                                      + (tab[i % 2] + tab[(i % 2) + 2])
  <2>1. ASSUME NEW i \in Seats
        PROVE  Total(ComputeRoundScores(g)[i]) =
                   CardPoints(pile(i % 2)) + SpilPoints(pile(i % 2), {pile((i + 1) % 2)})
                       + (tab[i % 2] + tab[(i % 2) + 2])
    <3> DEFINE score == [cardPoints  |-> CardPoints(pile(i % 2)),
                         spilPoints  |-> SpilPoints(pile(i % 2), {pile((i + 1) % 2)}),
                         tablaPoints |-> tab[i % 2] + tab[(i % 2) + 2]]
    <3>1. ComputeRoundScores(g)[i] = score
      BY TeamScores
    <3>2. Total(score) = CardPoints(pile(i % 2))
                             + SpilPoints(pile(i % 2), {pile((i + 1) % 2)})
                             + (tab[i % 2] + tab[(i % 2) + 2])
      BY DEF Total
    <3> QED BY <3>1, <3>2
  <2> QED BY <2>1
<1> HIDE DEF total
<1>6. /\ total[0] = CardPoints(A) + a + (tab[0] + tab[2])
      /\ total[2] = CardPoints(A) + a + (tab[0] + tab[2])
      /\ total[1] = CardPoints(B) + b + (tab[1] + tab[3])
      /\ total[3] = CardPoints(B) + b + (tab[1] + tab[3])
  <2>1. /\ 0 % 2 = 0 /\ (0 + 1) % 2 = 1 /\ 2 % 2 = 0 /\ (2 + 1) % 2 = 1
        /\ 1 % 2 = 1 /\ (1 + 1) % 2 = 0 /\ 3 % 2 = 1 /\ (3 + 1) % 2 = 0
        /\ 0 + 2 = 2 /\ 1 + 2 = 3
    OBVIOUS
  <2> HIDE DEF pile
  <2> QED BY <1>1, <1>5, <2>1
<1>7. CardPoints(A) \in Nat /\ CardPoints(B) \in Nat
      /\ CardPoints(A) + CardPoints(B) = CardPoints(Pack)
  <2> HIDE DEF A, B
  <2>1. CardPoints(A \cup B) = CardPoints(A) + CardPoints(B)
    BY <1>4, PointsOfBoth
  <2> QED BY <1>4, <2>1, CardPointsNat
<1>8. a + b \in {0, 3} /\ a \in {0, 3} /\ b \in {0, 3}
  <2> HIDE DEF A, B
  <2>1. Cardinality(A) \in Nat /\ Cardinality(B) \in Nat /\ B \in {B} /\ A \in {A}
    BY <1>4, CardsFinite
  <2>2. a \in {0, 3} /\ b \in {0, 3} /\ ~(a = 3 /\ b = 3)
    BY <2>1, SpilGoesToOne
  <2> QED BY <2>2
<1>9. tab[0] \in Nat /\ tab[1] \in Nat /\ tab[2] \in Nat /\ tab[3] \in Nat
  BY <1>1, <1>2
<1> HIDE DEF A, B, a, b, tab
<1>10. SumOverSeats(tab) = tab[0] + tab[1] + tab[2] + tab[3]
  <2>1. \A i \in 0 .. 3 : tab[i] \in Int
    BY <1>1, <1>2
  <2> QED BY <1>1, <2>1, SumOverFour DEF SumOverSeats
<1>11. SumOverSeats(total) = total[0] + total[1] + total[2] + total[3]
  <2>1. total[0] \in Int /\ total[1] \in Int /\ total[2] \in Int /\ total[3] \in Int
    BY <1>6, <1>7, <1>8, <1>9
  <2>2. \A i \in 0 .. 3 : i = 0 \/ i = 1 \/ i = 2 \/ i = 3
    OBVIOUS
  <2>3. \A i \in 0 .. 3 : total[i] \in Int
    BY <2>1, <2>2
  <2> QED BY <1>1, <2>3, SumOverFour DEF SumOverSeats
<1>12. SumOverSeats(total) = 2 * (CardPoints(Pack) + SumOverSeats(tab) + (a + b))
  BY <1>6, <1>7, <1>8, <1>9, <1>10, <1>11
<1>13. SumOverSeats(total) \in {2 * (CardPoints(Pack) + SumOverSeats(tab) + s) : s \in {0, 3}}
  BY <1>8, <1>12
<1> QED BY <1>13 DEF ScoresPay, total, tab

\* When the round ends with a capturer, the totals grow by what the round pays.
LEMMA EndOfRoundPays ==
    ASSUME NEW g, Moved(g), NEW h \in AdvanceTurnOrDeal(g), g.lastCapturerIndex # NoSeat,
           h.roundNumber # g.roundNumber \/ h.phase = "game_over"
    PROVE  SumOverSeats(TotalsAfterRound(h)) - SumOverSeats(g.totalScore)
               \in {(IF NumPlayers = 4 THEN 2 ELSE 1)
                        * (CardPoints(Pack) + SumOverSeats(g.tablas) + s) : s \in {0, 3}}
<1> DEFINE next == AdvanceTurn(g)
           last == ApplyLastHandRule(next)
           scores == ComputeRoundScores(last)
           fresh == ApplyRoundScores(last, scores)
           won == [i \in Seats |-> Total(scores[i])]
           sums == [i \in Seats |-> Standing(last, scores, i)]
<1>1. g \in GameType /\ g.phase = "playing" /\ Sound(g) /\ DeckInStepOf(g)
  BY DEF Moved, Sound
<1>2. /\ next \in GameType /\ next.phase = "playing" /\ next.hand = g.hand
      /\ next.captured = g.captured /\ next.tablas = g.tablas
      /\ next.totalScore = g.totalScore /\ next.deck = g.deck
      /\ next.tableCards = g.tableCards /\ next.roundNumber = g.roundNumber
      /\ next.lastCapturerIndex = g.lastCapturerIndex /\ next.dealNumber = g.dealNumber
  BY <1>1, PassingTheTurn
<1>3. Sound(next) /\ DeckInStepOf(next)
  BY <1>1, <1>2 DEF Sound, NoDuplication, NoLoss, LastCapturerOf, DeckInStepOf
<1>4. AllHandsEmpty(next)
  BY <1>1, <1>2 DEF AdvanceTurnOrDeal
<1>5. DeckEmpty(next)
  <2>1. SUFFICES ASSUME ~DeckEmpty(next) PROVE FALSE
    OBVIOUS
  <2>2. h \in DealNextHand(next)
    BY <1>4, <2>1 DEF AdvanceTurnOrDeal
  <2>3. h.roundNumber = next.roundNumber /\ h.phase = "playing"
    BY <1>2, <2>2, Dealing
  <2> QED BY <1>2, <2>3
<1>6. h \in EndRound(next)
  BY <1>4, <1>5 DEF AdvanceTurnOrDeal
<1>7. /\ last \in GameType /\ last.phase = "playing" /\ last.tablas = g.tablas
      /\ last.totalScore = g.totalScore /\ last.deck = g.deck /\ last.hand = g.hand
  BY <1>2, AwardingTheLastCards
<1>8. Sound(last)
  BY <1>2, <1>3, <1>4, LastHandKeeps
<1>9. last.tableCards = {}
  <2>1. CASE next.tableCards = {}
    BY <2>1 DEF ApplyLastHandRule
  <2>2. CASE next.tableCards # {}
    <3>1. last = [next EXCEPT !.captured[next.lastCapturerIndex] = @ \cup next.tableCards,
                              !.tableCards = {}]
      BY <1>2, <2>2 DEF ApplyLastHandRule
    <3> HIDE DEF last, next
    <3> QED BY <1>2, <3>1 DEF GameType
  <2> QED BY <2>1, <2>2
<1>10. /\ \A i, j \in Seats : i # j => last.captured[i] \cap last.captured[j] = {}
       /\ UNION {last.captured[i] : i \in Seats} = Pack
  <2>1. last.deck = {} /\ \A i \in Seats : last.hand[i] = {}
    BY <1>2, <1>4, <1>5, <1>7 DEF AllHandsEmpty, DeckEmpty
  <2>2. last.captured \in [Seats -> SUBSET Pack]
    BY <1>7 DEF GameType
  <2>3. NoLoss(last) /\ NoDuplication(last)
    BY <1>8 DEF Sound
  <2> HIDE DEF last
  <2>4. \A c \in Pack : \E i \in Seats : c \in last.captured[i]
    BY <1>9, <2>1, <2>3 DEF NoLoss
  <2>5. UNION {last.captured[i] : i \in Seats} = Pack
    BY <2>2, <2>4
  <2> QED BY <2>3, <2>5 DEF NoDuplication
<1>11. ScoresPay(last)
  <2> HIDE DEF last
  <2> QED BY <1>7, <1>10, IndividualsArePaid, TeamsArePaid
<1>12. TotalsAfterRound(h) = sums
  <2>1. CASE SomeoneWins(last, scores)
    <3>1. h = [last EXCEPT !.phase = "game_over"]
      BY <1>6, <2>1 DEF EndRound
    <3>2. /\ h.phase = "game_over" /\ h.captured = last.captured
          /\ h.tablas = last.tablas /\ h.totalScore = last.totalScore
      <4> HIDE DEF last
      <4> QED BY <1>7, <3>1 DEF GameType
    <3>3. ComputeRoundScores(h) = scores
      BY <3>2 DEF ComputeRoundScores
    <3>4. \A i \in Seats : Standing(h, scores, i) = Standing(last, scores, i)
      BY <3>2 DEF Standing
    <3> HIDE DEF last, scores
    <3> QED BY <3>2, <3>3, <3>4 DEF TotalsAfterRound
  <2>2. CASE ~SomeoneWins(last, scores)
    <3>1. h \in DealNextHand(fresh)
      BY <1>6, <2>2 DEF EndRound
    <3>2. fresh \in GameType /\ fresh.totalScore = sums /\ fresh.phase = "playing"
      BY <1>7, AddingUp
    <3> HIDE DEF fresh, sums
    <3>3. h.totalScore = sums /\ h.phase = "playing"
      BY <3>1, <3>2, Dealing
    <3> QED BY <3>3 DEF TotalsAfterRound
  <2> QED BY <2>1, <2>2
<1>13. SumOverSeats(sums) = SumOverSeats(g.totalScore) + SumOverSeats(won)
       /\ SumOverSeats(g.totalScore) \in Int /\ SumOverSeats(won) \in Int
  <2>1. \A i \in Seats : /\ sums[i] = g.totalScore[i] + won[i]
                         /\ g.totalScore[i] \in Int
                         /\ won[i] \in Int
    <3>1. \A i \in Seats : Total(scores[i]) \in Nat
      BY <1>7, ScoresNat
    <3>2. g.totalScore \in [Seats -> Nat]
      BY <1>1 DEF GameType
    <3>3. \A i \in Seats : Standing(last, scores, i) = g.totalScore[i] + Total(scores[i])
      BY <1>7 DEF Standing
    <3> HIDE DEF last, scores
    <3> QED BY <3>1, <3>2, <3>3
  <2> HIDE DEF sums, won
  <2> QED BY <2>1, SeatsFinite, SumOfPlus, SumIsInt DEF SumOverSeats
<1>14. SumOverSeats(won) \in {(IF NumPlayers = 4 THEN 2 ELSE 1)
                                  * (CardPoints(Pack) + SumOverSeats(g.tablas) + s) : s \in {0, 3}}
  BY <1>7, <1>11 DEF ScoresPay
<1> HIDE DEF sums, won
<1>15. SumOverSeats(TotalsAfterRound(h)) - SumOverSeats(g.totalScore) = SumOverSeats(won)
  BY <1>12, <1>13
<1> QED BY <1>14, <1>15

\* A round in which somebody has captured pays out the pack once.
LEMMA StepPaysOut ==
    ASSUME FlowInv, [FlowNext]_flowVars, RoundSettles, state.lastCapturerIndex # NoSeat
    PROVE  SumOverSeats(TotalsAfterRound(state')) - SumOverSeats(state.totalScore)
               \in {(IF NumPlayers = 4 THEN 2 ELSE 1) *
                        (CardPoints(Pack) + SumOverSeats(state.tablas) + t + s) :
                     t \in {0, 1}, s \in {0, 3}}
<1> DEFINE k == IF NumPlayers = 4 THEN 2 ELSE 1
           paid == SumOverSeats(TotalsAfterRound(state')) - SumOverSeats(state.totalScore)
<1>0. state.roundNumber \in Nat
  BY DEF FlowInv, FlowTypeOK, GameType
<1>1. state' # state /\ ~UNCHANGED flowVars
  BY <1>0 DEF RoundSettles, flowVars
<1>2. PICK g : /\ Moved(g)
               /\ state' \in AdvanceTurnOrDeal(g)
               /\ g.totalScore = state.totalScore
               /\ g.roundNumber = state.roundNumber
               /\ \/ g.tablas = state.tablas
                  \/ g.tablas = [state.tablas EXCEPT ![CurrentPlayer] = @ + 1]
               /\ g.lastCapturerIndex # NoSeat
  BY <1>1, StepIsAMove
<1>3. state'.roundNumber # g.roundNumber \/ state'.phase = "game_over"
  BY <1>0, <1>2 DEF RoundSettles
<1>4. PICK s \in {0, 3} : paid = k * (CardPoints(Pack) + SumOverSeats(g.tablas) + s)
  BY <1>2, <1>3, EndOfRoundPays
<1>5. CurrentPlayer \in Seats /\ state.tablas \in [Seats -> Nat]
  BY DEF FlowInv, FlowTypeOK, GameType, CurrentPlayer
<1>6. CardPoints(Pack) \in Nat /\ SumOverSeats(state.tablas) \in Nat
  BY <1>5, SeatsFinite, CardPointsNat, SumIsNat DEF SumOverSeats
<1>7. \E t \in {0, 1} : SumOverSeats(g.tablas) = SumOverSeats(state.tablas) + t
  <2>1. CASE g.tablas = state.tablas
    BY <1>6, <2>1
  <2>2. CASE g.tablas = [state.tablas EXCEPT ![CurrentPlayer] = @ + 1]
    <3> DEFINE cur == CurrentPlayer
               others == Seats \ {cur}
               before == state.tablas
               after == g.tablas
    <3>1. /\ \A i \in Seats : before[i] \in Int /\ after[i] \in Int
          /\ after[cur] = before[cur] + 1
          /\ \A i \in others : after[i] = before[i]
          /\ before[cur] \in Int /\ IsFiniteSet(others)
      BY <1>5, <2>2, SeatsFinite, FS_Subset
    <3> HIDE DEF others, before, after
    <3>2. SumOver(after, others) = SumOver(before, others)
      BY <3>1, SumOfSame
    <3>3. SumOver(after, Seats) = after[cur] + SumOver(after, others)
      BY <1>5, <3>1, SeatsFinite, SumStep DEF others
    <3>4. SumOver(before, Seats) = before[cur] + SumOver(before, others)
      BY <1>5, <3>1, SeatsFinite, SumStep DEF others
    <3>5. SumOver(before, others) \in Int
      BY <3>1, SumIsInt DEF others
    <3>6. SumOver(after, Seats) = SumOver(before, Seats) + 1
      BY <3>1, <3>2, <3>3, <3>4, <3>5
    <3> QED BY <3>6 DEF SumOverSeats, before, after
  <2> QED BY <1>2, <2>1, <2>2
<1>8. PICK t \in {0, 1} : SumOverSeats(g.tablas) = SumOverSeats(state.tablas) + t
  BY <1>7
<1>9. CardPoints(Pack) + SumOverSeats(g.tablas) + s
          = CardPoints(Pack) + SumOverSeats(state.tablas) + t + s
  BY <1>6, <1>8
<1> HIDE DEF k, paid
<1>10. paid = k * (CardPoints(Pack) + SumOverSeats(state.tablas) + t + s)
  BY <1>4, <1>9
<1>11. paid \in {k * (CardPoints(Pack) + SumOverSeats(state.tablas) + t1 + s1) :
                     t1 \in {0, 1}, s1 \in {0, 3}}
  BY <1>4, <1>8, <1>10
<1> QED BY <1>11 DEF k, paid

\* Over any game, every round in which somebody has captured pays out every point
\* of the pack once, the tablas of the round and Spil at most once; with teams
\* both partners are paid.
THEOREM RoundsPayOut == FlowSpec => RoundPaysOut
<1>1. FlowInv /\ [FlowNext]_flowVars =>
          [ RoundSettles /\ state.lastCapturerIndex # NoSeat =>
            SumOverSeats(TotalsAfterRound(state')) - SumOverSeats(state.totalScore)
                \in {(IF NumPlayers = 4 THEN 2 ELSE 1) *
                        (CardPoints(Pack) + SumOverSeats(state.tablas) + t + s) :
                     t \in {0, 1}, s \in {0, 3}} ]_flowVars
  BY StepPaysOut
<1> QED BY <1>1, FlowInvariance, PTL DEF FlowSpec, RoundPaysOut
-------------------------------------------------------------------------------
\* Every card is played.

\* A card that has left a hand is not to be played any more, and no other card is
\* lost with it.
LEMMA OneLessToPlay ==
    ASSUME NEW g, NoDuplication(state), state \in GameType, NEW c \in state.hand[CurrentPlayer],
           g.deck = state.deck, g.hand = [state.hand EXCEPT ![CurrentPlayer] = @ \ {c}]
    PROVE  ToPlay(g) = ToPlay(state) \ {c}
<1> DEFINE cur == CurrentPlayer
<1>1. cur \in Seats /\ state.hand \in [Seats -> SUBSET Pack]
  BY DEF GameType, CurrentPlayer
<1>2. c \notin state.deck /\ \A i \in Seats : i # cur => c \notin state.hand[i]
  BY <1>1 DEF NoDuplication
<1>3. g.hand[cur] = state.hand[cur] \ {c} /\ \A i \in Seats : i # cur => g.hand[i] = state.hand[i]
  BY <1>1
<1>4. \A i \in Seats : g.hand[i] = state.hand[i] \ {c}
  BY <1>2, <1>3
<1>5. \A x : x \in ToPlay(g) <=> x \in ToPlay(state) \ {c}
  BY <1>2, <1>4 DEF ToPlay
<1> QED BY <1>5

\* A deal within a round moves cards from the deck to the hands only, and so
\* leaves what is to be played as it is.
LEMMA DealPlaysNothing ==
    ASSUME NEW g \in GameType, g.dealNumber # 0, NEW h \in DealNextHand(g)
    PROVE  ToPlay(h) = ToPlay(g)
<1>1. CASE ~CanDeal(g)
  BY <1>1 DEF DealNextHand
<1>2. CASE CanDeal(g)
  <2>1. FaceUp(g) = 0
    BY DEF FaceUp
  <2>2. PICK taken \in kSubset(Needed(g), g.deck) :
           \E split \in Splits(taken, FaceUp(g)) : h = AfterDeal(g, taken, split)
    BY <1>2 DEF DealNextHand
  <2>3. PICK split \in Splits(taken, FaceUp(g)) : h = AfterDeal(g, taken, split)
    BY <2>2
  <2>4. taken \in SUBSET g.deck /\ g.deck \in SUBSET Pack
    BY <2>2 DEF kSubset, GameType
  <2>5. /\ split.table \in SUBSET taken /\ Cardinality(split.table) = 0
        /\ split.hands \in [Seats -> SUBSET taken]
        /\ taken = split.table \cup UNION {split.hands[i] : i \in Seats}
    BY <2>1, <2>3 DEF Splits, kSubset
  <2>6. split.table \in SUBSET Pack
    BY <2>4, <2>5
  <2>7. taken = UNION {split.hands[i] : i \in Seats}
    BY <2>5, <2>6, NoneLeft
  <2>8. h.deck = g.deck \ taken /\ \A i \in Seats : h.hand[i] = g.hand[i] \cup split.hands[i]
    BY <2>3 DEF AfterDeal, GameType
  <2>9. \A x : x \in taken => x \in ToPlay(h)
    BY <2>7, <2>8 DEF ToPlay
  <2>10. \A x : x \in ToPlay(g) => x \in ToPlay(h)
    BY <2>8, <2>9 DEF ToPlay
  <2>11. \A x : x \in ToPlay(h) => x \in ToPlay(g)
    BY <2>4, <2>5, <2>8 DEF ToPlay
  <2> QED BY <2>10, <2>11
<1> QED BY <1>1, <1>2

\* When the turn has passed the same cards are still to be played, or none was left
\* and the round is over.
LEMMA TurnPlaysNothing ==
    ASSUME NEW g, Moved(g), NEW h \in AdvanceTurnOrDeal(g)
    PROVE  \/ /\ ToPlay(g) = {}
              /\ h.roundNumber > g.roundNumber \/ h.phase = "game_over"
           \/ /\ ToPlay(g) # {} /\ ToPlay(h) = ToPlay(g)
              /\ h.roundNumber = g.roundNumber /\ h.phase = "playing"
<1> DEFINE next == AdvanceTurn(g)
           last == ApplyLastHandRule(next)
           scores == ComputeRoundScores(last)
           fresh == ApplyRoundScores(last, scores)
<1>1. g \in GameType /\ g.phase = "playing" /\ g.dealNumber # 0
  BY DEF Moved, Sound
<1>2. /\ next \in GameType /\ next.phase = g.phase /\ next.hand = g.hand
      /\ next.deck = g.deck /\ next.dealNumber = g.dealNumber
      /\ next.roundNumber = g.roundNumber
  BY <1>1, PassingTheTurn
<1>3. ToPlay(next) = ToPlay(g)
  BY <1>2 DEF ToPlay
<1> HIDE DEF next
<1>4. CASE ~AllHandsEmpty(next)
  <2>1. h = next
    BY <1>4 DEF AdvanceTurnOrDeal, next
  <2>2. ToPlay(next) # {}
    BY <1>4 DEF AllHandsEmpty, ToPlay
  <2> QED BY <1>1, <1>2, <1>3, <2>1, <2>2
<1>5. CASE AllHandsEmpty(next) /\ ~DeckEmpty(next)
  <2>1. h \in DealNextHand(next)
    BY <1>5 DEF AdvanceTurnOrDeal, next
  <2>2. ToPlay(next) # {}
    BY <1>5 DEF DeckEmpty, ToPlay
  <2>3. h.roundNumber = next.roundNumber /\ h.phase = "playing"
    BY <1>1, <1>2, <2>1, Dealing
  <2>4. ToPlay(h) = ToPlay(next)
    BY <1>1, <1>2, <2>1, DealPlaysNothing
  <2> QED BY <1>2, <1>3, <2>2, <2>3, <2>4
<1>6. CASE AllHandsEmpty(next) /\ DeckEmpty(next)
  <2>1. ToPlay(g) = {}
    BY <1>3, <1>6 DEF AllHandsEmpty, DeckEmpty, ToPlay
  <2>2. h \in EndRound(next)
    BY <1>6 DEF AdvanceTurnOrDeal, next
  <2>3. last \in GameType /\ last.roundNumber = g.roundNumber
    BY <1>2, AwardingTheLastCards
  <2>4. fresh \in GameType /\ fresh.roundNumber = g.roundNumber + 1
    BY <2>3, AddingUp
  <2>5. g.roundNumber \in Nat
    BY <1>1 DEF GameType
  <2>6. CASE SomeoneWins(last, scores)
    <3>1. h = [last EXCEPT !.phase = "game_over"]
      BY <2>2, <2>6 DEF EndRound
    <3> HIDE DEF last
    <3> QED BY <2>1, <2>3, <3>1 DEF GameType
  <2>7. CASE ~SomeoneWins(last, scores)
    <3>1. h \in DealNextHand(fresh)
      BY <2>2, <2>7 DEF EndRound
    <3> HIDE DEF fresh
    <3>2. h.roundNumber = fresh.roundNumber
      BY <2>4, <3>1, Dealing
    <3> QED BY <2>1, <2>4, <2>5, <3>2
  <2> QED BY <2>6, <2>7
<1> QED BY <1>4, <1>5, <1>6

\* Only an offer of several options leaves a choice pending, and it leaves the game
\* as it is.
LEMMA OfferLeavesTheGame ==
    ASSUME FlowNext, pendingCapture' # {}, ~UNCHANGED flowVars PROVE UNCHANGED state
  BY DEF FlowNext, Discard, AutoCapture, OfferCaptures, Skip, CaptureAtOnce, ChooseCapture,
         Finished

\* Every move plays one card of the player to move, and a round ends exactly with
\* its last card: neither a deal nor an automatic skip, a capture of several
\* cards or a choice made late ends it early or lets it go on.
THEOREM CardsArePlayed == FlowSpec => EveryCardIsPlayed
<1> DEFINE Played ==
        IF pendingCapture' # {} THEN UNCHANGED state
        ELSE \E c \in state.hand[CurrentPlayer] :
                IF RoundSettles THEN ToPlay(state) = {c}
                ELSE ToPlay(state') = ToPlay(state) \ {c} /\ ToPlay(state') # {}
<1>1. ASSUME FlowInv, [FlowNext]_flowVars, ~UNCHANGED flowVars PROVE Played
  <2>1. CASE pendingCapture' # {}
    BY <1>1, <2>1, OfferLeavesTheGame
  <2>2. CASE pendingCapture' = {}
    <3>1. PICK g : /\ Moved(g) /\ CardIsOut(g)
                   /\ state' \in AdvanceTurnOrDeal(g)
                   /\ g.roundNumber = state.roundNumber
      BY <1>1, <2>2, StepIsAMove
    <3>2. state.phase = "playing"
      BY <1>1, <2>2, StepIsAMove
    <3>3. PICK c \in state.hand[CurrentPlayer] :
             g.deck = state.deck /\ g.hand = [state.hand EXCEPT ![CurrentPlayer] = @ \ {c}]
      BY <3>1 DEF CardIsOut
    <3>4. NoDuplication(state) /\ state \in GameType
      BY <1>1 DEF FlowInv, Settled, Sound
    <3>5. ToPlay(g) = ToPlay(state) \ {c} /\ c \in ToPlay(state)
      <4>1. ToPlay(g) = ToPlay(state) \ {c}
        BY <3>3, <3>4, OneLessToPlay
      <4>2. c \in ToPlay(state)
        BY <3>3, <3>4 DEF ToPlay, GameType, CurrentPlayer
      <4> QED BY <4>1, <4>2
    <3>6. CASE RoundSettles
      <4>1. state'.roundNumber # state.roundNumber \/ state'.phase = "game_over"
        BY <3>4, <3>6 DEF RoundSettles, GameType
      <4>2. ToPlay(g) = {}
        <5>1. state'.roundNumber # g.roundNumber \/ state'.phase = "game_over"
          BY <3>1, <4>1
        <5> QED BY <3>1, <5>1, TurnPlaysNothing
      <4>3. ToPlay(state) = {c}
        BY <3>5, <4>2
      <4> QED BY <2>2, <3>6, <4>3
    <3>7. CASE ~RoundSettles
      <4>1. ~(state'.roundNumber > g.roundNumber \/ state'.phase = "game_over")
        BY <3>1, <3>2, <3>7 DEF RoundSettles
      <4>2. ToPlay(g) # {} /\ ToPlay(state') = ToPlay(g)
        BY <3>1, <4>1, TurnPlaysNothing
      <4>3. ToPlay(state') = ToPlay(state) \ {c} /\ ToPlay(state') # {}
        BY <3>5, <4>2
      <4> QED BY <2>2, <3>7, <4>3
    <3> QED BY <3>6, <3>7
  <2> QED BY <2>1, <2>2
<1>2. FlowInv /\ [FlowNext]_flowVars => [Played]_flowVars
  BY <1>1
<1> QED BY <1>2, FlowInvariance, PTL DEF FlowSpec, EveryCardIsPlayed
-------------------------------------------------------------------------------
(***************************************************************************)
(* What the operations keep of any game, played in turn or not: Room and   *)
(* History lead to games that are not Settled.                             *)
(***************************************************************************)
\* What every operation on a game keeps, in whatever order they come.
Kept(g) == g \in GameType /\ NoDuplication(g) /\ LastCapturerOf(g)

\* A later game of the same round in which nobody has given up a card.
HandsGrow(g, h) ==
    h.roundNumber = g.roundNumber => \A i \in Seats : g.hand[i] \subseteq h.hand[i]

\* A discard moves one card from the hand to the table.
LEMMA DiscardKeeps ==
    ASSUME NEW g, Kept(g), NEW i \in Seats, NEW c \in g.hand[i]
    PROVE  /\ Kept(ApplyDiscard(g, i, c))
           /\ ApplyDiscard(g, i, c).currentPlayerIndex = g.currentPlayerIndex
           /\ ApplyDiscard(g, i, c).roundNumber = g.roundNumber
           /\ \A j \in Seats \ {i} : ApplyDiscard(g, i, c).hand[j] = g.hand[j]
<1> DEFINE h == ApplyDiscard(g, i, c)
<1>1. g \in GameType /\ c \in Pack /\ g.hand \in [Seats -> SUBSET Pack]
  BY DEF Kept, GameType
<1>2. /\ h.hand = [g.hand EXCEPT ![i] = @ \ {c}]
      /\ h.tableCards = g.tableCards \cup {c}
      /\ h.captured = g.captured /\ h.deck = g.deck
      /\ h.currentPlayerIndex = g.currentPlayerIndex /\ h.roundNumber = g.roundNumber
      /\ h.lastCapturerIndex = g.lastCapturerIndex
  BY <1>1 DEF ApplyDiscard, GameType
<1>3. h \in GameType
  BY <1>1 DEF ApplyDiscard, GameType
<1>4. NoDuplication(h)
  BY <1>1, <1>2 DEF NoDuplication, Kept
<1>5. LastCapturerOf(h)
  BY <1>2 DEF LastCapturerOf, Kept
<1> QED BY <1>1, <1>2, <1>3, <1>4, <1>5 DEF Kept

\* A capture takes the option's cards off the table, or fails and only loses the
\* card that was played.
LEMMA CaptureKeeps ==
    ASSUME NEW g, Kept(g), NEW i \in Seats, NEW c, NEW option
    PROVE  /\ Kept(ApplyCapture(g, i, c, option))
           /\ ApplyCapture(g, i, c, option).currentPlayerIndex = g.currentPlayerIndex
           /\ ApplyCapture(g, i, c, option).roundNumber = g.roundNumber
           /\ \A j \in Seats \ {i} : ApplyCapture(g, i, c, option).hand[j] = g.hand[j]
<1> DEFINE won == UNION option
           rest == g.tableCards \ won
           h == ApplyCapture(g, i, c, option)
<1> HIDE DEF won
<1>1. /\ g \in GameType
      /\ g.hand \in [Seats -> SUBSET Pack] /\ g.captured \in [Seats -> SUBSET Pack]
      /\ g.tablas \in [Seats -> Nat] /\ g.tableCards \in SUBSET Pack
      /\ NoDuplication(g) /\ LastCapturerOf(g)
  BY DEF Kept, GameType
<1>2. CASE CaptureFits(g, i, c, option)
  <2>1. c \in g.hand[i] /\ c \in Pack /\ won \subseteq g.tableCards
    BY <1>1, <1>2 DEF CaptureFits, won
  <2>2. h = [g EXCEPT !.hand[i]           = @ \ {c},
                      !.tableCards        = rest,
                      !.captured[i]       = @ \cup {c} \cup won,
                      !.lastCapturerIndex = i,
                      !.tablas[i]         = IF rest = {} THEN @ + 1 ELSE @]
    BY <1>2 DEF ApplyCapture, won
  <2>3. /\ h.hand = [g.hand EXCEPT ![i] = @ \ {c}]
        /\ h.tableCards = rest /\ h.deck = g.deck
        /\ h.captured = [g.captured EXCEPT ![i] = @ \cup {c} \cup won]
        /\ h.currentPlayerIndex = g.currentPlayerIndex /\ h.roundNumber = g.roundNumber
        /\ h.lastCapturerIndex = i
    BY <1>1, <2>2 DEF GameType
  <2>4. h \in GameType
    <3>1. rest \in SUBSET Pack
      BY <1>1
    <3>2. [g.hand EXCEPT ![i] = @ \ {c}] \in [Seats -> SUBSET Pack]
      BY <1>1
    <3>3. [g.captured EXCEPT ![i] = @ \cup {c} \cup won] \in [Seats -> SUBSET Pack]
      BY <1>1, <2>1
    <3>4. [g.tablas EXCEPT ![i] = IF rest = {} THEN @ + 1 ELSE @] \in [Seats -> Nat]
      BY <1>1
    <3> HIDE DEF rest
    <3>5. [g EXCEPT !.hand              = [g.hand EXCEPT ![i] = @ \ {c}],
                    !.tableCards        = rest,
                    !.captured          = [g.captured EXCEPT ![i] = @ \cup {c} \cup won],
                    !.lastCapturerIndex = i,
                    !.tablas            = [g.tablas EXCEPT ![i] = IF rest = {} THEN @ + 1 ELSE @]]
          \in GameType
      BY <1>1, <3>1, <3>2, <3>3, <3>4, PartsOfAGame
    <3> QED BY <1>1, <2>2, <3>5
  <2>5. \A j \in Seats : /\ h.hand[j] \subseteq g.hand[j]
                         /\ j # i => h.captured[j] = g.captured[j] /\ h.hand[j] = g.hand[j]
    BY <1>1, <2>3
  <2>6. h.captured[i] = g.captured[i] \cup {c} \cup won /\ c \notin h.hand[i]
    BY <1>1, <2>3
  <2>7. NoDuplication(h)
    <3>1. h.deck \cap h.tableCards = {}
      BY <1>1, <2>3 DEF NoDuplication
    <3>2. \A j \in Seats : (h.hand[j] \cup h.captured[j]) \cap (h.deck \cup h.tableCards) = {}
      BY <1>1, <2>1, <2>3, <2>5, <2>6 DEF NoDuplication
    <3>3. \A j, k \in Seats : h.hand[j] \cap h.captured[k] = {}
      BY <1>1, <2>1, <2>3, <2>5, <2>6 DEF NoDuplication
    <3>4. \A j, k \in Seats : j # k => /\ h.hand[j] \cap h.hand[k] = {}
                                       /\ h.captured[j] \cap h.captured[k] = {}
      BY <1>1, <2>1, <2>3, <2>5, <2>6 DEF NoDuplication
    <3> QED BY <3>1, <3>2, <3>3, <3>4 DEF NoDuplication
  <2>8. LastCapturerOf(h)
    BY <2>3, <2>6, SeatsFacts DEF LastCapturerOf
  <2> QED BY <2>3, <2>4, <2>5, <2>7, <2>8 DEF Kept
<1>3. CASE ~CaptureFits(g, i, c, option)
  <2>1. h = [g EXCEPT !.hand[i] = @ \ {c}]
    BY <1>3 DEF ApplyCapture
  <2>2. /\ h.hand = [g.hand EXCEPT ![i] = @ \ {c}]
        /\ h.tableCards = g.tableCards /\ h.deck = g.deck /\ h.captured = g.captured
        /\ h.currentPlayerIndex = g.currentPlayerIndex /\ h.roundNumber = g.roundNumber
        /\ h.lastCapturerIndex = g.lastCapturerIndex
    BY <1>1, <2>1 DEF GameType
  <2>3. h \in GameType
    <3>1. [g.hand EXCEPT ![i] = @ \ {c}] \in [Seats -> SUBSET Pack]
      BY <1>1
    <3>2. h = [g EXCEPT !.hand = [g.hand EXCEPT ![i] = @ \ {c}]]
      BY <2>1
    <3>3. ASSUME NEW hand \in [Seats -> SUBSET Pack]
          PROVE  [g EXCEPT !.hand = hand] \in GameType
      BY <1>1 DEF GameType
    <3> QED BY <3>1, <3>2, <3>3
  <2>4. \A j \in Seats : /\ h.hand[j] \subseteq g.hand[j]
                         /\ j # i => h.hand[j] = g.hand[j]
    BY <1>1, <2>2
  <2>5. NoDuplication(h)
    BY <1>1, <2>2, <2>4 DEF NoDuplication
  <2>6. LastCapturerOf(h)
    BY <1>1, <2>2 DEF LastCapturerOf
  <2> QED BY <2>2, <2>3, <2>4, <2>5, <2>6 DEF Kept
<1> QED BY <1>2, <1>3

\* A deal moves cards from the deck to the hands and the table, or fails and
\* changes nothing.
LEMMA DealKeeps ==
    ASSUME NEW g, Kept(g), NEW h \in DealNextHand(g)
    PROVE  /\ Kept(h) /\ HandsGrow(g, h)
           /\ h.currentPlayerIndex = g.currentPlayerIndex /\ h.roundNumber = g.roundNumber
<1>1. /\ g \in GameType /\ g.hand \in [Seats -> SUBSET Pack] /\ g.deck \in SUBSET Pack
      /\ g.tableCards \in SUBSET Pack /\ g.dealNumber \in Nat
      /\ NoDuplication(g) /\ LastCapturerOf(g)
  BY DEF Kept, GameType
<1>2. CASE ~CanDeal(g)
  BY <1>2 DEF DealNextHand, HandsGrow
<1>3. CASE CanDeal(g)
  <2>1. PICK taken \in kSubset(Needed(g), g.deck) :
           h \in {AfterDeal(g, taken, split) : split \in Splits(taken, FaceUp(g))}
    BY <1>3 DEF DealNextHand
  <2>2. PICK split \in Splits(taken, FaceUp(g)) : h = AfterDeal(g, taken, split)
    BY <2>1
  <2>3. taken \in SUBSET g.deck
    BY <2>1 DEF kSubset
  <2>4. /\ split.table \in SUBSET taken
        /\ split.hands \in [Seats -> SUBSET taken]
        /\ \A i \in Seats : split.hands[i] \cap split.table = {}
        /\ \A i, j \in Seats : i # j => split.hands[i] \cap split.hands[j] = {}
    BY <2>2 DEF Splits, kSubset
  <2>5. /\ h.deck = g.deck \ taken
        /\ h.tableCards = g.tableCards \cup split.table
        /\ h.hand = [i \in Seats |-> g.hand[i] \cup split.hands[i]]
        /\ h.captured = g.captured /\ h.lastCapturerIndex = g.lastCapturerIndex
        /\ h.currentPlayerIndex = g.currentPlayerIndex /\ h.roundNumber = g.roundNumber
    BY <1>1, <2>2 DEF AfterDeal, GameType
  <2>6. h \in GameType
    <3>1. [i \in Seats |-> g.hand[i] \cup split.hands[i]] \in [Seats -> SUBSET Pack]
      BY <1>1, <2>3, <2>4
    <3>2. g.tableCards \cup split.table \in SUBSET Pack
      BY <1>1, <2>3, <2>4
    <3>3. g.deck \ taken \in SUBSET Pack /\ g.dealNumber + 1 \in Nat
      BY <1>1
    <3> QED BY <1>1, <2>2, <3>1, <3>2, <3>3 DEF AfterDeal, GameType, Phases
  <2>7. \A i \in Seats : h.hand[i] = g.hand[i] \cup split.hands[i]
    BY <2>5
  <2>8. NoDuplication(h)
    <3>1. h.deck \cap h.tableCards = {}
      BY <1>1, <2>3, <2>4, <2>5 DEF NoDuplication
    <3>2. \A i \in Seats : (h.hand[i] \cup h.captured[i]) \cap (h.deck \cup h.tableCards) = {}
      BY <1>1, <2>3, <2>4, <2>5, <2>7 DEF NoDuplication
    <3>3. \A i, j \in Seats : h.hand[i] \cap h.captured[j] = {}
      BY <1>1, <2>3, <2>4, <2>5, <2>7 DEF NoDuplication
    <3>4. \A i, j \in Seats : i # j => /\ h.hand[i] \cap h.hand[j] = {}
                                       /\ h.captured[i] \cap h.captured[j] = {}
      BY <1>1, <2>3, <2>4, <2>5, <2>7 DEF NoDuplication
    <3> QED BY <3>1, <3>2, <3>3, <3>4 DEF NoDuplication
  <2>9. LastCapturerOf(h)
    BY <1>1, <2>5 DEF LastCapturerOf
  <2> QED BY <2>5, <2>6, <2>7, <2>8, <2>9 DEF Kept, HandsGrow
<1> QED BY <1>2, <1>3

\* The last cards of a round go from the table to the last capturer.
LEMMA AwardKeeps ==
    ASSUME NEW g, Kept(g)
    PROVE  LET last == ApplyLastHandRule(g)
           IN /\ Kept(last) /\ last.hand = g.hand
              /\ last.currentPlayerIndex = g.currentPlayerIndex
              /\ last.roundNumber = g.roundNumber
<1> DEFINE last == ApplyLastHandRule(g)
           l == g.lastCapturerIndex
<1>1. CASE g.tableCards = {} \/ l = NoSeat
  BY <1>1 DEF ApplyLastHandRule
<1>2. CASE ~(g.tableCards = {} \/ l = NoSeat)
  <2>1. /\ g \in GameType /\ l \in Seats /\ g.tableCards \in SUBSET Pack
        /\ g.captured \in [Seats -> SUBSET Pack] /\ NoDuplication(g)
    BY <1>2 DEF Kept, GameType
  <2>2. last = [g EXCEPT !.captured[l] = @ \cup g.tableCards, !.tableCards = {}]
    BY <1>2 DEF ApplyLastHandRule
  <2>3. /\ last.captured = [g.captured EXCEPT ![l] = @ \cup g.tableCards]
        /\ last.tableCards = {} /\ last.hand = g.hand /\ last.deck = g.deck
        /\ last.lastCapturerIndex = l /\ last.roundNumber = g.roundNumber
        /\ last.currentPlayerIndex = g.currentPlayerIndex
    BY <2>1, <2>2 DEF GameType
  <2>4. last \in GameType
    <3>1. [g.captured EXCEPT ![l] = @ \cup g.tableCards] \in [Seats -> SUBSET Pack]
      BY <2>1
    <3> QED BY <2>1, <2>2, <3>1 DEF GameType
  <2>5. NoDuplication(last)
    BY <2>1, <2>3 DEF NoDuplication
  <2>6. LastCapturerOf(last)
    BY <1>2, <2>1, <2>3 DEF LastCapturerOf
  <2> QED BY <2>3, <2>4, <2>5, <2>6 DEF Kept
<1> QED BY <1>1, <1>2

\* The end of a round keeps the game, or begins another round.
LEMMA EndRoundKeeps ==
    ASSUME NEW g, Kept(g), NEW h \in EndRound(g)
    PROVE  /\ Kept(h) /\ HandsGrow(g, h)
           /\ h.currentPlayerIndex = g.currentPlayerIndex
<1> DEFINE last == ApplyLastHandRule(g)
           scores == ComputeRoundScores(last)
           fresh == ApplyRoundScores(last, scores)
<1>1. /\ Kept(last) /\ last \in GameType /\ last.hand = g.hand
      /\ last.currentPlayerIndex = g.currentPlayerIndex
      /\ last.roundNumber = g.roundNumber
  BY AwardKeeps DEF Kept
<1>2. CASE SomeoneWins(last, scores)
  <2>1. h = [last EXCEPT !.phase = "game_over"]
    BY <1>2 DEF EndRound
  <2>2. /\ h.hand = last.hand /\ h.captured = last.captured
        /\ h.deck = last.deck /\ h.tableCards = last.tableCards
        /\ h.lastCapturerIndex = last.lastCapturerIndex
        /\ h.currentPlayerIndex = last.currentPlayerIndex
        /\ h \in GameType
    BY <1>1, <2>1 DEF GameType, Phases
  <2>3. NoDuplication(h) /\ LastCapturerOf(h)
    BY <1>1, <2>2 DEF Kept, NoDuplication, LastCapturerOf
  <2> HIDE DEF last
  <2> QED BY <1>1, <2>2, <2>3 DEF Kept, HandsGrow
<1>3. CASE ~SomeoneWins(last, scores)
  <2>1. h \in DealNextHand(fresh)
    BY <1>3 DEF EndRound
  <2>2. \A i \in Seats : Standing(last, scores, i) \in Nat
    <3>1. \A i \in Seats : last.totalScore[i] \in Nat
      BY <1>1 DEF GameType
    <3> QED BY <1>1, <3>1, ScoresNat DEF Standing
  <2>3. /\ fresh.hand = [i \in Seats |-> {}] /\ fresh.captured = [i \in Seats |-> {}]
        /\ fresh.tableCards = {} /\ fresh.lastCapturerIndex = NoSeat
        /\ fresh.currentPlayerIndex = last.currentPlayerIndex
        /\ fresh.roundNumber = last.roundNumber + 1 /\ last.roundNumber \in Nat
    BY <1>1 DEF ApplyRoundScores, GameType
  <2>4. fresh \in GameType
    <3>1. [i \in Seats |-> Standing(last, scores, i)] \in [Seats -> Nat]
      BY <2>2
    <3>2. [i \in Seats |-> {}] \in [Seats -> SUBSET Pack] /\ [i \in Seats |-> 0] \in [Seats -> Nat]
      OBVIOUS
    <3>3. last.roundNumber + 1 \in Nat
      BY <2>3
    <3> HIDE DEF last, scores
    <3> QED BY <1>1, <3>1, <3>2, <3>3 DEF ApplyRoundScores, GameType
  <2>5. Kept(fresh)
    BY <2>3, <2>4 DEF Kept, NoDuplication, LastCapturerOf
  <2> HIDE DEF fresh, last
  <2>6. Kept(h) /\ h.currentPlayerIndex = fresh.currentPlayerIndex
        /\ h.roundNumber = fresh.roundNumber
    BY <2>1, <2>5, DealKeeps
  <2>7. h.roundNumber # g.roundNumber
    BY <1>1, <2>3, <2>6
  <2> QED BY <1>1, <2>3, <2>6, <2>7 DEF HandsGrow
<1> QED BY <1>2, <1>3

\* The turn passes to the next seat, past nobody, and nobody gives up a card
\* unless another round begins.
LEMMA AdvanceKeeps ==
    ASSUME NEW g, Kept(g), NEW h \in AdvanceTurnOrDeal(g)
    PROVE  /\ Kept(h) /\ HandsGrow(g, h)
           /\ h.currentPlayerIndex = (g.currentPlayerIndex + 1) % NumPlayers
<1> DEFINE next == AdvanceTurn(g)
           cur == g.currentPlayerIndex
<1>1. g \in GameType /\ cur \in Seats
  BY DEF Kept, GameType
<1>2. (cur + 1) % NumPlayers \in Seats
  BY <1>1, SizeAssumption DEF Seats
<1>3. next = [g EXCEPT !.currentPlayerIndex = (cur + 1) % NumPlayers]
  BY DEF AdvanceTurn
<1> HIDE DEF next
<1>4. /\ next \in GameType
      /\ next.currentPlayerIndex = (cur + 1) % NumPlayers
      /\ next.hand = g.hand /\ next.captured = g.captured /\ next.deck = g.deck
      /\ next.tableCards = g.tableCards /\ next.roundNumber = g.roundNumber
      /\ next.lastCapturerIndex = g.lastCapturerIndex
  BY <1>1, <1>2, <1>3 DEF GameType
<1>5. Kept(next) /\ (HandsGrow(next, h) => HandsGrow(g, h))
  BY <1>4 DEF Kept, NoDuplication, LastCapturerOf, HandsGrow
<1>6. CASE h = next
  BY <1>4, <1>5, <1>6 DEF HandsGrow
<1>7. CASE h \in DealNextHand(next)
  BY <1>4, <1>5, <1>7, DealKeeps
<1>8. CASE h \in EndRound(next)
  BY <1>4, <1>5, <1>8, EndRoundKeeps
<1> QED BY <1>6, <1>7, <1>8 DEF AdvanceTurnOrDeal, next
===============================================================================
