------------------------------ MODULE GameState ------------------------------
(***************************************************************************)
(* The authoritative game state and the operations on it                   *)
(* (server/internal/game/state.go), as functions from game to game.  The   *)
(* room runs several of them inside one critical section, so they are      *)
(* operators that the actions of TurnFlow and Room put together.           *)
(*                                                                         *)
(* Two of the code's sequences are sets here.  The deck is shuffled when a *)
(* round begins and never looked at before it is dealt: choosing the cards *)
(* when they are dealt gives the same games.  The order of a hand matters  *)
(* only for its first card, which is any card of the hand for the same     *)
(* reason.  The order of the table and of a captured pile is never used.   *)
(***************************************************************************)
EXTENDS Capture, Scoring

CONSTANTS HandSize,    \* cards dealt to a player at a time: 6
          TableSize,   \* cards dealt to the table at the first deal: 4
          WinScore     \* points that end the game: 101

NoSeat == -1

Phases == {"waiting", "playing", "game_over"}

\* NewGame: nothing dealt yet, seat 0 to move.
NewGame ==
    [phase              |-> "waiting",
     hand               |-> [i \in Seats |-> {}],
     captured           |-> [i \in Seats |-> {}],
     tablas             |-> [i \in Seats |-> 0],
     totalScore         |-> [i \in Seats |-> 0],
     deck               |-> Pack,
     tableCards         |-> {},
     currentPlayerIndex |-> 0,
     lastCapturerIndex  |-> NoSeat,
     dealNumber         |-> 0,
     roundNumber        |-> 1]

FaceUp(g) == IF g.dealNumber = 0 THEN TableSize ELSE 0

Needed(g) == NumPlayers * HandSize + FaceUp(g)

\* The ways to split the cards taken off the deck into the face-up cards and
\* one hand for each seat.
Splits(taken, faceUp) ==
    {s \in [table : kSubset(faceUp, taken), hands : [Seats -> kSubset(HandSize, taken)]] :
        /\ taken = s.table \cup UNION {s.hands[i] : i \in Seats}
        /\ \A i \in Seats : s.hands[i] \cap s.table = {}
        /\ \A i, j \in Seats : i # j => s.hands[i] \cap s.hands[j] = {}}

AfterDeal(g, taken, split) ==
    [g EXCEPT !.deck       = @ \ taken,
              !.tableCards = @ \cup split.table,
              !.hand       = [i \in Seats |-> @[i] \cup split.hands[i]],
              !.dealNumber = @ + 1,
              !.phase      = "playing"]

CanDeal(g) == Cardinality(g.deck) >= Needed(g)

\* DealNextHand: the games a deal can lead to; with too few cards left it
\* returns an error and changes nothing.
DealNextHand(g) ==
    IF CanDeal(g)
    THEN UNION {{AfterDeal(g, taken, split) : split \in Splits(taken, FaceUp(g))} :
                    taken \in kSubset(Needed(g), g.deck)}
    ELSE {g}

\* removeCardFromHand followed by the append to the table.
ApplyDiscard(g, i, c) ==
    [g EXCEPT !.hand[i]    = @ \ {c},
              !.tableCards = @ \cup {c}]

\* Mutant of ApplyCapture: the captured cards stay on the table.
CaptureLeavesTable(g, i, c, option) ==
    [g EXCEPT !.hand[i]           = @ \ {c},
              !.captured[i]       = @ \cup {c} \cup UNION option,
              !.lastCapturerIndex = i]

\* ApplyCapture takes the played card out of the hand before it looks for the
\* option's cards on the table: when they are not all there the card is gone.
CaptureFits(g, i, c, option) == c \in g.hand[i] /\ UNION option \subseteq g.tableCards

ApplyCapture(g, i, c, option) ==
    LET rest == g.tableCards \ UNION option
    IN IF CaptureFits(g, i, c, option)
       THEN [g EXCEPT !.hand[i]           = @ \ {c},
                      !.tableCards        = rest,
                      !.captured[i]       = @ \cup {c} \cup UNION option,
                      !.lastCapturerIndex = i,
                      !.tablas[i]         = IF rest = {} THEN @ + 1 ELSE @]
       ELSE [g EXCEPT !.hand[i] = @ \ {c}]

\* Mutant of AdvanceTurn: no wrap after the last seat.
AdvanceTurnNoWrap(g) == [g EXCEPT !.currentPlayerIndex = @ + 1]

AdvanceTurn(g) ==
    [g EXCEPT !.currentPlayerIndex = (@ + 1) % NumPlayers]

\* Mutant of AllHandsEmpty: one empty hand is enough.
SomeHandEmpty(g) == \E i \in Seats : g.hand[i] = {}

AllHandsEmpty(g) == \A i \in Seats : g.hand[i] = {}

DeckEmpty(g) == g.deck = {}

\* Mutant of ApplyLastHandRule: the awarded cards stay on the table.
LastHandLeavesTable(g) ==
    IF g.lastCapturerIndex = NoSeat
    THEN g
    ELSE [g EXCEPT !.captured[g.lastCapturerIndex] = @ \cup g.tableCards]

ApplyLastHandRule(g) ==
    IF g.tableCards = {} \/ g.lastCapturerIndex = NoSeat
    THEN g
    ELSE [g EXCEPT !.captured[g.lastCapturerIndex] = @ \cup g.tableCards,
                   !.tableCards = {}]

ComputeRoundScores(g) ==
    IF NumPlayers = 4
    THEN ComputeTeamRoundScores(g.captured, g.tablas)
    ELSE IndividualRoundScores(g.captured, g.tablas)

\* What seat i would have with the scores of this round added.
Standing(g, scores, i) == g.totalScore[i] + Total(scores[i])

\* Mutant of SomeoneWins: WinScore has to be exceeded.
SomeoneExceeds(g, scores) == \E i \in Seats : Standing(g, scores, i) > WinScore

\* CheckWinCondition returns a seat when some standing has reached WinScore.
\* Which seat it names is only announced and recorded, and left out here.
SomeoneWins(g, scores) == \E i \in Seats : Standing(g, scores, i) >= WinScore

\* Mutants of ApplyRoundScores: the last capturer, or the number of deals, is
\* carried over into the next round.
NextRound(g, scores) ==
    [NewGame EXCEPT !.totalScore         = [i \in Seats |-> Standing(g, scores, i)],
                    !.currentPlayerIndex = g.currentPlayerIndex,
                    !.phase              = g.phase,
                    !.roundNumber        = g.roundNumber + 1]

NextRoundCapturerKept(g, scores) ==
    [NextRound(g, scores) EXCEPT !.lastCapturerIndex = g.lastCapturerIndex]

NextRoundDealsKept(g, scores) ==
    [NextRound(g, scores) EXCEPT !.dealNumber = g.dealNumber]

ApplyRoundScores(g, scores) ==
    [g EXCEPT !.totalScore        = [i \in Seats |-> Standing(g, scores, i)],
              !.captured          = [i \in Seats |-> {}],
              !.tablas            = [i \in Seats |-> 0],
              !.hand              = [i \in Seats |-> {}],
              !.deck              = Pack,
              !.tableCards        = {},
              !.lastCapturerIndex = NoSeat,
              !.dealNumber        = 0,
              !.roundNumber       = @ + 1]
===============================================================================
