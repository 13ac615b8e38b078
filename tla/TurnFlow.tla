------------------------------- MODULE TurnFlow -------------------------------
(***************************************************************************)
(* What a started room promises about the game it runs: moves happen one   *)
(* at a time, only for the seat whose turn it is, and a card that offers   *)
(* several captures is settled by a choice before anything else happens.   *)
(* Each action is one critical section of server/internal/room/room.go     *)
(* that gets past all of its rejections.  Room adds connections, timers,   *)
(* the computer player and the rejections, and is compared with this.      *)
(***************************************************************************)
EXTENDS GameState

CONSTANT MaxRounds   \* bound: no moves beyond this many rounds

ASSUME SizeAssumption ==
    /\ NumPlayers \in Nat \ {0}
    /\ HandSize \in Nat \ {0}
    /\ TableSize \in Nat
    /\ WinScore \in Nat \ {0}
    /\ MaxRounds \in Nat

\* The table cards and a whole number of deals use the pack up: 52 = 4 + 4 * 12
\* for two players and 52 = 4 + 2 * 24 for four.
ASSUME DealsAssumption ==
    \E deals \in 1 .. Cardinality(Pack) :
        Cardinality(Pack) = TableSize + deals * (NumPlayers * HandSize)

VARIABLES
    state,            \* the game
    pendingCapture,   \* the options a choice is awaited among; {} for nil
    pendingCardID     \* the card they are for; read only while there are some

flowVars == <<state, pendingCapture, pendingCardID>>

NoCard == [rank |-> "none", suit |-> "none"]

CurrentPlayer == state.currentPlayerIndex

\* The last part of advanceTurnOrDeal: the round is scored and either the game
\* is over, with the scores of the last round left out of the totals, or the
\* next round is dealt.
EndRound(g) ==
    LET last   == ApplyLastHandRule(g)
        scores == ComputeRoundScores(last)
    IN IF SomeoneWins(last, scores)
       THEN {[last EXCEPT !.phase = "game_over"]}
       ELSE DealNextHand(ApplyRoundScores(last, scores))

AdvanceTurnOrDeal(g) ==
    LET next == AdvanceTurn(g)
    IN IF ~AllHandsEmpty(next) THEN {next}
       ELSE IF ~DeckEmpty(next) THEN DealNextHand(next)
       ELSE EndRound(next)

\* A deal that failed leaves every hand empty: the room only logs it.
DealFailed(g) == g.phase = "playing" /\ AllHandsEmpty(g)

WithinBound == state.roundNumber <= MaxRounds
-------------------------------------------------------------------------------
FlowInit ==
    /\ state \in DealNextHand(NewGame)
    /\ pendingCapture = {}
    /\ pendingCardID = NoCard

\* handlePlayCard, no capture: the card goes to the table.
Discard(c) ==
    /\ WithinBound
    /\ pendingCapture = {}
    /\ c \in state.hand[CurrentPlayer]
    /\ ComputeCaptures(c, state.tableCards) = {}
    /\ state' \in AdvanceTurnOrDeal(ApplyDiscard(state, CurrentPlayer, c))
    /\ UNCHANGED <<pendingCapture, pendingCardID>>

\* handlePlayCard, one option: the capture is made at once.
AutoCapture(c) ==
    /\ WithinBound
    /\ pendingCapture = {}
    /\ c \in state.hand[CurrentPlayer]
    /\ \E option \in ComputeCaptures(c, state.tableCards) :
           /\ ComputeCaptures(c, state.tableCards) = {option}
           /\ state' \in AdvanceTurnOrDeal(ApplyCapture(state, CurrentPlayer, c, option))
    /\ UNCHANGED <<pendingCapture, pendingCardID>>

\* handlePlayCard, several options: they are kept and sent to the player.
OfferCaptures(c) ==
    /\ WithinBound
    /\ pendingCapture = {}
    /\ c \in state.hand[CurrentPlayer]
    /\ Cardinality(ComputeCaptures(c, state.tableCards)) >= 2
    /\ pendingCapture' = ComputeCaptures(c, state.tableCards)
    /\ pendingCardID' = c
    /\ UNCHANGED state

\* Mutant of ChooseCapture: the options are kept after the choice.
ChooseCaptureKept(option) ==
    /\ WithinBound
    /\ option \in pendingCapture
    /\ CaptureFits(state, CurrentPlayer, pendingCardID, option)
    /\ state' \in AdvanceTurnOrDeal(
                      ApplyCapture(state, CurrentPlayer, pendingCardID, option))
    /\ UNCHANGED <<pendingCapture, pendingCardID>>

\* handleChooseCapture.
ChooseCapture(option) ==
    /\ WithinBound
    /\ option \in pendingCapture
    /\ CaptureFits(state, CurrentPlayer, pendingCardID, option)
    /\ state' \in AdvanceTurnOrDeal(
                      ApplyCapture(state, CurrentPlayer, pendingCardID, option))
    /\ pendingCapture' = {}
    /\ UNCHANGED pendingCardID

\* handleChooseCapture when ApplyCapture returns an error: the choice is used up, a
\* card of that name is taken out of the hand, and nobody else gets the turn.  This
\* is no move of FlowNext, since PendingFits excludes it: it takes a callback that
\* comes late (Room) or a second start of the game (History).
CaptureFails(option) ==
    /\ WithinBound
    /\ option \in pendingCapture
    /\ ~CaptureFits(state, CurrentPlayer, pendingCardID, option)
    /\ state' = ApplyCapture(state, CurrentPlayer, pendingCardID, option)
    /\ pendingCapture' = {}
    /\ UNCHANGED pendingCardID

\* doBotMove, several options: the computer player's card is played and its
\* choice made in one critical section, so nobody sees the choice pending.
CaptureAtOnce(c, option) ==
    /\ WithinBound
    /\ pendingCapture = {}
    /\ c \in state.hand[CurrentPlayer]
    /\ Cardinality(ComputeCaptures(c, state.tableCards)) >= 2
    /\ option \in ComputeCaptures(c, state.tableCards)
    /\ state' \in AdvanceTurnOrDeal(ApplyCapture(state, CurrentPlayer, c, option))
    /\ pendingCardID' = c
    /\ UNCHANGED pendingCapture

\* autoSkipTurn: a card is discarded whatever it could have captured.
Skip(c) ==
    /\ WithinBound
    /\ pendingCapture = {}
    /\ c \in state.hand[CurrentPlayer]
    /\ state' \in AdvanceTurnOrDeal(ApplyDiscard(state, CurrentPlayer, c))
    /\ UNCHANGED <<pendingCapture, pendingCardID>>

\* Nothing moves after the game, or beyond the bound of the model.
Finished ==
    /\ state.phase = "game_over" \/ ~WithinBound
    /\ UNCHANGED flowVars

FlowNext ==
    \/ \E c \in Pack : Discard(c) \/ AutoCapture(c) \/ OfferCaptures(c) \/ Skip(c)
    \/ \E c \in Pack : \E option \in ComputeCaptures(c, state.tableCards) :
           CaptureAtOnce(c, option)
    \/ \E option \in pendingCapture : ChooseCapture(option)
    \/ Finished

FlowSpec == FlowInit /\ [][FlowNext]_flowVars
-------------------------------------------------------------------------------
(***************************************************************************)
(* Properties                                                              *)
(***************************************************************************)
GameType ==
    [phase              : Phases,
     hand               : [Seats -> SUBSET Pack],
     captured           : [Seats -> SUBSET Pack],
     tablas             : [Seats -> Nat],
     totalScore         : [Seats -> Nat],
     deck               : SUBSET Pack,
     tableCards         : SUBSET Pack,
     currentPlayerIndex : Seats,
     lastCapturerIndex  : Seats \cup {NoSeat},
     dealNumber         : Nat,
     roundNumber        : Nat]

\* The type invariant of the room's game and of the capture it awaits.
FlowTypeOK ==
    /\ state \in GameType
    /\ pendingCapture \in SUBSET (SUBSET (SUBSET Pack))
    /\ pendingCardID \in Pack \cup {NoCard}

\* No card is in two places of a game.
NoDuplication(g) ==
    /\ g.deck \cap g.tableCards = {}
    /\ \A i \in Seats :
           (g.hand[i] \cup g.captured[i]) \cap (g.deck \cup g.tableCards) = {}
    /\ \A i, j \in Seats : g.hand[i] \cap g.captured[j] = {}
    /\ \A i, j \in Seats : i # j => /\ g.hand[i] \cap g.hand[j] = {}
                                    /\ g.captured[i] \cap g.captured[j] = {}

\* Every card of the pack is somewhere in a game.
NoLoss(g) ==
    \A c \in Pack :
        \/ c \in g.deck
        \/ c \in g.tableCards
        \/ \E i \in Seats : c \in g.hand[i] \/ c \in g.captured[i]

\* The operations of a round move cards between deck, table, hands and captured
\* piles one list at a time; over any sequence of deals, discards, captures,
\* last-hand awards and new rounds each card of the pack stays in exactly one.
CardsConserved == NoDuplication(state) /\ NoLoss(state)

HandsInStepOf(g) ==
    \E n \in 1 .. HandSize : \A i \in Seats :
        Cardinality(g.hand[i]) = IF i < g.currentPlayerIndex THEN n - 1 ELSE n

\* The hands run down together, in seat order from seat 0: while the game is
\* played the seats that have moved this turn hold one card fewer.  So the
\* current player always has a card to play, which the computer player (it
\* plays from p.Hand[0]) and the automatic skip take for granted.
HandsInStep == state.phase = "playing" => HandsInStepOf(state)

DeckInStepOf(g) ==
    Cardinality(g.deck) + g.dealNumber * (NumPlayers * HandSize) + TableSize
        = Cardinality(Pack)

\* The deck always holds what the deals so far have left, a whole number of
\* deals, so advanceTurnOrDeal never takes the branch of a failed deal, which
\* would leave a room with empty hands and nobody to move.
DeckInStep == DeckInStepOf(state) /\ ~DealFailed(state)

\* While a choice is awaited the card is in the current player's hand and the
\* options are exactly what that card offers on the table as it is now.
PendingFits ==
    pendingCapture # {} =>
        /\ state.phase = "playing"
        /\ pendingCardID \in state.hand[CurrentPlayer]
        /\ pendingCapture = ComputeCaptures(pendingCardID, state.tableCards)

\* The game stops with the round in which a total reaches WinScore: nobody plays
\* on with a total that has already won.
NobodyHasWonYet ==
    state.phase = "playing" => \A i \in Seats : state.totalScore[i] < WinScore

LastCapturerOf(g) ==
    IF g.lastCapturerIndex = NoSeat
    THEN \A i \in Seats : g.captured[i] = {}
    ELSE g.captured[g.lastCapturerIndex] # {}

\* The cards left at the end of a round go to a seat that has captured in this
\* round: the last capturer is known exactly when somebody has captured.
LastCapturerHasCaptured == LastCapturerOf(state)

SumOverSeats(f) == SumOver(f, Seats)

TotalsAfterRound(g) ==
    IF g.phase = "game_over"
    THEN [i \in Seats |-> Standing(g, ComputeRoundScores(g), i)]
    ELSE g.totalScore

RoundSettles ==
    \/ state'.roundNumber > state.roundNumber
    \/ state.phase = "playing" /\ state'.phase = "game_over"

\* The cards that are still to be played in a round.
ToPlay(g) == g.deck \cup UNION {g.hand[i] : i \in Seats}

\* Every move takes one card of the mover out of those, whatever is dealt with it,
\* and it is the last one exactly when the round ends: rounds, and with them games,
\* neither stop early, with cards unplayed, nor go on for ever.  Until a choice is
\* made its card has not been played.
EveryCardIsPlayed ==
    [][ IF pendingCapture' # {} THEN UNCHANGED state
        ELSE \E c \in state.hand[CurrentPlayer] :
                IF RoundSettles THEN ToPlay(state) = {c}
                ELSE ToPlay(state') = ToPlay(state) \ {c} /\ ToPlay(state') # {} ]_flowVars

\* A round in which somebody has captured pays out every point of the pack
\* once, the tablas of the round (the last card may add one) and Spil at most
\* once; with teams both partners are paid.
RoundPaysOut ==
    [][ RoundSettles /\ state.lastCapturerIndex # NoSeat =>
            SumOverSeats(TotalsAfterRound(state')) - SumOverSeats(state.totalScore)
                \in {(IF NumPlayers = 4 THEN 2 ELSE 1) *
                        (CardPoints(Pack) + SumOverSeats(state.tablas) + t + s) :
                     t \in {0, 1}, s \in {0, 3}} ]_flowVars

\* What a card of the current player can capture is what the rules allow, no
\* more and no less, on every table that play can lead to.
CapturesFollowTheRules ==
    \A c \in state.hand[CurrentPlayer] :
        {UNION option : option \in ComputeCaptures(c, state.tableCards)}
            = CapturableSets(c, state.tableCards)

\* types.go says of an option that each of its groups sums to the played card's
\* value: one value, also when the played card is an ace.
OptionsShareOneValue ==
    \A option \in pendingCapture :
        \E v \in CardValues(pendingCardID) : \A group \in option : AddsUpTo(group, v)

\* Partners always have the same total.
PartnersTied ==
    NumPlayers = 4 => \A i \in {0, 1} : state.totalScore[i] = state.totalScore[i + 2]
===============================================================================
