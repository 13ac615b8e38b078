----------------------------- MODULE ClientState -----------------------------
(***************************************************************************)
(* The messages that tell a player what happens in the game, and what the  *)
(* player's page makes of them: the reducer applyServerMessage             *)
(* (client/src/state/client-state.ts) and, of the game scene, whether the  *)
(* cards of the hand react to clicks (scenes/game.ts).                     *)
(*                                                                         *)
(* Left out: ROUND_END, TURN_AUTO_SKIPPED, PLAYER_DISCONNECTED, PONG and   *)
(* ERROR, which change nothing kept here (they do take a place in the      *)
(* write channel, whose capacity is a parameter), ROOM_JOINED, which comes *)
(* before all of these, and the scoring points that travel with each       *)
(* capturedCount.                                                          *)
(***************************************************************************)
EXTENDS GameState, Bags

CONSTANT Me   \* the player's seat

ASSUME MeAssumption == Me \in Seats

\* How many more deals the deck is good for.
dealsRemaining(g) == Cardinality(g.deck) \div (HandSize * NumPlayers)

CapturedCounts(g) == [i \in Seats |-> Cardinality(g.captured[i])]

\* ToClientState: no deck and no hands.
ToClientState(g) ==
    [phase          |-> g.phase,
     table          |-> g.tableCards,
     current        |-> g.currentPlayerIndex,
     dealsRemaining |-> dealsRemaining(g),
     totalScore     |-> g.totalScore,
     capturedCount  |-> CapturedCounts(g)]

GameStarted(g) == [type |-> "GAME_STARTED", state |-> ToClientState(g)]
HandDealt(cards, deals) ==
    [type |-> "HAND_DEALT", cards |-> cards, dealsRemaining |-> deals]
TurnStart(i) == [type |-> "TURN_START", playerIndex |-> i]
CardPlayed(i, c) == [type |-> "CARD_PLAYED", player |-> i, card |-> c]
CardDiscarded(c) == [type |-> "CARD_DISCARDED", card |-> c]
CaptureOptions(options) == [type |-> "CAPTURE_OPTIONS", options |-> options]
CaptureMade(i, cards, wasTabla, count) ==
    [type |-> "CAPTURE_MADE", player |-> i, cards |-> cards,
     wasTabla |-> wasTabla, capturedCount |-> count]
GameOver(scores, counts) ==
    [type |-> "GAME_OVER", totalScore |-> scores, capturedCount |-> counts]

\* The page before it has heard of a game.  A card can be on its table twice.
createLocalState ==
    [started        |-> FALSE,
     over           |-> FALSE,
     table          |-> EmptyBag,
     current        |-> 0,
     dealsRemaining |-> 0,
     totalScore     |-> [i \in Seats |-> 0],
     capturedCount  |-> [i \in Seats |-> 0],
     playerTablas   |-> [i \in Seats |-> 0],
     myHand         |-> {},
     captureOptions |-> {},
     handEnabled    |-> FALSE]

isMyTurn(v) == v.started /\ v.current = Me

\* Mutant of WithoutCards: one copy of each card is taken.
WithoutOneCopy(table, cards) == table (-) SetToBag(cards)

\* Every copy of a card goes.
WithoutCards(table, cards) == [c \in DOMAIN table \ cards |-> table[c]]

\* Mutant of OnGameStarted: the tablas are counted on.
OnGameStartedTablasKept(v, m) ==
    [v EXCEPT !.started        = TRUE,
              !.over           = m.state.phase = "game_over",
              !.table          = SetToBag(m.state.table),
              !.current        = m.state.current,
              !.dealsRemaining = m.state.dealsRemaining,
              !.totalScore     = m.state.totalScore,
              !.capturedCount  = m.state.capturedCount,
              !.captureOptions = {}]

OnGameStarted(v, m) ==
    [v EXCEPT !.started        = TRUE,
              !.over           = m.state.phase = "game_over",
              !.table          = SetToBag(m.state.table),
              !.current        = m.state.current,
              !.dealsRemaining = m.state.dealsRemaining,
              !.totalScore     = m.state.totalScore,
              !.capturedCount  = m.state.capturedCount,
              !.playerTablas   = [i \in Seats |-> 0],
              !.captureOptions = {}]

\* Mutant of OnHandDealt: the hand waits for TURN_START to be enabled.
OnHandDealtDisabled(v, m) ==
    [v EXCEPT !.myHand         = m.cards,
              !.dealsRemaining = IF v.started THEN m.dealsRemaining ELSE @,
              !.handEnabled    = FALSE]

\* Without a game there is no scene whose hand could be enabled.
OnHandDealt(v, m) ==
    [v EXCEPT !.myHand         = m.cards,
              !.dealsRemaining = IF v.started THEN m.dealsRemaining ELSE @,
              !.handEnabled    = isMyTurn(v)]

OnTurnStart(v, m) ==
    IF v.started
    THEN [v EXCEPT !.current        = m.playerIndex,
                   !.captureOptions = {},
                   !.handEnabled    = m.playerIndex = Me]
    ELSE v

OnCardPlayed(v, m) ==
    IF m.player = Me THEN [v EXCEPT !.myHand = @ \ {m.card}] ELSE v

OnCardDiscarded(v, m) ==
    IF v.started THEN [v EXCEPT !.table = @ (+) SetToBag({m.card})] ELSE v

\* The hand is disabled while there is a choice to make.
OnCaptureOptions(v, m) ==
    [v EXCEPT !.captureOptions = m.options,
              !.handEnabled    = @ /\ ~v.started]

OnCaptureMade(v, m) ==
    IF v.started
    THEN [v EXCEPT !.table                   = WithoutCards(@, m.cards),
                   !.playerTablas[m.player]  = IF m.wasTabla THEN @ + 1 ELSE @,
                   !.capturedCount[m.player] = m.capturedCount,
                   !.captureOptions          = {}]
    ELSE v

OnGameOver(v, m) ==
    IF v.started
    THEN [v EXCEPT !.over          = TRUE,
                   !.totalScore    = m.totalScore,
                   !.capturedCount = m.capturedCount]
    ELSE v

\* What the player can choose from: the scene confirms the one option with the
\* most cards at once; if there are several, it shows them all.
Choosable(options) ==
    LET size(option) == Cardinality(UNION option)
        most == {a \in options : \A b \in options : size(b) <= size(a)}
    IN IF Cardinality(most) = 1 THEN most ELSE options

applyServerMessage(v, m) ==
    CASE m.type = "GAME_STARTED"    -> OnGameStarted(v, m)
      [] m.type = "HAND_DEALT"      -> OnHandDealt(v, m)
      [] m.type = "TURN_START"      -> OnTurnStart(v, m)
      [] m.type = "CARD_PLAYED"     -> OnCardPlayed(v, m)
      [] m.type = "CARD_DISCARDED"  -> OnCardDiscarded(v, m)
      [] m.type = "CAPTURE_OPTIONS" -> OnCaptureOptions(v, m)
      [] m.type = "CAPTURE_MADE"    -> OnCaptureMade(v, m)
      [] m.type = "GAME_OVER"       -> OnGameOver(v, m)
===============================================================================
