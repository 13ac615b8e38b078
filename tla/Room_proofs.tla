------------------------------ MODULE Room_proofs ------------------------------
(***************************************************************************)
(* Proofs about Room.                                                      *)
(*                                                                         *)
(* The first part holds however many callbacks come late (any MaxLate):    *)
(* cards and the turn are kept by the operations on the game themselves,   *)
(* whoever calls them and with whatever choice.  The second part is about  *)
(* a room whose callbacks get the mutex as their timer fires (MaxLate is   *)
(* 0): then no choice is left pending when the turn passes by itself, and  *)
(* the room implements TurnFlow.                                           *)
(***************************************************************************)
EXTENDS Room, TurnFlow_proofs
-------------------------------------------------------------------------------
(***************************************************************************)
(* However late callbacks come.                                            *)
(***************************************************************************)
\* What a step of the room may do to the game.
GameStep ==
    /\ Kept(state')
    /\ state' # state =>
          /\ \A i \in Seats \ {CurrentPlayer} :
                 state'.roundNumber = state.roundNumber => state.hand[i] \subseteq state'.hand[i]
          /\ state'.currentPlayerIndex \in {CurrentPlayer, (CurrentPlayer + 1) % NumPlayers}

\* The inductive invariant.
RoomKept == RoomTypeOK /\ Kept(state)

\* The turn passes after the mover's own card was played or captured with.
LEMMA TurnPasses ==
    ASSUME Kept(state), NEW g, Kept(g),
           g.currentPlayerIndex = CurrentPlayer, g.roundNumber = state.roundNumber,
           \A j \in Seats \ {CurrentPlayer} : g.hand[j] = state.hand[j],
           state' \in AdvanceTurnOrDeal(g)
    PROVE  GameStep /\ state' \in GameType
  BY AdvanceKeeps DEF GameStep, HandsGrow, Kept

\* The mover is a seat of the game.
LEMMA MoverHasASeat == ASSUME Kept(state) PROVE CurrentPlayer \in Seats
  BY DEF Kept, GameType, CurrentPlayer

\* handlePlayCard, doBotMove and autoSkipTurn discard for the mover.
LEMMA DiscardPasses ==
    ASSUME Kept(state), NEW c \in state.hand[CurrentPlayer],
           state' \in AdvanceTurnOrDeal(ApplyDiscard(state, CurrentPlayer, c))
    PROVE  GameStep /\ state' \in GameType
<1> DEFINE g == ApplyDiscard(state, CurrentPlayer, c)
<1>1. /\ Kept(g) /\ g.currentPlayerIndex = CurrentPlayer
      /\ g.roundNumber = state.roundNumber
      /\ \A j \in Seats \ {CurrentPlayer} : g.hand[j] = state.hand[j]
  BY DiscardKeeps, MoverHasASeat DEF CurrentPlayer
<1> HIDE DEF g
<1> QED BY <1>1, TurnPasses DEF g

\* handlePlayCard, handleChooseCapture and doBotMove capture for the mover.
LEMMA CapturePasses ==
    ASSUME Kept(state), NEW c, NEW option,
           state' \in AdvanceTurnOrDeal(ApplyCapture(state, CurrentPlayer, c, option))
    PROVE  GameStep /\ state' \in GameType
<1> DEFINE g == ApplyCapture(state, CurrentPlayer, c, option)
<1>1. /\ Kept(g) /\ g.currentPlayerIndex = CurrentPlayer
      /\ g.roundNumber = state.roundNumber
      /\ \A j \in Seats \ {CurrentPlayer} : g.hand[j] = state.hand[j]
  BY CaptureKeeps, MoverHasASeat DEF CurrentPlayer
<1> HIDE DEF g
<1> QED BY <1>1, TurnPasses DEF g

\* A capture that fails costs the mover a card and leaves the turn.
LEMMA FailureStays ==
    ASSUME RoomKept, NEW option, CaptureFails(option)
    PROVE  GameStep /\ FlowTypeOK'
<1>1. Kept(state) /\ CurrentPlayer \in Seats /\ FlowTypeOK
  BY MoverHasASeat DEF RoomKept, RoomTypeOK
<1>2. state' = ApplyCapture(state, CurrentPlayer, pendingCardID, option)
  BY DEF CaptureFails
<1>3. /\ Kept(state') /\ state'.currentPlayerIndex = CurrentPlayer
      /\ \A j \in Seats \ {CurrentPlayer} : state'.hand[j] = state.hand[j]
  BY <1>1, <1>2, CaptureKeeps DEF CurrentPlayer
<1>4. FlowTypeOK'
  BY <1>1, <1>3 DEF Kept, CaptureFails, FlowTypeOK
<1> QED BY <1>3, <1>4 DEF GameStep

\* A step that leaves the game alone.
LEMMA GameStays ==
    ASSUME RoomKept, UNCHANGED flowVars PROVE GameStep /\ FlowTypeOK'
  BY DEF RoomKept, RoomTypeOK, FlowTypeOK, flowVars, GameStep, Kept, NoDuplication,
         LastCapturerOf

\* The options offered to a player are sets of groups of cards.
LEMMA OptionsTyped ==
    ASSUME FlowTypeOK, NEW c
    PROVE  ComputeCaptures(c, state.tableCards) \in SUBSET (SUBSET (SUBSET Pack))
<1>1. state.tableCards \in SUBSET Pack
  BY DEF FlowTypeOK, GameType
<1> QED BY <1>1 DEF ComputeCaptures, FindCaptureCombinations, FindSubsets

\* advanceTurnOrDeal leaves a timer for a seat of the game, or none.
LEMMA TimersTyped ==
    ASSUME state' \in GameType, NEW timer \in Seats \cup {NoSeat}, NEW scheduled \in Nat,
           AfterTurn(timer, scheduled)
    PROVE  turnTimer' \in Seats \cup {NoSeat} /\ botMoves' \in Nat
<1>1. state'.currentPlayerIndex \in Seats
  BY DEF GameType
<1> QED BY <1>1 DEF AfterTurn

\* Every step of the room keeps its types, and moves at most the mover's cards.
LEMMA RoomStepKeeps == ASSUME RoomKept, [RoomNext]_roomVars PROVE RoomKept' /\ GameStep
<1> USE DEF RoomKept
<1>1. /\ Kept(state) /\ FlowTypeOK /\ RoomTypeOK /\ CurrentPlayer \in Seats
      /\ turnTimer \in Seats \cup {NoSeat} /\ botMoves \in Nat
  BY MoverHasASeat DEF RoomTypeOK
<1>2. SUFFICES RoomTypeOK' /\ GameStep
  BY DEF GameStep
<1>3. ASSUME NEW c \in Pack, Discard(c) \/ AutoCapture(c)
      PROVE  GameStep /\ state' \in GameType /\ FlowTypeOK'
  <2>1. GameStep /\ state' \in GameType
    BY <1>1, <1>3, DiscardPasses, CapturePasses DEF Discard, AutoCapture
  <2> QED BY <1>1, <1>3, <2>1 DEF Discard, AutoCapture, FlowTypeOK
<1>4. ASSUME NEW option \in pendingCapture, ChooseCapture(option)
      PROVE  GameStep /\ state' \in GameType /\ FlowTypeOK'
  <2>1. GameStep /\ state' \in GameType
    BY <1>1, <1>4, CapturePasses DEF ChooseCapture
  <2> QED BY <1>1, <1>4, <2>1 DEF ChooseCapture, FlowTypeOK
<1>5. ASSUME NEW p, NEW timer \in Seats \cup {NoSeat}, autoSkipTurn(p, timer)
      PROVE  /\ GameStep /\ FlowTypeOK'
             /\ turnTimer' \in Seats \cup {NoSeat} /\ botMoves' \in Nat
  <2>1. CASE UNCHANGED flowVars /\ turnTimer' = timer /\ UNCHANGED botMoves
    BY <1>1, <2>1, GameStays
  <2>2. CASE /\ p = CurrentPlayer
             /\ \E c \in state.hand[p] :
                    state' \in AdvanceTurnOrDeal(ApplyDiscard(state, p, c))
             /\ AfterTurn(timer, botMoves)
             /\ UNCHANGED <<pendingCapture, pendingCardID>>
    <3>1. GameStep /\ state' \in GameType
      BY <1>1, <2>2, DiscardPasses
    <3>2. turnTimer' \in Seats \cup {NoSeat} /\ botMoves' \in Nat
      BY <1>1, <2>2, <3>1, TimersTyped
    <3> QED BY <1>1, <2>2, <3>1, <3>2 DEF FlowTypeOK
  <2> QED BY <1>5, <2>1, <2>2 DEF autoSkipTurn
<1>6. ASSUME NEW p \in Humans, NEW c \in Pack, RejectPlayCard(p, c)
      PROVE  RoomTypeOK' /\ GameStep
  BY <1>1, <1>6, GameStays DEF RejectPlayCard, RoomTypeOK, connVars
<1>7. ASSUME NEW p \in Humans, NEW c \in Pack, PlayCard(p, c)
      PROVE  RoomTypeOK' /\ GameStep
  <2>1. GameStep /\ state' \in GameType /\ FlowTypeOK' /\ AfterTurn(NoSeat, botMoves)
    BY <1>3, <1>7 DEF PlayCard
  <2>2. turnTimer' \in Seats \cup {NoSeat} /\ botMoves' \in Nat
    BY <1>1, <2>1, TimersTyped
  <2> QED BY <1>1, <1>7, <2>1, <2>2 DEF PlayCard, RoomTypeOK, connVars
<1>8. ASSUME NEW p \in Humans, NEW c \in Pack, PlayCardWithOptions(p, c)
      PROVE  RoomTypeOK' /\ GameStep
  <2>1. FlowTypeOK'
    BY <1>1, <1>8, OptionsTyped DEF PlayCardWithOptions, OfferCaptures, FlowTypeOK
  <2>2. GameStep
    BY <1>1, <1>8 DEF PlayCardWithOptions, OfferCaptures, GameStep, Kept, NoDuplication,
                      LastCapturerOf
  <2> QED BY <1>1, <1>8, <2>1, <2>2 DEF PlayCardWithOptions, RoomTypeOK, connVars
<1>9. ASSUME NEW p \in Humans, NEW option \in pendingCapture, ChooseOption(p, option)
      PROVE  RoomTypeOK' /\ GameStep
  <2>1. GameStep /\ state' \in GameType /\ FlowTypeOK' /\ AfterTurn(turnTimer, botMoves)
    BY <1>4, <1>9 DEF ChooseOption
  <2>2. turnTimer' \in Seats \cup {NoSeat} /\ botMoves' \in Nat
    BY <1>1, <2>1, TimersTyped
  <2> QED BY <1>1, <1>9, <2>1, <2>2 DEF ChooseOption, RoomTypeOK, connVars
<1>10. ASSUME NEW p \in Humans, NEW option \in pendingCapture, ChooseFailingOption(p, option)
       PROVE  RoomTypeOK' /\ GameStep
  BY <1>1, <1>10, FailureStays DEF ChooseFailingOption, RoomTypeOK, connVars, timerVars
<1>11. ASSUME NEW p \in Humans, Reconnect(p) PROVE RoomTypeOK' /\ GameStep
  <2>1. GameStep /\ FlowTypeOK'
    BY <1>11, GameStays DEF Reconnect
  <2>2. loops' \in [Seats -> 0 .. MaxSessions] /\ online' \in [Seats -> BOOLEAN]
    BY <1>11, RoomAssumption DEF Reconnect, RoomTypeOK, Humans
  <2> QED BY <1>1, <1>11, <2>1, <2>2 DEF Reconnect, RoomTypeOK
<1>12. ASSUME NEW p \in Humans, Disconnect(p) PROVE RoomTypeOK' /\ GameStep
  <2>1. GameStep /\ FlowTypeOK'
    BY <1>12, GameStays DEF Disconnect
  <2>2. loops' \in [Seats -> 0 .. MaxSessions] /\ online' \in [Seats -> BOOLEAN]
    BY <1>12, RoomAssumption DEF Disconnect, RoomTypeOK, Humans
  <2> QED BY <1>1, <1>12, <2>1, <2>2 DEF Disconnect, RoomTypeOK, timerVars
<1>13. ASSUME NEW p \in Humans, TimerSkips(p) PROVE RoomTypeOK' /\ GameStep
  BY <1>1, <1>5, <1>13 DEF TimerSkips, RoomTypeOK, connVars
<1>14. ASSUME NEW p \in Humans, TimerFires(p) PROVE RoomTypeOK' /\ GameStep
  <2>1. GameStep /\ FlowTypeOK'
    BY <1>14, GameStays DEF TimerFires
  <2>2. late' \in [Seats -> 0 .. MaxLate]
    BY <1>14, RoomAssumption DEF TimerFires, RoomTypeOK, Humans
  <2> QED BY <1>1, <1>14, <2>1, <2>2 DEF TimerFires, RoomTypeOK, connVars
<1>15. ASSUME NEW p \in Humans, LateSkip(p) PROVE RoomTypeOK' /\ GameStep
  <2>1. /\ GameStep /\ FlowTypeOK'
        /\ turnTimer' \in Seats \cup {NoSeat} /\ botMoves' \in Nat
    BY <1>1, <1>5, <1>15 DEF LateSkip
  <2>2. late' \in [Seats -> 0 .. MaxLate]
    BY <1>15, RoomAssumption DEF LateSkip, RoomTypeOK, Humans
  <2> QED BY <1>15, <2>1, <2>2 DEF LateSkip, RoomTypeOK, connVars
<1>16. ASSUME BotMove PROVE RoomTypeOK' /\ GameStep
  <2>1. botMoves > 0 /\ botMoves - 1 \in Nat /\ UNCHANGED <<botPlayerID, connVars, late>>
    BY <1>1, <1>16 DEF BotMove
  <2>2. SUFFICES /\ GameStep /\ FlowTypeOK'
                 /\ turnTimer' \in Seats \cup {NoSeat} /\ botMoves' \in Nat
    BY <2>1 DEF RoomTypeOK, connVars
  <2>3. CASE UNCHANGED <<flowVars, turnTimer>> /\ botMoves' = botMoves - 1
    BY <1>1, <2>1, <2>3, GameStays
  <2>4. CASE BotPlays
    <3>1. \A c \in botPickCard(state.hand[CurrentPlayer], state.tableCards) :
              c \in state.hand[CurrentPlayer] /\ c \in Pack
      <4>1. state.hand[CurrentPlayer] \subseteq Pack
        BY <1>1 DEF FlowTypeOK, GameType
      <4> QED BY <4>1 DEF botPickCard
    <3>2. PICK c \in botPickCard(state.hand[CurrentPlayer], state.tableCards) :
             \/ Discard(c)
             \/ AutoCapture(c)
             \/ \E option \in Greediest(ComputeCaptures(c, state.tableCards)) :
                    CaptureAtOnce(c, option)
      BY <2>4 DEF BotPlays
    <3>3. CASE Discard(c) \/ AutoCapture(c)
      <4>1. GameStep /\ state' \in GameType /\ FlowTypeOK'
        BY <1>3, <3>1, <3>3
      <4> QED BY <1>1, <2>1, <2>4, <4>1, TimersTyped DEF BotPlays
    <3>4. ASSUME NEW option, CaptureAtOnce(c, option)
          PROVE  /\ GameStep /\ FlowTypeOK'
                 /\ turnTimer' \in Seats \cup {NoSeat} /\ botMoves' \in Nat
      <4>1. GameStep /\ state' \in GameType
        BY <1>1, <3>4, CapturePasses DEF CaptureAtOnce
      <4>2. FlowTypeOK'
        BY <1>1, <3>1, <3>4, <4>1 DEF CaptureAtOnce, FlowTypeOK
      <4> QED BY <1>1, <2>1, <2>4, <4>1, <4>2, TimersTyped DEF BotPlays
    <3> QED BY <3>2, <3>3, <3>4
  <2>5. CASE BotTakesOverChoice
    <3>1. PICK option \in pendingCapture :
             \/ ChooseCapture(option) /\ AfterTurn(NoSeat, botMoves - 1)
             \/ /\ CaptureFails(option)
                /\ turnTimer' = NoSeat /\ botMoves' = botMoves - 1
      BY <2>5 DEF BotTakesOverChoice, Greediest
    <3>2. CASE ChooseCapture(option) /\ AfterTurn(NoSeat, botMoves - 1)
      BY <1>4, <2>1, <3>2, TimersTyped
    <3>3. CASE CaptureFails(option) /\ turnTimer' = NoSeat /\ botMoves' = botMoves - 1
      BY <2>1, <3>3, FailureStays
    <3> QED BY <3>1, <3>2, <3>3
  <2> QED BY <1>16, <2>3, <2>4, <2>5 DEF BotMove
<1>17. CASE UNCHANGED roomVars
  <2>1. GameStep /\ FlowTypeOK'
    BY <1>17, GameStays DEF roomVars
  <2> QED BY <1>1, <1>17, <2>1 DEF roomVars, RoomTypeOK, connVars, timerVars
<1> QED
  BY <1>6, <1>7, <1>8, <1>9, <1>10, <1>11, <1>12, <1>13, <1>14, <1>15, <1>16, <1>17
  DEF RoomNext

\* A room starts with a game that is dealt, at most one connection per player
\* and no timer.
LEMMA RoomStarts == RoomInit => RoomKept
<1> SUFFICES ASSUME RoomInit PROVE RoomKept
  OBVIOUS
<1>1. FlowInv
  BY InitSettles DEF RoomInit
<1>2. FlowTypeOK /\ Kept(state)
  BY <1>1 DEF FlowInv, Settled, Sound, Kept
<1>3. loops \in [Seats -> 0 .. MaxSessions] /\ late \in [Seats -> 0 .. MaxLate]
  BY RoomAssumption DEF RoomInit
<1> QED BY <1>2, <1>3 DEF RoomInit, RoomKept, RoomTypeOK

\* Between two critical sections the room is well formed and its game keeps its
\* cards.
THEOREM RoomKeeps == RoomSpec => []RoomKept
<1>1. RoomKept /\ [RoomNext]_roomVars => RoomKept'
  BY RoomStepKeeps
<1> QED BY <1>1, RoomStarts, PTL DEF RoomSpec

\* The room's connections, timers and game are well formed, whatever comes late.
THEOREM RoomTypeCorrect == RoomSpec => []RoomTypeOK
<1>1. RoomKept => RoomTypeOK
  BY DEF RoomKept
<1> QED BY <1>1, RoomKeeps, PTL

\* No order of moves, disconnects, timers and late callbacks puts a card in two
\* places, although a choice may by then be for another table and another hand.
THEOREM LateCallbacksDoubleNoCard == RoomSpec => []CardsNeverDoubled
<1>1. RoomKept => CardsNeverDoubled
  BY DEF RoomKept, Kept, CardsNeverDoubled
<1> QED BY <1>1, RoomKeeps, PTL

\* The award at the end of a round goes to a seat that has captured in it, even
\* when captures fail on the way.
THEOREM LateAwardGoesToACapturer == RoomSpec => []LastCapturerHasCaptured
<1>1. RoomKept => LastCapturerHasCaptured
  BY DEF RoomKept, Kept, LastCapturerHasCaptured
<1> QED BY <1>1, RoomKeeps, PTL

\* No callback, however late, takes a card from a player who is not to move, or
\* passes a seat over.
THEOREM NobodyIsPassedOver == RoomSpec => OnlyMoverPlays
<1>1. ASSUME RoomKept, [RoomNext]_roomVars
      PROVE  [ state' # state =>
                /\ \A i \in Seats \ {CurrentPlayer} :
                       state'.roundNumber = state.roundNumber => state.hand[i] \subseteq state'.hand[i]
                /\ state'.currentPlayerIndex \in {CurrentPlayer, (CurrentPlayer + 1) % NumPlayers}
             ]_roomVars
  BY <1>1, RoomStepKeeps DEF GameStep
<1> QED BY <1>1, RoomKeeps, PTL DEF RoomSpec, OnlyMoverPlays
-------------------------------------------------------------------------------
(***************************************************************************)
(* When callbacks get the mutex as their timer fires.                      *)
(***************************************************************************)
\* The inductive invariant.  A card that offers a choice has stopped the timer,
\* and the computer player never leaves a choice pending: so neither the timer
\* nor the computer player meets one.
CalmInv ==
    /\ FlowInv /\ RoomTypeOK
    /\ pendingCapture # {} => turnTimer = NoSeat /\ CurrentPlayer # botPlayerID
    /\ TimerIsForAbsentMover
    /\ BotIsScheduled

\* What is about the connections and timers in it.
CalmTimers ==
    /\ pendingCapture # {} => turnTimer = NoSeat /\ CurrentPlayer # botPlayerID
    /\ TimerIsForAbsentMover
    /\ BotIsScheduled

\* A room that starts is calm: no timer is set for the first turn.
LEMMA StartsCalm == ASSUME RoomInit PROVE CalmInv
<1>1. FlowInv /\ RoomTypeOK
  BY InitSettles, RoomStarts DEF RoomInit, RoomKept
<1>2. pendingCapture = {} /\ turnTimer = NoSeat
  BY DEF RoomInit, FlowInit
<1>3. BotIsScheduled
  BY DEF RoomInit, BotIsScheduled, CurrentPlayer
<1> QED BY <1>1, <1>2, <1>3 DEF CalmInv, TimerIsForAbsentMover

\* Whoever's card is in the hand of the mover, the game is on; with the bound not
\* reached the computer player's timer is as it should be.
LEMMA CalmMover ==
    ASSUME CalmInv, WithinBound,
           \/ pendingCapture # {}
           \/ state.hand[CurrentPlayer] # {}
    PROVE  /\ state.phase = "playing" /\ ~Over
           /\ botMoves = IF CurrentPlayer = botPlayerID THEN 1 ELSE 0
<1>1. state.phase = "playing"
  BY MoverIsPlaying DEF CalmInv, FlowInv, PendingFits, CurrentPlayer
<1> QED BY <1>1 DEF Over, CalmInv, BotIsScheduled

\* After a move that leaves no other timer running, the timers fit the new turn.
LEMMA TurnStaysCalm ==
    ASSUME FlowInv', pendingCapture' = {}, AfterTurn(NoSeat, 0),
           UNCHANGED <<botPlayerID, connVars>>
    PROVE  CalmTimers'
<1>1. state'.phase \in {"playing", "game_over"} /\ ~DealFailed(state')
  BY NoDealHasFailed DEF FlowInv, Settled
<1>2. CASE state'.phase = "game_over"
  BY <1>2 DEF AfterTurn, CalmTimers, TimerIsForAbsentMover, BotIsScheduled, Over
<1>3. CASE state'.phase = "playing"
  <2>1. /\ turnTimer' = IF isConnected(state'.currentPlayerIndex)
                        THEN NoSeat ELSE state'.currentPlayerIndex
        /\ botMoves' = IF state'.currentPlayerIndex = botPlayerID THEN 1 ELSE 0
    BY <1>1, <1>3 DEF AfterTurn
  <2>2. TimerIsForAbsentMover'
    BY <1>3, <2>1 DEF TimerIsForAbsentMover, isConnected, CurrentPlayer, connVars
  <2>3. BotIsScheduled'
    BY <2>1 DEF BotIsScheduled, CurrentPlayer
  <2> QED BY <2>2, <2>3 DEF CalmTimers
<1> QED BY <1>1, <1>2, <1>3

\* An accepted move of the mover, made without leaving a timer, is a move of
\* TurnFlow and leaves the room calm.
LEMMA MoveIsCalm ==
    ASSUME CalmInv, FlowNext, WithinBound,
           \/ pendingCapture # {}
           \/ state.hand[CurrentPlayer] # {},
           pendingCapture' = {},
           AfterTurn(NoSeat, botMoves - IF CurrentPlayer = botPlayerID THEN 1 ELSE 0),
           UNCHANGED <<botPlayerID, connVars>>
    PROVE  CalmTimers'
<1>1. FlowInv'
  BY StepSettles DEF CalmInv
<1>2. AfterTurn(NoSeat, 0)
  BY CalmMover
<1> QED BY <1>1, <1>2, TurnStaysCalm

\* A step that leaves the game alone keeps the computer player scheduled if it
\* leaves its timer alone, or if the game is over.
LEMMA BotStaysScheduled ==
    ASSUME CalmInv, UNCHANGED <<flowVars, botPlayerID>>,
           botMoves' = botMoves \/ Over
    PROVE  BotIsScheduled'
  BY DEF CalmInv, BotIsScheduled, Over, WithinBound, CurrentPlayer, flowVars

\* One step of a calm room.
LEMMA StepStaysCalm ==
    ASSUME MaxLate = 0, CalmInv, [RoomNext]_roomVars
    PROVE  [FlowNext]_flowVars /\ CalmTimers'
<1>1. /\ FlowInv /\ RoomTypeOK /\ BotIsScheduled /\ TimerIsForAbsentMover
      /\ pendingCapture # {} => turnTimer = NoSeat /\ CurrentPlayer # botPlayerID
      /\ CurrentPlayer \in Seats /\ state.hand[CurrentPlayer] \subseteq Pack
  BY DEF CalmInv, FlowInv, FlowTypeOK, GameType, CurrentPlayer
<1>2. ASSUME NEW p \in Humans, NEW c \in Pack, RejectPlayCard(p, c)
      PROVE  [FlowNext]_flowVars /\ CalmTimers'
  <2>1. UNCHANGED <<flowVars, botPlayerID, botMoves>> /\ turnTimer' = NoSeat
    BY <1>2 DEF RejectPlayCard
  <2>2. BotIsScheduled'
    BY <2>1, BotStaysScheduled
  <2> QED BY <1>1, <2>1, <2>2 DEF CalmTimers, TimerIsForAbsentMover, flowVars, CurrentPlayer
<1>3. ASSUME NEW p \in Humans, NEW c \in Pack, PlayCard(p, c)
      PROVE  [FlowNext]_flowVars /\ CalmTimers'
  <2>1. /\ Discard(c) \/ AutoCapture(c)
        /\ CurrentPlayer # botPlayerID /\ AfterTurn(NoSeat, botMoves)
        /\ UNCHANGED <<botPlayerID, connVars>>
    BY <1>3 DEF PlayCard, Humans
  <2>2. FlowNext /\ WithinBound /\ c \in state.hand[CurrentPlayer] /\ pendingCapture' = {}
    BY <2>1 DEF FlowNext, Discard, AutoCapture
  <2>3. botMoves - (IF CurrentPlayer = botPlayerID THEN 1 ELSE 0) = botMoves
    BY <1>1, <2>1 DEF RoomTypeOK
  <2> QED BY <2>1, <2>2, <2>3, MoveIsCalm
<1>4. ASSUME NEW p \in Humans, NEW c \in Pack, PlayCardWithOptions(p, c)
      PROVE  [FlowNext]_flowVars /\ CalmTimers'
  <2>1. /\ OfferCaptures(c) /\ turnTimer' = NoSeat /\ CurrentPlayer # botPlayerID
        /\ UNCHANGED <<state, botPlayerID, botMoves>>
    BY <1>4 DEF PlayCardWithOptions, OfferCaptures, Humans
  <2>2. FlowNext
    BY <2>1 DEF FlowNext
  <2>3. BotIsScheduled'
    BY <1>1, <2>1 DEF BotIsScheduled, Over, WithinBound, CurrentPlayer
  <2> QED BY <2>1, <2>2, <2>3 DEF CalmTimers, TimerIsForAbsentMover, CurrentPlayer
<1>5. ASSUME NEW p \in Humans, NEW option \in pendingCapture, ChooseOption(p, option)
      PROVE  [FlowNext]_flowVars /\ CalmTimers'
  <2>1. /\ ChooseCapture(option) /\ pendingCapture' = {} /\ WithinBound
        /\ CurrentPlayer # botPlayerID /\ AfterTurn(NoSeat, botMoves)
        /\ UNCHANGED <<botPlayerID, connVars>>
    BY <1>1, <1>5 DEF ChooseOption, ChooseCapture, Humans
  <2>2. FlowNext
    BY <2>1 DEF FlowNext
  <2>3. botMoves - (IF CurrentPlayer = botPlayerID THEN 1 ELSE 0) = botMoves
    BY <1>1, <2>1 DEF RoomTypeOK
  <2> QED BY <2>1, <2>2, <2>3, MoveIsCalm
<1>6. ASSUME NEW option \in pendingCapture, CaptureFails(option) PROVE FALSE
  BY <1>1, <1>6, PendingCanBeTaken DEF CaptureFails
<1>7. ASSUME NEW p \in Humans, Reconnect(p) PROVE [FlowNext]_flowVars /\ CalmTimers'
  <2>1. /\ UNCHANGED <<flowVars, botPlayerID, botMoves>>
        /\ online' = [online EXCEPT ![p] = TRUE]
        /\ turnTimer' = IF p = CurrentPlayer THEN NoSeat ELSE turnTimer
    BY <1>7 DEF Reconnect
  <2>2. BotIsScheduled'
    BY <2>1, BotStaysScheduled
  <2>3. TimerIsForAbsentMover'
    BY <1>1, <2>1 DEF TimerIsForAbsentMover, isConnected, CurrentPlayer, flowVars, RoomTypeOK
  <2> QED BY <1>1, <2>1, <2>2, <2>3 DEF CalmTimers, flowVars, CurrentPlayer
<1>8. ASSUME NEW p \in Humans, Disconnect(p) PROVE [FlowNext]_flowVars /\ CalmTimers'
  <2>1. /\ UNCHANGED <<flowVars, botPlayerID, botMoves, turnTimer>>
        /\ online' = [online EXCEPT ![p] = FALSE]
    BY <1>8 DEF Disconnect, timerVars
  <2>2. BotIsScheduled'
    BY <2>1, BotStaysScheduled
  <2>3. TimerIsForAbsentMover'
    BY <1>1, <2>1 DEF TimerIsForAbsentMover, isConnected, CurrentPlayer, flowVars, RoomTypeOK
  <2> QED BY <1>1, <2>1, <2>2, <2>3 DEF CalmTimers, flowVars, CurrentPlayer
<1>9. ASSUME NEW p \in Humans, TimerSkips(p) PROVE [FlowNext]_flowVars /\ CalmTimers'
  <2>1. /\ turnTimer = p /\ p # NoSeat /\ p = CurrentPlayer /\ CurrentPlayer # botPlayerID
        /\ pendingCapture = {}
    BY <1>1, <1>9, SeatsFacts DEF TimerSkips, TimerIsForAbsentMover, Humans
  <2>2. state.hand[p] # {}
    BY <1>1, <2>1, MoverHasACard DEF FlowInv, CurrentPlayer, TimerIsForAbsentMover
  <2>3. PICK c \in state.hand[p] :
           state' \in AdvanceTurnOrDeal(ApplyDiscard(state, p, c))
    BY <1>9, <2>1, <2>2 DEF TimerSkips, autoSkipTurn
  <2>4. /\ WithinBound /\ AfterTurn(NoSeat, botMoves)
        /\ UNCHANGED <<pendingCapture, pendingCardID, botPlayerID, connVars>>
    BY <1>9, <2>1, <2>2 DEF TimerSkips, autoSkipTurn
  <2>5. Skip(c) /\ c \in Pack
    BY <1>1, <2>1, <2>3, <2>4 DEF Skip
  <2>6. botMoves - (IF CurrentPlayer = botPlayerID THEN 1 ELSE 0) = botMoves
    BY <1>1, <2>1 DEF RoomTypeOK
  <2> QED BY <2>1, <2>2, <2>4, <2>5, <2>6, MoveIsCalm DEF FlowNext
<1>10. \A p \in Humans : ~TimerFires(p) /\ ~LateSkip(p)
  BY <1>1 DEF TimerFires, LateSkip, RoomTypeOK, Humans
<1>11. ASSUME BotMove PROVE [FlowNext]_flowVars /\ CalmTimers'
  <2>1. /\ botMoves > 0 /\ botMoves \in Nat
        /\ UNCHANGED <<botPlayerID, connVars>>
    BY <1>1, <1>11 DEF BotMove, RoomTypeOK
  <2>2. CASE /\ CurrentPlayer # botPlayerID \/ state.phase = "game_over"
             /\ botMoves' = botMoves - 1
             /\ UNCHANGED <<flowVars, turnTimer>>
    <3>1. Over
      BY <1>1, <2>1, <2>2 DEF BotIsScheduled, Over
    <3>2. BotIsScheduled'
      BY <2>1, <2>2, <3>1, BotStaysScheduled
    <3> QED BY <1>1, <2>1, <2>2, <3>2
            DEF CalmTimers, TimerIsForAbsentMover, isConnected, CurrentPlayer, flowVars, connVars
  <2>3. CASE CurrentPlayer = botPlayerID /\ BotPlays
    <3>1. AfterTurn(NoSeat, botMoves - IF CurrentPlayer = botPlayerID THEN 1 ELSE 0)
      BY <2>3 DEF BotPlays
    <3>2. PICK c \in state.hand[CurrentPlayer] :
             \/ Discard(c)
             \/ AutoCapture(c)
             \/ \E option \in ComputeCaptures(c, state.tableCards) : CaptureAtOnce(c, option)
      BY <2>3 DEF BotPlays, botPickCard, Greediest
    <3>3. FlowNext /\ WithinBound /\ pendingCapture' = {}
      BY <1>1, <3>2 DEF FlowNext, Discard, AutoCapture, CaptureAtOnce
    <3> QED BY <2>1, <3>1, <3>2, <3>3, MoveIsCalm
  <2>4. ASSUME CurrentPlayer = botPlayerID, BotTakesOverChoice PROVE FALSE
    BY <1>1, <2>4 DEF BotTakesOverChoice, Greediest
  <2> QED BY <1>11, <2>2, <2>3, <2>4 DEF BotMove
<1>12. CASE UNCHANGED roomVars
  BY <1>1, <1>12 DEF roomVars, flowVars, connVars, timerVars, CalmTimers, BotIsScheduled,
                     TimerIsForAbsentMover, isConnected, CurrentPlayer, Over, WithinBound
<1> QED
  BY <1>2, <1>3, <1>4, <1>5, <1>6, <1>7, <1>8, <1>9, <1>10, <1>11, <1>12
  DEF RoomNext, ChooseFailingOption

\* So a room stays calm.
LEMMA CalmStep ==
    ASSUME MaxLate = 0, CalmInv, [RoomNext]_roomVars PROVE CalmInv'
<1>1. [FlowNext]_flowVars /\ CalmTimers'
  BY StepStaysCalm
<1>2. FlowInv'
  BY <1>1, StepSettles DEF CalmInv
<1>3. Kept(state)
  BY DEF CalmInv, FlowInv, Settled, Sound, Kept
<1>4. RoomTypeOK'
  BY <1>3, RoomStepKeeps DEF CalmInv, RoomKept
<1> QED BY <1>1, <1>2, <1>4 DEF CalmInv, CalmTimers

\* As long as callbacks get the mutex as their timer fires, a room is calm.
THEOREM RoomStaysCalm == ASSUME MaxLate = 0 PROVE RoomSpec => []CalmInv
<1>1. RoomInit => CalmInv
  BY StartsCalm
<1>2. CalmInv /\ [RoomNext]_roomVars => CalmInv'
  BY CalmStep
<1> QED BY <1>1, <1>2, PTL DEF RoomSpec

\* The room, with its connections, rejections, timers and computer player, plays
\* the game of TurnFlow: every critical section is one move of it or none.
THEOREM RoomImplementsTurnFlow == ASSUME MaxLate = 0 PROVE RoomSpec => FlowSpec
<1>1. RoomInit => FlowInit
  BY DEF RoomInit
<1>2. CalmInv /\ [RoomNext]_roomVars => [FlowNext]_flowVars
  BY StepStaysCalm
<1> QED BY <1>1, <1>2, RoomStaysCalm, PTL DEF RoomSpec, FlowSpec

\* The timer runs for nobody but an absent player whose turn it is.
THEOREM TimerForAbsentMoverOnly ==
    ASSUME MaxLate = 0 PROVE RoomSpec => []TimerIsForAbsentMover
<1>1. CalmInv => TimerIsForAbsentMover
  BY DEF CalmInv
<1> QED BY <1>1, RoomStaysCalm, PTL

\* The computer player has one move coming exactly when it is to move, through
\* disconnects, skips, choices and rounds.
THEOREM BotMovesInItsTurn == ASSUME MaxLate = 0 PROVE RoomSpec => []BotIsScheduled
<1>1. CalmInv => BotIsScheduled
  BY DEF CalmInv
<1> QED BY <1>1, RoomStaysCalm, PTL

\* No choice is pending for another table than the one it was offered for: what
\* makes one stale is a callback that gets the mutex late, and nothing else.
THEOREM OnlyLatenessStalesAChoice == ASSUME MaxLate = 0 PROVE RoomSpec => []PendingFits
<1>1. CalmInv => PendingFits
  BY DEF CalmInv, FlowInv
<1> QED BY <1>1, RoomStaysCalm, PTL
-------------------------------------------------------------------------------
(***************************************************************************)
(* What isConnected reports.                                               *)
(***************************************************************************)
\* The connections of the players, and what a step may do to them: one more read
\* loop and a new done channel, or one read loop less and the channel closed.
ConnsTyped == loops \in [Seats -> Nat] /\ online \in [Seats -> BOOLEAN]

LEMMA ConnectionStep ==
    ASSUME ConnsTyped, [RoomNext]_roomVars
    PROVE  \/ UNCHANGED connVars
           \/ \E p \in Seats :
                  \/ /\ loops[p] < MaxSessions
                     /\ loops' = [loops EXCEPT ![p] = @ + 1]
                     /\ online' = [online EXCEPT ![p] = TRUE]
                  \/ /\ loops[p] > 0
                     /\ loops' = [loops EXCEPT ![p] = @ - 1]
                     /\ online' = [online EXCEPT ![p] = FALSE]
<1>1. ASSUME NEW p \in Humans, Reconnect(p) \/ Disconnect(p)
      PROVE  \E q \in Seats :
                  \/ /\ loops[q] < MaxSessions
                     /\ loops' = [loops EXCEPT ![q] = @ + 1]
                     /\ online' = [online EXCEPT ![q] = TRUE]
                  \/ /\ loops[q] > 0
                     /\ loops' = [loops EXCEPT ![q] = @ - 1]
                     /\ online' = [online EXCEPT ![q] = FALSE]
  BY <1>1 DEF Humans, Reconnect, Disconnect
<1>2. ASSUME NEW p \in Humans, NEW c \in Pack,
             RejectPlayCard(p, c) \/ PlayCard(p, c) \/ PlayCardWithOptions(p, c)
      PROVE  UNCHANGED connVars
  BY <1>2 DEF RejectPlayCard, PlayCard, PlayCardWithOptions
<1>3. ASSUME NEW p \in Humans, NEW option \in pendingCapture,
             ChooseOption(p, option) \/ ChooseFailingOption(p, option)
      PROVE  UNCHANGED connVars
  BY <1>3 DEF ChooseOption, ChooseFailingOption
<1>4. ASSUME NEW p \in Humans, TimerSkips(p) \/ TimerFires(p) \/ LateSkip(p)
      PROVE  UNCHANGED connVars
  BY <1>4 DEF TimerSkips, TimerFires, LateSkip
<1>5. BotMove => UNCHANGED connVars
  BY DEF BotMove
<1>6. UNCHANGED roomVars => UNCHANGED connVars
  BY DEF roomVars
<1> QED BY <1>1, <1>2, <1>3, <1>4, <1>5, <1>6 DEF RoomNext

\* Who is reported connected has a read loop, however many connections of a player
\* come and go: what isConnected gets wrong is only the other direction, a
\* player reported as gone whose older connection was the one that ended.
OnlineIsOpen == \A p \in Seats : online[p] => loops[p] > 0

THEOREM OnlineMeansOpen == RoomSpec => [](ConnsTyped /\ OnlineIsOpen)
<1>1. RoomInit => ConnsTyped /\ OnlineIsOpen
  BY DEF RoomInit, ConnsTyped, OnlineIsOpen
<1>2. ConnsTyped /\ OnlineIsOpen /\ [RoomNext]_roomVars => (ConnsTyped /\ OnlineIsOpen)'
  <2>1. SUFFICES ASSUME ConnsTyped, OnlineIsOpen, [RoomNext]_roomVars
                 PROVE  ConnsTyped' /\ OnlineIsOpen'
    OBVIOUS
  <2>2. CASE UNCHANGED connVars
    BY <2>1, <2>2 DEF connVars, ConnsTyped, OnlineIsOpen
  <2>3. ASSUME NEW p \in Seats, loops' = [loops EXCEPT ![p] = @ + 1],
               online' = [online EXCEPT ![p] = TRUE]
        PROVE  ConnsTyped' /\ OnlineIsOpen'
    BY <2>1, <2>3 DEF ConnsTyped, OnlineIsOpen
  <2>4. ASSUME NEW p \in Seats, loops[p] > 0, loops' = [loops EXCEPT ![p] = @ - 1],
               online' = [online EXCEPT ![p] = FALSE]
        PROVE  ConnsTyped' /\ OnlineIsOpen'
    BY <2>1, <2>4 DEF ConnsTyped, OnlineIsOpen
  <2> QED BY <2>1, <2>2, <2>3, <2>4, ConnectionStep
<1> QED BY <1>1, <1>2, PTL DEF RoomSpec

\* With one connection per player at a time, isConnected tells the truth: what makes
\* it lie is a player who comes back before the old connection has ended.
THEOREM OneSessionIsReported ==
    ASSUME MaxSessions = 1 PROVE RoomSpec => []ConnectedMeansOpen
<1> DEFINE Same == \A p \in Seats : online[p] <=> loops[p] > 0
           One  == \A p \in Seats : loops[p] <= 1
<1>1. RoomInit => ConnsTyped /\ Same /\ One
  BY DEF RoomInit, ConnsTyped
<1>2. ConnsTyped /\ Same /\ One /\ [RoomNext]_roomVars => (ConnsTyped /\ Same /\ One)'
  <2>1. SUFFICES ASSUME ConnsTyped, Same, One, [RoomNext]_roomVars
                 PROVE  ConnsTyped' /\ Same' /\ One'
    OBVIOUS
  <2>2. CASE UNCHANGED connVars
    BY <2>1, <2>2 DEF connVars, ConnsTyped
  <2>3. ASSUME NEW p \in Seats, loops[p] < MaxSessions,
               loops' = [loops EXCEPT ![p] = @ + 1], online' = [online EXCEPT ![p] = TRUE]
        PROVE  ConnsTyped' /\ Same' /\ One'
    BY <2>1, <2>3 DEF ConnsTyped
  <2>4. ASSUME NEW p \in Seats, loops[p] > 0,
               loops' = [loops EXCEPT ![p] = @ - 1], online' = [online EXCEPT ![p] = FALSE]
        PROVE  ConnsTyped' /\ Same' /\ One'
    BY <2>1, <2>4 DEF ConnsTyped
  <2> QED BY <2>1, <2>2, <2>3, <2>4, ConnectionStep
<1>3. Same => ConnectedMeansOpen
  BY DEF ConnectedMeansOpen, Humans
<1> QED BY <1>1, <1>2, <1>3, PTL DEF RoomSpec
===============================================================================
