--------------------------------- MODULE Room ---------------------------------
(***************************************************************************)
(* A room whose game has started (server/internal/room/room.go): the       *)
(* handlers the connections' read loops call, players who drop and come    *)
(* back, the timer that plays for an absent player, and the computer       *)
(* player.  Every action is one critical section of the room's mutex; what *)
(* interleaves is who gets the mutex next.                                 *)
(*                                                                         *)
(* A timer that has fired may have to wait for the mutex, and nothing then *)
(* stops its callback: MaxLate is how many such callbacks may wait.  With  *)
(* MaxLate = 0 a callback always gets the mutex as its timer fires.        *)
(*                                                                         *)
(* The game is started once here.  That StartGame may run again, and what  *)
(* it then leaves behind, is in Lobby and History.                         *)
(***************************************************************************)
EXTENDS TurnFlow

CONSTANTS BotSeats,      \* the seats the computer player may have, NoSeat for none
          MaxSessions,   \* bound: connections of one player open at a time
          MaxLate        \* bound: fired callbacks of one player awaiting the mutex

ASSUME RoomAssumption ==
    /\ BotSeats \subseteq Seats \cup {NoSeat}
    /\ MaxSessions \in Nat \ {0}
    /\ MaxLate \in Nat

VARIABLES
    botPlayerID,   \* the computer player's seat; fixed before the game starts
    loops,         \* how many read loops serve each seat
    online,        \* whether a seat's done channel is open
    turnTimer,     \* the seat the running timer is for, or NoSeat
    late,          \* fired callbacks of a seat's timers that await the mutex
    botMoves       \* timers of the computer player's move that are running

connVars == <<loops, online>>
timerVars == <<turnTimer, late, botMoves>>
roomVars == <<flowVars, botPlayerID, connVars, timerVars>>

Humans == Seats \ {botPlayerID}

isConnected(p) == p = botPlayerID \/ online[p]

Over == state.phase = "game_over" \/ ~WithinBound

\* Mutants of AfterTurn: the timer's seat is the old one plus one; the computer
\* player is not scheduled.
AfterTurnNoWrap(timer, scheduled) ==
    /\ turnTimer' = IF isConnected(state'.currentPlayerIndex)
                    THEN NoSeat
                    ELSE CurrentPlayer + 1
    /\ botMoves' = scheduled

AfterTurnNoBot(timer, scheduled) ==
    /\ turnTimer' = timer
    /\ botMoves' = scheduled

\* What advanceTurnOrDeal does once the game has moved on: it replaces the timer
\* by one for the player to move if that player is offline, and schedules the
\* computer player if it is to move.  When the game is over, or a deal has
\* failed, it returns before that and leaves the timer as it was.
AfterTurn(timer, scheduled) ==
    LET mover == state'.currentPlayerIndex
    IN IF state'.phase = "game_over" \/ DealFailed(state')
       THEN /\ turnTimer' = timer
            /\ botMoves' = scheduled
       ELSE /\ turnTimer' = IF isConnected(mover) THEN NoSeat ELSE mover
            /\ botMoves' = IF mover = botPlayerID THEN scheduled + 1 ELSE scheduled
-------------------------------------------------------------------------------
\* BroadcastGameStart after StartGame.  A player may have left since joining;
\* no timer is started for the first turn.
RoomInit ==
    /\ FlowInit
    /\ botPlayerID \in BotSeats
    /\ online \in [Seats -> BOOLEAN]
    /\ \A p \in Seats : p = botPlayerID => ~online[p]
    /\ loops = [p \in Seats |-> IF online[p] THEN 1 ELSE 0]
    /\ turnTimer = NoSeat
    /\ late = [p \in Seats |-> 0]
    /\ botMoves = IF state.currentPlayerIndex = botPlayerID THEN 1 ELSE 0

\* handlePlayCard, rejected: not p's turn, a choice is pending, or not a card of
\* p's hand.  The timer has been stopped by then.
RejectPlayCard(p, c) ==
    /\ loops[p] > 0
    /\ \/ p # CurrentPlayer
       \/ pendingCapture # {}
       \/ c \notin state.hand[CurrentPlayer]
    /\ turnTimer' = NoSeat
    /\ UNCHANGED <<flowVars, botPlayerID, connVars, late, botMoves>>

\* handlePlayCard, accepted: the card is discarded or captures at once.
PlayCard(p, c) ==
    /\ loops[p] > 0
    /\ p = CurrentPlayer
    /\ Discard(c) \/ AutoCapture(c)
    /\ AfterTurn(NoSeat, botMoves)
    /\ UNCHANGED <<botPlayerID, connVars, late>>

\* Mutant of PlayCardWithOptions: the timer keeps running.
PlayCardTimerKept(p, c) ==
    /\ loops[p] > 0
    /\ p = CurrentPlayer
    /\ OfferCaptures(c)
    /\ UNCHANGED <<botPlayerID, connVars, timerVars>>

\* handlePlayCard, accepted: there is a choice to make.
PlayCardWithOptions(p, c) ==
    /\ loops[p] > 0
    /\ p = CurrentPlayer
    /\ OfferCaptures(c)
    /\ turnTimer' = NoSeat
    /\ UNCHANGED <<botPlayerID, connVars, late, botMoves>>

\* handleChooseCapture, accepted.  (Rejected, it changes nothing.)
ChooseOption(p, option) ==
    /\ loops[p] > 0
    /\ p = CurrentPlayer
    /\ ChooseCapture(option)
    /\ AfterTurn(turnTimer, botMoves)
    /\ UNCHANGED <<botPlayerID, connVars, late>>

\* ApplyCapture returns an error: nobody else gets the turn, no timer starts.
ChooseFailingOption(p, option) ==
    /\ loops[p] > 0
    /\ p = CurrentPlayer
    /\ CaptureFails(option)
    /\ UNCHANGED <<botPlayerID, connVars, timerVars>>

\* Mutant of Reconnect: the timer keeps running.
ReconnectTimerKept(p) ==
    /\ p \in Humans
    /\ loops[p] < MaxSessions
    /\ loops' = [loops EXCEPT ![p] = @ + 1]
    /\ online' = [online EXCEPT ![p] = TRUE]
    /\ UNCHANGED <<flowVars, botPlayerID, timerVars>>

\* AttachConn on a reconnect.  The player may still have an older connection
\* whose end the server has not noticed.
Reconnect(p) ==
    /\ p \in Humans
    /\ loops[p] < MaxSessions
    /\ loops' = [loops EXCEPT ![p] = @ + 1]
    /\ online' = [online EXCEPT ![p] = TRUE]
    /\ turnTimer' = IF p = CurrentPlayer THEN NoSeat ELSE turnTimer
    /\ UNCHANGED <<flowVars, botPlayerID, late, botMoves>>

\* Disconnect, when a read loop of p ends.  It closes the done channel p has
\* now, whichever connection that belongs to, and starts no timer.
Disconnect(p) ==
    /\ loops[p] > 0
    /\ loops' = [loops EXCEPT ![p] = @ - 1]
    /\ online' = [online EXCEPT ![p] = FALSE]
    /\ UNCHANGED <<flowVars, botPlayerID, timerVars>>
-------------------------------------------------------------------------------
\* Mutant of autoSkipTurn: it does not look at the turn again.
autoSkipAnyTurn(p, timer) ==
    /\ WithinBound
    /\ \E c \in state.hand[p] : state' \in AdvanceTurnOrDeal(ApplyDiscard(state, p, c))
    /\ AfterTurn(timer, botMoves)
    /\ UNCHANGED <<pendingCapture, pendingCardID>>

\* autoSkipTurn, called when timer is what is left running.  It looks at the turn
\* again, but neither at the connection nor at a pending choice.
autoSkipTurn(p, timer) ==
    \/ /\ p = CurrentPlayer
       /\ WithinBound
       /\ \E c \in state.hand[p] :
              state' \in AdvanceTurnOrDeal(ApplyDiscard(state, p, c))
       /\ AfterTurn(timer, botMoves)
       /\ UNCHANGED <<pendingCapture, pendingCardID>>
    \/ /\ p # CurrentPlayer \/ state.hand[p] = {}
       /\ turnTimer' = timer
       /\ UNCHANGED <<flowVars, botMoves>>

\* The timer fires and its callback gets the mutex at once.
TimerSkips(p) ==
    /\ turnTimer = p
    /\ autoSkipTurn(p, NoSeat)
    /\ UNCHANGED <<botPlayerID, connVars, late>>

\* The timer fires while another handler has, or is to get, the mutex.  From
\* here on Stop is too late.
TimerFires(p) ==
    /\ turnTimer = p
    /\ late[p] < MaxLate
    /\ late' = [late EXCEPT ![p] = @ + 1]
    /\ turnTimer' = NoSeat
    /\ UNCHANGED <<flowVars, botPlayerID, connVars, botMoves>>

LateSkip(p) ==
    /\ late[p] > 0
    /\ late' = [late EXCEPT ![p] = @ - 1]
    /\ autoSkipTurn(p, turnTimer)
    /\ UNCHANGED <<botPlayerID, connVars>>
-------------------------------------------------------------------------------
\* botPickCard: of the cards that capture one that can take the most, else one
\* worth the least.
botPickCard(hand, tableCards) ==
    LET most(c) == Max({Cardinality(UNION o) : o \in ComputeCaptures(c, tableCards)})
        capturing == {c \in hand : ComputeCaptures(c, tableCards) # {}}
    IN IF capturing # {}
       THEN {c \in capturing : \A d \in capturing : most(d) <= most(c)}
       ELSE {c \in hand : \A d \in hand : CardPoint(c) <= CardPoint(d)}

Greediest(options) ==
    {o \in options : \A q \in options : Cardinality(UNION q) <= Cardinality(UNION o)}

\* doBotMove: the computer player's own handlePlayCard, and the choice at once
\* if there is one to make.
BotPlays ==
    /\ pendingCapture = {}
    /\ \E c \in botPickCard(state.hand[CurrentPlayer], state.tableCards) :
           \/ Discard(c)
           \/ AutoCapture(c)
           \/ \E option \in Greediest(ComputeCaptures(c, state.tableCards)) :
                  CaptureAtOnce(c, option)
    /\ AfterTurn(NoSeat, botMoves - 1)

\* A choice somebody else left pending: handlePlayCard rejects the card, and
\* then the computer player makes that choice.
BotTakesOverChoice ==
    \E option \in Greediest(pendingCapture) :
        IF CaptureFits(state, CurrentPlayer, pendingCardID, option)
        THEN ChooseCapture(option) /\ AfterTurn(NoSeat, botMoves - 1)
        ELSE /\ CaptureFails(option)
             /\ turnTimer' = NoSeat
             /\ botMoves' = botMoves - 1

\* The computer player's timer.
BotMove ==
    /\ botMoves > 0
    /\ \/ /\ CurrentPlayer = botPlayerID /\ state.phase # "game_over"
          /\ BotPlays \/ BotTakesOverChoice
       \/ /\ CurrentPlayer # botPlayerID \/ state.phase = "game_over"
          /\ botMoves' = botMoves - 1
          /\ UNCHANGED <<flowVars, turnTimer>>
    /\ UNCHANGED <<botPlayerID, connVars, late>>
-------------------------------------------------------------------------------
RoomNext ==
    \/ \E p \in Humans : \E c \in Pack :
           RejectPlayCard(p, c) \/ PlayCard(p, c) \/ PlayCardWithOptions(p, c)
    \/ \E p \in Humans : \E option \in pendingCapture :
           ChooseOption(p, option) \/ ChooseFailingOption(p, option)
    \/ \E p \in Humans : Reconnect(p) \/ Disconnect(p)
    \/ \E p \in Humans : TimerSkips(p) \/ TimerFires(p) \/ LateSkip(p)
    \/ BotMove

RoomSpec == RoomInit /\ [][RoomNext]_roomVars

\* Timers fire and their callbacks get the mutex.  Nothing obliges a player to
\* play, to reconnect or to leave.
LiveRoomSpec ==
    /\ RoomSpec
    /\ WF_roomVars(BotMove)
    /\ \A p \in Seats : WF_roomVars(TimerSkips(p)) /\ WF_roomVars(LateSkip(p))
-------------------------------------------------------------------------------
(***************************************************************************)
(* Properties                                                              *)
(***************************************************************************)
\* The type invariant of the connections and the timers.
RoomTypeOK ==
    /\ FlowTypeOK
    /\ botPlayerID \in BotSeats
    /\ loops \in [Seats -> 0 .. MaxSessions]
    /\ online \in [Seats -> BOOLEAN]
    /\ turnTimer \in Seats \cup {NoSeat}
    /\ late \in [Seats -> 0 .. MaxLate]
    /\ botMoves \in Nat

\* A running timer is for the player to move, and that player is offline: a
\* reconnect, a card played by an older connection of the player or the end of
\* the turn has stopped it otherwise.
TimerIsForAbsentMover ==
    turnTimer # NoSeat =>
        turnTimer = CurrentPlayer /\ ~isConnected(turnTimer) /\ state.phase = "playing"

\* The computer player has exactly one move coming when it is to move, and none
\* otherwise, whatever the other player's connection does.
BotIsScheduled ==
    ~Over => botMoves = IF CurrentPlayer = botPlayerID THEN 1 ELSE 0

\* Even when callbacks come late: within a round only the player to move gives
\* up cards, and the turn passes from each seat to the next, past nobody.
OnlyMoverPlays ==
    [][ state' # state =>
          /\ \A i \in Seats \ {CurrentPlayer} :
                 state'.roundNumber = state.roundNumber => state.hand[i] \subseteq state'.hand[i]
          /\ state'.currentPlayerIndex \in {CurrentPlayer, (CurrentPlayer + 1) % NumPlayers}
      ]_roomVars

\* The computer player's turn ends.
BotNeverStalls ==
    (CurrentPlayer = botPlayerID /\ ~Over) ~> (CurrentPlayer # botPlayerID \/ Over)

\* The README's promise: the turn of a player who is not connected ends, by the
\* automatic skip if the player does not come back.
OfflineTurnEnds ==
    \A p \in Seats :
        (CurrentPlayer = p /\ ~isConnected(p) /\ ~Over)
            ~> (CurrentPlayer # p \/ isConnected(p) \/ Over)

\* isConnected's comment: a player is reported connected exactly while a
\* WebSocket of that player is open.
ConnectedMeansOpen == \A p \in Humans : online[p] <=> loops[p] > 0

\* Whatever the order of callbacks, no card is ever in two places.
CardsNeverDoubled == NoDuplication(state)
===============================================================================
