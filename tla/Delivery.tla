------------------------------- MODULE Delivery -------------------------------
(***************************************************************************)
(* How one player, in seat Me, is kept informed of the game: the messages  *)
(* that the room's handlers send (server/internal/room/room.go), the       *)
(* player's write channel, the goroutines that empty it onto the player's  *)
(* connection, the snapshot that a reconnect gets (ws/handler.go), and the *)
(* state of the player's page, from which the player moves.                *)
(*                                                                         *)
(* A handler holds the room's mutex from its first message to its last.    *)
(* All of them are one step here, and so are taking a message from the     *)
(* channel and writing it: nobody can tell while the player has one write  *)
(* loop, and the model goes no further than that (trust).  Every           *)
(* connection k has a read loop, a write loop and a done channel of its    *)
(* own, but the room knows only the newest, cur.                           *)
(***************************************************************************)
EXTENDS TurnFlow, ClientState, SequencesExt

CONSTANTS QueueSize,   \* capacity of the write channel: writeChannelSize, 32
          MaxConns     \* bound: connections of the player in a game

\* A handler sends five messages at most.
ASSUME DeliveryAssumption == QueueSize \in Nat /\ QueueSize >= 5 /\ MaxConns \in Nat \ {0}

VARIABLES
    view,        \* the player's page
    queue,       \* the write channel
    cur,         \* the newest connection
    link,        \* whether that one still reaches the page: "up" or "cut"
    readers,     \* connections whose read loop runs
    closed,      \* connections whose done channel is closed
    loop,        \* the done channel each connection's write loop waits for
    handshake,   \* where the reconnect of cur is, with what it has read
    trust        \* history: what the messages under way are good for (below)

connVars == <<cur, link, readers, closed, handshake>>
deliveryVars == <<flowVars, view, queue, connVars, loop, trust>>

Conns == 1 .. MaxConns

NoLoop == 0

WriteLoops == {k \in Conns : loop[k] # NoLoop}

NotReconnecting == [at |-> "idle"]


(***************************************************************************)
(* trust records what has gone before:                                     *)
(* "all": since this round, or the first connection, began, every message  *)
(*   has been queued and the connection has been up.                       *)
(* "shown": there was a reconnect or there has to be one; but messages     *)
(*   still come in order, none is missing that a snapshot will not make up *)
(*   for, and none was written between the reading of a snapshot and its   *)
(*   writing.                                                              *)
(* "none": one of these has happened.  Nothing can be said of the page     *)
(*   then, and the model follows the game no further (Followed).           *)
(***************************************************************************)
Shown == IF trust = "none" THEN "none" ELSE "shown"

\* Bound: only as long as something can be said of the page.
Followed == trust # "none"
-------------------------------------------------------------------------------
\* The private and the public messages of a deal.
DealMessages(g) ==
    <<HandDealt(g.hand[Me], dealsRemaining(g)), TurnStart(g.currentPlayerIndex)>>

\* BroadcastGameStart.
StartMessages(g) == <<GameStarted(g)>> \o DealMessages(g)

\* What advanceTurnOrDeal sends on the way from g to next.
TurnMessages(g, next) ==
    IF next.phase = "game_over"
    THEN <<GameOver(TotalsAfterRound(next), CapturedCounts(next))>>
    ELSE IF DealFailed(next) THEN << >>
    ELSE IF next.roundNumber # g.roundNumber THEN StartMessages(next)
    ELSE IF next.dealNumber # g.dealNumber THEN DealMessages(next)
    ELSE <<TurnStart(next.currentPlayerIndex)>>

DiscardMessages(c) == <<CardPlayed(CurrentPlayer, c), CardDiscarded(c)>>

CaptureMessages(c, option) ==
    LET g == ApplyCapture(state, CurrentPlayer, c, option)
    IN <<CaptureMade(CurrentPlayer, UNION option, g.tableCards = {},
                     Cardinality(g.captured[CurrentPlayer]))>>
\* A new round puts everything on a page that is connected right.
Restarts(messages) ==
    /\ \E n \in DOMAIN messages : messages[n].type = "GAME_STARTED"
    /\ link = "up"
    /\ handshake = NotReconnecting

OptionMessages(options) ==
    IF CurrentPlayer = Me THEN <<CaptureOptions(options)>> ELSE << >>

\* Mutant of sendTo: messages are kept however many there are.
sendToUnbounded(messages) ==
    /\ Followed
    /\ queue' = queue \o messages
    /\ trust' = IF Restarts(messages) THEN "all" ELSE trust

\* sendTo, for all messages of a handler: those that find the channel full are
\* dropped.  (A write loop that empties it meanwhile could as well have done so
\* before, since one handler's messages always fit an empty channel.)
sendTo(messages) ==
    LET fits == Len(queue \o messages) <= QueueSize
    IN /\ Followed
       /\ queue' = IF fits THEN queue \o messages ELSE SubSeq(queue \o messages, 1, QueueSize)
       /\ trust' = IF ~fits THEN "none"
                   ELSE IF Restarts(messages) THEN "all"
                   ELSE trust
-------------------------------------------------------------------------------
\* The player's first connection is up when the game is announced.
DeliveryInit ==
    /\ FlowInit
    /\ view = createLocalState
    /\ queue = StartMessages(state)
    /\ cur = 1
    /\ link = "up"
    /\ readers = {1}
    /\ closed = {}
    /\ loop = [k \in Conns |-> IF k = 1 THEN 1 ELSE NoLoop]
    /\ handshake = NotReconnecting
    /\ trust = "all"

\* The player can send: the page has a connection whose read loop runs.
Listening == link = "up" /\ cur \in readers

\* The player moves by what the page shows, others as they like.
MayPlay(c) ==
    CurrentPlayer = Me => Listening /\ view.handEnabled /\ c \in view.myHand

MayChoose(option) ==
    CurrentPlayer = Me => Listening /\ option \in Choosable(view.captureOptions)

\* handlePlayCard, accepted.  (A rejection is answered by an ERROR.)
PlayCard(c) ==
    /\ MayPlay(c)
    /\ \/ /\ Discard(c)
          /\ sendTo(DiscardMessages(c) \o TurnMessages(state, state'))
       \/ /\ OfferCaptures(c)
          /\ sendTo(<<CardPlayed(CurrentPlayer, c)>> \o OptionMessages(pendingCapture'))
       \/ \E option \in ComputeCaptures(c, state.tableCards) :
              /\ AutoCapture(c) \/ (CurrentPlayer # Me /\ CaptureAtOnce(c, option))
              /\ sendTo(<<CardPlayed(CurrentPlayer, c)>> \o CaptureMessages(c, option)
                            \o TurnMessages(state, state'))
    /\ UNCHANGED <<view, connVars, loop>>

\* handleChooseCapture, accepted.
ChooseOption(option) ==
    /\ MayChoose(option)
    /\ ChooseCapture(option)
    /\ sendTo(CaptureMessages(pendingCardID, option) \o TurnMessages(state, state'))
    /\ UNCHANGED <<view, connVars, loop>>

\* autoSkipTurn: the player to move is offline, as far as the room knows.
autoSkipTurn(c) ==
    /\ CurrentPlayer = Me => cur \in closed
    /\ Skip(c)
    /\ sendTo(DiscardMessages(c) \o TurnMessages(state, state'))
    /\ UNCHANGED <<view, connVars, loop>>
-------------------------------------------------------------------------------
\* writeLoop takes a message and writes it to the connection the player has
\* now, not to its own; next it waits for the done channel the player has now.
\* On a connection that is cut the message is lost, with an error, which ends
\* the loop, or without.
Write(k) ==
    /\ Followed
    /\ k \in WriteLoops
    /\ queue # << >>
    /\ queue' = Tail(queue)
    /\ \/ /\ link = "up"
          /\ view' = applyServerMessage(view, Head(queue))
          /\ loop' = [loop EXCEPT ![k] = cur]
          /\ trust' = IF handshake.at \in {"state", "hand"} THEN "none" ELSE trust
       \/ /\ link = "cut"
          /\ loop' \in {[loop EXCEPT ![k] = next] : next \in {cur, NoLoop}}
          /\ UNCHANGED <<view, trust>>
    /\ UNCHANGED <<flowVars, connVars>>

\* The loop ends with the done channel it waits for and closes its connection.
Stop(k) ==
    /\ Followed
    /\ k \in WriteLoops
    /\ loop[k] \in closed
    /\ loop' = [loop EXCEPT ![k] = NoLoop]
    /\ link' = IF k = cur THEN "cut" ELSE link
    /\ trust' = IF k = cur THEN Shown ELSE trust
    /\ UNCHANGED <<flowVars, view, queue, cur, readers, closed, handshake>>

\* The network, or the page, gives the connection up.  Not the last one within
\* the bound: nobody would come back.
Cut ==
    /\ Followed
    /\ cur < MaxConns
    /\ link = "up"
    /\ link' = "cut"
    /\ trust' = Shown
    /\ UNCHANGED <<flowVars, view, queue, cur, readers, closed, loop, handshake>>

\* Disconnect, at the end of the read loop of a connection that was cut or that
\* the page has given up for a newer one: it closes the newest done channel.
Disconnect(k) ==
    /\ Followed
    /\ k \in readers
    /\ k = cur => link = "cut"
    /\ readers' = readers \ {k}
    /\ closed' = closed \cup {cur}
    /\ UNCHANGED <<flowVars, view, queue, cur, link, loop, handshake, trust>>
-------------------------------------------------------------------------------
\* The page, perhaps reloaded, is back on a new connection: Reconnect, then
\* AttachConn, which starts a write loop on a new done channel.  A write loop
\* of an older connection may still be there.  A handshake is over before the
\* next reconnect starts.
AttachConn ==
    /\ Followed
    /\ handshake = NotReconnecting
    /\ link = "cut"
    /\ cur < MaxConns
    /\ cur' = cur + 1
    /\ link' = "up"
    /\ loop' = [loop EXCEPT ![cur + 1] = cur + 1]
    /\ handshake' = [at |-> "attached"]
    /\ view' \in {view, createLocalState}
    /\ trust' = IF WriteLoops = {} THEN Shown ELSE "none"
    /\ UNCHANGED <<flowVars, queue, readers, closed>>

\* The handshake goes on: it reads the game, ...
ClientStateRead ==
    /\ Followed
    /\ handshake.at = "attached"
    /\ handshake' = [at |-> "state", msg |-> GameStarted(state)]
    /\ UNCHANGED <<flowVars, view, queue, cur, link, readers, closed, loop, trust>>

\* ... writes it past the channel, ...
ClientStateWritten ==
    /\ Followed
    /\ handshake.at = "state"
    /\ handshake' = [at |-> "between"]
    /\ view' = IF link = "up" THEN applyServerMessage(view, handshake.msg) ELSE view
    /\ UNCHANGED <<flowVars, queue, cur, link, readers, closed, loop, trust>>

\* ... reads the hand, ...
PlayerHandRead ==
    /\ Followed
    /\ handshake.at = "between"
    /\ handshake' = [at |-> "hand", cards |-> state.hand[Me]]
    /\ UNCHANGED <<flowVars, view, queue, cur, link, readers, closed, loop, trust>>

\* ... and writes it, with no dealsRemaining; then the read loop begins.  The
\* hand is read without the mutex here: it may be the one of now.
PlayerHandWritten ==
    /\ Followed
    /\ handshake.at = "hand"
    /\ handshake' = NotReconnecting
    /\ readers' = readers \cup {cur}
    /\ IF link = "up"
       THEN \E cards \in {handshake.cards, state.hand[Me]} :
                view' = applyServerMessage(view, HandDealt(cards, 0))
       ELSE UNCHANGED view
    /\ UNCHANGED <<flowVars, queue, cur, link, closed, loop, trust>>

Reconnecting ==
    ClientStateRead \/ ClientStateWritten \/ PlayerHandRead \/ PlayerHandWritten

\* Nothing more happens in the game.
GameEnded ==
    /\ ~Followed \/ Finished
    /\ UNCHANGED deliveryVars

DeliveryNext ==
    \/ \E c \in Pack : PlayCard(c) \/ autoSkipTurn(c)
    \/ \E option \in pendingCapture : ChooseOption(option)
    \/ \E k \in Conns : Write(k) \/ Stop(k) \/ Disconnect(k)
    \/ Cut
    \/ AttachConn
    \/ Reconnecting
    \/ GameEnded

\* Goroutines run: a write loop writes what there is, a handshake goes on.
DeliveryFairness ==
    /\ \A k \in Conns : WF_deliveryVars(Write(k))
    /\ WF_deliveryVars(Reconnecting)

DeliverySpec == DeliveryInit /\ [][DeliveryNext]_deliveryVars /\ DeliveryFairness
-------------------------------------------------------------------------------
(***************************************************************************)
(* Properties                                                              *)
(***************************************************************************)
CountsAndScores(v) == <<v.capturedCount, v.totalScore>>

\* The type invariant of the connection side.
DeliveryTypeOK ==
    /\ Len(queue) <= QueueSize
    /\ cur \in Conns
    /\ link \in {"up", "cut"}
    /\ readers \subseteq 1 .. cur
    /\ closed \subseteq 1 .. cur
    /\ WriteLoops \subseteq 1 .. cur
    /\ trust \in {"all", "shown", "none"}
    /\ view.myHand \subseteq Pack
    /\ BagToSet(view.table) \subseteq Pack
    /\ trust = "all" => link = "up"

\* What the page will show once all messages under way have been delivered.
Awaited == FoldLeft(applyServerMessage, view, queue)

Standings(g) == <<CapturedCounts(g), TotalsAfterRound(g)>>

\* The page takes a card away as it is played, the game as the choice is made.
HandOnPage ==
    IF CurrentPlayer = Me /\ pendingCapture # {}
    THEN state.hand[Me] \ {pendingCardID}
    ELSE state.hand[Me]

\* The player's page, computed from the game.
Projection ==
    [started        |-> TRUE,
     over           |-> FALSE,
     table          |-> SetToBag(state.tableCards),
     current        |-> CurrentPlayer,
     dealsRemaining |-> dealsRemaining(state),
     totalScore     |-> state.totalScore,
     capturedCount  |-> CapturedCounts(state),
     playerTablas   |-> state.tablas,
     myHand         |-> HandOnPage,
     captureOptions |-> IF CurrentPlayer = Me THEN pendingCapture ELSE {},
     handEnabled    |-> CurrentPlayer = Me /\ pendingCapture = {}]

\* The hand after a reconnect: a snapshot has shown the card of a choice that was
\* pending as still there, and CAPTURE_MADE, which then takes it to the player's
\* captures, takes no card from the page's hand.
RightHandButOne(hand) ==
    /\ HandOnPage \subseteq hand
    /\ hand \subseteq state.hand[Me] \cup state.captured[Me]
    /\ Cardinality(hand \ HandOnPage) <= 1

\* A page on a connection that has missed nothing shows, with the messages that
\* are under way, exactly the game: each handler sends all that its changes of
\* the game change on the page, in an order from which the reducer, which never
\* sees the game, gets them.
MessagesCarryTheGame ==
    trust = "all" =>
        IF state.phase = "playing"
        THEN Awaited = Projection
        ELSE Awaited.over /\ CountsAndScores(Awaited) = Standings(state)

\* After a reconnect, older messages are delivered after the newer snapshot.
\* Still, once everything is delivered, the page has the right turn, counts and
\* scores, the right cards on the table, though perhaps one of them twice, and
\* the right hand, though perhaps with the card of a choice that was pending.
\* This holds with a reload of the page and whatever was lost with the old
\* connection, but not after a dropped message, with two write loops, or when a
\* message overtakes the snapshot.
SnapshotSettles ==
    trust # "none" /\ link = "up" /\ handshake = NotReconnecting
      /\ state.phase = "playing" =>
        /\ Awaited.started
        /\ RightHandButOne(Awaited.myHand)
        /\ Awaited.current = CurrentPlayer
        /\ BagToSet(Awaited.table) = state.tableCards
        /\ CountsAndScores(Awaited) = Standings(state)

\* What the page has to show for the player to move.
ShowsMove ==
    IF pendingCapture = {}
    THEN view.handEnabled /\ state.hand[Me] \subseteq view.myHand
    ELSE view.captureOptions = pendingCapture

\* The player is to move and nothing keeps the page from getting to know.
DueToMove ==
    /\ Listening
    /\ cur \notin closed
    /\ trust = "all" \/ (trust = "shown" /\ pendingCapture = {})
    /\ state.phase = "playing"
    /\ CurrentPlayer = Me

\* Once the write loop has nothing left to write, the page lets the player move:
\* what does is never behind a message that has gone, or for a loop that has ended.
MoveIsOnItsWay == DueToMove => ShowsMove \/ (queue # << >> /\ cur \in WriteLoops)

\* A player who is to move, on a connection that has missed nothing or after a
\* reconnect, gets to see it and can move, except that after a reconnect nobody
\* tells the player of a choice that was pending.
MoverCanMove == DueToMove ~> (ShowsMove \/ ~DueToMove)
===============================================================================
