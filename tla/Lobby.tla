--------------------------------- MODULE Lobby ---------------------------------
(***************************************************************************)
(* How a room comes to be, fills up, starts its game and goes away: the    *)
(* handshake of every connection (server/internal/ws/handler.go), the      *)
(* registry of rooms (room/manager.go) and the part of room/room.go that   *)
(* runs before the first move.  The model follows one room.                *)
(*                                                                         *)
(* A handshake is not one critical section: each call it makes takes the   *)
(* lock of the manager or of the room for itself, so every call is an      *)
(* action, and the calls of several connections interleave.                *)
(***************************************************************************)
EXTENDS Integers, FiniteSets, SequencesExt

CONSTANTS Conns,        \* the connections that may ask for the room
          MaxPlayers,   \* seats of the room: 2 or 4
          Bot           \* the computer player

ASSUME LobbyAssumption ==
    /\ IsFiniteSet(Conns)
    /\ Bot \notin Conns
    /\ MaxPlayers \in Nat \ {0}

VARIABLES
    rooms,       \* the room in Manager.rooms: "never", "listed" or "removed"
    seatOrder,   \* players in join order; the keys of conns are the same players
    done,        \* a player's done channel: "none", "open" or "closed"
    conn,        \* whether a player's conn is set
    players,     \* the players of the game in seat order; <<>> while state is nil
    step,        \* the call a connection's handler makes next
    who          \* the player a connection serves

roomState == <<seatOrder, done, conn, players>>
lobbyVars == <<rooms, roomState, step, who>>

\* A player is named by the connection that joined.
Players == Conns \cup {Bot}
Nobody == "nobody"
Joined == ToSet(seatOrder)
Started == players # <<>>
\* Mutant of IsFull: one player too many.
IsOverfull == Len(seatOrder) > MaxPlayers
IsFull == Len(seatOrder) >= MaxPlayers

Go(c, from, to) == step[c] = from /\ step' = [step EXCEPT ![c] = to]

LobbyInit ==
    /\ rooms = "never"
    /\ seatOrder = <<>>
    /\ done = [p \in Players |-> "none"]
    /\ conn = [p \in Players |-> FALSE]
    /\ players = <<>>
    /\ step = [c \in Conns |-> "new"]
    /\ who = [c \in Conns |-> Nobody]
-------------------------------------------------------------------------------
\* CREATE_ROOM: Manager.Create, from here on others can find the room.  Only a
\* room for two can have the computer player.
Create(c, vsAI) ==
    /\ rooms = "never"
    /\ vsAI => MaxPlayers = 2
    /\ Go(c, "new", IF vsAI THEN "joinVsAI" ELSE "join")
    /\ rooms' = "listed"
    /\ who' = [who EXCEPT ![c] = c]
    /\ UNCHANGED roomState

\* JOIN_ROOM: Manager.Get.  With the reconnect token of player p the next call is
\* Reconnect; c comes without a token when p is c.
Get(c, p) ==
    /\ \/ rooms = "listed" /\ Go(c, "new", IF p = c THEN "join" ELSE "reconnect")
       \/ rooms = "removed" /\ Go(c, "new", "gone")
    /\ who' = [who EXCEPT ![c] = p]
    /\ UNCHANGED <<rooms, roomState>>

\* Mutant of Join: nobody counts the players.
JoinUncounted(c) ==
    /\ ~Started
    /\ Go(c, "join", "attach") \/ Go(c, "joinVsAI", "addBot")
    /\ seatOrder' = Append(seatOrder, c)
    /\ done' = [done EXCEPT ![c] = "open"]
    /\ UNCHANGED <<rooms, conn, players, who>>

\* Join.
Join(c) ==
    /\ ~Started /\ ~IsFull
    /\ Go(c, "join", "attach") \/ Go(c, "joinVsAI", "addBot")
    /\ seatOrder' = Append(seatOrder, c)
    /\ done' = [done EXCEPT ![c] = "open"]
    /\ UNCHANGED <<rooms, conn, players, who>>

\* Mutant of JoinRefused: the handler goes on as if the join had succeeded.
RefusalIgnored(c) ==
    /\ Started \/ IsFull
    /\ Go(c, "join", "attach")
    /\ UNCHANGED <<rooms, roomState, who>>

JoinRefused(c) ==
    /\ Started \/ IsFull
    /\ Go(c, "join", "gone") \/ Go(c, "joinVsAI", "gone")
    /\ UNCHANGED <<rooms, roomState, who>>

\* AddBot: the computer player takes a seat, whether or not one is left.
AddBot(c) ==
    /\ Go(c, "addBot", "attach")
    /\ seatOrder' = Append(seatOrder, Bot)
    /\ done' = [done EXCEPT ![Bot] = "open"]
    /\ UNCHANGED <<rooms, conn, players, who>>

\* Reconnect: the player must be in the game that is played.
Reconnect(c) ==
    /\ Go(c, "reconnect", IF who[c] \in ToSet(players) THEN "reattach" ELSE "gone")
    /\ UNCHANGED <<rooms, roomState, who>>

\* AttachConn.
AttachConn(c) ==
    /\ Go(c, "attach", "checkFull") \/ Go(c, "reattach", "serving")
    /\ done' = [done EXCEPT ![who[c]] = "open"]
    /\ conn' = [conn EXCEPT ![who[c]] = TRUE]
    /\ UNCHANGED <<rooms, seatOrder, players, who>>

\* The handler asks IsFull in a critical section of its own.
CheckFull(c) ==
    /\ Go(c, "checkFull", IF IsFull THEN "start" ELSE "serving")
    /\ UNCHANGED <<rooms, roomState, who>>

\* StartGame: a new game, also when one has been started already.
StartGame(c) ==
    /\ Go(c, "start", "broadcast")
    /\ players' = seatOrder
    /\ UNCHANGED <<rooms, seatOrder, done, conn, who>>

BroadcastGameStart(c) ==
    /\ Go(c, "broadcast", "serving")
    /\ UNCHANGED <<rooms, roomState, who>>

allDisconnectedPreGame(channels) ==
    ~Started /\ \A p \in Joined : channels[p] = "closed"

\* Mutant of Disconnect: it decides before it closes the channel.
DisconnectDecidesFirst(c) ==
    /\ Go(c, "serving", IF allDisconnectedPreGame(done) THEN "onEmpty" ELSE "gone")
    /\ done' = [done EXCEPT ![who[c]] = "closed"]
    /\ UNCHANGED <<rooms, seatOrder, conn, players, who>>

\* Disconnect, when the read loop of c ends: it decides under the room's lock
\* whether the room is to go, and calls onEmpty after releasing it.
Disconnect(c) ==
    /\ step[c] = "serving"
    /\ LET closed == [done EXCEPT ![who[c]] = "closed"]
       IN /\ done' = closed
          /\ Go(c, "serving", IF allDisconnectedPreGame(closed) THEN "onEmpty" ELSE "gone")
    /\ UNCHANGED <<rooms, seatOrder, conn, players, who>>

\* onEmpty: Manager.Remove.
OnEmpty(c) ==
    /\ Go(c, "onEmpty", "gone")
    /\ rooms' = "removed"
    /\ UNCHANGED <<roomState, who>>

\* What a handler does once its first message is in, and without waiting for
\* another one.
Proceed(c) ==
    \/ Join(c) \/ JoinRefused(c) \/ AddBot(c) \/ Reconnect(c) \/ AttachConn(c)
    \/ CheckFull(c) \/ StartGame(c) \/ BroadcastGameStart(c) \/ OnEmpty(c)

\* Every connection has come and gone.
AllGone ==
    /\ \A c \in Conns : step[c] = "gone"
    /\ UNCHANGED lobbyVars

LobbyNext ==
    \/ \E c \in Conns : \E vsAI \in BOOLEAN : Create(c, vsAI)
    \/ \E c \in Conns : \E p \in {c} \cup (Joined \ {Bot}) : Get(c, p)
    \/ \E c \in Conns : Proceed(c)
    \/ \E c \in Conns : Disconnect(c)
    \/ AllGone

\* A handler never stops between two of its calls.  Nothing obliges anybody to
\* connect, or a connection to end.
LobbySpec ==
    /\ LobbyInit
    /\ [][LobbyNext]_lobbyVars
    /\ \A c \in Conns : WF_lobbyVars(Proceed(c))
-------------------------------------------------------------------------------
(***************************************************************************)
(* Properties                                                              *)
(***************************************************************************)
Steps == {"new", "join", "joinVsAI", "addBot", "reconnect", "attach", "reattach",
          "checkFull", "start", "broadcast", "serving", "onEmpty", "gone"}

Serving == {"addBot", "attach", "reattach", "checkFull", "start", "broadcast", "serving"}

\* The type invariant of the room before and around the start of its game.  A
\* connection that is past its join serves a player who has a seat.
LobbyTypeOK ==
    /\ rooms \in {"never", "listed", "removed"}
    /\ Joined \subseteq Players /\ ToSet(players) \subseteq Players
    /\ done \in [Players -> {"none", "open", "closed"}]
    /\ conn \in [Players -> BOOLEAN]
    /\ step \in [Conns -> Steps]
    /\ who \in [Conns -> Conns \cup {Nobody}]
    /\ \A p \in Players : p \in Joined <=> done[p] # "none"
    /\ \A c \in Conns : step[c] \in Serving => who[c] \in Joined

\* However the joins of several connections interleave, a room without the
\* computer player seats nobody twice and at most MaxPlayers, and its game is
\* played by all of them, in the seats they were given when they joined.
GameHasItsPlayers ==
    Bot \notin Joined =>
        /\ IsInjective(seatOrder)
        /\ Len(seatOrder) <= MaxPlayers
        /\ Started => players = seatOrder /\ Len(players) = MaxPlayers

\* A room that has filled up starts its game, whoever is the last to attach.
FullRoomStarts == Len(seatOrder) = MaxPlayers ~> Started

\* The reason: whichever join fills the room and however the others interleave with
\* it, a handler that has yet to ask IsFull or to start the game is left over.
StartIsUnderWay ==
    Len(seatOrder) >= MaxPlayers /\ ~Started =>
        \E c \in Conns : step[c] \in {"addBot", "attach", "checkFull", "start"}

Empty == Joined # {} /\ \A p \in Joined : done[p] = "closed"

\* A room all of whose players have left before the game is removed, unless
\* somebody joins it in time.
AbandonedRoomGoes == (~Started /\ Empty) ~> (rooms = "removed" \/ ~Empty)

\* The reason: whichever Disconnect is the last, its handler is to call onEmpty.
RemovalIsUnderWay ==
    ~Started /\ Empty => rooms = "removed" \/ \E c \in Conns : step[c] = "onEmpty"

\* BroadcastGameStart's precondition: every player's connection is attached.
AllAttachedAtBroadcast ==
    \A c \in Conns : step[c] = "broadcast" => \A p \in Joined \ {Bot} : conn[p]

\* Manager holds all active game rooms: the one whose game is on is listed.
ManagerHoldsActiveRooms == Started => rooms = "listed"
===============================================================================
