-------------------------------- MODULE WsClient --------------------------------
(***************************************************************************)
(* The connection a player's page keeps to the server: the socket, the     *)
(* reconnect timer and the saved session of client/src/ws-client.ts, with  *)
(* the part of client/src/main.ts that decides when to connect and when to *)
(* forget the session.                                                     *)
(*                                                                         *)
(* The browser runs one callback at a time, so a callback is an action.    *)
(* What the code does not choose is the order: a socket that was closed    *)
(* reports so in a later callback, and a timer may fire in between.        *)
(***************************************************************************)
EXTENDS Naturals, FiniteSets

CONSTANTS Sockets,     \* identities of sockets; one is used again after its close
          NoSocket,    \* null in WsClient.ws
          MaxUnderway  \* bound on the sockets and timers that are under way

ASSUME WsClientAssumption ==
    /\ IsFiniteSet(Sockets)
    /\ NoSocket \notin Sockets
    /\ MaxUnderway \in Nat \ {0}  \* a page that resumes a session has one socket

VARIABLES
    ws,          \* WsClient.ws
    sock,        \* what a socket has come to, see SocketStates
    hello,       \* what a socket sends when it opens: "enter", "rejoin" or "blank"
    session,     \* whether the credentials are set; sessionStorage agrees
    timer,       \* whether the timer that reconnectTimer refers to runs
    leaked,      \* number of running timers reconnectTimer no longer refers to
    ping,        \* whether pingTimer runs
    busy,        \* whether the lobby's buttons are disabled
    lobby        \* whether the lobby is shown

sockVars == <<ws, sock, hello>>
retryVars == <<session, timer, leaked>>
pageVars == <<busy, lobby>>
clientVars == <<sockVars, retryVars, ping, pageVars>>

\* "joined" is an open socket whose server answered ROOM_JOINED; "closing" is a
\* socket whose close event is still to come, whichever side closed it.
SocketStates == {"unused", "connecting", "open", "joined", "closing", "closed"}
Live(s) == sock[s] \in {"connecting", "open", "joined"}

\* Live sockets, close events to come and running timers.  Only another click of
\* the player adds to them, so that is where MaxUnderway bounds them.
Underway ==
    Cardinality({s \in Sockets : Live(s) \/ sock[s] = "closing"})
        + leaked + (IF timer THEN 1 ELSE 0)

\* The page is loaded, and resumes the session that survived a refresh.
WsInit ==
    /\ session \in BOOLEAN
    /\ IF session THEN ws \in Sockets ELSE ws = NoSocket
    /\ sock = [s \in Sockets |-> IF s = ws THEN "connecting" ELSE "unused"]
    /\ hello = [s \in Sockets |-> "rejoin"]
    /\ timer = FALSE /\ leaked = 0
    /\ ping = FALSE
    /\ busy = FALSE /\ lobby = TRUE
-------------------------------------------------------------------------------
\* Mutant of Connect: the socket in use is forgotten, not closed.
ConnectBeside(s, says) ==
    /\ sock[s] = "unused"
    /\ ws' = s
    /\ sock' = [sock EXCEPT ![s] = "connecting"]
    /\ hello' = [hello EXCEPT ![s] = says]
\* connect: close the socket in use, whatever became of it, and open another.
Connect(s, says) ==
    /\ sock[s] = "unused"
    /\ ws' = s
    /\ sock' = [t \in Sockets |->
                   IF t = s THEN "connecting"
                   ELSE IF t # ws THEN sock[t]
                   ELSE IF sock[t] = "closed" THEN "unused" ELSE "closing"]
    /\ hello' = [hello EXCEPT ![s] = says]

\* Mutant of ClearReconnectInfo: the timer stays.
ForgetSession ==
    /\ session' = FALSE
    /\ UNCHANGED <<timer, leaked>>
ClearReconnectInfo ==
    /\ session' = FALSE
    /\ timer' = FALSE
    /\ UNCHANGED leaked

\* Mutant of ScheduleReconnect: one attempt is deemed enough.
ScheduleOnce ==
    /\ timer' = (session /\ hello[ws] # "rejoin")
    /\ UNCHANGED <<session, leaked>>
\* scheduleReconnect.  A second timer takes the place of the first in
\* reconnectTimer, and the first runs on.
ScheduleReconnect ==
    IF session
    THEN /\ timer' = TRUE
         /\ leaked' = leaked + (IF timer THEN 1 ELSE 0)
         /\ UNCHANGED session
    ELSE UNCHANGED retryVars
-------------------------------------------------------------------------------
\* One of the three buttons of the lobby: create, join or play the computer.
Enter(s) ==
    /\ lobby /\ ~busy
    /\ Underway < MaxUnderway
    /\ busy' = TRUE
    /\ Connect(s, "enter")
    /\ UNCHANGED <<retryVars, ping, lobby>>

\* The reconnect timer fires, whether or not there are credentials to send.
TimerFires(s) ==
    /\ \/ timer /\ timer' = FALSE /\ UNCHANGED leaked
       \/ leaked > 0 /\ leaked' = leaked - 1 /\ UNCHANGED timer
    /\ Connect(s, "rejoin")
    /\ UNCHANGED <<session, ping, pageVars>>

\* The open event: stop the timer, start the pings and say hello.
Open(s) ==
    /\ sock[s] = "connecting"
    /\ sock' = [sock EXCEPT ![s] = "open"]
    /\ hello' = [hello EXCEPT ![s] =
                     IF @ = "rejoin" /\ ~session THEN "blank" ELSE @]
    /\ timer' = FALSE
    /\ ping' = TRUE
    /\ UNCHANGED <<ws, session, leaked, pageVars>>

\* The server, the network or the attempt to connect fails, with the event to come.
Drop(s) ==
    /\ Live(s)
    /\ sock' = [sock EXCEPT ![s] = "closing"]
    /\ UNCHANGED <<ws, hello, retryVars, ping, pageVars>>

\* The close event, of the socket in use or of one that connect replaced.
Closed(s) ==
    /\ sock[s] = "closing"
    /\ sock' = [sock EXCEPT ![s] = IF s = ws THEN "closed" ELSE "unused"]
    /\ ping' = FALSE
    /\ ScheduleReconnect
    /\ UNCHANGED <<ws, hello, pageVars>>

\* ROOM_JOINED: setReconnectInfo.
RoomJoined(s) ==
    /\ sock[s] = "open" /\ hello[s] # "blank"
    /\ sock' = [sock EXCEPT ![s] = "joined"]
    /\ session' = TRUE
    /\ UNCHANGED <<ws, hello, timer, leaked, ping, pageVars>>

\* GAME_STARTED: the lobby makes room for the game.
GameStarted(s) ==
    /\ sock[s] = "joined"
    /\ lobby' = FALSE
    /\ UNCHANGED <<sockVars, retryVars, ping, busy>>

\* The server answers the hello with an ERROR and closes the connection.
Refused(s) ==
    /\ sock[s] = "open"
    /\ sock' = [sock EXCEPT ![s] = "closing"]
    /\ busy' = FALSE
    /\ UNCHANGED <<ws, hello, retryVars, ping, lobby>>

\* The ERROR is SESSION_EXPIRED: the room of the token is gone.
SessionExpired(s) ==
    /\ sock[s] = "open" /\ hello[s] = "rejoin"
    /\ sock' = [sock EXCEPT ![s] = "closing"]
    /\ ClearReconnectInfo
    /\ busy' = FALSE /\ lobby' = TRUE
    /\ UNCHANGED <<ws, hello, ping>>

\* The ERROR of a rejected move, during a game.
MoveRejected(s) ==
    /\ sock[s] = "joined" /\ ~lobby
    /\ busy' = FALSE
    /\ UNCHANGED <<sockVars, retryVars, ping, lobby>>

\* GAME_OVER.
GameOver(s) ==
    /\ sock[s] = "joined" /\ ~lobby
    /\ ClearReconnectInfo
    /\ UNCHANGED <<sockVars, ping, pageVars>>

\* The page is loaded anew: by the player, or by the leave button that first
\* forgets the session.  Sockets and timers end with the old page.
Reload ==
    /\ session' \in {session, FALSE}
    /\ IF session' THEN ws' \in Sockets ELSE ws' = NoSocket
    /\ sock' = [s \in Sockets |-> IF s = ws' THEN "connecting" ELSE "unused"]
    /\ hello' = [s \in Sockets |-> "rejoin"]
    /\ timer' = FALSE /\ leaked' = 0
    /\ ping' = FALSE
    /\ busy' = FALSE /\ lobby' = TRUE

WsNext ==
    \/ \E s \in Sockets :
          \/ Enter(s) \/ TimerFires(s)
          \/ Open(s) \/ Drop(s) \/ Closed(s)
          \/ RoomJoined(s) \/ GameStarted(s) \/ Refused(s)
          \/ SessionExpired(s) \/ MoveRejected(s) \/ GameOver(s)
    \/ Reload

\* The browser reports every close and fires every timer; nothing is assumed of
\* the server, the network or the player.
WsSpec ==
    /\ WsInit /\ [][WsNext]_clientVars
    /\ \A s \in Sockets : WF_clientVars(Closed(s))
    /\ WF_clientVars(\E s \in Sockets : TimerFires(s))
-------------------------------------------------------------------------------
\* The variables have their types; the socket in use is one that was created,
\* and it alone is kept once it is closed (WsClient.ws, connect).
WsTypeOK ==
    /\ ws \in Sockets \cup {NoSocket}
    /\ sock \in [Sockets -> SocketStates]
    /\ hello \in [Sockets -> {"enter", "rejoin", "blank"}]
    /\ leaked \in 0..MaxUnderway
    /\ {session, timer, ping, busy, lobby} \subseteq BOOLEAN
    /\ \A s \in Sockets :
          /\ s = ws => sock[s] # "unused"
          /\ sock[s] = "closed" => s = ws

\* Only the socket in use connects or is open: send, which writes to
\* WsClient.ws, never reaches another connection than the one whose open event
\* asked for it.  (The server may not have noticed yet that the one before is gone.)
OneLiveSocket == \A s \in Sockets : Live(s) => s = ws

\* The timer that reconnectTimer refers to runs only while there are credentials
\* to rejoin with: a session that ended by GAME_OVER or SESSION_EXPIRED leaves no
\* timer behind that the client knows of, whatever closes afterwards.
RetryHasSession == timer => session

\* A page with a session whose connection is lost is never left with nothing to come
\* of itself that makes it try again: a timer or a close event.
RetryIsUnderWay ==
    session /\ (ws \in Sockets => ~Live(ws)) =>
        timer \/ leaked > 0 \/ \E s \in Sockets : sock[s] = "closing"

\* A page with a session that lost its connection tries again, after a refused or
\* failed attempt as much as after the first loss, whatever socket's close event
\* comes late.
LostIsRetried ==
    (session /\ ws \in Sockets /\ ~Live(ws))
        ~> (~session \/ (ws \in Sockets /\ Live(ws)))
================================================================================
