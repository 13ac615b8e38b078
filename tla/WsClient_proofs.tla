---------------------------- MODULE WsClient_proofs -----------------------------
(***************************************************************************)
(* Theorems about WsClient, for any number of sockets and any bound on     *)
(* what is under way.  The invariant of the first keeps to the socket in   *)
(* use: whatever a callback does to another socket, none of them comes to  *)
(* life again, because only connect brings one to life and connect makes   *)
(* it the one in use.                                                      *)
(***************************************************************************)
EXTENDS WsClient, FiniteSetTheorems, TLAPS

\* The part of the type invariant that the proofs need.
SockTyped == sock \in [Sockets -> SocketStates]

\* Only ws is live, and the states of the sockets are what they should be.
ConnInv == SockTyped /\ OneLiveSocket

\* connect closes the socket in use before it makes another the one in use
\* (WsClient.connect), so the sockets it leaves behind are not live.
LEMMA ConnectKeepsOne ==
    ASSUME ConnInv, NEW s \in Sockets, NEW says, Connect(s, says)
    PROVE  ConnInv'
  BY DEF ConnInv, SockTyped, OneLiveSocket, Live, SocketStates, Connect

\* A callback that gives one socket another state, a live one only if the socket
\* was live before, leaves no second socket live (the event listeners of connect).
LEMMA EventKeepsOne ==
    ASSUME ConnInv, NEW s \in Sockets, NEW st \in SocketStates,
           Live(s) \/ st \in {"closing", "closed", "unused"},
           sock' = [sock EXCEPT ![s] = st], ws' = ws
    PROVE  ConnInv'
  BY DEF ConnInv, SockTyped, OneLiveSocket, Live, SocketStates

\* Every step of the page keeps ConnInv: two of them connect, the others are
\* events of one socket, leave the sockets alone or load the page anew.
LEMMA StepKeepsOne == ASSUME ConnInv, [WsNext]_clientVars PROVE ConnInv'
<1>1. ASSUME NEW s \in Sockets, Enter(s) PROVE ConnInv'
  BY <1>1, ConnectKeepsOne DEF Enter
<1>2. ASSUME NEW s \in Sockets, TimerFires(s) PROVE ConnInv'
  BY <1>2, ConnectKeepsOne DEF TimerFires
<1>3. ASSUME NEW s \in Sockets, Open(s) PROVE ConnInv'
  BY <1>3, EventKeepsOne DEF Open, Live, SocketStates
<1>4. ASSUME NEW s \in Sockets, Drop(s) PROVE ConnInv'
  BY <1>4, EventKeepsOne DEF Drop, SocketStates
<1>5. ASSUME NEW s \in Sockets, Closed(s) PROVE ConnInv'
  <2>1. ws' = ws
    BY <1>5 DEF Closed
  <2>2. CASE s = ws
    BY <1>5, <2>1, <2>2, EventKeepsOne DEF Closed, SocketStates
  <2>3. CASE s # ws
    BY <1>5, <2>1, <2>3, EventKeepsOne DEF Closed, SocketStates
  <2>4. QED
    BY <2>2, <2>3
<1>6. ASSUME NEW s \in Sockets, RoomJoined(s) PROVE ConnInv'
  BY <1>6, EventKeepsOne DEF RoomJoined, Live, SocketStates
<1>7. ASSUME NEW s \in Sockets, Refused(s) \/ SessionExpired(s) PROVE ConnInv'
  BY <1>7, EventKeepsOne DEF Refused, SessionExpired, SocketStates
<1>8. ASSUME UNCHANGED sockVars PROVE ConnInv'
  BY <1>8 DEF sockVars, ConnInv, SockTyped, OneLiveSocket, Live
<1>9. ASSUME Reload PROVE ConnInv'
  BY <1>9 DEF Reload, ConnInv, SockTyped, OneLiveSocket, Live, SocketStates
<1>10. ASSUME NEW s \in Sockets, GameStarted(s) \/ MoveRejected(s) \/ GameOver(s)
       PROVE ConnInv'
  BY <1>8, <1>10 DEF GameStarted, MoveRejected, GameOver
<1>11. CASE UNCHANGED clientVars
  BY <1>8, <1>11 DEF clientVars
<1>12. QED
  BY <1>1, <1>2, <1>3, <1>4, <1>5, <1>6, <1>7, <1>9, <1>10, <1>11 DEF WsNext

\* A page has at most one connection in use, the one in WsClient.ws.
THEOREM OneConnectionOfAPage == WsSpec => []OneLiveSocket
<1>1. WsInit => ConnInv
  BY DEF WsInit, ConnInv, SockTyped, OneLiveSocket, Live, SocketStates
<1>2. ConnInv /\ [WsNext]_clientVars => ConnInv'
  BY StepKeepsOne
<1>3. ConnInv => OneLiveSocket
  BY DEF ConnInv
<1>4. QED
  BY <1>1, <1>2, <1>3, PTL DEF WsSpec

\* The timer in reconnectTimer never runs without credentials: every step that
\* starts it looks at them, every step that gives them up stops it.
THEOREM NoRetryWithoutSession == WsSpec => []RetryHasSession
<1>1. WsInit => RetryHasSession
  BY DEF WsInit, RetryHasSession
<1>2. ASSUME RetryHasSession, [WsNext]_clientVars PROVE RetryHasSession'
  <2>1. ASSUME UNCHANGED retryVars PROVE RetryHasSession'
    BY <1>2, <2>1 DEF retryVars, RetryHasSession
  <2>2. ASSUME NEW s \in Sockets, TimerFires(s) PROVE RetryHasSession'
    BY <1>2, <2>2 DEF TimerFires, RetryHasSession
  <2>3. ASSUME NEW s \in Sockets, Open(s) PROVE RetryHasSession'
    BY <2>3 DEF Open, RetryHasSession
  <2>4. ASSUME NEW s \in Sockets, Closed(s) PROVE RetryHasSession'
    BY <1>2, <2>4 DEF Closed, ScheduleReconnect, retryVars, RetryHasSession
  <2>5. ASSUME NEW s \in Sockets, RoomJoined(s) PROVE RetryHasSession'
    BY <2>5 DEF RoomJoined, RetryHasSession
  <2>6. ASSUME NEW s \in Sockets, SessionExpired(s) \/ GameOver(s)
        PROVE RetryHasSession'
    BY <2>6 DEF SessionExpired, GameOver, ClearReconnectInfo, RetryHasSession
  <2>7. ASSUME Reload PROVE RetryHasSession'
    BY <2>7 DEF Reload, RetryHasSession
  <2>8. ASSUME NEW s \in Sockets,
               Enter(s) \/ Drop(s) \/ GameStarted(s) \/ Refused(s) \/ MoveRejected(s)
        PROVE RetryHasSession'
    BY <2>1, <2>8 DEF Enter, Drop, GameStarted, Refused, MoveRejected
  <2>9. CASE UNCHANGED clientVars
    BY <2>1, <2>9 DEF clientVars
  <2>10. QED
    BY <1>2, <2>2, <2>3, <2>4, <2>5, <2>6, <2>7, <2>8, <2>9 DEF WsNext
<1>3. QED
  BY <1>1, <1>2, PTL DEF WsSpec
-------------------------------------------------------------------------------
\* The sockets that Underway counts.
Active == {s \in Sockets : Live(s) \/ sock[s] = "closing"}
Timers == leaked + (IF timer THEN 1 ELSE 0)

WsTypes ==
    /\ ws \in Sockets \cup {NoSocket}
    /\ sock \in [Sockets -> SocketStates]
    /\ hello \in [Sockets -> {"enter", "rejoin", "blank"}]
    /\ leaked \in Nat
    /\ session \in BOOLEAN /\ timer \in BOOLEAN /\ ping \in BOOLEAN
    /\ busy \in BOOLEAN /\ lobby \in BOOLEAN

\* The socket in use was created, and a socket that was closed and is kept is the
\* one in use.
KeepsItsSocket ==
    \A s \in Sockets : (s = ws => sock[s] # "unused") /\ (sock[s] = "closed" => s = ws)

\* What bounds the forgotten timers: each of them once was a socket under way.
FewUnderway == Cardinality(Active) + Timers <= MaxUnderway

WsInv == WsTypes /\ KeepsItsSocket /\ FewUnderway

LEMMA ActiveCount == IsFiniteSet(Active) /\ Cardinality(Active) \in Nat
<1>1. Active \subseteq Sockets
  BY DEF Active
<1>2. IsFiniteSet(Active)
  BY <1>1, FS_Subset, WsClientAssumption
<1>3. QED
  BY <1>2, FS_CardinalityType

LEMMA ActiveCountNext == IsFiniteSet(Active') /\ Cardinality(Active') \in Nat
<1>1. Active' \subseteq Sockets
  BY DEF Active
<1>2. IsFiniteSet(Active')
  BY <1>1, FS_Subset, WsClientAssumption
<1>3. QED
  BY <1>2, FS_CardinalityType

LEMMA TimersCount == ASSUME WsTypes PROVE Timers \in Nat /\ leaked <= Timers
  BY DEF WsTypes, Timers

LEMMA TimersCountNext == ASSUME WsTypes' PROVE Timers' \in Nat
<1>1. leaked' \in Nat /\ timer' \in {TRUE, FALSE}
  BY DEF WsTypes
<1>2. \A n \in Nat, b \in {TRUE, FALSE} : n + (IF b THEN 1 ELSE 0) \in Nat
  OBVIOUS
<1>3. leaked' + (IF timer' THEN 1 ELSE 0) \in Nat
  BY <1>1, <1>2, Zenon
<1>4. QED
  BY <1>3, Zenon DEF Timers

\* connect makes one more socket active, the new one; the one it replaces goes on
\* being active if it was, because its close event is still to come.
LEMMA ConnectAddsOne ==
    ASSUME WsInv, NEW s \in Sockets, NEW says \in {"enter", "rejoin"},
           Connect(s, says)
    PROVE  /\ Cardinality(Active') = Cardinality(Active) + 1
           /\ ws' \in Sockets
           /\ sock' \in [Sockets -> SocketStates]
           /\ hello' \in [Sockets -> {"enter", "rejoin", "blank"}]
           /\ KeepsItsSocket'
<1>1. s \notin Active
  BY DEF Connect, Active, Live
<1>2. ws # s
  BY DEF WsInv, KeepsItsSocket, Connect
<1>3. Active' = Active \cup {s}
  <2>1. ASSUME NEW t \in Sockets PROVE t \in Active' <=> t \in Active \cup {s}
    <3>1. CASE t = s
      BY <3>1 DEF Connect, Active, Live
    <3>2. CASE t # s /\ t # ws
      BY <3>2 DEF Connect, Active, Live
    <3>3. CASE t = ws
      <4>1. sock[t] \in SocketStates /\ sock[t] # "unused"
        BY <3>3 DEF WsInv, WsTypes, KeepsItsSocket
      <4>2. sock'[t] = IF sock[t] = "closed" THEN "unused" ELSE "closing"
        BY <1>2, <3>3 DEF Connect
      <4>3. QED
        BY <1>2, <3>3, <4>1, <4>2 DEF Active, Live, SocketStates
    <3>4. QED
      BY <3>1, <3>2, <3>3
  <2>2. QED
    BY <2>1 DEF Active
<1>4. Cardinality(Active') = Cardinality(Active) + 1
  BY <1>1, <1>3, ActiveCount, FS_AddElement
<1>5. sock' \in [Sockets -> SocketStates]
  BY DEF WsInv, WsTypes, Connect, SocketStates
<1>6. hello' \in [Sockets -> {"enter", "rejoin", "blank"}]
  BY DEF WsInv, WsTypes, Connect
<1>7. KeepsItsSocket'
  BY DEF WsInv, KeepsItsSocket, Connect
<1>8. QED
  BY <1>4, <1>5, <1>6, <1>7 DEF Connect

\* Every step of the page keeps WsInv.
LEMMA StepKeepsCount == ASSUME WsInv, [WsNext]_clientVars PROVE WsInv'
<1> USE ActiveCount, TimersCount, ActiveCountNext, WsClientAssumption DEF WsInv
<1>1. ASSUME NEW s \in Sockets, Enter(s) PROVE WsInv'
  <2>1. Connect(s, "enter") /\ UNCHANGED <<session, timer, leaked, ping, lobby>> /\ busy' = TRUE
    BY <1>1 DEF Enter, retryVars
  <2>2. Cardinality(Active) + Timers < MaxUnderway
    <3>1. Underway = Cardinality(Active) + leaked + (IF timer THEN 1 ELSE 0)
      BY DEF Underway, Active
    <3>2. QED
      BY <1>1, <3>1 DEF Enter, Timers, WsTypes
  <2>3. Timers' = Timers
    BY <2>1 DEF Timers
  <2>4. FewUnderway'
    BY <2>1, <2>2, <2>3, ConnectAddsOne DEF FewUnderway
  <2>5. WsTypes'
    BY <2>1, ConnectAddsOne DEF WsTypes
  <2>6. QED
    BY <2>1, <2>4, <2>5, ConnectAddsOne
<1>2. ASSUME NEW s \in Sockets, TimerFires(s) PROVE WsInv'
  <2>1. Connect(s, "rejoin") /\ UNCHANGED <<session, ping, busy, lobby>>
    BY <1>2 DEF TimerFires, pageVars
  <2>2. Timers' = Timers - 1 /\ leaked' \in Nat /\ timer' \in BOOLEAN
    <3>1. leaked \in Nat /\ timer \in BOOLEAN
      BY DEF WsTypes
    <3>2. CASE timer /\ timer' = FALSE /\ leaked' = leaked
      <4>1. Timers = leaked + 1
        BY <3>2 DEF Timers
      <4>2. Timers' = leaked
        BY <3>1, <3>2 DEF Timers
      <4>3. QED
        <5>1. timer' \in BOOLEAN
          BY <3>2
        <5>2. leaked' = leaked
          BY <3>2
        <5>3. Timers' = Timers - 1 /\ leaked' \in Nat
          BY <3>1, <5>2, <4>1, <4>2
        <5>4. QED
          BY <5>1, <5>3
    <3>3. CASE leaked > 0 /\ leaked' = leaked - 1 /\ timer' = timer
      BY <3>1, <3>3 DEF Timers
    <3>4. QED
      BY <1>2, <3>2, <3>3 DEF TimerFires
  <2>3. FewUnderway'
    BY <2>1, <2>2, ConnectAddsOne DEF FewUnderway
  <2>4. WsTypes'
    BY <2>1, <2>2, ConnectAddsOne DEF WsTypes
  <2>5. QED
    BY <2>1, <2>3, <2>4, ConnectAddsOne
<1>3. ASSUME NEW s \in Sockets, NEW st \in {"open", "joined", "closing"},
             sock[s] \in {"connecting", "open", "joined"},
             sock' = [sock EXCEPT ![s] = st], ws' = ws,
             leaked' = leaked, timer' = timer \/ timer' = FALSE, WsTypes'
      PROVE  WsInv'
  <2>1. Active' = Active
    BY <1>3 DEF Active, Live, WsTypes
  <2>2. Timers' <= Timers /\ Timers' \in Nat
    BY <1>3 DEF Timers, WsTypes
  <2>3. FewUnderway'
    BY <2>1, <2>2 DEF FewUnderway
  <2>4. KeepsItsSocket'
    BY <1>3 DEF KeepsItsSocket, WsTypes
  <2>5. QED
    BY <1>3, <2>3, <2>4
<1>4. ASSUME NEW s \in Sockets, Open(s) PROVE WsInv'
  <2>1. WsTypes'
    BY <1>4 DEF Open, WsTypes, SocketStates, pageVars
  <2>2. QED
    BY <1>3, <1>4, <2>1 DEF Open
<1>5. ASSUME NEW s \in Sockets, Drop(s) PROVE WsInv'
  <2>1. WsTypes'
    BY <1>5 DEF Drop, WsTypes, SocketStates, retryVars, pageVars
  <2>2. QED
    BY <1>3, <1>5, <2>1 DEF Drop, Live, retryVars
<1>6. ASSUME NEW s \in Sockets, Closed(s) PROVE WsInv'
  <2>1. sock[s] = "closing" /\ ws' = ws /\ hello' = hello /\ ping' = FALSE
        /\ busy' = busy /\ lobby' = lobby
        /\ sock' = [sock EXCEPT ![s] = IF s = ws THEN "closed" ELSE "unused"]
    BY <1>6 DEF Closed, pageVars
  <2>2. session' = session /\ leaked' \in Nat /\ timer' \in BOOLEAN /\ Timers' <= Timers + 1
    <3>1. leaked \in Nat /\ timer \in BOOLEAN
      BY DEF WsTypes
    <3>2. CASE session
      <4>1. timer' = TRUE /\ leaked' = Timers /\ session' = session
        BY <1>6, <3>2 DEF Closed, ScheduleReconnect, Timers
      <4>2. Timers' = Timers + 1
        BY <4>1 DEF Timers
      <4>3. QED
        BY <4>1, <4>2
    <3>3. CASE ~session
      <4>1. session' = session /\ timer' = timer /\ leaked' = leaked
        BY <1>6, <3>3 DEF Closed, ScheduleReconnect, retryVars
      <4>2. Timers' = Timers
        BY <4>1 DEF Timers
      <4>3. QED
        BY <3>1, <4>1, <4>2
    <3>4. QED
      BY <3>2, <3>3
  <2>3. s \in Active /\ Active' = Active \ {s}
    BY <2>1 DEF Active, Live, WsTypes
  <2>4. Cardinality(Active') = Cardinality(Active) - 1
    BY <2>3, FS_RemoveElement
  <2>5. WsTypes'
    BY <2>1, <2>2 DEF WsTypes, SocketStates
  <2>6. FewUnderway'
    <3>1. Timers' \in Nat
      BY <2>5, TimersCountNext
    <3>2. QED
      BY <2>2, <2>4, <3>1 DEF FewUnderway
  <2>7. KeepsItsSocket'
    BY <2>1 DEF KeepsItsSocket, WsTypes
  <2>8. QED
    BY <2>5, <2>6, <2>7
<1>7. ASSUME NEW s \in Sockets, RoomJoined(s) PROVE WsInv'
  <2>1. WsTypes'
    BY <1>7 DEF RoomJoined, WsTypes, SocketStates, pageVars
  <2>2. QED
    BY <1>3, <1>7, <2>1 DEF RoomJoined
<1>8. ASSUME NEW s \in Sockets, Refused(s) PROVE WsInv'
  <2>1. WsTypes'
    BY <1>8 DEF Refused, WsTypes, SocketStates, retryVars
  <2>2. QED
    BY <1>3, <1>8, <2>1 DEF Refused, retryVars
<1>9. ASSUME NEW s \in Sockets, SessionExpired(s) PROVE WsInv'
  <2>1. WsTypes'
    BY <1>9 DEF SessionExpired, ClearReconnectInfo, WsTypes, SocketStates
  <2>2. QED
    BY <1>3, <1>9, <2>1 DEF SessionExpired, ClearReconnectInfo
<1>10. ASSUME UNCHANGED sockVars, leaked' = leaked, timer' = timer \/ timer' = FALSE,
              session' \in BOOLEAN, ping' \in BOOLEAN,
              busy' \in BOOLEAN, lobby' \in BOOLEAN
       PROVE  WsInv'
  <2>1. Active' = Active
    BY <1>10 DEF Active, Live, sockVars
  <2>2. Timers' <= Timers /\ Timers' \in Nat
    BY <1>10 DEF Timers, WsTypes
  <2>3. FewUnderway'
    BY <2>1, <2>2 DEF FewUnderway
  <2>4. WsTypes' /\ KeepsItsSocket'
    BY <1>10 DEF WsTypes, KeepsItsSocket, sockVars
  <2>5. QED
    BY <2>3, <2>4
<1>11. ASSUME NEW s \in Sockets, GameStarted(s) \/ MoveRejected(s) \/ GameOver(s)
       PROVE  WsInv'
  BY <1>10, <1>11
  DEF GameStarted, MoveRejected, GameOver, ClearReconnectInfo, WsTypes, retryVars, pageVars
<1>12. CASE UNCHANGED clientVars
  BY <1>10, <1>12 DEF clientVars, WsTypes, retryVars, pageVars
<1>13. ASSUME Reload PROVE WsInv'
  <2>1. WsTypes' /\ KeepsItsSocket' /\ Timers' = 0
    <3>1. ws' \in Sockets \cup {NoSocket}
      BY <1>13 DEF Reload
    <3>2. session' \in BOOLEAN
      BY <1>13 DEF Reload, WsTypes
    <3>3. sock' = [s \in Sockets |-> IF s = ws' THEN "connecting" ELSE "unused"]
          /\ hello' = [s \in Sockets |-> "rejoin"]
          /\ timer' = FALSE /\ leaked' = 0 /\ ping' = FALSE
          /\ busy' = FALSE /\ lobby' = TRUE
      BY <1>13 DEF Reload
    <3>4. WsTypes' /\ KeepsItsSocket'
      BY <3>1, <3>2, <3>3 DEF WsTypes, KeepsItsSocket, SocketStates
    <3>5. QED
      BY <3>3, <3>4 DEF Timers
  <2>2. Active' \subseteq {ws'}
    BY <1>13 DEF Reload, Active, Live
  <2>3. Cardinality(Active') <= 1
    <3>1. Cardinality({ws'}) = 1 /\ IsFiniteSet({ws'})
      BY FS_Singleton
    <3>2. QED
      BY <2>2, <3>1, FS_Subset
  <2>4. QED
    BY <2>1, <2>3 DEF FewUnderway
<1>14. QED
  BY <1>1, <1>2, <1>4, <1>5, <1>6, <1>7, <1>8, <1>9, <1>11, <1>12, <1>13 DEF WsNext

\* The variables of the page keep their types, the socket in use is one that was
\* created and is the only one kept once it is closed, and no more timers are
\* forgotten than sockets were under way (connect, scheduleReconnect).
THEOREM WsTypeCorrect == WsSpec => []WsTypeOK
<1>1. WsInit => WsInv
  <2>1. SUFFICES ASSUME WsInit PROVE WsInv
    OBVIOUS
  <2>2. WsTypes /\ KeepsItsSocket /\ Timers = 0
    <3>1. ws \in Sockets \cup {NoSocket}
      BY <2>1 DEF WsInit
    <3>2. sock = [s \in Sockets |-> IF s = ws THEN "connecting" ELSE "unused"]
          /\ hello = [s \in Sockets |-> "rejoin"]
          /\ timer = FALSE /\ leaked = 0 /\ ping = FALSE
          /\ busy = FALSE /\ lobby = TRUE /\ session \in BOOLEAN
      BY <2>1 DEF WsInit
    <3>3. WsTypes /\ KeepsItsSocket
      BY <3>1, <3>2 DEF WsTypes, KeepsItsSocket, SocketStates
    <3>4. QED
      BY <3>2, <3>3 DEF Timers
  <2>3. Active \subseteq {ws}
    BY <2>1 DEF WsInit, Active, Live
  <2>4. Cardinality(Active) <= 1
    <3>1. Cardinality({ws}) = 1 /\ IsFiniteSet({ws})
      BY FS_Singleton
    <3>2. QED
      BY <2>3, <3>1, FS_Subset
  <2>5. QED
    BY <2>2, <2>4, ActiveCount, WsClientAssumption DEF WsInv, FewUnderway
<1>2. WsInv /\ [WsNext]_clientVars => WsInv'
  BY StepKeepsCount
<1>3. WsInv => WsTypeOK
  <2>1. SUFFICES ASSUME WsInv PROVE WsTypeOK
    OBVIOUS
  <2>2. leaked \in 0 .. MaxUnderway
    <3>1. leaked \in Nat /\ leaked <= Timers /\ Timers \in Nat
      BY <2>1, TimersCount DEF WsInv, WsTypes
    <3>2. Cardinality(Active) + Timers <= MaxUnderway /\ Cardinality(Active) \in Nat
      BY <2>1, ActiveCount DEF WsInv, FewUnderway
    <3>3. QED
      BY <3>1, <3>2, WsClientAssumption
  <2>3. QED
    BY <2>1, <2>2 DEF WsInv, WsTypes, KeepsItsSocket, WsTypeOK
<1>4. QED
  BY <1>1, <1>2, <1>3, PTL DEF WsSpec
-------------------------------------------------------------------------------
\* A page that has a session and no connection has an attempt ahead of it: whatever
\* loses the connection leaves a close event to come, and that event starts the
\* timer, which only the next attempt or the end of the session takes away.
THEOREM RetryIsToCome == WsSpec => []RetryIsUnderWay
<1>1. WsInit => ConnInv /\ RetryIsUnderWay
  BY DEF WsInit, ConnInv, SockTyped, OneLiveSocket, Live, SocketStates, RetryIsUnderWay
<1>2. ASSUME ConnInv, RetryIsUnderWay, [WsNext]_clientVars PROVE RetryIsUnderWay'
  <2> USE <1>2 DEF ConnInv, SockTyped
  <2>1. ASSUME NEW s \in Sockets, ws' = s, Live(s)' PROVE RetryIsUnderWay'
    BY <2>1 DEF RetryIsUnderWay
  <2>2. ASSUME NEW s \in Sockets, sock'[s] = "closing" PROVE RetryIsUnderWay'
    BY <2>2 DEF RetryIsUnderWay
  <2>3. ASSUME UNCHANGED <<session, timer, leaked, ws, sock>> PROVE RetryIsUnderWay'
    BY <2>3 DEF RetryIsUnderWay, Live
  <2>4. ASSUME NEW s \in Sockets, Enter(s) \/ TimerFires(s) PROVE RetryIsUnderWay'
    <3>1. ws' = s /\ sock'[s] = "connecting"
      BY <2>4 DEF Enter, TimerFires, Connect
    <3>2. QED
      BY <2>1, <3>1 DEF Live
  <2>5. ASSUME NEW s \in Sockets, Open(s) \/ RoomJoined(s) PROVE RetryIsUnderWay'
    <3>1. Live(s) /\ ws' = ws /\ sock'[s] \in {"open", "joined"}
      BY <2>5 DEF Open, RoomJoined, Live
    <3>2. s = ws
      BY <3>1 DEF OneLiveSocket
    <3>3. QED
      BY <2>1, <3>1, <3>2 DEF Live
  <2>6. ASSUME NEW s \in Sockets, Drop(s) \/ Refused(s) \/ SessionExpired(s)
        PROVE  RetryIsUnderWay'
    <3>1. sock'[s] = "closing"
      BY <2>6 DEF Drop, Refused, SessionExpired
    <3>2. QED
      BY <2>2, <3>1
  <2>7. ASSUME NEW s \in Sockets, Closed(s) PROVE RetryIsUnderWay'
    <3>1. session => timer' = TRUE
      BY <2>7 DEF Closed, ScheduleReconnect
    <3>2. session' = session
      BY <2>7 DEF Closed, ScheduleReconnect, retryVars
    <3>3. QED
      BY <3>1, <3>2 DEF RetryIsUnderWay
  <2>8. ASSUME NEW s \in Sockets, GameStarted(s) \/ MoveRejected(s) PROVE RetryIsUnderWay'
    BY <2>3, <2>8 DEF GameStarted, MoveRejected, retryVars, sockVars
  <2>9. ASSUME NEW s \in Sockets, GameOver(s) PROVE RetryIsUnderWay'
    BY <2>9 DEF GameOver, ClearReconnectInfo, RetryIsUnderWay
  <2>10. ASSUME Reload PROVE RetryIsUnderWay'
    <3>1. CASE session'
      <4>1. ws' \in Sockets /\ sock'[ws'] = "connecting"
        BY <2>10, <3>1 DEF Reload
      <4>2. QED
        BY <2>1, <4>1 DEF Live
    <3>2. CASE ~session'
      BY <3>2 DEF RetryIsUnderWay
    <3>3. QED
      BY <3>1, <3>2
  <2>11. CASE UNCHANGED clientVars
    BY <2>3, <2>11 DEF clientVars, sockVars, retryVars
  <2>12. QED
    BY <2>4, <2>5, <2>6, <2>7, <2>8, <2>9, <2>10, <2>11 DEF WsNext
<1>3. ConnInv /\ [WsNext]_clientVars => ConnInv'
  BY StepKeepsOne
<1>4. QED
  BY <1>1, <1>2, <1>3, PTL DEF WsSpec
================================================================================
