------------------------------ MODULE Lobby_proofs ------------------------------
(***************************************************************************)
(* Proofs about Lobby, for any number of connections and seats.            *)
(***************************************************************************)
EXTENDS Lobby, TLAPS

\* A player more at the end of the order of seats.
LEMMA OneMoreSeat ==
    ASSUME NEW s \in Seq(Players), NEW p \in Players
    PROVE  /\ Append(s, p) \in Seq(Players)
           /\ ToSet(Append(s, p)) = ToSet(s) \cup {p}
           /\ Len(Append(s, p)) = Len(s) + 1
           /\ IsInjective(s) /\ p \notin ToSet(s) => IsInjective(Append(s, p))
<1>1. /\ Append(s, p) \in Seq(Players) /\ Len(Append(s, p)) = Len(s) + 1
      /\ Len(s) \in Nat
      /\ DOMAIN s = 1 .. Len(s) /\ DOMAIN Append(s, p) = 1 .. Len(s) + 1
      /\ \A n \in 1 .. Len(s) : Append(s, p)[n] = s[n]
      /\ Append(s, p)[Len(s) + 1] = p
  OBVIOUS
<1>2. \A n \in 1 .. Len(s) + 1 : n \in 1 .. Len(s) \/ n = Len(s) + 1
  BY <1>1
<1>3. ToSet(Append(s, p)) = ToSet(s) \cup {p}
  <2>1. \A q \in ToSet(Append(s, p)) : q \in ToSet(s) \cup {p}
    BY <1>1, <1>2 DEF ToSet
  <2>2. \A n \in 1 .. Len(s) : s[n] \in ToSet(Append(s, p))
    BY <1>1 DEF ToSet
  <2>3. p \in ToSet(Append(s, p))
    BY <1>1 DEF ToSet
  <2> QED BY <1>1, <2>1, <2>2, <2>3 DEF ToSet
<1>4. ASSUME IsInjective(s), p \notin ToSet(s) PROVE IsInjective(Append(s, p))
  <2>1. \A n \in 1 .. Len(s) : s[n] # p
    BY <1>1, <1>4 DEF ToSet
  <2> QED BY <1>1, <1>2, <1>4, <2>1 DEF IsInjective
<1> QED BY <1>1, <1>3, <1>4

\* The inductive invariant.  Besides the type: a connection joins at most once,
\* under its own name; a player who is served has a seat, and so has everybody
\* in the game; a handler starts the game only of a room that is full; and what
\* a room without the computer player promises.
LobbyTypes ==
    /\ rooms \in {"never", "listed", "removed"}
    /\ seatOrder \in Seq(Players) /\ players \in Seq(Players)
    /\ done \in [Players -> {"none", "open", "closed"}]
    /\ conn \in [Players -> BOOLEAN]
    /\ step \in [Conns -> Steps]
    /\ who \in [Conns -> Conns \cup {Nobody}]

SeatsAreKnown == \A p \in Players : p \in Joined <=> done[p] # "none"

JoinsOnce ==
    \A c \in Conns :
        /\ step[c] \in {"new", "join", "joinVsAI"} => c \notin Joined
        /\ step[c] \in {"join", "joinVsAI"} => who[c] = c

ServesASeat == \A c \in Conns : step[c] \in Serving => who[c] \in Joined

PlayersHaveSeats == ToSet(players) \subseteq Joined

StartsWhenFull == \A c \in Conns : step[c] = "start" => IsFull

LobbyInv ==
    /\ LobbyTypes
    /\ SeatsAreKnown
    /\ JoinsOnce
    /\ ServesASeat
    /\ PlayersHaveSeats
    /\ StartsWhenFull
    /\ GameHasItsPlayers

LEMMA LobbyStarts == LobbyInit => LobbyInv
<1> SUFFICES ASSUME LobbyInit PROVE LobbyInv
  OBVIOUS
<1>1. seatOrder = <<>> /\ players = <<>> /\ ToSet(<<>>) = {} /\ IsInjective(<<>>)
  BY DEF LobbyInit, ToSet, IsInjective
<1>2. LobbyTypes
  BY DEF LobbyInit, LobbyTypes, Steps, Nobody
<1>3. SeatsAreKnown /\ JoinsOnce /\ ServesASeat /\ PlayersHaveSeats /\ StartsWhenFull
  BY <1>1 DEF LobbyInit, SeatsAreKnown, JoinsOnce, ServesASeat, PlayersHaveSeats,
              StartsWhenFull, Joined, Serving
<1>4. GameHasItsPlayers
  BY <1>1, LobbyAssumption DEF LobbyInit, GameHasItsPlayers, Started
<1> QED BY <1>2, <1>3, <1>4 DEF LobbyInv

\* A handler that leaves the room as it is and goes on to a step that its player
\* may be at.
LEMMA HandlerGoesOn ==
    ASSUME LobbyInv, NEW c \in Conns, NEW to \in Steps,
           step' = [step EXCEPT ![c] = to],
           UNCHANGED <<seatOrder, players>>,
           rooms' \in {"never", "listed", "removed"},
           conn' \in [Players -> BOOLEAN],
           done' \in [Players -> {"none", "open", "closed"}],
           \A p \in Players : done'[p] = "none" <=> done[p] = "none",
           who' \in [Conns -> Conns \cup {Nobody}],
           \A d \in Conns \ {c} : who'[d] = who[d],
           to # "new",
           to \in {"join", "joinVsAI"} => who'[c] = c /\ step[c] = "new",
           to \in Serving => who'[c] \in Joined,
           to = "start" => IsFull
    PROVE  LobbyInv'
<1>1. LobbyTypes /\ SeatsAreKnown /\ JoinsOnce /\ ServesASeat /\ PlayersHaveSeats
      /\ StartsWhenFull /\ GameHasItsPlayers
  BY DEF LobbyInv
<1>2. /\ step'[c] = to /\ \A d \in Conns \ {c} : step'[d] = step[d]
      /\ Joined' = Joined /\ (IsFull' <=> IsFull)
  BY <1>1 DEF LobbyTypes, Joined, IsFull
<1>3. LobbyTypes'
  BY <1>1 DEF LobbyTypes
<1>4. SeatsAreKnown'
  BY <1>1, <1>2 DEF SeatsAreKnown
<1>5. JoinsOnce'
  BY <1>1, <1>2 DEF JoinsOnce
<1>6. ServesASeat'
  BY <1>1, <1>2 DEF ServesASeat
<1>7. PlayersHaveSeats'
  BY <1>1, <1>2 DEF PlayersHaveSeats
<1>8. StartsWhenFull'
  BY <1>1, <1>2 DEF StartsWhenFull
<1>9. GameHasItsPlayers'
  BY <1>1, <1>2 DEF GameHasItsPlayers, Started
<1> QED BY <1>3, <1>4, <1>5, <1>6, <1>7, <1>8, <1>9 DEF LobbyInv

\* A player p takes a seat.
LEMMA SeatIsTaken ==
    ASSUME LobbyInv, NEW c \in Conns, NEW p \in Players, NEW to \in {"attach", "addBot"},
           step' = [step EXCEPT ![c] = to],
           seatOrder' = Append(seatOrder, p),
           done' = [done EXCEPT ![p] = "open"],
           UNCHANGED <<rooms, conn, players, who>>,
           who[c] \in Joined \cup {p},
           p # Bot => p = c /\ c \notin Joined /\ ~Started /\ ~IsFull
    PROVE  LobbyInv'
<1>1. LobbyTypes /\ SeatsAreKnown /\ JoinsOnce /\ ServesASeat /\ PlayersHaveSeats
      /\ StartsWhenFull /\ GameHasItsPlayers
  BY DEF LobbyInv
<1>2. /\ seatOrder' \in Seq(Players) /\ Joined' = Joined \cup {p}
      /\ Len(seatOrder') = Len(seatOrder) + 1
      /\ IsInjective(seatOrder) /\ p \notin Joined => IsInjective(seatOrder')
      /\ Len(seatOrder) \in Nat /\ MaxPlayers \in Nat
  BY <1>1, OneMoreSeat, LobbyAssumption DEF LobbyTypes, Joined
<1>3. step'[c] = to /\ \A d \in Conns \ {c} : step'[d] = step[d]
  BY <1>1 DEF LobbyTypes
<1>4. LobbyTypes'
  BY <1>1, <1>2 DEF LobbyTypes, Steps
<1>5. SeatsAreKnown'
  BY <1>1, <1>2 DEF SeatsAreKnown, LobbyTypes
<1>6. JoinsOnce'
  <2>1. \A d \in Conns \ {c} : d # p
    BY LobbyAssumption DEF Players
  <2> QED BY <1>1, <1>2, <1>3, <2>1 DEF JoinsOnce
<1>7. ServesASeat'
  BY <1>1, <1>2, <1>3 DEF ServesASeat
<1>8. PlayersHaveSeats'
  BY <1>1, <1>2 DEF PlayersHaveSeats
<1>9. StartsWhenFull'
  BY <1>1, <1>2, <1>3 DEF StartsWhenFull, IsFull
<1>10. GameHasItsPlayers'
  <2>1. SUFFICES ASSUME Bot \notin Joined' PROVE GameHasItsPlayers'
    BY DEF GameHasItsPlayers
  <2>2. p = c /\ c \notin Joined /\ ~Started /\ ~IsFull /\ Bot \notin Joined
    BY <1>2, <2>1
  <2> QED BY <1>1, <1>2, <2>2 DEF GameHasItsPlayers, Started, IsFull
<1> QED BY <1>4, <1>5, <1>6, <1>7, <1>8, <1>9, <1>10 DEF LobbyInv

\* Every call of every handler keeps the invariant.
LEMMA LobbyStep == LobbyInv /\ [LobbyNext]_lobbyVars => LobbyInv'
<1> SUFFICES ASSUME LobbyInv, [LobbyNext]_lobbyVars PROVE LobbyInv'
  OBVIOUS
<1>1. LobbyTypes /\ SeatsAreKnown /\ JoinsOnce /\ ServesASeat /\ PlayersHaveSeats
      /\ StartsWhenFull /\ GameHasItsPlayers
  BY DEF LobbyInv
<1>2. Steps = {"new", "join", "joinVsAI", "addBot", "reconnect", "attach", "reattach",
               "checkFull", "start", "broadcast", "serving", "onEmpty", "gone"}
      /\ Serving = {"addBot", "attach", "reattach", "checkFull", "start", "broadcast",
                    "serving"}
  BY DEF Steps, Serving
<1>3. \A c \in Conns : step[c] \in Serving => who[c] \in Joined /\ who[c] \in Players
                                                /\ done[who[c]] # "none"
  BY <1>1 DEF ServesASeat, LobbyTypes, SeatsAreKnown, Joined, ToSet
<1>a. ASSUME NEW c \in Conns, NEW vsAI \in BOOLEAN, Create(c, vsAI) PROVE LobbyInv'
  <2>1. /\ step[c] = "new" /\ who' = [who EXCEPT ![c] = c]
        /\ rooms' = "listed" /\ UNCHANGED <<seatOrder, players, done, conn>>
        /\ \E to \in {"join", "joinVsAI"} : step' = [step EXCEPT ![c] = to]
    BY <1>a DEF Create, Go, roomState
  <2> QED BY <1>1, <1>2, <2>1, HandlerGoesOn DEF LobbyTypes
<1>b. ASSUME NEW c \in Conns, NEW p \in {c} \cup (Joined \ {Bot}), Get(c, p) PROVE LobbyInv'
  <2>1. /\ step[c] = "new" /\ who' = [who EXCEPT ![c] = p]
        /\ UNCHANGED <<rooms, seatOrder, players, done, conn>>
        /\ \E to \in {"join", "reconnect", "gone"} :
               step' = [step EXCEPT ![c] = to] /\ (to = "join" => p = c)
    BY <1>b DEF Get, Go, roomState
  <2>2. p \in Conns
    BY <1>1 DEF Joined, ToSet, LobbyTypes, Players
  <2> QED BY <1>1, <1>2, <2>1, <2>2, HandlerGoesOn DEF LobbyTypes
<1>c. ASSUME NEW c \in Conns, Join(c) PROVE LobbyInv'
  <2>1. /\ step[c] \in {"join", "joinVsAI"} /\ ~Started /\ ~IsFull
        /\ seatOrder' = Append(seatOrder, c) /\ done' = [done EXCEPT ![c] = "open"]
        /\ UNCHANGED <<rooms, conn, players, who>>
        /\ \E to \in {"attach", "addBot"} : step' = [step EXCEPT ![c] = to]
    BY <1>c DEF Join, Go
  <2>2. c \in Players /\ c # Bot /\ c \notin Joined /\ who[c] = c
    BY <1>1, <2>1, LobbyAssumption DEF JoinsOnce, Players
  <2> QED BY <2>1, <2>2, SeatIsTaken
<1>d. ASSUME NEW c \in Conns, JoinRefused(c) PROVE LobbyInv'
  <2>1. step' = [step EXCEPT ![c] = "gone"]
        /\ UNCHANGED <<rooms, seatOrder, players, done, conn, who>>
    BY <1>d DEF JoinRefused, Go, roomState
  <2> QED BY <1>1, <1>2, <2>1, HandlerGoesOn DEF LobbyTypes
<1>e. ASSUME NEW c \in Conns, AddBot(c) PROVE LobbyInv'
  <2>1. /\ step[c] = "addBot" /\ step' = [step EXCEPT ![c] = "attach"]
        /\ seatOrder' = Append(seatOrder, Bot) /\ done' = [done EXCEPT ![Bot] = "open"]
        /\ UNCHANGED <<rooms, conn, players, who>>
    BY <1>e DEF AddBot, Go
  <2>2. Bot \in Players /\ who[c] \in Joined
    BY <1>2, <1>3, <2>1 DEF Players
  <2> QED BY <2>1, <2>2, SeatIsTaken
<1>f. ASSUME NEW c \in Conns, Reconnect(c) PROVE LobbyInv'
  <2>1. /\ UNCHANGED <<rooms, seatOrder, players, done, conn, who>>
        /\ \E to \in {"reattach", "gone"} :
               step' = [step EXCEPT ![c] = to] /\ (to = "reattach" => who[c] \in ToSet(players))
    BY <1>f DEF Reconnect, Go, roomState
  <2>2. who[c] \in ToSet(players) => who[c] \in Joined
    BY <1>1 DEF PlayersHaveSeats
  <2> QED BY <1>1, <1>2, <2>1, <2>2, HandlerGoesOn DEF LobbyTypes
<1>g. ASSUME NEW c \in Conns, AttachConn(c) PROVE LobbyInv'
  <2>1. /\ step[c] \in {"attach", "reattach"}
        /\ done' = [done EXCEPT ![who[c]] = "open"]
        /\ conn' = [conn EXCEPT ![who[c]] = TRUE]
        /\ UNCHANGED <<rooms, seatOrder, players, who>>
        /\ \E to \in {"checkFull", "serving"} : step' = [step EXCEPT ![c] = to]
    BY <1>g DEF AttachConn, Go
  <2>2. who[c] \in Joined /\ who[c] \in Players /\ done[who[c]] # "none"
    BY <1>2, <1>3, <2>1
  <2>3. /\ done' \in [Players -> {"none", "open", "closed"}]
        /\ conn' \in [Players -> BOOLEAN]
        /\ \A p \in Players : done'[p] = "none" <=> done[p] = "none"
    BY <1>1, <2>1, <2>2 DEF LobbyTypes
  <2> QED BY <1>1, <1>2, <2>1, <2>2, <2>3, HandlerGoesOn DEF LobbyTypes
<1>h. ASSUME NEW c \in Conns, CheckFull(c) PROVE LobbyInv'
  <2>1. /\ step[c] = "checkFull"
        /\ UNCHANGED <<rooms, seatOrder, players, done, conn, who>>
        /\ \E to \in {"start", "serving"} :
               step' = [step EXCEPT ![c] = to] /\ (to = "start" => IsFull)
    BY <1>h DEF CheckFull, Go, roomState
  <2>2. who[c] \in Joined
    BY <1>2, <1>3, <2>1
  <2> QED BY <1>1, <1>2, <2>1, <2>2, HandlerGoesOn DEF LobbyTypes
<1>i. ASSUME NEW c \in Conns, StartGame(c) PROVE LobbyInv'
  <2>1. /\ step[c] = "start" /\ step' = [step EXCEPT ![c] = "broadcast"]
        /\ players' = seatOrder /\ UNCHANGED <<rooms, seatOrder, done, conn, who>>
    BY <1>i DEF StartGame, Go
  <2>2. IsFull /\ who[c] \in Joined /\ Joined' = Joined
    BY <1>1, <1>2, <1>3, <2>1 DEF StartsWhenFull, Joined
  <2>3. step'[c] = "broadcast" /\ \A d \in Conns \ {c} : step'[d] = step[d]
    BY <1>1, <2>1 DEF LobbyTypes
  <2>4. LobbyTypes'
    BY <1>1, <1>2, <2>1 DEF LobbyTypes
  <2>5. SeatsAreKnown' /\ JoinsOnce' /\ ServesASeat' /\ PlayersHaveSeats' /\ StartsWhenFull'
    BY <1>1, <1>2, <2>1, <2>2, <2>3
       DEF SeatsAreKnown, JoinsOnce, ServesASeat, PlayersHaveSeats, StartsWhenFull,
           Joined, IsFull
  <2>6. GameHasItsPlayers'
    <3>1. Len(seatOrder) \in Nat /\ MaxPlayers \in Nat
      BY <1>1, LobbyAssumption DEF LobbyTypes
    <3> QED BY <1>1, <2>1, <2>2, <3>1 DEF GameHasItsPlayers, IsFull
  <2> QED BY <2>4, <2>5, <2>6 DEF LobbyInv
<1>j. ASSUME NEW c \in Conns, BroadcastGameStart(c) PROVE LobbyInv'
  <2>1. /\ step[c] = "broadcast" /\ step' = [step EXCEPT ![c] = "serving"]
        /\ UNCHANGED <<rooms, seatOrder, players, done, conn, who>>
    BY <1>j DEF BroadcastGameStart, Go, roomState
  <2>2. who[c] \in Joined
    BY <1>2, <1>3, <2>1
  <2> QED BY <1>1, <1>2, <2>1, <2>2, HandlerGoesOn DEF LobbyTypes
<1>k. ASSUME NEW c \in Conns, OnEmpty(c) PROVE LobbyInv'
  <2>1. /\ rooms' = "removed" /\ step' = [step EXCEPT ![c] = "gone"]
        /\ UNCHANGED <<seatOrder, players, done, conn, who>>
    BY <1>k DEF OnEmpty, Go, roomState
  <2> QED BY <1>1, <1>2, <2>1, HandlerGoesOn DEF LobbyTypes
<1>l. ASSUME NEW c \in Conns, Disconnect(c) PROVE LobbyInv'
  <2>1. /\ step[c] = "serving" /\ done' = [done EXCEPT ![who[c]] = "closed"]
        /\ UNCHANGED <<rooms, seatOrder, conn, players, who>>
        /\ \E to \in {"onEmpty", "gone"} : step' = [step EXCEPT ![c] = to]
    BY <1>l DEF Disconnect, Go
  <2>2. who[c] \in Joined /\ who[c] \in Players /\ done[who[c]] # "none"
    BY <1>2, <1>3, <2>1
  <2>3. /\ done' \in [Players -> {"none", "open", "closed"}]
        /\ \A p \in Players : done'[p] = "none" <=> done[p] = "none"
    BY <1>1, <2>1, <2>2 DEF LobbyTypes
  <2> QED BY <1>1, <1>2, <2>1, <2>2, <2>3, HandlerGoesOn DEF LobbyTypes
<1>m. CASE UNCHANGED lobbyVars
  BY <1>1, <1>m
     DEF lobbyVars, roomState, LobbyInv, LobbyTypes, SeatsAreKnown, JoinsOnce, ServesASeat,
         PlayersHaveSeats, StartsWhenFull, GameHasItsPlayers, Joined, IsFull, Started
<1>n. CASE AllGone
  BY <1>m, <1>n DEF AllGone
<1> QED BY <1>a, <1>b, <1>c, <1>d, <1>e, <1>f, <1>g, <1>h, <1>i, <1>j, <1>k, <1>l, <1>m, <1>n
        DEF LobbyNext, Proceed

LEMMA LobbyInvariance == LobbySpec => []LobbyInv
<1> QED BY LobbyStarts, LobbyStep, PTL DEF LobbySpec

\* The room, its players and the handlers are well formed: who has a seat has a
\* channel, and a connection past its join serves a player who has a seat.
THEOREM LobbyTypeCorrect == LobbySpec => []LobbyTypeOK
<1>1. LobbyInv => LobbyTypeOK
  BY DEF LobbyInv, LobbyTypes, SeatsAreKnown, ServesASeat, LobbyTypeOK, Joined, ToSet
<1> QED BY <1>1, LobbyInvariance, PTL

\* However many connections join at once, nobody is seated twice or beyond the
\* last seat, and the game is played by all players in their seats.
THEOREM GameIsPlayedByItsPlayers == LobbySpec => []GameHasItsPlayers
<1>1. LobbyInv => GameHasItsPlayers
  BY DEF LobbyInv
<1> QED BY <1>1, LobbyInvariance, PTL
-------------------------------------------------------------------------------
\* A handler that is at one of the given steps, and whose step another handler
\* leaves alone, still is.
LEMMA OthersKeepTheirStep ==
    ASSUME LobbyInv, NEW c \in Conns, NEW to \in Steps, NEW S,
           step' = [step EXCEPT ![c] = to],
           step[c] \in S => to \in S,
           \E d \in Conns : step[d] \in S
    PROVE  \E d \in Conns : step'[d] \in S
<1>1. PICK d \in Conns : step[d] \in S
  OBVIOUS
<1>2. step \in [Conns -> Steps]
  BY DEF LobbyInv, LobbyTypes
<1>3. step'[d] \in S
  BY <1>1, <1>2
<1> QED BY <1>3

\* The steps of a handler from which the start of a full room is still to come.
LeadsToStart == {"addBot", "attach", "checkFull", "start"}

\* A room that has filled up without having started its game is one whose last
\* handler between Join and IsFull has not asked yet, or has been told to start.
THEOREM StartIsToCome == LobbySpec => []StartIsUnderWay
<1> DEFINE Due == \E c \in Conns : step[c] \in LeadsToStart
<1>1. ASSUME LobbyInv PROVE StartIsUnderWay <=> (IsFull /\ ~Started => Due)
  BY DEF StartIsUnderWay, IsFull, LeadsToStart
<1>2. LobbyInit => StartIsUnderWay
  BY LobbyAssumption DEF LobbyInit, StartIsUnderWay
<1>3. ASSUME LobbyInv, LobbyInv', StartIsUnderWay, [LobbyNext]_lobbyVars
      PROVE  StartIsUnderWay'
  <2>1. step \in [Conns -> Steps] /\ (IsFull /\ ~Started => Due)
    BY <1>1, <1>3 DEF LobbyInv, LobbyTypes
  <2>2. SUFFICES ASSUME IsFull', ~Started' PROVE Due'
    BY DEF StartIsUnderWay, IsFull, LeadsToStart
  <2>3. ASSUME NEW c \in Conns, NEW to \in Steps, step' = [step EXCEPT ![c] = to],
               UNCHANGED <<seatOrder, players>>,
               step[c] \in LeadsToStart => to \in LeadsToStart
        PROVE  Due'
    <3>1. Due
      BY <2>1, <2>2, <2>3 DEF IsFull, Started
    <3> QED BY <1>3, <2>3, <3>1, OthersKeepTheirStep
  <2>4. ASSUME NEW c \in Conns, step'[c] \in LeadsToStart PROVE Due'
    BY <2>4
  <2> HIDE DEF Due
  <2>a. ASSUME NEW c \in Conns, NEW vsAI \in BOOLEAN, Create(c, vsAI) PROVE Due'
    <3>1. PICK to \in {"join", "joinVsAI"} : step' = [step EXCEPT ![c] = to]
      BY <2>a DEF Create, Go
    <3>2. step[c] = "new" /\ UNCHANGED <<seatOrder, players>>
      BY <2>a DEF Create, Go, roomState
    <3> QED BY <2>3, <3>1, <3>2 DEF Steps, LeadsToStart
  <2>b. ASSUME NEW c \in Conns, NEW p, Get(c, p) PROVE Due'
    <3>1. PICK to \in {"join", "reconnect", "gone"} : step' = [step EXCEPT ![c] = to]
      BY <2>b DEF Get, Go
    <3>2. step[c] = "new" /\ UNCHANGED <<seatOrder, players>>
      BY <2>b DEF Get, Go, roomState
    <3> QED BY <2>3, <3>1, <3>2 DEF Steps, LeadsToStart
  <2>c. ASSUME NEW c \in Conns, Join(c) \/ AddBot(c) PROVE Due'
    <3>1. step'[c] \in LeadsToStart
      BY <2>1, <2>c DEF Join, AddBot, Go, LeadsToStart
    <3> QED BY <2>4, <3>1
  <2>d. ASSUME NEW c \in Conns, JoinRefused(c) \/ OnEmpty(c) PROVE Due'
    <3>1. /\ step' = [step EXCEPT ![c] = "gone"]
          /\ step[c] \in {"join", "joinVsAI", "onEmpty"} /\ UNCHANGED <<seatOrder, players>>
      BY <2>d DEF JoinRefused, OnEmpty, Go, roomState
    <3> QED BY <2>3, <3>1 DEF Steps, LeadsToStart
  <2>e. ASSUME NEW c \in Conns, Reconnect(c) PROVE Due'
    <3>1. PICK to \in {"reattach", "gone"} : step' = [step EXCEPT ![c] = to]
      BY <2>e DEF Reconnect, Go
    <3>2. step[c] = "reconnect" /\ UNCHANGED <<seatOrder, players>>
      BY <2>e DEF Reconnect, Go, roomState
    <3> QED BY <2>3, <3>1, <3>2 DEF Steps, LeadsToStart
  <2>f. ASSUME NEW c \in Conns, AttachConn(c) PROVE Due'
    <3>1. UNCHANGED <<seatOrder, players>>
      BY <2>f DEF AttachConn
    <3>2. CASE Go(c, "attach", "checkFull")
      BY <2>3, <3>1, <3>2 DEF Go, Steps, LeadsToStart
    <3>3. CASE Go(c, "reattach", "serving")
      BY <2>3, <3>1, <3>3 DEF Go, Steps, LeadsToStart
    <3> QED BY <2>f, <3>2, <3>3 DEF AttachConn
  <2>g. ASSUME NEW c \in Conns, CheckFull(c) PROVE Due'
    <3>1. IsFull /\ step[c] = "checkFull"
      BY <2>2, <2>g DEF CheckFull, Go, roomState, IsFull
    <3>2. step'[c] = "start"
      BY <2>1, <2>g, <3>1 DEF CheckFull, Go
    <3> QED BY <2>4, <3>2 DEF LeadsToStart
  <2>h. ASSUME NEW c \in Conns, StartGame(c) PROVE Due'
    <3>1. seatOrder = <<>> /\ IsFull
      BY <2>2, <2>h DEF StartGame, Started, IsFull
    <3>2. Len(<<>>) = 0
      OBVIOUS
    <3> QED BY <3>1, <3>2, LobbyAssumption DEF IsFull
  <2>i. ASSUME NEW c \in Conns, BroadcastGameStart(c) PROVE Due'
    BY <2>3, <2>i DEF BroadcastGameStart, Go, roomState, Steps, LeadsToStart
  <2>j. ASSUME NEW c \in Conns, Disconnect(c) PROVE Due'
    <3>1. PICK to \in {"onEmpty", "gone"} : step' = [step EXCEPT ![c] = to]
      BY <2>j DEF Disconnect, Go
    <3>2. step[c] = "serving" /\ UNCHANGED <<seatOrder, players>>
      BY <2>j DEF Disconnect
    <3> QED BY <2>3, <3>1, <3>2 DEF Steps, LeadsToStart
  <2>k. CASE UNCHANGED lobbyVars
    BY <2>1, <2>2, <2>k DEF lobbyVars, roomState, Due, IsFull, Started
  <2> QED BY <1>3, <2>a, <2>b, <2>c, <2>d, <2>e, <2>f, <2>g, <2>h, <2>i, <2>j, <2>k
          DEF LobbyNext, Proceed, AllGone
<1> QED BY <1>2, <1>3, LobbyInvariance, PTL DEF LobbySpec

\* A room that everybody left before the game is one whose last handler to go has
\* yet to call onEmpty, or one that is removed: Disconnect closes the channel and
\* decides in one critical section, so the last one to close it knows.
THEOREM RemovalIsToCome == LobbySpec => []RemovalIsUnderWay
<1> DEFINE Going == rooms = "removed" \/ \E c \in Conns : step[c] \in {"onEmpty"}
<1>1. LobbyInit => RemovalIsUnderWay
  BY DEF LobbyInit, RemovalIsUnderWay, Empty, Joined, ToSet
<1>2. ASSUME LobbyInv, LobbyInv', RemovalIsUnderWay, [LobbyNext]_lobbyVars
      PROVE  RemovalIsUnderWay'
  <2>1. step \in [Conns -> Steps] /\ done \in [Players -> {"none", "open", "closed"}]
    BY <1>2 DEF LobbyInv, LobbyTypes
  <2>2. SUFFICES ASSUME ~Started', Empty' PROVE Going'
    BY DEF RemovalIsUnderWay
  <2>3. ASSUME NEW c \in Conns, NEW to \in Steps, step' = [step EXCEPT ![c] = to],
               UNCHANGED <<seatOrder, players, done>>,
               rooms = "removed" => rooms' = "removed", step[c] # "onEmpty"
        PROVE  Going'
    <3>1. Going
      BY <1>2, <2>2, <2>3 DEF RemovalIsUnderWay, Empty, Joined, Started
    <3>2. CASE rooms = "removed"
      BY <2>3, <3>2
    <3>3. CASE \E d \in Conns : step[d] \in {"onEmpty"}
      <4>1. \E d \in Conns : step'[d] \in {"onEmpty"}
        BY <1>2, <2>3, <3>3, OthersKeepTheirStep
      <4> QED BY <4>1
    <3> QED BY <3>1, <3>2, <3>3
  <2>4. ASSUME NEW p \in Joined', done'[p] = "open" PROVE FALSE
    BY <2>2, <2>4 DEF Empty
  <2> HIDE DEF Going
  <2>a. ASSUME NEW c \in Conns, NEW vsAI \in BOOLEAN, Create(c, vsAI) PROVE Going'
    <3>1. PICK to \in {"join", "joinVsAI"} : step' = [step EXCEPT ![c] = to]
      BY <2>a DEF Create, Go
    <3>2. step[c] = "new" /\ rooms = "never" /\ UNCHANGED <<seatOrder, players, done>>
      BY <2>a DEF Create, Go, roomState
    <3> QED BY <2>3, <3>1, <3>2 DEF Steps
  <2>b. ASSUME NEW c \in Conns, NEW p, Get(c, p) PROVE Going'
    <3>1. PICK to \in {"join", "reconnect", "gone"} : step' = [step EXCEPT ![c] = to]
      BY <2>b DEF Get, Go
    <3>2. step[c] = "new" /\ UNCHANGED <<rooms, seatOrder, players, done>>
      BY <2>b DEF Get, Go, roomState
    <3> QED BY <2>3, <3>1, <3>2 DEF Steps
  <2>c. ASSUME NEW c \in Conns, NEW p \in Players,
               seatOrder' = Append(seatOrder, p), done' = [done EXCEPT ![p] = "open"]
        PROVE  FALSE
    <3>1. ToSet(Append(seatOrder, p)) = ToSet(seatOrder) \cup {p}
      BY <1>2, OneMoreSeat DEF LobbyInv, LobbyTypes
    <3>2. p \in Joined' /\ done'[p] = "open"
      BY <2>1, <2>c, <3>1 DEF Joined
    <3> QED BY <2>4, <3>2
  <2>d. ASSUME NEW c \in Conns, Join(c) PROVE Going'
    BY <2>c, <2>d DEF Join, Players
  <2>e. ASSUME NEW c \in Conns, AddBot(c) PROVE Going'
    BY <2>c, <2>e DEF AddBot, Players
  <2>f. ASSUME NEW c \in Conns, AttachConn(c) PROVE Going'
    <3>1. step[c] \in Serving /\ done' = [done EXCEPT ![who[c]] = "open"] /\ Joined' = Joined
      BY <2>f DEF AttachConn, Go, Serving, Joined
    <3>2. who[c] \in Joined /\ who[c] \in Players
      BY <1>2, <3>1 DEF LobbyInv, ServesASeat, LobbyTypes, Joined, ToSet
    <3>3. who[c] \in Joined' /\ done'[who[c]] = "open"
      BY <2>1, <3>1, <3>2
    <3> QED BY <2>4, <3>3
  <2>g. ASSUME NEW c \in Conns, JoinRefused(c) PROVE Going'
    <3>1. /\ step' = [step EXCEPT ![c] = "gone"] /\ step[c] \in {"join", "joinVsAI"}
          /\ UNCHANGED <<rooms, seatOrder, players, done>>
      BY <2>g DEF JoinRefused, Go, roomState
    <3> QED BY <2>3, <3>1 DEF Steps
  <2>h. ASSUME NEW c \in Conns, Reconnect(c) PROVE Going'
    <3>1. PICK to \in {"reattach", "gone"} : step' = [step EXCEPT ![c] = to]
      BY <2>h DEF Reconnect, Go
    <3>2. step[c] = "reconnect" /\ UNCHANGED <<rooms, seatOrder, players, done>>
      BY <2>h DEF Reconnect, Go, roomState
    <3> QED BY <2>3, <3>1, <3>2 DEF Steps
  <2>i. ASSUME NEW c \in Conns, CheckFull(c) PROVE Going'
    <3>1. PICK to \in {"start", "serving"} : step' = [step EXCEPT ![c] = to]
      BY <2>i DEF CheckFull, Go
    <3>2. step[c] = "checkFull" /\ UNCHANGED <<rooms, seatOrder, players, done>>
      BY <2>i DEF CheckFull, Go, roomState
    <3> QED BY <2>3, <3>1, <3>2 DEF Steps
  <2>j. ASSUME NEW c \in Conns, StartGame(c) PROVE Going'
    <3>1. seatOrder' = <<>> /\ Joined' = {}
      BY <2>2, <2>j DEF StartGame, Started, Joined, ToSet
    <3> QED BY <2>2, <3>1 DEF Empty
  <2>k. ASSUME NEW c \in Conns, BroadcastGameStart(c) PROVE Going'
    <3>1. /\ step' = [step EXCEPT ![c] = "serving"] /\ step[c] = "broadcast"
          /\ UNCHANGED <<rooms, seatOrder, players, done>>
      BY <2>k DEF BroadcastGameStart, Go, roomState
    <3> QED BY <2>3, <3>1 DEF Steps
  <2>l. ASSUME NEW c \in Conns, OnEmpty(c) PROVE Going'
    BY <2>l DEF OnEmpty, Going
  <2>m. ASSUME NEW c \in Conns, Disconnect(c) PROVE Going'
    <3>1. /\ done' = [done EXCEPT ![who[c]] = "closed"] /\ Joined' = Joined
          /\ ~Started /\ \A p \in Joined : done'[p] = "closed"
      BY <2>2, <2>m DEF Disconnect, Joined, Started, Empty
    <3>2. step'[c] = "onEmpty"
      BY <2>1, <2>m, <3>1 DEF Disconnect, Go, allDisconnectedPreGame
    <3> QED BY <3>2 DEF Going
  <2>n. CASE UNCHANGED lobbyVars
    BY <1>2, <2>2, <2>n
       DEF lobbyVars, roomState, Going, RemovalIsUnderWay, Empty, Joined, Started
  <2> QED BY <1>2, <2>a, <2>b, <2>d, <2>e, <2>f, <2>g, <2>h, <2>i, <2>j, <2>k, <2>l, <2>m, <2>n
          DEF LobbyNext, Proceed, AllGone
<1> QED BY <1>1, <1>2, LobbyInvariance, PTL DEF LobbySpec
===============================================================================
