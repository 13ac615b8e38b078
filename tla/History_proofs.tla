---------------------------- MODULE History_proofs ----------------------------
(***************************************************************************)
(* About the recorded history, for any number of players, any pack and any *)
(* number of failures and repeated starts.                                 *)
(*                                                                         *)
(* First, that a stop of the process never costs a player the session      *)
(* before the end of the game is recorded.  The reason is the order of the *)
(* statements: the tokens are deleted after the row of the game was        *)
(* updated (EndFirst), and that row was inserted before any round was      *)
(* scored (StartFirst), or the update would have found none.               *)
(*                                                                         *)
(* Then, that the history is complete and is a ledger, as long as it is of *)
(* one game.  The invariant behind both, OneGame, keeps the accounts: what *)
(* the tables lack is still to be run (NothingMissing), in the order of    *)
(* the ledger (RowsInOrder, FinalsOnce, OpenUntilScored), and the rows,    *)
(* recorded, to come or failed, add up to the totals of the game           *)
(* (Accounts).  A statement that is run moves an entry from one side to    *)
(* the other; one that fails only drops it; a start of the game before the *)
(* first round finds the accounts at zero, and any later one voids them.   *)
(*                                                                         *)
(* A start may leave a choice pending that fails in the new game and costs *)
(* the mover a card, so that the game need not be Settled any more: these  *)
(* proofs rest on GameInv, which holds of any game.                        *)
(***************************************************************************)
EXTENDS History, TurnFlow_proofs, SequenceTheorems

IsList(s) == \E S : s \in Seq(S)

\* As long as the end of the game is not recorded, its statement comes before
\* any that deletes tokens.
EndFirst(s) ==
    \A n \in DOMAIN s :
        s[n].op = "tokens" => \E m \in DOMAIN s : m < n /\ s[m].op = "end"

\* As long as the game has no row, its insertion comes next.
StartFirst(s) == s # << >> /\ s[1].op = "game"

\* No statement has failed, and no round was scored before the announcement.
AllWell == lost = 0 /\ ~early

\* The inductive invariant.  It says nothing once things have gone wrong.
RecordInv ==
    /\ IsList(todo)
    /\ lost \in Nat
    /\ announced \in BOOLEAN /\ early \in BOOLEAN /\ rewound \in BOOLEAN
    /\ games \in {"none", "running", "finished"}
    /\ AllWell /\ games # "finished" => reconnect_tokens = Seats /\ EndFirst(todo)
    /\ AllWell /\ games = "none" /\ up =>
           StartFirst(todo) \/ (~announced /\ todo = << >>)
-------------------------------------------------------------------------------
\* Lists with statements of the kinds that neither end a game nor delete tokens.
Harmless(s) == IsList(s) /\ \A n \in DOMAIN s : s[n].op # "tokens"

\* The loops over players and over scores make one statement for each seat.
LEMMA SeatOrder ==
    ASSUME NEW f, f = [n \in 1 .. NumPlayers |-> f[n]]
    PROVE  IsList(f)
<1>1. f \in Seq({f[n] : n \in 1 .. NumPlayers})
  BY SizeAssumption
<1>2. QED
  BY <1>1 DEF IsList

\* One statement is a list.
LEMMA OneStatement ==
    ASSUME NEW e PROVE IsList(<<e>>) /\ DOMAIN <<e>> = {1} /\ <<e>>[1] = e
<1>1. <<e>> \in Seq({e})
  OBVIOUS
<1>2. Len(<<e>>) = 1 /\ <<e>>[1] = e
  OBVIOUS
<1>3. DOMAIN <<e>> = 1 .. Len(<<e>>)
  BY <1>1
<1>4. DOMAIN <<e>> = {1}
  BY <1>2, <1>3
<1>5. QED
  BY <1>1, <1>2, <1>4 DEF IsList

\* Statements that are run one after the other make one list.
LEMMA OneAfterTheOther ==
    ASSUME NEW s, NEW t, IsList(s), IsList(t)
    PROVE  /\ IsList(s \o t)
           /\ Len(s) \in Nat /\ DOMAIN s = 1 .. Len(s)
           /\ Len(t) \in Nat /\ DOMAIN t = 1 .. Len(t)
           /\ DOMAIN (s \o t) = 1 .. Len(s) + Len(t)
           /\ \A n \in 1 .. Len(s) : (s \o t)[n] = s[n]
           /\ \A n \in 1 .. Len(t) : (s \o t)[Len(s) + n] = t[n]
<1>1. PICK S : s \in Seq(S)
  BY DEF IsList
<1>2. PICK T : t \in Seq(T)
  BY DEF IsList
<1>3. s \in Seq(S \cup T) /\ t \in Seq(S \cup T)
  BY <1>1, <1>2
<1>4. s \o t \in Seq(S \cup T)
  BY <1>3
<1>5. QED
  BY <1>3, <1>4 DEF IsList

\* The statement that is run leaves the list.
LEMMA NextStatement ==
    ASSUME NEW s, IsList(s), s # << >>
    PROVE  /\ IsList(Tail(s))
           /\ Head(s) = s[1]
           /\ Len(s) \in Nat \ {0} /\ DOMAIN s = 1 .. Len(s)
           /\ DOMAIN Tail(s) = 1 .. Len(s) - 1
           /\ \A n \in 1 .. Len(s) - 1 : Tail(s)[n] = s[n + 1]
<1>1. PICK S : s \in Seq(S)
  BY DEF IsList
<1>2. QED
  BY <1>1 DEF IsList
\* A list of harmless statements with one of its kind in front.
LEMMA OneInFront ==
    ASSUME NEW e, e.op # "tokens", NEW f, Harmless(f)
    PROVE  /\ Harmless(<<e>> \o f)
           /\ <<e>> \o f # << >>
           /\ (<<e>> \o f)[1] = e
<1>1. IsList(<<e>>) /\ DOMAIN <<e>> = {1} /\ <<e>>[1] = e /\ Len(<<e>>) = 1
  BY OneStatement
<1>2. IsList(f)
  BY DEF Harmless
<1> DEFINE s == <<e>> \o f
<1>3. /\ IsList(s) /\ Len(f) \in Nat /\ DOMAIN f = 1 .. Len(f)
      /\ DOMAIN s = 1 .. 1 + Len(f)
      /\ \A n \in 1 .. 1 : s[n] = <<e>>[n]
      /\ \A n \in 1 .. Len(f) : s[1 + n] = f[n]
  BY <1>1, <1>2, OneAfterTheOther
<1>4. s[1] = e
  BY <1>1, <1>3
<1>5. ASSUME NEW n \in DOMAIN s, n # 1 PROVE s[n].op # "tokens"
  <2>1. n - 1 \in 1 .. Len(f) /\ n = 1 + (n - 1)
    BY <1>3, <1>5
  <2>2. s[n] = f[n - 1]
    BY <1>3, <2>1
  <2>3. QED
    BY <1>3, <2>1, <2>2 DEF Harmless
<1>6. s # << >>
  BY <1>3
<1>7. QED
  BY <1>3, <1>4, <1>5, <1>6 DEF Harmless
-------------------------------------------------------------------------------
\* RecordGameStart inserts the game first and deletes no token.
LEMMA StartIsFirst ==
    Harmless(RecordGameStart) /\ StartFirst(RecordGameStart)
<1> DEFINE e == [op |-> "game"]
           f == InSeatOrder(LAMBDA i : [op |-> "player", seat |-> i])
<1>1. IsList(f)
  BY SeatOrder DEF InSeatOrder
<1>2. Harmless(f)
  BY <1>1 DEF Harmless, InSeatOrder
<1>3. e.op = "game" /\ RecordGameStart = <<e>> \o f
  BY DEF RecordGameStart
<1> HIDE DEF e, f
<1>4. QED
  BY <1>2, <1>3, OneInFront DEF StartFirst

\* RecordRound deletes no token.
LEMMA RoundIsHarmless ==
    ASSUME NEW g, NEW scores PROVE Harmless(RecordRound(g, scores))
<1>1. /\ IsList(RecordRound(g, scores))
      /\ \A n \in 1 .. NumPlayers : RecordRound(g, scores)[n].op = "round"
  BY SeatOrder DEF RecordRound, InSeatOrder
<1>2. DOMAIN RecordRound(g, scores) = 1 .. NumPlayers
  BY DEF RecordRound, InSeatOrder
<1>3. QED
  BY <1>1, <1>2 DEF Harmless

\* RecordGameEnd records the end first and deletes no token.
LEMMA EndIsFirst ==
    ASSUME NEW g, NEW scores
    PROVE  /\ Harmless(RecordGameEnd(g, scores))
           /\ RecordGameEnd(g, scores) # << >>
           /\ RecordGameEnd(g, scores)[1].op = "end"
<1> DEFINE e == [op |-> "end"]
           f == InSeatOrder(LAMBDA i : [op    |-> "final", seat |-> i,
                                        score |-> Standing(g, scores, i)])
<1>1. IsList(f)
  BY SeatOrder DEF InSeatOrder
<1>2. Harmless(f)
  BY <1>1 DEF Harmless, InSeatOrder
<1>3. e.op = "end" /\ RecordGameEnd(g, scores) = <<e>> \o f
  BY DEF RecordGameEnd
<1> HIDE DEF e, f
<1>4. QED
  BY <1>2, <1>3, OneInFront
\* An order that is kept after harmless statements.
LEMMA EndFirstAfter ==
    ASSUME NEW s, Harmless(s), NEW t, IsList(t), EndFirst(t)
    PROVE  IsList(s \o t) /\ EndFirst(s \o t)
<1>1. /\ IsList(s \o t)
      /\ Len(s) \in Nat /\ DOMAIN s = 1 .. Len(s)
      /\ Len(t) \in Nat /\ DOMAIN t = 1 .. Len(t)
      /\ DOMAIN (s \o t) = 1 .. Len(s) + Len(t)
      /\ \A n \in 1 .. Len(s) : (s \o t)[n] = s[n]
      /\ \A n \in 1 .. Len(t) : (s \o t)[Len(s) + n] = t[n]
  BY OneAfterTheOther DEF Harmless
<1>2. SUFFICES ASSUME NEW n \in DOMAIN (s \o t), (s \o t)[n].op = "tokens"
               PROVE  \E m \in DOMAIN (s \o t) : m < n /\ (s \o t)[m].op = "end"
  BY <1>1 DEF EndFirst
<1>3. n \notin 1 .. Len(s)
  BY <1>1, <1>2 DEF Harmless
<1>4. n - Len(s) \in 1 .. Len(t) /\ n = Len(s) + (n - Len(s))
  BY <1>1, <1>2, <1>3
<1>5. t[n - Len(s)].op = "tokens"
  BY <1>1, <1>2, <1>4
<1>6. PICK m \in 1 .. Len(t) : m < n - Len(s) /\ t[m].op = "end"
  BY <1>1, <1>4, <1>5 DEF EndFirst
<1>7. /\ Len(s) + m \in DOMAIN (s \o t)
      /\ Len(s) + m < n
      /\ (s \o t)[Len(s) + m].op = "end"
  BY <1>1, <1>4, <1>6
<1>8. QED
  BY <1>7

\* The end of the game is recorded before the tokens are deleted.
LEMMA TokensGoLast ==
    ASSUME NEW g, NEW scores
    PROVE  /\ IsList(RecordGameEnd(g, scores) \o DeleteRoomTokens)
           /\ EndFirst(RecordGameEnd(g, scores) \o DeleteRoomTokens)
<1> DEFINE s == RecordGameEnd(g, scores)
           t == DeleteRoomTokens
<1>1. Harmless(s) /\ s # << >> /\ s[1].op = "end"
  BY EndIsFirst
<1>2. IsList(t) /\ Len(t) = 1
  BY OneStatement DEF DeleteRoomTokens
<1> HIDE DEF s, t
<1>3. /\ IsList(s \o t)
      /\ Len(s) \in Nat /\ DOMAIN s = 1 .. Len(s)
      /\ DOMAIN (s \o t) = 1 .. Len(s) + Len(t)
      /\ \A n \in 1 .. Len(s) : (s \o t)[n] = s[n]
  BY <1>1, <1>2, OneAfterTheOther DEF Harmless
<1>4. Len(s) \in Nat \ {0}
  BY <1>1, NextStatement DEF Harmless
<1>5. (s \o t)[1].op = "end" /\ 1 \in DOMAIN (s \o t)
  BY <1>1, <1>2, <1>3, <1>4
<1>6. ASSUME NEW n \in DOMAIN (s \o t), (s \o t)[n].op = "tokens"
      PROVE  1 < n
  BY <1>3, <1>5, <1>6, "tokens" # "end"
<1>7. EndFirst(s \o t)
  BY <1>5, <1>6 DEF EndFirst
<1>8. QED
  BY <1>3, <1>7 DEF s, t

\* The empty list.
LEMMA NothingToDo == Harmless(<< >>) /\ EndFirst(<< >>)
<1>1. << >> \in Seq({}) /\ DOMAIN << >> = {}
  OBVIOUS
<1>2. QED
  BY <1>1 DEF Harmless, IsList, EndFirst

\* What advanceTurnOrDeal records is in that order.
LEMMA RecordsInOrder ==
    ASSUME NEW played
    PROVE  IsList(Records(played)) /\ EndFirst(Records(played))
<1> DEFINE last   == ApplyLastHandRule(AdvanceTurn(played))
           scores == ComputeRoundScores(last)
           final  == IF SomeoneWins(last, scores)
                     THEN RecordGameEnd(last, scores) \o DeleteRoomTokens
                     ELSE << >>
<1>1. \/ Records(played) = << >>
      \/ Records(played) = RecordRound(last, scores) \o final
  BY DEF Records
<1>2. Harmless(RecordRound(last, scores))
  BY RoundIsHarmless
<1>3. IsList(final) /\ EndFirst(final)
  BY TokensGoLast, NothingToDo DEF Harmless
<1> HIDE DEF final
<1>4. IsList(RecordRound(last, scores) \o final) /\ EndFirst(RecordRound(last, scores) \o final)
  BY <1>2, <1>3, EndFirstAfter
<1>5. QED
  BY <1>1, <1>4, NothingToDo DEF Harmless
\* Running a statement that does not end the game keeps the order of the others,
\* and a deletion of tokens cannot be the next one.
LEMMA OrderIsKept ==
    ASSUME NEW s, IsList(s), s # << >>, EndFirst(s), s[1].op # "end"
    PROVE  s[1].op # "tokens" /\ EndFirst(Tail(s))
<1>1. /\ Len(s) \in Nat \ {0} /\ DOMAIN s = 1 .. Len(s)
      /\ DOMAIN Tail(s) = 1 .. Len(s) - 1
      /\ \A n \in 1 .. Len(s) - 1 : Tail(s)[n] = s[n + 1]
  BY NextStatement
<1>2. s[1].op # "tokens"
  BY <1>1 DEF EndFirst
<1>3. ASSUME NEW n \in DOMAIN Tail(s), Tail(s)[n].op = "tokens"
      PROVE  \E m \in DOMAIN Tail(s) : m < n /\ Tail(s)[m].op = "end"
  <2>1. n + 1 \in DOMAIN s /\ s[n + 1].op = "tokens"
    BY <1>1, <1>3
  <2>2. PICK m \in DOMAIN s : m < n + 1 /\ s[m].op = "end"
    BY <2>1 DEF EndFirst
  <2>3. m # 1
    BY <2>2
  <2>4. m - 1 \in DOMAIN Tail(s) /\ m - 1 < n /\ m = (m - 1) + 1
    BY <1>1, <1>3, <2>2, <2>3
  <2>5. Tail(s)[m - 1].op = "end"
    BY <1>1, <2>2, <2>4
  <2>6. QED
    BY <2>4, <2>5
<1>4. QED
  BY <1>2, <1>3 DEF EndFirst

\* A statement is run (Exec): an update of the game, or another one.
LEMMA ExecKeepsOrder == ASSUME RecordInv, Exec PROVE RecordInv'
<1> DEFINE s == Head(todo)
<1>1. /\ IsList(todo') /\ todo' = Tail(todo) /\ s = todo[1] /\ Execute(s)
      /\ lost' = lost /\ up' = up /\ up /\ todo # << >>
      /\ announced' = announced /\ early' = early /\ rewound' = rewound
      /\ (AllWell' <=> AllWell)
  BY NextStatement DEF RecordInv, Exec, AllWell, starts
<1> HIDE DEF s
<1>2. /\ games' \in {"none", "running", "finished"}
      /\ games # "none" => games' # "none"
      /\ games = "finished" => games' = "finished"
      /\ s.op = "game" => games' # "none"
      /\ s.op = "end" /\ games # "none" => games' = "finished"
      /\ s.op # "tokens" => reconnect_tokens' = reconnect_tokens
  BY <1>1 DEF Execute, RecordInv
<1>3. AllWell /\ games = "none" => s.op = "game"
  BY <1>1 DEF RecordInv, StartFirst
<1>4. ASSUME AllWell, games' # "finished"
      PROVE  reconnect_tokens' = Seats /\ EndFirst(todo')
  <2>1. s.op # "end"
    BY <1>2, <1>3, <1>4
  <2>2. EndFirst(todo) /\ reconnect_tokens = Seats
    BY <1>2, <1>4 DEF RecordInv
  <2>3. s.op # "tokens" /\ EndFirst(todo')
    BY <1>1, <2>1, <2>2, OrderIsKept DEF RecordInv
  <2>4. QED
    BY <1>2, <2>2, <2>3
<1>5. AllWell => games' # "none"
  BY <1>2, <1>3
<1>6. QED
  BY <1>1, <1>2, <1>4, <1>5 DEF RecordInv

\* A move, with what is recorded of it, starts from a list that is done.
LEMMA MoveKeepsOrder ==
    ASSUME RecordInv, Idle, SeeIfEarly, UNCHANGED <<tables, starts, lost, up>>,
           IsList(todo'), EndFirst(todo')
    PROVE  RecordInv'
<1>1. /\ AllWell' => AllWell /\ (announced \/ todo' = << >>)
      /\ announced' = announced /\ early' \in BOOLEAN /\ rewound' = rewound
      /\ games' = games /\ reconnect_tokens' = reconnect_tokens
      /\ lost' = lost /\ up' = up
  BY DEF AllWell, SeeIfEarly, starts, tables, RecordInv
<1>2. AllWell /\ games = "none" /\ up => ~announced
  BY DEF RecordInv, Idle, StartFirst
<1>3. QED
  BY <1>1, <1>2 DEF RecordInv

\* So does a step that runs no statement and plays no round.
LEMMA RestKeepsOrder ==
    ASSUME RecordInv, UNCHANGED <<tables, announced, todo, lost, up, early>>,
           rewound' \in BOOLEAN
    PROVE  RecordInv'
<1>1. /\ (AllWell' <=> AllWell) /\ announced' = announced /\ early' = early
      /\ todo' = todo /\ lost' = lost /\ up' = up
      /\ games' = games /\ reconnect_tokens' = reconnect_tokens
  BY DEF AllWell, tables
<1>2. QED
  BY <1>1 DEF RecordInv

\* Every step keeps the order of the statements.
LEMMA StepKeepsOrder == ASSUME RecordInv, [HistoryNext]_historyVars PROVE RecordInv'
<1>1. ASSUME NEW c \in Pack, PlayCard(c) PROVE RecordInv'
  <2>1. IsList(todo') /\ EndFirst(todo')
    BY <1>1, RecordsInOrder DEF PlayCard
  <2>2. QED
    BY <1>1, <2>1, MoveKeepsOrder DEF PlayCard
<1>2. ASSUME UNCHANGED <<tables, starts, todo, lost, up, early>> PROVE RecordInv'
  <2>1. UNCHANGED <<tables, announced, todo, lost, up, early>> /\ rewound' \in BOOLEAN
    BY <1>2 DEF starts, RecordInv
  <2>2. QED
    BY <2>1, RestKeepsOrder
<1>3. ASSUME NEW c \in Pack, PlayCardWithOptions(c) PROVE RecordInv'
  BY <1>2, <1>3 DEF PlayCardWithOptions
<1>4. ASSUME NEW option \in pendingCapture, ChooseOption(option) PROVE RecordInv'
  <2>1. IsList(todo') /\ EndFirst(todo')
    BY <1>4, RecordsInOrder DEF ChooseOption
  <2>2. QED
    BY <1>4, <2>1, MoveKeepsOrder DEF ChooseOption
<1>5. ASSUME NEW option \in pendingCapture, ChooseFailingOption(option) PROVE RecordInv'
  BY <1>2, <1>5 DEF ChooseFailingOption
<1>6. CASE StartGame
  <2>1. UNCHANGED <<tables, announced, todo, lost, up, early>> /\ rewound' \in BOOLEAN
    BY <1>6 DEF StartGame
  <2>2. QED
    BY <2>1, RestKeepsOrder
<1>7. CASE BroadcastGameStart
  <2>1. IsList(todo') /\ EndFirst(todo') /\ StartFirst(todo')
    BY <1>7, StartIsFirst DEF BroadcastGameStart, Harmless, EndFirst
  <2>2. /\ (AllWell' <=> AllWell) /\ announced' \in BOOLEAN
        /\ UNCHANGED <<tables, rewound, lost, up, early>>
    BY <1>7 DEF BroadcastGameStart, AllWell
  <2>3. QED
    BY <2>1, <2>2 DEF RecordInv, tables
<1>8. CASE Exec
  BY <1>8, ExecKeepsOrder
<1>9. CASE ExecFails
  <2>1. IsList(todo')
    BY <1>9, NextStatement, NothingToDo DEF ExecFails, RecordInv, Harmless
  <2>2. lost' \in Nat /\ ~AllWell' /\ UNCHANGED <<tables, announced, rewound, early>>
    BY <1>9 DEF ExecFails, RecordInv, AllWell, starts
  <2>3. QED
    BY <2>1, <2>2 DEF RecordInv, tables
<1>10. CASE Crash
  <2>1. IsList(todo') /\ EndFirst(todo')
    BY <1>10, NothingToDo DEF Crash, Harmless
  <2>2. /\ (AllWell' <=> AllWell) /\ ~up'
        /\ UNCHANGED <<tables, announced, rewound, lost, early>>
    BY <1>10 DEF Crash, AllWell, starts
  <2>3. QED
    BY <2>1, <2>2 DEF RecordInv, tables
<1>11. CASE UNCHANGED historyVars
  BY <1>2, <1>11 DEF historyVars
<1>12. QED
  BY <1>1, <1>3, <1>4, <1>5, <1>6, <1>7, <1>8, <1>9, <1>10, <1>11
  DEF HistoryNext, Stopped

\* Nothing is recorded and nothing is to be run.
LEMMA StartsInOrder == ASSUME HistoryInit PROVE RecordInv
<1>1. /\ todo = << >> /\ lost = 0 /\ games = "none" /\ reconnect_tokens = Seats
      /\ announced = FALSE /\ early = FALSE /\ rewound = FALSE
  BY DEF HistoryInit
<1>2. IsList(todo) /\ EndFirst(todo)
  BY <1>1, NothingToDo DEF Harmless
<1>3. QED
  BY <1>1, <1>2 DEF RecordInv

\* Wherever the process stops before the end of the game is recorded, each of its
\* players is told on coming back that the session has expired, not that there is
\* no such room (RecordGameEnd before DeleteRoomTokens in advanceTurnOrDeal), however
\* often the game is started; a failed statement, or a round that is scored before
\* the game is announced, may cost it.
THEOREM SessionsOutliveTheGame == HistorySpec => []LostSessionIsKnown
<1>1. HistoryInit => RecordInv
  BY StartsInOrder
<1>2. RecordInv /\ [HistoryNext]_historyVars => RecordInv'
  BY StepKeepsOrder
<1>3. RecordInv => LostSessionIsKnown
  BY DEF RecordInv, LostSessionIsKnown, AnswerAfterRestart, AllWell
<1>4. QED
  BY <1>1, <1>2, <1>3, PTL DEF HistorySpec
-------------------------------------------------------------------------------
\* A game, played in turn or not.
GameInv ==
    /\ Kept(state)
    /\ state.phase \in {"playing", "game_over"}
    /\ state.roundNumber # 0
    /\ state.phase = "game_over" => AllHandsEmpty(state)

\* The rows that the history should have for the rounds that have been scored.
Rows == (1 .. Scored) \X Seats

\* What everybody has won so far, the last round of a game included.
Totals == TotalsAfterRound(state)

\* A statement that is still to be run is one of this game.
IsOfTheGame(s) ==
    /\ s.op \in {"game", "player", "round", "end", "final", "tokens"}
    /\ s.op = "player" => s.seat \in Seats
    /\ s.op = "round" => s.row \in Rows
    /\ s.op \in {"end", "final"} => state.phase = "game_over"
    /\ s.op = "final" => s.seat \in Seats /\ s.score = Totals[s.seat]

TablesOfTheGame ==
    /\ game_players \in [DOMAIN game_players -> Nat]
    /\ DOMAIN game_players \subseteq Seats
    /\ \A i \in DOMAIN game_players : game_players[i] \in {0, Totals[i]}
    /\ game_rounds \in [DOMAIN game_rounds -> Nat]
    /\ DOMAIN game_rounds \subseteq Rows

\* The rounds to be recorded come after the recorded ones, one row after the other
\* and before the end of the game.
RowsInOrder ==
    \A n \in DOMAIN todo : todo[n].op = "round" =>
        /\ \A e \in DOMAIN game_rounds : Book!Precedes(e, todo[n].row)
        /\ \A m \in DOMAIN todo :
               /\ todo[m].op = "round" /\ m < n => Book!Precedes(todo[m].row, todo[n].row)
               /\ todo[m].op \in {"end", "final"} => n < m

\* A final score is to be set once, and is not set yet.
FinalsOnce ==
    \A n \in DOMAIN todo : todo[n].op = "final" =>
        /\ todo[n].seat \in DOMAIN game_players => game_players[todo[n].seat] = 0
        /\ \A m \in DOMAIN todo :
               todo[m].op = "final" /\ todo[m].seat = todo[n].seat => m = n

\* Nothing is closed as long as there are, or may still be, rounds to record.
OpenUntilScored ==
    state.phase = "playing" \/ (\E n \in DOMAIN todo : todo[n].op = "round") =>
        games # "finished" /\ \A i \in DOMAIN game_players : game_players[i] = 0

\* The rows of one seat.
Column(rows, i) == {e \in rows : e[2] = i}

\* paid is what each round has paid each seat: it is what the totals are made of,
\* and what is recorded or to be recorded.
Accounts(paid) ==
    /\ paid \in [Rows -> Nat]
    /\ \A i \in Seats : SumOver(paid, Column(Rows, i)) = Totals[i]
    /\ \A e \in DOMAIN game_rounds : game_rounds[e] = paid[e]
    /\ \A n \in DOMAIN todo : todo[n].op = "round" => todo[n].total = paid[todo[n].row]

\* As long as all is well, what is not in the tables is still to come.
PlayersComplete ==
    \A i \in Seats : \/ i \in DOMAIN game_players
                     \/ \E n \in DOMAIN todo : todo[n].op = "player" /\ todo[n].seat = i

RowsComplete ==
    \A e \in Rows : \/ e \in DOMAIN game_rounds
                    \/ \E n \in DOMAIN todo : todo[n].op = "round" /\ todo[n].row = e

FinalsComplete ==
    state.phase = "game_over" =>
        \A i \in Seats : /\ i \in DOMAIN game_players
                         /\ \/ game_players[i] = Totals[i]
                            \/ \E n \in DOMAIN todo : todo[n].op = "final" /\ todo[n].seat = i

NothingMissing ==
    AllWell =>
        /\ up => (announced => PlayersComplete) /\ RowsComplete /\ FinalsComplete
        /\ games = "finished" => /\ state.phase = "game_over"
                                 /\ DOMAIN game_players = Seats
                                 /\ DOMAIN game_rounds = Rows

\* What holds as long as everything recorded is of one game.
OneGame ==
    /\ GameInv
    /\ RecordInv
    /\ Scored \in 0 .. MaxRounds
    /\ \A n \in DOMAIN todo : IsOfTheGame(todo[n])
    /\ TablesOfTheGame
    /\ RowsInOrder
    /\ FinalsOnce
    /\ OpenUntilScored
    /\ NothingMissing
    /\ \E paid : Accounts(paid)

\* The inductive invariant.
HistoryInv ==
    /\ GameInv
    /\ RecordInv
    /\ Scored \in 0 .. MaxRounds
    /\ ~rewound => OneGame
-------------------------------------------------------------------------------
\* The statements that the loops make, by their places.
LEMMA SeatOrderPlaces ==
    ASSUME NEW f, f = [n \in 1 .. NumPlayers |-> f[n]]
    PROVE  IsList(f) /\ Len(f) = NumPlayers /\ DOMAIN f = 1 .. NumPlayers
<1>1. f \in Seq({f[n] : n \in 1 .. NumPlayers})
  BY SizeAssumption
<1>2. Len(f) = NumPlayers
  BY SizeAssumption
<1>3. QED
  BY <1>1, <1>2 DEF IsList

\* What RecordRound, RecordGameEnd and DeleteRoomTokens make together, by places;
\* last is the game after the round, scores are those of the round.
RoundPlaces(t, last, scores) ==
    \A n \in 1 .. NumPlayers :
        t[n] = [op    |-> "round", row |-> <<last.roundNumber, n - 1>>,
                total |-> Total(scores[n - 1])]

EndPlaces(t, last, scores) ==
    /\ t[NumPlayers + 1] = [op |-> "end"]
    /\ \A n \in 1 .. NumPlayers :
           t[NumPlayers + 1 + n] = [op    |-> "final", seat |-> n - 1,
                                    score |-> Standing(last, scores, n - 1)]
    /\ t[NumPlayers + 1 + NumPlayers + 1] = [op |-> "tokens"]

LEMMA RoundAlone ==
    ASSUME NEW last, NEW scores
    PROVE  LET t == RecordRound(last, scores)
           IN /\ IsList(t) /\ Len(t) = NumPlayers /\ DOMAIN t = 1 .. NumPlayers
              /\ RoundPlaces(t, last, scores)
<1> DEFINE t == RecordRound(last, scores)
<1>1. t = [n \in 1 .. NumPlayers |->
              [op    |-> "round", row |-> <<last.roundNumber, n - 1>>,
               total |-> Total(scores[n - 1])]]
  BY DEF RecordRound, InSeatOrder
<1> HIDE DEF t
<1>2. IsList(t) /\ Len(t) = NumPlayers /\ DOMAIN t = 1 .. NumPlayers
  BY <1>1, SeatOrderPlaces
<1>3. RoundPlaces(t, last, scores)
  BY <1>1 DEF RoundPlaces
<1>4. QED
  BY <1>2, <1>3 DEF t

LEMMA RoundAndEnd ==
    ASSUME NEW last, NEW scores
    PROVE  LET t == RecordRound(last, scores)
                        \o (RecordGameEnd(last, scores) \o DeleteRoomTokens)
           IN /\ IsList(t)
              /\ DOMAIN t = 1 .. NumPlayers + 1 + NumPlayers + 1
              /\ RoundPlaces(t, last, scores)
              /\ EndPlaces(t, last, scores)
<1> DEFINE r == RecordRound(last, scores)
           f == [n \in 1 .. NumPlayers |-> [op    |-> "final", seat |-> n - 1,
                                            score |-> Standing(last, scores, n - 1)]]
           e == <<[op |-> "end"]>>
           x == RecordGameEnd(last, scores)
           d == DeleteRoomTokens
           y == x \o d
           t == r \o y
<1>1. NumPlayers \in Nat \ {0}
  BY SizeAssumption
<1>2. /\ IsList(r) /\ Len(r) = NumPlayers
      /\ RoundPlaces(r, last, scores)
  BY RoundAlone
<1>3. IsList(f) /\ Len(f) = NumPlayers /\ DOMAIN f = 1 .. NumPlayers
  BY SeatOrderPlaces
<1>4. /\ IsList(e) /\ Len(e) = 1 /\ e[1] = [op |-> "end"]
      /\ IsList(d) /\ Len(d) = 1 /\ d[1] = [op |-> "tokens"]
  BY OneStatement DEF DeleteRoomTokens
<1>5. x = e \o f
  BY DEF RecordGameEnd, InSeatOrder
<1>6. \A n \in 1 .. NumPlayers :
         f[n] = [op |-> "final", seat |-> n - 1, score |-> Standing(last, scores, n - 1)]
  OBVIOUS
<1> HIDE DEF r, f, e, x, d, y, t
<1>7. /\ IsList(x) /\ DOMAIN x = 1 .. 1 + NumPlayers
      /\ x[1] = [op |-> "end"]
      /\ \A n \in 1 .. NumPlayers : x[1 + n] = f[n]
  <2>0. IsList(e) /\ IsList(f)
    BY <1>3, <1>4
  <2>1. Len(e) = 1 /\ 1 \in 1 .. 1
    BY <1>4
  <2>2. /\ IsList(x) /\ DOMAIN x = 1 .. Len(e) + Len(f)
        /\ \A n \in 1 .. Len(e) : x[n] = e[n]
        /\ \A n \in 1 .. Len(f) : x[Len(e) + n] = f[n]
    <3>1. /\ IsList(e \o f) /\ DOMAIN (e \o f) = 1 .. Len(e) + Len(f)
          /\ \A n \in 1 .. Len(e) : (e \o f)[n] = e[n]
          /\ \A n \in 1 .. Len(f) : (e \o f)[Len(e) + n] = f[n]
      BY <2>0, OneAfterTheOther
    <3>2. QED
      BY <1>5, <3>1
  <2>3. x[1] = e[1]
    BY <2>1, <2>2
  <2>4. QED
    BY <1>3, <1>4, <2>1, <2>2, <2>3
<1>8. Len(x) = 1 + NumPlayers
  BY <1>1, <1>7, OneAfterTheOther
<1>9. /\ IsList(y) /\ DOMAIN y = 1 .. 1 + NumPlayers + 1
      /\ \A n \in 1 .. 1 + NumPlayers : y[n] = x[n]
      /\ y[1 + NumPlayers + 1] = [op |-> "tokens"]
  <2>0. IsList(x) /\ IsList(d)
    BY <1>4, <1>7
  <2>1. /\ IsList(y) /\ DOMAIN y = 1 .. Len(x) + Len(d)
        /\ \A n \in 1 .. Len(x) : y[n] = x[n]
        /\ \A n \in 1 .. Len(d) : y[Len(x) + n] = d[n]
    BY <2>0, OneAfterTheOther DEF y
  <2>2. QED
    BY <1>1, <1>4, <1>8, <2>1
<1>10. Len(y) = 1 + NumPlayers + 1
  <2>1. Len(y) \in Nat /\ DOMAIN y = 1 .. Len(y)
    BY <1>9, OneAfterTheOther
  <2>2. QED
    BY <1>1, <1>9, <2>1
<1>11. /\ IsList(t) /\ DOMAIN t = 1 .. NumPlayers + (1 + NumPlayers + 1)
       /\ \A n \in 1 .. NumPlayers : t[n] = r[n]
       /\ \A n \in 1 .. 1 + NumPlayers + 1 : t[NumPlayers + n] = y[n]
  <2>1. /\ IsList(t) /\ DOMAIN t = 1 .. Len(r) + Len(y)
        /\ \A n \in 1 .. Len(r) : t[n] = r[n]
        /\ \A n \in 1 .. Len(y) : t[Len(r) + n] = y[n]
    BY <1>2, <1>9, OneAfterTheOther DEF t
  <2>2. QED
    BY <1>2, <1>10, <2>1
<1>12. RoundPlaces(t, last, scores)
  BY <1>2, <1>11 DEF RoundPlaces
<1>13. EndPlaces(t, last, scores)
  <2>1. t[NumPlayers + 1] = [op |-> "end"]
    BY <1>1, <1>7, <1>9, <1>11
  <2>2. ASSUME NEW n \in 1 .. NumPlayers
        PROVE  t[NumPlayers + 1 + n] = [op    |-> "final", seat |-> n - 1,
                                        score |-> Standing(last, scores, n - 1)]
    <3>1. 1 + n \in 1 .. 1 + NumPlayers + 1 /\ 1 + n \in 1 .. 1 + NumPlayers
          /\ NumPlayers + (1 + n) = NumPlayers + 1 + n
      BY <1>1
    <3>2. t[NumPlayers + (1 + n)] = y[1 + n]
      BY <1>11, <3>1
    <3>3. y[1 + n] = x[1 + n] /\ x[1 + n] = f[n]
      BY <1>7, <1>9, <3>1
    <3>4. QED
      BY <1>6, <3>1, <3>2, <3>3
  <2>3. t[NumPlayers + 1 + NumPlayers + 1] = [op |-> "tokens"]
    <3>1. 1 + NumPlayers + 1 \in 1 .. 1 + NumPlayers + 1
          /\ NumPlayers + (1 + NumPlayers + 1) = NumPlayers + 1 + NumPlayers + 1
      BY <1>1
    <3>2. QED
      BY <1>9, <1>11, <3>1
  <2>4. QED
    BY <2>1, <2>2, <2>3 DEF EndPlaces
<1>14. NumPlayers + (1 + NumPlayers + 1) = NumPlayers + 1 + NumPlayers + 1
  BY <1>1
<1>15. QED
  BY <1>11, <1>12, <1>13, <1>14 DEF t, y, x, r, d

\* The same by kinds of statements; over tells whether the game has ended.
NewRecords(t, last, scores, over) ==
    /\ IsList(t)
    /\ \A n \in DOMAIN t :
           /\ n \in Nat
           /\ t[n].op \in {"round", "end", "final", "tokens"}
           /\ t[n].op = "round" => /\ n - 1 \in Seats
                                   /\ t[n].row = <<last.roundNumber, n - 1>>
                                   /\ t[n].total = Total(scores[n - 1])
           /\ t[n].op \in {"end", "final"} => over /\ NumPlayers < n
           /\ t[n].op = "final" => /\ n - NumPlayers - 2 \in Seats
                                   /\ t[n].seat = n - NumPlayers - 2
                                   /\ t[n].score = Standing(last, scores, n - NumPlayers - 2)
    /\ \A i \in Seats :
           /\ \E n \in DOMAIN t : t[n].op = "round" /\ t[n].row = <<last.roundNumber, i>>
           /\ over => \E n \in DOMAIN t : t[n].op = "final" /\ t[n].seat = i

LEMMA RoundIsNew ==
    ASSUME NEW last, NEW scores
    PROVE  NewRecords(RecordRound(last, scores), last, scores, FALSE)
<1> DEFINE t == RecordRound(last, scores)
<1>1. /\ IsList(t) /\ DOMAIN t = 1 .. NumPlayers
      /\ RoundPlaces(t, last, scores)
  BY RoundAlone
<1> HIDE DEF t
<1>2. ASSUME NEW n \in DOMAIN t
      PROVE  /\ n \in Nat /\ n - 1 \in Seats
             /\ t[n].op = "round"
             /\ t[n].row = <<last.roundNumber, n - 1>>
             /\ t[n].total = Total(scores[n - 1])
  <2>1. n \in Nat /\ n - 1 \in Seats
    BY <1>1, SizeAssumption DEF Seats
  <2>2. t[n] = [op    |-> "round", row |-> <<last.roundNumber, n - 1>>,
                total |-> Total(scores[n - 1])]
    BY <1>1 DEF RoundPlaces
  <2>3. QED
    BY <2>1, <2>2
<1>3. ASSUME NEW i \in Seats
      PROVE  \E n \in DOMAIN t : t[n].op = "round" /\ t[n].row = <<last.roundNumber, i>>
  <2>1. i + 1 \in DOMAIN t /\ (i + 1) - 1 = i
    BY <1>1, SizeAssumption DEF Seats
  <2>2. t[i + 1].op = "round" /\ t[i + 1].row = <<last.roundNumber, (i + 1) - 1>>
    BY <1>2, <2>1
  <2>3. QED
    BY <2>1, <2>2
<1>4. QED
  BY <1>1, <1>2, <1>3 DEF NewRecords, t

LEMMA RoundAndEndAreNew ==
    ASSUME NEW last, NEW scores
    PROVE  NewRecords(RecordRound(last, scores)
                          \o (RecordGameEnd(last, scores) \o DeleteRoomTokens),
                      last, scores, TRUE)
<1> DEFINE t == RecordRound(last, scores)
                    \o (RecordGameEnd(last, scores) \o DeleteRoomTokens)
           k == NumPlayers
<1>1. /\ IsList(t) /\ DOMAIN t = 1 .. k + 1 + k + 1
      /\ RoundPlaces(t, last, scores) /\ EndPlaces(t, last, scores)
  BY RoundAndEnd
<1>2. k \in Nat \ {0}
  BY SizeAssumption
<1> HIDE DEF t
<1>3. ASSUME NEW n \in 1 .. k
      PROVE  /\ n \in DOMAIN t /\ n \in Nat /\ n - 1 \in Seats
             /\ t[n] = [op    |-> "round", row |-> <<last.roundNumber, n - 1>>,
                        total |-> Total(scores[n - 1])]
  BY <1>1, <1>2 DEF RoundPlaces, Seats
<1>4. ASSUME NEW i \in Seats
      PROVE  /\ i + 1 \in 1 .. k /\ (i + 1) - 1 = i
             /\ k + 1 + (i + 1) \in DOMAIN t
             /\ t[k + 1 + (i + 1)] = [op    |-> "final", seat |-> i,
                                      score |-> Standing(last, scores, i)]
  <2>1. i + 1 \in 1 .. k /\ (i + 1) - 1 = i /\ k + 1 + (i + 1) \in 1 .. k + 1 + k + 1
    BY <1>2 DEF Seats
  <2>2. t[k + 1 + (i + 1)] = [op    |-> "final", seat |-> (i + 1) - 1,
                              score |-> Standing(last, scores, (i + 1) - 1)]
    BY <1>1, <2>1 DEF EndPlaces
  <2>3. QED
    BY <1>1, <2>1, <2>2
<1>5. ASSUME NEW n \in DOMAIN t
      PROVE  /\ n \in Nat
             /\ t[n].op \in {"round", "end", "final", "tokens"}
             /\ t[n].op = "round" => /\ n - 1 \in Seats
                                     /\ t[n].row = <<last.roundNumber, n - 1>>
                                     /\ t[n].total = Total(scores[n - 1])
             /\ t[n].op \in {"end", "final"} => k < n
             /\ t[n].op = "final" => /\ n - k - 2 \in Seats
                                     /\ t[n].seat = n - k - 2
                                     /\ t[n].score = Standing(last, scores, n - k - 2)
  <2>1. n \in 1 .. k + 1 + k + 1 /\ n \in Nat
    BY <1>1, <1>2
  <2>2. CASE n \in 1 .. k
    <3>1. /\ n - 1 \in Seats
          /\ t[n] = [op    |-> "round", row |-> <<last.roundNumber, n - 1>>,
                     total |-> Total(scores[n - 1])]
      BY <1>3, <2>2
    <3>2. QED
      BY <2>1, <3>1
  <2>3. CASE n = k + 1
    <3>1. t[n] = [op |-> "end"] /\ k < n
      BY <1>1, <1>2, <2>3 DEF EndPlaces
    <3>2. QED
      BY <2>1, <3>1
  <2>4. CASE n = k + 1 + k + 1
    <3>1. t[n] = [op |-> "tokens"]
      BY <1>1, <2>4 DEF EndPlaces
    <3>2. QED
      BY <2>1, <3>1
  <2>5. CASE n \notin 1 .. k /\ n # k + 1 /\ n # k + 1 + k + 1
    <3>1. n - k - 2 \in Seats /\ k + 1 + ((n - k - 2) + 1) = n /\ k < n
      BY <1>2, <2>1, <2>5 DEF Seats
    <3>2. t[n] = [op |-> "final", seat |-> n - k - 2,
                  score |-> Standing(last, scores, n - k - 2)]
      BY <1>4, <3>1
    <3>3. QED
      BY <2>1, <3>1, <3>2
  <2>6. QED
    BY <2>2, <2>3, <2>4, <2>5
<1>6. ASSUME NEW i \in Seats
      PROVE  /\ \E n \in DOMAIN t : t[n].op = "round" /\ t[n].row = <<last.roundNumber, i>>
             /\ \E n \in DOMAIN t : t[n].op = "final" /\ t[n].seat = i
  <2>1. t[i + 1] = [op    |-> "round", row |-> <<last.roundNumber, i>>,
                    total |-> Total(scores[i])] /\ i + 1 \in DOMAIN t
    BY <1>3, <1>4
  <2>2. /\ k + 1 + (i + 1) \in DOMAIN t
        /\ t[k + 1 + (i + 1)] = [op    |-> "final", seat |-> i,
                                 score |-> Standing(last, scores, i)]
    BY <1>4
  <2>3. QED
    BY <2>1, <2>2
<1>7. QED
  BY <1>1, <1>5, <1>6 DEF NewRecords, t

\* What comes of a game g, in which a card has been played, when the turn has
\* passed: h, with what is recorded of it.  Either nothing is scored, or a round.
NothingScored(g, h) ==
    /\ Records(g) = << >>
    /\ h.phase = "playing"
    /\ h.roundNumber = g.roundNumber
    /\ h.totalScore = g.totalScore

RoundScored(g, h, last, scores) ==
    /\ last.roundNumber = g.roundNumber
    /\ \A i \in Seats :
           /\ Total(scores[i]) \in Nat
           /\ Standing(last, scores, i) = g.totalScore[i] + Total(scores[i])
    /\ TotalsAfterRound(h) = [i \in Seats |-> Standing(last, scores, i)]
    /\ \/ /\ h.phase = "playing"
          /\ h.roundNumber = g.roundNumber + 1
          /\ NewRecords(Records(g), last, scores, FALSE)
       \/ /\ h.phase = "game_over" /\ AllHandsEmpty(h)
          /\ h.roundNumber = g.roundNumber
          /\ NewRecords(Records(g), last, scores, TRUE)

LEMMA EndOfTurn ==
    ASSUME NEW g \in GameType, g.phase = "playing", NEW h \in AdvanceTurnOrDeal(g)
    PROVE  NothingScored(g, h) \/ \E last, scores : RoundScored(g, h, last, scores)
<1> DEFINE next == AdvanceTurn(g)
           last == ApplyLastHandRule(next)
           scores == ComputeRoundScores(last)
           fresh == ApplyRoundScores(last, scores)
<1>1. g \in GameType
  OBVIOUS
<1>2. /\ next \in GameType /\ next.phase = "playing"
      /\ next.totalScore = g.totalScore /\ next.roundNumber = g.roundNumber
  BY <1>1, PassingTheTurn
<1>3. CASE ~AllHandsEmpty(next)
  <2>1. h = next /\ Records(g) = << >>
    BY <1>3 DEF AdvanceTurnOrDeal, Records
  <2>2. QED
    BY <1>2, <2>1 DEF NothingScored
<1>4. CASE AllHandsEmpty(next) /\ ~DeckEmpty(next)
  <2>1. h \in DealNextHand(next) /\ Records(g) = << >>
    BY <1>4 DEF AdvanceTurnOrDeal, Records
  <2> HIDE DEF next
  <2>2. h.totalScore = next.totalScore /\ h.roundNumber = next.roundNumber /\ h.phase = "playing"
    BY <1>2, <2>1, Dealing
  <2>3. QED
    BY <1>2, <2>1, <2>2 DEF NothingScored
<1>5. CASE AllHandsEmpty(next) /\ DeckEmpty(next)
  <2>1. h \in EndRound(next)
    BY <1>5 DEF AdvanceTurnOrDeal
  <2>2. /\ last \in GameType /\ last.phase = "playing"
        /\ last.totalScore = g.totalScore /\ last.roundNumber = g.roundNumber
        /\ last.hand = next.hand
    <3> HIDE DEF next
    <3>1. QED
      BY <1>2, AwardingTheLastCards
  <2>3. ASSUME NEW i \in Seats
        PROVE  /\ Total(scores[i]) \in Nat
               /\ Standing(last, scores, i) = g.totalScore[i] + Total(scores[i])
    BY <2>2, ScoresNat DEF Standing
  <2>4. CASE SomeoneWins(last, scores)
    <3>1. h = [last EXCEPT !.phase = "game_over"]
      BY <2>1, <2>4 DEF EndRound
    <3>2. Records(g) = RecordRound(last, scores)
                           \o (RecordGameEnd(last, scores) \o DeleteRoomTokens)
      BY <1>5, <2>4 DEF Records
    <3>3. NewRecords(Records(g), last, scores, TRUE)
      BY <3>2, RoundAndEndAreNew
    <3> HIDE DEF last, next
    <3>4. /\ h.phase = "game_over" /\ h.roundNumber = last.roundNumber
          /\ h.totalScore = last.totalScore /\ h.captured = last.captured
          /\ h.tablas = last.tablas
      BY <2>2, <3>1 DEF GameType
    <3>5. ComputeRoundScores(h) = scores
      BY <3>4 DEF ComputeRoundScores
    <3>6. TotalsAfterRound(h) = [i \in Seats |-> Standing(last, scores, i)]
      BY <3>4, <3>5 DEF TotalsAfterRound, Standing
    <3> HIDE DEF scores
    <3>7. AllHandsEmpty(h)
      <4>1. h.hand = last.hand
        BY <2>2, <3>1 DEF GameType
      <4>2. QED
        BY <1>5, <2>2, <4>1 DEF AllHandsEmpty
    <3>8. RoundScored(g, h, last, scores)
      BY <2>2, <2>3, <3>3, <3>4, <3>6, <3>7 DEF RoundScored
    <3>9. QED
      BY <3>8
  <2>5. CASE ~SomeoneWins(last, scores)
    <3>1. h \in DealNextHand(fresh)
      BY <2>1, <2>5 DEF EndRound
    <3>2. Records(g) = RecordRound(last, scores) \o << >>
      BY <1>5, <2>5 DEF Records
    <3>3. Records(g) = RecordRound(last, scores)
      <4>1. PICK S : RecordRound(last, scores) \in Seq(S)
        BY RoundAlone DEF IsList
      <4>2. QED
        BY <3>2, <4>1
    <3>4. NewRecords(Records(g), last, scores, FALSE)
      BY <3>3, RoundIsNew
    <3>5. /\ fresh \in GameType /\ fresh.phase = "playing"
          /\ fresh.totalScore = [i \in Seats |-> Standing(last, scores, i)]
          /\ fresh.roundNumber = last.roundNumber + 1
      <4> HIDE DEF last
      <4>1. QED
        BY <2>2, AddingUp
    <3> HIDE DEF fresh, last, next, scores
    <3>6. /\ h.totalScore = fresh.totalScore /\ h.roundNumber = fresh.roundNumber
          /\ h.phase = "playing"
      BY <3>1, <3>5, Dealing
    <3>7. TotalsAfterRound(h) = [i \in Seats |-> Standing(last, scores, i)]
      BY <3>5, <3>6 DEF TotalsAfterRound
    <3>8. RoundScored(g, h, last, scores)
      BY <2>2, <2>3, <3>4, <3>5, <3>6, <3>7 DEF RoundScored
    <3>9. QED
      BY <3>8
  <2>6. QED
    BY <2>4, <2>5
<1>6. QED
  BY <1>3, <1>4, <1>5
-------------------------------------------------------------------------------
\* The rows of a number of rounds.
LEMMA RowsFinite ==
    ASSUME NEW r \in Nat, NEW T \in SUBSET ((1 .. r) \X Seats)
    PROVE  IsFiniteSet(T)
<1>1. 1 \in Int /\ r \in Int
  OBVIOUS
<1>2. IsFiniteSet(1 .. r)
  BY ONLY <1>1, FS_Interval
<1>3. IsFiniteSet((1 .. r) \X Seats)
  BY <1>2, SeatsFinite, FS_Product
<1>4. QED
  BY <1>3, FS_Subset

\* One round more adds what it has paid.
PaysOneRoundMore(more, paid, r) ==
    /\ r \in Nat /\ r # 0
    /\ \A e \in (1 .. r) \X Seats : more[e] \in Nat
    /\ \A e \in (1 .. r - 1) \X Seats : more[e] = paid[e]

LEMMA OneRoundMore ==
    ASSUME NEW r, NEW paid, NEW more, PaysOneRoundMore(more, paid, r), NEW i \in Seats
    PROVE  SumOver(more, Column((1 .. r) \X Seats, i))
               = SumOver(paid, Column((1 .. r - 1) \X Seats, i)) + more[<<r, i>>]
<1> DEFINE new == {e \in (1 .. r) \X Seats : e[2] = i}
           old == {e \in (1 .. r - 1) \X Seats : e[2] = i}
           y == <<r, i>>
<1>0. /\ r \in Nat /\ r # 0
      /\ \A e \in (1 .. r) \X Seats : more[e] \in Nat
      /\ \A e \in (1 .. r - 1) \X Seats : more[e] = paid[e]
  BY DEF PaysOneRoundMore
<1>1. new = old \cup {y} /\ y \notin old /\ old \subseteq new /\ y \in new
      /\ new \in SUBSET ((1 .. r) \X Seats)
  <2>1. ASSUME NEW e PROVE e \in new <=> e \in old \cup {y}
    <3>1. ASSUME NEW n, NEW j, e = <<n, j>> PROVE e \in new <=> e \in old \cup {y}
      <4>1. n \in 1 .. r <=> n \in 1 .. r - 1 \/ n = r
        BY <1>0
      <4>2. QED
        BY <3>1, <4>1
    <3>2. e \in new => \E n, j : e = <<n, j>>
      OBVIOUS
    <3>3. e \in old \cup {y} => \E n, j : e = <<n, j>>
      OBVIOUS
    <3>4. QED
      BY <3>1, <3>2, <3>3
  <2>2. y \notin old
    BY <1>0
  <2>3. new = old \cup {y}
    BY <2>1
  <2>4. new \in SUBSET ((1 .. r) \X Seats)
    OBVIOUS
  <2> HIDE DEF new, old, y
  <2>5. QED
    BY <2>2, <2>3, <2>4
<1>2. \A e \in new : more[e] \in Nat
  BY <1>0
<1>3. \A e \in old : more[e] = paid[e]
  BY <1>0
<1> HIDE DEF new, old
<1>4. IsFiniteSet(new) /\ IsFiniteSet(old)
  <2>1. IsFiniteSet(new)
    BY <1>0, <1>1, RowsFinite
  <2>2. QED
    BY <1>1, <2>1, FS_Subset
<1>5. \A e \in old \cup {y} : more[e] \in Int
  BY <1>1, <1>2
<1>6. SumOver(more, new) = more[y] + SumOver(more, old)
  BY <1>1, <1>4, <1>5, SumWith
<1>7. SumOver(more, old) = SumOver(paid, old)
  BY <1>3, <1>4, SumOfSame
<1>8. SumOver(more, old) \in Int /\ more[y] \in Int
  BY <1>1, <1>4, <1>5, SumIsInt
<1>9. SumOver(more, new) = SumOver(paid, old) + more[y]
  BY <1>6, <1>7, <1>8
<1>10. QED
  BY <1>9 DEF new, old, Column

\* A move, with what is recorded of it.
MovesOn(g) ==
    /\ Kept(g)
    /\ g.phase = "playing"
    /\ state' \in AdvanceTurnOrDeal(g)
    /\ g.totalScore = state.totalScore
    /\ g.roundNumber = state.roundNumber
    /\ todo' = Records(g)

LEMMA DiscardMovesOn ==
    ASSUME GameInv, NEW c, Discard(c) \/ Skip(c),
           todo' = Records(ApplyDiscard(state, CurrentPlayer, c))
    PROVE  MovesOn(ApplyDiscard(state, CurrentPlayer, c)) /\ state.phase = "playing"
<1>1. c \in state.hand[CurrentPlayer]
      /\ state' \in AdvanceTurnOrDeal(ApplyDiscard(state, CurrentPlayer, c))
  BY DEF Discard, Skip
<1>2. Kept(state) /\ state \in GameType /\ CurrentPlayer \in Seats
  BY DEF GameInv, Kept, GameType, CurrentPlayer
<1>3. state.phase = "playing"
  BY <1>1, <1>2 DEF GameInv, AllHandsEmpty
<1>4. Kept(ApplyDiscard(state, CurrentPlayer, c))
  BY <1>1, <1>2, DiscardKeeps
<1>5. /\ ApplyDiscard(state, CurrentPlayer, c).totalScore = state.totalScore
      /\ ApplyDiscard(state, CurrentPlayer, c).roundNumber = state.roundNumber
      /\ ApplyDiscard(state, CurrentPlayer, c).phase = state.phase
  BY <1>2 DEF ApplyDiscard, GameType
<1>6. QED
  BY <1>1, <1>3, <1>4, <1>5 DEF MovesOn

\* Any capture, whether it fits or fails, leaves the scores alone.
LEMMA CapturesScoreLater ==
    ASSUME NEW g \in GameType, NEW i \in Seats, NEW c, NEW option
    PROVE  /\ ApplyCapture(g, i, c, option).totalScore = g.totalScore
           /\ ApplyCapture(g, i, c, option).roundNumber = g.roundNumber
           /\ ApplyCapture(g, i, c, option).phase = g.phase
  BY DEF ApplyCapture, GameType

LEMMA CaptureMovesOn ==
    ASSUME GameInv, NEW c, NEW option, CaptureFits(state, CurrentPlayer, c, option),
           state' \in AdvanceTurnOrDeal(ApplyCapture(state, CurrentPlayer, c, option)),
           todo' = Records(ApplyCapture(state, CurrentPlayer, c, option))
    PROVE  MovesOn(ApplyCapture(state, CurrentPlayer, c, option)) /\ state.phase = "playing"
<1>1. c \in state.hand[CurrentPlayer]
  BY DEF CaptureFits
<1>2. Kept(state) /\ state \in GameType /\ CurrentPlayer \in Seats
  BY DEF GameInv, Kept, GameType, CurrentPlayer
<1>3. state.phase = "playing"
  BY <1>1, <1>2 DEF GameInv, AllHandsEmpty
<1>4. Kept(ApplyCapture(state, CurrentPlayer, c, option))
  BY <1>2, CaptureKeeps
<1>5. /\ ApplyCapture(state, CurrentPlayer, c, option).totalScore = state.totalScore
      /\ ApplyCapture(state, CurrentPlayer, c, option).roundNumber = state.roundNumber
      /\ ApplyCapture(state, CurrentPlayer, c, option).phase = state.phase
  BY <1>2, CapturesScoreLater
<1>6. QED
  BY <1>3, <1>4, <1>5 DEF MovesOn

\* The actions of History in which a turn passes.
LEMMA PlayMovesOn ==
    ASSUME GameInv, NEW c \in Pack, PlayCard(c)
    PROVE  (\E g : MovesOn(g)) /\ state.phase = "playing" /\ WithinBound
<1>1. CASE /\ Discard(c) \/ Skip(c)
           /\ todo' = Records(ApplyDiscard(state, CurrentPlayer, c))
  <2>1. WithinBound
    BY <1>1 DEF Discard, Skip
  <2>2. QED
    BY <1>1, <2>1, DiscardMovesOn
<1>2. CASE \E option \in ComputeCaptures(c, state.tableCards) :
               /\ AutoCapture(c) \/ CaptureAtOnce(c, option)
               /\ todo' = Records(ApplyCapture(state, CurrentPlayer, c, option))
  <2>1. PICK option \in ComputeCaptures(c, state.tableCards) :
               /\ AutoCapture(c) \/ CaptureAtOnce(c, option)
               /\ todo' = Records(ApplyCapture(state, CurrentPlayer, c, option))
    BY <1>2
  <2>2. /\ c \in state.hand[CurrentPlayer]
        /\ state' \in AdvanceTurnOrDeal(ApplyCapture(state, CurrentPlayer, c, option))
        /\ WithinBound
    BY <2>1 DEF AutoCapture, CaptureAtOnce
  <2>3. CaptureFits(state, CurrentPlayer, c, option)
    BY <2>1, <2>2, OptionsOnTable DEF CaptureFits
  <2>4. QED
    BY <2>1, <2>2, <2>3, CaptureMovesOn
<1>3. QED
  BY <1>1, <1>2 DEF PlayCard

LEMMA ChoiceMovesOn ==
    ASSUME GameInv, NEW option \in pendingCapture, ChooseOption(option)
    PROVE  (\E g : MovesOn(g)) /\ state.phase = "playing" /\ WithinBound
<1>1. /\ CaptureFits(state, CurrentPlayer, pendingCardID, option)
      /\ state' \in AdvanceTurnOrDeal(
                        ApplyCapture(state, CurrentPlayer, pendingCardID, option))
      /\ todo' = Records(ApplyCapture(state, CurrentPlayer, pendingCardID, option))
      /\ WithinBound
  BY DEF ChooseOption, ChooseCapture
<1>2. QED
  BY <1>1, CaptureMovesOn

\* The game of a move stays one.
LEMMA MoveKeepsTheGame ==
    ASSUME GameInv, NEW g, MovesOn(g) PROVE GameInv'
<1>1. PICK h : h = state'
  OBVIOUS
<1>2. /\ Kept(g) /\ g \in GameType /\ g.phase = "playing" /\ h \in AdvanceTurnOrDeal(g)
      /\ g.roundNumber \in Nat \ {0}
  BY <1>1 DEF MovesOn, Kept, GameType, GameInv
<1>3. Kept(h)
  BY <1>2, AdvanceKeeps
<1>4. NothingScored(g, h) \/ \E last, scores : RoundScored(g, h, last, scores)
  BY <1>2, EndOfTurn
<1>5. /\ h.phase \in {"playing", "game_over"} /\ h.roundNumber # 0
      /\ h.phase = "game_over" => AllHandsEmpty(h)
  <2>1. CASE NothingScored(g, h)
    BY <1>2, <2>1 DEF NothingScored
  <2>2. CASE \E last, scores : RoundScored(g, h, last, scores)
    <3>1. \/ h.phase = "playing" /\ h.roundNumber = g.roundNumber + 1
          \/ h.phase = "game_over" /\ AllHandsEmpty(h) /\ h.roundNumber = g.roundNumber
      BY <2>2, Zenon DEF RoundScored
    <3>2. g.roundNumber + 1 # 0
      BY <1>2
    <3>3. QED
      BY <1>2, <3>1, <3>2
  <2>3. QED
    BY <1>4, <2>1, <2>2
<1>6. QED
  BY <1>1, <1>3, <1>5 DEF GameInv

\* A choice that fails costs the mover a card and changes nothing else.
LEMMA FailedChoice ==
    ASSUME GameInv, NEW option, ChooseFailingOption(option)
    PROVE  /\ GameInv' /\ Scored' = Scored /\ Rows' = Rows /\ Totals' = Totals
           /\ state'.phase = state.phase
<1> DEFINE i == CurrentPlayer
           c == pendingCardID
<1>1. Kept(state) /\ state \in GameType /\ i \in Seats
  BY DEF GameInv, Kept, GameType, CurrentPlayer
<1>2. /\ state' = ApplyCapture(state, i, c, option)
      /\ ~CaptureFits(state, i, c, option)
  BY DEF ChooseFailingOption, CaptureFails
<1> HIDE DEF i, c
<1>3. Kept(state')
  BY <1>1, <1>2, CaptureKeeps
<1>4. state' = [state EXCEPT !.hand[i] = @ \ {c}]
  BY <1>2 DEF ApplyCapture
<1>5. /\ state'.phase = state.phase /\ state'.roundNumber = state.roundNumber
      /\ state'.totalScore = state.totalScore /\ state'.captured = state.captured
      /\ state'.tablas = state.tablas
      /\ \A j \in Seats : state'.hand[j] \subseteq state.hand[j]
  BY <1>1, <1>4 DEF GameType
<1>6. GameInv'
  BY <1>3, <1>5 DEF GameInv, AllHandsEmpty
<1>7. Scored' = Scored /\ Rows' = Rows
  BY <1>5 DEF Scored, Rows
<1>8. Totals' = Totals
  BY <1>5 DEF Totals, TotalsAfterRound, Standing, ComputeRoundScores
<1>9. QED
  BY <1>5, <1>6, <1>7, <1>8

\* A game that has just been dealt.
LEMMA DealtGame ==
    ASSUME NEW g \in DealNextHand(NewGame)
    PROVE  /\ Kept(g) /\ g.phase = "playing" /\ g.roundNumber = 1
           /\ \A i \in Seats : g.totalScore[i] = 0
<1>1. Settled(g) /\ g.phase = "playing" /\ NewGame \in GameType
  BY NewGameSettles
<1>2. g.roundNumber = NewGame.roundNumber /\ g.totalScore = NewGame.totalScore
  BY <1>1, Dealing
<1>3. QED
  BY <1>1, <1>2 DEF Settled, Sound, Kept, NewGame

\* Nothing has been scored in it.
LEMMA DealtGameIsNew ==
    ASSUME state' \in DealNextHand(NewGame)
    PROVE  /\ GameInv' /\ state'.phase = "playing" /\ Scored' = 0 /\ Rows' = {}
           /\ \A i \in Seats : Totals'[i] = 0
<1>1. PICK g : g = state'
  OBVIOUS
<1>2. /\ Kept(g) /\ g.phase = "playing" /\ g.roundNumber = 1
      /\ \A i \in Seats : g.totalScore[i] = 0
  BY <1>1, DealtGame
<1>3. GameInv'
  BY <1>1, <1>2 DEF GameInv
<1>4. Scored' = 0
  BY <1>1, <1>2 DEF Scored
<1>5. Rows' = {}
  BY <1>4 DEF Rows
<1>6. \A i \in Seats : Totals'[i] = 0
  BY <1>1, <1>2 DEF Totals, TotalsAfterRound
<1>7. QED
  BY <1>1, <1>2, <1>3, <1>4, <1>5, <1>6

\* In a game that is played the totals are those of the game.
LEMMA PlayedTotals ==
    ASSUME OneGame, state.phase = "playing"
    PROVE  /\ state.roundNumber \in Nat \ {0}
           /\ Scored = state.roundNumber - 1
           /\ Totals = state.totalScore
           /\ \A i \in Seats : state.totalScore[i] \in Nat
<1>1. Scored = state.roundNumber - 1 /\ Totals = state.totalScore
  BY DEF Scored, Totals, TotalsAfterRound
<1>2. state.roundNumber \in Nat /\ \A i \in Seats : state.totalScore[i] \in Nat
  BY DEF OneGame, GameInv, Kept, GameType
<1>3. state.roundNumber # 0
  BY DEF OneGame, GameInv
<1>4. QED
  BY <1>1, <1>2, <1>3

\* A turn that ends without a score leaves nothing to record.
LEMMA UnscoredMove ==
    ASSUME OneGame, Idle, SeeIfEarly, state.phase = "playing", GameInv', RecordInv',
           UNCHANGED <<tables, starts, lost, up>>, todo' = << >>,
           state'.phase = "playing", state'.roundNumber = state.roundNumber,
           state'.totalScore = state.totalScore
    PROVE  OneGame'
<1>1. Scored' = Scored /\ Rows' = Rows /\ Totals' = Totals
  BY DEF Scored, Rows, Totals, TotalsAfterRound
<1>2. todo' = todo /\ DOMAIN todo = {}
  BY NothingToDo DEF Idle
<1>3. /\ games' = games /\ game_players' = game_players /\ game_rounds' = game_rounds
      /\ up' = up /\ announced' = announced /\ (AllWell' <=> AllWell)
  BY DEF tables, starts, AllWell, SeeIfEarly, OneGame, RecordInv
<1>4. \E paid : Accounts(paid)'
  <2>1. PICK paid : Accounts(paid)
    BY DEF OneGame
  <2>2. Accounts(paid)'
    BY <1>1, <1>2, <1>3, <2>1 DEF Accounts
  <2>3. QED
    BY <2>2
<1>5. TablesOfTheGame' /\ RowsInOrder' /\ FinalsOnce' /\ OpenUntilScored'
  BY <1>1, <1>2, <1>3
  DEF OneGame, TablesOfTheGame, RowsInOrder, FinalsOnce, OpenUntilScored
<1>6. NothingMissing'
  BY <1>1, <1>2, <1>3
  DEF OneGame, NothingMissing, PlayersComplete, RowsComplete, FinalsComplete
<1>7. (\A n \in DOMAIN todo : IsOfTheGame(todo[n]))'
  BY <1>2
<1>8. Scored' \in 0 .. MaxRounds
  BY <1>1 DEF OneGame
<1>9. QED
  BY <1>4, <1>5, <1>6, <1>7, <1>8 DEF OneGame

\* A turn that ends a round adds one row for each seat to what is to be recorded.
LEMMA ScoredMove ==
    ASSUME OneGame, Idle, SeeIfEarly, state.phase = "playing", GameInv', RecordInv',
           UNCHANGED <<tables, starts, lost, up>>, WithinBound,
           NEW g, MovesOn(g), NEW last, NEW scores, RoundScored(g, state', last, scores)
    PROVE  OneGame'
<1> DEFINE r == state.roundNumber
           over == state'.phase = "game_over"
<1>1. /\ r \in Nat \ {0} /\ Scored = r - 1 /\ Totals = state.totalScore
      /\ \A i \in Seats : state.totalScore[i] \in Nat
  BY PlayedTotals
<1>2. /\ games' = games /\ game_players' = game_players /\ game_rounds' = game_rounds
      /\ up' = up /\ up /\ todo = << >> /\ DOMAIN todo = {}
      /\ AllWell' => AllWell /\ (announced \/ todo' = << >>)
  <2>1. early' = (early \/ (~announced /\ todo' # << >>)) /\ lost' = lost
    BY DEF SeeIfEarly
  <2>2. AllWell' => AllWell /\ (announced \/ todo' = << >>)
    BY <2>1 DEF AllWell
  <2>3. QED
    BY <2>2, NothingToDo DEF tables, Idle
<1>3. /\ last.roundNumber = r
      /\ \A i \in Seats : /\ Total(scores[i]) \in Nat
                          /\ Standing(last, scores, i) = Totals[i] + Total(scores[i])
  BY <1>1 DEF RoundScored, MovesOn
<1>4. /\ Totals' = [i \in Seats |-> Standing(last, scores, i)]
      /\ state'.phase \in {"playing", "game_over"}
      /\ NewRecords(todo', last, scores, over)
      /\ state'.roundNumber = IF over THEN r ELSE r + 1
  BY DEF RoundScored, MovesOn, Totals
<1>5. Scored' = r
  <2>1. CASE over
    BY <1>1, <1>4, <2>1 DEF Scored
  <2>2. CASE ~over
    BY <1>1, <1>4, <2>2 DEF Scored
  <2>3. QED
    BY <2>1, <2>2
<1>6. Rows = (1 .. r - 1) \X Seats /\ Rows' = (1 .. r) \X Seats
  BY <1>1, <1>5 DEF Rows
<1> HIDE DEF r, over
<1>7. Rows \subseteq Rows' /\ Scored' \in 0 .. MaxRounds
  BY <1>1, <1>5, <1>6, SizeAssumption DEF WithinBound, r
<1>8. \A i \in Seats : Totals'[i] = Totals[i] + Total(scores[i]) /\ Totals[i] \in Nat
  BY <1>1, <1>3, <1>4
<1>9. /\ games # "finished"
      /\ \A i \in DOMAIN game_players : game_players[i] = 0
      /\ TablesOfTheGame
  BY DEF OneGame, OpenUntilScored
<1>10. TablesOfTheGame'
  BY <1>2, <1>7, <1>9 DEF TablesOfTheGame
<1>11. ASSUME NEW n \in DOMAIN todo'
       PROVE  /\ n \in Nat
              /\ todo'[n].op \in {"round", "end", "final", "tokens"}
              /\ todo'[n].op = "round" => /\ n - 1 \in Seats
                                          /\ todo'[n].row = <<r, n - 1>>
                                          /\ todo'[n].total = Total(scores[n - 1])
                                          /\ todo'[n].row \in Rows'
              /\ todo'[n].op \in {"end", "final"} => over /\ NumPlayers < n
              /\ todo'[n].op = "final" => /\ n - NumPlayers - 2 \in Seats
                                          /\ todo'[n].seat = n - NumPlayers - 2
                                          /\ todo'[n].score = Totals'[n - NumPlayers - 2]
  <2>1. /\ n \in Nat
        /\ todo'[n].op \in {"round", "end", "final", "tokens"}
        /\ todo'[n].op = "round" => /\ n - 1 \in Seats
                                    /\ todo'[n].row = <<r, n - 1>>
                                    /\ todo'[n].total = Total(scores[n - 1])
        /\ todo'[n].op \in {"end", "final"} => over /\ NumPlayers < n
        /\ todo'[n].op = "final" =>
               /\ n - NumPlayers - 2 \in Seats
               /\ todo'[n].seat = n - NumPlayers - 2
               /\ todo'[n].score = Standing(last, scores, n - NumPlayers - 2)
    BY <1>3, <1>4 DEF NewRecords
  <2>2. todo'[n].op = "round" => <<r, n - 1>> \in Rows'
    BY <1>1, <1>6, <2>1
  <2>3. n - NumPlayers - 2 \in Seats =>
            Totals'[n - NumPlayers - 2] = Standing(last, scores, n - NumPlayers - 2)
    BY <1>4
  <2>4. QED
    BY <2>1, <2>2, <2>3
<1>12. (\A n \in DOMAIN todo : IsOfTheGame(todo[n]))'
  BY <1>11 DEF IsOfTheGame, over
<1>13. RowsInOrder'
  <2>1. SUFFICES ASSUME NEW n \in DOMAIN todo', todo'[n].op = "round"
                 PROVE  /\ \A e \in DOMAIN game_rounds' : Book!Precedes(e, todo'[n].row)
                        /\ \A m \in DOMAIN todo' :
                              /\ todo'[m].op = "round" /\ m < n
                                     => Book!Precedes(todo'[m].row, todo'[n].row)
                              /\ todo'[m].op \in {"end", "final"} => n < m
    BY DEF RowsInOrder
  <2>2. n \in Nat /\ n - 1 \in Seats /\ todo'[n].row = <<r, n - 1>>
    BY <1>11, <2>1
  <2>3. ASSUME NEW e \in DOMAIN game_rounds' PROVE Book!Precedes(e, todo'[n].row)
    <3>1. e \in (1 .. r - 1) \X Seats
      BY <1>2, <1>6, <1>9 DEF TablesOfTheGame
    <3>2. e[1] < r
      BY <1>1, <3>1
    <3>3. QED
      BY <2>2, <3>2 DEF Book!Precedes
  <2>4. ASSUME NEW m \in DOMAIN todo', todo'[m].op = "round", m < n
        PROVE  Book!Precedes(todo'[m].row, todo'[n].row)
    <3>1. m \in Nat /\ todo'[m].row = <<r, m - 1>>
      BY <1>11, <2>4
    <3>2. m - 1 < n - 1
      BY <2>2, <2>4, <3>1
    <3>3. QED
      BY <2>2, <3>1, <3>2 DEF Book!Precedes
  <2>5. ASSUME NEW m \in DOMAIN todo', todo'[m].op \in {"end", "final"} PROVE n < m
    <3>1. m \in Nat /\ NumPlayers < m
      BY <1>11, <2>5
    <3>2. QED
      BY <2>2, <3>1, SizeAssumption DEF Seats
  <2>6. QED
    BY <2>3, <2>4, <2>5
<1>14. FinalsOnce'
  <2>1. SUFFICES ASSUME NEW n \in DOMAIN todo', todo'[n].op = "final"
                 PROVE  /\ todo'[n].seat \in DOMAIN game_players'
                               => game_players'[todo'[n].seat] = 0
                        /\ \A m \in DOMAIN todo' :
                              todo'[m].op = "final" /\ todo'[m].seat = todo'[n].seat => m = n
    BY DEF FinalsOnce
  <2>2. n \in Nat /\ todo'[n].seat = n - NumPlayers - 2
    BY <1>11, <2>1
  <2>3. ASSUME NEW m \in DOMAIN todo', todo'[m].op = "final", todo'[m].seat = todo'[n].seat
        PROVE  m = n
    <3>1. m \in Nat /\ todo'[m].seat = m - NumPlayers - 2
      BY <1>11, <2>3
    <3>2. QED
      BY <2>2, <2>3, <3>1, SizeAssumption
  <2>4. QED
    BY <1>2, <1>9, <2>3
<1>15. OpenUntilScored'
  BY <1>2, <1>9 DEF OpenUntilScored
<1>16. NothingMissing'
  <2>1. SUFFICES ASSUME AllWell'
                 PROVE  PlayersComplete' /\ RowsComplete' /\ FinalsComplete'
    BY <1>2, <1>9 DEF NothingMissing
  <2>2. PlayersComplete /\ RowsComplete
    <3>1. todo' # << >>
      <4>1. PICK n : n \in DOMAIN todo'
        BY <1>4, SeatsFacts DEF NewRecords
      <4>2. QED
        BY <4>1, NothingToDo
    <3>2. QED
      BY <1>2, <2>1, <3>1 DEF OneGame, NothingMissing
  <2>3. Seats \subseteq DOMAIN game_players /\ Rows \subseteq DOMAIN game_rounds
    BY <1>2, <2>2 DEF PlayersComplete, RowsComplete
  <2>4. PlayersComplete'
    BY <1>2, <2>3 DEF PlayersComplete
  <2>5. RowsComplete'
    <3>1. SUFFICES ASSUME NEW e \in Rows', e \notin Rows
                   PROVE  \E n \in DOMAIN todo' : todo'[n].op = "round" /\ todo'[n].row = e
      BY <1>2, <2>3 DEF RowsComplete
    <3>2. PICK k \in 1 .. r, i \in Seats : e = <<k, i>>
      BY <1>6, <3>1
    <3>3. k = r
      BY <1>1, <1>6, <3>1, <3>2
    <3>4. QED
      BY <1>3, <1>4, <3>2, <3>3 DEF NewRecords
  <2>6. FinalsComplete'
    BY <1>2, <1>4, <2>3 DEF FinalsComplete, NewRecords, over
  <2>7. QED
    BY <2>4, <2>5, <2>6
<1>17. \E paid : Accounts(paid)'
  <2>1. PICK paid : Accounts(paid)
    BY DEF OneGame
  <2> DEFINE more == [e \in Rows' |-> IF e[1] = r THEN Total(scores[e[2]]) ELSE paid[e]]
  <2>2. paid \in [Rows -> Nat]
    BY <2>1 DEF Accounts
  <2>3. ASSUME NEW e \in Rows PROVE more[e] = paid[e] /\ e \in Rows'
    BY <1>1, <1>6, <1>7
  <2>4. ASSUME NEW i \in Seats
        PROVE  <<r, i>> \in Rows' /\ more[<<r, i>>] = Total(scores[i])
    BY <1>1, <1>6
  <2>5. more \in [Rows' -> Nat]
    <3>1. ASSUME NEW e \in Rows' PROVE more[e] \in Nat
      <4>1. PICK k \in 1 .. r, i \in Seats : e = <<k, i>>
        BY <1>6
      <4>2. CASE k = r
        BY <1>3, <2>4, <4>1, <4>2
      <4>3. CASE k # r
        <5>1. e \in Rows
          BY <1>1, <1>6, <4>1, <4>3
        <5>2. QED
          BY <2>2, <2>3, <5>1
      <4>4. QED
        BY <4>2, <4>3
    <3>2. QED
      BY <3>1
  <2> HIDE DEF more
  <2>6. PICK new : new = more
    OBVIOUS
  <2>7. PICK k : k = r
    OBVIOUS
  <2>8. ASSUME NEW i \in Seats
        PROVE  SumOver(new, Column(Rows', i)) = Totals'[i]
    <3>1. \A e \in (1 .. k) \X Seats : new[e] \in Nat
      BY <1>6, <2>5, <2>6, <2>7
    <3>2. \A e \in (1 .. k - 1) \X Seats : new[e] = paid[e]
      BY <1>6, <2>3, <2>6, <2>7
    <3>3. k \in Nat /\ k # 0
      BY <1>1, <2>7
    <3>4. SumOver(new, Column((1 .. k) \X Seats, i))
              = SumOver(paid, Column((1 .. k - 1) \X Seats, i)) + new[<<k, i>>]
      <4>1. PaysOneRoundMore(new, paid, k)
        BY <3>1, <3>2, <3>3 DEF PaysOneRoundMore
      <4>2. QED
        BY <2>8, <4>1, OneRoundMore
    <3>5. SumOver(paid, Column((1 .. k - 1) \X Seats, i)) = Totals[i]
      BY <1>6, <2>1, <2>7 DEF Accounts
    <3>6. SumOver(new, Column(Rows', i)) = Totals[i] + Total(scores[i])
      BY <1>6, <2>4, <2>6, <2>7, <3>4, <3>5
    <3>7. QED
      BY <1>8, <3>6
  <2>9. \A e \in DOMAIN game_rounds' : game_rounds'[e] = new[e]
    BY <1>2, <1>9, <2>1, <2>3, <2>6 DEF Accounts, TablesOfTheGame
  <2>10. \A n \in DOMAIN todo' : todo'[n].op = "round" => todo'[n].total = new[todo'[n].row]
    BY <1>11, <2>4, <2>6
  <2>11. Accounts(new)'
    BY <2>5, <2>6, <2>8, <2>9, <2>10 DEF Accounts, Column
  <2>12. QED
    BY <2>11
<1>18. QED
  BY <1>7, <1>10, <1>12, <1>13, <1>14, <1>15, <1>16, <1>17 DEF OneGame
-------------------------------------------------------------------------------
\* What running statement s does to the tables; a statement that fails does what
\* Failed does, nothing.
Effect(s) ==
    /\ \/ games' = games
       \/ s.op = "game" /\ games = "none" /\ games' = "running"
       \/ s.op = "end" /\ games # "none" /\ games' = "finished"
    /\ \A i : i \in DOMAIN game_players' <=>
                  i \in DOMAIN game_players \/ (s.op = "player" /\ i = s.seat)
    /\ \A i \in DOMAIN game_players' :
           game_players'[i] = IF i \notin DOMAIN game_players THEN 0
                              ELSE IF s.op = "final" /\ i = s.seat THEN s.score
                              ELSE game_players[i]
    /\ game_players' = [i \in DOMAIN game_players' |-> game_players'[i]]
    /\ \A e : e \in DOMAIN game_rounds' <=>
                  e \in DOMAIN game_rounds \/ (s.op = "round" /\ e = s.row)
    /\ \A e \in DOMAIN game_rounds' :
           game_rounds'[e] = IF s.op = "round" /\ e = s.row THEN s.total
                             ELSE game_rounds[e]
    /\ game_rounds' = [e \in DOMAIN game_rounds' |-> game_rounds'[e]]

Failed == [op |-> "failed"]

LEMMA NothingDone ==
    ASSUME TablesOfTheGame, UNCHANGED tables PROVE Effect(Failed)
<1>1. /\ games' = games /\ game_players' = game_players /\ game_rounds' = game_rounds
      /\ Failed.op = "failed"
  BY DEF tables, Failed
<1>2. /\ game_players = [i \in DOMAIN game_players |-> game_players[i]]
      /\ game_rounds = [e \in DOMAIN game_rounds |-> game_rounds[e]]
  BY DEF TablesOfTheGame
<1>3. QED
  BY <1>1, <1>2 DEF Effect

LEMMA StatementDone ==
    ASSUME TablesOfTheGame, RecordInv, NEW s, Execute(s) PROVE Effect(s)
<1>1. /\ game_players = [i \in DOMAIN game_players |-> game_players[i]]
      /\ game_rounds = [e \in DOMAIN game_rounds |-> game_rounds[e]]
  BY DEF TablesOfTheGame
<1>2. CASE /\ s.op = "game"
           /\ games' = IF games = "none" THEN "running" ELSE games
           /\ UNCHANGED <<game_players, game_rounds, reconnect_tokens>>
  BY <1>1, <1>2 DEF Effect
<1>3. CASE /\ s.op = "player"
           /\ InsertPlayer(s.seat)
           /\ UNCHANGED <<games, game_rounds, reconnect_tokens>>
  <2>1. game_players' = [k \in DOMAIN game_players \cup {s.seat} |->
                             IF k \in DOMAIN game_players THEN game_players[k] ELSE 0]
    BY <1>3 DEF InsertPlayer, InsertOrIgnore
  <2>2. DOMAIN game_players' = DOMAIN game_players \cup {s.seat}
    BY <2>1
  <2>3. game_players' = [i \in DOMAIN game_players' |-> game_players'[i]]
    BY <2>1
  <2>4. \A i \in DOMAIN game_players' :
            game_players'[i] = IF i \in DOMAIN game_players THEN game_players[i] ELSE 0
    BY <2>1
  <2>5. QED
    BY <1>1, <1>3, <2>2, <2>3, <2>4 DEF Effect
<1>4. CASE /\ s.op = "round"
           /\ game_rounds' = InsertOrReplace(game_rounds, s.row, s.total)
           /\ UNCHANGED <<games, game_players, reconnect_tokens>>
  <2>1. game_rounds' = [k \in DOMAIN game_rounds \cup {s.row} |->
                            IF k = s.row THEN s.total ELSE game_rounds[k]]
    BY <1>4 DEF InsertOrReplace
  <2>2. DOMAIN game_rounds' = DOMAIN game_rounds \cup {s.row}
    BY <2>1
  <2>3. game_rounds' = [i \in DOMAIN game_rounds' |-> game_rounds'[i]]
    BY <2>1
  <2>4. \A i \in DOMAIN game_rounds' :
            game_rounds'[i] = IF i = s.row THEN s.total ELSE game_rounds[i]
    BY <2>1
  <2>5. QED
    BY <1>1, <1>4, <2>2, <2>3, <2>4 DEF Effect
<1>5. CASE /\ s.op = "end"
           /\ games' = IF games = "none" THEN "none" ELSE "finished"
           /\ UNCHANGED <<game_players, game_rounds, reconnect_tokens>>
  BY <1>1, <1>5 DEF Effect
<1>6. CASE /\ s.op = "final"
           /\ game_players' = [i \in DOMAIN game_players |->
                                   IF i = s.seat THEN s.score ELSE game_players[i]]
           /\ UNCHANGED <<games, game_rounds, reconnect_tokens>>
  <2>1. DOMAIN game_players' = DOMAIN game_players
    BY <1>6
  <2>2. game_players' = [i \in DOMAIN game_players' |-> game_players'[i]]
    BY <1>6
  <2>3. \A i \in DOMAIN game_players' :
            game_players'[i] = IF i = s.seat THEN s.score ELSE game_players[i]
    BY <1>6
  <2>4. QED
    BY <1>1, <1>6, <2>1, <2>2, <2>3 DEF Effect
<1>7. CASE /\ s.op = "tokens"
           /\ reconnect_tokens' = {}
           /\ UNCHANGED <<games, game_players, game_rounds>>
  BY <1>1, <1>7 DEF Effect
<1>8. QED
  BY <1>2, <1>3, <1>4, <1>5, <1>6, <1>7 DEF Execute

\* The totals of a game in any state.
LEMMA TotalsNat == ASSUME GameInv PROVE \A i \in Seats : Totals[i] \in Nat
<1>1. state \in GameType
  BY DEF GameInv, Kept
<1>2. SUFFICES ASSUME NEW i \in Seats PROVE Totals[i] \in Nat
  OBVIOUS
<1>3. Total(ComputeRoundScores(state)[i]) \in Nat
  BY <1>1, ScoresNat
<1>4. state.totalScore[i] \in Nat
  BY <1>1 DEF GameType
<1>5. QED
  BY <1>3, <1>4 DEF Totals, TotalsAfterRound, Standing

\* The first statement has left the list, or all have.
Shrinks == \A n \in DOMAIN todo' :
               n \in Nat \ {0} /\ n + 1 \in DOMAIN todo /\ todo'[n] = todo[n + 1]

\* A statement s that is not missing from now on leaves the tables in order.
LEMMA StatementKeeps ==
    ASSUME OneGame, UNCHANGED state, Shrinks, 1 \in DOMAIN todo,
           NEW s, s = todo[1] \/ s = Failed, Effect(s),
           GameInv', RecordInv', TablesOfTheGame' => NothingMissing'
    PROVE  OneGame'
<1>1. Scored' = Scored /\ Rows' = Rows /\ Totals' = Totals
  BY DEF Scored, Rows, Totals, TotalsAfterRound
<1>2. s.op # "failed" => s = todo[1]
  BY DEF Failed
<1>3. s.op \in {"player", "round", "end", "final"} => s = todo[1] /\ IsOfTheGame(s)
  BY <1>2 DEF OneGame
<1>4. \A n \in DOMAIN todo' :
          n \in Nat \ {0} /\ n + 1 \in DOMAIN todo /\ todo'[n] = todo[n + 1] /\ n + 1 # 1
  BY DEF Shrinks
<1>5. \A i \in Seats : Totals[i] \in Nat
  BY TotalsNat DEF OneGame
<1>6. PICK paid : Accounts(paid)
  BY DEF OneGame
<1>7. s.op = "round" => s.total = paid[s.row] /\ s.row \in Rows /\ s.total \in Nat
  BY <1>3, <1>6 DEF Accounts, IsOfTheGame
<1>8. TablesOfTheGame /\ RowsInOrder /\ FinalsOnce /\ OpenUntilScored
  BY DEF OneGame
<1>9. (\A n \in DOMAIN todo : IsOfTheGame(todo[n]))'
  <2>1. SUFFICES ASSUME NEW n \in DOMAIN todo' PROVE IsOfTheGame(todo[n])'
    OBVIOUS
  <2>2. IsOfTheGame(todo[n + 1]) /\ todo'[n] = todo[n + 1]
    BY <1>4 DEF OneGame
  <2>3. QED
    BY <1>1, <2>2 DEF IsOfTheGame
<1>10. TablesOfTheGame'
  <2>1. ASSUME NEW i \in DOMAIN game_players'
        PROVE  i \in Seats /\ game_players'[i] \in Nat /\ game_players'[i] \in {0, Totals[i]}
    <3>1. CASE i \notin DOMAIN game_players
      BY <1>3, <3>1 DEF Effect, IsOfTheGame
    <3>2. CASE i \in DOMAIN game_players /\ s.op = "final" /\ i = s.seat
      BY <1>3, <1>5, <3>2 DEF Effect, IsOfTheGame
    <3>3. CASE i \in DOMAIN game_players /\ ~(s.op = "final" /\ i = s.seat)
      BY <1>8, <3>3 DEF Effect, TablesOfTheGame
    <3>4. QED
      BY <3>1, <3>2, <3>3
  <2>2. ASSUME NEW e \in DOMAIN game_rounds' PROVE e \in Rows /\ game_rounds'[e] \in Nat
    <3>1. CASE s.op = "round" /\ e = s.row
      BY <1>7, <3>1 DEF Effect
    <3>2. CASE ~(s.op = "round" /\ e = s.row)
      BY <1>8, <3>2 DEF Effect, TablesOfTheGame
    <3>3. QED
      BY <3>1, <3>2
  <2>3. /\ game_players' = [i \in DOMAIN game_players' |-> game_players'[i]]
        /\ game_rounds' = [e \in DOMAIN game_rounds' |-> game_rounds'[e]]
    BY DEF Effect
  <2>4. /\ game_players' \in [DOMAIN game_players' -> Nat]
        /\ game_rounds' \in [DOMAIN game_rounds' -> Nat]
    BY <2>1, <2>2, <2>3
  <2>5. QED
    BY <1>1, <2>1, <2>2, <2>4 DEF TablesOfTheGame
<1>11. RowsInOrder'
  <2>1. SUFFICES ASSUME NEW n \in DOMAIN todo', todo'[n].op = "round"
                 PROVE  /\ \A e \in DOMAIN game_rounds' : Book!Precedes(e, todo'[n].row)
                        /\ \A m \in DOMAIN todo' :
                              /\ todo'[m].op = "round" /\ m < n
                                     => Book!Precedes(todo'[m].row, todo'[n].row)
                              /\ todo'[m].op \in {"end", "final"} => n < m
    BY DEF RowsInOrder
  <2>2. n \in Nat \ {0} /\ n + 1 \in DOMAIN todo /\ todo'[n] = todo[n + 1]
    BY <1>4
  <2>3. ASSUME NEW e \in DOMAIN game_rounds' PROVE Book!Precedes(e, todo'[n].row)
    <3>1. CASE e \in DOMAIN game_rounds
      BY <1>8, <2>1, <2>2, <3>1 DEF RowsInOrder
    <3>2. CASE e \notin DOMAIN game_rounds
      <4>1. s.op = "round" /\ e = s.row /\ s = todo[1]
        BY <1>3, <3>2 DEF Effect
      <4>2. 1 < n + 1
        BY <2>2
      <4>3. QED
        BY <1>8, <2>1, <2>2, <4>1, <4>2 DEF RowsInOrder
    <3>3. QED
      BY <3>1, <3>2
  <2>4. ASSUME NEW m \in DOMAIN todo'
        PROVE  /\ todo'[m].op = "round" /\ m < n
                      => Book!Precedes(todo'[m].row, todo'[n].row)
               /\ todo'[m].op \in {"end", "final"} => n < m
    <3>1. m \in Nat \ {0} /\ m + 1 \in DOMAIN todo /\ todo'[m] = todo[m + 1]
      BY <1>4
    <3>2. /\ todo[m + 1].op = "round" /\ m + 1 < n + 1
                 => Book!Precedes(todo[m + 1].row, todo[n + 1].row)
          /\ todo[m + 1].op \in {"end", "final"} => n + 1 < m + 1
      BY <1>8, <2>1, <2>2, <3>1 DEF RowsInOrder
    <3>3. (m < n <=> m + 1 < n + 1) /\ (n < m <=> n + 1 < m + 1)
      BY <2>2, <3>1
    <3>4. QED
      BY <2>2, <3>1, <3>2, <3>3
  <2>5. QED
    BY <2>3, <2>4
<1>12. FinalsOnce'
  <2>1. SUFFICES ASSUME NEW n \in DOMAIN todo', todo'[n].op = "final"
                 PROVE  /\ todo'[n].seat \in DOMAIN game_players'
                               => game_players'[todo'[n].seat] = 0
                        /\ \A m \in DOMAIN todo' :
                              todo'[m].op = "final" /\ todo'[m].seat = todo'[n].seat => m = n
    BY DEF FinalsOnce
  <2>2. n \in Nat \ {0} /\ n + 1 \in DOMAIN todo /\ todo'[n] = todo[n + 1] /\ n + 1 # 1
    BY <1>4
  <2>3. /\ todo[n + 1].seat \in DOMAIN game_players
               => game_players[todo[n + 1].seat] = 0
        /\ \A m \in DOMAIN todo :
               todo[m].op = "final" /\ todo[m].seat = todo[n + 1].seat => m = n + 1
    BY <1>8, <2>1, <2>2 DEF FinalsOnce
  <2>4. ~(s.op = "final" /\ todo[n + 1].seat = s.seat)
    BY <1>3, <2>2, <2>3
  <2>5. todo'[n].seat \in DOMAIN game_players' => game_players'[todo'[n].seat] = 0
    BY <2>2, <2>3, <2>4 DEF Effect
  <2>6. ASSUME NEW m \in DOMAIN todo', todo'[m].op = "final", todo'[m].seat = todo'[n].seat
        PROVE  m = n
    <3>1. m \in Nat \ {0} /\ m + 1 \in DOMAIN todo /\ todo'[m] = todo[m + 1]
      BY <1>4
    <3>2. m + 1 = n + 1
      BY <2>2, <2>3, <2>6, <3>1
    <3>3. QED
      BY <2>2, <3>1, <3>2
  <2>7. QED
    BY <2>5, <2>6
<1>13. OpenUntilScored'
  <2>1. SUFFICES ASSUME state.phase = "playing" \/ \E n \in DOMAIN todo' : todo'[n].op = "round"
                 PROVE  games' # "finished" /\ \A i \in DOMAIN game_players' : game_players'[i] = 0
    BY DEF OpenUntilScored
  <2>2. state.phase = "playing" \/ \E n \in DOMAIN todo : todo[n].op = "round" /\ n # 1
    BY <1>4, <2>1
  <2>3. games # "finished" /\ \A i \in DOMAIN game_players : game_players[i] = 0
    BY <1>8, <2>2 DEF OpenUntilScored
  <2>4. s.op \notin {"end", "final"}
    <3>1. SUFFICES ASSUME s.op \in {"end", "final"} PROVE FALSE
      OBVIOUS
    <3>2. s = todo[1] /\ state.phase = "game_over"
      BY <1>3, <3>1 DEF IsOfTheGame
    <3>3. PICK n \in DOMAIN todo : todo[n].op = "round" /\ n # 1
      BY <2>2, <3>2
    <3>4. n < 1
      BY <1>8, <3>1, <3>2, <3>3 DEF RowsInOrder
    <3>5. n \in Nat \ {0}
      <4>1. IsList(todo) /\ todo # << >>
        BY NothingToDo DEF OneGame, RecordInv
      <4>2. QED
        BY <4>1, NextStatement
    <3>6. QED
      BY <3>4, <3>5
  <2>5. QED
    BY <2>3, <2>4 DEF Effect
<1>14. Accounts(paid)'
  <2>1. ASSUME NEW e \in DOMAIN game_rounds' PROVE game_rounds'[e] = paid[e]
    <3>1. CASE s.op = "round" /\ e = s.row
      BY <1>7, <3>1 DEF Effect
    <3>2. CASE ~(s.op = "round" /\ e = s.row)
      BY <1>6, <3>2 DEF Effect, Accounts
    <3>3. QED
      BY <3>1, <3>2
  <2>2. ASSUME NEW n \in DOMAIN todo', todo'[n].op = "round"
        PROVE  todo'[n].total = paid[todo'[n].row]
    BY <1>4, <1>6, <2>2 DEF Accounts
  <2>3. QED
    BY <1>1, <1>6, <2>1, <2>2 DEF Accounts
<1>15. Scored' \in 0 .. MaxRounds
  BY <1>1 DEF OneGame
<1>16. QED
  BY <1>9, <1>10, <1>11, <1>12, <1>13, <1>14, <1>15 DEF OneGame

\* A statement that is run: what was still to come is now in the tables.
LEMMA ExecKeeps == ASSUME OneGame, Exec, GameInv', RecordInv' PROVE OneGame'
<1> DEFINE s == todo[1]
<1>1. /\ IsList(todo) /\ todo # << >> /\ todo' = Tail(todo) /\ Execute(Head(todo))
      /\ state' = state /\ up' = up /\ up /\ announced' = announced
      /\ (AllWell' <=> AllWell)
  BY DEF OneGame, RecordInv, Exec, flowVars, starts, AllWell
<1>2. /\ Head(todo) = s /\ Len(todo) \in Nat \ {0} /\ DOMAIN todo = 1 .. Len(todo)
      /\ DOMAIN todo' = 1 .. Len(todo) - 1
      /\ \A n \in 1 .. Len(todo) - 1 : todo'[n] = todo[n + 1]
  BY <1>1, NextStatement
<1>3. Shrinks /\ 1 \in DOMAIN todo
  BY <1>2 DEF Shrinks
<1>4. ASSUME NEW n \in DOMAIN todo, n # 1
      PROVE  n \in Nat \ {0} /\ n - 1 \in DOMAIN todo' /\ todo'[n - 1] = todo[n]
  BY <1>2, <1>4
<1>5. Effect(s)
  BY <1>1, <1>2, StatementDone DEF OneGame
<1>6. IsOfTheGame(s) /\ TablesOfTheGame /\ RowsInOrder
  BY <1>3 DEF OneGame
<1>7. Scored' = Scored /\ Rows' = Rows /\ Totals' = Totals
  BY <1>1 DEF Scored, Rows, Totals, TotalsAfterRound
<1> HIDE DEF s
<1>8. ASSUME TablesOfTheGame' PROVE NothingMissing'
  <2>1. SUFFICES ASSUME AllWell
                 PROVE  /\ (announced => PlayersComplete') /\ RowsComplete' /\ FinalsComplete'
                        /\ games' = "finished" => /\ state.phase = "game_over"
                                                  /\ DOMAIN game_players' = Seats
                                                  /\ DOMAIN game_rounds' = Rows
    BY <1>1, <1>7 DEF NothingMissing
  <2>2. /\ (announced => PlayersComplete) /\ RowsComplete /\ FinalsComplete
        /\ games = "finished" => /\ state.phase = "game_over"
                                 /\ DOMAIN game_players = Seats
                                 /\ DOMAIN game_rounds = Rows
    BY <1>1, <2>1 DEF OneGame, NothingMissing
  <2>3. ASSUME announced PROVE PlayersComplete'
    <3>1. SUFFICES ASSUME NEW i \in Seats
                   PROVE  \/ i \in DOMAIN game_players'
                          \/ \E n \in DOMAIN todo' : todo'[n].op = "player" /\ todo'[n].seat = i
      BY DEF PlayersComplete
    <3>2. CASE i \in DOMAIN game_players
      BY <1>5, <3>2 DEF Effect
    <3>3. CASE \E n \in DOMAIN todo : todo[n].op = "player" /\ todo[n].seat = i
      BY <1>4, <1>5, <3>3 DEF Effect, s
    <3>4. QED
      BY <2>2, <2>3, <3>2, <3>3 DEF PlayersComplete
  <2>4. RowsComplete'
    <3>1. SUFFICES ASSUME NEW e \in Rows
                   PROVE  \/ e \in DOMAIN game_rounds'
                          \/ \E n \in DOMAIN todo' : todo'[n].op = "round" /\ todo'[n].row = e
      BY <1>7 DEF RowsComplete
    <3>2. CASE e \in DOMAIN game_rounds
      BY <1>5, <3>2 DEF Effect
    <3>3. CASE \E n \in DOMAIN todo : todo[n].op = "round" /\ todo[n].row = e
      BY <1>4, <1>5, <3>3 DEF Effect, s
    <3>4. QED
      BY <2>2, <3>2, <3>3 DEF RowsComplete
  <2>5. FinalsComplete'
    <3>1. SUFFICES ASSUME state.phase = "game_over", NEW i \in Seats
                   PROVE  /\ i \in DOMAIN game_players'
                          /\ \/ game_players'[i] = Totals[i]
                             \/ \E n \in DOMAIN todo' : todo'[n].op = "final" /\ todo'[n].seat = i
      BY <1>1, <1>7 DEF FinalsComplete
    <3>2. i \in DOMAIN game_players /\ i \in DOMAIN game_players'
      BY <1>5, <2>2, <3>1 DEF FinalsComplete, Effect
    <3>3. CASE s.op = "final" /\ s.seat = i
      BY <1>5, <1>6, <3>2, <3>3 DEF Effect, IsOfTheGame
    <3>4. CASE ~(s.op = "final" /\ s.seat = i)
      <4>1. game_players'[i] = game_players[i]
        BY <1>5, <3>2, <3>4 DEF Effect
      <4>2. \/ game_players[i] = Totals[i]
            \/ \E n \in DOMAIN todo : todo[n].op = "final" /\ todo[n].seat = i /\ n # 1
        BY <2>2, <3>1, <3>4 DEF FinalsComplete, s
      <4>3. QED
        BY <1>4, <3>2, <4>1, <4>2
    <3>5. QED
      BY <3>3, <3>4
  <2>6. ASSUME games' = "finished"
        PROVE  /\ state.phase = "game_over"
               /\ DOMAIN game_players' = Seats
               /\ DOMAIN game_rounds' = Rows
    <3>1. DOMAIN game_players' \subseteq Seats /\ DOMAIN game_rounds' \subseteq Rows
      BY <1>7, <1>8 DEF TablesOfTheGame
    <3>2. games = "finished" \/ s.op = "end"
      BY <1>5, <2>6 DEF Effect
    <3>3. CASE games = "finished"
      BY <1>5, <2>2, <3>1, <3>3 DEF Effect
    <3>4. CASE s.op = "end"
      <4>1. state.phase = "game_over"
        BY <1>6, <3>4 DEF IsOfTheGame
      <4>2. \A i \in Seats : i \in DOMAIN game_players'
        BY <1>5, <2>2, <4>1 DEF FinalsComplete, Effect
      <4>3. ASSUME NEW e \in Rows PROVE e \in DOMAIN game_rounds'
        <5>1. ASSUME NEW n \in DOMAIN todo, todo[n].op = "round" PROVE FALSE
          <6>1. n < 1
            BY <1>3, <1>6, <3>4, <5>1 DEF RowsInOrder, s
          <6>2. QED
            BY <1>2, <6>1
        <5>2. e \in DOMAIN game_rounds
          BY <2>2, <5>1 DEF RowsComplete
        <5>3. QED
          BY <1>5, <5>2 DEF Effect
      <4>4. QED
        BY <3>1, <4>1, <4>2, <4>3
    <3>5. QED
      BY <3>2, <3>3, <3>4
  <2>7. QED
    BY <2>3, <2>4, <2>5, <2>6
<1>9. QED
  BY <1>1, <1>3, <1>5, <1>8, StatementKeeps DEF s

\* A statement that fails, or all that are left when the process stops.
LEMMA FailureKeeps ==
    ASSUME OneGame, ExecFails \/ Crash, GameInv', RecordInv'
    PROVE  OneGame'
<1>1. /\ IsList(todo) /\ todo # << >> /\ todo' \in {<< >>, Tail(todo)}
      /\ state' = state /\ UNCHANGED tables /\ lost \in Nat
      /\ AllWell' => AllWell /\ ~up'
      /\ games' = games /\ game_players' = game_players /\ game_rounds' = game_rounds
  BY DEF OneGame, RecordInv, ExecFails, Crash, flowVars, tables, AllWell
<1>2. /\ Len(todo) \in Nat \ {0} /\ DOMAIN todo = 1 .. Len(todo)
      /\ DOMAIN Tail(todo) = 1 .. Len(todo) - 1
      /\ \A n \in 1 .. Len(todo) - 1 : Tail(todo)[n] = todo[n + 1]
  BY <1>1, NextStatement
<1>3. Shrinks /\ 1 \in DOMAIN todo
  <2>1. CASE todo' = << >>
    BY <1>2, <2>1, NothingToDo DEF Shrinks
  <2>2. CASE todo' = Tail(todo)
    BY <1>2, <2>2 DEF Shrinks
  <2>3. QED
    BY <1>1, <2>1, <2>2
<1>4. Effect(Failed)
  BY <1>1, NothingDone DEF OneGame
<1>5. Scored' = Scored /\ Rows' = Rows
  BY <1>1 DEF Scored, Rows
<1>6. NothingMissing'
  BY <1>1, <1>5 DEF OneGame, NothingMissing
<1>7. QED
  BY <1>1, <1>3, <1>4, <1>6, StatementKeeps

\* Accounts in which nothing has been scored and nothing recorded.
LEMMA EmptyAccounts ==
    ASSUME Rows = {}, \A i \in Seats : Totals[i] = 0,
           DOMAIN game_rounds = {}, DOMAIN todo = {}
    PROVE  \E paid : Accounts(paid)
<1>1. PICK paid : paid = [e \in {} |-> 0]
  OBVIOUS
<1>2. \A i \in Seats : SumOver(paid, Column(Rows, i)) = 0
  <2>1. \A i \in Seats : Column(Rows, i) = {}
    BY DEF Column
  <2>2. QED
    BY <2>1, SumOfNone
<1>3. Accounts(paid)
  BY <1>1, <1>2 DEF Accounts
<1>4. QED
  BY <1>3

\* RecordGameStart by its kinds of statements.
LEMMA StartIsOfAll ==
    LET t == RecordGameStart
    IN /\ IsList(t)
       /\ \A n \in DOMAIN t : /\ t[n].op \in {"game", "player"}
                              /\ t[n].op = "player" => t[n].seat \in Seats
       /\ \A i \in Seats : \E n \in DOMAIN t : t[n].op = "player" /\ t[n].seat = i
<1> DEFINE e == <<[op |-> "game"]>>
           f == [n \in 1 .. NumPlayers |-> [op |-> "player", seat |-> n - 1]]
           t == RecordGameStart
<1>1. IsList(e) /\ Len(e) = 1 /\ e[1] = [op |-> "game"]
  BY OneStatement
<1>2. IsList(f) /\ Len(f) = NumPlayers
  BY SeatOrderPlaces
<1>3. \A n \in 1 .. NumPlayers : f[n] = [op |-> "player", seat |-> n - 1]
  OBVIOUS
<1>4. t = e \o f
  BY DEF RecordGameStart, InSeatOrder
<1> HIDE DEF e, f, t
<1>5. /\ IsList(t) /\ DOMAIN t = 1 .. 1 + NumPlayers
      /\ t[1] = [op |-> "game"]
      /\ \A n \in 1 .. NumPlayers : t[1 + n] = f[n]
  <2>1. /\ IsList(e \o f) /\ DOMAIN (e \o f) = 1 .. Len(e) + Len(f)
        /\ \A n \in 1 .. Len(e) : (e \o f)[n] = e[n]
        /\ \A n \in 1 .. Len(f) : (e \o f)[Len(e) + n] = f[n]
    <3>1. IsList(e) /\ IsList(f)
      BY <1>1, <1>2
    <3>2. QED
      BY <3>1, OneAfterTheOther
  <2>2. 1 \in 1 .. Len(e)
    BY <1>1
  <2>3. QED
    BY <1>1, <1>2, <1>4, <2>1, <2>2
<1>6. ASSUME NEW n \in DOMAIN t
      PROVE  /\ t[n].op \in {"game", "player"}
             /\ t[n].op = "player" => t[n].seat \in Seats
  <2>1. CASE n = 1
    <3>1. t[n].op = "game"
      BY <1>5, <2>1
    <3>2. QED
      BY <3>1
  <2>2. CASE n # 1
    <3>1. n - 1 \in 1 .. NumPlayers /\ n = 1 + (n - 1) /\ (n - 1) - 1 \in Seats
      BY <1>5, <2>2, SizeAssumption DEF Seats
    <3>2. t[n] = [op |-> "player", seat |-> (n - 1) - 1]
      BY <1>3, <1>5, <3>1
    <3>3. QED
      BY <3>1, <3>2
  <2>3. QED
    BY <2>1, <2>2
<1>7. ASSUME NEW i \in Seats
      PROVE  \E n \in DOMAIN t : t[n].op = "player" /\ t[n].seat = i
  <2>1. i + 1 \in 1 .. NumPlayers /\ 1 + (i + 1) \in DOMAIN t /\ (i + 1) - 1 = i
    BY <1>5, SizeAssumption DEF Seats
  <2>2. t[1 + (i + 1)] = [op |-> "player", seat |-> i]
    BY <1>3, <1>5, <2>1
  <2>3. QED
    BY <2>1, <2>2
<1>8. QED
  BY <1>5, <1>6, <1>7 DEF t

\* The game has been dealt and nothing is recorded.
LEMMA InitRecords == ASSUME HistoryInit PROVE HistoryInv
<1>1. GameInv /\ state.phase = "playing" /\ state.roundNumber = 1
      /\ \A i \in Seats : state.totalScore[i] = 0
  <2>1. Kept(state) /\ state.phase = "playing" /\ state.roundNumber = 1
        /\ \A i \in Seats : state.totalScore[i] = 0
    BY DealtGame DEF HistoryInit, FlowInit
  <2>2. QED
    BY <2>1 DEF GameInv
<1>2. Scored = 0 /\ Rows = {} /\ \A i \in Seats : Totals[i] = 0
  BY <1>1 DEF Scored, Rows, Totals, TotalsAfterRound
<1>3. RecordInv
  BY StartsInOrder
<1>4. /\ games = "none" /\ game_players = << >> /\ game_rounds = << >>
      /\ DOMAIN game_players = {} /\ DOMAIN game_rounds = {}
      /\ DOMAIN todo = {} /\ ~announced
  BY NothingToDo DEF HistoryInit
<1>5. TablesOfTheGame
  <2>1. << >> = [x \in {} |-> x]
    OBVIOUS
  <2>2. << >> \in [{} -> Nat]
    BY <2>1
  <2>3. QED
    BY <1>4, <2>2 DEF TablesOfTheGame
<1>6. RowsInOrder /\ FinalsOnce /\ OpenUntilScored
  BY <1>4 DEF RowsInOrder, FinalsOnce, OpenUntilScored
<1>7. NothingMissing
  BY <1>1, <1>2, <1>4 DEF NothingMissing, RowsComplete, FinalsComplete
<1>8. \E paid : Accounts(paid)
  BY <1>2, <1>4, EmptyAccounts
<1>9. Scored \in 0 .. MaxRounds
  BY <1>2, SizeAssumption
<1>10. OneGame
  BY <1>1, <1>3, <1>4, <1>5, <1>6, <1>7, <1>8, <1>9 DEF OneGame
<1>11. QED
  BY <1>1, <1>3, <1>9, <1>10 DEF HistoryInv

\* The game is announced, for the first time or again.
LEMMA AnnouncementKeeps ==
    ASSUME OneGame, BroadcastGameStart, GameInv', RecordInv' PROVE OneGame'
<1>1. /\ state' = state /\ games' = games /\ game_players' = game_players
      /\ game_rounds' = game_rounds /\ (AllWell' <=> AllWell) /\ up' = up /\ up
      /\ todo = << >> /\ DOMAIN todo = {} /\ todo' = RecordGameStart
  BY NothingToDo DEF BroadcastGameStart, Idle, flowVars, tables, AllWell
<1>2. Scored' = Scored /\ Rows' = Rows /\ Totals' = Totals
  BY <1>1 DEF Scored, Rows, Totals, TotalsAfterRound
<1>3. \A n \in DOMAIN todo' : /\ todo'[n].op \in {"game", "player"}
                              /\ todo'[n].op = "player" => todo'[n].seat \in Seats
  BY <1>1, StartIsOfAll
<1>4. \A n \in DOMAIN todo' : todo'[n].op \notin {"round", "end", "final", "tokens"}
  BY <1>3
<1>5. (\A n \in DOMAIN todo : IsOfTheGame(todo[n]))'
  BY <1>3, <1>4 DEF IsOfTheGame
<1>6. TablesOfTheGame'
  BY <1>1, <1>2 DEF OneGame, TablesOfTheGame
<1>7. RowsInOrder' /\ FinalsOnce'
  BY <1>4 DEF RowsInOrder, FinalsOnce
<1>8. OpenUntilScored'
  BY <1>1, <1>4 DEF OneGame, OpenUntilScored
<1>9. NothingMissing'
  <2>1. PlayersComplete'
    BY <1>1, StartIsOfAll DEF PlayersComplete
  <2>2. RowsComplete => RowsComplete'
    BY <1>1, <1>2 DEF RowsComplete
  <2>3. FinalsComplete => FinalsComplete'
    BY <1>1, <1>2 DEF FinalsComplete
  <2>4. QED
    BY <1>1, <1>2, <2>1, <2>2, <2>3 DEF OneGame, NothingMissing
<1>10. \E paid : Accounts(paid)'
  <2>1. PICK paid : Accounts(paid)
    BY DEF OneGame
  <2>2. Accounts(paid)'
    BY <1>1, <1>2, <1>4, <2>1 DEF Accounts
  <2>3. QED
    BY <2>2
<1>11. Scored' \in 0 .. MaxRounds
  BY <1>2 DEF OneGame
<1>12. QED
  BY <1>5, <1>6, <1>7, <1>8, <1>9, <1>10, <1>11 DEF OneGame

\* A move, with what is recorded of it.
LEMMA MoveKeepsRecords ==
    ASSUME OneGame, Idle, SeeIfEarly, state.phase = "playing", WithinBound,
           GameInv', RecordInv', UNCHANGED <<tables, starts, lost, up>>,
           NEW g, MovesOn(g)
    PROVE  OneGame'
<1>1. PICK h : h = state'
  OBVIOUS
<1>2. g \in GameType /\ g.phase = "playing" /\ h \in AdvanceTurnOrDeal(g)
  BY <1>1 DEF MovesOn, Kept
<1>3. NothingScored(g, h) \/ \E last, scores : RoundScored(g, h, last, scores)
  BY <1>2, EndOfTurn
<1>4. CASE NothingScored(g, h)
  <2>1. /\ todo' = << >> /\ state'.phase = "playing"
        /\ state'.roundNumber = state.roundNumber /\ state'.totalScore = state.totalScore
    BY <1>1, <1>4 DEF NothingScored, MovesOn
  <2>2. QED
    BY <2>1, UnscoredMove
<1>5. CASE \E last, scores : RoundScored(g, h, last, scores)
  <2>1. PICK last, scores : RoundScored(g, state', last, scores)
    BY <1>1, <1>5
  <2>2. QED
    BY <2>1, ScoredMove
<1>6. QED
  BY <1>3, <1>4, <1>5

\* The game is started again before any round was scored: the accounts are at zero.
LEMMA StartKeeps ==
    ASSUME OneGame, StartGame, ~rewound', GameInv', RecordInv' PROVE OneGame'
<1>1. /\ games' = games /\ game_players' = game_players /\ game_rounds' = game_rounds
      /\ (AllWell' <=> AllWell) /\ up' = up /\ announced' = announced
      /\ todo' = todo /\ DOMAIN todo = {}
  BY NothingToDo DEF StartGame, Idle, tables, AllWell
<1>2. Scored = 0
  <2>1. rewound' = (rewound \/ Scored > 0)
    BY DEF StartGame
  <2>2. ~(Scored > 0) /\ Scored \in 0 .. MaxRounds
    BY <2>1 DEF OneGame
  <2>3. QED
    BY <2>2, SizeAssumption
<1>3. Rows = {} /\ DOMAIN game_rounds = {}
  <2>1. 1 .. Scored = {}
    BY <1>2
  <2>2. Rows = {}
    BY <2>1 DEF Rows
  <2>3. QED
    BY <2>2 DEF OneGame, TablesOfTheGame
<1>4. state.phase = "playing"
  BY <1>2 DEF OneGame, GameInv, Scored
<1>5. games # "finished" /\ \A i \in DOMAIN game_players : game_players[i] = 0
  BY <1>4 DEF OneGame, OpenUntilScored
<1>6. /\ state'.phase = "playing" /\ Scored' = 0 /\ Rows' = {}
      /\ \A i \in Seats : Totals'[i] = 0
  BY DealtGameIsNew DEF StartGame
<1>7. TablesOfTheGame'
  BY <1>1, <1>3, <1>5, <1>6 DEF OneGame, TablesOfTheGame
<1>8. RowsInOrder' /\ FinalsOnce' /\ OpenUntilScored'
      /\ (\A n \in DOMAIN todo : IsOfTheGame(todo[n]))'
  BY <1>1, <1>5 DEF RowsInOrder, FinalsOnce, OpenUntilScored
<1>9. NothingMissing'
  <2>1. PlayersComplete => PlayersComplete'
    BY <1>1 DEF PlayersComplete
  <2>2. RowsComplete' /\ FinalsComplete'
    BY <1>6 DEF RowsComplete, FinalsComplete
  <2>3. QED
    BY <1>1, <1>5, <2>1, <2>2 DEF OneGame, NothingMissing
<1>10. (\E paid : Accounts(paid))'
  <2>1. PICK paid : paid = [e \in {} |-> 0]
    OBVIOUS
  <2>2. \A i \in Seats : SumOver(paid, Column(Rows', i)) = 0
    <3>1. \A i \in Seats : Column(Rows', i) = {}
      BY <1>6 DEF Column
    <3>2. QED
      BY <3>1, SumOfNone
  <2>3. Accounts(paid)'
    BY <1>1, <1>3, <1>6, <2>1, <2>2 DEF Accounts, Column
  <2>4. QED
    BY <2>3
<1>11. Scored' \in 0 .. MaxRounds
  BY <1>6, SizeAssumption
<1>12. QED
  BY <1>7, <1>8, <1>9, <1>10, <1>11 DEF OneGame

\* What is recorded does not change, nor does what there should be.
LEMMA RestKeeps ==
    ASSUME OneGame, UNCHANGED <<tables, starts, todo, lost, up, early>>,
           Scored' = Scored, Rows' = Rows, Totals' = Totals, state'.phase = state.phase,
           GameInv', RecordInv'
    PROVE  OneGame'
<1>1. /\ games' = games /\ game_players' = game_players /\ game_rounds' = game_rounds
      /\ (AllWell' <=> AllWell) /\ up' = up /\ announced' = announced /\ todo' = todo
  BY DEF tables, starts, AllWell
<1>2. (\A n \in DOMAIN todo : IsOfTheGame(todo[n]))'
  BY <1>1 DEF OneGame, IsOfTheGame
<1>3. TablesOfTheGame' /\ RowsInOrder' /\ FinalsOnce' /\ OpenUntilScored'
  BY <1>1 DEF OneGame, TablesOfTheGame, RowsInOrder, FinalsOnce, OpenUntilScored
<1>4. NothingMissing'
  BY <1>1 DEF OneGame, NothingMissing, PlayersComplete, RowsComplete, FinalsComplete
<1>5. \E paid : Accounts(paid)'
  <2>1. PICK paid : Accounts(paid)
    BY DEF OneGame
  <2>2. Accounts(paid)'
    BY <1>1, <2>1 DEF Accounts
  <2>3. QED
    BY <2>2
<1>6. Scored' \in 0 .. MaxRounds
  BY DEF OneGame
<1>7. QED
  BY <1>2, <1>3, <1>4, <1>5, <1>6 DEF OneGame
-------------------------------------------------------------------------------
\* A game of which rounds were scored is never taken for a new one again.
LEMMA StaysRewound == ASSUME [HistoryNext]_historyVars, rewound PROVE rewound'
  BY DEF HistoryNext, PlayCard, PlayCardWithOptions, ChooseOption, ChooseFailingOption,
         StartGame, BroadcastGameStart, Exec, ExecFails, Crash, Stopped, historyVars, starts

\* How a move that passes the turn keeps the invariant.
LEMMA MoveKeepsHistory ==
    ASSUME HistoryInv, RecordInv', Idle, SeeIfEarly, UNCHANGED <<tables, starts, lost, up>>,
           NEW g, MovesOn(g), state.phase = "playing", WithinBound
    PROVE  HistoryInv'
<1>1. GameInv'
  BY MoveKeepsTheGame DEF HistoryInv
<1>2. Scored' \in 0 .. MaxRounds
  <2>1. PICK h : h = state'
    OBVIOUS
  <2>2. g \in GameType /\ g.phase = "playing" /\ h \in AdvanceTurnOrDeal(g)
        /\ g.roundNumber = state.roundNumber
    BY <2>1 DEF MovesOn, Kept
  <2>3. NothingScored(g, h) \/ \E last, scores : RoundScored(g, h, last, scores)
    BY <2>2, EndOfTurn
  <2>4. \/ h.phase = "playing" /\ h.roundNumber = state.roundNumber
        \/ h.phase = "playing" /\ h.roundNumber = state.roundNumber + 1
        \/ h.phase = "game_over" /\ h.roundNumber = state.roundNumber
    BY <2>2, <2>3 DEF NothingScored, RoundScored
  <2>5. state.roundNumber \in Nat \ {0} /\ state.roundNumber <= MaxRounds
    BY DEF HistoryInv, GameInv, Kept, GameType, WithinBound
  <2>6. QED
    BY <2>1, <2>4, <2>5, SizeAssumption DEF Scored
<1>3. ~rewound' => OneGame'
  <2>1. rewound' = rewound
    BY DEF starts
  <2>2. QED
    BY <1>1, <2>1, MoveKeepsRecords DEF HistoryInv
<1>4. QED
  BY <1>1, <1>2, <1>3 DEF HistoryInv

\* How a step that leaves the game alone does.
LEMMA RestKeepsHistory ==
    ASSUME HistoryInv, [HistoryNext]_historyVars, RecordInv', UNCHANGED state,
           OneGame /\ GameInv' => OneGame'
    PROVE  HistoryInv'
<1>1. GameInv'
  BY DEF HistoryInv, GameInv, Kept, NoDuplication, LastCapturerOf, AllHandsEmpty
<1>2. Scored' = Scored
  BY DEF Scored
<1>3. ~rewound' => ~rewound
  BY StaysRewound
<1>4. QED
  BY <1>1, <1>2, <1>3 DEF HistoryInv

\* Every step keeps the tables in order.
LEMMA StepKeepsRecords ==
    ASSUME HistoryInv, [HistoryNext]_historyVars PROVE HistoryInv'
<1>1. GameInv /\ RecordInv
  BY DEF HistoryInv
<1>2. RecordInv'
  BY <1>1, StepKeepsOrder
<1>3. ASSUME NEW c \in Pack, PlayCard(c) PROVE HistoryInv'
  <2>1. Idle /\ SeeIfEarly /\ UNCHANGED <<tables, starts, lost, up>>
    BY <1>3 DEF PlayCard
  <2>2. PICK g : MovesOn(g) /\ state.phase = "playing" /\ WithinBound
    BY <1>1, <1>3, PlayMovesOn
  <2>3. QED
    BY <1>2, <2>1, <2>2, MoveKeepsHistory
<1>4. ASSUME NEW option \in pendingCapture, ChooseOption(option) PROVE HistoryInv'
  <2>1. Idle /\ SeeIfEarly /\ UNCHANGED <<tables, starts, lost, up>>
    BY <1>4 DEF ChooseOption
  <2>2. PICK g : MovesOn(g) /\ state.phase = "playing" /\ WithinBound
    BY <1>1, <1>4, ChoiceMovesOn
  <2>3. QED
    BY <1>2, <2>1, <2>2, MoveKeepsHistory
<1>5. ASSUME NEW option \in pendingCapture, ChooseFailingOption(option) PROVE HistoryInv'
  <2>1. /\ GameInv' /\ Scored' = Scored /\ Rows' = Rows /\ Totals' = Totals
        /\ state'.phase = state.phase
    BY <1>1, <1>5, FailedChoice
  <2>2. UNCHANGED <<tables, starts, todo, lost, up, early>> /\ rewound' = rewound
    BY <1>5 DEF ChooseFailingOption, starts
  <2>3. OneGame => OneGame'
    BY <1>2, <2>1, <2>2, RestKeeps
  <2>4. QED
    BY <1>2, <2>1, <2>2, <2>3 DEF HistoryInv
<1>6. ASSUME UNCHANGED <<state, tables, starts, todo, lost, up, early>> PROVE HistoryInv'
  <2>1. Scored' = Scored /\ Rows' = Rows /\ Totals' = Totals /\ state'.phase = state.phase
    BY <1>6 DEF Scored, Rows, Totals, TotalsAfterRound
  <2>2. OneGame /\ GameInv' => OneGame'
    BY <1>2, <1>6, <2>1, RestKeeps
  <2>3. QED
    BY <1>2, <1>6, <2>2, RestKeepsHistory
<1>7. ASSUME NEW c \in Pack, PlayCardWithOptions(c) PROVE HistoryInv'
  BY <1>6, <1>7 DEF PlayCardWithOptions, OfferCaptures
<1>8. CASE UNCHANGED historyVars
  BY <1>6, <1>8 DEF historyVars, flowVars
<1>9. CASE StartGame
  <2>1. GameInv' /\ Scored' = 0
    BY <1>9, DealtGameIsNew DEF StartGame
  <2>2. ~rewound' => ~rewound
    BY <1>9 DEF StartGame
  <2>3. ~rewound' => OneGame'
    BY <1>2, <1>9, <2>1, <2>2, StartKeeps DEF HistoryInv
  <2>4. Scored' \in 0 .. MaxRounds
    BY <2>1, SizeAssumption
  <2>5. QED
    BY <1>2, <2>1, <2>3, <2>4 DEF HistoryInv
<1>10. CASE BroadcastGameStart
  <2>1. UNCHANGED state
    BY <1>10 DEF BroadcastGameStart, flowVars
  <2>2. QED
    BY <1>2, <1>10, <2>1, AnnouncementKeeps, RestKeepsHistory
<1>11. CASE Exec
  <2>1. UNCHANGED state
    BY <1>11 DEF Exec, flowVars
  <2>2. QED
    BY <1>2, <1>11, <2>1, ExecKeeps, RestKeepsHistory
<1>12. CASE ExecFails \/ Crash
  <2>1. UNCHANGED state
    BY <1>12 DEF ExecFails, Crash, flowVars
  <2>2. QED
    BY <1>2, <1>12, <2>1, FailureKeeps, RestKeepsHistory
<1>13. QED
  BY <1>3, <1>4, <1>5, <1>7, <1>8, <1>9, <1>10, <1>11, <1>12 DEF HistoryNext, Stopped

\* The state of the tables, with what is still to be run, is that of the game, unless
\* the game was started again after a round of it had been scored.
THEOREM RecordsKeepUp == HistorySpec => []HistoryInv
<1>1. HistoryInit => HistoryInv
  BY InitRecords
<1>2. HistoryInv /\ [HistoryNext]_historyVars => HistoryInv'
  BY StepKeepsRecords
<1>3. QED
  BY <1>1, <1>2, PTL DEF HistorySpec

\* However often the game is started, and whatever choice is left over from the game
\* before, no card of a game is in two places.
THEOREM RestartsDoubleNoCard == HistorySpec => []NoDuplication(state)
<1>1. HistoryInv => NoDuplication(state)
  BY DEF HistoryInv, GameInv, Kept
<1>2. QED
  BY <1>1, RecordsKeepUp, PTL

\* What the recorded rounds paid a seat is what paid tells.
LEMMA RecordedIsPaid ==
    ASSUME OneGame, NEW paid, Accounts(paid), NEW i \in Seats
    PROVE  /\ SumOver(game_rounds, Column(DOMAIN game_rounds, i))
                  = SumOver(paid, Column(DOMAIN game_rounds, i))
           /\ SumOver(game_rounds, Column(DOMAIN game_rounds, i)) <= Totals[i]
           /\ SumOver(game_rounds, Column(DOMAIN game_rounds, i)) \in Nat
<1> DEFINE some == Column(DOMAIN game_rounds, i)
           all == Column(Rows, i)
<1>1. some \subseteq all
  BY DEF OneGame, TablesOfTheGame, Column
<1>2. \A e \in all : paid[e] \in Nat
  BY DEF Accounts, Column
<1>3. \A e \in some : game_rounds[e] = paid[e]
  BY DEF Accounts, Column
<1>4. all \in SUBSET ((1 .. Scored) \X Seats) /\ Scored \in Nat
  BY SizeAssumption DEF Column, Rows, OneGame
<1>5. SumOver(paid, all) = Totals[i]
  BY DEF Accounts
<1> HIDE DEF some, all
<1>6. IsFiniteSet(all)
  BY <1>4, RowsFinite
<1>7. IsFiniteSet(some)
  BY <1>1, <1>6, FS_Subset
<1>8. SumOver(game_rounds, some) = SumOver(paid, some)
  BY <1>3, <1>7, SumOfSame
<1>9. SumOver(paid, some) <= SumOver(paid, all)
  BY <1>1, <1>2, <1>6, SumOfFewer
<1>10. SumOver(paid, some) \in Nat
  BY <1>1, <1>2, <1>7, SumIsNat
<1>11. QED
  BY <1>5, <1>8, <1>9, <1>10 DEF some

\* In a listed game of which no statement failed everything is there, and each
\* final score is the sum of what the rounds paid: wherever the process stops, and
\* however often the game is started before its first round is scored.
THEOREM HistoryIsComplete == HistorySpec => []HistoryAddsUp
<1>1. ASSUME ~rewound => OneGame PROVE HistoryAddsUp
  <2>1. SUFFICES ASSUME games = "finished", AllWell, ~rewound
                 PROVE  /\ DOMAIN game_players = Seats
                        /\ ListedRounds = (1 .. state.roundNumber) \X Seats
                        /\ up /\ todo = << >> => \A i \in Seats : game_players[i] = Paid(i)
    BY DEF HistoryAddsUp, Listed, AllWell
  <2>2. state.phase = "game_over" /\ DOMAIN game_players = Seats /\ DOMAIN game_rounds = Rows
    BY <1>1, <2>1 DEF OneGame, NothingMissing
  <2>3. Rows = (1 .. state.roundNumber) \X Seats
    BY <2>2 DEF Rows, Scored
  <2>4. ListedRounds = Rows
    BY <2>2 DEF ListedRounds, Rows
  <2>5. ASSUME up, todo = << >>, NEW i \in Seats PROVE game_players[i] = Paid(i)
    <3>1. game_players[i] = Totals[i]
      BY <1>1, <2>1, <2>2, <2>5, NothingToDo DEF OneGame, NothingMissing, FinalsComplete
    <3>2. PICK paid : Accounts(paid)
      BY <1>1, <2>1 DEF OneGame
    <3>3. SumOver(game_rounds, Column(DOMAIN game_rounds, i))
              = SumOver(paid, Column(DOMAIN game_rounds, i))
      BY <1>1, <2>1, <3>2, RecordedIsPaid
    <3>4. Paid(i) = SumOver(game_rounds, Column(Rows, i))
      BY <2>4 DEF Paid, Column
    <3>5. SumOver(paid, Column(Rows, i)) = Totals[i]
      BY <3>2 DEF Accounts
    <3>6. QED
      BY <2>2, <3>1, <3>3, <3>4, <3>5
  <2>6. QED
    BY <2>2, <2>3, <2>4, <2>5
<1>2. HistoryInv => HistoryAddsUp
  BY <1>1 DEF HistoryInv
<1>3. QED
  BY <1>2, RecordsKeepUp, PTL
-------------------------------------------------------------------------------
\* The ledger that the tables are: its operators say what those here say.
LEMMA BookRecorded ==
    ASSUME NEW i
    PROVE  Book!Recorded(i) = SumOver(game_rounds, Column(DOMAIN game_rounds, i))
<1>1. \A f, S : Book!SumOver(f, S) = SumOver(f, S)
  BY DEF Book!SumOver, SumOver, Book!MapThenSumSet, MapThenSumSet,
         Book!MapThenFoldSet, MapThenFoldSet
<1>2. QED
  BY <1>1 DEF Book!Recorded, Column

\* The ledger is as far as the row of the game.
LEMMA LedgerIsOpen ==
    ASSUME RecordInv, ~rewound
    PROVE  /\ games = "none" => LedgerStatus = "none"
           /\ games = "running" => LedgerStatus = "open"
           /\ games = "finished" => LedgerStatus = "closed"
           /\ LedgerStatus # "void"
  BY DEF RecordInv, LedgerStatus

LEMMA LedgerIsVoid == ASSUME rewound PROVE LedgerStatus = "void"
  BY DEF LedgerStatus

\* The row of a player is inserted, or was there.
LEMMA PlayerInLedger ==
    ASSUME LedgerStatus # "void", TablesOfTheGame, NEW i \in Seats, InsertPlayer(i),
           UNCHANGED <<LedgerStatus, game_rounds>>
    PROVE  Book!LedgerNext \/ UNCHANGED game_players
<1>1. game_players' = [k \in DOMAIN game_players \cup {i} |->
                           IF k \in DOMAIN game_players THEN game_players[k] ELSE 0]
  BY DEF InsertPlayer, InsertOrIgnore
<1>2. game_players = [k \in DOMAIN game_players |-> game_players[k]]
  BY DEF TablesOfTheGame
<1>3. CASE i \in DOMAIN game_players
  <2>1. DOMAIN game_players \cup {i} = DOMAIN game_players
    BY <1>3
  <2>2. game_players' = [k \in DOMAIN game_players |-> game_players[k]]
    BY <1>1, <2>1
  <2>3. QED
    BY <1>2, <2>2
<1>4. CASE i \notin DOMAIN game_players
  <2>1. ASSUME NEW k \in DOMAIN game_players \cup {i}
        PROVE  (IF k \in DOMAIN game_players THEN game_players[k] ELSE 0)
                   = (IF k = i THEN 0 ELSE game_players[k])
    BY <1>4, <2>1
  <2>2. game_players' = [k \in DOMAIN game_players \cup {i} |->
                             IF k = i THEN 0 ELSE game_players[k]]
    BY <1>1, <2>1
  <2>3. Book!ListPlayer(i)
    BY <1>4, <2>2 DEF Book!ListPlayer
  <2>4. QED
    BY <2>3 DEF Book!LedgerNext
<1>5. QED
  BY <1>3, <1>4

\* A row of a round is entered after all others, while the ledger is open.
LEMMA RoundInLedger ==
    ASSUME OneGame, ~rewound, NEW s, s.op = "round", 1 \in DOMAIN todo, s = todo[1],
           game_rounds' = InsertOrReplace(game_rounds, s.row, s.total),
           UNCHANGED <<LedgerStatus, game_players>>
    PROVE  Book!LedgerNext
<1>1. IsOfTheGame(s) /\ RowsInOrder /\ OpenUntilScored /\ Scored \in 0 .. MaxRounds
  BY DEF OneGame
<1>2. s.row \in (1 .. MaxRounds) \X Seats
  <2>1. s.row \in (1 .. Scored) \X Seats
    BY <1>1 DEF IsOfTheGame, Rows
  <2>2. 1 .. Scored \subseteq 1 .. MaxRounds
    BY <1>1, SizeAssumption
  <2>3. QED
    BY <2>1, <2>2
<1>3. \A d \in DOMAIN game_rounds : Book!Precedes(d, s.row)
  BY <1>1 DEF RowsInOrder
<1>4. games # "finished" /\ \A i \in DOMAIN game_players : game_players[i] = 0
  BY <1>1 DEF OpenUntilScored
<1>5. s.total \in Nat
  <2>1. PICK paid : Accounts(paid)
    BY DEF OneGame
  <2>2. QED
    BY <1>1, <2>1 DEF Accounts, IsOfTheGame
<1>6. game_rounds' = [k \in DOMAIN game_rounds \cup {s.row} |->
                          IF k = s.row THEN s.total ELSE game_rounds[k]]
  BY DEF InsertOrReplace
<1>7. s.row \in DOMAIN game_rounds' /\ game_rounds'[s.row] = s.total
  BY <1>6
<1>8. game_rounds' = [k \in DOMAIN game_rounds \cup {s.row} |->
                          IF k = s.row THEN game_rounds'[s.row] ELSE game_rounds[k]]
  BY <1>6, <1>7
<1>9. LedgerStatus \in {"none", "open"}
  <2>1. games \in {"none", "running"} /\ RecordInv
    BY <1>4 DEF OneGame, RecordInv
  <2>2. QED
    BY <2>1, LedgerIsOpen
<1>10. Book!Enter(s.row)
  BY <1>3, <1>4, <1>5, <1>7, <1>8, <1>9 DEF Book!Enter
<1>11. QED
  BY <1>2, <1>10 DEF Book!LedgerNext

\* A final score is set once, to what the rounds have paid or more: more only
\* if a row of a round is missing.
LEMMA FinalInLedger ==
    ASSUME OneGame, LedgerStatus # "void",
           NEW s, s.op = "final", 1 \in DOMAIN todo, s = todo[1],
           game_players' = [i \in DOMAIN game_players |->
                                IF i = s.seat THEN s.score ELSE game_players[i]],
           UNCHANGED <<LedgerStatus, game_rounds>>
    PROVE  Book!LedgerNext \/ UNCHANGED game_players
<1>1. IsOfTheGame(s) /\ FinalsOnce /\ TablesOfTheGame
  BY DEF OneGame
<1>2. s.seat \in Seats /\ s.score = Totals[s.seat]
  BY <1>1 DEF IsOfTheGame
<1>3. s.seat \in DOMAIN game_players => game_players[s.seat] = 0
  BY <1>1 DEF FinalsOnce
<1>4. game_players = [i \in DOMAIN game_players |-> game_players[i]]
  BY <1>1 DEF TablesOfTheGame
<1>5. CASE s.seat \notin DOMAIN game_players \/ s.score = 0
  <2>1. ASSUME NEW i \in DOMAIN game_players
        PROVE  (IF i = s.seat THEN s.score ELSE game_players[i]) = game_players[i]
    BY <1>3, <1>5, <2>1
  <2>2. game_players' = [i \in DOMAIN game_players |-> game_players[i]]
    BY <2>1
  <2>3. QED
    BY <1>4, <2>2
<1>6. CASE s.seat \in DOMAIN game_players /\ s.score # 0
  <2>1. game_players'[s.seat] = s.score
    BY <1>6
  <2>2. s.score >= Book!Recorded(s.seat)
    <3>1. PICK paid : Accounts(paid)
      BY DEF OneGame
    <3>2. PICK i \in Seats : i = s.seat
      BY <1>2
    <3>3. SumOver(game_rounds, Column(DOMAIN game_rounds, i)) <= Totals[i]
      BY <3>1, RecordedIsPaid
    <3>4. Book!Recorded(i) = SumOver(game_rounds, Column(DOMAIN game_rounds, i))
      BY BookRecorded
    <3>5. SumOver(game_rounds, Column(DOMAIN game_rounds, i)) \in Nat
      BY <3>1, RecordedIsPaid
    <3>6. Totals[i] \in Nat
      BY TotalsNat DEF OneGame
    <3>7. QED
      BY <1>2, <3>2, <3>3, <3>4, <3>5, <3>6
  <2>3. game_players' = [game_players EXCEPT ![s.seat] = game_players'[s.seat]]
    BY <1>4, <2>1
  <2>4. Book!Settle(s.seat)
    BY <1>3, <1>6, <2>1, <2>2, <2>3 DEF Book!Settle
  <2>5. QED
    BY <1>2, <2>4 DEF Book!LedgerNext
<1>7. QED
  BY <1>5, <1>6

\* A statement that is run, as a step of the ledger.
LEMMA ExecInLedger ==
    ASSUME OneGame, ~rewound, Exec PROVE [Book!LedgerNext]_(Book!ledgerVars)
<1> DEFINE s == todo[1]
<1>1. /\ IsList(todo) /\ todo # << >> /\ Execute(Head(todo)) /\ ~rewound'
  BY DEF OneGame, RecordInv, Exec, starts
<1>2. 1 \in DOMAIN todo /\ Execute(s)
  BY <1>1, NextStatement
<1>3. IsOfTheGame(s) /\ TablesOfTheGame /\ games \in {"none", "running", "finished"}
  BY <1>2 DEF OneGame, RecordInv
<1>4. /\ games = "none" => LedgerStatus = "none"
      /\ games = "running" => LedgerStatus = "open"
      /\ LedgerStatus # "void"
  BY LedgerIsOpen DEF OneGame
<1>5. /\ games' = "running" => LedgerStatus' = "open"
      /\ games' = "finished" => LedgerStatus' = "closed"
      /\ games' = games => LedgerStatus' = LedgerStatus
  BY <1>1, <1>3 DEF LedgerStatus
<1>6. UNCHANGED <<LedgerStatus, game_players, game_rounds>> => UNCHANGED Book!ledgerVars
  BY DEF Book!ledgerVars
<1> HIDE DEF s
<1>7. CASE /\ s.op = "game"
           /\ games' = IF games = "none" THEN "running" ELSE games
           /\ UNCHANGED <<game_players, game_rounds, reconnect_tokens>>
  <2>1. CASE games = "none"
    <3>1. Book!Open
      BY <1>4, <1>5, <1>7, <2>1 DEF Book!Open
    <3>2. QED
      BY <3>1 DEF Book!LedgerNext
  <2>2. CASE games # "none"
    BY <1>5, <1>6, <1>7, <2>2
  <2>3. QED
    BY <2>1, <2>2
<1>8. CASE /\ s.op = "player"
           /\ InsertPlayer(s.seat)
           /\ UNCHANGED <<games, game_rounds, reconnect_tokens>>
  <2>1. PICK i \in Seats : i = s.seat
    BY <1>3, <1>8 DEF IsOfTheGame
  <2>2. InsertPlayer(i) /\ UNCHANGED <<LedgerStatus, game_rounds>>
    BY <1>5, <1>8, <2>1
  <2>3. QED
    BY <1>3, <1>4, <1>6, <2>2, PlayerInLedger
<1>9. CASE /\ s.op = "round"
           /\ game_rounds' = InsertOrReplace(game_rounds, s.row, s.total)
           /\ UNCHANGED <<games, game_players, reconnect_tokens>>
  <2>1. UNCHANGED <<LedgerStatus, game_players>>
    BY <1>5, <1>9
  <2>2. QED
    BY <1>2, <1>9, <2>1, RoundInLedger DEF s
<1>10. CASE /\ s.op = "end"
            /\ games' = IF games = "none" THEN "none" ELSE "finished"
            /\ UNCHANGED <<game_players, game_rounds, reconnect_tokens>>
  <2>1. CASE games = "running"
    <3>1. Book!Close
      BY <1>4, <1>5, <1>10, <2>1 DEF Book!Close
    <3>2. QED
      BY <3>1 DEF Book!LedgerNext
  <2>2. CASE games # "running"
    BY <1>3, <1>5, <1>6, <1>10, <2>2
  <2>3. QED
    BY <2>1, <2>2
<1>11. CASE /\ s.op = "final"
            /\ game_players' = [i \in DOMAIN game_players |->
                                    IF i = s.seat THEN s.score ELSE game_players[i]]
            /\ UNCHANGED <<games, game_rounds, reconnect_tokens>>
  <2>1. UNCHANGED <<LedgerStatus, game_rounds>>
    BY <1>5, <1>11
  <2>2. QED
    BY <1>2, <1>4, <1>6, <1>11, <2>1, FinalInLedger DEF s
<1>12. CASE /\ s.op = "tokens"
            /\ reconnect_tokens' = {}
            /\ UNCHANGED <<games, game_players, game_rounds>>
  BY <1>5, <1>6, <1>12
<1>13. QED
  BY <1>2, <1>7, <1>8, <1>9, <1>10, <1>11, <1>12 DEF Execute

\* A statement takes no row out of a table.
LEMMA RowsStay ==
    ASSUME NEW s, Execute(s)
    PROVE  /\ DOMAIN game_players \subseteq DOMAIN game_players'
           /\ DOMAIN game_rounds \subseteq DOMAIN game_rounds'
<1>1. CASE s.op = "player" /\ InsertPlayer(s.seat) /\ UNCHANGED game_rounds
  BY <1>1 DEF InsertPlayer, InsertOrIgnore
<1>2. CASE /\ game_rounds' = InsertOrReplace(game_rounds, s.row, s.total)
           /\ UNCHANGED game_players
  BY <1>2 DEF InsertOrReplace
<1>3. CASE /\ game_players' = [i \in DOMAIN game_players |->
                                   IF i = s.seat THEN s.score ELSE game_players[i]]
           /\ UNCHANGED game_rounds
  BY <1>3
<1>4. CASE UNCHANGED <<game_players, game_rounds>>
  BY <1>4
<1>5. QED
  BY <1>1, <1>2, <1>3, <1>4 DEF Execute

\* A statement that is run when the ledger is void.
LEMMA ExecInVoid ==
    ASSUME rewound, Exec PROVE Book!LedgerNext
<1>1. Execute(Head(todo)) /\ rewound'
  BY DEF Exec, starts
<1>2. LedgerStatus = "void" /\ LedgerStatus' = "void"
  BY <1>1 DEF LedgerStatus
<1>3. /\ DOMAIN game_players \subseteq DOMAIN game_players'
      /\ DOMAIN game_rounds \subseteq DOMAIN game_rounds'
  BY <1>1, RowsStay
<1>4. Book!Overwrite
  BY <1>2, <1>3 DEF Book!Overwrite
<1>5. QED
  BY <1>4 DEF Book!LedgerNext

\* Whatever is played, fails, stops or is started again, what is recorded is a ledger
\* until the game is started again after a round of it has been scored: rounds are
\* entered in order and never changed, nothing is entered once the game is closed
\* or a score is final, and a final score is set once.  From then on it is void,
\* and rows may be written over.
THEOREM HistoryImplementsLedger == HistorySpec => LedgerSpec
<1>1. HistoryInit => Book!LedgerInit
  BY DEF HistoryInit, Book!LedgerInit, LedgerStatus
<1>2. ASSUME HistoryInv, [HistoryNext]_historyVars
      PROVE  [Book!LedgerNext]_(Book!ledgerVars)
  <2>1. CASE Exec
    <3>1. CASE rewound
      BY <2>1, <3>1, ExecInVoid
    <3>2. CASE ~rewound
      BY <1>2, <2>1, <3>2, ExecInLedger DEF HistoryInv
    <3>3. QED
      BY <3>1, <3>2
  <2>2. ASSUME UNCHANGED tables, UNCHANGED rewound PROVE UNCHANGED Book!ledgerVars
    BY <2>2 DEF tables, LedgerStatus, Book!ledgerVars
  <2>3. CASE UNCHANGED historyVars
    BY <2>2, <2>3 DEF historyVars, starts
  <2>4. CASE StartGame
    <3>1. UNCHANGED <<games, game_players, game_rounds>>
      BY <2>4 DEF StartGame, tables
    <3>2. CASE rewound' <=> rewound
      <4>1. UNCHANGED LedgerStatus
        BY <3>1, <3>2 DEF LedgerStatus
      <4>2. QED
        BY <3>1, <4>1 DEF Book!ledgerVars
    <3>3. CASE ~rewound /\ rewound'
      <4>1. LedgerStatus # "void" /\ LedgerStatus' = "void"
        BY <1>2, <3>3, LedgerIsOpen DEF HistoryInv, LedgerStatus
      <4>2. Book!Void
        BY <3>1, <4>1 DEF Book!Void
      <4>3. QED
        BY <4>2 DEF Book!LedgerNext
    <3>4. QED
      BY <2>4, <3>2, <3>3 DEF StartGame
  <2>5. ASSUME HistoryNext, ~Exec, ~StartGame PROVE UNCHANGED tables /\ UNCHANGED rewound
    BY <2>5 DEF HistoryNext, PlayCard, PlayCardWithOptions, ChooseOption,
                ChooseFailingOption, BroadcastGameStart, ExecFails, Crash, Stopped,
                historyVars, starts
  <2>6. QED
    BY <1>2, <2>1, <2>2, <2>3, <2>4, <2>5
<1>3. QED
  BY <1>1, <1>2, RecordsKeepUp, PTL DEF HistorySpec, LedgerSpec, Book!LedgerSpec
-------------------------------------------------------------------------------
\* Until another handler has started the game again it is one of TurnFlow.
FirstGame == again \in Nat /\ (again = 0 => FlowInv)

LEMMA StartsAreCounted ==
    ASSUME [HistoryNext]_historyVars
    PROVE  \/ StartGame /\ again' = again + 1
           \/ ~StartGame /\ again' = again
<1>1. CASE StartGame
  BY <1>1 DEF StartGame
<1>2. CASE ~StartGame
  BY <1>2 DEF HistoryNext, PlayCard, PlayCardWithOptions, ChooseOption,
              ChooseFailingOption, BroadcastGameStart, Exec, ExecFails, Crash, Stopped,
              historyVars, starts
<1>3. QED
  BY <1>1, <1>2

LEMMA FirstGameGoesOn ==
    ASSUME FirstGame, [HistoryNext]_historyVars, again' = 0
    PROVE  again = 0 /\ [FlowNext]_flowVars
<1>1. again = 0 /\ ~StartGame
  <2>1. \/ StartGame /\ again' = again + 1
        \/ ~StartGame /\ again' = again
    BY StartsAreCounted
  <2>2. again \in Nat
    BY DEF FirstGame
  <2>3. again + 1 # 0
    BY <2>2
  <2>4. QED
    BY <2>1, <2>3
<1>2. ASSUME NEW c \in Pack, PlayCard(c) PROVE FlowNext
  BY <1>2 DEF PlayCard, FlowNext
<1>3. ASSUME NEW c \in Pack, PlayCardWithOptions(c) PROVE FlowNext
  BY <1>3 DEF PlayCardWithOptions, FlowNext
<1>4. ASSUME NEW option \in pendingCapture, ChooseOption(option) PROVE FlowNext
  BY <1>4 DEF ChooseOption, FlowNext
<1>5. ASSUME NEW option \in pendingCapture, ChooseFailingOption(option) PROVE FALSE
  BY <1>1, <1>5, PendingCanBeTaken DEF FirstGame, ChooseFailingOption, CaptureFails
<1>6. CASE BroadcastGameStart \/ Exec \/ ExecFails \/ Crash
  BY <1>1, <1>6 DEF BroadcastGameStart, Exec, ExecFails, Crash
<1>7. CASE UNCHANGED historyVars
  BY <1>1, <1>7 DEF historyVars
<1>8. QED
  BY <1>1, <1>2, <1>3, <1>4, <1>5, <1>6, <1>7 DEF HistoryNext, Stopped

LEMMA FirstGameStays ==
    ASSUME FirstGame, [HistoryNext]_historyVars PROVE FirstGame'
<1>1. again' \in Nat
  BY StartsAreCounted DEF FirstGame
<1>2. again' = 0 => FlowInv'
  BY FirstGameGoesOn, StepSettles DEF FirstGame
<1>3. QED
  BY <1>1, <1>2 DEF FirstGame

\* Recording, failing statements and a stop of the process make no move: as long as
\* no other handler has called StartGame, what is recorded is a game of TurnFlow, and
\* in particular no choice fails.  After that call it is not: the game begins anew.
THEOREM HistoryPlaysTheGame ==
    HistorySpec => FlowInit /\ [][again' = 0 => FlowNext]_flowVars
<1>1. HistoryInit => FlowInit /\ FirstGame
  BY InitSettles DEF HistoryInit, FirstGame
<1>2. FirstGame /\ [HistoryNext]_historyVars => FirstGame'
  BY FirstGameStays
<1>3. FirstGame /\ [HistoryNext]_historyVars => [again' = 0 => FlowNext]_flowVars
  BY FirstGameGoesOn
<1>4. QED
  BY <1>1, <1>2, <1>3, PTL DEF HistorySpec

\* So until then all holds of it that holds of a game of TurnFlow between moves.
THEOREM FirstGameIsSettled == HistorySpec => [](again = 0 => FlowInv)
<1>1. HistoryInit => FirstGame
  BY InitSettles DEF HistoryInit, FirstGame
<1>2. FirstGame /\ [HistoryNext]_historyVars => FirstGame'
  BY FirstGameStays
<1>3. FirstGame => (again = 0 => FlowInv)
  BY DEF FirstGame
<1>4. QED
  BY <1>1, <1>2, <1>3, PTL DEF HistorySpec
===============================================================================
