------------------------------- MODULE History -------------------------------
(***************************************************************************)
(* What the server records of a game (server/internal/storage/storage.go), *)
(* composed with the game that is played.  The room runs the statements    *)
(* with its mutex held, so no move comes between them; but they are in no  *)
(* transaction: one may fail alone, which is only logged, and the process  *)
(* may stop after any of them.  The tables below hold the rows of this     *)
(* room; room IDs are random, so no other room writes to them.             *)
(*                                                                         *)
(* A handler that finds the room full runs StartGame and then              *)
(* BroadcastGameStart, each with the mutex to itself, and more than one    *)
(* handler may (Lobby), however late: one that is held up after its player *)
(* has joined lets the player reconnect and play meanwhile.  Its StartGame *)
(* replaces the game by a new one, in a room that goes by the same ID.     *)
(***************************************************************************)
EXTENDS TurnFlow, Sequences

CONSTANT MaxFaults   \* bound: statements that fail and repeated calls of StartGame

ASSUME HistoryAssumption == MaxFaults \in Nat

VARIABLES
    games,              \* the row of the game: "none", "running" or "finished"
    game_players,       \* seat |-> final_score, for the rows that exist
    game_rounds,        \* <<round, seat>> |-> round_total, for the rows that exist
    reconnect_tokens,   \* the seats whose token is stored
    todo,               \* statements the room has yet to run
    again,              \* how often StartGame was called again
    announcing,         \* handlers between StartGame and BroadcastGameStart
    announced,          \* BroadcastGameStart has been called
    lost,               \* statements that have failed
    up,                 \* the process is running
    early,              \* history: a round was scored before the announcement
    rewound             \* history: StartGame came after a round had been scored

tables == <<games, game_players, game_rounds, reconnect_tokens>>
starts == <<again, announcing, announced, rewound>>
historyVars == <<flowVars, tables, starts, todo, lost, up, early>>

\* The rounds of the game that have been scored.
Scored == IF state.phase = "game_over" THEN state.roundNumber ELSE state.roundNumber - 1
-------------------------------------------------------------------------------
\* The statements, in the order in which they are run.
InSeatOrder(Statement(_)) == [n \in 1 .. NumPlayers |-> Statement(n - 1)]

RecordGameStart ==
    <<[op |-> "game"]>> \o InSeatOrder(LAMBDA i : [op |-> "player", seat |-> i])

RecordRound(g, scores) ==
    InSeatOrder(LAMBDA i : [op    |-> "round",
                            row   |-> <<g.roundNumber, i>>,
                            total |-> Total(scores[i])])

DeleteRoomTokens == <<[op |-> "tokens"]>>

\* Mutants of RecordGameEnd: the scores of the last round are left out, as they
\* are in the game's totals; the tokens go before the end is recorded.
RecordGameEndTotals(g, scores) ==
    <<[op |-> "end"]>>
        \o InSeatOrder(LAMBDA i : [op |-> "final", seat |-> i, score |-> g.totalScore[i]])

RecordGameEndTokensFirst(g, scores) ==
    DeleteRoomTokens \o <<[op |-> "end"]>>
        \o InSeatOrder(LAMBDA i : [op    |-> "final", seat |-> i,
                                   score |-> Standing(g, scores, i)])

RecordGameEnd(g, scores) ==
    <<[op |-> "end"]>>
        \o InSeatOrder(LAMBDA i : [op    |-> "final", seat |-> i,
                                   score |-> Standing(g, scores, i)])

\* What advanceTurnOrDeal records, given the game after the card was played.
Records(played) ==
    LET next   == AdvanceTurn(played)
        last   == ApplyLastHandRule(next)
        scores == ComputeRoundScores(last)
    IN IF ~AllHandsEmpty(next) \/ ~DeckEmpty(next) THEN << >>
       ELSE RecordRound(last, scores)
                \o IF SomeoneWins(last, scores)
                   THEN RecordGameEnd(last, scores) \o DeleteRoomTokens
                   ELSE << >>

InsertOrReplace(table, key, value) ==
    [k \in DOMAIN table \cup {key} |-> IF k = key THEN value ELSE table[k]]

InsertOrIgnore(table, key, value) ==
    [k \in DOMAIN table \cup {key} |-> IF k \in DOMAIN table THEN table[k] ELSE value]

\* Mutant of InsertPlayer: INSERT OR REPLACE.
ReplacePlayer(i) == game_players' = InsertOrReplace(game_players, i, 0)

\* INSERT OR IGNORE, final_score DEFAULT 0.
InsertPlayer(i) == game_players' = InsertOrIgnore(game_players, i, 0)

\* A statement's effect on the tables.
Execute(s) ==
    \/ /\ s.op = "game"
       /\ games' = IF games = "none" THEN "running" ELSE games
       /\ UNCHANGED <<game_players, game_rounds, reconnect_tokens>>
    \/ /\ s.op = "player"
       /\ InsertPlayer(s.seat)
       /\ UNCHANGED <<games, game_rounds, reconnect_tokens>>
    \/ /\ s.op = "round"
       /\ game_rounds' = InsertOrReplace(game_rounds, s.row, s.total)
       /\ UNCHANGED <<games, game_players, reconnect_tokens>>
    \/ /\ s.op = "end"
       /\ games' = IF games = "none" THEN "none" ELSE "finished"
       /\ UNCHANGED <<game_players, game_rounds, reconnect_tokens>>
    \/ /\ s.op = "final"
       /\ game_players' = [i \in DOMAIN game_players |->
                               IF i = s.seat THEN s.score ELSE game_players[i]]
       /\ UNCHANGED <<games, game_rounds, reconnect_tokens>>
    \/ /\ s.op = "tokens"
       /\ reconnect_tokens' = {}
       /\ UNCHANGED <<games, game_players, game_rounds>>
-------------------------------------------------------------------------------
\* Everybody has joined and has a stored token; the first handler that found the
\* room full has just dealt the game.
HistoryInit ==
    /\ FlowInit
    /\ games = "none"
    /\ game_players = << >>
    /\ game_rounds = << >>
    /\ reconnect_tokens = Seats
    /\ todo = << >>
    /\ again = 0
    /\ announcing = 1
    /\ announced = FALSE
    /\ lost = 0
    /\ up = TRUE
    /\ early = FALSE
    /\ rewound = FALSE

\* The room's mutex is free.
Idle == up /\ todo = << >>

\* A reconnect shows a player the game whether it is announced yet or not.
SeeIfEarly == early' = (early \/ (~announced /\ todo' # << >>))

\* A move that discards or captures, and what is recorded of it.
PlayCard(c) ==
    /\ Idle
    /\ \/ /\ Discard(c) \/ Skip(c)
          /\ todo' = Records(ApplyDiscard(state, CurrentPlayer, c))
       \/ \E option \in ComputeCaptures(c, state.tableCards) :
              /\ AutoCapture(c) \/ CaptureAtOnce(c, option)
              /\ todo' = Records(ApplyCapture(state, CurrentPlayer, c, option))
    /\ SeeIfEarly
    /\ UNCHANGED <<tables, starts, lost, up>>

PlayCardWithOptions(c) ==
    /\ Idle
    /\ OfferCaptures(c)
    /\ UNCHANGED <<tables, starts, todo, lost, up, early>>

ChooseOption(option) ==
    /\ Idle
    /\ ChooseCapture(option)
    /\ todo' = Records(ApplyCapture(state, CurrentPlayer, pendingCardID, option))
    /\ SeeIfEarly
    /\ UNCHANGED <<tables, starts, lost, up>>

\* A choice that StartGame has left behind in another game.
ChooseFailingOption(option) ==
    /\ Idle
    /\ CaptureFails(option)
    /\ UNCHANGED <<tables, starts, todo, lost, up, early>>

\* StartGame of another handler that finds the room full: it does not ask whether
\* there is a game.  The old game is gone; a choice that was pending stays.
StartGame ==
    /\ Idle
    /\ again + lost < MaxFaults
    /\ again' = again + 1
    /\ announcing' = announcing + 1
    /\ state' \in DealNextHand(NewGame)
    /\ rewound' = (rewound \/ Scored > 0)
    /\ UNCHANGED <<pendingCapture, pendingCardID, tables, announced, todo, lost, up, early>>

\* BroadcastGameStart of a handler that has run StartGame records the start of the
\* game, whatever has been played or started again since.
BroadcastGameStart ==
    /\ Idle
    /\ announcing > 0
    /\ announcing' = announcing - 1
    /\ announced' = TRUE
    /\ todo' = RecordGameStart
    /\ UNCHANGED <<flowVars, tables, again, rewound, lost, up, early>>

Exec ==
    /\ up
    /\ todo # << >>
    /\ Execute(Head(todo))
    /\ todo' = Tail(todo)
    /\ UNCHANGED <<flowVars, starts, lost, up, early>>

\* A failed statement is logged; only a failed insert of the game leaves the
\* others of its function out.
ExecFails ==
    /\ up
    /\ todo # << >>
    /\ again + lost < MaxFaults
    /\ lost' = lost + 1
    /\ todo' = IF Head(todo).op = "game" THEN << >> ELSE Tail(todo)
    /\ UNCHANGED <<flowVars, tables, starts, up, early>>

\* The process stops; what is not in the tables is gone.  A stop between moves
\* is no different from no further move.
Crash ==
    /\ up
    /\ todo # << >>
    /\ up' = FALSE
    /\ todo' = << >>
    /\ UNCHANGED <<flowVars, tables, starts, lost, early>>

\* After a second start a choice that fails may take the mover's last card: the
\* game is then stuck.
Stopped ==
    /\ \/ ~up
       \/ /\ todo = << >>
          /\ \/ state.phase = "game_over" \/ ~WithinBound
             \/ again > 0 /\ state.hand[CurrentPlayer] = {}
    /\ UNCHANGED historyVars

HistoryNext ==
    \/ \E c \in Pack : PlayCard(c) \/ PlayCardWithOptions(c)
    \/ \E option \in pendingCapture : ChooseOption(option) \/ ChooseFailingOption(option)
    \/ StartGame
    \/ BroadcastGameStart
    \/ Exec
    \/ ExecFails
    \/ Crash
    \/ Stopped

HistorySpec == HistoryInit /\ [][HistoryNext]_historyVars
-------------------------------------------------------------------------------
\* QueryHistory lists a finished game with its players and, joined with them,
\* what each round paid.
Listed == games = "finished"

ListedRounds == {row \in DOMAIN game_rounds : row[2] \in DOMAIN game_players}

\* What JOIN_ROOM with the token of seat i is answered once the process has been
\* started again: no room is registered then.
AnswerAfterRestart(i) ==
    IF i \in reconnect_tokens THEN "SESSION_EXPIRED" ELSE "ROOM_NOT_FOUND"
-------------------------------------------------------------------------------
(***************************************************************************)
(* Properties                                                              *)
(***************************************************************************)
\* What the listed rounds paid seat i.
Paid(i) ==
    SumOver(game_rounds, {row \in ListedRounds : row[2] = i})

\* A listed game adds up: it has a row for every player and every round played,
\* and once the room is done with its statements each final score is the sum of
\* what the rounds paid, the last one included.  RecordRound and RecordGameEnd
\* compute these numbers apart.  This holds wherever the process stops, except
\* that the last scores may then be missing, and however often the game is started
\* and announced before its first round is scored.  It takes a failed statement,
\* or a start of the game that is overtaken by its first round, to break it.
HistoryAddsUp ==
    Listed /\ lost = 0 /\ ~early /\ ~rewound =>
        /\ DOMAIN game_players = Seats
        /\ ListedRounds = (1 .. state.roundNumber) \X Seats
        /\ up /\ todo = << >> => \A i \in Seats : game_players[i] = Paid(i)

\* The tokens are stored as long as the end of the game is not: whenever the
\* process stops in a game, each of its players is then told SESSION_EXPIRED,
\* not ROOM_NOT_FOUND, on coming back, however often the game was started.
LostSessionIsKnown ==
    lost = 0 /\ ~early /\ games # "finished" =>
        \A i \in Seats : AnswerAfterRestart(i) = "SESSION_EXPIRED"

LedgerStatus ==
    CASE rewound -> "void"
      [] ~rewound /\ games = "none" -> "none"
      [] ~rewound /\ games = "running" -> "open"
      [] ~rewound /\ games = "finished" -> "closed"

\* Whatever fails or stops, the tables are a ledger, which is void once the game
\* has been started again after a round.
Book == INSTANCE Ledger WITH
            Players <- Seats, Rounds <- 1 .. MaxRounds,
            status <- LedgerStatus, book <- game_rounds, score <- game_players

LedgerSpec == Book!LedgerSpec
===============================================================================
