# Verification of Tablić

TLA+ modules for the game of Tablić as this repository plays it: the rules, the
room that runs a game, the lobby that brings players into a room, the delivery
of messages to a player's page, the history that is recorded, the client's
connection. TLC checks small instances. TLAPS proves every invariant and action
property of the runs, and the refinements, for every pack and number of players,
connections and failures; liveness is left to TLC.
Paths below are relative to the repository's root; `room.go` is
`server/internal/room/room.go`, and so on.

## 1. Inventory

| Part | State | Operations | Hard behaviour |
|---|---|---|---|
| Cards, captures, scores (`game/types.go`, `deck.go`, `capture.go`, `scoring.go`) | none | `ComputeCaptures`, `ComputeRoundScores`, `ComputeTeamRoundScores` | search over subsets of subsets, aces of two values, a mask that overflows |
| Game state (`game/state.go`) | `GameState`: phase, hands, captured piles, deck, table, whose turn, last capturer, deal and round numbers | `NewGame`, `DealNextHand`, `ApplyDiscard`, `ApplyCapture`, `AdvanceTurn`, `ApplyLastHandRule`, `ApplyRoundScores`, `CheckWinCondition` | long sequences in which every card has to stay in one place and the deals have to come out even |
| Room (`room/room.go`) | the game, the pending capture, connections, reconnect tokens, seat order, turn timer, computer player | `HandleMessage`, `AttachConn`, `Disconnect`, `autoSkipTurn`, `doBotMove`, `StartGame`, ... | everything runs under one mutex, but in an order nobody controls: read loops, fired timers, old and new connections of one player |
| Room registry (`room/manager.go`) | `rooms` | `Create`, `Get`, `List`, `Remove` | its lock is not the rooms' lock |
| Handshake (`ws/handler.go`) | where each connection is | `ServeHTTP`, `handshake` | up to six critical sections in a row, interleaved with those of other connections |
| Delivery (`room.go` `writeCh`, `writeLoop`, `sendTo`; the reconnect snapshot in `handler.go`) | a queue of 32 messages per player | send, write, drop | dropped messages, a snapshot older or newer than what is queued |
| Storage (`storage/storage.go`) | four SQLite tables | `WriteReconnectToken`, `RecordGameStart`, `RecordRound`, `RecordGameEnd`, ... | several statements without a transaction; a game started again under the same ID |
| Protocol (`protocol/protocol.go`) | none | parse, marshal | - |
| Client connection (`client/src/ws-client.ts`, `main.ts`) | socket, timers, saved session | `connect`, `scheduleReconnect`, `tryResumeSession` | events of a replaced socket, overlapping timers |
| Client state (`client/src/state/client-state.ts`) | `LocalState` | `applyServerMessage` | has to follow the server from messages alone |
| Client user interface, `main.go` | - | drawing, routing | - |

How they interact: a connection's goroutine performs the handshake (registry,
then room) and then calls `HandleMessage` for each message and `Disconnect` when
it ends; each call takes the room's mutex. Timers of `time.AfterFunc` (automatic
skip, computer player) take it as well, from goroutines of their own. The room
calls the game's operations and the storage with the mutex held, and puts
messages into the connections' queues. `Disconnect` calls `onEmpty`, which locks
the registry, after releasing the mutex.

What makes each part correct:

- captures are what the rules allow, no more and no less; a round pays out what
  the pack is worth;
- no card is lost or doubled; the deals use the deck up exactly; the player to
  move has a card; the game ends with the round that reaches the winning score;
- only the player to move moves; a pending choice is the mover's and still
  valid; an absent player's turn ends; the computer player's turn ends; a player
  counts as connected exactly while a connection is open;
- a game has the players who joined, a full room starts, an abandoned room goes,
  a room with a game on can be found;
- a page that has missed nothing shows the game, one that comes back gets to
  show it again, and the player to move gets to see it;
- the recorded history of a game that is started once adds up and is never
  rewritten, and a player whose game
  was cut off by a stop of the server is told so;
- a page has one live connection, takes a lost one up again as long as it has a
  session, and not after.

The hazards that these properties are for are listed, each at its line, under
`hazards` in `PROJECT.json`.

## 2. Modules

| Module | Models | Correspondence |
|---|---|---|
| `Cards` | `types.go`, `deck.go`, `CardValues`, `CardPoint` | a card is a record of rank and suit; the pack is a constant |
| `Sums` | `SumOver(f, S)`, what `f` adds up to over `S` | no code of its own |
| `Sums_proofs` | induction over numbers and finite sets; lemmas about `SumOver` | |
| `Capture` | `capture.go` | a group is a set of cards, an option a set of groups; `CapturableSets` states the rules independently |
| `Capture_proofs` | lemmas: the search offers what the rules allow | |
| `Scoring` | `scoring.go` | functions of the seat |
| `GameState` | `state.go` | each operation is an operator from game to game, because the room runs several in one critical section |
| `TurnFlow` | the accepted moves of `handlePlayCard`, `handleChooseCapture`, `doBotMove`, `autoSkipTurn`, each with all of `advanceTurnOrDeal` | variables `state`, `pendingCapture`, `pendingCardID` are the fields of `Room` |
| `TurnFlow_proofs` | theorems about `TurnFlow` | |
| `Room` | all handlers of a started room with their rejections, connections, the turn timer, the computer player | adds `loops` (read loops per player), `online` (is `done` open), `turnTimer`, `late` (fired callbacks waiting for the mutex), `botMoves` |
| `Room_proofs` | theorems about `Room`, with and without late callbacks | |
| `Lobby` | the handshake, the registry, the room until the game starts | `step[c]` is the next call of connection `c`'s handler |
| `Lobby_proofs` | theorems about `Lobby` | |
| `ClientState` | the messages to a client (`protocol.go`, `ToClientState`) and the reducer of `client-state.ts`; of `scenes/game.ts`, whether the hand reacts to clicks and what can be chosen | one operator per message type; a page is a record of the fields of `LocalState` |
| `Delivery` | for one player, `Me`: what each handler sends, `sendTo`, `writeLoop`, `AttachConn`, `Disconnect`, the snapshot of a reconnect | `queue` is `writeCh`, `cur` the connection in `pc.conn`, `loop[k]` the `done` channel that write loop `k` selects on, `closed` the closed ones, `readers` the read loops, `handshake` how far the reconnect is; `trust` is a history variable |
| `Delivery_proofs` | theorems about `Delivery` with `ClientState` | |
| `Ledger` | abstract: what the history of a game promises | no code of its own |
| `History` | `storage.go` with the calls `advanceTurnOrDeal` and `BroadcastGameStart` make to it | the tables of this game; `todo` holds the statements the room has yet to run, `announcing` the handlers between `StartGame` and `BroadcastGameStart`, `up` whether the process runs; `again`, `announced`, `early`, `rewound` tell in what order starts, announcements and rounds came |
| `History_proofs` | theorems about `History`, and that it implements `Ledger` | |
| `WsClient` | `ws-client.ts`, and what `main.ts` does with it | `timer` is the timer in `reconnectTimer`, `leaked` the running ones it no longer refers to, `sock` the readiness of each socket up to its close event |
| `WsClient_proofs` | theorems about `WsClient` | |
| `MCTurnFlow`, `MCRoom`, `MCHistory`, `MCDelivery` | packs for the runs | |

`Cards`, `Capture`, `Scoring` and `GameState` extend one another; `TurnFlow`
extends `GameState`, and `Room` extends `TurnFlow` and takes its actions: a move
of the room is a move of the turn flow plus what happens to timers and
connections. `TurnFlow`, without any of these, is the abstract specification
of a room, and the run `calm` checks that `Room` implements it. `History` and
`Delivery` extend `TurnFlow` in the same way: a move of the game plus what is
recorded of it, or what is sent. `History` implements `Ledger` by a refinement
mapping (`Book`): rounds entered in order, nothing entered ever changed, nothing
entered once a game is closed, and a final score set once, to no less than the
rounds paid, whatever statement fails and wherever the process stops. `StartGame`
is an action of `History`, as often as a handler may call it: any handler that
finds the room full calls it (`handler.go:176`), which replaces the game and keeps
its ID. Once that has happened after a scored round the ledger is void, and all it
then promises is that nothing is taken out.

Operators commented "Mutant of ..." belong to no specification. Each is a
plausible mistake in the operator after it; put in its place, it makes a
property fail, which shows that the property depends on that code.

Abstractions: the deck is a set from which a deal takes any cards (the code
shuffles once and never looks before dealing, so the games are the same);
hands, table and piles are sets, since their order is never used except for
"the first card of the hand", which is any card for the same reason. Options
are named by their content instead of by their index in the list that was sent.
Messages, logging and storage are left out of `TurnFlow`, `Room` and `Lobby`.
`TurnFlow`, `Room` and `Delivery` follow a game that is started once; how it comes
to be started again is in `Lobby`, and what that does to the game, the pending
choice and the history in `History`. Which seat is named the winner when several
reach the winning score (`state.go:205-219`) is only reported and is left out.
In `Delivery` all messages of a handler enter the channel in one step, and a
write loop takes a message and writes it in one; the first is what the mutex
makes it for everybody but the write loop, whose taking a message in between is
no different from taking it before, and the second can be told apart only by a
second write loop. Messages that keep nothing on the page (`ROUND_END`,
`TURN_AUTO_SKIPPED`, `PLAYER_DISCONNECTED`, `PONG`, `ERROR`) are left out. An
absent player's turn may be skipped at any time, since `Room` says when the timer
runs; a hand is a set, so a slice torn by the unlocked read of `PlayerHand` is one
of the two hands. `trust` records what has been lost, dropped, overtaken or
overwritten on the way to the page. Once it is "none" the code promises nothing
about the page, and `Followed` ends the behaviour there; all that leads to it
(a full channel, a second write loop, a message between the reading of a snapshot
and its writing) is in the model, and section 6 lists it. `History` leaves out
the time to live of a token (24 hours).
The two roles of a player's `done` channel, "is there a write loop" and
`isConnected`, are the one variable `online`.

## 3. Runs

Every run is exhaustive within its bounds.

| Run | Bounds | Shows |
|---|---|---|
| `two` | 2 players, 8 cards, two deals of 2 cards each, win at 5 points, one round and the deal of the next | conservation of cards, hands and deals in step, valid pending choices, end of the game, last capturer, that a round pays out the points of the pack, tablas and Špil; captures against the rules of the game; an option's groups share one value; every move plays one of the cards dealt, and the round ends with the last |
| `teams` | 4 players, 4 cards, one deal of 1, win at 6, 2 rounds; 1 fault (a statement that fails or a further call of `StartGame`, each at any time) and a stop of the process | partners are tied, and a round pays out to both of them, also after the game was started again; a recorded game adds up; tokens outlive the game's recording; `History` implements `Ledger` |
| `calm` | 2 seats, perhaps one of the computer player, 4 cards, win at 4, 2 rounds, 2 connections per player, callbacks that never wait | `Room` implements `TurnFlow`; the timer is only ever for an absent mover; the computer player is scheduled exactly when it is to move and its turn ends |
| `late` | the same, win at 5, 3 rounds, one waiting callback per player | with late callbacks cards are still never doubled, only the mover gives up cards, no seat is passed over |
| `lobby` | 3 connections, a room for 2, with or without the computer player | the game has the players who joined; a full room starts and an abandoned room is removed, and until then a handler that will do it is under way |
| `delivery` | 2 players, 4 cards, two deals of 1, win at 8, one round and the deal of the next; the page of seat 0, 2 connections, a channel of 5 | the messages carry the whole game to the page; after a reconnect the page settles; the player to move gets to see it, and until then what shows it is under way |
| `client` | 3 sockets, 3 sockets and timers under way when the player clicks | one live connection, no known timer without a session; a lost connection is tried again, and until then a timer or a close event is to come |
| `pending`, `stall`, `stale`, `broadcast`, `unlisted` | as above | violations, see section 6 |

Why the bounds are enough. The packs keep two aces, a pair, cards that add up
to others and every kind of scoring card, so that no capture, one and several
occur, tablas and ties of Špil occur, and rounds end with and without a winner.
What is wrongly carried into the next round shows as soon as that round is dealt;
`late` plays three rounds, because a stale choice comes to a card of the same
name only after a new deal. `MaxRounds` stops the play after that many rounds and
bounds nothing else; `MaxSessions`
and `MaxLate` bound connections and waiting callbacks per player. Two
connections are the least with which an old one can end after a new one has
begun, one late callback the least that can be overtaken. The pack of `delivery` is the smallest with a choice between two captures, a
tabla, a deal within a round, a round that ends the game and one that does not; a
channel of 5 holds the messages of any handler but not of two, so it is full
whenever it lags behind; two connections are one reconnect, which may meet the
first one's write loop, read loop and messages. The pack of `teams` is the smallest
with a choice between captures, so that a choice may be left behind by a start; a
first and a second round with and without a winner occur. One fault is one
statement that fails or one further start with its announcement, before the first
round, between rounds or after the end; both together, and any number of them, are
for the theorems. Three connections are
one more than the seats, so joins, refusals and reconnects all compete. Three
sockets let a page have one in use and the close events of two others to come;
`MaxUnderway` bounds how often the player clicks before they have come, the one
thing that adds to them. The real
numbers (52 cards, hands of 6, 4 face up, 101 points) are the theorems' business.

## 4. Fairness

`Delivery`: weak fairness of each write loop and of the handshake's next step:
both are goroutines that wait for nothing but the channel, the mutex and the
socket buffer. Nothing makes a player move, a connection break or a page come
back. `Room`: weak fairness of the computer player's timer and of the turn timer with
its callback. `time.AfterFunc` does run its function, and Go's mutex hands the
lock to a waiter that has been starved. Nothing makes a player play, leave or
come back. `Lobby`: weak fairness of a handler's next call, because a handler
that has its first message waits for nothing but locks (its writes go to socket
buffers; a write that blocks for ever is not modelled). Nothing makes anybody
connect or disconnect. `WsClient`: weak fairness of close events and of the
reconnect timer, which the browser delivers; the server may refuse or never
answer, and the network may fail every time.

## 5. Proofs

Everything is proved from the assumptions on the constants that the modules
name: `PackAssumption` (a finite set of cards), `SizeAssumption` (positive
sizes), `DealsAssumption` (the cards on the table and a whole number of deals
make up the pack: 52 = 4 + 4 * 12 = 4 + 2 * 24), and where they come in
`RoomAssumption`, `LobbyAssumption`, `HistoryAssumption` (`MaxFaults` is a
number), `DeliveryAssumption` (a connection at least, and a channel that holds
the five messages of the longest handler; the code's holds 32) and
`WsClientAssumption`. No theorem fixes the number of players, hand size, table
size, winning score, rounds, connections or failures. A theorem with a further
hypothesis has it in its statement, and it is named below.

### The game: `TurnFlow_proofs`

| Theorem | Property |
|---|---|
| `FlowTypeCorrect` | `FlowTypeOK` |
| `CardsAreConserved` | `CardsConserved` |
| `HandsRunDownTogether` | `HandsInStep` |
| `CurrentPlayerHasACard` | the mover's hand is never empty while the game is on |
| `DealsComeOut` | `DeckInStep` |
| `PendingChoicesFit` | `PendingFits` |
| `WinnersStopTheGame` | `NobodyHasWonYet` |
| `LastHandGoesToACapturer` | `LastCapturerHasCaptured` |
| `OptionsHaveOneValue` | `OptionsShareOneValue` |
| `CapturesAreRight` | `CapturesFollowTheRules`, while `FewGroups` |
| `CapturesAreRightOnLowTables` | `CapturesFollowTheRules`, with at most 5 cards on the table that count for no more than the card played |
| `PartnersStayTied` | `PartnersTied` |
| `RoundsPayOut` | `RoundPaysOut` |
| `CardsArePlayed` | `EveryCardIsPlayed` |

The inductive invariant is `FlowInv`: the game is `Settled`, the types are right
and `PendingFits`. The properties are not inductive one by one: that a deal
comes out needs that all hands became empty together, which needs that hands run
down in seat order; that no card is doubled by a capture needs that the option
lies on the table, which is `PendingFits`; that nobody plays on after winning
needs that the last capturer and the scores belong to one round. `advanceTurnOrDeal`
is one step of the specification but several operations on the game, so the
proof has a predicate for each stage in between: `Moved` (the card has been
played, the turn has not passed) and `Undealt` (hands empty, cards to come). One
lemma takes the game through each operation: `DiscardMoves`, `CaptureMoves`,
`AdvanceSettles`, `EndRoundSettles`, `DealSettles`. `PartnersStayTied` and
`RoundsPayOut` add the sums over the seats to that: `ApplyRoundScores` gives
both partners the same, and what a round pays is what its piles are worth,
which make up the pack.

`FewGroups` says that for each card of the mover fewer than 63 groups of table
cards match it, so that the shift at `capture.go:68` counts their combinations
in an `int`. It is a hypothesis because the code does not guarantee it: a table
that has grown by automatic skips may match more. A group can only hold cards
that count for no more than the card played (`GroupsAreLow`); five of those make
31 groups at most, so the second theorem needs no hypothesis about the search,
however many higher cards the table has.

`EveryCardIsPlayed` is why a round comes to an end and leaves nothing unplayed:
the cards in hands and deck become fewer by exactly the one that is played, also
where the same step deals (`DealPlaysNothing`) or passes the turn
(`TurnPlaysNothing`), and the step that plays the last one is the one that scores
the round. It is a ranking argument, so all that is left to fairness is that
somebody moves.

What a recursive definition computes needs induction, and the library's
induction theorems take an operator, which the provers cannot instantiate.
`Sums_proofs` therefore takes the property as a set, `Good`, of the numbers or
finite sets that have it, and gets the induction from a smallest counterexample
(`WFMin`). On it rest the lemmas about `SumOver`, those of `Capture_proofs`
(`subsetSumHelper` finds a sum exactly if the group has a choice of values that
adds up to it) and those about `FoldLeft` in `Delivery_proofs`.

### The room: `Room_proofs`

| Theorem | Property | For |
|---|---|---|
| `RoomTypeCorrect` | `RoomTypeOK` | every `MaxLate` |
| `LateCallbacksDoubleNoCard` | `CardsNeverDoubled` | every `MaxLate` |
| `LateAwardGoesToACapturer` | `LastCapturerHasCaptured` | every `MaxLate` |
| `NobodyIsPassedOver` | `OnlyMoverPlays` | every `MaxLate` |
| `RoomImplementsTurnFlow` | `FlowSpec` | `MaxLate = 0` |
| `TimerForAbsentMoverOnly` | `TimerIsForAbsentMover` | `MaxLate = 0` |
| `BotMovesInItsTurn` | `BotIsScheduled` | `MaxLate = 0` |
| `OnlyLatenessStalesAChoice` | `PendingFits` | `MaxLate = 0` |
| `OnlineMeansOpen` | a player taken for online has an open connection | every `MaxSessions`, `MaxLate` |
| `OneSessionIsReported` | `ConnectedMeansOpen`: and the other way round | `MaxSessions = 1` |

With callbacks that come late `FlowInv` is lost: a pending choice may belong to
a table and a hand that are gone. What every operation keeps even then is the
weaker `RoomKept`, around the predicate `Kept`: no card in two places, a mover with a seat, an award to a seat
that has captured. An `ApplyCapture` that succeeds has checked the cards itself;
one that fails because the choice is stale only takes the played card out of the
mover's hand, so that cards may be lost then but not doubled.
`MaxLate = 0` (a fired callback gets the mutex at once) is assumed of the
others because they are false without it: the run `pending` shows the violation,
and `OnlyLatenessStalesAChoice` that lateness is all it takes. In the same way
`stale` violates `ConnectedMeansOpen` with two connections of a player, and
`OneSessionIsReported` shows that it needs the second: with one connection at a
time `done` is open exactly as long as the connection is.
Their invariant `CalmInv` adds to `FlowInv` what relates the timers to the turn:
nobody's timer runs while a choice is pending, and the computer player never has
one pending. A step of the room is then a move of the turn flow or leaves the
game alone.

### The lobby: `Lobby_proofs`

`LobbyTypeCorrect` (`LobbyTypeOK`) and `GameIsPlayedByItsPlayers`
(`GameHasItsPlayers`), from the invariant `LobbyInv`: between two calls of a
handshake the player it serves keeps the seat (`ServesASeat`), one player joins
on one connection only (`JoinsOnce`), who has a channel has a seat and the other
way round (`SeatsAreKnown`), and a handler is about to start the game only while
the room is full (`StartsWhenFull`). The last is what keeps the game's players
those of the room, since the game is started in another critical section than
the one that found the room full.

`StartIsToCome` (`StartIsUnderWay`) and `RemovalIsToCome` (`RemovalIsUnderWay`)
are what is safety in the two liveness properties of the run: no interleaving of
joins, attachments and Disconnects lets the last handler that would start the
room, or remove it, pass by. What is left to fairness is that handlers go on.

### The history: `History_proofs`

| Theorem | Property |
|---|---|
| `SessionsOutliveTheGame` | `LostSessionIsKnown` |
| `HistoryIsComplete` | `HistoryAddsUp` |
| `HistoryImplementsLedger` | `LedgerSpec` |
| `RecordsKeepUp` | `HistoryInv`, the invariant behind the last two |
| `RestartsDoubleNoCard` | no card is in two places, however often the game is started |
| `HistoryPlaysTheGame` | the steps of `TurnFlow`, as long as the game is started once |
| `FirstGameIsSettled` | `FlowInv`, as long as the game is started once |

Wherever the process stops before the end of the game is recorded, every
player's token is still stored, unless a statement has failed or a round was
scored before the first announcement (`AllWell`); further starts and announcements
change nothing in this. What makes it so
is the order of the statements, which is the inductive invariant `RecordInv`: no
token is deleted before the row of the game is updated (`EndFirst`), and that row
is inserted before anything else is written (`StartFirst`), or the update would
find none and the tokens would go although no end is recorded. A property of the
tables alone would not be inductive, since it says nothing of the statements
still to run.

`HistoryInv` has three parts. `GameInv` holds of any game, however it was started:
no card in two places, hands empty once it is over. It is weaker than `FlowInv`
because a choice that `StartGame` has left behind may be taken in a game it does
not fit, where it fails and costs the mover a card; `PendingFits` and with it
conservation are gone then. What the operations keep of any game,
the predicate `Kept`, is the same as for late callbacks in `Room_proofs`; its
lemmas are at the end of `TurnFlow_proofs`. `RecordInv` is the one above. `OneGame`
holds until a start comes after a scored round (`~rewound`) and
keeps the accounts. There is a `paid` for each row
such that the rows of a seat add up to its total in the game, every recorded row
and every row in `todo` is what was paid (`Accounts`); what the tables lack is
still to come in `todo`, as long as no statement has failed (`NothingMissing`);
and `todo` is in the order of the ledger: rows after those recorded and before
the end, each final score once (`RowsInOrder`, `FinalsOnce`, `OpenUntilScored`).
A statement that runs moves an entry from `todo` to a table, one that fails only
drops it, a round played adds to both sides of the sum, and a start before the
first scored round finds both sides zero. Then a final score
is the sum of its seat's rows if none is missing and no less than those recorded
if some are, which is what `Ledger` asks of the step that sets it.

After a start that comes later no claim about the rows is left to prove, because
rows of two games stand side by side (section 6). `early` excepts a
round that is scored before the first announcement, when `RecordGameEnd` may find
no row to update.

`HistoryPlaysTheGame` and `FirstGameIsSettled` say that with its recording around
it the game is one of `TurnFlow` until `StartGame` is called a second time; that
call is no step of `TurnFlow`.

### Delivery: `Delivery_proofs`

| Theorem | Property |
|---|---|
| `GameIsFollowed` | `FlowInv` and `LinkInv`: the game of `TurnFlow`, and well formed connections |
| `DeliveryTypeCorrect` | `DeliveryTypeOK` |
| `MessagesCarry` | `MessagesCarryTheGame` |
| `SnapshotsSettle` | `SnapshotSettles` |
| `MoveComes` | `MoveIsOnItsWay` |
| `DeliveryPlaysTheGame` | `FlowSpec` |

The reducer of the page is folded over the messages under way (`Shows`). For
every handler it is proved that what it sends `Carries` its move: a page that
shows the game before the move shows, with the messages, the game after it. For
a move that begins a new round these are up to five different messages, each of
which sets some fields of the page and leaves the others. `MessagesCarryTheGame` is then an induction over the steps of the
system, which append to the channel and take from its head.

After a reconnect that argument is not open: messages older than the snapshot
come after it, so the page passes through states that are no state of the game.
Instead the proof goes by the facets of a page (turn, each card of the table,
each card of the hand, counts and scores). A message sets a facet to what it says or leaves it alone, whatever the
page, and so the last message under way that sets it decides. `Fits(queue, T)` says
that what is under way leaves a page that is like `T` in a facet like `T` in it;
it holds for the page of the game, is kept by every handler, and survives the
taking of messages from the head. `SnapshotInv` says, for each stage of the
reconnect (nothing read, the state read, the state written, the hand read), what
the messages under way make of the page once the rest of the snapshot is
written. The hand is the exception that `SnapshotSettles` makes: `CAPTURE_MADE`
takes no card from it, so one card may stay, and `KeepsTrack` is why it is never
more than that one.

`MoveIsOnItsWay` is what is safety in `MoverCanMove`. Its invariant `MoveInv` says
that the newest connection has its write loop as long as it is up, that nobody
plays on a connection whose handshake goes on, and that the turn is told
(`TurnIsTold`): the last message under way is the `TURN_START` of the player to
move, and when none is left the hand is enabled exactly if that is `Me`. The
last message written is a `TURN_START`, and the end of a handshake enables the
hand by the turn the page shows, which `SnapshotSettles` says is the right one.

### The client's connection: `WsClient_proofs`

`OneConnectionOfAPage` (`OneLiveSocket`), `NoRetryWithoutSession`
(`RetryHasSession`) and `WsTypeCorrect` (`WsTypeOK`) for any number of sockets.
Only `connect` brings a socket to life, and it makes that socket the one in use
after closing the one before; `EventKeepsOne` covers every other event. The
second is inductive as it stands. For the third, only the close event of a socket
that was under way makes a timer, and a click adds to those only below
`MaxUnderway` (`FewUnderway`). `RetryIsToCome` (`RetryIsUnderWay`) is what is
safety in `LostIsRetried`: as long as there is a session, each way to lose or to
replace a connection leaves a timer or a close event to come.

### Only model-checked

Liveness, which with its fairness and `ENABLED` is out of the prover's reach:
`BotNeverStalls`, `FullRoomStarts`, `AbandonedRoomGoes`, `MoverCanMove` and
`LostIsRetried`. Of all but the first the safety half (what has to happen is
under way) is a theorem. Every other property of a passing run is stated by a
theorem above. The runs remain what tells that the properties say something: each has a
mutant of the code that breaks it.


## 6. Where the code and its texts disagree

- `pending`: a fired callback that waits for the mutex is not stopped by
  `AttachConn` or `handlePlayCard`; it then skips the turn of a player who is
  back, and a choice that was pending stays pending in the next player's turn
  (`room.go:42`, `devlog.md:155-156`: "so there is no race"). What the next player
  then chooses fails in `ApplyCapture`.
- `stall`: a player who disconnects during the own turn is never skipped, because
  only the passing of the turn starts the timer (`server/README.md:131`).
- `stale`: the end of an old connection closes the new connection's channel
  (`room.go:559`). The player counts as offline until the new write loop, which
  stops, closes its connection as well (`room.go:508`).
- `broadcast`: the game is announced before every connection is attached
  (`room.go:522`); the last player's handler then starts the game again.
- `unlisted`: a room can be filled after it was decided to remove it, and its
  game is then in no registry (`manager.go:19`).

Two sentences are wrong without a run of their own. `devlog.md:116` says that all
writes use `OR REPLACE` or `UPDATE`; `RecordGameStart` uses `OR IGNORE`
(`storage.go:119-130`), and has to: with `OR REPLACE` an announcement that is
repeated after the end would set final scores back to 0, which is the mutant
`ReplacePlayer`. `DEPLOY.md:270` says that reconnect tokens are in memory only; they
are stored, which is what lets a player be told `SESSION_EXPIRED` after a restart
(`LostSessionIsKnown`).

Met while modelling, without a run of their own:

- The handler that starts the game again (run `broadcast`) may come late, since its
  player can take part on another connection meanwhile. If a round has been scored
  by then, its `StartGame` begins a new game under the same ID: `INSERT OR REPLACE`
  (`storage.go:141`) overwrites the recorded rounds one by one, and those that the
  new game does not reach stay listed with it, so that the listed rounds do not add
  up to the final scores. `HistoryAddsUp` excepts this case (`rewound`); without the
  exception TLC finds the counterexample.
- `StartGame` (`room.go:191`) also keeps a choice that is pending, which then binds
  the mover of the new game. A capture that fails because of it may take the mover's
  last card; the turn stays with a mover who has none, and the game is stuck
  (`Stopped` of `History`).
- A reconnect sends no capture options (`handler.go:150`). A player who comes
  back with a choice pending is not asked again, is answered `CAPTURE_PENDING` to
  every card, and the timer has been stopped by `AttachConn`. `MoverCanMove`
  excepts this case.
- If the options do arrive after the snapshot and the choice is made, the page
  keeps the played card in its hand: the snapshot has put it there again and
  `CAPTURE_MADE` takes none away. `SnapshotSettles` allows for this one card.
- A card discarded just before a snapshot is read is on the page's table twice when
  its message comes after the snapshot; `SnapshotSettles` speaks of the table as a
  set.
- A reconnect also sets the tablas shown back to 0 and the deals left to 0
  ("last deal"), since `HAND_DEALT` there has no `dealsRemaining`.
- A snapshot is read and written in separate steps; a message that the write loop
  writes in between is overwritten by what is older, until the next round.
- A write loop whose connection was replaced before its `done` channel was closed
  goes on, and writes to the new connection beside the new loop and the handshake.
- A process that stops between the statements of `RecordGameEnd` leaves a game that
  is listed with final scores of 0.

A bot room can also get a third seat when somebody joins between `Join` and
`AddBot`; `GameHasItsPlayers` therefore speaks of rooms without the computer
player.

## 7. Not modelled

Parsing and marshalling (`protocol.go`) keep no state. Of the user interface only
what a move depends on is in `ClientState`; the rest of it, sound, static files and HTTP routing
hold nothing that another part depends on. The number of cards on a table with
which the capture search gets too slow is beyond TLC: `FindCaptureCombinations`
has the overflow of its mask, which no run reaches; the theorems of section 5 say
when it cannot happen. The expiry of reconnect tokens
after 24 hours, a storage that could not be opened (nothing is recorded then) and a
write that blocks for ever are left out. Finished rooms are never removed from
the registry; there is no behaviour to check in that.

`WsClient` shows two things no property forbids. The close event of a socket
that `connect` replaced may come after the new one has opened; it then stops the
ping of the new connection and schedules a reconnect that replaces it. And
`scheduleReconnect` may overwrite a running timer, which nothing can stop any
more: it fires even after the session has ended. The repository promises nothing
about either.

## 8. Plan

1. `OneLiveSocket` together with a server that restarts: `WsClient` composed with
   the handshake's answers.
2. Proofs: that the pages of all players agree, from `MessagesCarry` for each; a
   bound on the table under which `FewGroups` holds with more than five low cards.
3. A weaker invariant of the table and the pending choice with late callbacks:
   which of them can be stale at once, and what a stale choice may still capture.
