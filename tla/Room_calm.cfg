SPECIFICATION LiveRoomSpec
CONSTANTS
    NumPlayers = 2
    HandSize = 1
    TableSize = 2
    WinScore = 4
    MaxRounds = 2
    Pack <- RoomPack
    BotSeats <- MaybeSecondSeat
    MaxSessions = 2
    MaxLate = 0
INVARIANTS
    RoomTypeOK
    TimerIsForAbsentMover
    BotIsScheduled
PROPERTIES
    FlowSpec
    BotNeverStalls
