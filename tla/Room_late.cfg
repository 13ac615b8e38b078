SPECIFICATION RoomSpec
CONSTANTS
    NumPlayers = 2
    HandSize = 1
    TableSize = 2
    WinScore = 5
    MaxRounds = 3
    Pack <- RoomPack
    BotSeats <- MaybeSecondSeat
    MaxSessions = 2
    MaxLate = 1
INVARIANTS
    CardsNeverDoubled
    LastCapturerHasCaptured
PROPERTY OnlyMoverPlays
