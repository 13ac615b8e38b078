SPECIFICATION LiveRoomSpec
CONSTANTS
    NumPlayers = 2
    HandSize = 1
    TableSize = 2
    WinScore = 4
    MaxRounds = 2
    Pack <- RoomPack
    BotSeats <- NoSeatOnly
    MaxSessions = 1
    MaxLate = 0
PROPERTY OfflineTurnEnds
