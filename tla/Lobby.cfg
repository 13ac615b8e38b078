SPECIFICATION LobbySpec
CONSTANTS
    Conns = {c1, c2, c3}
    MaxPlayers = 2
    Bot = bot
    c1 = c1
    c2 = c2
    c3 = c3
    bot = bot
INVARIANTS
    LobbyTypeOK
    GameHasItsPlayers
    StartIsUnderWay
    RemovalIsUnderWay
PROPERTIES
    FullRoomStarts
    AbandonedRoomGoes
