SPECIFICATION DeliverySpec
CONSTANTS
    NumPlayers = 2
    HandSize = 1
    TableSize = 0
    WinScore = 8
    MaxRounds = 1
    Pack <- DeliveryPack
    Me = 0
    QueueSize = 5
    MaxConns = 2
CHECK_DEADLOCK FALSE
INVARIANTS
    DeliveryTypeOK
    MessagesCarryTheGame
    SnapshotSettles
    MoveIsOnItsWay
PROPERTY MoverCanMove
