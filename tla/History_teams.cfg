SPECIFICATION HistorySpec
CONSTANTS
    NumPlayers = 4
    HandSize = 1
    TableSize = 0
    WinScore = 6
    MaxRounds = 2
    Pack <- TeamPack
    MaxFaults = 1
INVARIANTS
    PartnersTied
    HistoryAddsUp
    LostSessionIsKnown
PROPERTIES
    RoundPaysOut
    LedgerSpec
