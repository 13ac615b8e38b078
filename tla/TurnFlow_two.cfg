SPECIFICATION FlowSpec
CONSTANTS
    NumPlayers = 2
    HandSize = 2
    TableSize = 0
    WinScore = 5
    MaxRounds = 1
    Pack <- TwoPlayerPack
INVARIANTS
    FlowTypeOK
    CardsConserved
    HandsInStep
    DeckInStep
    PendingFits
    NobodyHasWonYet
    LastCapturerHasCaptured
    CapturesFollowTheRules
    OptionsShareOneValue
PROPERTIES
    RoundPaysOut
    EveryCardIsPlayed
