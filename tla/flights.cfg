SPECIFICATION LiveSpec
CONSTANTS
    Height = 4
    Width = 2
    Margin = 1
    Pieces <- MCPieces
    Color <- MCColor
    StartCell <- MCStartCell
    StartKind <- MCStartKind
    MoveDuration = 2
    JumpDuration = 2
    LongRest = 3
    ShortRest = 1
    TickSizes <- MCTicks
    MaxClock = 5
INVARIANTS
    TypeOK
    PlacedOnce
    FlightListExact
    LossesAreReal
    PawnsPromoted
    PaceKept
    NothingOverdue
PROPERTIES
    EachLossOnce
    LoopAdvances
    KeepsFates
    EveryFlightEnds
