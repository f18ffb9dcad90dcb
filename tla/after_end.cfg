SPECIFICATION Spec
CONSTANTS
    Height = 4
    Width = 3
    Margin = 0
    Pieces <- MCPieces
    Color <- MCColor
    StartCell <- MCStartCell
    StartKind <- MCStartKind
    MoveDuration = 2
    JumpDuration = 2
    LongRest = 3
    ShortRest = 1
    TickSizes <- MCTicks
    MaxClock = 5
PROPERTIES
    NothingAfterEnd
