SPECIFICATION PlaySpec
CONSTANTS
    Height = 1
    Width = 3
    Margin = 1
    Pieces <- MCPieces
    Color <- MCColor
    StartCell <- MCStartCell
    StartKind <- MCStartKind
    MoveDuration = 1
    JumpDuration = 1
    LongRest = 1
    ShortRest = 1
    TickSizes <- MCTicks
    MaxClock = 3
    FrontEnds = {"window", "text", "network"}
    Mine = "w"
INVARIANTS
    PlayTypeOK
    SelectionFresh
    LocalStaysOnBoard
PROPERTIES
    PickedPieceMoves
    OwnPiecesOnly
