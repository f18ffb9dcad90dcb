SPECIFICATION LiveSpec
CONSTANTS
    MaxRequests = 3
    MaxReceived = 5
CHECK_DEADLOCK FALSE
INVARIANTS
    TypeOK
    SentInOrder
    NothingUnsentAtHangUp
    OneSearchAtATime
    HeardAsSaid
    ReadAsMeant
PROPERTIES
    ThreadEndsWithLink
    ThreadEndsWithMain
    CloseIsRead
