SPECIFICATION LiveSpec
CONSTANTS
    c1 = c1
    c2 = c2
    c3 = c3
    c4 = c4
    ann = ann
    bob = bob
    cyd = cyd
    r1 = r1
    r2 = r2
    NoRoom = NoRoom
    NoUser = NoUser
    Conns <- MCConns
    Users <- MCUsers
    Rooms <- MCRoom
    Rating <- RatingsApart
    Tolerance = 0
    SearchTime = 1
    Countdown = 2
    Grace = 3
    Faults = {}
    MaxFaults = 0
INVARIANTS
    NobodyLockedOut
    RatedForTheWinner
    Membership
PROPERTIES
    SearchEnds
    FinishedRoomCloses
    AbsenceEnds
    KeepsPromise
