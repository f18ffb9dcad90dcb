SPECIFICATION Spec
CONSTANTS
    c1 = c1
    c2 = c2
    c3 = c3
    c4 = c4
    ann = ann
    bob = bob
    cyd = cyd
    r1 = r1
    r2 = r2
    NoRoom = NoRoom
    NoUser = NoUser
    Conns <- MCConns4
    Users <- MCUsers3
    Rooms <- MCRooms
    Rating <- SameRating
    Tolerance = 0
    SearchTime = 0
    Countdown = 2
    Grace = 1
    Faults = {"rating", "directory", "crash"}
    MaxFaults = 1
SYMMETRY Symmetry
INVARIANTS
    TypeOK
    Membership
    SeatsReserved
    AbsentOnTheClock
PROPERTIES
    SeatKept
