SPECIFICATION Spec
CONSTANTS
    c1 = c1
    c2 = c2
    c3 = c3
    c4 = c4
    ann = ann
    bob = bob
    cyd = cyd
    r1 = r1
    r2 = r2
    NoRoom = NoRoom
    NoUser = NoUser
    Conns <- MCConns
    Users <- MCUsers
    Rooms <- MCRooms
    Rating <- SameRating
    Tolerance = 0
    SearchTime = 1
    Countdown = 2
    Grace = 2
    Faults = {}
    MaxFaults = 0
SYMMETRY Symmetry3
INVARIANTS 
    SeatedMeansInRoom
