--------------------------- MODULE GameServerProofs ---------------------------
(***************************************************************************)
(* What holds of the server for any number of connections, usernames and   *)
(* rooms, any ratings, and any faults the environment may have.            *)
(*                                                                         *)
(* The inductive invariant is RoomsInv and QueueInv.  RoomsInv adds to the *)
(* properties of the runs what they rest on: a room that is not open is    *)
(* empty, an open one knows the names of everyone in it and the directory  *)
(* has them reserved, a connection that lives carries the name of the seat *)
(* it has, and a connection that has not entered yet is nowhere.           *)
(* The last part shows that the server implements Tables: Tidy adds what   *)
(* the ends of the games need, and each action has a lemma that names the  *)
(* step of Tables it is.                                                   *)
(***************************************************************************)
EXTENDS ServerTables, GameSessionProofs

Sess == SessionsOver(Conns, Users)

DirectoryType ==
    /\ roomKeys \in SUBSET Rooms /\ joinKeys \in SUBSET Rooms
    /\ userKey \in [Users -> Rooms \cup {NoRoom}]

RoomsType ==
    /\ open \in SUBSET Rooms /\ codes \in SUBSET open /\ halfClosed \in SUBSET open
    /\ session \in [Rooms -> Sess]
    /\ connections \in [Rooms -> SUBSET Conns]
    /\ participants \in [Rooms -> SUBSET Conns]
    /\ usernames \in [Rooms -> SUBSET Users]
    /\ closing \in [Rooms -> 1 .. Grace]

States == {"CONNECTED", "LOBBY", "SEARCHING", "IN_ROOM", "DISCONNECTED"}

\* Logged in and not gone.
Active == {"LOBBY", "SEARCHING", "IN_ROOM"}

PeopleType ==
    /\ state \in [Conns -> States]
    /\ roomOf \in [Conns -> Rooms \cup {NoRoom}]
    /\ user \in [Conns -> Users \cup {NoUser}]

\* The rooms that work.
Sound == open \ halfClosed

Named == \A c \in Conns : user[c] \in Users <=> state[c] \in Active

\* c is in no room and has no seat.
Fresh(c) ==
    /\ roomOf[c] = NoRoom
    /\ \A r \in Rooms : c \notin connections[r] /\ \A x \in Seated(session[r]) : x.conn # c

Newcomers == \A c \in Conns : state[c] = "CONNECTED" => Fresh(c)

ClosedRooms ==
    \A r \in Rooms \ open : /\ connections[r] = {} /\ participants[r] = {}
                            /\ usernames[r] = {} /\ session[r] = NewSession

HalfClosedRooms == \A r \in halfClosed : participants[r] = {} /\ usernames[r] = {}

NamesReserved == \A r \in open : \A u \in usernames[r] : userKey[u] = r

NamesKnown ==
    \A r \in Sound : /\ \A x \in Seated(session[r]) : x.user \in usernames[r]
                     /\ \A c \in connections[r] : user[c] \in usernames[r]

Orders == \A r \in Rooms : Orderly(session[r])

SeatsNamed ==
    \A r \in Rooms : \A x \in Seated(session[r]) : state[x.conn] \in Active => x.user = user[x.conn]

\* Membership, SeatsReserved and AbsentOnTheClock, by the set of seats.
Members ==
    \A r \in Sound : /\ participants[r] \in SUBSET connections[r]
                     /\ \A c \in Conns : c \in connections[r] <=> roomOf[c] = r

Reserved ==
    \A r \in open : r \in roomKeys /\ \A x \in Seated(session[r]) : userKey[x.user] = r

Awaited ==
    \A r \in Sound : ~session[r].over =>
        \A x \in Seated(session[r]) : x.role \in Sides =>
            (x.conn \notin connections[r] <=> Counting(session[r], x.role))

RoomsInv ==
    /\ DirectoryType /\ RoomsType /\ PeopleType
    /\ Named /\ Newcomers /\ ClosedRooms /\ HalfClosedRooms
    /\ NamesReserved /\ NamesKnown /\ Orders /\ SeatsNamed
    /\ Members /\ Reserved /\ Awaited

QueueInv ==
    /\ entries \in Seq([conn : Conns, rating : Int, waited : 0 .. SearchTime])
    /\ entering \in SUBSET Conns
    /\ \A i \in DOMAIN entries : /\ state[entries[i].conn] \in Active
                                 /\ entries[i].conn \notin entering
    /\ \A c \in entering : state[c] = "LOBBY" /\ Fresh(c)

\* No key of the directory outlives the seat it stands for: only while nothing fails.
Locked ==
    /\ halfClosed = {}
    /\ \A u \in Users : userKey[u] # NoRoom =>
          userKey[u] \in open /\ \E x \in Seated(session[userKey[u]]) : x.user = u

\* What every operation on rooms does to the seats, to the ratings and to the keys.
SeatStep ==
    \A r \in open \cap open' : \A x \in Seated(session[r]) : x.role \in Sides =>
        \E y \in Seated(session'[r]) : y.role = x.role /\ y.user = x.user

RateStep == \A r \in Rooms : WellRated(session[r]) => WellRated(session'[r])

LockStep == Locked => Locked'

FreshStep(moved) == \A c \in Conns \ moved : Fresh(c) => Fresh(c)'

-----------------------------------------------------------------------------
\* Users and rooms that are none.

LEMMA Nobody ==
    /\ NoUser \notin Users /\ NoRoom \notin Rooms /\ Countdown \in Nat \ {0} /\ Grace \in Nat \ {0}
    /\ SearchTime \in Nat
BY NoUserAssumption, NoRoomAssumption, CountdownAssumption, GraceAssumption, SearchAssumption

\* What the invariant says of one seat, of one session.
LEMMA SeatFacts ==
    ASSUME RoomsType, Orders, NEW r \in Rooms
    PROVE  /\ session[r] \in Sess /\ Orderly(session[r])
           /\ \A x \in Seated(session[r]) : /\ x \in SeatsOver(Conns, Users)
                                            /\ x.conn \in Conns /\ x.user \in Users
           /\ \A x, y \in Seated(session[r]) : x.conn = y.conn => x = y
           /\ \A x, y \in Seated(session[r]) : x.role = y.role /\ x.role \in Sides => x = y
<1>1. session[r] \in Sess /\ Orderly(session[r])
  BY DEF RoomsType, Orders
<1> QED BY <1>1, SeatedFields, SeatedOnce DEF Sess

-----------------------------------------------------------------------------
\* Connections that move into a room.

\* t is the session s with a seat for every connection of cs.
SeatsGiven(s, t, cs) ==
    /\ t \in Sess /\ Orderly(t)
    /\ Seated(s) \in SUBSET Seated(t)
    /\ \A x \in Seated(t) :
          \/ x \in Seated(s)
          \/ /\ x.conn \in cs /\ x.user = user[x.conn]
             /\ x.role \in Sides => ~Counting(t, x.role)
    /\ \A c \in cs : \E x \in Seated(t) : x.user = user[c]
    /\ \A side \in Sides : Counting(t, side) <=> Counting(s, side)
    /\ t.over = s.over /\ t.result = s.result /\ t.rated = s.rated

\* All of OpenRoom and of JoinRoomOf but the choice of the room.
MoveIn(r, cs, t) ==
    /\ r \in roomKeys' /\ roomKeys \in SUBSET roomKeys'
    /\ roomKeys' \in SUBSET Rooms /\ joinKeys' \in SUBSET Rooms
    /\ userKey' = [u \in Users |-> IF \E c \in cs : u = user[c] THEN r ELSE userKey[u]]
    /\ open' = open \cup {r}
    /\ codes' \in SUBSET open'
    /\ session' = [session EXCEPT ![r] = t]
    /\ connections' = [connections EXCEPT ![r] = @ \cup cs]
    /\ participants' = [participants EXCEPT ![r] = @ \cup cs]
    /\ usernames' = [usernames EXCEPT ![r] = @ \cup {user[c] : c \in cs}]
    /\ state' = [c \in Conns |-> IF c \in cs THEN "IN_ROOM" ELSE state[c]]
    /\ roomOf' = [c \in Conns |-> IF c \in cs THEN r ELSE roomOf[c]]
    /\ UNCHANGED <<closing, halfClosed, user>>

LEMMA MoveInKeeps ==
    ASSUME RoomsInv, NEW r \in Rooms, NEW cs \in SUBSET Conns, NEW t,
           \A c \in cs : state[c] \in Active /\ userKey[user[c]] = NoRoom,
           r \notin halfClosed, r \in open \/ \A c \in Conns : roomOf[c] # r,
           SeatsGiven(session[r], t, cs), MoveIn(r, cs, t)
    PROVE  RoomsInv' /\ SeatStep /\ RateStep /\ LockStep /\ FreshStep(cs)
<1>1. /\ DirectoryType /\ RoomsType /\ PeopleType
      /\ Named /\ Newcomers /\ ClosedRooms /\ HalfClosedRooms
      /\ NamesReserved /\ NamesKnown /\ Orders /\ SeatsNamed
      /\ Members /\ Reserved /\ Awaited
  BY DEF RoomsInv
<1>2. /\ t \in Sess /\ Orderly(t) /\ Seated(session[r]) \in SUBSET Seated(t)
      /\ \A x \in Seated(t) : /\ x.conn \in Conns /\ x.user \in Users
                              /\ x.role \in Sides \cup {"spectator"}
  BY SeatedFields DEF SeatsGiven, Sess
<1>3. \A c \in cs : c \in Conns /\ user[c] \in Users /\ userKey[user[c]] = NoRoom
  BY <1>1 DEF Named
<1>4. /\ user' = user /\ open' = open \cup {r} /\ halfClosed' = halfClosed
      /\ Sound' = Sound \cup {r}
      /\ \A c \in Conns \ cs : state'[c] = state[c] /\ roomOf'[c] = roomOf[c]
      /\ \A c \in cs : state'[c] = "IN_ROOM" /\ roomOf'[c] = r
      /\ \A u \in Users : (\E c \in cs : u = user[c]) => userKey'[u] = r
      /\ \A u \in Users : ~(\E c \in cs : u = user[c]) => userKey'[u] = userKey[u]
  BY DEF MoveIn, Sound
<1>here. /\ session'[r] = t /\ Seated(session'[r]) = Seated(t)
         /\ connections'[r] = connections[r] \cup cs
         /\ participants'[r] = participants[r] \cup cs
         /\ usernames'[r] = usernames[r] \cup {user[c] : c \in cs}
  BY <1>1 DEF MoveIn, RoomsType
<1>there. ASSUME NEW q \in Rooms, q # r
          PROVE  /\ session'[q] = session[q] /\ connections'[q] = connections[q]
                 /\ participants'[q] = participants[q] /\ usernames'[q] = usernames[q]
                 /\ Seated(session'[q]) = Seated(session[q])
  BY <1>1, <1>there DEF MoveIn, RoomsType
<1>5. open \in SUBSET Rooms /\ halfClosed \in SUBSET open /\ NoRoom \notin Rooms
  BY <1>1, Nobody DEF RoomsType
<1>6. r \notin open => /\ connections[r] = {} /\ participants[r] = {} /\ usernames[r] = {}
                       /\ Seated(session[r]) = {}
  BY <1>1, NewSessionSeated DEF ClosedRooms
<1>7. r \in open => r \in Sound
  BY DEF Sound
\* Who moves in had no seat there, and was in no room that works.
<1>8. \A c \in cs : \A x \in Seated(session[r]) : x.conn # c
  <2> SUFFICES ASSUME NEW c \in cs, NEW x \in Seated(session[r]), x.conn = c PROVE FALSE
    OBVIOUS
  <2>1. r \in open
    BY <1>6
  <2>2. x.user = user[c]
    BY <1>1 DEF SeatsNamed
  <2> QED BY <1>1, <1>3, <1>5, <2>1, <2>2 DEF Reserved
<1>9. \A q \in Sound : \A c \in cs : c \notin connections[q]
  BY <1>1, <1>3, <1>5 DEF NamesKnown, NamesReserved, Sound
<1>10. DirectoryType'
  BY <1>1 DEF DirectoryType, MoveIn
<1>11. RoomsType'
  <2>1. {user[c] : c \in cs} \in SUBSET Users
    BY <1>3
  <2>2. /\ session' \in [Rooms -> Sess]
        /\ connections' \in [Rooms -> SUBSET Conns]
        /\ participants' \in [Rooms -> SUBSET Conns]
        /\ usernames' \in [Rooms -> SUBSET Users]
        /\ closing' \in [Rooms -> 1 .. Grace]
    BY <1>1, <1>2, <2>1 DEF RoomsType, MoveIn
  <2>3. open' \in SUBSET Rooms /\ codes' \in SUBSET open' /\ halfClosed' \in SUBSET open'
    BY <1>4, <1>5 DEF MoveIn
  <2> QED BY <2>2, <2>3 DEF RoomsType
<1>12. PeopleType'
  BY <1>1 DEF PeopleType, States, MoveIn
<1>13. Named'
  BY <1>1, <1>3, <1>4 DEF Named, Active
<1>14. FreshStep(cs)
  <2> SUFFICES ASSUME NEW c \in Conns \ cs, Fresh(c) PROVE Fresh(c)'
    BY DEF FreshStep
  <2>1. roomOf'[c] = NoRoom
    BY <1>4, <1>here, <1>there DEF Fresh
  <2>2. ASSUME NEW q \in Rooms
        PROVE  c \notin connections'[q] /\ \A x \in Seated(session'[q]) : x.conn # c
    BY <1>4, <1>here, <1>there DEF Fresh, SeatsGiven
  <2> QED BY <2>1, <2>2 DEF Fresh
<1>15. Newcomers'
  <2> SUFFICES ASSUME NEW c \in Conns, state'[c] = "CONNECTED" PROVE Fresh(c)'
    BY DEF Newcomers
  <2>1. c \notin cs /\ state[c] = "CONNECTED"
    BY <1>4, <1>here, <1>there
  <2> QED BY <1>1, <1>14, <2>1 DEF Newcomers, FreshStep
<1>16. ClosedRooms'
  BY <1>1, <1>4, <1>here, <1>there DEF ClosedRooms
<1>17. HalfClosedRooms'
  BY <1>1, <1>4, <1>here, <1>there, <1>5 DEF HalfClosedRooms
<1>18. NamesReserved'
  <2> SUFFICES ASSUME NEW q \in open', NEW u \in usernames'[q] PROVE userKey'[u] = q
    BY DEF NamesReserved
  <2>1. q \in Rooms /\ u \in Users
    BY <1>11 DEF RoomsType
  <2>2. CASE q = r
    <3>1. u \in usernames[r] \/ \E c \in cs : u = user[c]
      BY <1>4, <1>here, <1>there, <2>1, <2>2
    <3>2. u \in usernames[r] => r \in open /\ userKey[u] = r
      BY <1>1, <1>6 DEF NamesReserved
    <3> QED BY <1>4, <1>here, <1>there, <2>1, <2>2, <3>1, <3>2
  <2>3. CASE q # r
    BY <1>1, <1>3, <1>4, <1>here, <1>there, <1>5, <2>1, <2>3 DEF NamesReserved
  <2> QED BY <2>2, <2>3
<1>19. NamesKnown'
  <2> SUFFICES ASSUME NEW q \in Sound'
               PROVE  /\ \A x \in Seated(session'[q]) : x.user \in usernames'[q]
                      /\ \A c \in connections'[q] : user'[c] \in usernames'[q]
    BY DEF NamesKnown
  <2>1. q \in Rooms
    BY <1>4, <1>here, <1>there, <1>5 DEF Sound
  <2>2. CASE q = r
    <3>1. \A x \in Seated(session[r]) : x.user \in usernames[r]
      BY <1>1, <1>6, <1>7 DEF NamesKnown
    <3>2. \A c \in connections[r] : user[c] \in usernames[r]
      BY <1>1, <1>6, <1>7 DEF NamesKnown
    <3> QED BY <1>4, <1>here, <1>there, <2>1, <2>2, <3>1, <3>2 DEF SeatsGiven
  <2>3. CASE q # r
    BY <1>1, <1>4, <1>here, <1>there, <2>1, <2>3 DEF NamesKnown
  <2> QED BY <2>2, <2>3
<1>20. Orders'
  BY <1>1, <1>2, <1>4, <1>here, <1>there DEF Orders
<1>21. SeatsNamed'
  <2> SUFFICES ASSUME NEW q \in Rooms, NEW x \in Seated(session'[q]), state'[x.conn] \in Active
               PROVE  x.user = user'[x.conn]
    BY DEF SeatsNamed
  <2>1. x \in Seated(session[q]) \/ (x.conn \in cs /\ x.user = user[x.conn])
    <3>1. CASE q = r
      <4>1. x \in Seated(t)
        BY <1>here, <3>1
      <4> QED BY <3>1, <4>1 DEF SeatsGiven
    <3>2. CASE q # r
      BY <1>there, <3>2
    <3> QED BY <3>1, <3>2
  <2>2. ASSUME x \in Seated(session[q]) PROVE x.user = user[x.conn]
    <3>1. x.conn \in Conns
      BY <1>1, <2>2, SeatFacts
    <3>2. state[x.conn] \in Active
      BY <1>4, <1>here, <1>there, <3>1
    <3> QED BY <1>1, <2>2, <3>2 DEF SeatsNamed
  <2> QED BY <1>4, <1>here, <1>there, <2>1, <2>2
<1>22. Members'
  <2> SUFFICES ASSUME NEW q \in Sound'
               PROVE  /\ participants'[q] \in SUBSET connections'[q]
                      /\ \A c \in Conns : c \in connections'[q] <=> roomOf'[c] = q
    BY DEF Members
  <2>1. q \in Rooms
    BY <1>4, <1>here, <1>there, <1>5 DEF Sound
  <2>2. CASE q = r
    <3>1. participants[r] \in SUBSET connections[r]
      BY <1>1, <1>6, <1>7 DEF Members
    <3>2. \A c \in Conns : c \in connections[r] <=> roomOf[c] = r
      BY <1>1, <1>6, <1>7 DEF Members
    <3> QED BY <1>4, <1>here, <1>there, <2>1, <2>2, <3>1, <3>2
  <2>3. CASE q # r
    <3>1. q \in Sound /\ connections'[q] = connections[q] /\ participants'[q] = participants[q]
      BY <1>4, <1>there, <2>1, <2>3
    <3>2. ASSUME NEW c \in Conns PROVE c \in connections'[q] <=> roomOf'[c] = q
      <4>1. CASE c \in cs
        BY <1>4, <1>9, <2>3, <3>1, <4>1
      <4>2. CASE c \notin cs
        BY <1>1, <1>4, <3>1, <4>2 DEF Members
      <4> QED BY <4>1, <4>2
    <3> QED BY <1>1, <3>1, <3>2 DEF Members
  <2> QED BY <2>2, <2>3
<1>23. Reserved'
  <2> SUFFICES ASSUME NEW q \in open'
               PROVE  q \in roomKeys' /\ \A x \in Seated(session'[q]) : userKey'[x.user] = q
    BY DEF Reserved
  <2>1. q \in Rooms /\ q \in roomKeys'
    BY <1>1, <1>4, <1>here, <1>there, <1>5 DEF Reserved, MoveIn
  <2>2. ASSUME NEW x \in Seated(session[q]), q \in open PROVE userKey'[x.user] = q
    <3>1. userKey[x.user] = q /\ x.user \in Users
      BY <1>1, <2>1, <2>2, SeatFacts DEF Reserved
    <3> QED BY <1>3, <1>4, <1>here, <1>there, <1>5, <2>1, <3>1
  <2>3. ASSUME NEW x \in Seated(session'[q]) PROVE userKey'[x.user] = q
    <3>1. CASE x \in Seated(session[q]) /\ q \in open
      BY <2>2, <3>1
    <3>2. CASE q = r /\ x \notin Seated(session[q])
      <4>1. x \in Seated(t)
        BY <1>4, <1>here, <1>there, <2>1, <3>2
      <4>2. x.conn \in cs /\ x.user = user[x.conn] /\ x.user \in Users
        BY <1>2, <3>2, <4>1 DEF SeatsGiven
      <4> QED BY <1>4, <1>here, <1>there, <3>2, <4>2
    <3> QED BY <1>4, <1>here, <1>there, <1>6, <2>1, <3>1, <3>2
  <2> QED BY <2>1, <2>3
<1>24. Awaited'
  <2> SUFFICES ASSUME NEW q \in Sound', ~session'[q].over,
                      NEW x \in Seated(session'[q]), x.role \in Sides
               PROVE  x.conn \notin connections'[q] <=> Counting(session'[q], x.role)
    BY DEF Awaited
  <2>1. q \in Rooms
    BY <1>4, <1>here, <1>there, <1>5 DEF Sound
  <2>2. CASE q = r /\ x \in Seated(session[r])
    <3>1. r \in Sound /\ ~session[r].over
      BY <1>4, <1>here, <1>there, <1>6, <1>7, <2>1, <2>2 DEF SeatsGiven
    <3>2. x.conn \notin connections[r] <=> Counting(session[r], x.role)
      BY <1>1, <2>2, <3>1 DEF Awaited
    <3>3. x.conn \notin cs
      BY <1>8, <2>2
    <3> QED BY <1>4, <1>here, <1>there, <2>1, <2>2, <3>2, <3>3 DEF SeatsGiven
  <2>3. CASE q = r /\ x \notin Seated(session[r])
    BY <1>4, <1>here, <1>there, <2>1, <2>3 DEF SeatsGiven
  <2>4. CASE q # r
    BY <1>1, <1>4, <1>here, <1>there, <2>1, <2>4 DEF Awaited
  <2> QED BY <2>2, <2>3, <2>4
<1>25. SeatStep
  BY <1>2, <1>4, <1>here, <1>there, <1>5 DEF SeatStep
<1>26. RateStep
  <2>1. WellRated(session[r]) => WellRated(t)
    BY DEF WellRated, SeatsGiven
  <2> QED BY <1>4, <1>here, <1>there, <2>1 DEF RateStep
<1>27. LockStep
  <2> SUFFICES ASSUME Locked, NEW u \in Users, userKey'[u] # NoRoom
               PROVE  userKey'[u] \in open' /\ \E x \in Seated(session'[userKey'[u]]) : x.user = u
    BY <1>4, <1>here, <1>there DEF LockStep, Locked
  <2>1. CASE \E c \in cs : u = user[c]
    BY <1>4, <1>here, <1>there, <2>1 DEF SeatsGiven
  <2>2. CASE ~\E c \in cs : u = user[c]
    <3>1. userKey'[u] = userKey[u] /\ userKey[u] \in open
      BY <1>4, <1>here, <1>there, <2>2 DEF Locked
    <3>2. \E x \in Seated(session[userKey[u]]) : x.user = u
      BY <3>1 DEF Locked
    <3> QED BY <1>2, <1>4, <1>here, <1>there, <1>5, <3>1, <3>2
  <2> QED BY <2>1, <2>2
<1> QED BY <1>10, <1>11, <1>12, <1>13, <1>14, <1>15, <1>16, <1>17, <1>18, <1>19, <1>20, <1>21,
           <1>22, <1>23, <1>24, <1>25, <1>26, <1>27 DEF RoomsInv

-----------------------------------------------------------------------------
\* A connection that takes over the seat of its username.

LEMMA ReconnectToKeeps ==
    ASSUME RoomsInv, NEW c \in Conns, state[c] = "LOBBY", Fresh(c),
           NEW r \in RoomToReconnect(user[c]) \ halfClosed, ReconnectTo(r, c)
    PROVE  RoomsInv' /\ SeatStep /\ RateStep /\ LockStep /\ FreshStep({c})
<1> DEFINE t == Reconnect(session[r], c, user[c])
<1>1. /\ DirectoryType /\ RoomsType /\ PeopleType
      /\ Named /\ Newcomers /\ ClosedRooms /\ HalfClosedRooms
      /\ NamesReserved /\ NamesKnown /\ Orders /\ SeatsNamed
      /\ Members /\ Reserved /\ Awaited
  BY DEF RoomsInv
<1>2. /\ r \in open /\ r \in Sound /\ r \in Rooms /\ CanReconnect(session[r], user[c])
      /\ open \in SUBSET Rooms /\ halfClosed \in SUBSET open /\ NoRoom \notin Rooms
  BY <1>1, Nobody DEF RoomToReconnect, Sound, RoomsType
<1>3. \A q \in Rooms : c \notin connections[q] /\ \A x \in Seated(session[q]) : x.conn # c
  BY DEF Fresh
<1>4. /\ t \in Sess /\ Orderly(t)
      /\ t.over = session[r].over /\ t.result = session[r].result /\ t.rated = session[r].rated
      /\ \E old \in Seated(session[r]), moved \in SeatsOver(Conns, Users) :
            /\ old.user = user[c] /\ moved.user = user[c] /\ moved.conn = c
            /\ moved.role = old.role /\ old.role \in Sides
            /\ Seated(t) = (Seated(session[r]) \ {old}) \cup {moved}
            /\ \A side \in Sides : Counting(t, side) <=>
                                      Counting(session[r], side) /\ side # old.role
  <2>1. session[r] \in SessionsOver(Conns, Users) /\ Orderly(session[r])
    BY <1>1, <1>2, SeatFacts DEF Sess
  <2> HIDE DEF t
  <2> QED BY <1>2, <1>3, <2>1, ReconnectSeated DEF Sess, t
<1>5. session' = [session EXCEPT ![r] = t]
  BY DEF ReconnectTo
<1> HIDE DEF t
<1>6. PICK old \in Seated(session[r]), moved \in SeatsOver(Conns, Users) :
            /\ old.user = user[c] /\ moved.user = user[c] /\ moved.conn = c
            /\ moved.role = old.role /\ old.role \in Sides
            /\ Seated(t) = (Seated(session[r]) \ {old}) \cup {moved}
            /\ \A side \in Sides : Counting(t, side) <=>
                                      Counting(session[r], side) /\ side # old.role
  BY <1>4
<1>7. user[c] \in Users /\ user[c] \in usernames[r]
  BY <1>1, <1>2, <1>6, SeatFacts DEF NamesKnown
<1>8. /\ user' = user /\ open' = open /\ halfClosed' = halfClosed /\ Sound' = Sound
      /\ userKey' = userKey /\ roomKeys' = roomKeys /\ joinKeys' = joinKeys
      /\ usernames' = usernames /\ codes' = codes /\ closing' = closing
      /\ \A d \in Conns \ {c} : state'[d] = state[d] /\ roomOf'[d] = roomOf[d]
      /\ state'[c] = "IN_ROOM" /\ roomOf'[c] = r
  BY <1>1 DEF ReconnectTo, Sound, PeopleType, directoryVars
<1>here. /\ session'[r] = t /\ Seated(session'[r]) = Seated(t)
         /\ connections'[r] = connections[r] \cup {c}
         /\ participants'[r] = {d \in participants[r] : user[d] # user[c]} \cup {c}
  BY <1>1, <1>2, <1>5 DEF ReconnectTo, RoomsType
<1>there. ASSUME NEW q \in Rooms, q # r
          PROVE  /\ session'[q] = session[q] /\ connections'[q] = connections[q]
                 /\ participants'[q] = participants[q]
                 /\ Seated(session'[q]) = Seated(session[q])
  BY <1>1, <1>there DEF ReconnectTo, RoomsType
<1>9. DirectoryType'
  BY <1>1, <1>8 DEF DirectoryType
<1>10. RoomsType'
  <2>1. session' \in [Rooms -> Sess]
    BY <1>1, <1>4, <1>5 DEF RoomsType
  <2>2. /\ connections' \in [Rooms -> SUBSET Conns]
        /\ participants' \in [Rooms -> SUBSET Conns]
    BY <1>1 DEF RoomsType, ReconnectTo
  <2> QED BY <1>1, <1>8, <2>1, <2>2 DEF RoomsType
<1>11. PeopleType'
  BY <1>1, <1>2 DEF PeopleType, States, ReconnectTo
<1>12. Named'
  <2> SUFFICES ASSUME NEW d \in Conns PROVE user'[d] \in Users <=> state'[d] \in Active
    BY DEF Named
  <2>1. CASE d = c
    BY <1>7, <1>8, <2>1 DEF Active
  <2>2. CASE d # c
    BY <1>1, <1>8, <2>2 DEF Named
  <2> QED BY <2>1, <2>2
<1>13. FreshStep({c})
  <2> SUFFICES ASSUME NEW d \in Conns, d # c, Fresh(d) PROVE Fresh(d)'
    BY DEF FreshStep
  <2>1. roomOf'[d] = NoRoom
    BY <1>8 DEF Fresh
  <2>2. ASSUME NEW q \in Rooms
        PROVE  d \notin connections'[q] /\ \A x \in Seated(session'[q]) : x.conn # d
    <3>1. d \notin connections[q] /\ \A x \in Seated(session[q]) : x.conn # d
      BY DEF Fresh
    <3>2. CASE q = r
      BY <1>6, <1>here, <3>1, <3>2
    <3>3. CASE q # r
      BY <1>there, <3>1, <3>3
    <3> QED BY <3>2, <3>3
  <2> QED BY <2>1, <2>2 DEF Fresh
<1>14. Newcomers'
  <2> SUFFICES ASSUME NEW d \in Conns, state'[d] = "CONNECTED" PROVE Fresh(d)'
    BY DEF Newcomers
  <2>1. d # c /\ state[d] = "CONNECTED"
    BY <1>8
  <2> QED BY <1>1, <1>13, <2>1 DEF Newcomers, FreshStep
<1>15. ClosedRooms'
  BY <1>1, <1>2, <1>8, <1>there DEF ClosedRooms
<1>16. HalfClosedRooms'
  BY <1>1, <1>2, <1>8, <1>there DEF HalfClosedRooms
<1>17. NamesReserved'
  BY <1>1, <1>8 DEF NamesReserved
<1>18. NamesKnown'
  <2> SUFFICES ASSUME NEW q \in Sound'
               PROVE  /\ \A x \in Seated(session'[q]) : x.user \in usernames[q]
                      /\ \A d \in connections'[q] : user[d] \in usernames[q]
    BY <1>8 DEF NamesKnown
  <2>1. q \in Rooms /\ q \in Sound
    BY <1>2, <1>8 DEF Sound
  <2>2. /\ \A x \in Seated(session[q]) : x.user \in usernames[q]
        /\ \A d \in connections[q] : user[d] \in usernames[q]
    BY <1>1, <2>1 DEF NamesKnown
  <2>3. CASE q = r
    BY <1>6, <1>7, <1>here, <2>2, <2>3
  <2>4. CASE q # r
    BY <1>there, <2>1, <2>2, <2>4
  <2> QED BY <2>3, <2>4
<1>19. Orders'
  BY <1>1, <1>4, <1>here, <1>there DEF Orders
<1>20. SeatsNamed'
  <2> SUFFICES ASSUME NEW q \in Rooms, NEW x \in Seated(session'[q]), state'[x.conn] \in Active
               PROVE  x.user = user[x.conn]
    BY <1>8 DEF SeatsNamed
  <2>1. CASE q = r /\ x = moved
    BY <1>6, <2>1
  <2>2. CASE x \in Seated(session[q])
    <3>1. x.conn \in Conns /\ x.conn # c
      BY <1>1, <1>3, <2>2, SeatFacts
    <3> QED BY <1>1, <1>8, <2>2, <3>1 DEF SeatsNamed
  <2>3. (q = r /\ x = moved) \/ x \in Seated(session[q])
    BY <1>6, <1>here, <1>there
  <2> QED BY <2>1, <2>2, <2>3
<1>21. Members'
  <2> SUFFICES ASSUME NEW q \in Sound'
               PROVE  /\ participants'[q] \in SUBSET connections'[q]
                      /\ \A d \in Conns : d \in connections'[q] <=> roomOf'[d] = q
    BY DEF Members
  <2>1. q \in Rooms /\ q \in Sound
    BY <1>2, <1>8 DEF Sound
  <2>2. /\ participants[q] \in SUBSET connections[q]
        /\ \A d \in Conns : d \in connections[q] <=> roomOf[d] = q
    BY <1>1, <2>1 DEF Members
  <2>3. CASE q = r
    BY <1>8, <1>here, <2>2, <2>3
  <2>4. CASE q # r
    BY <1>3, <1>8, <1>there, <2>1, <2>2, <2>4
  <2> QED BY <2>3, <2>4
<1>22. Reserved'
  <2> SUFFICES ASSUME NEW q \in open
               PROVE  q \in roomKeys /\ \A x \in Seated(session'[q]) : userKey[x.user] = q
    BY <1>8 DEF Reserved
  <2>1. q \in Rooms /\ q \in roomKeys /\ \A x \in Seated(session[q]) : userKey[x.user] = q
    BY <1>1, <1>2 DEF Reserved
  <2>2. CASE q = r
    <3>1. userKey[moved.user] = r
      BY <1>6, <2>1, <2>2
    <3> QED BY <1>6, <1>here, <2>1, <2>2, <3>1
  <2>3. CASE q # r
    BY <1>there, <2>1, <2>3
  <2> QED BY <2>2, <2>3
<1>23. Awaited'
  <2> SUFFICES ASSUME NEW q \in Sound, ~session'[q].over,
                      NEW x \in Seated(session'[q]), x.role \in Sides
               PROVE  x.conn \notin connections'[q] <=> Counting(session'[q], x.role)
    BY <1>8 DEF Awaited
  <2>1. q \in Rooms
    BY <1>2 DEF Sound
  <2>2. CASE q # r
    BY <1>1, <1>there, <2>1, <2>2 DEF Awaited
  <2>3. CASE q = r /\ x = moved
    BY <1>6, <1>here, <2>3
  <2>4. CASE q = r /\ x \in Seated(session[r]) /\ x # old
    <3>1. x.role # old.role /\ x.conn # c
      BY <1>1, <1>2, <1>3, <1>6, <2>4, SeatFacts
    <3>2. ~session[r].over
      BY <1>4, <1>here, <2>4
    <3>3. x.conn \notin connections[r] <=> Counting(session[r], x.role)
      BY <1>1, <1>2, <2>4, <3>2 DEF Awaited
    <3> QED BY <1>6, <1>here, <2>4, <3>1, <3>3
  <2>5. q = r => x = moved \/ (x \in Seated(session[r]) /\ x # old)
    BY <1>6, <1>here
  <2> QED BY <2>2, <2>3, <2>4, <2>5
\* The seats keep their usernames.
<1>24. ASSUME NEW q \in Rooms, NEW x \in Seated(session[q])
       PROVE  \E y \in Seated(session'[q]) : y.role = x.role /\ y.user = x.user
  <2>1. CASE q = r /\ x = old
    BY <1>6, <1>here, <2>1
  <2>2. CASE q = r /\ x # old
    BY <1>6, <1>here, <2>2
  <2>3. CASE q # r
    BY <1>there, <2>3
  <2> QED BY <2>1, <2>2, <2>3
<1>25. SeatStep
  BY <1>2, <1>24 DEF SeatStep
<1>26. RateStep
  <2>1. WellRated(session[r]) => WellRated(t)
    BY <1>4 DEF WellRated
  <2> QED BY <1>here, <1>there, <2>1 DEF RateStep
<1>27. LockStep
  <2> SUFFICES ASSUME Locked, NEW u \in Users, userKey[u] # NoRoom
               PROVE  userKey[u] \in open /\ \E y \in Seated(session'[userKey[u]]) : y.user = u
    BY <1>8 DEF LockStep, Locked
  <2>1. userKey[u] \in open /\ \E x \in Seated(session[userKey[u]]) : x.user = u
    BY DEF Locked
  <2> QED BY <1>2, <1>24, <2>1
<1> QED BY <1>9, <1>10, <1>11, <1>12, <1>13, <1>14, <1>15, <1>16, <1>17, <1>18, <1>19, <1>20,
           <1>21, <1>22, <1>23, <1>25, <1>26, <1>27 DEF RoomsInv

\* The same in a half-closed room: the seat changes hands, and the connection ends.
LEMMA ReconnectToHalfClosedKeeps ==
    ASSUME RoomsInv, NEW c \in Conns, state[c] = "LOBBY", Fresh(c),
           NEW r \in RoomToReconnect(user[c]) \cap halfClosed, ReconnectToHalfClosed(r, c)
    PROVE  RoomsInv' /\ SeatStep /\ RateStep /\ LockStep /\ FreshStep({c})
<1> DEFINE t == Reconnect(session[r], c, user[c])
<1>1. /\ DirectoryType /\ RoomsType /\ PeopleType
      /\ Named /\ Newcomers /\ ClosedRooms /\ HalfClosedRooms
      /\ NamesReserved /\ NamesKnown /\ Orders /\ SeatsNamed
      /\ Members /\ Reserved /\ Awaited
  BY DEF RoomsInv
<1>2. /\ r \in open /\ r \in halfClosed /\ r \notin Sound /\ r \in Rooms
      /\ CanReconnect(session[r], user[c])
      /\ open \in SUBSET Rooms /\ halfClosed \in SUBSET open /\ Sound \in SUBSET Rooms
  BY <1>1 DEF RoomToReconnect, Sound, RoomsType
<1>3. \A q \in Rooms : c \notin connections[q] /\ \A x \in Seated(session[q]) : x.conn # c
  BY DEF Fresh
<1>4. /\ t \in Sess /\ Orderly(t)
      /\ t.over = session[r].over /\ t.result = session[r].result /\ t.rated = session[r].rated
      /\ \E old \in Seated(session[r]), moved \in SeatsOver(Conns, Users) :
            /\ old.user = user[c] /\ moved.user = user[c] /\ moved.conn = c
            /\ moved.role = old.role /\ old.role \in Sides
            /\ Seated(t) = (Seated(session[r]) \ {old}) \cup {moved}
            /\ \A side \in Sides : Counting(t, side) <=>
                                      Counting(session[r], side) /\ side # old.role
  <2>1. session[r] \in SessionsOver(Conns, Users) /\ Orderly(session[r])
    BY <1>1, <1>2, SeatFacts DEF Sess
  <2> HIDE DEF t
  <2> QED BY <1>2, <1>3, <2>1, ReconnectSeated DEF Sess, t
<1>5. session' = [session EXCEPT ![r] = t]
  BY DEF ReconnectToHalfClosed
<1> HIDE DEF t
<1>6. PICK old \in Seated(session[r]), moved \in SeatsOver(Conns, Users) :
            /\ old.user = user[c] /\ moved.user = user[c] /\ moved.conn = c
            /\ moved.role = old.role
            /\ Seated(t) = (Seated(session[r]) \ {old}) \cup {moved}
  BY <1>4
<1>7. /\ roomOf' = roomOf /\ open' = open /\ halfClosed' = halfClosed /\ Sound' = Sound
      /\ userKey' = userKey /\ roomKeys' = roomKeys /\ joinKeys' = joinKeys
      /\ usernames' = usernames /\ participants' = participants
      /\ codes' = codes /\ closing' = closing
      /\ \A d \in Conns \ {c} : state'[d] = state[d] /\ user'[d] = user[d]
      /\ state'[c] = "DISCONNECTED" /\ user'[c] = NoUser
  BY <1>1 DEF ReconnectToHalfClosed, Sound, PeopleType, directoryVars
<1>here. /\ session'[r] = t /\ Seated(session'[r]) = Seated(t)
         /\ connections'[r] = connections[r] \cup {c}
  BY <1>1, <1>2, <1>5 DEF ReconnectToHalfClosed, RoomsType
<1>there. ASSUME NEW q \in Rooms, q # r
          PROVE  /\ session'[q] = session[q] /\ connections'[q] = connections[q]
                 /\ Seated(session'[q]) = Seated(session[q])
  BY <1>1, <1>there DEF ReconnectToHalfClosed, RoomsType
<1>8. ASSUME NEW q \in Sound
      PROVE  /\ q \in Rooms /\ q # r /\ session'[q] = session[q]
             /\ connections'[q] = connections[q] /\ c \notin connections[q]
             /\ Seated(session'[q]) = Seated(session[q])
  BY <1>2, <1>3, <1>there
<1>9. DirectoryType'
  BY <1>1, <1>7 DEF DirectoryType
<1>10. RoomsType'
  <2>1. session' \in [Rooms -> Sess]
    BY <1>1, <1>4, <1>5 DEF RoomsType
  <2>2. connections' \in [Rooms -> SUBSET Conns]
    BY <1>1 DEF RoomsType, ReconnectToHalfClosed
  <2> QED BY <1>1, <1>7, <2>1, <2>2 DEF RoomsType
<1>11. PeopleType'
  BY <1>1 DEF PeopleType, States, ReconnectToHalfClosed
<1>12. Named'
  <2> SUFFICES ASSUME NEW d \in Conns PROVE user'[d] \in Users <=> state'[d] \in Active
    BY DEF Named
  <2>1. CASE d = c
    BY <1>7, <2>1, Nobody DEF Active
  <2>2. CASE d # c
    BY <1>1, <1>7, <2>2 DEF Named
  <2> QED BY <2>1, <2>2
<1>13. FreshStep({c})
  <2> SUFFICES ASSUME NEW d \in Conns, d # c, Fresh(d) PROVE Fresh(d)'
    BY DEF FreshStep
  <2>1. roomOf'[d] = NoRoom
    BY <1>7 DEF Fresh
  <2>2. ASSUME NEW q \in Rooms
        PROVE  d \notin connections'[q] /\ \A x \in Seated(session'[q]) : x.conn # d
    <3>1. d \notin connections[q] /\ \A x \in Seated(session[q]) : x.conn # d
      BY DEF Fresh
    <3>2. CASE q = r
      BY <1>6, <1>here, <3>1, <3>2
    <3>3. CASE q # r
      BY <1>there, <3>1, <3>3
    <3> QED BY <3>2, <3>3
  <2> QED BY <2>1, <2>2 DEF Fresh
<1>14. Newcomers'
  <2> SUFFICES ASSUME NEW d \in Conns, state'[d] = "CONNECTED" PROVE Fresh(d)'
    BY DEF Newcomers
  <2>1. d # c /\ state[d] = "CONNECTED"
    BY <1>7
  <2> QED BY <1>1, <1>13, <2>1 DEF Newcomers, FreshStep
<1>15. ClosedRooms'
  BY <1>1, <1>2, <1>7, <1>there DEF ClosedRooms
<1>16. HalfClosedRooms'
  BY <1>1, <1>7 DEF HalfClosedRooms
<1>17. NamesReserved'
  BY <1>1, <1>7 DEF NamesReserved
<1>18. NamesKnown'
  <2> SUFFICES ASSUME NEW q \in Sound
               PROVE  /\ \A x \in Seated(session'[q]) : x.user \in usernames[q]
                      /\ \A d \in connections'[q] : user'[d] \in usernames[q]
    BY <1>7 DEF NamesKnown
  <2>1. connections[q] \in SUBSET Conns
    BY <1>1, <1>8 DEF RoomsType
  <2> QED BY <1>1, <1>7, <1>8, <2>1 DEF NamesKnown
<1>19. Orders'
  BY <1>1, <1>4, <1>here, <1>there DEF Orders
<1>20. SeatsNamed'
  <2> SUFFICES ASSUME NEW q \in Rooms, NEW x \in Seated(session'[q]), state'[x.conn] \in Active
               PROVE  x.user = user'[x.conn]
    BY DEF SeatsNamed
  <2>1. x.conn # c
    BY <1>7 DEF Active
  <2>2. x \in Seated(session[q])
    BY <1>6, <1>here, <1>there, <2>1
  <2>3. x.conn \in Conns
    BY <1>1, <2>2, SeatFacts
  <2>4. state[x.conn] \in Active /\ user'[x.conn] = user[x.conn]
    BY <1>7, <2>1, <2>3
  <2> QED BY <1>1, <2>2, <2>4 DEF SeatsNamed
<1>21. Members'
  <2> SUFFICES ASSUME NEW q \in Sound
               PROVE  /\ participants'[q] \in SUBSET connections'[q]
                      /\ \A d \in Conns : d \in connections'[q] <=> roomOf'[d] = q
    BY <1>7 DEF Members
  <2>1. connections'[q] = connections[q] /\ participants' = participants /\ roomOf' = roomOf
    BY <1>7, <1>8
  <2> QED BY <1>1, <2>1 DEF Members
<1>22. Reserved'
  <2> SUFFICES ASSUME NEW q \in open
               PROVE  q \in roomKeys /\ \A x \in Seated(session'[q]) : userKey[x.user] = q
    BY <1>7 DEF Reserved
  <2>1. q \in Rooms /\ q \in roomKeys /\ \A x \in Seated(session[q]) : userKey[x.user] = q
    BY <1>1, <1>2 DEF Reserved
  <2>2. CASE q = r
    <3>1. userKey[moved.user] = r
      BY <1>6, <2>1, <2>2
    <3> QED BY <1>6, <1>here, <2>1, <2>2, <3>1
  <2>3. CASE q # r
    BY <1>there, <2>1, <2>3
  <2> QED BY <2>2, <2>3
<1>23. Awaited'
  BY <1>1, <1>7, <1>8 DEF Awaited
<1>24. ASSUME NEW q \in Rooms, NEW x \in Seated(session[q])
       PROVE  \E y \in Seated(session'[q]) : y.role = x.role /\ y.user = x.user
  <2>1. CASE q = r /\ x = old
    BY <1>6, <1>here, <2>1
  <2>2. CASE q = r /\ x # old
    BY <1>6, <1>here, <2>2
  <2>3. CASE q # r
    BY <1>there, <2>3
  <2> QED BY <2>1, <2>2, <2>3
<1>25. SeatStep
  BY <1>2, <1>24 DEF SeatStep
<1>26. RateStep
  <2>1. WellRated(session[r]) => WellRated(t)
    BY <1>4 DEF WellRated
  <2> QED BY <1>here, <1>there, <2>1 DEF RateStep
<1>27. LockStep
  BY <1>2 DEF LockStep, Locked
<1> QED BY <1>9, <1>10, <1>11, <1>12, <1>13, <1>14, <1>15, <1>16, <1>17, <1>18, <1>19, <1>20,
           <1>21, <1>22, <1>23, <1>25, <1>26, <1>27 DEF RoomsInv

\* A join of a half-closed room: the newcomer has a seat there, and is in the lobby still.
LEMMA JoinHalfClosedKeeps ==
    ASSUME RoomsInv, NEW c \in Conns, state[c] \in Active, NEW r \in Rooms, JoinHalfClosed(r, c)
    PROVE  RoomsInv' /\ SeatStep /\ RateStep /\ LockStep /\ FreshStep({c})
<1> DEFINE t == Place(session[r], c, user[c])
<1>1. /\ DirectoryType /\ RoomsType /\ PeopleType
      /\ Named /\ Newcomers /\ ClosedRooms /\ HalfClosedRooms
      /\ NamesReserved /\ NamesKnown /\ Orders /\ SeatsNamed
      /\ Members /\ Reserved /\ Awaited
  BY DEF RoomsInv
<1>2. /\ r \in open /\ r \in halfClosed /\ r \notin Sound
      /\ open \in SUBSET Rooms /\ halfClosed \in SUBSET open /\ Sound \in SUBSET Rooms
  BY <1>1 DEF JoinHalfClosed, Sound, RoomsType
<1>3. user[c] \in Users /\ userKey[user[c]] = NoRoom /\ r # NoRoom
  BY <1>1, Nobody DEF Named, JoinHalfClosed, ReserveJoin, UsersFree
<1>4. \A x \in Seated(session[r]) : x.conn # c
  <2> SUFFICES ASSUME NEW x \in Seated(session[r]), x.conn = c PROVE FALSE
    OBVIOUS
  <2>1. x.user = user[c]
    BY <1>1 DEF SeatsNamed
  <2> QED BY <1>1, <1>2, <1>3, <2>1 DEF Reserved
<1>5. /\ t \in Sess /\ Orderly(t)
      /\ \E seat \in SeatsOver(Conns, Users) : /\ seat.conn = c /\ seat.user = user[c]
                                               /\ Seated(t) = Seated(session[r]) \cup {seat}
      /\ t.over = session[r].over /\ t.result = session[r].result /\ t.rated = session[r].rated
  <2>1. session[r] \in SessionsOver(Conns, Users) /\ Orderly(session[r])
    BY <1>1, SeatFacts DEF Sess
  <2> HIDE DEF t
  <2> QED BY <1>3, <1>4, <2>1, PlaceSeated DEF Sess, t
<1>6. session' = [session EXCEPT ![r] = t]
  BY DEF JoinHalfClosed
<1> HIDE DEF t
<1>7. PICK seat \in SeatsOver(Conns, Users) : /\ seat.conn = c /\ seat.user = user[c]
                                              /\ Seated(t) = Seated(session[r]) \cup {seat}
  BY <1>5
<1>8. /\ roomOf' = roomOf /\ open' = open /\ halfClosed' = halfClosed /\ Sound' = Sound
      /\ roomKeys' = roomKeys /\ joinKeys' = joinKeys /\ r \in roomKeys
      /\ usernames' = usernames /\ participants' = participants
      /\ codes' = codes /\ closing' = closing /\ state' = state /\ user' = user
      /\ userKey' \in [Users -> Rooms \cup {NoRoom}]
      /\ userKey'[user[c]] = r
      /\ \A u \in Users : u # user[c] => userKey'[u] = userKey[u]
  BY <1>1, <1>3 DEF JoinHalfClosed, ReserveJoin, JoinCodeValid, Sound, DirectoryType, participantVars
<1>here. /\ session'[r] = t /\ Seated(session'[r]) = Seated(t)
         /\ connections'[r] = connections[r] \cup {c}
  BY <1>1, <1>2, <1>6 DEF JoinHalfClosed, RoomsType
<1>there. ASSUME NEW q \in Rooms, q # r
          PROVE  /\ session'[q] = session[q] /\ connections'[q] = connections[q]
                 /\ Seated(session'[q]) = Seated(session[q])
  BY <1>1, <1>there DEF JoinHalfClosed, RoomsType
<1>9. ASSUME NEW q \in Sound
      PROVE  /\ q \in Rooms /\ q # r /\ session'[q] = session[q]
             /\ connections'[q] = connections[q]
             /\ Seated(session'[q]) = Seated(session[q])
  BY <1>2, <1>there
<1>10. DirectoryType'
  BY <1>1, <1>8 DEF DirectoryType
<1>11. RoomsType'
  <2>1. session' \in [Rooms -> Sess]
    BY <1>1, <1>5, <1>6 DEF RoomsType
  <2>2. connections' \in [Rooms -> SUBSET Conns]
    BY <1>1 DEF RoomsType, JoinHalfClosed
  <2> QED BY <1>1, <1>8, <2>1, <2>2 DEF RoomsType
<1>12. PeopleType' /\ Named'
  BY <1>1, <1>8 DEF PeopleType, Named
<1>13. FreshStep({c})
  <2> SUFFICES ASSUME NEW d \in Conns, d # c, Fresh(d) PROVE Fresh(d)'
    BY DEF FreshStep
  <2>1. roomOf'[d] = NoRoom
    BY <1>8 DEF Fresh
  <2>2. ASSUME NEW q \in Rooms
        PROVE  d \notin connections'[q] /\ \A x \in Seated(session'[q]) : x.conn # d
    <3>1. d \notin connections[q] /\ \A x \in Seated(session[q]) : x.conn # d
      BY DEF Fresh
    <3>2. CASE q = r
      BY <1>7, <1>here, <3>1, <3>2
    <3>3. CASE q # r
      BY <1>there, <3>1, <3>3
    <3> QED BY <3>2, <3>3
  <2> QED BY <2>1, <2>2 DEF Fresh
<1>14. Newcomers'
  <2> SUFFICES ASSUME NEW d \in Conns, state[d] = "CONNECTED" PROVE Fresh(d)'
    BY <1>8 DEF Newcomers
  <2>1. d # c
    BY DEF Active
  <2> QED BY <1>1, <1>13, <2>1 DEF Newcomers, FreshStep
<1>15. ClosedRooms' /\ HalfClosedRooms'
  BY <1>1, <1>2, <1>8, <1>there DEF ClosedRooms, HalfClosedRooms
<1>16. NamesReserved'
  <2> SUFFICES ASSUME NEW q \in open, NEW u \in usernames[q] PROVE userKey'[u] = q
    BY <1>8 DEF NamesReserved
  <2>1. q \in Rooms /\ u \in Users /\ userKey[u] = q /\ q # NoRoom
    BY <1>1, <1>2, Nobody DEF NamesReserved, RoomsType
  <2> QED BY <1>3, <1>8, <2>1
<1>17. NamesKnown' /\ Members' /\ Awaited'
  <2>1. NamesKnown'
    BY <1>1, <1>8, <1>9 DEF NamesKnown
  <2>2. Members'
    BY <1>1, <1>8, <1>9 DEF Members
  <2>3. Awaited'
    BY <1>1, <1>8, <1>9 DEF Awaited
  <2> QED BY <2>1, <2>2, <2>3
<1>18. Orders'
  BY <1>1, <1>5, <1>here, <1>there DEF Orders
<1>19. SeatsNamed'
  <2> SUFFICES ASSUME NEW q \in Rooms, NEW x \in Seated(session'[q]), state[x.conn] \in Active
               PROVE  x.user = user[x.conn]
    BY <1>8 DEF SeatsNamed
  <2>1. CASE q = r
    BY <1>1, <1>7, <1>here, <2>1 DEF SeatsNamed
  <2>2. CASE q # r
    BY <1>1, <1>there, <2>2 DEF SeatsNamed
  <2> QED BY <2>1, <2>2
<1>20. Reserved'
  <2> SUFFICES ASSUME NEW q \in open
               PROVE  q \in roomKeys /\ \A x \in Seated(session'[q]) : userKey'[x.user] = q
    BY <1>8 DEF Reserved
  <2>1. q \in Rooms /\ q \in roomKeys /\ q # NoRoom
    BY <1>1, <1>2, Nobody DEF Reserved
  <2>2. \A x \in Seated(session[q]) : userKey'[x.user] = q
    <3> SUFFICES ASSUME NEW x \in Seated(session[q]) PROVE userKey'[x.user] = q
      OBVIOUS
    <3>1. x.user \in Users /\ userKey[x.user] = q
      BY <1>1, <2>1, SeatFacts DEF Reserved
    <3> QED BY <1>3, <1>8, <2>1, <3>1
  <2>3. CASE q = r
    BY <1>7, <1>8, <1>here, <2>1, <2>2, <2>3
  <2>4. CASE q # r
    BY <1>there, <2>1, <2>2, <2>4
  <2> QED BY <2>3, <2>4
<1>21. SeatStep
  BY <1>2, <1>7, <1>here, <1>there DEF SeatStep
<1>22. RateStep
  <2>1. WellRated(session[r]) => WellRated(t)
    BY <1>5 DEF WellRated
  <2> QED BY <1>here, <1>there, <2>1 DEF RateStep
<1>23. LockStep
  BY <1>2 DEF LockStep, Locked
<1> QED BY <1>10, <1>11, <1>12, <1>13, <1>14, <1>15, <1>16, <1>17, <1>18, <1>19, <1>20, <1>21,
           <1>22, <1>23 DEF RoomsInv

-----------------------------------------------------------------------------
\* Rooms that close, while the people in them leave or go back to the lobby.

LEMMA CloseRoomsKeeps ==
    ASSUME RoomsInv, NEW rooms \in SUBSET open, NEW failed \in SUBSET rooms,
           NEW conns \in [Rooms -> SUBSET Conns], NEW sessions \in [Rooms -> Sess],
           NEW left \in [Rooms -> 1 .. Grace],
           \A q \in Rooms : /\ Orderly(sessions[q]) /\ Seated(sessions[q]) = Seated(session[q])
                            /\ conns[q] \in SUBSET connections[q],
           \A q \in Rooms \ open : sessions[q] = session[q],
           \A q \in Rooms \ rooms :
              /\ conns[q] = connections[q]
              /\ ~sessions[q].over =>
                    /\ ~session[q].over
                    /\ \A side \in Sides : Counting(sessions[q], side) <=> Counting(session[q], side),
           CloseRooms(rooms, failed, conns, sessions, left),
           PeopleType', Named',
           \A c \in Conns : state'[c] = "CONNECTED" => state[c] = "CONNECTED",
           \A c \in Conns : \/ roomOf'[c] = roomOf[c]
                            \/ roomOf'[c] = NoRoom /\ \A q \in Sound \ rooms : roomOf[c] # q,
           \A c \in Conns : \/ user'[c] = user[c]
                            \/ \A q \in Sound \ rooms : c \notin connections[q],
           \A c \in Conns : state'[c] \in Active => state[c] \in Active /\ user'[c] = user[c]
    PROVE  /\ RoomsInv' /\ SeatStep /\ FreshStep({})
           /\ (\A q \in Rooms : WellRated(session[q]) => WellRated(sessions[q])) => RateStep
           /\ failed = {} => LockStep
<1> DEFINE gone == rooms \ failed
<1>1. /\ DirectoryType /\ RoomsType /\ PeopleType
      /\ Named /\ Newcomers /\ ClosedRooms /\ HalfClosedRooms
      /\ NamesReserved /\ NamesKnown /\ Orders /\ SeatsNamed
      /\ Members /\ Reserved /\ Awaited
  BY DEF RoomsInv
<1>2. /\ open \in SUBSET Rooms /\ halfClosed \in SUBSET open /\ rooms \in SUBSET Rooms
      /\ gone \in SUBSET rooms /\ failed = rooms \ gone /\ NoRoom \notin Rooms
  BY <1>1, Nobody DEF RoomsType
<1>3. /\ roomKeys' = roomKeys \ gone /\ joinKeys' \in SUBSET joinKeys
      /\ userKey' = [u \in Users |-> IF \E q \in gone : u \in usernames[q] THEN NoRoom ELSE userKey[u]]
      /\ open' = open \ gone
      /\ session' = [q \in Rooms |-> IF q \in gone THEN NewSession ELSE sessions[q]]
      /\ connections' = [q \in Rooms |-> IF q \in gone THEN {} ELSE conns[q]]
      /\ participants' = [q \in Rooms |-> IF q \in rooms THEN {} ELSE participants[q]]
      /\ usernames' = [q \in Rooms |-> IF q \in rooms THEN {} ELSE usernames[q]]
      /\ codes' = codes \ rooms
      /\ closing' = [q \in Rooms |-> IF q \in gone THEN Grace ELSE left[q]]
      /\ halfClosed' = (halfClosed \ gone) \cup failed
  BY DEF CloseRooms, DeleteRooms
<1> HIDE DEF gone
\* A room that is gone, one whose deletion failed, and the others.
<1>gone. ASSUME NEW q \in gone
         PROVE  /\ session'[q] = NewSession /\ Seated(session'[q]) = {} /\ connections'[q] = {}
                /\ participants'[q] = {} /\ usernames'[q] = {} /\ q \in Rooms
  BY <1>2, <1>3, NewSessionSeated
<1>failed. ASSUME NEW q \in failed
           PROVE  /\ session'[q] = sessions[q] /\ Seated(session'[q]) = Seated(session[q])
                  /\ connections'[q] = conns[q] /\ q \in Rooms /\ q \in open /\ q \notin gone
                  /\ participants'[q] = {} /\ usernames'[q] = {}
  BY <1>2, <1>3
<1>there. ASSUME NEW q \in Rooms, q \notin rooms
          PROVE  /\ session'[q] = sessions[q] /\ Seated(session'[q]) = Seated(session[q])
                 /\ connections'[q] = connections[q] /\ q \notin gone
                 /\ participants'[q] = participants[q] /\ usernames'[q] = usernames[q]
  BY <1>2, <1>3, <1>there
<1>4. Sound' = Sound \ rooms /\ open' \in SUBSET open /\ Sound \in SUBSET open
  BY <1>2, <1>3 DEF Sound
<1>5. \A q \in Rooms : q \in gone \/ q \in failed \/ q \notin rooms
  BY <1>2
\* A key that is reserved for a room that stays is not deleted.
<1>6. ASSUME NEW u \in Users, userKey[u] \in open' PROVE userKey'[u] = userKey[u]
  <2> SUFFICES ASSUME NEW q \in gone, u \in usernames[q] PROVE FALSE
    BY <1>3
  <2>1. userKey[u] = q
    BY <1>1, <1>2 DEF NamesReserved
  <2> QED BY <1>3, <1>6, <2>1
<1>7. DirectoryType'
  <2>1. userKey' \in [Users -> Rooms \cup {NoRoom}]
    BY <1>1, <1>3 DEF DirectoryType
  <2> QED BY <1>1, <1>3, <2>1 DEF DirectoryType
<1>8. RoomsType'
  <2>1. session' \in [Rooms -> Sess]
    BY <1>3, NewSessionSeated DEF Sess
  <2>2. connections' \in [Rooms -> SUBSET Conns]
    BY <1>3
  <2>3. participants' \in [Rooms -> SUBSET Conns] /\ usernames' \in [Rooms -> SUBSET Users]
    BY <1>1, <1>3 DEF RoomsType
  <2>4. closing' \in [Rooms -> 1 .. Grace]
    <3>1. Grace \in 1 .. Grace
      BY Nobody
    <3> QED BY <1>3, <3>1
  <2>5. open' \in SUBSET Rooms /\ codes' \in SUBSET open' /\ halfClosed' \in SUBSET open'
    BY <1>1, <1>2, <1>3 DEF RoomsType
  <2> QED BY <2>1, <2>2, <2>3, <2>4, <2>5 DEF RoomsType
<1>9. FreshStep({})
  <2> SUFFICES ASSUME NEW c \in Conns, Fresh(c) PROVE Fresh(c)'
    BY DEF FreshStep
  <2>1. roomOf'[c] = NoRoom
    BY DEF Fresh
  <2>2. ASSUME NEW q \in Rooms
        PROVE  c \notin connections'[q] /\ \A x \in Seated(session'[q]) : x.conn # c
    <3>1. c \notin connections[q] /\ \A x \in Seated(session[q]) : x.conn # c
      BY DEF Fresh
    <3> QED BY <1>5, <1>gone, <1>failed, <1>there, <3>1
  <2> QED BY <2>1, <2>2 DEF Fresh
<1>10. Newcomers'
  BY <1>1, <1>9 DEF Newcomers, FreshStep
<1>11. ClosedRooms'
  <2> SUFFICES ASSUME NEW q \in Rooms \ open'
               PROVE  /\ connections'[q] = {} /\ participants'[q] = {}
                      /\ usernames'[q] = {} /\ session'[q] = NewSession
    BY DEF ClosedRooms
  <2>1. CASE q \in gone
    BY <1>gone, <2>1
  <2>2. CASE q \notin gone
    <3>1. q \notin open /\ q \notin rooms
      BY <1>3, <2>2
    <3> QED BY <1>1, <1>there, <3>1 DEF ClosedRooms
  <2> QED BY <2>1, <2>2
<1>12. HalfClosedRooms'
  <2> SUFFICES ASSUME NEW q \in halfClosed' PROVE participants'[q] = {} /\ usernames'[q] = {}
    BY DEF HalfClosedRooms
  <2>1. q \in failed \/ (q \in halfClosed /\ q \notin gone)
    BY <1>3
  <2> QED BY <1>1, <1>2, <1>5, <1>failed, <1>there, <2>1 DEF HalfClosedRooms
<1>13. NamesReserved'
  <2> SUFFICES ASSUME NEW q \in open', NEW u \in usernames'[q] PROVE userKey'[u] = q
    BY DEF NamesReserved
  <2>1. q \in Rooms /\ q \in open /\ q \notin gone
    BY <1>2, <1>3
  <2>2. CASE q \in failed
    BY <1>failed, <2>2
  <2>3. CASE q \notin rooms
    <3>1. u \in usernames[q] /\ u \in Users
      BY <1>1, <1>there, <2>1, <2>3 DEF RoomsType
    <3>2. userKey[u] = q
      BY <1>1, <2>1, <3>1 DEF NamesReserved
    <3> QED BY <1>6, <3>1, <3>2
  <2> QED BY <1>5, <2>1, <2>2, <2>3
<1>14. ASSUME NEW q \in Sound'
       PROVE  /\ q \in Rooms /\ q \in Sound /\ q \notin rooms /\ session'[q] = sessions[q]
              /\ Seated(session'[q]) = Seated(session[q]) /\ connections'[q] = connections[q]
              /\ participants'[q] = participants[q] /\ usernames'[q] = usernames[q]
  BY <1>2, <1>4, <1>there
<1>15. NamesKnown'
  <2> SUFFICES ASSUME NEW q \in Sound'
               PROVE  /\ \A x \in Seated(session[q]) : x.user \in usernames[q]
                      /\ \A c \in connections[q] : user'[c] \in usernames[q]
    BY <1>14 DEF NamesKnown
  <2>1. connections[q] \in SUBSET Conns
    BY <1>1, <1>14 DEF RoomsType
  <2>2. \A c \in connections[q] : user'[c] = user[c]
    BY <1>14, <2>1
  <2> QED BY <1>1, <1>14, <2>2 DEF NamesKnown
<1>16. Orders'
  BY <1>3, NewSessionSeated DEF Orders
<1>17. SeatsNamed'
  <2> SUFFICES ASSUME NEW q \in Rooms, NEW x \in Seated(session'[q]), state'[x.conn] \in Active
               PROVE  x.user = user'[x.conn]
    BY DEF SeatsNamed
  <2>1. x \in Seated(session[q])
    BY <1>5, <1>gone, <1>failed, <1>there
  <2>2. x.conn \in Conns
    BY <1>1, <2>1, SeatFacts
  <2> QED BY <1>1, <2>1, <2>2 DEF SeatsNamed
<1>18. Members'
  <2> SUFFICES ASSUME NEW q \in Sound'
               PROVE  /\ participants[q] \in SUBSET connections[q]
                      /\ \A c \in Conns : c \in connections[q] <=> roomOf'[c] = q
    BY <1>14 DEF Members
  <2>1. /\ participants[q] \in SUBSET connections[q]
        /\ \A c \in Conns : c \in connections[q] <=> roomOf[c] = q
    BY <1>1, <1>14 DEF Members
  <2>2. \A c \in Conns : roomOf'[c] = q <=> roomOf[c] = q
    BY <1>2, <1>14
  <2> QED BY <2>1, <2>2
<1>19. Reserved'
  <2> SUFFICES ASSUME NEW q \in open'
               PROVE  q \in roomKeys' /\ \A x \in Seated(session'[q]) : userKey'[x.user] = q
    BY DEF Reserved
  <2>1. q \in Rooms /\ q \in open /\ q \notin gone /\ q \in roomKeys'
    BY <1>1, <1>2, <1>3 DEF Reserved
  <2>2. Seated(session'[q]) = Seated(session[q])
    BY <1>5, <1>failed, <1>there, <2>1
  <2>3. \A x \in Seated(session[q]) : x.user \in Users /\ userKey[x.user] = q
    BY <1>1, <2>1, SeatFacts DEF Reserved
  <2> QED BY <1>6, <2>1, <2>2, <2>3
<1>20. Awaited'
  <2> SUFFICES ASSUME NEW q \in Sound', ~session'[q].over,
                      NEW x \in Seated(session'[q]), x.role \in Sides
               PROVE  x.conn \notin connections'[q] <=> Counting(session'[q], x.role)
    BY DEF Awaited
  <2>1. /\ ~session[q].over
        /\ Counting(sessions[q], x.role) <=> Counting(session[q], x.role)
    BY <1>14
  <2> QED BY <1>1, <1>14, <2>1 DEF Awaited
<1>21. SeatStep
  <2> SUFFICES ASSUME NEW q \in open \cap open' PROVE Seated(session'[q]) = Seated(session[q])
    BY DEF SeatStep
  <2>1. q \in Rooms /\ q \notin gone
    BY <1>2, <1>3
  <2> QED BY <1>5, <1>failed, <1>there, <2>1
<1>22. ASSUME \A q \in Rooms : WellRated(session[q]) => WellRated(sessions[q]) PROVE RateStep
  <2> SUFFICES ASSUME NEW q \in Rooms, WellRated(session[q]) PROVE WellRated(session'[q])
    BY DEF RateStep
  <2>1. CASE q \in gone
    <3>1. session'[q] = NewSession
      BY <1>gone, <2>1
    <3> QED BY <3>1, NewSessionType
  <2>2. CASE q \notin gone
    <3>1. session'[q] = sessions[q]
      BY <1>5, <1>failed, <1>there, <2>2
    <3> QED BY <1>22, <3>1
  <2> QED BY <2>1, <2>2
<1>23. ASSUME failed = {} PROVE LockStep
  <2> SUFFICES ASSUME Locked PROVE Locked'
    BY DEF LockStep
  <2>1. halfClosed' = {} /\ Sound = open
    BY <1>3, <1>23 DEF Locked, Sound
  <2>2. ASSUME NEW u \in Users, userKey'[u] # NoRoom
        PROVE  userKey'[u] \in open' /\ \E x \in Seated(session'[userKey'[u]]) : x.user = u
    <3>1. userKey'[u] = userKey[u] /\ \A q \in gone : u \notin usernames[q]
      BY <1>3, <2>2
    <3>2. userKey[u] \in open /\ \E x \in Seated(session[userKey[u]]) : x.user = u
      BY <2>2, <3>1 DEF Locked
    <3>3. u \in usernames[userKey[u]]
      BY <1>1, <2>1, <3>2 DEF NamesKnown
    <3>4. userKey[u] \notin gone
      BY <3>1, <3>3
    <3>5. userKey[u] \in Rooms /\ userKey[u] \notin rooms
      BY <1>2, <1>5, <1>23, <3>2, <3>4
    <3>6. Seated(session'[userKey[u]]) = Seated(session[userKey[u]])
      BY <1>there, <3>5
    <3> QED BY <1>3, <3>1, <3>2, <3>4, <3>6
  <2> QED BY <2>1, <2>2 DEF Locked
<1>24. PeopleType' /\ Named'
  OBVIOUS
<1> QED BY <1>7, <1>8, <1>9, <1>10, <1>11, <1>12, <1>13, <1>15, <1>16, <1>17, <1>18, <1>19,
           <1>20, <1>21, <1>22, <1>23, <1>24 DEF RoomsInv

\* A connection that is gone leaves its room, if it is in one.
LEMMA LeaveKeeps ==
    ASSUME RoomsInv, NEW c \in Conns, state[c] \in Active, NEW directoryUp,
           directoryUp = TRUE \/ directoryUp = FALSE, RemoveParticipant(c, directoryUp)
    PROVE  /\ RoomsInv' /\ SeatStep /\ RateStep /\ FreshStep({c})
           /\ directoryUp = TRUE => LockStep
           /\ \A d \in Conns : d # c => state'[d] = state[d]
<1> DEFINE r == roomOf[c]
<1>1. /\ DirectoryType /\ RoomsType /\ PeopleType
      /\ Named /\ Newcomers /\ ClosedRooms /\ HalfClosedRooms
      /\ NamesReserved /\ NamesKnown /\ Orders /\ SeatsNamed
      /\ Members /\ Reserved /\ Awaited
  BY DEF RoomsInv
<1>2. /\ state' = [state EXCEPT ![c] = "DISCONNECTED"]
      /\ roomOf' = [roomOf EXCEPT ![c] = NoRoom]
      /\ user' = [user EXCEPT ![c] = NoUser]
  BY DEF RemoveParticipant
<1>3. \/ r \notin open /\ UNCHANGED <<directoryVars, localVars>>
      \/ /\ r \in open /\ connections[r] \ {c} # {}
         /\ connections' = [connections EXCEPT ![r] = @ \ {c}]
         /\ participants' = [participants EXCEPT ![r] = @ \ {c}]
         /\ session' = [session EXCEPT ![r] = BeginCountdown(@, c)]
         /\ UNCHANGED <<directoryVars, open, usernames, codes, closing, halfClosed>>
      \/ /\ LastToLeave(c)
         /\ CloseRooms({r}, IF directoryUp THEN {} ELSE {r}, [connections EXCEPT ![r] = {}],
                       session, closing)
  BY DEF RemoveParticipant
<1>4. r = roomOf[c]
  OBVIOUS
<1> HIDE DEF r
<1>5. /\ PeopleType'
      /\ \A d \in Conns : d # c => state'[d] = state[d] /\ roomOf'[d] = roomOf[d] /\ user'[d] = user[d]
      /\ state'[c] = "DISCONNECTED" /\ roomOf'[c] = NoRoom /\ user'[c] = NoUser
  BY <1>1, <1>2 DEF PeopleType, States
<1>6. Named'
  <2> SUFFICES ASSUME NEW d \in Conns PROVE user'[d] \in Users <=> state'[d] \in Active
    BY DEF Named
  <2>1. CASE d = c
    BY <1>5, <2>1, Nobody DEF Active
  <2>2. CASE d # c
    BY <1>1, <1>5, <2>2 DEF Named
  <2> QED BY <2>1, <2>2
<1>7. open \in SUBSET Rooms /\ NoRoom \notin Rooms /\ Sound \in SUBSET open
  BY <1>1, Nobody DEF RoomsType, Sound
\* Of the rooms that work, only r can know c.
<1>8. \A q \in Sound : q # r => c \notin connections[q]
  BY <1>1, <1>4 DEF Members
<1>9. CASE LastToLeave(c) /\ CloseRooms({r}, IF directoryUp THEN {} ELSE {r},
                                        [connections EXCEPT ![r] = {}], session, closing)
  <2> DEFINE failed == IF directoryUp THEN {} ELSE {r}
             conns  == [connections EXCEPT ![r] = {}]
             rooms  == {r}
  <2>1. /\ rooms \in SUBSET open /\ failed \in SUBSET rooms
        /\ directoryUp = TRUE => failed = {}
    BY <1>4, <1>9 DEF LastToLeave
  <2>2. /\ conns \in [Rooms -> SUBSET Conns] /\ session \in [Rooms -> Sess]
        /\ closing \in [Rooms -> 1 .. Grace]
        /\ \A q \in Rooms : conns[q] \in SUBSET connections[q]
        /\ \A q \in Rooms \ rooms : conns[q] = connections[q]
    BY <1>1 DEF RoomsType
  <2>3. CloseRooms(rooms, failed, conns, session, closing)
    BY <1>9
  <2>4. \A q \in Sound \ rooms : q # r
    OBVIOUS
  <2> HIDE DEF failed, conns, rooms
  <2>5. \A q \in Rooms : /\ Orderly(session[q]) /\ Seated(session[q]) = Seated(session[q])
                         /\ conns[q] \in SUBSET connections[q]
    BY <1>1, <2>2 DEF Orders
  <2>6. \A d \in Conns : state'[d] = "CONNECTED" => state[d] = "CONNECTED"
    BY <1>5
  <2>7. \A d \in Conns : \/ roomOf'[d] = roomOf[d]
                         \/ roomOf'[d] = NoRoom /\ \A q \in Sound \ rooms : roomOf[d] # q
    BY <1>4, <1>5, <2>4
  <2>8. \A d \in Conns : \/ user'[d] = user[d]
                         \/ \A q \in Sound \ rooms : d \notin connections[q]
    BY <1>5, <1>8, <2>4
  <2>9. \A d \in Conns : state'[d] \in Active => state[d] \in Active /\ user'[d] = user[d]
    BY <1>5 DEF Active
  <2>10. \A q \in Rooms \ rooms :
            /\ conns[q] = connections[q]
            /\ ~session[q].over =>
                  /\ ~session[q].over
                  /\ \A side \in Sides : Counting(session[q], side) <=> Counting(session[q], side)
    BY <2>2
  <2>11. \A q \in Rooms \ open : session[q] = session[q]
    OBVIOUS
  <2>12. \A q \in Rooms : WellRated(session[q]) => WellRated(session[q])
    OBVIOUS
  <2>13. /\ RoomsInv' /\ SeatStep /\ FreshStep({}) /\ RateStep
         /\ failed = {} => LockStep
    BY <1>5, <1>6, <2>1, <2>2, <2>3, <2>5, <2>6, <2>7, <2>8, <2>9, <2>10, <2>11, <2>12,
       CloseRoomsKeeps
  <2> QED BY <1>5, <2>1, <2>13 DEF FreshStep
<1>10. CASE ~LastToLeave(c)
  <2> DEFINE t == BeginCountdown(session[r], c)
  <2>1. /\ open' = open /\ halfClosed' = halfClosed /\ usernames' = usernames
        /\ codes' = codes /\ closing' = closing /\ Sound' = Sound
        /\ roomKeys' = roomKeys /\ joinKeys' = joinKeys /\ userKey' = userKey
    BY <1>3, <1>10 DEF directoryVars, localVars, Sound
  <2>2. r \in open \/ (r \notin open /\ session' = session /\ connections' = connections
                       /\ participants' = participants)
    BY <1>3, <1>10 DEF localVars
  <2>3. r \in open => /\ r \in Rooms
                      /\ connections' = [connections EXCEPT ![r] = @ \ {c}]
                      /\ participants' = [participants EXCEPT ![r] = @ \ {c}]
                      /\ session' = [session EXCEPT ![r] = t]
    BY <1>3, <1>7, <1>10
  <2>4. r \in open =>
           /\ t \in Sess /\ Orderly(t) /\ Seated(t) = Seated(session[r])
           /\ t.over = session[r].over /\ t.result = session[r].result /\ t.rated = session[r].rated
           /\ \A side \in Sides :
                 Counting(t, side) <=> \/ Counting(session[r], side)
                                       \/ \E x \in Seated(session[r]) : x.conn = c /\ x.role = side
    <3> SUFFICES ASSUME r \in open
                 PROVE  /\ t \in Sess /\ Orderly(t) /\ Seated(t) = Seated(session[r])
                        /\ t.over = session[r].over /\ t.result = session[r].result
                        /\ t.rated = session[r].rated
                        /\ \A side \in Sides :
                              Counting(t, side) <=>
                                 \/ Counting(session[r], side)
                                 \/ \E x \in Seated(session[r]) : x.conn = c /\ x.role = side
      OBVIOUS
    <3>1. session[r] \in SessionsOver(Conns, Users) /\ Orderly(session[r])
      BY <1>1, <2>3, SeatFacts DEF Sess
    <3> HIDE DEF t
    <3> QED BY <3>1, BeginCountdownSeated DEF Sess, t
  <2> HIDE DEF t
  <2>here. r \in open => /\ session'[r] = t /\ Seated(session'[r]) = Seated(session[r])
                         /\ connections'[r] = connections[r] \ {c}
                         /\ participants'[r] = participants[r] \ {c}
    BY <1>1, <2>3, <2>4 DEF RoomsType
  <2>there. ASSUME NEW q \in Rooms, q # r \/ r \notin open
            PROVE  /\ session'[q] = session[q] /\ connections'[q] = connections[q]
                   /\ participants'[q] = participants[q]
    BY <1>1, <2>2, <2>3, <2>there DEF RoomsType
  <2>5. ASSUME NEW q \in Rooms
        PROVE  /\ Seated(session'[q]) = Seated(session[q])
               /\ connections'[q] \in SUBSET connections[q]
               /\ participants'[q] \in SUBSET participants[q]
               /\ q \notin open => session'[q] = session[q]
    BY <2>here, <2>there
  <2>6. DirectoryType'
    BY <1>1, <2>1 DEF DirectoryType
  <2>7. RoomsType'
    <3>1. session' \in [Rooms -> Sess]
      BY <1>1, <2>2, <2>3, <2>4 DEF RoomsType
    <3>2. /\ connections' \in [Rooms -> SUBSET Conns]
          /\ participants' \in [Rooms -> SUBSET Conns]
      BY <1>1, <2>2, <2>3 DEF RoomsType
    <3> QED BY <1>1, <2>1, <3>1, <3>2 DEF RoomsType
  <2>8. FreshStep({c})
    <3> SUFFICES ASSUME NEW d \in Conns, d # c, Fresh(d) PROVE Fresh(d)'
      BY DEF FreshStep
    <3>1. roomOf'[d] = NoRoom
      BY <1>5 DEF Fresh
    <3>2. ASSUME NEW q \in Rooms
          PROVE  d \notin connections'[q] /\ \A x \in Seated(session'[q]) : x.conn # d
      BY <2>5 DEF Fresh
    <3> QED BY <3>1, <3>2 DEF Fresh
  <2>9. Newcomers'
    <3> SUFFICES ASSUME NEW d \in Conns, state'[d] = "CONNECTED" PROVE Fresh(d)'
      BY DEF Newcomers
    <3>1. d # c /\ state[d] = "CONNECTED"
      BY <1>5
    <3> QED BY <1>1, <2>8, <3>1 DEF Newcomers, FreshStep
  <2>10. ClosedRooms'
    BY <1>1, <2>1, <2>5 DEF ClosedRooms
  <2>11. HalfClosedRooms'
    BY <1>1, <2>1, <2>5 DEF HalfClosedRooms, RoomsType
  <2>12. NamesReserved'
    BY <1>1, <2>1 DEF NamesReserved
  <2>13. ASSUME NEW q \in Sound
         PROVE  /\ q \in Rooms /\ c \notin connections'[q]
                /\ connections'[q] = connections[q] \ {c}
    <3>1. q \in Rooms
      BY <1>7
    <3>2. CASE q = r
      BY <1>7, <2>here, <3>2
    <3>3. CASE q # r
      BY <1>8, <2>there, <3>1, <3>3
    <3> QED BY <3>1, <3>2, <3>3
  <2>14. NamesKnown'
    <3> SUFFICES ASSUME NEW q \in Sound
                 PROVE  /\ \A x \in Seated(session'[q]) : x.user \in usernames[q]
                        /\ \A d \in connections'[q] : user'[d] \in usernames[q]
      BY <2>1 DEF NamesKnown
    <3>1. connections[q] \in SUBSET Conns
      BY <1>1, <2>13 DEF RoomsType
    <3> QED BY <1>1, <1>5, <2>5, <2>13, <3>1 DEF NamesKnown
  <2>15. Orders'
    <3> SUFFICES ASSUME NEW q \in Rooms PROVE Orderly(session'[q])
      BY DEF Orders
    <3> QED BY <1>1, <2>4, <2>here, <2>there DEF Orders
  <2>16. SeatsNamed'
    <3> SUFFICES ASSUME NEW q \in Rooms, NEW x \in Seated(session'[q]), state'[x.conn] \in Active
                 PROVE  x.user = user'[x.conn]
      BY DEF SeatsNamed
    <3>1. x \in Seated(session[q]) /\ x.conn # c
      BY <1>5, <2>5 DEF Active
    <3>2. x.conn \in Conns
      BY <1>1, <3>1, SeatFacts
    <3> QED BY <1>1, <1>5, <3>1, <3>2 DEF SeatsNamed
  <2>17. Members'
    <3> SUFFICES ASSUME NEW q \in Sound
                 PROVE  /\ participants'[q] \in SUBSET connections'[q]
                        /\ \A d \in Conns : d \in connections'[q] <=> roomOf'[d] = q
      BY <2>1 DEF Members
    <3>1. /\ participants[q] \in SUBSET connections[q]
          /\ \A d \in Conns : d \in connections[q] <=> roomOf[d] = q
      BY <1>1 DEF Members
    <3>2. participants'[q] \in SUBSET connections'[q]
      <4>1. CASE q = r
        BY <1>7, <2>here, <3>1, <4>1
      <4>2. CASE q # r
        BY <2>there, <2>13, <3>1, <4>2
      <4> QED BY <4>1, <4>2
    <3>3. q # NoRoom
      BY <1>7
    <3> QED BY <1>5, <2>13, <3>1, <3>2, <3>3
  <2>18. Reserved'
    BY <1>1, <1>7, <2>1, <2>5 DEF Reserved
  <2>19. Awaited'
    <3> SUFFICES ASSUME NEW q \in Sound, ~session'[q].over,
                        NEW x \in Seated(session'[q]), x.role \in Sides
                 PROVE  x.conn \notin connections'[q] <=> Counting(session'[q], x.role)
      BY <2>1 DEF Awaited
    <3>1. q \in Rooms /\ x \in Seated(session[q])
      BY <2>5, <2>13
    <3>2. CASE q # r
      BY <1>1, <2>there, <3>1, <3>2 DEF Awaited
    <3>3. CASE q = r
      <4>1. r \in open /\ ~session[r].over
        BY <1>7, <2>4, <2>here, <3>3
      <4>2. x.conn \notin connections[r] <=> Counting(session[r], x.role)
        BY <1>1, <3>1, <3>3, <4>1 DEF Awaited
      <4>3. (\E y \in Seated(session[r]) : y.conn = c /\ y.role = x.role) <=> x.conn = c
        BY <1>1, <3>1, <3>3, SeatFacts
      <4> QED BY <2>4, <2>13, <2>here, <3>3, <4>1, <4>2, <4>3
    <3> QED BY <3>2, <3>3
  <2>20. SeatStep
    BY <1>7, <2>5 DEF SeatStep
  <2>21. RateStep
    <3>1. r \in open => (WellRated(session[r]) => WellRated(t))
      BY <2>4 DEF WellRated
    <3> QED BY <2>here, <2>there, <3>1 DEF RateStep
  <2>22. LockStep
    <3> SUFFICES ASSUME Locked PROVE Locked'
      BY DEF LockStep
    <3> QED BY <1>7, <2>1, <2>5 DEF Locked
  <2> QED BY <1>1, <1>5, <1>6, <2>6, <2>7, <2>8, <2>9, <2>10, <2>11, <2>12, <2>14, <2>15, <2>16,
             <2>17, <2>18, <2>19, <2>20, <2>21, <2>22 DEF RoomsInv
<1>11. LastToLeave(c) => CloseRooms({r}, IF directoryUp THEN {} ELSE {r},
                                    [connections EXCEPT ![r] = {}], session, closing)
  BY <1>3, <1>4 DEF LastToLeave
<1> QED BY <1>9, <1>10, <1>11

-----------------------------------------------------------------------------
\* Steps in which no room changes.

LEMMA PeopleKeep ==
    ASSUME RoomsInv, UNCHANGED <<directoryVars, localVars, roomOf>>, PeopleType', Named',
           \A c \in Conns : state'[c] = "CONNECTED" => state[c] = "CONNECTED",
           \A c \in Conns : user'[c] = user[c] \/ Fresh(c),
           \A c \in Conns : state'[c] \in Active => state[c] \in Active \/ Fresh(c)
    PROVE  RoomsInv' /\ SeatStep /\ RateStep /\ LockStep /\ FreshStep({})
<1>1. /\ DirectoryType /\ RoomsType /\ PeopleType
      /\ Named /\ Newcomers /\ ClosedRooms /\ HalfClosedRooms
      /\ NamesReserved /\ NamesKnown /\ Orders /\ SeatsNamed
      /\ Members /\ Reserved /\ Awaited
  BY DEF RoomsInv
<1>2. /\ roomKeys' = roomKeys /\ joinKeys' = joinKeys /\ userKey' = userKey /\ open' = open
      /\ session' = session /\ connections' = connections /\ participants' = participants
      /\ usernames' = usernames /\ codes' = codes /\ closing' = closing
      /\ halfClosed' = halfClosed /\ roomOf' = roomOf /\ Sound' = Sound
  BY DEF directoryVars, localVars, Sound
<1>3. /\ DirectoryType' /\ RoomsType' /\ ClosedRooms' /\ HalfClosedRooms' /\ NamesReserved'
      /\ Orders' /\ Reserved'
  BY <1>1, <1>2 DEF DirectoryType, RoomsType, ClosedRooms, HalfClosedRooms, NamesReserved, Orders,
                    Reserved
<1>4. Members' /\ Awaited'
  BY <1>1, <1>2 DEF Members, Awaited
<1>5. FreshStep({})
  BY <1>2 DEF FreshStep, Fresh
<1>6. Newcomers'
  BY <1>1, <1>5 DEF Newcomers, FreshStep
<1>7. NamesKnown'
  <2> SUFFICES ASSUME NEW q \in Sound
               PROVE  /\ \A x \in Seated(session[q]) : x.user \in usernames[q]
                      /\ \A d \in connections[q] : user'[d] \in usernames[q]
    BY <1>2 DEF NamesKnown
  <2>1. q \in Rooms /\ connections[q] \in SUBSET Conns
    BY <1>1 DEF Sound, RoomsType
  <2>2. \A d \in connections[q] : user'[d] = user[d]
    BY <2>1 DEF Fresh
  <2> QED BY <1>1, <2>2 DEF NamesKnown
<1>8. SeatsNamed'
  <2> SUFFICES ASSUME NEW q \in Rooms, NEW x \in Seated(session[q]), state'[x.conn] \in Active
               PROVE  x.user = user'[x.conn]
    BY <1>2 DEF SeatsNamed
  <2>1. x.conn \in Conns /\ ~Fresh(x.conn)
    BY <1>1, SeatFacts DEF Fresh
  <2> QED BY <1>1, <2>1 DEF SeatsNamed
<1>9. SeatStep /\ RateStep /\ LockStep
  BY <1>2 DEF SeatStep, RateStep, LockStep, Locked
<1>10. PeopleType' /\ Named'
  OBVIOUS
<1> QED BY <1>3, <1>4, <1>5, <1>6, <1>7, <1>8, <1>9, <1>10 DEF RoomsInv

-----------------------------------------------------------------------------
\* Seats for one connection, and for two.

LEMMA OneSeatGiven ==
    ASSUME NEW s \in Sess, Orderly(s), NEW c \in Conns, user[c] \in Users,
           \A x \in Seated(s) : x.conn # c
    PROVE  SeatsGiven(s, Place(s, c, user[c]), {c})
<1> DEFINE t == Place(s, c, user[c])
<1>1. s \in SessionsOver(Conns, Users)
  BY DEF Sess
<1>2. /\ t \in SessionsOver(Conns, Users) /\ Orderly(t)
      /\ \E seat \in SeatsOver(Conns, Users) :
            /\ seat.conn = c /\ seat.user = user[c]
            /\ Seated(t) = Seated(s) \cup {seat}
            /\ seat.role \in Sides => ~Counting(t, seat.role)
      /\ \A side : Counting(t, side) <=> Counting(s, side)
      /\ t.over = s.over /\ t.result = s.result /\ t.rated = s.rated
  BY <1>1, PlaceSeated
<1> HIDE DEF t
<1> SUFFICES SeatsGiven(s, t, {c})
  BY DEF t
<1> QED BY <1>2 DEF SeatsGiven, Sess

LEMMA TwoSeatsGiven ==
    ASSUME NEW s \in Sess, Orderly(s), NEW c \in Conns, NEW d \in Conns, c # d,
           user[c] \in Users, user[d] \in Users,
           \A x \in Seated(s) : x.conn # c /\ x.conn # d
    PROVE  SeatsGiven(s, Place(Place(s, c, user[c]), d, user[d]), {c, d})
<1> DEFINE m == Place(s, c, user[c])
           t == Place(m, d, user[d])
<1>1. s \in SessionsOver(Conns, Users)
  BY DEF Sess
<1>2. /\ m \in SessionsOver(Conns, Users) /\ Orderly(m)
      /\ \E seat \in SeatsOver(Conns, Users) :
            /\ seat.conn = c /\ seat.user = user[c]
            /\ Seated(m) = Seated(s) \cup {seat}
            /\ seat.role \in Sides => ~Counting(m, seat.role)
      /\ \A side : Counting(m, side) <=> Counting(s, side)
      /\ m.over = s.over /\ m.result = s.result /\ m.rated = s.rated
  BY <1>1, PlaceSeated
<1>3. t = Place(m, d, user[d])
  OBVIOUS
<1> HIDE DEF m, t
<1>4. PICK one \in SeatsOver(Conns, Users) :
            /\ one.conn = c /\ one.user = user[c]
            /\ Seated(m) = Seated(s) \cup {one}
            /\ one.role \in Sides => ~Counting(m, one.role)
  BY <1>2
<1>5. \A x \in Seated(m) : x.conn # d
  BY <1>4
<1>6. /\ t \in SessionsOver(Conns, Users) /\ Orderly(t)
      /\ \E seat \in SeatsOver(Conns, Users) :
            /\ seat.conn = d /\ seat.user = user[d]
            /\ Seated(t) = Seated(m) \cup {seat}
            /\ seat.role \in Sides => ~Counting(t, seat.role)
      /\ \A side : Counting(t, side) <=> Counting(m, side)
      /\ t.over = m.over /\ t.result = m.result /\ t.rated = m.rated
  BY <1>2, <1>3, <1>5, PlaceSeated
<1>7. PICK two \in SeatsOver(Conns, Users) :
            /\ two.conn = d /\ two.user = user[d]
            /\ Seated(t) = Seated(m) \cup {two}
            /\ two.role \in Sides => ~Counting(t, two.role)
  BY <1>6
<1> SUFFICES SeatsGiven(s, t, {c, d})
  BY DEF t, m
<1>8. Seated(t) = Seated(s) \cup {one, two}
  BY <1>4, <1>7
<1>9. one.role \in Sides => ~Counting(t, one.role)
  BY <1>4, <1>6
<1>10. \A side \in Sides : Counting(t, side) <=> Counting(s, side)
  BY <1>2, <1>6
<1> QED BY <1>2, <1>4, <1>6, <1>7, <1>8, <1>9, <1>10 DEF SeatsGiven, Sess

LEMMA Groups ==
    ASSUME NEW f, NEW c, NEW d
    PROVE  /\ Len(<<c>>) = 1 /\ Len(<<c, d>>) = 2
           /\ {<<c>>[i] : i \in DOMAIN <<c>>} = {c} /\ {f[<<c>>[i]] : i \in DOMAIN <<c>>} = {f[c]}
           /\ {<<c, d>>[i] : i \in DOMAIN <<c, d>>} = {c, d}
           /\ {f[<<c, d>>[i]] : i \in DOMAIN <<c, d>>} = {f[c], f[d]}
<1>1. Len(<<c>>) = 1 /\ Len(<<c, d>>) = 2
  OBVIOUS
<1>2. DOMAIN <<c>> = {1} /\ DOMAIN <<c, d>> = {1, 2}
  OBVIOUS
<1>3. <<c>>[1] = c /\ <<c, d>>[1] = c /\ <<c, d>>[2] = d
  OBVIOUS
<1> QED BY <1>1, <1>2, <1>3

\* The id of a new room is not in use, and the room is empty.
LEMMA NewRoomIsEmpty ==
    ASSUME RoomsInv, NEW r \in Rooms, Unused(r)
    PROVE  r \notin open /\ r \notin halfClosed /\ session[r] = NewSession
BY DEF RoomsInv, Unused, Reserved, RoomsType, ClosedRooms

LEMMA OpenRoomKeeps ==
    ASSUME RoomsInv, NEW c \in Conns, state[c] \in Active, NEW r \in Rooms, NEW withCode,
           OpenRoom(r, <<c>>, withCode)
    PROVE  /\ RoomsInv' /\ SeatStep /\ RateStep /\ LockStep /\ FreshStep({c})
           /\ \A d \in Conns : state'[d] = IF d = c THEN "IN_ROOM" ELSE state[d]
<1> DEFINE t == Place(NewSession, c, user[c])
<1>1. /\ r \notin open /\ r \notin halfClosed /\ session[r] = NewSession
      /\ \A d \in Conns : roomOf[d] # r
  BY NewRoomIsEmpty DEF OpenRoom, ReserveNewRoom
<1>2. user[c] \in Users
  BY DEF RoomsInv, Named
<1>3. /\ Len(<<c>>) = 1 /\ <<c>>[1] = c
      /\ {<<c>>[i] : i \in DOMAIN <<c>>} = {c}
      /\ {user[<<c>>[i]] : i \in DOMAIN <<c>>} = {user[c]}
  BY Groups
<1>4. userKey[user[c]] = NoRoom
  BY <1>3 DEF OpenRoom, ReserveNewRoom, UsersFree
<1>5. SeatsGiven(session[r], t, {c})
  BY <1>1, <1>2, NewSessionSeated, OneSeatGiven DEF Sess
<1>6. /\ session' = [session EXCEPT ![r] = t]
      /\ connections' = [connections EXCEPT ![r] = @ \cup {c}]
      /\ participants' = [participants EXCEPT ![r] = @ \cup {c}]
      /\ usernames' = [usernames EXCEPT ![r] = @ \cup {user[d] : d \in {c}}]
      /\ state' = [d \in Conns |-> IF d \in {c} THEN "IN_ROOM" ELSE state[d]]
      /\ roomOf' = [d \in Conns |-> IF d \in {c} THEN r ELSE roomOf[d]]
      /\ UNCHANGED <<closing, halfClosed, user>>
  BY <1>3 DEF OpenRoom, PlaceAll
<1> HIDE DEF t
<1>7. /\ roomKeys' = roomKeys \cup {r} /\ joinKeys' \in SUBSET (joinKeys \cup {r})
      /\ userKey' = [u \in Users |-> IF u \in {user[c]} THEN r ELSE userKey[u]]
      /\ open' = open \cup {r} /\ codes' \in SUBSET (codes \cup {r})
  BY <1>3 DEF OpenRoom, ReserveNewRoom
<1>8. roomKeys \in SUBSET Rooms /\ joinKeys \in SUBSET Rooms /\ codes \in SUBSET open
  BY DEF RoomsInv, DirectoryType, RoomsType
<1>9. MoveIn(r, {c}, t)
  <2>1. userKey' = [u \in Users |-> IF \E d \in {c} : u = user[d] THEN r ELSE userKey[u]]
    BY <1>7
  <2> QED BY <1>6, <1>7, <1>8, <2>1 DEF MoveIn
<1>10. \A d \in {c} : state[d] \in Active /\ userKey[user[d]] = NoRoom
  BY <1>4
<1>11. RoomsInv' /\ SeatStep /\ RateStep /\ LockStep /\ FreshStep({c})
  BY <1>1, <1>5, <1>9, <1>10, MoveInKeeps
<1> QED BY <1>6, <1>11

LEMMA OpenMatchKeeps ==
    ASSUME RoomsInv, NEW b \in Conns, NEW c \in Conns, b # c,
           state[b] \in Active, state[c] \in Active, NEW r \in Rooms, NEW withCode,
           OpenRoom(r, <<b, c>>, withCode)
    PROVE  /\ RoomsInv' /\ SeatStep /\ RateStep /\ LockStep /\ FreshStep({b, c})
           /\ \A d \in Conns : state'[d] = IF d \in {b, c} THEN "IN_ROOM" ELSE state[d]
<1> DEFINE t == Place(Place(NewSession, b, user[b]), c, user[c])
<1>1. /\ r \notin open /\ r \notin halfClosed /\ session[r] = NewSession
      /\ \A d \in Conns : roomOf[d] # r
  BY NewRoomIsEmpty DEF OpenRoom, ReserveNewRoom
<1>2. user[b] \in Users /\ user[c] \in Users
  BY DEF RoomsInv, Named
<1>3. /\ Len(<<b, c>>) # 1 /\ <<b, c>>[1] = b /\ <<b, c>>[2] = c
      /\ {<<b, c>>[i] : i \in DOMAIN <<b, c>>} = {b, c}
      /\ {user[<<b, c>>[i]] : i \in DOMAIN <<b, c>>} = {user[b], user[c]}
  BY Groups
<1>4. userKey[user[b]] = NoRoom /\ userKey[user[c]] = NoRoom
  BY <1>3 DEF OpenRoom, ReserveNewRoom, UsersFree
<1>5. SeatsGiven(session[r], t, {b, c})
  BY <1>1, <1>2, NewSessionSeated, TwoSeatsGiven DEF Sess
<1>6. /\ session' = [session EXCEPT ![r] = t]
      /\ connections' = [connections EXCEPT ![r] = @ \cup {b, c}]
      /\ participants' = [participants EXCEPT ![r] = @ \cup {b, c}]
      /\ usernames' = [usernames EXCEPT ![r] = @ \cup {user[d] : d \in {b, c}}]
      /\ state' = [d \in Conns |-> IF d \in {b, c} THEN "IN_ROOM" ELSE state[d]]
      /\ roomOf' = [d \in Conns |-> IF d \in {b, c} THEN r ELSE roomOf[d]]
      /\ UNCHANGED <<closing, halfClosed, user>>
  BY <1>3 DEF OpenRoom, PlaceAll
<1> HIDE DEF t
<1>7. /\ roomKeys' = roomKeys \cup {r} /\ joinKeys' \in SUBSET (joinKeys \cup {r})
      /\ userKey' = [u \in Users |-> IF u \in {user[b], user[c]} THEN r ELSE userKey[u]]
      /\ open' = open \cup {r} /\ codes' \in SUBSET (codes \cup {r})
  BY <1>3 DEF OpenRoom, ReserveNewRoom
<1>8. roomKeys \in SUBSET Rooms /\ joinKeys \in SUBSET Rooms /\ codes \in SUBSET open
  BY DEF RoomsInv, DirectoryType, RoomsType
<1>9. MoveIn(r, {b, c}, t)
  <2>1. userKey' = [u \in Users |-> IF \E d \in {b, c} : u = user[d] THEN r ELSE userKey[u]]
    BY <1>7
  <2> QED BY <1>6, <1>7, <1>8, <2>1 DEF MoveIn
<1>10. \A d \in {b, c} : state[d] \in Active /\ userKey[user[d]] = NoRoom
  BY <1>4
<1>11. RoomsInv' /\ SeatStep /\ RateStep /\ LockStep /\ FreshStep({b, c})
  BY <1>1, <1>5, <1>9, <1>10, MoveInKeeps
<1> QED BY <1>6, <1>11

LEMMA JoinRoomOfKeeps ==
    ASSUME RoomsInv, NEW c \in Conns, state[c] \in Active, NEW r \in Rooms, JoinRoomOf(r, c)
    PROVE  /\ RoomsInv' /\ SeatStep /\ RateStep /\ LockStep /\ FreshStep({c})
           /\ \A d \in Conns : state'[d] = IF d = c THEN "IN_ROOM" ELSE state[d]
<1> DEFINE t == Place(session[r], c, user[c])
<1>1. /\ r \in open /\ r \notin halfClosed /\ r \in roomKeys /\ r # NoRoom
      /\ userKey[user[c]] = NoRoom
  BY Nobody DEF JoinRoomOf, ReserveJoin, JoinCodeValid, UsersFree
<1>2. /\ user[c] \in Users /\ session[r] \in Sess /\ Orderly(session[r])
      /\ codes \in SUBSET open /\ roomKeys \in SUBSET Rooms /\ joinKeys \in SUBSET Rooms
      /\ userKey \in [Users -> Rooms \cup {NoRoom}]
  BY DEF RoomsInv, Named, RoomsType, Orders, DirectoryType
<1>3. \A x \in Seated(session[r]) : x.conn # c
  <2> SUFFICES ASSUME NEW x \in Seated(session[r]), x.conn = c PROVE FALSE
    OBVIOUS
  <2>1. x.user = user[c] /\ userKey[x.user] = r
    BY <1>1 DEF RoomsInv, SeatsNamed, Reserved
  <2> QED BY <1>1, <2>1
<1>4. Len(<<c>>) = 1 /\ <<c>>[1] = c /\ {<<c>>[i] : i \in DOMAIN <<c>>} = {c}
  BY Groups
<1>5. SeatsGiven(session[r], t, {c})
  BY <1>2, <1>3, OneSeatGiven
<1>6. /\ session' = [session EXCEPT ![r] = t]
      /\ connections' = [connections EXCEPT ![r] = @ \cup {c}]
      /\ participants' = [participants EXCEPT ![r] = @ \cup {c}]
      /\ usernames' = [usernames EXCEPT ![r] = @ \cup {user[d] : d \in {c}}]
      /\ state' = [d \in Conns |-> IF d \in {c} THEN "IN_ROOM" ELSE state[d]]
      /\ roomOf' = [d \in Conns |-> IF d \in {c} THEN r ELSE roomOf[d]]
      /\ UNCHANGED <<closing, halfClosed, user>>
  BY <1>4 DEF JoinRoomOf, PlaceAll
<1> HIDE DEF t
<1>7. /\ roomKeys' = roomKeys /\ joinKeys' = joinKeys /\ userKey' = [userKey EXCEPT ![user[c]] = r]
      /\ open' = open /\ codes' = codes
  BY DEF JoinRoomOf, ReserveJoin
<1>8. MoveIn(r, {c}, t)
  <2>1. userKey' = [u \in Users |-> IF \E d \in {c} : u = user[d] THEN r ELSE userKey[u]]
    BY <1>2, <1>7
  <2>2. open' = open \cup {r}
    BY <1>1, <1>7
  <2> QED BY <1>1, <1>2, <1>6, <1>7, <2>1, <2>2 DEF MoveIn
<1>9. \A d \in {c} : state[d] \in Active /\ userKey[user[d]] = NoRoom
  BY <1>1
<1>10. RoomsInv' /\ SeatStep /\ RateStep /\ LockStep /\ FreshStep({c})
  BY <1>1, <1>5, <1>8, <1>9, MoveInKeeps
<1> QED BY <1>6, <1>10

-----------------------------------------------------------------------------
\* The queue.

Entries == [conn : Conns, rating : Int, waited : 0 .. SearchTime]

LEMMA EntryFields ==
    ASSUME entries \in Seq(Entries)
    PROVE  /\ Len(entries) \in Nat /\ DOMAIN entries = 1 .. Len(entries)
           /\ \A i \in DOMAIN entries : /\ entries[i] \in Entries /\ entries[i].conn \in Conns
                                        /\ entries[i].waited \in 0 .. SearchTime
<1>1. \A i \in DOMAIN entries : entries[i] \in Entries
  OBVIOUS
<1>2. \A e \in Entries : e.conn \in Conns /\ e.waited \in 0 .. SearchTime
  BY DEF Entries
<1> QED BY <1>1, <1>2

LEMMA CancelSearchKeeps ==
    ASSUME entries \in Seq(Entries), NEW c, CancelSearch(c)
    PROVE  /\ entries' \in Seq(Entries)
           /\ \A i \in DOMAIN entries' : /\ entries'[i].conn # c
                                         /\ \E j \in DOMAIN entries : entries'[i] = entries[j]
<1> DEFINE places == {i \in DOMAIN entries : entries[i].conn # c}
           kept   == Kept(entries, places)
<1>1. entries' = kept
  BY DEF CancelSearch
<1>2. /\ \A i \in places : entries[i].conn # c /\ i \in DOMAIN entries
      /\ places \in SUBSET (1 .. Len(entries))
      /\ \A i \in places : entries[i] \in Entries
  BY EntryFields
<1> HIDE DEF places
<1>3. /\ kept \in Seq(Entries)
      /\ \A j \in DOMAIN kept : \E i \in places : kept[j] = entries[i]
  BY <1>2, KeptIn
<1> HIDE DEF kept
<1>4. ASSUME NEW i \in DOMAIN kept
      PROVE  kept[i].conn # c /\ \E j \in DOMAIN entries : kept[i] = entries[j]
  BY <1>2, <1>3
<1> QED BY <1>1, <1>3, <1>4

LEMMA TickQueueKeeps ==
    ASSUME entries \in Seq(Entries), TickQueue
    PROVE  /\ entries' \in Seq(Entries)
           /\ \A i \in DOMAIN entries' : \E j \in DOMAIN entries : entries'[i].conn = entries[j].conn
<1> DEFINE n        == Len(entries)
           places   == {i \in DOMAIN entries : entries[i].waited < SearchTime}
           older(e) == [e EXCEPT !.waited = @ + 1]
           aged     == [i \in DOMAIN entries |-> [entries[i] EXCEPT !.waited = @ + 1]]
           Older    == [conn : Conns, rating : Int, waited : Nat]
           kept     == Kept(aged, places)
<1>1. entries' = kept
  BY DEF TickQueue
<1>2. n \in Nat /\ DOMAIN entries = 1 .. n /\ \A i \in 1 .. n : entries[i] \in Entries
  BY EntryFields
<1>3. ASSUME NEW e \in Entries
      PROVE  /\ older(e) \in Older /\ older(e).conn = e.conn
             /\ e.waited < SearchTime => older(e) \in Entries
  <2>1. /\ e.conn \in Conns /\ e.rating \in Int /\ e.waited \in 0 .. SearchTime
        /\ SearchTime \in Nat
    BY <1>3, Nobody DEF Entries
  <2>2. older(e) = [conn |-> e.conn, rating |-> e.rating, waited |-> e.waited + 1]
    BY <1>3 DEF Entries
  <2> QED BY <2>1, <2>2 DEF Entries
<1>4. aged = [i \in 1 .. n |-> older(entries[i])]
  BY <1>2
<1>5. /\ places \in SUBSET (1 .. n)
      /\ \A i \in places : entries[i].waited < SearchTime
  BY <1>2
<1> HIDE DEF n, places, older, aged, Older
<1>6. aged \in [1 .. n -> Older]
  BY <1>2, <1>3, <1>4
<1>7. aged \in Seq(Older) /\ Len(aged) = n
  BY <1>2, <1>4, <1>6
<1>8. \A i \in places : aged[i] \in Entries /\ aged[i].conn = entries[i].conn
  BY <1>2, <1>3, <1>4, <1>5
<1>9. places \in SUBSET (1 .. Len(aged))
  BY <1>5, <1>7
<1>10. /\ kept \in Seq(Entries)
       /\ \A j \in DOMAIN kept : \E i \in places : kept[j] = aged[i]
  <2>1. \A i \in places : aged[i] \in Entries
    BY <1>8
  <2> QED BY ONLY <1>7, <1>9, <2>1, KeptIn
<1> HIDE DEF kept
<1>11. ASSUME NEW i \in DOMAIN kept PROVE \E j \in DOMAIN entries : kept[i].conn = entries[j].conn
  <2>1. PICK j \in places : kept[i] = aged[j]
    BY <1>10
  <2> QED BY <1>2, <1>5, <1>8, <2>1
<1> QED BY <1>1, <1>10, <1>11

\* The opponent of a match waits in the queue.
LEMMA EarliestFound ==
    ASSUME entries \in Seq(Entries), NEW rating, Compatible(rating) # {}
    PROVE  Earliest(Compatible(rating)) \in DOMAIN entries
<1> DEFINE places == Compatible(rating)
<1>1. places \in SUBSET Nat /\ places \in SUBSET DOMAIN entries /\ places # {}
  BY EntryFields DEF Compatible
<1> HIDE DEF places
<1>2. \E i \in places : \A j \in places : i <= j
  BY <1>1, LeastNatural
<1>3. Earliest(places) \in places
  BY <1>2 DEF Earliest
<1> QED BY <1>1, <1>3 DEF places

\* What keeps the queue in order when people move on, and others are gone.
LEMMA QueueKeeps ==
    ASSUME QueueInv, NEW gone \in SUBSET Conns, NEW moved \in SUBSET Conns,
           entries' \in Seq(Entries),
           \A i \in DOMAIN entries' : /\ entries'[i].conn \notin gone
                                      /\ \E j \in DOMAIN entries : entries'[i].conn = entries[j].conn,
           entering' \in SUBSET (entering \ moved), FreshStep(moved),
           \A c \in Conns \ gone : state[c] \in Active => state'[c] \in Active,
           \A c \in entering' : state'[c] = "LOBBY"
    PROVE  QueueInv'
<1>1. \A i \in DOMAIN entries : /\ state[entries[i].conn] \in Active /\ entries[i].conn \in Conns
                                /\ entries[i].conn \notin entering
  BY EntryFields DEF QueueInv, Entries
<1>2. \A i \in DOMAIN entries' : /\ state'[entries'[i].conn] \in Active
                                 /\ entries'[i].conn \notin entering'
  BY <1>1
<1>3. \A c \in entering' : c \in entering /\ c \in Conns \ moved
  BY DEF QueueInv
<1>4. \A c \in entering' : Fresh(c)'
  BY <1>3 DEF QueueInv, FreshStep
<1>5. entering' \in SUBSET Conns
  BY <1>3
<1> QED BY <1>2, <1>4, <1>5 DEF QueueInv, Entries

-----------------------------------------------------------------------------
\* The actions.

ServerInv == RoomsInv /\ QueueInv /\ faults \in 0 .. MaxFaults

\* What every step does.  The ratings may go wrong when the rating store fails, and a key
\* may outlive its seat when the directory fails or the process dies.
Lawful ==
    /\ ServerInv' /\ SeatStep
    /\ "rating" \notin Faults => RateStep
    /\ "directory" \notin Faults /\ "crash" \notin Faults => LockStep

LEMMA Faultless == faults \in 0 .. MaxFaults /\ faults > 0 => faults - 1 \in 0 .. MaxFaults
BY FaultAssumption

\* Whoever sends something is logged in, and nowhere if it has not entered yet.
LEMMA Logged ==
    ASSUME ServerInv
    PROVE  /\ \A c \in Conns : state[c] \in Active => user[c] \in Users
           /\ \A c \in entering : state[c] = "LOBBY" /\ Fresh(c) /\ c \in Conns
           /\ state \in [Conns -> States] /\ user \in [Conns -> Users \cup {NoUser}]
           /\ entries \in Seq(Entries)
           /\ \A i \in DOMAIN entries : /\ entries[i].conn \in Conns /\ state[entries[i].conn] \in Active
                                        /\ entries[i].conn \notin entering
           /\ entering \in SUBSET Conns
BY EntryFields DEF ServerInv, RoomsInv, QueueInv, Named, PeopleType, Entries

LEMMA LoginLawful ==
    ASSUME ServerInv, NEW c \in Conns, NEW u \in Users, Login(c, u)
    PROVE  Lawful
<1>1. /\ state[c] = "CONNECTED" /\ entering' = entering \cup {c} /\ entries' = entries
      /\ state' = [state EXCEPT ![c] = "LOBBY"] /\ user' = [user EXCEPT ![c] = u]
      /\ UNCHANGED <<directoryVars, localVars, roomOf>> /\ faults' = faults
  BY DEF Login
<1>2. /\ RoomsInv /\ QueueInv /\ PeopleType /\ Named /\ Newcomers
  BY DEF ServerInv, RoomsInv
<1>3. /\ state'[c] = "LOBBY" /\ user'[c] = u
      /\ \A d \in Conns : d # c => state'[d] = state[d] /\ user'[d] = user[d]
      /\ PeopleType'
  BY <1>1, <1>2 DEF PeopleType, States
<1>4. Named'
  <2> SUFFICES ASSUME NEW d \in Conns PROVE user'[d] \in Users <=> state'[d] \in Active
    BY DEF Named
  <2>1. CASE d = c
    BY <1>3, <2>1 DEF Active
  <2>2. CASE d # c
    BY <1>2, <1>3, <2>2 DEF Named
  <2> QED BY <2>1, <2>2
<1>5. Fresh(c)
  BY <1>1, <1>2 DEF Newcomers
<1>6. RoomsInv' /\ SeatStep /\ RateStep /\ LockStep /\ FreshStep({})
  <2>1. \A d \in Conns : state'[d] = "CONNECTED" => state[d] = "CONNECTED"
    BY <1>3
  <2>2. \A d \in Conns : user'[d] = user[d] \/ Fresh(d)
    BY <1>3, <1>5
  <2>3. \A d \in Conns : state'[d] \in Active => state[d] \in Active \/ Fresh(d)
    BY <1>3, <1>5
  <2> QED BY <1>1, <1>2, <1>3, <1>4, <2>1, <2>2, <2>3, PeopleKeep
<1>7. QueueInv'
  <2>1. \A i \in DOMAIN entries : /\ state'[entries[i].conn] \in Active
                                  /\ entries[i].conn \notin entering \cup {c}
    BY <1>1, <1>3, Logged DEF Active
  <2>2. \A d \in entering \cup {c} : state'[d] = "LOBBY" /\ Fresh(d)'
    BY <1>3, <1>5, <1>6, Logged DEF FreshStep
  <2> QED BY <1>1, <1>2, <2>1, <2>2 DEF QueueInv
<1> QED BY <1>1, <1>6, <1>7 DEF Lawful, ServerInv

LEMMA TryReconnectLawful ==
    ASSUME ServerInv, NEW c \in Conns, TryReconnect(c)
    PROVE  Lawful
<1>1. /\ c \in entering /\ entering' = entering \ {c} /\ entries' = entries /\ faults' = faults
      /\ state[c] = "LOBBY" /\ Fresh(c) /\ RoomsInv /\ QueueInv
  BY Logged DEF TryReconnect, ServerInv
\* Nobody else is concerned.
<1>2. ASSUME RoomsInv', SeatStep, RateStep, LockStep, FreshStep({c}),
             \A d \in Conns : d # c => state'[d] = state[d]
      PROVE  Lawful
  <2>1. \A i \in DOMAIN entries : entries[i].conn \notin {c}
    BY <1>1, Logged
  <2>2. \A d \in Conns \ {c} : state[d] \in Active => state'[d] \in Active
    BY <1>2
  <2>3. \A d \in entering' : state'[d] = "LOBBY"
    BY <1>1, <1>2, Logged
  <2>4. entries' \in Seq(Entries) /\ \A i \in DOMAIN entries' :
           /\ entries'[i].conn \notin {c}
           /\ \E j \in DOMAIN entries : entries'[i].conn = entries[j].conn
    BY <1>1, <2>1, Logged
  <2>5. QueueInv'
    BY <1>1, <1>2, <2>2, <2>3, <2>4, QueueKeeps
  <2> QED BY <1>1, <1>2, <2>5 DEF Lawful, ServerInv
<1>3. CASE \E r \in RoomToReconnect(user[c]) \ halfClosed : ReconnectTo(r, c)
  <2>1. PICK r \in RoomToReconnect(user[c]) \ halfClosed : ReconnectTo(r, c)
    BY <1>3
  <2>2. \A d \in Conns : d # c => state'[d] = state[d]
    BY <2>1, Logged DEF ReconnectTo
  <2> QED BY <1>1, <1>2, <2>1, <2>2, ReconnectToKeeps
<1>4. CASE \E r \in RoomToReconnect(user[c]) \cap halfClosed : ReconnectToHalfClosed(r, c)
  <2>1. PICK r \in RoomToReconnect(user[c]) \cap halfClosed : ReconnectToHalfClosed(r, c)
    BY <1>4
  <2>2. \A d \in Conns : d # c => state'[d] = state[d]
    BY <2>1, Logged DEF ReconnectToHalfClosed
  <2> QED BY <1>1, <1>2, <2>1, <2>2, ReconnectToHalfClosedKeeps
<1>5. CASE UNCHANGED roomVars
  <2>1. /\ UNCHANGED <<directoryVars, localVars, roomOf>> /\ state' = state /\ user' = user
    BY <1>5 DEF roomVars, participantVars
  <2>2. PeopleType' /\ Named'
    BY <1>1, <2>1 DEF RoomsInv, PeopleType, Named
  <2>3. RoomsInv' /\ SeatStep /\ RateStep /\ LockStep /\ FreshStep({})
    BY <1>1, <2>1, <2>2, PeopleKeep
  <2>4. FreshStep({c})
    BY <2>3 DEF FreshStep
  <2> QED BY <1>2, <2>1, <2>3, <2>4
<1> QED BY <1>3, <1>4, <1>5 DEF TryReconnect

LEMMA StartSearchLawful ==
    ASSUME ServerInv, NEW c \in Conns, StartSearch(c)
    PROVE  Lawful
<1> DEFINE entry == [conn |-> c, rating |-> Rating[user[c]], waited |-> 0]
<1>1. /\ state[c] \in Active /\ c \notin entering /\ entries' = Append(entries, entry)
      /\ state' = [state EXCEPT ![c] = "SEARCHING"] /\ user' = user /\ roomOf' = roomOf
      /\ UNCHANGED <<directoryVars, localVars, roomOf>> /\ entering' = entering /\ faults' = faults
  BY DEF StartSearch, MayRoute, Enqueue, Active
<1>2. RoomsInv /\ QueueInv /\ PeopleType /\ Named /\ user[c] \in Users
  BY <1>1, Logged DEF ServerInv, RoomsInv
<1>3. /\ state'[c] = "SEARCHING"
      /\ \A d \in Conns : d # c => state'[d] = state[d]
      /\ PeopleType'
  BY <1>1, <1>2 DEF PeopleType, States
<1>4. Named'
  BY <1>1, <1>2, <1>3 DEF Named, Active
<1>5. RoomsInv' /\ SeatStep /\ RateStep /\ LockStep /\ FreshStep({})
  <2>1. \A d \in Conns : state'[d] = "CONNECTED" => state[d] = "CONNECTED"
    BY <1>3
  <2>2. \A d \in Conns : user'[d] = user[d] \/ Fresh(d)
    BY <1>1
  <2>3. \A d \in Conns : state'[d] \in Active => state[d] \in Active \/ Fresh(d)
    BY <1>1, <1>3
  <2> QED BY <1>1, <1>2, <1>3, <1>4, <2>1, <2>2, <2>3, PeopleKeep
<1>6. QueueInv'
  <2>1. entry \in Entries /\ entry.conn = c
    BY <1>2, Nobody, FaultAssumption DEF Entries
  <2> HIDE DEF entry
  <2>2. Len(entries) \in Nat /\ entries \in Seq(Entries) /\ DOMAIN entries = 1 .. Len(entries)
    BY Logged, EntryFields
  <2>3. /\ Append(entries, entry) \in Seq(Entries)
        /\ \A i \in DOMAIN Append(entries, entry) : \/ Append(entries, entry)[i] = entry
                                                    \/ /\ i \in DOMAIN entries
                                                       /\ Append(entries, entry)[i] = entries[i]
    BY <2>1, <2>2
  <2>4. \A i \in DOMAIN entries' : \/ entries'[i].conn = c
                                   \/ \E j \in DOMAIN entries : entries'[i].conn = entries[j].conn
    BY <1>1, <2>1, <2>3
  <2>5. \A i \in DOMAIN entries' : /\ state'[entries'[i].conn] \in Active
                                   /\ entries'[i].conn \notin entering'
    BY <1>1, <1>3, <2>4, Logged DEF Active
  <2>6. \A d \in entering' : state'[d] = "LOBBY" /\ Fresh(d)'
    BY <1>1, <1>3, <1>5, Logged DEF FreshStep
  <2> QED BY <1>1, <1>2, <2>3, <2>5, <2>6 DEF QueueInv, Entries
<1> QED BY <1>1, <1>5, <1>6 DEF Lawful, ServerInv

LEMMA StandStill ==
    ASSUME RoomsInv, UNCHANGED roomVars
    PROVE  RoomsInv' /\ SeatStep /\ RateStep /\ LockStep /\ FreshStep({}) /\ state' = state
<1>1. UNCHANGED <<directoryVars, localVars, roomOf>> /\ state' = state /\ user' = user
  BY DEF roomVars, participantVars
<1>2. PeopleType' /\ Named'
  BY <1>1 DEF RoomsInv, PeopleType, Named
<1> QED BY <1>1, <1>2, PeopleKeep

\* A seeker who is matched is taken out of the queue.
LEMMA OpponentFound ==
    ASSUME ServerInv, NEW c \in Conns, MayRoute(c), ~InQueue(c), Compatible(Rating[user[c]]) # {},
           CancelSearch(entries[Earliest(Compatible(Rating[user[c]]))].conn)
    PROVE  LET b == entries[Earliest(Compatible(Rating[user[c]]))].conn
           IN  /\ b \in Conns /\ b # c /\ state[b] \in Active /\ state[c] \in Active
               /\ entries' \in Seq(Entries)
               /\ \A i \in DOMAIN entries' : /\ entries'[i].conn # b /\ entries'[i].conn # c
                                             /\ \E j \in DOMAIN entries :
                                                   entries'[i].conn = entries[j].conn
               /\ b \notin entering /\ c \notin entering
<1> DEFINE k == Earliest(Compatible(Rating[user[c]]))
           b == entries[k].conn
<1>1. k \in DOMAIN entries
  BY Logged, EarliestFound
<1>2. b \in Conns /\ state[b] \in Active /\ b \notin entering /\ b # c
  BY <1>1, Logged DEF InQueue
<1>3. CancelSearch(b)
  OBVIOUS
<1> HIDE DEF b, k
<1>4. /\ entries' \in Seq(Entries)
      /\ \A i \in DOMAIN entries' : /\ entries'[i].conn # b
                                    /\ \E j \in DOMAIN entries : entries'[i] = entries[j]
  BY <1>3, Logged, CancelSearchKeeps
<1>5. \A i \in DOMAIN entries' : /\ entries'[i].conn # b /\ entries'[i].conn # c
                                 /\ \E j \in DOMAIN entries : entries'[i].conn = entries[j].conn
  BY <1>4 DEF InQueue
<1>6. state[c] \in Active /\ c \notin entering
  BY DEF MayRoute, Active
<1> QED BY <1>2, <1>4, <1>5, <1>6 DEF b, k

LEMMA MatchSeekerLawful ==
    ASSUME ServerInv, NEW c \in Conns, MatchSeeker(c)
    PROVE  Lawful
<1> DEFINE b == entries[Earliest(Compatible(Rating[user[c]]))].conn
<1>1. /\ b \in Conns /\ b # c /\ state[b] \in Active /\ state[c] \in Active
      /\ entries' \in Seq(Entries)
      /\ \A i \in DOMAIN entries' : \E j \in DOMAIN entries : entries'[i].conn = entries[j].conn
      /\ b \notin entering /\ c \notin entering
  BY OpponentFound DEF MatchSeeker
<1>2. /\ \/ \E r \in Rooms : OpenRoom(r, <<b, c>>, FALSE)
         \/ /\ state' = [state EXCEPT ![b] = "LOBBY", ![c] = "LOBBY"]
            /\ UNCHANGED <<directoryVars, localVars, roomOf, user>>
      /\ entering' = entering /\ faults' = faults
  BY DEF MatchSeeker
<1>3. RoomsInv /\ QueueInv /\ state \in [Conns -> States]
  BY Logged DEF ServerInv
<1> HIDE DEF b
<1>4. ASSUME RoomsInv', SeatStep, RateStep, LockStep, FreshStep({b, c}),
             \A d \in Conns : state'[d] = state[d] \/ state'[d] \in Active,
             \A d \in Conns \ {b, c} : state'[d] = state[d]
      PROVE  Lawful
  <2>1. \A i \in DOMAIN entries' : /\ entries'[i].conn \notin {}
                                   /\ \E j \in DOMAIN entries : entries'[i].conn = entries[j].conn
    BY <1>1
  <2>2. entering' \in SUBSET (entering \ {b, c}) /\ {b, c} \in SUBSET Conns /\ {} \in SUBSET Conns
    BY <1>1, <1>2
  <2>3. \A d \in Conns \ {} : state[d] \in Active => state'[d] \in Active
    BY <1>4
  <2>4. \A d \in entering' : state'[d] = "LOBBY"
    BY <1>1, <1>2, <1>4, Logged
  <2>5. QueueInv'
    BY <1>1, <1>3, <1>4, <2>1, <2>2, <2>3, <2>4, QueueKeeps
  <2> QED BY <1>2, <1>4, <2>5 DEF Lawful, ServerInv
<1>5. CASE \E r \in Rooms : OpenRoom(r, <<b, c>>, FALSE)
  <2>1. PICK r \in Rooms : OpenRoom(r, <<b, c>>, FALSE)
    BY <1>5
  <2>2. /\ RoomsInv' /\ SeatStep /\ RateStep /\ LockStep /\ FreshStep({b, c})
        /\ \A d \in Conns : state'[d] = IF d \in {b, c} THEN "IN_ROOM" ELSE state[d]
    BY <1>1, <1>3, <2>1, OpenMatchKeeps
  <2> QED BY <1>4, <2>2 DEF Active
<1>6. CASE /\ state' = [state EXCEPT ![b] = "LOBBY", ![c] = "LOBBY"]
           /\ UNCHANGED <<directoryVars, localVars, roomOf, user>>
  <2>1. /\ \A d \in {b, c} : state'[d] = "LOBBY"
        /\ \A d \in Conns \ {b, c} : state'[d] = state[d]
        /\ state' \in [Conns -> States] /\ user' = user /\ roomOf' = roomOf
    BY <1>1, <1>3, <1>6 DEF States
  <2>2. PeopleType'
    BY <1>3, <2>1 DEF RoomsInv, PeopleType
  <2>3. Named'
    <3> SUFFICES ASSUME NEW d \in Conns PROVE user[d] \in Users <=> state'[d] \in Active
      BY <2>1 DEF Named
    <3>1. CASE d \in {b, c}
      BY <1>1, <2>1, <3>1, Logged DEF Active
    <3>2. CASE d \notin {b, c}
      BY <1>3, <2>1, <3>2 DEF RoomsInv, Named
    <3> QED BY <3>1, <3>2
  <2>4. \A d \in Conns : state'[d] = "CONNECTED" => state[d] = "CONNECTED"
    BY <2>1
  <2>5. \A d \in Conns : state'[d] \in Active => state[d] \in Active \/ Fresh(d)
    BY <1>1, <2>1
  <2>6. RoomsInv' /\ SeatStep /\ RateStep /\ LockStep /\ FreshStep({})
    BY <1>3, <1>6, <2>1, <2>2, <2>3, <2>4, <2>5, PeopleKeep
  <2>7. FreshStep({b, c})
    BY <2>6 DEF FreshStep
  <2> QED BY <1>4, <2>1, <2>6, <2>7 DEF Active
<1> QED BY <1>2, <1>5, <1>6

\* One connection moves, and the queue stays as it is.
LEMMA OneMoves ==
    ASSUME ServerInv, NEW c \in Conns, c \notin entering, state[c] \in Active,
           RoomsInv', SeatStep, RateStep, LockStep, FreshStep({c}),
           UNCHANGED <<entries, entering, faults>>,
           \A d \in Conns : state'[d] = state[d] \/ (d = c /\ state'[d] \in Active)
    PROVE  Lawful
<1>1. entries' \in Seq(Entries) /\ \A i \in DOMAIN entries' :
         /\ entries'[i].conn \notin {}
         /\ \E j \in DOMAIN entries : entries'[i].conn = entries[j].conn
  BY Logged
<1>2. entering' \in SUBSET (entering \ {c}) /\ {c} \in SUBSET Conns /\ {} \in SUBSET Conns
  BY Logged
<1>3. \A d \in Conns \ {} : state[d] \in Active => state'[d] \in Active
  OBVIOUS
<1>4. \A d \in entering' : state'[d] = "LOBBY"
  BY Logged
<1>5. QueueInv /\ QueueInv'
  BY <1>1, <1>2, <1>3, <1>4, QueueKeeps DEF ServerInv
<1> QED BY <1>5 DEF Lawful, ServerInv

LEMMA CreateRoomLawful ==
    ASSUME ServerInv, NEW c \in Conns, CreateRoom(c)
    PROVE  Lawful
<1>1. /\ c \notin entering /\ state[c] \in Active /\ UNCHANGED <<entries, entering, faults>>
      /\ RoomsInv
  BY DEF CreateRoom, MayRoute, Active, ServerInv
<1>2. PICK r \in Rooms : OpenRoom(r, <<c>>, TRUE)
  BY DEF CreateRoom
<1>3. /\ RoomsInv' /\ SeatStep /\ RateStep /\ LockStep /\ FreshStep({c})
      /\ \A d \in Conns : state'[d] = IF d = c THEN "IN_ROOM" ELSE state[d]
  BY <1>1, <1>2, OpenRoomKeeps
<1>4. \A d \in Conns : state'[d] = state[d] \/ (d = c /\ state'[d] \in Active)
  BY <1>3 DEF Active
<1> QED BY <1>1, <1>3, <1>4, OneMoves

LEMMA JoinRoomLawful ==
    ASSUME ServerInv, NEW c \in Conns, JoinRoom(c)
    PROVE  Lawful
<1>1. /\ c \notin entering /\ state[c] \in Active /\ UNCHANGED <<entries, entering, faults>>
      /\ RoomsInv
  BY DEF JoinRoom, MayRoute, Active, ServerInv
<1>2. PICK r \in Rooms : JoinRoomOf(r, c) \/ JoinHalfClosed(r, c)
  BY DEF JoinRoom
<1>3. CASE JoinRoomOf(r, c)
  <2>1. /\ RoomsInv' /\ SeatStep /\ RateStep /\ LockStep /\ FreshStep({c})
        /\ \A d \in Conns : state'[d] = IF d = c THEN "IN_ROOM" ELSE state[d]
    BY <1>1, <1>3, JoinRoomOfKeeps
  <2>2. \A d \in Conns : state'[d] = state[d] \/ (d = c /\ state'[d] \in Active)
    BY <2>1 DEF Active
  <2> QED BY <1>1, <2>1, <2>2, OneMoves
<1>4. CASE JoinHalfClosed(r, c)
  <2>1. RoomsInv' /\ SeatStep /\ RateStep /\ LockStep /\ FreshStep({c})
    BY <1>1, <1>4, JoinHalfClosedKeeps
  <2>2. \A d \in Conns : state'[d] = state[d] \/ (d = c /\ state'[d] \in Active)
    BY <1>4 DEF JoinHalfClosed, participantVars
  <2> QED BY <1>1, <2>1, <2>2, OneMoves
<1> QED BY <1>2, <1>3, <1>4

\* A message that is rejected changes nothing, and neither does a stutter.
LEMMA RejectMessageLawful ==
    ASSUME ServerInv, UNCHANGED vars
    PROVE  Lawful
<1>1. UNCHANGED roomVars /\ entries' = entries /\ entering' = entering /\ faults' = faults
  BY DEF vars
<1>2. RoomsInv' /\ SeatStep /\ RateStep /\ LockStep /\ FreshStep({}) /\ state' = state
  BY <1>1, StandStill DEF ServerInv
<1>3. QueueInv'
  BY <1>1, <1>2, Logged DEF QueueInv, FreshStep, ServerInv
<1> QED BY <1>1, <1>2, <1>3 DEF Lawful, ServerInv

\* Whoever drops leaves its room and the queue.
LEMMA DropKeeps ==
    ASSUME ServerInv, NEW c \in Conns, state[c] \in Active, NEW directoryUp,
           directoryUp = TRUE \/ directoryUp = FALSE, RemoveParticipant(c, directoryUp),
           CancelSearch(c), entering' = entering \ {c}
    PROVE  /\ RoomsInv' /\ QueueInv' /\ SeatStep /\ RateStep
           /\ directoryUp = TRUE => LockStep
<1>1. RoomsInv /\ QueueInv
  BY DEF ServerInv
<1>2. /\ RoomsInv' /\ SeatStep /\ RateStep /\ FreshStep({c})
      /\ directoryUp = TRUE => LockStep
      /\ \A d \in Conns : d # c => state'[d] = state[d]
  BY <1>1, LeaveKeeps
<1>3. /\ entries' \in Seq(Entries)
      /\ \A i \in DOMAIN entries' : /\ entries'[i].conn # c
                                    /\ \E j \in DOMAIN entries : entries'[i] = entries[j]
  BY Logged, CancelSearchKeeps
<1>4. \A i \in DOMAIN entries' : /\ entries'[i].conn \notin {c}
                                 /\ \E j \in DOMAIN entries : entries'[i].conn = entries[j].conn
  BY <1>3
<1>5. \A d \in Conns \ {c} : state[d] \in Active => state'[d] \in Active
  BY <1>2
<1>6. \A d \in entering' : state'[d] = "LOBBY"
  BY <1>2, Logged
<1>7. QueueInv'
  BY <1>1, <1>2, <1>3, <1>4, <1>5, <1>6, QueueKeeps
<1> QED BY <1>2, <1>7

LEMMA DropLawful ==
    ASSUME ServerInv, NEW c \in Conns, Drop(c)
    PROVE  Lawful
<1>1. state[c] \in Active /\ faults' = faults /\ faults \in 0 .. MaxFaults
  BY DEF Drop, Active, ServerInv
<1>2. RoomsInv' /\ QueueInv' /\ SeatStep /\ RateStep /\ LockStep
  BY <1>1, DropKeeps DEF Drop
<1> QED BY <1>1, <1>2 DEF Lawful, ServerInv

LEMMA DropWithoutDirectoryLawful ==
    ASSUME ServerInv, NEW c \in Conns, DropWithoutDirectory(c)
    PROVE  Lawful
<1>1. state[c] \in Active /\ faults' \in 0 .. MaxFaults /\ "directory" \in Faults
  BY Faultless DEF DropWithoutDirectory, Active, ServerInv
<1>2. RoomsInv' /\ QueueInv' /\ SeatStep /\ RateStep
  BY <1>1, DropKeeps DEF DropWithoutDirectory
<1> QED BY <1>1, <1>2 DEF Lawful, ServerInv

LEMMA MatchWithoutDirectoryLawful ==
    ASSUME ServerInv, NEW c \in Conns, MatchWithoutDirectory(c)
    PROVE  Lawful
<1>1. /\ faults' \in 0 .. MaxFaults /\ UNCHANGED roomVars /\ entering' = entering /\ RoomsInv
      /\ QueueInv
  BY Faultless DEF MatchWithoutDirectory, ServerInv
<1>2. RoomsInv' /\ SeatStep /\ RateStep /\ LockStep /\ FreshStep({}) /\ state' = state
  BY <1>1, StandStill
<1>3. /\ entries' \in Seq(Entries)
      /\ \A i \in DOMAIN entries' : /\ entries'[i].conn \notin {}
                                    /\ \E j \in DOMAIN entries : entries'[i].conn = entries[j].conn
  BY OpponentFound DEF MatchWithoutDirectory
<1>4. entering' \in SUBSET (entering \ {}) /\ {} \in SUBSET Conns
  BY <1>1, Logged
<1>5. \A d \in entering' : state'[d] = "LOBBY"
  BY <1>1, <1>2, Logged
<1>6. \A d \in Conns \ {} : state[d] \in Active => state'[d] \in Active
  BY <1>2
<1>7. QueueInv'
  BY <1>1, <1>2, <1>3, <1>4, <1>5, <1>6, QueueKeeps
<1> QED BY <1>1, <1>2, <1>7 DEF Lawful, ServerInv

-----------------------------------------------------------------------------
\* The server loop.

LEMMA TickLawful ==
    ASSUME ServerInv, NEW end \in [open -> Winners], NEW storeUp, NEW failed,
           Tick(end, storeUp, failed)
    PROVE  /\ RoomsInv' /\ QueueInv' /\ SeatStep
           /\ storeUp = TRUE => RateStep
           /\ failed = {} => LockStep
<1> DEFINE rooms    == RoomsDue(end, storeUp)
           lost     == ExpiredSeekers
           back     == BackToLobby(rooms)
           sessions == TickedSessions(end, storeUp)
           left     == TicksLeft(end, storeUp)
<1>1. /\ DirectoryType /\ RoomsType /\ PeopleType
      /\ Named /\ Newcomers /\ ClosedRooms /\ HalfClosedRooms
      /\ NamesReserved /\ NamesKnown /\ Orders /\ SeatsNamed
      /\ Members /\ Reserved /\ Awaited /\ RoomsInv /\ QueueInv
  BY DEF ServerInv, RoomsInv
<1>2. /\ failed \in SUBSET rooms /\ user' = user /\ entering' = entering /\ TickQueue
      /\ CloseRooms(rooms, failed, connections, sessions, left)
      /\ state' = [c \in Conns |-> IF c \in lost \cup back THEN "LOBBY" ELSE state[c]]
      /\ roomOf' = [c \in Conns |-> IF c \in back THEN NoRoom ELSE roomOf[c]]
  BY DEF Tick
<1>3. rooms \in SUBSET open /\ open \in SUBSET Rooms
  BY <1>1 DEF RoomsDue, RoomsType
<1>4. ASSUME NEW q \in open
      PROVE  /\ sessions[q] = TickSession(session[q], end[q], storeUp)
             /\ sessions[q] \in Sess /\ Orderly(sessions[q])
             /\ Seated(sessions[q]) = Seated(session[q])
             /\ ~sessions[q].over =>
                   /\ ~session[q].over
                   /\ \A side \in Sides : Counting(sessions[q], side) <=> Counting(session[q], side)
             /\ WellRated(session[q]) /\ storeUp = TRUE => WellRated(sessions[q])
  <2> DEFINE t == TickSession(session[q], end[q], storeUp)
  <2>1. sessions[q] = t
    BY <1>3 DEF TickedSessions
  <2>2. session[q] \in SessionsOver(Conns, Users) /\ Orderly(session[q])
    BY <1>1, <1>3, SeatFacts DEF Sess
  <2>3. end[q] \in Sides \cup {"none"}
    BY DEF Winners
  <2>4. /\ t \in SessionsOver(Conns, Users) /\ Orderly(t) /\ Seated(t) = Seated(session[q])
        /\ ~t.over => /\ ~session[q].over
                      /\ \A side \in Sides : Counting(t, side) <=> Counting(session[q], side)
        /\ WellRated(session[q]) /\ storeUp = TRUE => WellRated(t)
    <3> DEFINE s == session[q]
               e == end[q]
    <3>1. s \in SessionsOver(Conns, Users) /\ Orderly(s) /\ e \in Sides \cup {"none"}
      BY <2>2, <2>3
    <3>2. t = TickSession(s, e, storeUp) /\ s = session[q]
      OBVIOUS
    <3> HIDE DEF s, e, t
    <3> DEFINE o == TickSession(s, e, storeUp)
    <3>3. /\ o \in SessionsOver(Conns, Users) /\ Orderly(o) /\ Seated(o) = Seated(s)
          /\ ~o.over => /\ ~s.over
                        /\ \A side \in Sides : Counting(o, side) <=> Counting(s, side)
          /\ WellRated(s) /\ storeUp = TRUE => WellRated(o)
      BY <3>1, TickSeated, Zenon
    <3> QED BY <3>2, <3>3, Zenon
  <2> HIDE DEF t, sessions
  <2>5. /\ sessions[q] \in Sess /\ Orderly(sessions[q])
        /\ Seated(sessions[q]) = Seated(session[q])
        /\ ~sessions[q].over =>
              /\ ~session[q].over
              /\ \A side \in Sides : Counting(sessions[q], side) <=> Counting(session[q], side)
        /\ WellRated(session[q]) /\ storeUp = TRUE => WellRated(sessions[q])
    BY <2>1, <2>4 DEF Sess
  <2> QED BY <2>1, <2>5 DEF t
<1>5. ASSUME NEW q \in Rooms, q \notin open PROVE sessions[q] = session[q]
  BY <1>5 DEF TickedSessions
<1>6. sessions \in [Rooms -> Sess]
  <2>1. \A q \in Rooms : sessions[q] \in Sess
    BY <1>1, <1>4, <1>5 DEF RoomsType
  <2>2. sessions = [q \in Rooms |-> sessions[q]]
    BY DEF TickedSessions
  <2> HIDE DEF sessions
  <2> QED BY <2>1, <2>2
<1>7. left \in [Rooms -> 1 .. Grace]
  <2>1. left = [q \in Rooms |-> IF Finished(q, end, storeUp) /\ closing[q] > 1 THEN closing[q] - 1
                                ELSE closing[q]]
    BY DEF TicksLeft
  <2>2. \A q \in Rooms : closing[q] \in 1 .. Grace
    BY <1>1 DEF RoomsType
  <2>3. \A n \in 1 .. Grace : n > 1 => n - 1 \in 1 .. Grace
    BY Nobody
  <2> HIDE DEF left
  <2> QED BY <2>1, <2>2, <2>3
\* Who is sent back was in the queue or in a room that closes, so it has a name.
<1>8. ASSUME NEW c \in lost PROVE c \in Conns /\ state[c] \in Active
  BY <1>8, Logged DEF ExpiredSeekers
<1>9. ASSUME NEW c \in Conns, c \in back
      PROVE  state[c] \in Active /\ \A q \in Sound \ rooms : roomOf[c] # q
  <2>1. PICK r \in rooms : c \in participants[r]
    BY <1>9 DEF BackToLobby
  <2>2. r \in Sound
    BY <1>1, <1>3, <2>1 DEF HalfClosedRooms, Sound
  <2>3. c \in connections[r] /\ roomOf[c] = r
    BY <1>1, <2>1, <2>2 DEF Members
  <2>4. user[c] \in Users
    BY <1>1, <1>3, <2>1, <2>2, <2>3 DEF NamesKnown, RoomsType
  <2>5. \A q \in Sound \ rooms : q # r
    BY <2>1
  <2> HIDE DEF rooms
  <2> QED BY <1>1, <2>3, <2>4, <2>5 DEF Named
<1> HIDE DEF rooms, lost, back, sessions, left
<1>10. /\ PeopleType'
       /\ \A c \in Conns : \/ state'[c] = state[c]
                           \/ state'[c] = "LOBBY" /\ state[c] \in Active
       /\ \A c \in Conns : \/ roomOf'[c] = roomOf[c]
                           \/ roomOf'[c] = NoRoom /\ \A q \in Sound \ rooms : roomOf[c] # q
  <2>1. state' \in [Conns -> States]
    BY <1>1, <1>2 DEF PeopleType, States
  <2>2. roomOf' \in [Conns -> Rooms \cup {NoRoom}]
    BY <1>1, <1>2 DEF PeopleType
  <2>3. \A c \in Conns : \/ state'[c] = state[c]
                         \/ state'[c] = "LOBBY" /\ state[c] \in Active
    BY <1>2, <1>8, <1>9
  <2>4. \A c \in Conns : \/ roomOf'[c] = roomOf[c]
                         \/ roomOf'[c] = NoRoom /\ \A q \in Sound \ rooms : roomOf[c] # q
    BY <1>2, <1>9
  <2> QED BY <1>1, <1>2, <2>1, <2>2, <2>3, <2>4 DEF PeopleType
<1>11. Named'
  BY <1>1, <1>2, <1>10 DEF Named, Active
<1>12. /\ RoomsInv' /\ SeatStep /\ FreshStep({})
       /\ (\A q \in Rooms : WellRated(session[q]) => WellRated(sessions[q])) => RateStep
       /\ failed = {} => LockStep
  <2>1. connections \in [Rooms -> SUBSET Conns]
    BY <1>1 DEF RoomsType
  <2>2. \A q \in Rooms : /\ Orderly(sessions[q]) /\ Seated(sessions[q]) = Seated(session[q])
                         /\ connections[q] \in SUBSET connections[q]
    BY <1>1, <1>4, <1>5 DEF Orders
  <2>3. \A q \in Rooms \ open : sessions[q] = session[q]
    BY <1>5
  <2>4. \A q \in Rooms \ rooms :
           /\ connections[q] = connections[q]
           /\ ~sessions[q].over =>
                 /\ ~session[q].over
                 /\ \A side \in Sides : Counting(sessions[q], side) <=> Counting(session[q], side)
    BY <1>4, <1>5
  <2>5. \A c \in Conns : state'[c] = "CONNECTED" => state[c] = "CONNECTED"
    BY <1>10
  <2>6. \A c \in Conns : \/ user'[c] = user[c]
                         \/ \A q \in Sound \ rooms : c \notin connections[q]
    BY <1>2
  <2>7. \A c \in Conns : state'[c] \in Active => state[c] \in Active /\ user'[c] = user[c]
    BY <1>2, <1>10
  <2> QED BY <1>1, <1>2, <1>3, <1>6, <1>7, <1>10, <1>11, <2>1, <2>2, <2>3, <2>4, <2>5, <2>6, <2>7,
             CloseRoomsKeeps
<1>13. storeUp = TRUE => RateStep
  <2>1. storeUp = TRUE => \A q \in Rooms : WellRated(session[q]) => WellRated(sessions[q])
    BY <1>4, <1>5
  <2> QED BY <1>12, <2>1
<1>14. QueueInv'
  <2>1. /\ entries' \in Seq(Entries)
        /\ \A i \in DOMAIN entries' : \E j \in DOMAIN entries : entries'[i].conn = entries[j].conn
    BY <1>2, Logged, TickQueueKeeps
  <2>2. \A i \in DOMAIN entries' : /\ entries'[i].conn \notin {}
                                   /\ \E j \in DOMAIN entries : entries'[i].conn = entries[j].conn
    BY <2>1
  <2>3. entering' \in SUBSET (entering \ {}) /\ {} \in SUBSET Conns
    BY <1>2, Logged
  <2>4. \A d \in Conns \ {} : state[d] \in Active => state'[d] \in Active
    BY <1>10 DEF Active
  <2>5. \A d \in entering' : state'[d] = "LOBBY"
    BY <1>2, <1>10, Logged
  <2> QED BY <1>1, <1>12, <2>1, <2>2, <2>3, <2>4, <2>5, QueueKeeps
<1> QED BY <1>12, <1>13, <1>14

LEMMA LoopLawful ==
    ASSUME ServerInv, ServerLoop \/ ServerLoopWithoutStore \/ ServerLoopWithoutDirectory
    PROVE  Lawful
<1>1. CASE ServerLoop
  <2>1. PICK end \in [open -> Winners] : Tick(end, TRUE, {})
    BY <1>1 DEF ServerLoop
  <2>2. RoomsInv' /\ QueueInv' /\ SeatStep /\ RateStep /\ LockStep
    BY <2>1, TickLawful
  <2>3. faults' \in 0 .. MaxFaults
    BY <1>1 DEF ServerLoop, ServerInv
  <2> QED BY <2>2, <2>3 DEF Lawful, ServerInv
<1>2. CASE ServerLoopWithoutStore
  <2>1. PICK end \in [open -> Winners] : Tick(end, FALSE, {})
    BY <1>2 DEF ServerLoopWithoutStore
  <2>2. RoomsInv' /\ QueueInv' /\ SeatStep /\ LockStep
    BY <2>1, TickLawful
  <2>3. faults' \in 0 .. MaxFaults /\ "rating" \in Faults
    BY <1>2, Faultless DEF ServerLoopWithoutStore, ServerInv
  <2> QED BY <2>2, <2>3 DEF Lawful, ServerInv
<1>3. CASE ServerLoopWithoutDirectory
  <2>1. PICK end \in [open -> Winners], r \in open : Tick(end, TRUE, {r})
    BY <1>3 DEF ServerLoopWithoutDirectory
  <2>2. RoomsInv' /\ QueueInv' /\ SeatStep /\ RateStep
    BY <2>1, TickLawful
  <2>3. faults' \in 0 .. MaxFaults /\ "directory" \in Faults
    BY <1>3, Faultless DEF ServerLoopWithoutDirectory, ServerInv
  <2> QED BY <2>2, <2>3 DEF Lawful, ServerInv
<1> QED BY <1>1, <1>2, <1>3

\* An empty process beside a directory that is left as it is.
Empty ==
    /\ open = {} /\ halfClosed = {} /\ codes = {}
    /\ session = [q \in Rooms |-> NewSession]
    /\ connections = [q \in Rooms |-> {}] /\ participants = [q \in Rooms |-> {}]
    /\ usernames = [q \in Rooms |-> {}] /\ closing = [q \in Rooms |-> Grace]
    /\ roomOf = [c \in Conns |-> NoRoom] /\ user = [c \in Conns |-> NoUser]
    /\ state \in [Conns -> {"CONNECTED", "DISCONNECTED"}]
    /\ entries = <<>> /\ entering = {}

LEMMA EmptyProcess == Empty /\ DirectoryType => RoomsInv /\ QueueInv
<1> SUFFICES ASSUME Empty, DirectoryType PROVE RoomsInv /\ QueueInv
  OBVIOUS
<1> USE DEF Empty
<1>1. /\ \A q \in Rooms : /\ session[q] = NewSession /\ Seated(session[q]) = {}
                          /\ connections[q] = {} /\ participants[q] = {} /\ usernames[q] = {}
      /\ \A c \in Conns : roomOf[c] = NoRoom /\ user[c] = NoUser /\ state[c] \notin Active
      /\ NewSession \in Sess /\ Orderly(NewSession) /\ Sound = {}
  BY NewSessionSeated DEF Sess, Sound, Active
<1>2. RoomsType
  <2>1. Grace \in 1 .. Grace
    BY Nobody
  <2> QED BY <1>1, <2>1 DEF RoomsType
<1>3. PeopleType
  BY DEF PeopleType, States
<1>4. Named
  BY <1>1, Nobody DEF Named
<1>5. Newcomers
  BY <1>1 DEF Newcomers, Fresh
<1>6. ClosedRooms /\ HalfClosedRooms /\ NamesReserved /\ Orders /\ SeatsNamed
  BY <1>1 DEF ClosedRooms, HalfClosedRooms, NamesReserved, Orders, SeatsNamed
<1>7. NamesKnown /\ Members /\ Reserved /\ Awaited
  BY <1>1 DEF NamesKnown, Members, Reserved, Awaited
<1>8. QueueInv
  BY DEF QueueInv
<1> QED BY <1>2, <1>3, <1>4, <1>5, <1>6, <1>7, <1>8 DEF RoomsInv

LEMMA CrashLawful ==
    ASSUME ServerInv, Crash
    PROVE  Lawful
<1>1. Empty'
  BY DEF Crash, Empty
<1>2. DirectoryType'
  BY DEF Crash, ServerInv, RoomsInv, DirectoryType, directoryVars
<1>3. (Empty /\ DirectoryType => RoomsInv /\ QueueInv)'
  BY EmptyProcess, PTL
<1>4. RoomsInv' /\ QueueInv'
  BY <1>1, <1>2, <1>3
<1>5. SeatStep
  BY <1>1 DEF SeatStep, Empty
<1>6. RateStep
  BY <1>1, NewSessionSeated DEF RateStep, Empty
<1>7. faults' \in 0 .. MaxFaults /\ "crash" \in Faults
  BY Faultless DEF Crash, ServerInv
<1> QED BY <1>4, <1>5, <1>6, <1>7 DEF Lawful, ServerInv

LEMMA NextLawful ==
    ASSUME ServerInv, [Next]_vars
    PROVE  Lawful
<1>1. ASSUME NEW c \in Conns, NEW u \in Users, Login(c, u) PROVE Lawful
  BY <1>1, LoginLawful
<1>2. ASSUME NEW c \in Conns, TryReconnect(c) PROVE Lawful
  BY <1>2, TryReconnectLawful
<1>3. ASSUME NEW c \in Conns, StartSearch(c) PROVE Lawful
  BY <1>3, StartSearchLawful
<1>4. ASSUME NEW c \in Conns, MatchSeeker(c) PROVE Lawful
  BY <1>4, MatchSeekerLawful
<1>5. ASSUME NEW c \in Conns, CreateRoom(c) PROVE Lawful
  BY <1>5, CreateRoomLawful
<1>6. ASSUME NEW c \in Conns, JoinRoom(c) PROVE Lawful
  BY <1>6, JoinRoomLawful
<1>7. ASSUME NEW c \in Conns, RejectMessage(c) PROVE Lawful
  BY <1>7, RejectMessageLawful DEF RejectMessage
<1>8. ASSUME NEW c \in Conns, Drop(c) PROVE Lawful
  BY <1>8, DropLawful
<1>9. ASSUME NEW c \in Conns, DropWithoutDirectory(c) PROVE Lawful
  BY <1>9, DropWithoutDirectoryLawful
<1>10. ASSUME NEW c \in Conns, MatchWithoutDirectory(c) PROVE Lawful
  BY <1>10, MatchWithoutDirectoryLawful
<1>11. CASE UNCHANGED vars
  BY <1>11, RejectMessageLawful
<1> QED BY <1>1, <1>2, <1>3, <1>4, <1>5, <1>6, <1>7, <1>8, <1>9, <1>10, <1>11, LoopLawful, CrashLawful
        DEF Next

LEMMA InitLawful ==
    Init => ServerInv /\ Locked /\ \A r \in Rooms : WellRated(session[r])
<1> SUFFICES ASSUME Init PROVE ServerInv /\ Locked /\ \A r \in Rooms : WellRated(session[r])
  OBVIOUS
<1>1. state \in [Conns -> {"CONNECTED", "DISCONNECTED"}]
  BY DEF Init
<1>2. Empty
  BY <1>1 DEF Init, Empty
<1>3. DirectoryType
  BY DEF Init, DirectoryType
<1>4. faults \in 0 .. MaxFaults
  BY FaultAssumption DEF Init
<1>5. Locked
  BY DEF Init, Locked
<1>6. \A r \in Rooms : WellRated(session[r])
  BY NewSessionType DEF Init
<1> QED BY <1>2, <1>3, <1>4, <1>5, <1>6, EmptyProcess DEF ServerInv

-----------------------------------------------------------------------------
\* The theorems.

\* The inductive invariant, whatever fails.
THEOREM ServerInvariant == Spec => []ServerInv
<1>1. Init => ServerInv
  BY InitLawful
<1>2. ServerInv /\ [Next]_vars => ServerInv'
  BY NextLawful DEF Lawful
<1> QED BY <1>1, <1>2, PTL DEF Spec

\* Every variable of the server keeps its type: above all, a session has seats and
\* countdowns of the two sides and of spectators only, and the timers never run below one.
THEOREM ServerTypeCorrect == Spec => []TypeOK
<1>1. ServerInv => TypeOK
  <2> SUFFICES ASSUME ServerInv PROVE TypeOK
    OBVIOUS
  <2>1. DirectoryType /\ RoomsType /\ PeopleType /\ QueueInv /\ faults \in 0 .. MaxFaults
    BY DEF ServerInv, RoomsInv
  <2>2. \A r \in Rooms :
           /\ session[r].seats \in Seq(Seats)
           /\ session[r].countdowns \in Seq([side : Sides, left : 1 .. Countdown])
           /\ session[r].over \in BOOLEAN
           /\ session[r].result \in Winners
           /\ session[r].rated \in Sides \cup {"no", "skipped"}
    <3> SUFFICES ASSUME NEW r \in Rooms
                 PROVE  /\ session[r].seats \in Seq(Seats)
                        /\ session[r].countdowns \in Seq([side : Sides, left : 1 .. Countdown])
                        /\ session[r].over \in BOOLEAN
                        /\ session[r].result \in Winners
                        /\ session[r].rated \in Sides \cup {"no", "skipped"}
      OBVIOUS
    <3>1. session[r] \in SessionsOver(Conns, Users)
      BY <2>1 DEF RoomsType, Sess
    <3>2. Seats = SeatsOver(Conns, Users) /\ Clocks = [side : Sides, left : 1 .. Countdown]
      BY DEF Seats, SeatsOver, Clocks
    <3>3. /\ session[r].seats \in Seq(SeatsOver(Conns, Users))
          /\ session[r].countdowns \in Seq(Clocks)
          /\ session[r].over \in BOOLEAN /\ session[r].result \in Sides \cup {"none"}
          /\ session[r].rated \in Sides \cup {"no", "skipped"}
      BY <3>1 DEF SessionsOver
    <3> QED BY <3>2, <3>3 DEF Winners
  <2> QED BY <2>1, <2>2 DEF TypeOK, DirectoryType, RoomsType, PeopleType, States, QueueInv
<1> QED BY <1>1, ServerInvariant, PTL

\* The rooms and the connections in them know each other, after any number of matches,
\* joins, drops, reconnects (also of one username twice), closures and faults.
THEOREM MembersKnowTheirRoom == Spec => []Membership
<1>1. ServerInv => Membership
  BY DEF ServerInv, RoomsInv, RoomsType, Members, Membership, Sound
<1> QED BY <1>1, ServerInvariant, PTL

\* Every seat of an open room is backed by the directory, whatever fails.
THEOREM SeatsAreReserved == Spec => []SeatsReserved
<1>1. ServerInv => SeatsReserved
  <2> SUFFICES ASSUME ServerInv, NEW r \in open
               PROVE  r \in roomKeys /\ \A u \in SeatedUsers(r) : userKey[u] = r
    BY DEF SeatsReserved
  <2>1. r \in roomKeys /\ \A x \in Seated(session[r]) : userKey[x.user] = r
    BY DEF ServerInv, RoomsInv, Reserved
  <2> QED BY <2>1 DEF SeatedUsers, Seated
<1> QED BY <1>1, ServerInvariant, PTL

\* In a running game exactly the players who are away have a countdown.
THEOREM TheAbsentAreOnTheClock == Spec => []AbsentOnTheClock
<1>1. ServerInv => AbsentOnTheClock
  <2> SUFFICES ASSUME ServerInv, NEW r \in Sound, ~session[r].over,
                      NEW i \in DOMAIN session[r].seats, session[r].seats[i].role \in Sides
               PROVE  session[r].seats[i].conn \notin connections[r]
                         <=> Counting(session[r], session[r].seats[i].role)
    BY DEF AbsentOnTheClock, Sound
  <2>1. session[r].seats[i] \in Seated(session[r])
    BY DEF Seated
  <2> QED BY <2>1 DEF ServerInv, RoomsInv, Awaited
<1> QED BY <1>1, ServerInvariant, PTL

\* A side belongs to the username that got it first, for as long as the room is open.
THEOREM SeatsAreKept == Spec => SeatKept
<1> DEFINE SeatsKept ==
      \A r \in open \cap open' :
          \A i \in DOMAIN session[r].seats :
              session[r].seats[i].role \in Sides =>
                  \E j \in DOMAIN session'[r].seats :
                      /\ session'[r].seats[j].role = session[r].seats[i].role
                      /\ session'[r].seats[j].user = session[r].seats[i].user
<1>1. SeatStep => SeatsKept
  <2> SUFFICES ASSUME SeatStep, NEW r \in open \cap open', NEW i \in DOMAIN session[r].seats,
                      session[r].seats[i].role \in Sides
               PROVE  \E j \in DOMAIN session'[r].seats :
                         /\ session'[r].seats[j].role = session[r].seats[i].role
                         /\ session'[r].seats[j].user = session[r].seats[i].user
    OBVIOUS
  <2>1. session[r].seats[i] \in Seated(session[r])
    BY DEF Seated
  <2>2. PICK y \in Seated(session'[r]) : /\ y.role = session[r].seats[i].role
                                         /\ y.user = session[r].seats[i].user
    BY <2>1 DEF SeatStep
  <2>3. PICK j \in DOMAIN session'[r].seats : session'[r].seats[j] = y
    BY <2>2 DEF Seated
  <2> QED BY <2>2, <2>3
<1>2. ServerInv /\ [Next]_vars => [SeatsKept]_vars
  BY <1>1, NextLawful DEF Lawful
<1> QED BY <1>2, ServerInvariant, PTL DEF Spec, SeatKept

\* While neither the directory nor the process fails, the directory keeps a username from
\* playing only while it has a seat; that the rating store fails does not matter.
THEOREM NobodyStaysLockedOut ==
    ASSUME "directory" \notin Faults, "crash" \notin Faults
    PROVE  Spec => []NobodyLockedOut
<1>1. Init => ServerInv /\ Locked
  BY InitLawful
<1>2. ServerInv /\ Locked /\ [Next]_vars => ServerInv' /\ Locked'
  BY NextLawful DEF Lawful, LockStep
<1>3. Locked => NobodyLockedOut
  BY DEF Locked, NobodyLockedOut, SeatedUsers, Seated
<1> QED BY <1>1, <1>2, <1>3, PTL DEF Spec

\* While the rating store works, what it is told is the result announced first, whatever
\* the engine announces later, and also when the directory fails or the process dies.
THEOREM TheWinnerIsRated ==
    ASSUME "rating" \notin Faults
    PROVE  Spec => []RatedForTheWinner
<1> DEFINE Decided == \A r \in Rooms : WellRated(session[r])
<1>1. Init => ServerInv /\ Decided
  BY InitLawful
<1>2. ServerInv /\ Decided /\ [Next]_vars => ServerInv' /\ Decided'
  BY NextLawful DEF Lawful, RateStep
<1>3. ServerInv /\ Decided => RatedForTheWinner
  BY DEF ServerInv, RoomsInv, RoomsType, WellRated, RatedForTheWinner
<1> QED BY <1>1, <1>2, <1>3, PTL DEF Spec

-----------------------------------------------------------------------------
(***************************************************************************)
(* The promise: what each operation on a session does to its table.        *)
(***************************************************************************)

SeatAt(x) == [role |-> x.role, user |-> x.user]

SeatsAt(seats) == {SeatAt(x) : x \in seats}

AwayFrom(seats, present) == {x.role : x \in {y \in seats : y.role \in Sides /\ y.conn \notin present}}

LEMMA TableFields ==
    ASSUME NEW s, NEW present
    PROVE  /\ TableOf(s, present).seats = SeatsAt(Seated(s))
           /\ TableOf(s, present).away = AwayFrom(Seated(s), present)
           /\ TableOf(s, present).result = s.result
           /\ TableOf(s, present).rated = s.rated
           /\ TableOf(s, present) = [seats |-> SeatsAt(Seated(s)),
                                     away |-> AwayFrom(Seated(s), present),
                                     result |-> s.result, rated |-> s.rated]
BY DEF TableOf, Seated, SeatAt, SeatsAt, AwayFrom

\* How a table changes with the seats of its session and with who is present.
LEMMA TableGains ==
    ASSUME NEW s, NEW present, NEW p, NEW others, NEW seat, p.result = s.result, p.rated = s.rated,
           SeatsAt(Seated(p)) = SeatsAt(Seated(s)) \cup {seat},
           AwayFrom(Seated(p), others) = AwayFrom(Seated(s), present)
    PROVE  TableOf(p, others) = Promise!Seated(TableOf(s, present), seat)
<1> DEFINE t == TableOf(s, present)
           a == SeatsAt(Seated(s))
           b == AwayFrom(Seated(s), present)
<1>1. t = [seats |-> a, away |-> b, result |-> s.result, rated |-> s.rated]
  BY TableFields
<1>2. TableOf(p, others) = [seats |-> a \cup {seat}, away |-> b, result |-> s.result, rated |-> s.rated]
  BY TableFields
<1> HIDE DEF t, a, b
<1>3. \A y : [t EXCEPT !.seats = y] = [seats |-> y, away |-> b, result |-> s.result, rated |-> s.rated]
  BY <1>1
<1>4. t.seats = a
  BY <1>1
<1>5. Promise!Seated(t, seat) = [seats |-> a \cup {seat}, away |-> b, result |-> s.result, rated |-> s.rated]
  BY <1>3, <1>4 DEF Promise!Seated
<1> QED BY <1>2, <1>5 DEF t

LEMMA TableMisses ==
    ASSUME NEW s, NEW present, NEW p, NEW others, NEW side, p.result = s.result, p.rated = s.rated,
           SeatsAt(Seated(p)) = SeatsAt(Seated(s)),
           AwayFrom(Seated(p), others) = AwayFrom(Seated(s), present) \cup {side}
    PROVE  TableOf(p, others) = Promise!Gone(TableOf(s, present), side)
<1> DEFINE t == TableOf(s, present)
           a == SeatsAt(Seated(s))
           b == AwayFrom(Seated(s), present)
<1>1. t = [seats |-> a, away |-> b, result |-> s.result, rated |-> s.rated]
  BY TableFields
<1>2. TableOf(p, others) = [seats |-> a, away |-> b \cup {side}, result |-> s.result, rated |-> s.rated]
  BY TableFields
<1> HIDE DEF t, a, b
<1>3. \A y : [t EXCEPT !.away = y] = [seats |-> a, away |-> y, result |-> s.result, rated |-> s.rated]
  BY <1>1
<1>4. t.away = b
  BY <1>1
<1>5. Promise!Gone(t, side) = [seats |-> a, away |-> b \cup {side}, result |-> s.result, rated |-> s.rated]
  BY <1>3, <1>4 DEF Promise!Gone
<1> QED BY <1>2, <1>5 DEF t

LEMMA TableSeesAgain ==
    ASSUME NEW s, NEW present, NEW p, NEW others, NEW side, p.result = s.result, p.rated = s.rated,
           SeatsAt(Seated(p)) = SeatsAt(Seated(s)),
           AwayFrom(Seated(p), others) = AwayFrom(Seated(s), present) \ {side}
    PROVE  TableOf(p, others) = Promise!Back(TableOf(s, present), side)
<1> DEFINE t == TableOf(s, present)
           a == SeatsAt(Seated(s))
           b == AwayFrom(Seated(s), present)
<1>1. t = [seats |-> a, away |-> b, result |-> s.result, rated |-> s.rated]
  BY TableFields
<1>2. TableOf(p, others) = [seats |-> a, away |-> b \ {side}, result |-> s.result, rated |-> s.rated]
  BY TableFields
<1> HIDE DEF t, a, b
<1>3. \A y : [t EXCEPT !.away = y] = [seats |-> a, away |-> y, result |-> s.result, rated |-> s.rated]
  BY <1>1
<1>4. t.away = b
  BY <1>1
<1>5. Promise!Back(t, side) = [seats |-> a, away |-> b \ {side}, result |-> s.result, rated |-> s.rated]
  BY <1>3, <1>4 DEF Promise!Back
<1> QED BY <1>2, <1>5 DEF t

\* Sides taken at the table are those of the session.
LEMMA TakenSides ==
    ASSUME NEW s, NEW present, NEW role
    PROVE  /\ Promise!Taken(TableOf(s, present), role) <=> \E x \in Seated(s) : x.role = role
           /\ Promise!Taken(TableOf(s, present), role) <=> SideSeated(s, role)
<1>1. \A x : SeatAt(x).role = x.role
  BY DEF SeatAt
<1>2. Promise!Taken(TableOf(s, present), role) <=> \E x \in Seated(s) : x.role = role
  BY <1>1, TableFields DEF Promise!Taken, SeatsAt
<1>3. SideSeated(s, role) <=> \E x \in Seated(s) : x.role = role
  BY DEF Seated, SideSeated
<1> QED BY <1>2, <1>3

\* The next role is the one that is still to be given out.
LEMMA RoleIsNext ==
    ASSUME NEW C, NEW U, NEW s \in SessionsOver(C, U), Orderly(s), NEW present
    PROVE  RoleAt(Len(s.seats) + 1) = Promise!NextRole(TableOf(s, present))
<1>1. Len(s.seats) \in Nat
  BY SessionFields
<1>2. /\ Promise!Taken(TableOf(s, present), "white") <=> Len(s.seats) >= 1
      /\ Promise!Taken(TableOf(s, present), "black") <=> Len(s.seats) >= 2
  BY TakenSides DEF Orderly
<1> QED BY <1>1, <1>2 DEF RoleAt, Promise!NextRole

LEMMA PlaceAtTable ==
    ASSUME NEW C, NEW U, NEW s \in SessionsOver(C, U), Orderly(s), NEW c \in C, NEW u \in U,
           \A x \in Seated(s) : x.conn # c, NEW present
    PROVE  LET t == TableOf(s, present)
           IN  TableOf(Place(s, c, u), present \cup {c})
                  = Promise!Seated(t, [role |-> Promise!NextRole(t), user |-> u])
<1> DEFINE p    == Place(s, c, u)
           role == RoleAt(Len(s.seats) + 1)
           seat == [conn |-> c, user |-> u, role |-> role]
<1>1. SeatsOf(s, c) = {}
  BY SeatedFields
<1>2. p.seats = Append(s.seats, seat) /\ p.result = s.result /\ p.rated = s.rated
  BY <1>1, PlaceGivesSeat
<1>3. s.seats \in Seq(SeatsOver(C, U)) /\ Len(s.seats) \in Nat /\ DOMAIN s.seats = 1 .. Len(s.seats)
  BY SessionFields
<1>4. role = Promise!NextRole(TableOf(s, present))
  BY RoleIsNext
<1>5. SeatAt(seat) = [role |-> role, user |-> u] /\ seat.conn = c
  BY DEF SeatAt
<1> HIDE DEF p, role, seat
<1>6. Seated(p) = Seated(s) \cup {seat}
  <2>1. /\ DOMAIN p.seats = 1 .. Len(s.seats) + 1
        /\ \A i \in 1 .. Len(s.seats) : p.seats[i] = s.seats[i]
        /\ p.seats[Len(s.seats) + 1] = seat
    BY <1>2, <1>3
  <2>2. \A i \in 1 .. Len(s.seats) + 1 : i \in 1 .. Len(s.seats) \/ i = Len(s.seats) + 1
    BY <1>3
  <2>3. /\ \A i \in 1 .. Len(s.seats) : i \in 1 .. Len(s.seats) + 1
        /\ Len(s.seats) + 1 \in 1 .. Len(s.seats) + 1
    BY <1>3
  <2> QED BY <1>3, <2>1, <2>2, <2>3 DEF Seated
<1>7. SeatsAt(Seated(p)) = SeatsAt(Seated(s)) \cup {[role |-> role, user |-> u]}
  BY <1>5, <1>6 DEF SeatsAt
<1>8. AwayFrom(Seated(p), present \cup {c}) = AwayFrom(Seated(s), present)
  BY <1>5, <1>6 DEF AwayFrom
<1>9. TableOf(p, present \cup {c})
         = Promise!Seated(TableOf(s, present), [role |-> role, user |-> u])
  BY <1>2, <1>7, <1>8, TableGains
<1> QED BY <1>4, <1>9 DEF p

\* A reconnect brings back a player who was away, or changes nothing.
LEMMA ReconnectAtTable ==
    ASSUME NEW C, NEW U, NEW s \in SessionsOver(C, U), Orderly(s), NEW c \in C, NEW u,
           \A x \in Seated(s) : x.conn # c, CanReconnect(s, u), NEW present
    PROVE  \E side \in Sides :
              TableOf(Reconnect(s, c, u), present \cup {c})
                 = Promise!Back(TableOf(s, present), side)
<1> DEFINE p == Reconnect(s, c, u)
<1>1. PICK old \in Seated(s), moved \in SeatsOver(C, U) :
          /\ old.user = u /\ moved.user = u /\ moved.conn = c
          /\ moved.role = old.role /\ old.role \in Sides
          /\ Seated(p) = (Seated(s) \ {old}) \cup {moved}
  BY ReconnectSeated
<1>2. p.result = s.result /\ p.rated = s.rated
  BY ReconnectSeated
<1>3. \A x \in Seated(s) : x.role = old.role => x = old
  BY <1>1, SeatedOnce
<1> HIDE DEF p
<1>4. SeatAt(old) = SeatAt(moved)
  BY <1>1 DEF SeatAt
<1>5. SeatsAt(Seated(p)) = SeatsAt(Seated(s))
  BY <1>1, <1>4 DEF SeatsAt
<1>6. AwayFrom(Seated(p), present \cup {c}) = AwayFrom(Seated(s), present) \ {old.role}
  BY <1>1, <1>3 DEF AwayFrom
<1>7. TableOf(p, present \cup {c}) = Promise!Back(TableOf(s, present), old.role)
  <2> DEFINE side == old.role
             others == present \cup {c}
  <2>1. AwayFrom(Seated(p), others) = AwayFrom(Seated(s), present) \ {side}
    BY <1>6
  <2> HIDE DEF side, others
  <2>2. TableOf(p, others) = Promise!Back(TableOf(s, present), side)
    BY <1>2, <1>5, <2>1, TableSeesAgain
  <2> QED BY <2>2 DEF side, others
<1> QED BY <1>1, <1>7 DEF p

\* Whoever goes is away, if it has one of the sides.
LEMMA LeaveTable ==
    ASSUME NEW C, NEW U, NEW s \in SessionsOver(C, U), Orderly(s), NEW p, NEW c \in C,
           NEW present, NEW others,
           \A d : d \in others <=> d \in present /\ d # c,
           Seated(p) = Seated(s), p.result = s.result, p.rated = s.rated
    PROVE  \/ TableOf(p, others) = TableOf(s, present)
           \/ \E side \in Sides :
                 /\ Promise!Taken(TableOf(s, present), side)
                 /\ TableOf(p, others) = Promise!Gone(TableOf(s, present), side)
<1>1. CASE \E x \in Seated(s) : x.conn = c /\ x.role \in Sides
  <2>1. PICK x \in Seated(s) : x.conn = c /\ x.role \in Sides
    BY <1>1
  <2>2. \A y \in Seated(s) : y.conn = c => y = x
    BY <2>1, SeatedOnce
  <2>3. AwayFrom(Seated(p), others) = AwayFrom(Seated(s), present) \cup {x.role}
    BY <2>1, <2>2 DEF AwayFrom
  <2>4. TableOf(p, others) = Promise!Gone(TableOf(s, present), x.role)
    BY <2>3, TableMisses
  <2>5. Promise!Taken(TableOf(s, present), x.role)
    BY <2>1, TakenSides
  <2> QED BY <2>1, <2>4, <2>5
<1>2. CASE ~\E x \in Seated(s) : x.conn = c /\ x.role \in Sides
  <2>1. AwayFrom(Seated(p), others) = AwayFrom(Seated(s), present)
    BY <1>2 DEF AwayFrom
  <2> QED BY <2>1, TableFields
<1> QED BY <1>1, <1>2

\* An announcement of the end, by the engine or by a countdown that runs out.
LEMMA EndAtTable ==
    ASSUME NEW C, NEW U, NEW s \in SessionsOver(C, U), NEW winner \in Sides, NEW storeUp, NEW present,
           storeUp = TRUE \/ "rating" \in Faults, NEW p,
           Seated(p) = Seated(s), p.result = GameOver(s, winner, storeUp).result,
           p.rated = GameOver(s, winner, storeUp).rated
    PROVE  TableOf(p, present) \in Promise!Announced(TableOf(s, present), winner)
<1> DEFINE t == TableOf(s, present)
<1>1. /\ s.result \in Sides \cup {"none"} /\ s.rated \in Sides \cup {"no", "skipped"}
      /\ s = [seats |-> s.seats, countdowns |-> s.countdowns, over |-> s.over,
              result |-> s.result, rated |-> s.rated]
  BY DEF SessionsOver
<1>2. /\ p.result = IF s.result = "none" THEN winner ELSE s.result
      /\ p.rated = IF s.rated # "no" THEN s.rated
                   ELSE IF ~Rateable(s) THEN "skipped"
                   ELSE IF storeUp THEN winner ELSE s.rated
  BY <1>1 DEF GameOver
<1>3. Rateable(s) <=> Promise!Taken(t, "white") /\ Promise!Taken(t, "black")
  BY TakenSides DEF Rateable
<1>4. t.rated = s.rated /\ t.result = s.result
  BY TableFields
<1>5. p.rated \in Promise!Ratings(t, winner)
  BY <1>2, <1>3, <1>4 DEF Promise!Ratings
<1>6. TableOf(p, present) = [seats |-> t.seats, away |-> t.away,
                             result |-> IF t.result = "none" THEN winner ELSE t.result,
                             rated |-> p.rated]
  BY <1>2, TableFields
<1> QED BY <1>5, <1>6 DEF Promise!Announced

\* A round leaves the end of the game as it is, or is an announcement of it.
LEMMA TickEnds ==
    ASSUME NEW C, NEW U, NEW s \in SessionsOver(C, U), Orderly(s),
           NEW end \in Sides \cup {"none"}, NEW storeUp
    PROVE  LET t == TickSession(s, end, storeUp)
           IN  \/ t.result = s.result /\ t.rated = s.rated /\ t.over = s.over
               \/ \E w \in Sides : /\ t.result = GameOver(s, w, storeUp).result
                                   /\ t.rated = GameOver(s, w, storeUp).rated
                                   /\ t.result # "none"
<1> DEFINE t == TickSession(s, end, storeUp)
<1>1. \A w \in Sides : /\ GameOver(s, w, storeUp) \in SessionsOver(C, U)
                       /\ GameOver(s, w, storeUp).over = TRUE
  BY GameOverKeeps
<1>2. \A w \in Sides : GameOver(s, w, storeUp).result # "none"
  <2>1. s.result \in Sides \cup {"none"} /\ "none" \notin Sides
    BY DEF SessionsOver, Sides
  <2>2. \A w : GameOver(s, w, storeUp).result = IF s.result = "none" THEN w ELSE s.result
    BY DEF GameOver, SessionsOver
  <2> QED BY <2>1, <2>2
<1>3. \A z \in SessionsOver(C, U) : \A clocks : /\ [z EXCEPT !.countdowns = clocks].result = z.result
                                                /\ [z EXCEPT !.countdowns = clocks].rated = z.rated
                                                /\ [z EXCEPT !.countdowns = clocks].over = z.over
  BY DEF SessionsOver
<1>4. CASE end # "none"
  <2> DEFINE waited == GameOver(s, end, storeUp)
  <2>1. end \in Sides /\ waited \in SessionsOver(C, U) /\ waited.over
    BY <1>1, <1>4
  <2>2. t = waited \/ t = [waited EXCEPT !.countdowns = <<>>]
    BY <1>4, <2>1 DEF TickSession
  <2> HIDE DEF waited, t
  <2>3. t.result = waited.result /\ t.rated = waited.rated
    BY <1>3, <2>1, <2>2, ZenonT(60)
  <2> QED BY <1>2, <2>1, <2>3 DEF waited, t
<1>5. CASE end = "none" /\ s.over
  <2>1. t = [s EXCEPT !.countdowns = <<>>]
    BY <1>5 DEF TickSession
  <2> QED BY <1>3, <2>1
<1>6. CASE end = "none" /\ ~s.over /\ Due(s) = {}
  <2>1. t = [s EXCEPT !.countdowns = Aged(s)]
    BY <1>6 DEF TickSession, AdvanceCountdowns
  <2> QED BY <1>3, <2>1
<1>7. CASE end = "none" /\ ~s.over /\ Due(s) # {}
  <2> DEFINE first == CHOOSE i \in Due(s) : \A j \in Due(s) : i <= j
             w     == OtherSide(s.countdowns[first].side)
             over  == GameOver(s, w, storeUp)
             left  == [i \in DOMAIN s.countdowns |-> IF i < first THEN Aged(s)[i] ELSE s.countdowns[i]]
             clocks == IF RatingRaises(s, storeUp) THEN Kept(left, DOMAIN left \ {first})
                       ELSE StillRunning(s)
  <2>1. t = AdvanceCountdowns(s, storeUp)
    BY <1>7 DEF TickSession
  <2>2. AdvanceCountdowns(s, storeUp) = [over EXCEPT !.countdowns = clocks]
    BY <1>7 DEF AdvanceCountdowns
  <2>3. w \in Sides
    BY DEF OtherSide, Sides
  <2> HIDE DEF t, w, clocks
  <2>4. over \in SessionsOver(C, U)
    BY <1>1, <2>3
  <2>5. t.result = over.result /\ t.rated = over.rated
    BY <1>3, <2>1, <2>2, <2>4
  <2> QED BY <1>2, <2>3, <2>5 DEF t
<1> QED BY <1>4, <1>5, <1>6, <1>7 DEF t

\* One round of the loop.
LEMMA RoundAtTable ==
    ASSUME NEW C, NEW U, NEW s \in SessionsOver(C, U), Orderly(s), Seated(s) # {},
           NEW end \in Sides \cup {"none"}, NEW storeUp, storeUp = TRUE \/ "rating" \in Faults,
           NEW present
    PROVE  TableOf(TickSession(s, end, storeUp), present) \in Promise!After(TableOf(s, present))
<1> DEFINE t == TickSession(s, end, storeUp)
<1>1. Seated(t) = Seated(s)
  BY TickSeated, ZenonT(60)
<1>2. \/ t.result = s.result /\ t.rated = s.rated
      \/ \E w \in Sides : /\ t.result = GameOver(s, w, storeUp).result
                          /\ t.rated = GameOver(s, w, storeUp).rated
  BY TickEnds
<1> HIDE DEF t
<1>3. TableOf(s, present).seats # {}
  BY TableFields DEF SeatsAt
<1>4. CASE t.result = s.result /\ t.rated = s.rated
  <2>1. TableOf(t, present) = TableOf(s, present)
    BY <1>1, <1>4, TableFields
  <2> QED BY <2>1 DEF Promise!After, t
<1>5. CASE \E w \in Sides : /\ t.result = GameOver(s, w, storeUp).result
                            /\ t.rated = GameOver(s, w, storeUp).rated
  <2>1. PICK w \in Sides : /\ t.result = GameOver(s, w, storeUp).result
                           /\ t.rated = GameOver(s, w, storeUp).rated
    BY <1>5
  <2>2. TableOf(t, present) \in Promise!Announced(TableOf(s, present), w)
    BY <1>1, <2>1, EndAtTable
  <2>3. w = "white" \/ w = "black"
    BY DEF Sides
  <2> QED BY <1>3, <2>2, <2>3 DEF Promise!After, t
<1> QED BY <1>2, <1>4, <1>5

LEMMA ClearedTable == TableOf(NewSession, {}) = Promise!Cleared
<1>1. Seated(NewSession) = {} /\ NewSession.result = "none" /\ NewSession.rated = "no"
  BY DEF NewSession, Seated
<1>2. SeatsAt({}) = {} /\ AwayFrom({}, {}) = {}
  BY DEF SeatsAt, AwayFrom
<1> QED BY <1>1, <1>2, TableFields DEF Promise!Cleared

\* With one connection present at most one of the players is there.
LEMMA LastIsAlone ==
    ASSUME NEW s, Orderly(s), NEW present, NEW c, \A d \in present : d = c
    PROVE  ~Promise!BothPlay(TableOf(s, present))
<1> SUFFICES ASSUME Promise!BothPlay(TableOf(s, present)) PROVE FALSE
  OBVIOUS
<1>1. ASSUME NEW side \in Sides PROVE \E x \in Seated(s) : x.role = side /\ x.conn = c
  <2>1. Promise!Taken(TableOf(s, present), side) /\ side \notin TableOf(s, present).away
    BY DEF Promise!BothPlay, Sides
  <2>2. PICK x \in Seated(s) : x.role = side
    BY <2>1, TakenSides
  <2>3. side \notin AwayFrom(Seated(s), present)
    BY <2>1, TableFields
  <2>4. x.conn \in present
    BY <2>2, <2>3 DEF AwayFrom
  <2> QED BY <2>2, <2>4
<1>2. PICK x \in Seated(s) : x.role = "white" /\ x.conn = c
  BY <1>1 DEF Sides
<1>3. PICK y \in Seated(s) : y.role = "black" /\ y.conn = c
  BY <1>1 DEF Sides
<1> QED BY <1>2, <1>3, SeatedOnce

-----------------------------------------------------------------------------
\* What a step does to the tables.

\* Somebody sits in every open room, and a room whose grace runs has a result.
Occupied == \A r \in open : Seated(session[r]) # {}

Timed == \A r \in Rooms : closing[r] < Grace => session[r].over

Decided == \A r \in Rooms : session[r].over => session[r].result # "none"

Tidy == Occupied /\ Timed /\ Decided

TableStep == Promise!Next \/ TableNow' = TableNow

LEMMA TablesNow ==
    /\ \A r \in Rooms : TableNow[r] = TableOf(session[r], connections[r])
    /\ \A r \in Rooms : TableNow'[r] = TableOf(session'[r], connections'[r])
    /\ DOMAIN TableNow = Rooms /\ DOMAIN TableNow' = Rooms
BY DEF TableNow

\* A step that concerns one table only.
LEMMA OneTable ==
    ASSUME NEW r \in Rooms, NEW t, TableOf(session'[r], connections'[r]) = t,
           \A q \in Rooms \ {r} : session'[q] = session[q] /\ connections'[q] = connections[q]
    PROVE  TableNow' = [TableNow EXCEPT ![r] = t]
<1>1. \A q \in Rooms \ {r} : TableNow'[q] = TableNow[q]
  BY TablesNow
<1>2. TableNow'[r] = t
  BY TablesNow
<1>3. TableNow' = [q \in Rooms |-> TableNow'[q]] /\ TableNow = [q \in Rooms |-> TableNow[q]]
  BY DEF TableNow
<1> QED BY <1>1, <1>2, <1>3

\* Steps that touch neither a session nor who is in which room.
LEMMA SameTables ==
    ASSUME Tidy, UNCHANGED <<open, session, connections, closing>>
    PROVE  Tidy' /\ TableStep
BY DEF Tidy, Occupied, Timed, Decided, TableStep, TableNow

\* Tidy, when one session changes and its end stays what it was.
LEMMA TidyStays ==
    ASSUME RoomsInv, Tidy, NEW r \in Rooms, NEW t, session' = [session EXCEPT ![r] = t],
           open' \in SUBSET (open \cup {r}), closing' = closing,
           Seated(t) # {}, t.over = session[r].over, t.result = session[r].result
    PROVE  Tidy'
<1>1. /\ session \in [Rooms -> Sess] /\ open \in SUBSET Rooms
      /\ session'[r] = t /\ \A q \in Rooms \ {r} : session'[q] = session[q]
  BY DEF RoomsInv, RoomsType
<1>2. Occupied'
  BY <1>1 DEF Tidy, Occupied
<1>3. Timed' /\ Decided'
  <2>1. \A q \in Rooms : session'[q].over = session[q].over /\ session'[q].result = session[q].result
    BY <1>1
  <2> QED BY <2>1 DEF Tidy, Timed, Decided
<1> QED BY <1>2, <1>3 DEF Tidy

\* Whoever has no key sits nowhere.
LEMMA NoKeyNoSeat ==
    ASSUME RoomsInv, NEW u \in Users, userKey[u] = NoRoom
    PROVE  /\ ~Promise!SitsSomewhere(u)
           /\ \A r \in Rooms : \A x \in Seated(session[r]) : x.user # u
<1>1. ASSUME NEW r \in Rooms, NEW x \in Seated(session[r]), x.user = u PROVE FALSE
  <2>1. CASE r \in open
    BY <1>1, <2>1, Nobody DEF RoomsInv, Reserved
  <2>2. CASE r \notin open
    BY <1>1, <2>2, NewSessionSeated DEF RoomsInv, ClosedRooms
  <2> QED BY <2>1, <2>2
<1>2. ASSUME NEW r \in Rooms, NEW s \in TableNow[r].seats, s.user = u PROVE FALSE
  <2>1. PICK x \in Seated(session[r]) : s = SeatAt(x)
    BY <1>2, TablesNow, TableFields DEF SeatsAt
  <2>2. x.user = u
    BY <1>2, <2>1 DEF SeatAt
  <2> QED BY <1>1, <2>2
<1> QED BY <1>1, <1>2 DEF Promise!SitsSomewhere

\* A connection that is logged in by a name without a key.
LEMMA NobodyThere ==
    ASSUME RoomsInv, NEW c \in Conns, state[c] \in Active, userKey[user[c]] = NoRoom
    PROVE  /\ user[c] \in Users /\ ~Promise!SitsSomewhere(user[c])
           /\ \A r \in Rooms : \A x \in Seated(session[r]) : x.conn # c
<1>1. user[c] \in Users
  BY DEF RoomsInv, Named
<1>2. ASSUME NEW r \in Rooms, NEW x \in Seated(session[r]), x.conn = c PROVE FALSE
  <2>1. x.user = user[c]
    BY <1>2 DEF RoomsInv, SeatsNamed
  <2> QED BY <1>1, <1>2, <2>1, NoKeyNoSeat
<1> QED BY <1>1, <1>2, NoKeyNoSeat

\* One connection gets a seat.
LEMMA SitStep ==
    ASSUME RoomsInv, Tidy, NEW c \in Conns, state[c] \in Active, userKey[user[c]] = NoRoom,
           NEW r \in Rooms,
           session' = [session EXCEPT ![r] = Place(session[r], c, user[c])],
           connections' = [connections EXCEPT ![r] = @ \cup {c}],
           open' \in SUBSET (open \cup {r}), closing' = closing
    PROVE  Tidy' /\ TableStep
<1> DEFINE s == session[r]
           p == Place(s, c, user[c])
           t == TableOf(s, connections[r])
           u == user[c]
<1>1. /\ u \in Users /\ ~Promise!SitsSomewhere(u) /\ \A x \in Seated(s) : x.conn # c
      /\ s \in SessionsOver(Conns, Users) /\ Orderly(s)
      /\ session \in [Rooms -> Sess] /\ connections \in [Rooms -> SUBSET Conns]
  BY NobodyThere DEF RoomsInv, RoomsType, Orders, Sess
<1>2. session'[r] = p /\ connections'[r] = connections[r] \cup {c}
  BY <1>1
<1>3. \A q \in Rooms \ {r} : session'[q] = session[q] /\ connections'[q] = connections[q]
  BY <1>1
<1> HIDE DEF s, t, p, u
<1>4. /\ Seated(p) # {} /\ p.over = s.over /\ p.result = s.result
  BY <1>1, PlaceSeated DEF p, u
<1>5. TableOf(p, connections[r] \cup {c})
         = Promise!Seated(t, [role |-> Promise!NextRole(t), user |-> u])
  BY <1>1, PlaceAtTable DEF p, t, u
<1>6. TableNow' = [TableNow EXCEPT ![r] = Promise!Seated(t, [role |-> Promise!NextRole(t), user |-> u])]
  BY <1>2, <1>3, <1>5, OneTable
<1>7. TableNow[r] = t
  BY TablesNow DEF t, s
<1>8. Promise!Sit(r, u)
  BY <1>1, <1>6, <1>7 DEF Promise!Sit
<1>9. Tidy'
  BY <1>4, TidyStays DEF p, s, u
<1> QED BY <1>1, <1>8, <1>9 DEF TableStep, Promise!Next

LEMMA CreateRoomTables ==
    ASSUME ServerInv, Tidy, NEW c \in Conns, CreateRoom(c)
    PROVE  Tidy' /\ TableStep
<1>1. RoomsInv /\ state[c] \in Active
  BY DEF ServerInv, CreateRoom, MayRoute, Active
<1>2. PICK r \in Rooms : OpenRoom(r, <<c>>, TRUE)
  BY DEF CreateRoom
<1>3. session[r] = NewSession
  BY <1>1, <1>2, NewRoomIsEmpty DEF OpenRoom, ReserveNewRoom
<1>4. /\ Len(<<c>>) = 1 /\ <<c>>[1] = c
      /\ {<<c>>[i] : i \in DOMAIN <<c>>} = {c}
      /\ {user[<<c>>[i]] : i \in DOMAIN <<c>>} = {user[c]}
  BY Groups
<1>5. userKey[user[c]] = NoRoom
  BY <1>2, <1>4 DEF OpenRoom, ReserveNewRoom, UsersFree
<1>6. /\ session' = [session EXCEPT ![r] = Place(session[r], c, user[c])]
      /\ connections' = [connections EXCEPT ![r] = @ \cup {c}]
      /\ closing' = closing /\ open' = open \cup {r}
  BY <1>2, <1>3, <1>4 DEF OpenRoom, PlaceAll
<1> QED BY <1>1, <1>5, <1>6, SitStep

LEMMA JoinRoomTables ==
    ASSUME ServerInv, Tidy, NEW c \in Conns, JoinRoom(c)
    PROVE  Tidy' /\ TableStep
<1>1. RoomsInv /\ state[c] \in Active
  BY DEF ServerInv, JoinRoom, MayRoute, Active
<1>2. PICK r \in Rooms : JoinRoomOf(r, c) \/ JoinHalfClosed(r, c)
  BY DEF JoinRoom
<1>3. userKey[user[c]] = NoRoom
  BY <1>2 DEF JoinRoomOf, JoinHalfClosed, ReserveJoin, UsersFree
<1>4. Len(<<c>>) = 1 /\ <<c>>[1] = c /\ {<<c>>[i] : i \in DOMAIN <<c>>} = {c}
  BY Groups
<1>5. /\ session' = [session EXCEPT ![r] = Place(session[r], c, user[c])]
      /\ connections' = [connections EXCEPT ![r] = @ \cup {c}]
      /\ closing' = closing /\ open' = open
  BY <1>2, <1>4 DEF JoinRoomOf, PlaceAll, JoinHalfClosed
<1> QED BY <1>1, <1>3, <1>5, SitStep

\* A match: two seats at a table that was cleared.
LEMMA OpenMatchTables ==
    ASSUME RoomsInv, Tidy, NEW b \in Conns, NEW c \in Conns, b # c,
           state[b] \in Active, state[c] \in Active, NEW r \in Rooms, OpenRoom(r, <<b, c>>, FALSE)
    PROVE  Tidy' /\ TableStep
<1> DEFINE p == Place(NewSession, b, user[b])
           q == Place(p, c, user[c])
           t == Promise!Cleared
           white == [role |-> "white", user |-> user[b]]
           black == [role |-> "black", user |-> user[c]]
<1>1. session[r] = NewSession /\ connections[r] = {}
  <2>1. Unused(r)
    BY DEF OpenRoom, ReserveNewRoom
  <2>2. r \notin open /\ session[r] = NewSession
    BY <2>1, NewRoomIsEmpty
  <2> QED BY <2>2 DEF RoomsInv, ClosedRooms
<1>2. /\ Len(<<b, c>>) # 1 /\ <<b, c>>[1] = b /\ <<b, c>>[2] = c
      /\ {<<b, c>>[i] : i \in DOMAIN <<b, c>>} = {b, c}
      /\ {user[<<b, c>>[i]] : i \in DOMAIN <<b, c>>} = {user[b], user[c]}
  BY Groups
<1>3. userKey[user[b]] = NoRoom /\ userKey[user[c]] = NoRoom
  BY <1>2 DEF OpenRoom, ReserveNewRoom, UsersFree
<1>4. /\ user[b] \in Users /\ ~Promise!SitsSomewhere(user[b])
      /\ user[c] \in Users /\ ~Promise!SitsSomewhere(user[c])
  BY <1>3, NobodyThere
<1>5. /\ session' = [session EXCEPT ![r] = q]
      /\ connections' = [connections EXCEPT ![r] = @ \cup {b, c}]
      /\ closing' = closing /\ open' = open \cup {r}
  BY <1>1, <1>2 DEF OpenRoom, PlaceAll
<1>6. /\ session \in [Rooms -> Sess] /\ connections \in [Rooms -> SUBSET Conns]
      /\ NewSession \in Sess /\ Orderly(NewSession) /\ Seated(NewSession) = {}
  BY NewSessionSeated DEF RoomsInv, RoomsType, Sess
<1>7. /\ p \in Sess /\ Orderly(p) /\ \A x \in Seated(p) : x.conn = b
      /\ p.over = NewSession.over /\ p.result = NewSession.result
  BY <1>4, <1>6, PlaceSeated DEF Sess
<1>8. TableOf(p, {} \cup {b}) = Promise!Seated(t, [role |-> Promise!NextRole(t), user |-> user[b]])
  BY <1>4, <1>6, PlaceAtTable, ClearedTable DEF Sess
<1>9. Promise!NextRole(t) = "white"
  BY DEF Promise!NextRole, Promise!Taken, Promise!Cleared
<1>10. TableOf(p, {b}) = Promise!Seated(t, white)
  BY <1>8, <1>9
<1>11. Promise!NextRole(Promise!Seated(t, white)) = "black"
  <2>1. Promise!Seated(t, white).seats = {white}
    BY DEF Promise!Seated, Promise!Cleared
  <2> QED BY <2>1 DEF Promise!NextRole, Promise!Taken
<1> HIDE DEF p, t, white, black
<1>12. /\ TableOf(q, {b} \cup {c}) = Promise!Seated(Promise!Seated(t, white),
                [role |-> Promise!NextRole(Promise!Seated(t, white)), user |-> user[c]])
       /\ Seated(q) # {} /\ q.over = p.over /\ q.result = p.result
  <2>1. \A x \in Seated(p) : x.conn # c
    BY <1>7
  <2>2. p \in SessionsOver(Conns, Users) /\ Orderly(p)
    BY <1>7 DEF Sess
  <2> QED BY <1>4, <1>10, <2>1, <2>2, PlaceAtTable, PlaceSeated
<1>13. TableOf(q, {b, c}) = Promise!Seated(Promise!Seated(t, white), black)
  <2>1. {b} \cup {c} = {b, c}
    OBVIOUS
  <2> QED BY <1>11, <1>12, <2>1 DEF black
<1> HIDE DEF q
<1>14. /\ session'[r] = q /\ connections'[r] = {b, c}
       /\ \A x \in Rooms \ {r} : session'[x] = session[x] /\ connections'[x] = connections[x]
  BY <1>1, <1>5, <1>6
<1>15. TableNow' = [TableNow EXCEPT ![r] = Promise!Seated(Promise!Seated(t, white), black)]
  BY <1>13, <1>14, OneTable
<1>16. TableNow[r] = t
  BY <1>1, TablesNow, ClearedTable DEF t
<1>17. Promise!SitTogether(r, user[b], user[c])
  BY <1>4, <1>15, <1>16 DEF Promise!SitTogether, t, white, black
<1>18. Tidy'
  BY <1>1, <1>5, <1>7, <1>12, TidyStays
<1> QED BY <1>4, <1>17, <1>18 DEF TableStep, Promise!Next

LEMMA MatchSeekerTables ==
    ASSUME ServerInv, Tidy, NEW c \in Conns, MatchSeeker(c)
    PROVE  Tidy' /\ TableStep
<1> DEFINE b == entries[Earliest(Compatible(Rating[user[c]]))].conn
<1>1. b \in Conns /\ b # c /\ state[b] \in Active /\ state[c] \in Active
  BY OpponentFound DEF MatchSeeker
<1>2. \/ \E r \in Rooms : OpenRoom(r, <<b, c>>, FALSE)
      \/ UNCHANGED localVars
  BY DEF MatchSeeker
<1> HIDE DEF b
<1>3. CASE \E r \in Rooms : OpenRoom(r, <<b, c>>, FALSE)
  BY <1>1, <1>3, OpenMatchTables DEF ServerInv
<1>4. CASE UNCHANGED localVars
  BY <1>4, SameTables DEF localVars
<1> QED BY <1>2, <1>3, <1>4

\* A connection takes over the seat of a player who is away.
LEMMA ReconnectTables ==
    ASSUME ServerInv, Tidy, NEW c \in Conns, TryReconnect(c)
    PROVE  Tidy' /\ TableStep
<1>1. RoomsInv /\ Fresh(c)
  BY Logged DEF TryReconnect, ServerInv
<1>2. CASE UNCHANGED roomVars
  BY <1>2, SameTables DEF roomVars, localVars
<1>3. CASE \E r \in RoomToReconnect(user[c]) : ReconnectTo(r, c) \/ ReconnectToHalfClosed(r, c)
  <2>1. PICK r \in RoomToReconnect(user[c]) : ReconnectTo(r, c) \/ ReconnectToHalfClosed(r, c)
    BY <1>3
  <2> DEFINE s == session[r]
             p == Reconnect(s, c, user[c])
             t == TableOf(s, connections[r])
  <2>2. /\ r \in open /\ r \in Rooms /\ CanReconnect(s, user[c])
        /\ s \in SessionsOver(Conns, Users) /\ Orderly(s) /\ \A x \in Seated(s) : x.conn # c
        /\ session \in [Rooms -> Sess] /\ connections \in [Rooms -> SUBSET Conns]
    BY <1>1 DEF RoomToReconnect, RoomsInv, RoomsType, Orders, Sess, Fresh
  <2>3. /\ session' = [session EXCEPT ![r] = p]
        /\ connections' = [connections EXCEPT ![r] = @ \cup {c}]
        /\ open' = open /\ closing' = closing
    BY <2>1 DEF ReconnectTo, ReconnectToHalfClosed
  <2> HIDE DEF s, p, t
  <2>4. Seated(p) # {} /\ p.over = s.over /\ p.result = s.result
    BY <2>2, ReconnectSeated DEF p
  <2>5. PICK side \in Sides : TableOf(p, connections[r] \cup {c}) = Promise!Back(t, side)
    BY <2>2, ReconnectAtTable DEF p, t
  <2>6. /\ session'[r] = p /\ connections'[r] = connections[r] \cup {c}
        /\ \A q \in Rooms \ {r} : session'[q] = session[q] /\ connections'[q] = connections[q]
    BY <2>2, <2>3
  <2>7. TableNow' = [TableNow EXCEPT ![r] = Promise!Back(t, side)]
    BY <2>2, <2>5, <2>6, OneTable
  <2>8. TableNow[r] = t
    BY <2>2, TablesNow DEF t, s
  <2>9. Tidy'
    BY <1>1, <2>2, <2>3, <2>4, TidyStays DEF s
  <2>10. CASE side \in t.away
    <3>1. Promise!ComeBack(r, side)
      BY <2>7, <2>8, <2>10 DEF Promise!ComeBack
    <3> QED BY <2>2, <2>9, <3>1 DEF TableStep, Promise!Next, Sides
  <2>11. CASE side \notin t.away
    <3>1. Promise!Back(t, side) = t
      <4>1. t = [seats |-> t.seats, away |-> t.away, result |-> t.result, rated |-> t.rated]
        BY TableFields DEF t
      <4>2. t.away \ {side} = t.away
        BY <2>11
      <4> QED BY <4>1, <4>2 DEF Promise!Back
    <3>2. TableNow' = TableNow
      BY <2>2, <2>7, <2>8, <3>1 DEF TableNow
    <3> QED BY <2>9, <3>2 DEF TableStep
  <2> QED BY <2>10, <2>11
<1> QED BY <1>2, <1>3 DEF TryReconnect

\* Whoever drops leaves its seat empty; the last one to drop takes its table along.
LEMMA LeaveTables ==
    ASSUME ServerInv, Tidy, NEW c \in Conns, state[c] \in Active, NEW directoryUp,
           directoryUp = TRUE \/ directoryUp = FALSE, RemoveParticipant(c, directoryUp)
    PROVE  Tidy' /\ TableStep
<1> DEFINE r == roomOf[c]
           s == session[r]
           here == connections[r]
           t == TableOf(s, here)
<1>1. /\ RoomsInv /\ open \in SUBSET Rooms
      /\ session \in [Rooms -> Sess] /\ connections \in [Rooms -> SUBSET Conns]
      /\ \A q \in Rooms : session[q] \in SessionsOver(Conns, Users) /\ Orderly(session[q])
      /\ \A q \in Rooms : connections[q] = {} \/ q \in open
      /\ closing \in [Rooms -> 1 .. Grace]
  BY DEF ServerInv, RoomsInv, RoomsType, Orders, Sess, ClosedRooms
<1>2. CASE r \notin open
  <2>1. UNCHANGED localVars
    BY <1>2 DEF RemoveParticipant, LastToLeave
  <2> QED BY <2>1, SameTables DEF localVars
<1>3. ASSUME NEW p, r \in open, TableNow' = [TableNow EXCEPT ![r] = TableOf(p, here \ {c})],
             Seated(p) = Seated(s), p.result = s.result, p.rated = s.rated
      PROVE  TableStep
  <2>1. r \in Rooms /\ s \in SessionsOver(Conns, Users) /\ Orderly(s)
    BY <1>1, <1>3
  <2>2. TableNow[r] = t
    BY <2>1, TablesNow
  <2> HIDE DEF s, here, t, r
  <2>3. \/ TableOf(p, here \ {c}) = TableOf(s, here)
        \/ \E side \in Sides : /\ Promise!Taken(TableOf(s, here), side)
                               /\ TableOf(p, here \ {c}) = Promise!Gone(TableOf(s, here), side)
    <3> DEFINE others == here \ {c}
    <3>1. /\ s \in SessionsOver(Conns, Users) /\ Orderly(s)
          /\ \A d : d \in others <=> d \in here /\ d # c
      BY <2>1
    <3> HIDE DEF others
    <3>2. \/ TableOf(p, others) = TableOf(s, here)
          \/ \E side \in Sides : /\ Promise!Taken(TableOf(s, here), side)
                                 /\ TableOf(p, others) = Promise!Gone(TableOf(s, here), side)
      BY <1>3, <3>1, LeaveTable
    <3> QED BY <3>2 DEF others
  <2>4. CASE TableOf(p, here \ {c}) = t
    <3>1. TableNow' = TableNow
      BY <1>3, <2>1, <2>2, <2>4 DEF TableNow
    <3> QED BY <3>1 DEF TableStep
  <2>5. CASE \E side \in Sides : /\ Promise!Taken(t, side)
                                 /\ TableOf(p, here \ {c}) = Promise!Gone(t, side)
    <3>1. PICK side \in Sides : /\ Promise!Taken(t, side)
                                /\ TableOf(p, here \ {c}) = Promise!Gone(t, side)
      BY <2>5
    <3>2. Promise!Leave(r, side)
      BY <1>3, <2>2, <3>1 DEF Promise!Leave
    <3> QED BY <2>1, <3>2 DEF TableStep, Promise!Next, Sides
  <2> QED BY <2>3, <2>4, <2>5 DEF t
<1>4. CASE r \in open /\ here \ {c} # {}
  <2> DEFINE p == BeginCountdown(s, c)
  <2>1. /\ session' = [session EXCEPT ![r] = p] /\ connections' = [connections EXCEPT ![r] = @ \ {c}]
        /\ open' = open /\ closing' = closing
    BY <1>4 DEF RemoveParticipant, LastToLeave
  <2>2. r \in Rooms /\ s \in SessionsOver(Conns, Users) /\ Orderly(s)
    BY <1>1, <1>4
  <2>3. /\ Seated(p) = Seated(s) /\ p.over = s.over /\ p.result = s.result /\ p.rated = s.rated
    BY <2>2, BeginCountdownSeated
  <2>4. /\ session'[r] = p /\ connections'[r] = here \ {c}
        /\ \A q \in Rooms \ {r} : session'[q] = session[q] /\ connections'[q] = connections[q]
    BY <1>1, <2>1, <2>2
  <2>5. Seated(s) # {}
    BY <1>4 DEF Tidy, Occupied
  <2> HIDE DEF p, s, here, t, r
  <2>6. TableNow' = [TableNow EXCEPT ![r] = TableOf(p, here \ {c})]
    BY <2>2, <2>4, OneTable
  <2>7. TableStep
    BY <1>3, <1>4, <2>3, <2>6
  <2>8. Tidy'
    BY <1>1, <2>1, <2>2, <2>3, <2>5, TidyStays DEF s
  <2> QED BY <2>7, <2>8
<1>5. CASE r \in open /\ here \ {c} = {} /\ directoryUp = FALSE
  <2>1. CloseRooms({r}, {r}, [connections EXCEPT ![r] = {}], session, closing)
    BY <1>5 DEF RemoveParticipant, LastToLeave
  <2>2. /\ open' = open /\ r \in Rooms
        /\ session' = session /\ closing' = closing
        /\ connections' = [connections EXCEPT ![r] = {}]
    <3>1. {r} \ {r} = {}
      OBVIOUS
    <3> QED BY <1>1, <1>5, <2>1, <3>1 DEF CloseRooms
  <2>3. /\ session'[r] = s /\ connections'[r] = here \ {c}
        /\ \A q \in Rooms \ {r} : session'[q] = session[q] /\ connections'[q] = connections[q]
    BY <1>1, <1>5, <2>2
  <2> HIDE DEF s, here, t, r
  <2>4. TableNow' = [TableNow EXCEPT ![r] = TableOf(s, here \ {c})]
    BY <2>2, <2>3, OneTable
  <2>5. TableStep
    BY <1>3, <1>5, <2>4
  <2>6. Tidy'
    BY <2>2 DEF Tidy, Occupied, Timed, Decided
  <2> QED BY <2>5, <2>6
<1>6. CASE r \in open /\ here \ {c} = {} /\ directoryUp = TRUE
  <2>1. CloseRooms({r}, {}, [connections EXCEPT ![r] = {}], session, closing)
    BY <1>6 DEF RemoveParticipant, LastToLeave
  <2>2. r \in Rooms /\ open' = open \ {r}
    BY <1>1, <1>6, <2>1 DEF CloseRooms
  <2>3. /\ session'[r] = NewSession /\ connections'[r] = {} /\ closing'[r] = Grace
        /\ \A q \in Rooms \ {r} : /\ session'[q] = session[q] /\ connections'[q] = connections[q]
                                  /\ closing'[q] = closing[q]
    BY <1>1, <2>1, <2>2 DEF CloseRooms
  <2>4. ~Promise!BothPlay(t)
    <3>1. \A d \in here : d = c
      BY <1>6
    <3>2. Orderly(s)
      BY <1>1, <2>2
    <3> HIDE DEF s, here
    <3> QED BY <3>1, <3>2, LastIsAlone
  <2>5. TableNow[r] = t /\ TableNow'[r] = Promise!Cleared
    BY <2>2, <2>3, TablesNow, ClearedTable
  <2>6. \A q \in Rooms \ {r} : TableNow'[q] = TableNow[q]
    BY <2>3, TablesNow
  <2> HIDE DEF s, here, t, r
  <2>7. Promise!Proceed
    <3>1. \A q \in Rooms : TableNow'[q] \in Promise!After(TableNow[q])
      BY <2>4, <2>5, <2>6 DEF Promise!After, Promise!MayClear
    <3> QED BY <3>1, TablesNow DEF Promise!Proceed
  <2>8. Tidy'
    <3>1. Occupied'
      BY <1>1, <2>2, <2>3 DEF Tidy, Occupied
    <3>2. ~NewSession.over
      BY DEF NewSession
    <3>3. Timed'
      BY <2>3, <3>2, Nobody DEF Tidy, Timed
    <3>4. Decided'
      BY <2>3, <3>2 DEF Tidy, Decided
    <3> QED BY <3>1, <3>3, <3>4 DEF Tidy
  <2> QED BY <2>7, <2>8 DEF TableStep, Promise!Next
<1> QED BY <1>2, <1>4, <1>5, <1>6

\* One round of the server loop: any number of games end and of rooms close.
LEMMA TickTables ==
    ASSUME Grace > 1, ServerInv, Tidy, NEW end \in [open -> Winners], NEW storeUp,
           storeUp = TRUE \/ "rating" \in Faults, NEW failed, Tick(end, storeUp, failed)
    PROVE  Tidy' /\ TableStep
<1> DEFINE rooms    == RoomsDue(end, storeUp)
           gone     == rooms \ failed
           sessions == TickedSessions(end, storeUp)
           left     == TicksLeft(end, storeUp)
<1>1. /\ RoomsInv /\ open \in SUBSET Rooms /\ closing \in [Rooms -> 1 .. Grace]
      /\ \A q \in Rooms : session[q] \in SessionsOver(Conns, Users) /\ Orderly(session[q])
      /\ \A q \in Rooms \ open : session[q] = NewSession
      /\ Grace \in Nat /\ ~NewSession.over
  BY Nobody DEF ServerInv, RoomsInv, RoomsType, Orders, Sess, ClosedRooms, NewSession
<1>2. /\ gone \in SUBSET open /\ open' = open \ gone
      /\ \A q \in Rooms : /\ session'[q] = IF q \in gone THEN NewSession ELSE sessions[q]
                          /\ connections'[q] = IF q \in gone THEN {} ELSE connections[q]
                          /\ closing'[q] = IF q \in gone THEN Grace ELSE left[q]
  BY DEF Tick, CloseRooms, RoomsDue
<1>3. ASSUME NEW q \in open
      PROVE  /\ sessions[q] = TickSession(session[q], end[q], storeUp)
             /\ Seated(sessions[q]) = Seated(session[q]) /\ Seated(session[q]) # {}
             /\ session[q].over => sessions[q].over
             /\ sessions[q].over => sessions[q].result # "none"
             /\ TableOf(sessions[q], connections[q]) \in Promise!After(TableOf(session[q], connections[q]))
  <2> DEFINE s == session[q]
             e == end[q]
             t == TickSession(s, e, storeUp)
             here == connections[q]
  <2>1. sessions[q] = t
    BY <1>1 DEF TickedSessions
  <2>2. /\ s \in SessionsOver(Conns, Users) /\ Orderly(s) /\ Seated(s) # {}
        /\ e \in Sides \cup {"none"}
    BY <1>1 DEF Tidy, Occupied, Winners
  <2> HIDE DEF s, e, here
  <2>3. Seated(t) = Seated(s) /\ (~t.over => ~s.over)
    BY <2>2, TickSeated, ZenonT(60)
  <2>4. t.over => t.result # "none"
    <3>1. \/ t.result = s.result /\ t.rated = s.rated /\ t.over = s.over
          \/ t.result # "none"
      BY <2>2, TickEnds
    <3>2. s.over => s.result # "none"
      BY <1>1 DEF Tidy, Decided, s
    <3> QED BY <3>1, <3>2
  <2>5. TableOf(t, here) \in Promise!After(TableOf(s, here))
    BY <2>2, RoundAtTable
  <2> QED BY <2>1, <2>2, <2>3, <2>4, <2>5 DEF s, e, here
<1>4. \A q \in Rooms \ open : sessions[q] = session[q] /\ left[q] = closing[q]
  BY DEF TickedSessions, TicksLeft, Finished
<1>5. \A q \in open : \/ left[q] = closing[q]
                      \/ sessions[q].over
  BY <1>1, <1>3 DEF TicksLeft, Finished
<1>6. \A q \in gone : /\ session[q].over /\ session[q].result # "none"
                      /\ sessions[q].over
  <2> TAKE q \in gone
  <2>1. q \in open /\ q \in Rooms /\ closing[q] = 1
    BY <1>1, <1>2 DEF RoomsDue
  <2>2. session[q].over /\ session[q].result # "none"
    BY <2>1 DEF Tidy, Timed, Decided
  <2> QED BY <1>3, <2>1, <2>2
<1> HIDE DEF rooms, gone, sessions, left
<1>7. ASSUME NEW q \in Rooms PROVE TableNow'[q] \in Promise!After(TableNow[q])
  <2>1. CASE q \in gone
    <3>1. TableNow'[q] = Promise!Cleared
      BY <1>2, <2>1, TablesNow, ClearedTable
    <3>2. TableNow[q].result # "none"
      BY <1>6, <2>1, TablesNow, TableFields
    <3> QED BY <3>1, <3>2 DEF Promise!After, Promise!MayClear
  <2>2. CASE q \in open \ gone
    <3>1. session'[q] = sessions[q] /\ connections'[q] = connections[q]
      BY <1>2, <2>2
    <3> QED BY <1>3, <2>2, <3>1, TablesNow
  <2>3. CASE q \notin open
    <3>1. session'[q] = session[q] /\ connections'[q] = connections[q]
      BY <1>2, <1>4, <2>3
    <3> QED BY <3>1, TablesNow DEF Promise!After
  <2> QED BY <2>1, <2>2, <2>3
<1>8. Promise!Proceed
  BY <1>7, TablesNow DEF Promise!Proceed
<1>9. Occupied'
  BY <1>1, <1>2, <1>3 DEF Occupied
<1>10. Timed'
  <2> SUFFICES ASSUME NEW q \in Rooms, closing'[q] < Grace PROVE session'[q].over
    BY DEF Timed
  <2>1. q \notin gone /\ session'[q] = sessions[q] /\ closing'[q] = left[q]
    BY <1>1, <1>2
  <2>2. CASE q \in open
    <3>1. left[q] = closing[q] => session[q].over
      BY <2>1 DEF Tidy, Timed
    <3> QED BY <1>3, <1>5, <2>1, <2>2, <3>1
  <2>3. CASE q \notin open
    <3>1. closing[q] < Grace /\ sessions[q] = session[q]
      BY <1>4, <2>1, <2>3
    <3> QED BY <1>1, <2>1, <2>3, <3>1 DEF Tidy, Timed
  <2> QED BY <2>2, <2>3
<1>11. Decided'
  <2> SUFFICES ASSUME NEW q \in Rooms, session'[q].over PROVE session'[q].result # "none"
    BY DEF Decided
  <2>1. q \notin gone /\ session'[q] = sessions[q]
    BY <1>1, <1>2
  <2>2. CASE q \in open
    BY <1>3, <2>1, <2>2
  <2>3. CASE q \notin open
    BY <1>1, <1>4, <2>1, <2>3
  <2> QED BY <2>2, <2>3
<1> QED BY <1>8, <1>9, <1>10, <1>11 DEF Tidy, TableStep, Promise!Next

LEMMA LoopTables ==
    ASSUME Grace > 1, ServerInv, Tidy,
           ServerLoop \/ ServerLoopWithoutStore \/ ServerLoopWithoutDirectory
    PROVE  Tidy' /\ TableStep
<1>1. CASE ServerLoop
  BY <1>1, TickTables DEF ServerLoop
<1>2. CASE ServerLoopWithoutStore
  BY <1>2, TickTables DEF ServerLoopWithoutStore
<1>3. CASE ServerLoopWithoutDirectory
  BY <1>3, TickTables DEF ServerLoopWithoutDirectory
<1> QED BY <1>1, <1>2, <1>3

LEMMA EmptyTables == Empty => Tidy /\ TableNow = [r \in Rooms |-> Promise!Cleared]
<1> SUFFICES ASSUME Empty PROVE Tidy /\ TableNow = [r \in Rooms |-> Promise!Cleared]
  OBVIOUS
<1>1. /\ open = {} /\ ~NewSession.over
      /\ \A q \in Rooms : session[q] = NewSession /\ connections[q] = {} /\ closing[q] = Grace
  BY DEF Empty, NewSession
<1>2. Occupied
  BY <1>1 DEF Occupied
<1>3. Timed
  BY <1>1, Nobody DEF Timed
<1>4. Decided
  BY <1>1 DEF Decided
<1>5. TableNow = [r \in Rooms |-> Promise!Cleared]
  BY <1>1, ClearedTable DEF TableNow
<1> QED BY <1>2, <1>3, <1>4, <1>5 DEF Tidy

LEMMA CrashTables ==
    ASSUME Crash
    PROVE  Tidy' /\ TableStep
<1>1. Empty'
  BY DEF Crash, Empty
<1>2. (Empty => Tidy /\ TableNow = [r \in Rooms |-> Promise!Cleared])'
  BY EmptyTables, PTL
<1>3. Tidy' /\ TableNow' = [r \in Rooms |-> Promise!Cleared]
  BY <1>1, <1>2
<1>4. Promise!BreakDown
  BY <1>3 DEF Crash, Promise!BreakDown
<1> QED BY <1>3, <1>4 DEF TableStep, Promise!Next

LEMMA NextTables ==
    ASSUME Grace > 1, ServerInv, Tidy, [Next]_vars
    PROVE  Tidy' /\ TableStep
<1>1. ASSUME NEW c \in Conns, NEW u \in Users, Login(c, u) PROVE Tidy' /\ TableStep
  BY <1>1, SameTables DEF Login, localVars
<1>2. ASSUME NEW c \in Conns, TryReconnect(c) PROVE Tidy' /\ TableStep
  BY <1>2, ReconnectTables
<1>3. ASSUME NEW c \in Conns, StartSearch(c) PROVE Tidy' /\ TableStep
  BY <1>3, SameTables DEF StartSearch, localVars
<1>4. ASSUME NEW c \in Conns, MatchSeeker(c) PROVE Tidy' /\ TableStep
  BY <1>4, MatchSeekerTables
<1>5. ASSUME NEW c \in Conns, CreateRoom(c) PROVE Tidy' /\ TableStep
  BY <1>5, CreateRoomTables
<1>6. ASSUME NEW c \in Conns, JoinRoom(c) PROVE Tidy' /\ TableStep
  BY <1>6, JoinRoomTables
<1>7. ASSUME NEW c \in Conns, Drop(c) \/ DropWithoutDirectory(c) PROVE Tidy' /\ TableStep
  <2>1. state[c] \in Active /\ (RemoveParticipant(c, TRUE) \/ RemoveParticipant(c, FALSE))
    BY <1>7 DEF Drop, DropWithoutDirectory, Active
  <2> QED BY <2>1, LeaveTables
<1>8. ASSUME NEW c \in Conns, MatchWithoutDirectory(c) PROVE Tidy' /\ TableStep
  BY <1>8, SameTables DEF MatchWithoutDirectory, roomVars, localVars
<1>9. CASE UNCHANGED vars
  BY <1>9, SameTables DEF vars, roomVars, localVars
<1>10. ASSUME NEW c \in Conns, RejectMessage(c) PROVE Tidy' /\ TableStep
  BY <1>9, <1>10 DEF RejectMessage
<1> QED BY <1>1, <1>2, <1>3, <1>4, <1>5, <1>6, <1>7, <1>8, <1>9, <1>10, LoopTables, CrashTables
        DEF Next

\* The server keeps its promise to the people at its tables: every execution of it, with any
\* number of connections, usernames and rooms and whatever fails, is one of Tables.  (A grace
\* of one tick would close a room in the round in which its game ends, before the end can be
\* seen; constants.py has ten seconds of 16 ms.)
THEOREM TheServerKeepsItsPromise ==
    ASSUME Grace > 1
    PROVE  Spec => KeepsPromise
<1>1. Init => ServerInv /\ Tidy /\ Promise!Init
  <2>1. ASSUME Init PROVE Empty
    <3>1. state \in [Conns -> {"CONNECTED", "DISCONNECTED"}]
      BY <2>1 DEF Init
    <3> QED BY <2>1, <3>1 DEF Init, Empty
  <2> QED BY <2>1, InitLawful, EmptyTables DEF Promise!Init
<1>2. ServerInv /\ Tidy /\ [Next]_vars => ServerInv' /\ Tidy' /\ [Promise!Next]_TableNow
  BY NextLawful, NextTables DEF Lawful, TableStep
<1> QED BY <1>1, <1>2, PTL DEF Spec, KeepsPromise, Promise!Spec
=============================================================================
