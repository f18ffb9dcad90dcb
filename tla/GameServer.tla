------------------------------ MODULE GameServer ------------------------------
(***************************************************************************)
(* The server process: connections that log in, reconnect, search, create  *)
(* and join rooms and drop (connection_lifecycle.py, connection_handler.py,*)
(* client_message_router.py), and the one loop that ticks the matchmaker   *)
(* and every room (ws_server.py).  All of it runs on one event loop: what  *)
(* the code does between two awaits is one step here.                      *)
(***************************************************************************)
EXTENDS GameRooms

CONSTANTS
    Rating,         \* Rating[u]: what the rating store says of u at login
    Tolerance, SearchTime,
    Faults,         \* the faults the environment may have: "rating", "directory", "crash"
    MaxFaults       \* bound of the model: how many faults happen

ASSUME SearchAssumption == Tolerance \in Nat /\ SearchTime \in Nat

ASSUME FaultAssumption ==
    /\ Rating \in [Users -> Int]
    /\ Faults \subseteq {"rating", "directory", "crash"}
    /\ MaxFaults \in Nat

VARIABLES
    entries,        \* the matchmaking queue
    entering,       \* connections in _enter_lobby: logged in, try_reconnect still to come
    faults          \* the faults that may still happen

INSTANCE Matchmaker

vars == <<roomVars, entries, entering, faults>>

Winners == Sides \cup {"none"}

Init ==
    /\ roomKeys = {} /\ joinKeys = {} /\ userKey = [u \in Users |-> NoRoom]
    /\ open = {}
    /\ session = [r \in Rooms |-> NewSession]
    /\ connections = [r \in Rooms |-> {}]
    /\ participants = [r \in Rooms |-> {}]
    /\ usernames = [r \in Rooms |-> {}]
    /\ codes = {}
    /\ closing = [r \in Rooms |-> Grace]
    /\ halfClosed = {}
    /\ state = [c \in Conns |-> "CONNECTED"]
    /\ roomOf = [c \in Conns |-> NoRoom]
    /\ user = [c \in Conns |-> NoUser]
    /\ entries = <<>>
    /\ entering = {}
    /\ faults = MaxFaults

-----------------------------------------------------------------------------
\* A connection.

\* _authenticate up to the first await of _enter_lobby.
Login(c, u) ==
    /\ state[c] = "CONNECTED"
    /\ state' = [state EXCEPT ![c] = "LOBBY"]
    /\ user' = [user EXCEPT ![c] = u]
    /\ entering' = entering \cup {c}
    /\ UNCHANGED <<directoryVars, localVars, roomOf, entries, faults>>

\* _attempt_reconnect; the receive loop starts afterwards.
TryReconnect(c) ==
    /\ c \in entering
    /\ entering' = entering \ {c}
    /\ \/ \E r \in RoomToReconnect(user[c]) \ halfClosed : ReconnectTo(r, c)
       \/ \E r \in RoomToReconnect(user[c]) \cap halfClosed : ReconnectToHalfClosed(r, c)
       \/ RoomToReconnect(user[c]) = {} /\ UNCHANGED roomVars
    /\ UNCHANGED <<entries, faults>>

\* A message of c gets to its handler and is not rejected for c's state.
MayRoute(c) == state[c] \in {"LOBBY", "SEARCHING"} /\ c \notin entering

\* _route_play_intent without a match.
StartSearch(c) ==
    /\ MayRoute(c) /\ ~InQueue(c)
    /\ Compatible(Rating[user[c]]) = {}
    /\ Enqueue(c, Rating[user[c]])
    /\ state' = [state EXCEPT ![c] = "SEARCHING"]
    /\ UNCHANGED <<directoryVars, localVars, roomOf, user, entering, faults>>

\* _route_play_intent with a match, create_matched_room.  When the directory knows one of
\* the two usernames as seated, both are sent back to the lobby.
MatchSeeker(c) ==
    /\ MayRoute(c) /\ ~InQueue(c)
    /\ Compatible(Rating[user[c]]) # {}
    /\ LET opponent == entries[Earliest(Compatible(Rating[user[c]]))].conn
       IN /\ CancelSearch(opponent)
          /\ \/ \E r \in Rooms : OpenRoom(r, <<opponent, c>>, FALSE)
             \/ /\ ~UsersFree({user[opponent], user[c]})
                /\ state' = [state EXCEPT ![opponent] = "LOBBY", ![c] = "LOBBY"]
                /\ UNCHANGED <<directoryVars, localVars, roomOf, user>>
    /\ UNCHANGED <<entering, faults>>

CreateRoom(c) ==
    /\ MayRoute(c)
    /\ \E r \in Rooms : OpenRoom(r, <<c>>, TRUE)
    /\ UNCHANGED <<entries, entering, faults>>

JoinRoom(c) ==
    /\ MayRoute(c)
    /\ \E r \in Rooms : JoinRoomOf(r, c) \/ JoinHalfClosed(r, c)
    /\ UNCHANGED <<entries, entering, faults>>

\* A message that is rejected, a join code that leads nowhere, a room to create or to join
\* while the directory fails: nothing changes.
RejectMessage(c) ==
    /\ state[c] \in {"LOBBY", "SEARCHING", "IN_ROOM"} /\ c \notin entering
    /\ UNCHANGED vars

\* _handle_disconnect and on_disconnect, at any time after the login.
Drop(c) ==
    /\ state[c] \in {"LOBBY", "SEARCHING", "IN_ROOM"}
    /\ RemoveParticipant(c, TRUE)
    /\ CancelSearch(c)
    /\ entering' = entering \ {c}
    /\ UNCHANGED faults

-----------------------------------------------------------------------------
\* One round of _run_server_loop, in which the rooms of due close, but for those the directory
\* fails for.  The seekers that expired are sent back to the lobby last.
Tick(end, storeUp, failed) ==
    /\ failed \subseteq RoomsDue(end, storeUp)
    /\ UNCHANGED <<user, entering>>
    /\ TickQueue
    /\ \E due \in {RoomsDue(end, storeUp)}, lost \in {ExpiredSeekers} :
          /\ CloseRooms(due, failed, connections, TickedSessions(end, storeUp),
                        TicksLeft(end, storeUp))
          /\ state' = [c \in Conns |-> IF c \in lost \cup BackToLobby(due) THEN "LOBBY"
                                       ELSE state[c]]
          /\ roomOf' = [c \in Conns |-> IF c \in BackToLobby(due) THEN NoRoom ELSE roomOf[c]]

ServerLoop == UNCHANGED faults /\ \E end \in [open -> Winners] : Tick(end, TRUE, {})

\* The rating store fails where it is asked to write.
ServerLoopWithoutStore ==
    /\ "rating" \in Faults /\ faults > 0
    /\ faults' = faults - 1
    /\ \E end \in [open -> Winners] :
          /\ \E r \in open : TickRaises(session[r], end[r], FALSE)
          /\ Tick(end, FALSE, {})

\* The directory fails for one call.  A finished room does not close in this round.
ServerLoopWithoutDirectory ==
    /\ "directory" \in Faults /\ faults > 0
    /\ faults' = faults - 1
    /\ \E end \in [open -> Winners] : \E r \in open : Tick(end, TRUE, {r})

\* The room of the last one to leave does not close.
DropWithoutDirectory(c) ==
    /\ "directory" \in Faults /\ faults > 0
    /\ faults' = faults - 1
    /\ state[c] \in {"LOBBY", "SEARCHING", "IN_ROOM"} /\ LastToLeave(c)
    /\ RemoveParticipant(c, FALSE)
    /\ CancelSearch(c)
    /\ entering' = entering \ {c}

\* create_matched_room raises after the matchmaker has taken the opponent out of its queue:
\* nobody tells the opponent.
MatchWithoutDirectory(c) ==
    /\ "directory" \in Faults /\ faults > 0
    /\ faults' = faults - 1
    /\ MayRoute(c) /\ ~InQueue(c)
    /\ Compatible(Rating[user[c]]) # {}
    /\ CancelSearch(entries[Earliest(Compatible(Rating[user[c]]))].conn)
    /\ UNCHANGED <<roomVars, entering>>

\* The process dies and another one starts: only the directory survives.
Crash ==
    /\ "crash" \in Faults /\ faults > 0
    /\ faults' = faults - 1
    /\ open' = {}
    /\ session' = [r \in Rooms |-> NewSession]
    /\ connections' = [r \in Rooms |-> {}]
    /\ participants' = [r \in Rooms |-> {}]
    /\ usernames' = [r \in Rooms |-> {}]
    /\ codes' = {}
    /\ closing' = [r \in Rooms |-> Grace]
    /\ halfClosed' = {}
    /\ state' = [c \in Conns |-> IF state[c] = "CONNECTED" THEN "CONNECTED" ELSE "DISCONNECTED"]
    /\ roomOf' = [c \in Conns |-> NoRoom]
    /\ user' = [c \in Conns |-> NoUser]
    /\ entries' = <<>>
    /\ entering' = {}
    /\ UNCHANGED directoryVars

-----------------------------------------------------------------------------
Next ==
    \/ \E c \in Conns :
          \/ \E u \in Users : Login(c, u)
          \/ TryReconnect(c)
          \/ StartSearch(c) \/ MatchSeeker(c) \/ CreateRoom(c) \/ JoinRoom(c)
          \/ RejectMessage(c)
          \/ Drop(c) \/ DropWithoutDirectory(c) \/ MatchWithoutDirectory(c)
    \/ ServerLoop \/ ServerLoopWithoutStore \/ ServerLoopWithoutDirectory
    \/ Crash

Spec == Init /\ [][Next]_vars

\* The loop ticks for as long as the process lives.
LiveSpec == Spec /\ WF_vars(ServerLoop)

-----------------------------------------------------------------------------
(***************************************************************************)
(* Properties.                                                             *)
(***************************************************************************)

Seats == [conn : Conns, user : Users, role : Sides \cup {"spectator"}]

\* Every variable stays in the set of values the program gives it.
TypeOK ==
    /\ roomKeys \subseteq Rooms /\ joinKeys \subseteq Rooms
    /\ userKey \in [Users -> Rooms \cup {NoRoom}]
    /\ open \subseteq Rooms /\ codes \subseteq open /\ halfClosed \subseteq open
    /\ \A r \in Rooms :
          /\ session[r].seats \in Seq(Seats)
          /\ session[r].countdowns \in Seq([side : Sides, left : 1 .. Countdown])
          /\ session[r].over \in BOOLEAN
          /\ session[r].result \in Winners
          /\ session[r].rated \in Sides \cup {"no", "skipped"}
    /\ connections \in [Rooms -> SUBSET Conns]
    /\ participants \in [Rooms -> SUBSET Conns]
    /\ usernames \in [Rooms -> SUBSET Users]
    /\ closing \in [Rooms -> 1 .. Grace]
    /\ state \in [Conns -> {"CONNECTED", "LOBBY", "SEARCHING", "IN_ROOM", "DISCONNECTED"}]
    /\ roomOf \in [Conns -> Rooms \cup {NoRoom}]
    /\ user \in [Conns -> Users \cup {NoUser}]
    /\ entries \in Seq([conn : Conns, rating : Int, waited : 0 .. SearchTime])
    /\ entering \subseteq Conns
    /\ faults \in 0 .. MaxFaults

SeatedUsers(r) == {session[r].seats[i].user : i \in DOMAIN session[r].seats}

\* An open room and the connections in it know each other, through matches, joins, drops,
\* reconnects and closures: who thinks it is in the room gets the room's messages, and
\* nobody else does.  A failed directory disturbs no room but the one that it was to delete.
Membership ==
    \A r \in open \ halfClosed :
        /\ participants[r] \subseteq connections[r]
        /\ \A c \in Conns : c \in connections[r] <=> roomOf[c] = r

\* Every seat of an open room is backed by the directory, so that no username can take a
\* seat in a second room, also not after a crash or a failed delete left keys behind.
SeatsReserved == \A r \in open : r \in roomKeys /\ \A u \in SeatedUsers(r) : userKey[u] = r

\* In a running game exactly the players who are away have a countdown: nobody loses on
\* time while connected, nobody is away for free, whatever the order of drops, reconnects
\* and expiries.  (A half-closed room has nobody left to wait for.)
AbsentOnTheClock ==
    \A r \in open \ halfClosed : ~session[r].over =>
        \A i \in DOMAIN session[r].seats :
            LET seat == session[r].seats[i]
            IN seat.role \in Sides =>
                  (seat.conn \notin connections[r] <=> Counting(session[r], seat.role))

\* For as long as a room is open a side belongs to the username that got it first, through
\* any number of reconnects.
SeatKept ==
    [][\A r \in open \cap open' :
          \A i \in DOMAIN session[r].seats :
              session[r].seats[i].role \in Sides =>
                  \E j \in DOMAIN session'[r].seats :
                      /\ session'[r].seats[j].role = session[r].seats[i].role
                      /\ session'[r].seats[j].user = session[r].seats[i].user]_vars

\* The directory keeps a username from playing only while it has a seat.
NobodyLockedOut ==
    \A u \in Users : userKey[u] # NoRoom =>
        userKey[u] \in open /\ u \in SeatedUsers(userKey[u])

\* What the rating store was told is the result announced first, whatever the engine
\* announces later.
RatedForTheWinner ==
    \A r \in open : session[r].rated \in Sides => session[r].rated = session[r].result

\* When the room of a finished game between two players closes, the result has been
\* recorded, although the rating store may fail once.
FinishedGamesRated ==
    [][\A r \in open \ open' :
          session[r].over /\ Rateable(session[r]) => session[r].rated # "no"]_vars

\* Whoever has a seat is IN_ROOM: the router goes by the state alone.
SeatedMeansInRoom == \A r \in open : \A c \in connections[r] : state[c] = "IN_ROOM"

\* Nobody is left in a room that is closed.
NobodyStranded == \A c \in Conns : roomOf[c] # NoRoom => roomOf[c] \in open

\* Every search ends: with a match, a notice that there is none, or a dropped connection.
SearchEnds == \A c \in Conns : state[c] = "SEARCHING" ~> state[c] # "SEARCHING"

\* A finished room closes although nobody leaves it.
FinishedRoomCloses == \A r \in Rooms : (r \in open /\ session[r].over) ~> r \notin open

Absent(r, side) ==
    /\ r \in open /\ ~session[r].over
    /\ \E i \in DOMAIN session[r].seats :
          session[r].seats[i].role = side /\ session[r].seats[i].conn \notin connections[r]

\* A player who is away comes back or the game ends without it.
AbsenceEnds == \A r \in Rooms : \A side \in Sides : Absent(r, side) ~> ~Absent(r, side)
=============================================================================
