------------------------------ MODULE GameRooms ------------------------------
(***************************************************************************)
(* server/rooms.py, the GameRoomRegistry: which rooms are open in this     *)
(* process, who is in them, and the fields of a Participant the registry   *)
(* writes.  The operators are the parts GameServer puts its actions        *)
(* together from: each gives the next value of every variable of the       *)
(* registry and of the directory.                                          *)
(***************************************************************************)
EXTENDS GameSession, RoomDirectory

CONSTANTS
    Conns,          \* connections; each carries one Participant for its whole life
    NoUser,         \* no login yet, or not any more
    Grace           \* ROOM_CLOSE_GRACE_SECONDS, in ticks

ASSUME GraceAssumption == Grace \in Nat \ {0}

\* None is not a username.
ASSUME NoUserAssumption == NoUser \notin Users

VARIABLES
    open,           \* the rooms with an entry in _sessions_by_room_id
    session,        \* that entry, NewSession for a room that is not open
    connections,    \* _connections_by_room_id
    participants,   \* _participants_by_room_id: the connections it has an entry for
    usernames,      \* _usernames_by_room_id
    codes,          \* the rooms with an entry in _join_codes_by_room_id
    closing,        \* _closing_after_ms: the ticks left to a finished room
    halfClosed,     \* open rooms that lost participants and usernames to a _close_room that raised
    state,          \* Participant.state
    roomOf,         \* Participant.room_id
    user            \* Participant.username

localVars == <<open, session, connections, participants, usernames, codes, closing,
               halfClosed>>
participantVars == <<state, roomOf, user>>
roomVars == <<directoryVars, localVars, participantVars>>

-----------------------------------------------------------------------------
\* _place_participant_in_room for every connection of cs, in order, given the session the
\* room has now.
PlaceAll(r, cs, s) ==
    LET placed == IF Len(cs) = 1 THEN Place(s, cs[1], user[cs[1]])
                  ELSE Place(Place(s, cs[1], user[cs[1]]), cs[2], user[cs[2]])
        group  == {cs[i] : i \in DOMAIN cs}
    IN /\ session' = [session EXCEPT ![r] = placed]
       /\ connections' = [connections EXCEPT ![r] = @ \cup group]
       /\ participants' = [participants EXCEPT ![r] = @ \cup group]
       /\ usernames' = [usernames EXCEPT ![r] = @ \cup {user[c] : c \in group}]
       /\ state' = [c \in Conns |-> IF c \in group THEN "IN_ROOM" ELSE state[c]]
       /\ roomOf' = [c \in Conns |-> IF c \in group THEN r ELSE roomOf[c]]
       /\ UNCHANGED <<closing, halfClosed, user>>

\* _reserve_and_build_room and the placement of its first one or two participants.  The id
\* is one nothing refers to, a stale Participant.room_id included.
OpenRoom(r, cs, withCode) ==
    /\ \A c \in Conns : roomOf[c] # r
    /\ ReserveNewRoom(r, {user[cs[i]] : i \in DOMAIN cs}, withCode)
    /\ open' = open \cup {r}
    /\ codes' = IF withCode THEN codes \cup {r} ELSE codes
    /\ PlaceAll(r, cs, NewSession)

\* join_private_room when the directory resolves the code to a room of this process.
JoinRoomOf(r, c) ==
    /\ r \in open \ halfClosed
    /\ ReserveJoin(r, user[c])
    /\ PlaceAll(r, <<c>>, session[r])
    /\ UNCHANGED <<open, codes>>

\* The same in a half-closed room: _place_participant_in_room raises after it has given a
\* seat and added the connection, and the participant stays where it was.
JoinHalfClosed(r, c) ==
    /\ r \in halfClosed
    /\ ReserveJoin(r, user[c])
    /\ session' = [session EXCEPT ![r] = Place(@, c, user[c])]
    /\ connections' = [connections EXCEPT ![r] = @ \cup {c}]
    /\ UNCHANGED <<open, participants, usernames, codes, closing, halfClosed, participantVars>>

\* try_reconnect: a room where the username's seat is counting down.
RoomToReconnect(u) == {r \in open : CanReconnect(session[r], u)}

\* Mutant: the connection is not added to the room's.
ReconnectUnheard(r, c) ==
    /\ session' = [session EXCEPT ![r] = Reconnect(@, c, user[c])]
    /\ participants' = [participants EXCEPT ![r] = {d \in @ : user[d] # user[c]} \cup {c}]
    /\ state' = [state EXCEPT ![c] = "IN_ROOM"]
    /\ roomOf' = [roomOf EXCEPT ![c] = r]
    /\ UNCHANGED <<directoryVars, open, connections, usernames, codes, closing, halfClosed, user>>

ReconnectTo(r, c) ==
    /\ session' = [session EXCEPT ![r] = Reconnect(@, c, user[c])]
    /\ connections' = [connections EXCEPT ![r] = @ \cup {c}]
    /\ participants' = [participants EXCEPT ![r] = {d \in @ : user[d] # user[c]} \cup {c}]
    /\ state' = [state EXCEPT ![c] = "IN_ROOM"]
    /\ roomOf' = [roomOf EXCEPT ![c] = r]
    /\ UNCHANGED <<directoryVars, open, usernames, codes, closing, halfClosed, user>>

\* The same in a half-closed room: _replace_participant_in_room raises, and the connection
\* ends without the room being told.
ReconnectToHalfClosed(r, c) ==
    /\ session' = [session EXCEPT ![r] = Reconnect(@, c, user[c])]
    /\ connections' = [connections EXCEPT ![r] = @ \cup {c}]
    /\ state' = [state EXCEPT ![c] = "DISCONNECTED"]
    /\ user' = [user EXCEPT ![c] = NoUser]
    /\ UNCHANGED <<directoryVars, open, participants, usernames, codes, closing, halfClosed, roomOf>>

-----------------------------------------------------------------------------
\* _close_room of every room of a set; conns, sessions and left are what the other rooms go
\* on with.  The participants still listed go back to the lobby: BackToLobby.  Where the
\* directory fails, _close_room raises in the middle: the room stays, half closed.
CloseRooms(rooms, failed, conns, sessions, left) ==
    LET gone == rooms \ failed
    IN /\ DeleteRooms(gone, usernames, codes)
       /\ open' = open \ gone
       /\ session' = [r \in Rooms |-> IF r \in gone THEN NewSession ELSE sessions[r]]
       /\ connections' = [r \in Rooms |-> IF r \in gone THEN {} ELSE conns[r]]
       /\ participants' = [r \in Rooms |-> IF r \in rooms THEN {} ELSE participants[r]]
       /\ usernames' = [r \in Rooms |-> IF r \in rooms THEN {} ELSE usernames[r]]
       /\ codes' = codes \ rooms
       /\ closing' = [r \in Rooms |-> IF r \in gone THEN Grace ELSE left[r]]
       /\ halfClosed' = (halfClosed \ gone) \cup failed

BackToLobby(rooms) == UNION {participants[r] : r \in rooms}

LastToLeave(c) == roomOf[c] \in open /\ connections[roomOf[c]] \ {c} = {}

\* remove_participant: the last one to leave closes the room, a player who leaves others
\* behind starts its countdown.  The Participant object is not used any more.
RemoveParticipant(c, directoryUp) ==
    LET r == roomOf[c]
    IN /\ state' = [state EXCEPT ![c] = "DISCONNECTED"]
       /\ roomOf' = [roomOf EXCEPT ![c] = NoRoom]
       /\ user' = [user EXCEPT ![c] = NoUser]
       /\ \/ /\ r \notin open
             /\ UNCHANGED <<directoryVars, localVars>>
          \/ /\ r \in open
             /\ connections[r] \ {c} # {}
             /\ connections' = [connections EXCEPT ![r] = @ \ {c}]
             /\ participants' = [participants EXCEPT ![r] = @ \ {c}]
             /\ session' = [session EXCEPT ![r] = BeginCountdown(@, c)]
             /\ UNCHANGED <<directoryVars, open, usernames, codes, closing, halfClosed>>
          \/ /\ LastToLeave(c)
             /\ CloseRooms({r}, IF directoryUp THEN {} ELSE {r}, [connections EXCEPT ![r] = {}],
                           session, closing)

-----------------------------------------------------------------------------
\* tick: every open room ticks.  end[r] is what its engine announces; a room whose session
\* raised is skipped.  A room whose game is over closes when its grace has run out.
\* Mutant: only a tick that announces the end counts.
FinishedNow(r, end, storeUp) ==
    r \in open /\ ~TickRaises(session[r], end[r], storeUp) /\ end[r] # "none"

Finished(r, end, storeUp) ==
    /\ r \in open
    /\ ~TickRaises(session[r], end[r], storeUp)
    /\ TickSession(session[r], end[r], storeUp).over

RoomsDue(end, storeUp) == {r \in open : Finished(r, end, storeUp) /\ closing[r] = 1}

TickedSessions(end, storeUp) ==
    [r \in Rooms |-> IF r \in open THEN TickSession(session[r], end[r], storeUp) ELSE session[r]]

\* Mutant: the grace runs from the first tick of the room.
TicksLeftFromTheStart(end, storeUp) ==
    [r \in Rooms |-> IF r \in open /\ closing[r] > 1 THEN closing[r] - 1 ELSE closing[r]]

\* What a room is left when it does not close now; a failed close leaves the entry as it is.
TicksLeft(end, storeUp) ==
    [r \in Rooms |-> IF Finished(r, end, storeUp) /\ closing[r] > 1 THEN closing[r] - 1
                     ELSE closing[r]]
=============================================================================
