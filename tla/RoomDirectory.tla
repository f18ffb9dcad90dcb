---------------------------- MODULE RoomDirectory ----------------------------
(***************************************************************************)
(* server/room_directory.py: the keys in Redis that say which rooms exist, *)
(* which room a join code opens and where a username is seated.  Each Lua  *)
(* script is one atomic step.  A room id stands for its join code as well: *)
(* both are drawn at random and never drawn twice.                         *)
(***************************************************************************)
EXTENDS Integers

CONSTANTS
    Rooms,          \* room ids
    Users,          \* usernames
    NoRoom

\* None is not a room id.
ASSUME NoRoomAssumption == NoRoom \notin Rooms

VARIABLES
    roomKeys,       \* the rooms with a key directory:room
    joinKeys,       \* the rooms with a key directory:join
    userKey         \* directory:user: the room a username is seated in, or NoRoom

directoryVars == <<roomKeys, joinKeys, userKey>>

\* What the script of reserve_new_room checks of the usernames.
\* Mutant: the script asks about the identifiers only.
UsersNotAsked(users) == TRUE

UsersFree(users) == \A u \in users : userKey[u] = NoRoom

\* An id nobody has drawn: nothing refers to it.
Unused(r) == r \notin roomKeys \cup joinKeys /\ \A u \in Users : userKey[u] # r

ReserveNewRoom(r, users, withCode) ==
    /\ Unused(r) /\ UsersFree(users)
    /\ roomKeys' = roomKeys \cup {r}
    /\ joinKeys' = IF withCode THEN joinKeys \cup {r} ELSE joinKeys
    /\ userKey' = [u \in Users |-> IF u \in users THEN r ELSE userKey[u]]

\* The script of reserve_join: the code leads to a room that still has its key.
JoinCodeValid(r) == r \in joinKeys \cap roomKeys

ReserveJoin(r, u) ==
    /\ JoinCodeValid(r) /\ UsersFree({u})
    /\ userKey' = [userKey EXCEPT ![u] = r]
    /\ UNCHANGED <<roomKeys, joinKeys>>

\* close_room for every room of a set: users[r] are the usernames it was given, codes the
\* rooms whose join code it was given.
\* Mutant: the keys of the usernames are not deleted.
DeleteRoomsOnly(rooms, users, codes) ==
    /\ roomKeys' = roomKeys \ rooms
    /\ joinKeys' = joinKeys \ (rooms \cap codes)
    /\ UNCHANGED userKey

DeleteRooms(rooms, users, codes) ==
    /\ roomKeys' = roomKeys \ rooms
    /\ joinKeys' = joinKeys \ (rooms \cap codes)
    /\ userKey' = [u \in Users |-> IF \E r \in rooms : u \in users[r] THEN NoRoom ELSE userKey[u]]
=============================================================================
