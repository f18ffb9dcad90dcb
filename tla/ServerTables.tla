----------------------------- MODULE ServerTables -----------------------------
(***************************************************************************)
(* GameServer implements Tables: a table is an open room, its seats are    *)
(* those of the session, and a player is away while the connection of the  *)
(* seat is not among the room's.                                           *)
(***************************************************************************)
EXTENDS GameServer

\* The table of a session, with the connections that are present.
TableOf(s, present) ==
    LET seats == {s.seats[i] : i \in DOMAIN s.seats}
    IN [seats  |-> {[role |-> x.role, user |-> x.user] : x \in seats},
        away   |-> {x.role : x \in {y \in seats : y.role \in Sides /\ y.conn \notin present}},
        result |-> s.result,
        rated  |-> s.rated]

TableNow == [r \in Rooms |-> TableOf(session[r], connections[r])]

Promise == INSTANCE Tables WITH table <- TableNow

\* Whatever connections do, in whichever order, and whatever fails, every step of the
\* server is one that its promise to the players allows: nobody sits at two tables, a seat
\* is lost only with its table, a result is never changed nor rated twice, and the room of
\* a running game is not closed while both players are connected to it.
KeepsPromise == Promise!Spec
=============================================================================
