------------------------------ MODULE MCServer ------------------------------
(***************************************************************************)
(* Two or three usernames on three or four connections, and one or two     *)
(* rooms.  In some runs the usernames have the same rating, in others they *)
(* are too far apart for a match and meet in private rooms only.           *)
(***************************************************************************)
EXTENDS ServerTables, TLC

CONSTANTS c1, c2, c3, c4, ann, bob, cyd, r1, r2

MCConns   == {c1, c2, c3}
MCConns4  == {c1, c2, c3, c4}
MCUsers   == {ann, bob}
MCUsers3  == {ann, bob, cyd}
MCRoom    == {r1}
MCRooms   == {r1, r2}
SameRating    == [u \in Users |-> 0]
RatingsApart  == [u \in Users |-> IF u = bob THEN 1 ELSE 0]
Symmetry  == Permutations(MCConns4) \cup Permutations(MCUsers3) \cup Permutations(MCRooms)
Symmetry3 == Permutations(MCConns) \cup Permutations(MCUsers) \cup Permutations(MCRooms)
=============================================================================
