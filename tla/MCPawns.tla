------------------------------ MODULE MCPawns ------------------------------
(***************************************************************************)
(* Pawns of both colours with a double step, captures on the diagonal and  *)
(* promotion on either last rank, and a knight, whose flight has no cells  *)
(* in between.  Ids follow "bP@..." < "wN@..." < "wP@...".                 *)
(***************************************************************************)
EXTENDS GameEngine

MCPieces    == 1 .. 3
MCColor     == <<"b", "w", "w">>
MCStartCell == <<<<1, 0>>, <<2, 2>>, <<2, 1>>>>
MCStartKind == <<"P", "N", "P">>
MCTicks     == {1}
=============================================================================
