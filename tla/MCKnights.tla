----------------------------- MODULE MCKnights -----------------------------
(***************************************************************************)
(* A corner of the board with a knight, whose flight has no cell in between *)
(* and takes as long as two cells, a king, a bishop and a rook of its own   *)
(* colour.  Ids follow "wB@..." < "wK@..." < "wN@..." < "wR@...".           *)
(***************************************************************************)
EXTENDS GameEngine

MCPieces    == 1 .. 4
MCColor     == [p \in 1 .. 4 |-> "w"]
MCStartCell == <<<<1, 2>>, <<0, 1>>, <<0, 0>>, <<2, 2>>>>
MCStartKind == <<"B", "K", "N", "R">>
MCTicks     == {1}
=============================================================================
