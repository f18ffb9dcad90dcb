------------------------------- MODULE MCPlayed -------------------------------
(***************************************************************************)
(* A king and a rook against a rook, all in the top row of a board of      *)
(* three columns.  Ids follow "bR@..." < "wK@..." < "wR@...".              *)
(***************************************************************************)
EXTENDS PlayedGame

MCPieces    == 1 .. 3
MCColor     == <<"b", "w", "w">>
MCStartCell == <<<<0, 2>>, <<0, 0>>, <<0, 1>>>>
MCStartKind == <<"R", "K", "R">>
MCTicks     == {1}
=============================================================================
