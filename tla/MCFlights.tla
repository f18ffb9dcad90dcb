------------------------------ MODULE MCFlights ------------------------------
(***************************************************************************)
(* Two columns with a black pawn that may take a double step, capture on   *)
(* the diagonal and promote, against a white king and a rook that meet it  *)
(* head on, follow each other and land on each other.  Ids follow          *)
(* "bP@..." < "wK@..." < "wR@...".                                         *)
(***************************************************************************)
EXTENDS EngineFates

MCPieces    == 1 .. 3
MCColor     == <<"b", "w", "w">>
MCStartCell == <<<<1, 0>>, <<2, 1>>, <<3, 1>>>>
MCStartKind == <<"P", "K", "R">>
MCTicks     == {1}
=============================================================================
