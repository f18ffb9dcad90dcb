------------------------------- MODULE MCTicks -------------------------------
(***************************************************************************)
(* Two rows with a rook of each colour and a king, a wait of up to four   *)
(* units against shorter ones.                                             *)
(***************************************************************************)
EXTENDS TickGranularity

MCPieces    == 1 .. 3
MCColor     == <<"b", "w", "w">>
MCStartCell == <<<<0, 2>>, <<1, 1>>, <<0, 0>>>>
MCStartKind == <<"R", "K", "R">>
MCTicks     == 1 .. 4
=============================================================================
