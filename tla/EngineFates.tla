----------------------------- MODULE EngineFates -----------------------------
(***************************************************************************)
(* GameEngine implements PieceFates: the board and the list of motions say *)
(* where a piece is, the published losses are what is told.                *)
(***************************************************************************)
EXTENDS GameEngine

Fate ==
    [p \in Pieces |-> IF motion[p] # Grounded THEN "flying"
                      ELSE IF \E c \in Positions : board[c] = p THEN "standing" ELSE "gone"]

Fates == INSTANCE PieceFates WITH fate <- Fate, told <- lost, over <- gameOver

\* Every step of the engine, seen piece by piece, is one that PieceFates allows: no piece
\* comes back or goes without having met another, no loss is told before it happened, twice
\* or after the end, and a game ends exactly by a king's loss or a resignation, also when
\* the king was a mover that a jump intercepted or fell in the middle of a batch.
KeepsFates == Fates!Spec
=============================================================================
