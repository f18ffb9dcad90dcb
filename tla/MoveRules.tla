------------------------------ MODULE MoveRules ------------------------------
(***************************************************************************)
(* The board geometry and the movement rules of the six piece kinds:       *)
(* model/board.py, model/position.py, realtime/motion.py (the path of a    *)
(* motion) and rules/piece_rules.py, rules/rule_engine.py.                 *)
(*                                                                         *)
(* A board is a function from positions to piece ids, NoPiece where there  *)
(* is none.  A position is <<row, col>>, row 0 at the top as in the source. *)
(* Board keeps its pieces in a dict keyed by position and nothing that     *)
(* handles a request asks Board.in_bounds, so positions beyond the edge    *)
(* are positions like any other; Cells are the ones on the board.          *)
(* Everything here is a pure operator; the state lives in RealTimeArbiter  *)
(* and GameEngine.                                                         *)
(***************************************************************************)
EXTENDS Integers

CONSTANTS
    Height, Width,   \* the size of the board
    Margin,          \* bound of the model: how far beyond the edge a request may name a position
    Pieces,          \* piece ids: naturals ordered as the source orders the id strings
    Color            \* Color[p] is "w" or "b"; a piece never changes colour

NoPiece == 0

ASSUME SizeAssumption  == Height \in Nat \ {0} /\ Width \in Nat \ {0}
ASSUME MarginAssumption == Margin \in Nat
ASSUME PieceAssumption == Pieces \subseteq Nat \ {0}
ASSUME ColorAssumption == Color \in [Pieces -> {"w", "b"}]

\* The positions on the board (Board.in_bounds), and all those considered.
Cells     == (0 .. Height - 1) \X (0 .. Width - 1)
Positions == (-Margin .. Height - 1 + Margin) \X (-Margin .. Width - 1 + Margin)

Kinds == {"K", "Q", "R", "B", "N", "P"}

Other(color) == IF color = "w" THEN "b" ELSE "w"

Boards == [Positions -> Pieces \cup {NoPiece}]

\* Board.remove_piece: the position that holds p becomes empty.
RemovePiece(board, p) ==
    [c \in Positions |-> IF board[c] = p THEN NoPiece ELSE board[c]]

OnBoard(board) == {board[c] : c \in Positions} \ {NoPiece}

-----------------------------------------------------------------------------
\* Geometry of a displacement from s to d.

Sign(n) == IF n > 0 THEN 1 ELSE IF n < 0 THEN -1 ELSE 0
Abs(n)  == IF n < 0 THEN -n ELSE n

DRow(s, d) == d[1] - s[1]
DCol(s, d) == d[2] - s[2]

\* max(|dr|, |dc|): the number of king steps, what a move's duration scales with.
Distance(s, d) ==
    IF Abs(DRow(s, d)) >= Abs(DCol(s, d)) THEN Abs(DRow(s, d)) ELSE Abs(DCol(s, d))

\* A row, a column or a diagonal: the shapes with cells in between.
OnLine(s, d) ==
    DRow(s, d) = 0 \/ DCol(s, d) = 0 \/ Abs(DRow(s, d)) = Abs(DCol(s, d))

\* The number of cells of the path: none for a move to its own source, one (the
\* destination) for a knight's move, one per king step along a line.
PathLength(s, d) ==
    IF s = d THEN 0 ELSE IF OnLine(s, d) THEN Distance(s, d) ELSE 1

\* The i-th cell of the path; the 0-th is the source.
PathCell(s, d, i) ==
    IF ~OnLine(s, d)
    THEN IF i = 0 THEN s ELSE d
    ELSE <<s[1] + Sign(DRow(s, d)) * i, s[2] + Sign(DCol(s, d)) * i>>

-----------------------------------------------------------------------------
\* rules/piece_rules.py: is_legal of each strategy.

PathIsClear(board, s, d) ==
    \A i \in 1 .. (Distance(s, d) - 1) : board[PathCell(s, d, i)] = NoPiece

Straight(s, d) == (DRow(s, d) = 0) # (DCol(s, d) = 0)
Diagonal(s, d) == s # d /\ Abs(DRow(s, d)) = Abs(DCol(s, d))

PawnDirection(color) == IF color = "w" THEN -1 ELSE 1

\* The rank a pawn starts from: one step in front of its own back rank.
PawnStartRow(color) == IF color = "w" THEN Height - 2 ELSE 1

PawnLegal(board, color, s, d) ==
    LET dir      == PawnDirection(color)
        occupied == board[d] # NoPiece
    IN \/ DCol(s, d) = 0 /\ DRow(s, d) = dir /\ ~occupied
       \/ /\ DCol(s, d) = 0 /\ DRow(s, d) = 2 * dir /\ ~occupied
          /\ s[1] = PawnStartRow(color)
          /\ board[<<s[1] + dir, s[2]>>] = NoPiece
       \/ Abs(DCol(s, d)) = 1 /\ DRow(s, d) = dir /\ occupied

IsLegal(board, kind, color, s, d) ==
    CASE kind = "K" -> Distance(s, d) = 1
      [] kind = "R" -> Straight(s, d) /\ PathIsClear(board, s, d)
      [] kind = "B" -> Diagonal(s, d) /\ PathIsClear(board, s, d)
      [] kind = "Q" -> (Straight(s, d) \/ Diagonal(s, d)) /\ PathIsClear(board, s, d)
      [] kind = "N" -> {Abs(DRow(s, d)), Abs(DCol(s, d))} = {1, 2}
      [] OTHER      -> PawnLegal(board, color, s, d)

\* RuleEngine.validate_move for the piece p that stands on s.
ValidMove(board, kind, p, s, d) ==
    /\ board[d] # NoPiece => Color[board[d]] # Color[p]
    /\ IsLegal(board, kind, Color[p], s, d)

\* Mutant of Promote: one last rank for both colours.
PromoteOnTopRowOnly(kind, color, row) ==
    IF kind = "P" /\ row = 0 THEN "Q" ELSE kind

\* LastRankPromotion.promote: the kind a piece has after landing on row.
Promote(kind, color, row) ==
    IF kind = "P" /\ row = (IF color = "w" THEN 0 ELSE Height - 1) THEN "Q" ELSE kind
=============================================================================
