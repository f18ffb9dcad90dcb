------------------------------ MODULE Controller ------------------------------
(***************************************************************************)
(* input/controller.py: the clicks of a player on the board.  The first    *)
(* click picks a piece up, the next one puts it down, which is a request   *)
(* to move.  The controller has no game of its own: it asks a reader what  *)
(* stands where.  A view is what the reader answers:                       *)
(*   at[c]   the piece shown on c,                                         *)
(*   busy    the cells of pieces that jump,                                *)
(*   over    whether the game is over.                                     *)
(* input/board_mapper.py turns the pixels of a click into a cell, or into  *)
(* NoCell beside the board.                                                *)
(***************************************************************************)
EXTENDS MoveRules

VARIABLES
    selected,       \* _selected, NoCell for None
    picked          \* _selected_piece_id, NoPiece for None

selection == <<selected, picked>>

NoCell == <<>>

\* Mutant of Clickable: the pixels beside the board become positions as well.
ClickableBeside == Positions \cup {NoCell}

\* pixel_to_cell of any place in the window.
Clickable == Cells \cup {NoCell}

NothingSelected == selected = NoCell /\ picked = NoPiece

Views ==
    [at : Boards, busy : SUBSET Positions, over : BOOLEAN]

-----------------------------------------------------------------------------
\* Mutant of Clear: the id of the piece is kept.
ClearCellOnly ==
    /\ selected' = NoCell
    /\ UNCHANGED picked

\* _clear_selection.
Clear ==
    /\ selected' = NoCell
    /\ picked' = NoPiece

PickUp(c, view) ==
    /\ selected' = c
    /\ picked' = view.at[c]

\* Mutant of StillThere: any piece on the selected cell will do.
SomethingThere(view) == view.at[selected] # NoPiece /\ selected \notin view.busy

\* _selection_is_valid: the piece that was picked up is still on its cell, not jumping.
StillThere(view) == view.at[selected] = picked /\ selected \notin view.busy

\* A piece of the picked one's colour is shown on c.
Friendly(c, view) == view.at[c] # NoPiece /\ Color[view.at[c]] = Color[view.at[selected]]

-----------------------------------------------------------------------------
\* click on c, as far as it asks for nothing.

\* The game is over or the click is beside the board.
IgnoreClick(c, view) ==
    /\ view.over \/ c = NoCell
    /\ UNCHANGED selection

\* _select, with nothing selected.
Select(c, view) ==
    /\ ~view.over /\ c # NoCell /\ selected = NoCell
    /\ IF c \in view.busy \/ view.at[c] = NoPiece THEN UNCHANGED selection ELSE PickUp(c, view)

\* _act_on_selection when the picked piece has gone.
LetGo(c, view) ==
    /\ ~view.over /\ c # NoCell /\ selected # NoCell
    /\ ~StillThere(view)
    /\ Clear

\* _act_on_selection on a friend, which is picked up instead unless it jumps.
Switch(c, view) ==
    /\ ~view.over /\ c # NoCell /\ selected # NoCell
    /\ StillThere(view) /\ Friendly(c, view)
    /\ IF c \in view.busy THEN UNCHANGED selection ELSE PickUp(c, view)

ClickOnly(c, view) ==
    IgnoreClick(c, view) \/ Select(c, view) \/ LetGo(c, view) \/ Switch(c, view)

\* _act_on_selection otherwise: the caller asks to move from selected to c.
PutDown(c, view) ==
    /\ ~view.over /\ c # NoCell /\ selected # NoCell
    /\ StillThere(view) /\ ~Friendly(c, view)
    /\ Clear

-----------------------------------------------------------------------------
\* jump on c: the selection goes whatever comes of it, and the caller asks to jump on c
\* when AsksToJump.
JumpClick == Clear

AsksToJump(c, view) == ~view.over /\ c # NoCell

\* Mutant of Refresh: the selection stays as it is.
NoRefresh(view) == UNCHANGED selection

\* refresh_selection, called in every frame with the view of that frame.
Refresh(view) ==
    IF selected # NoCell /\ ~StillThere(view) THEN Clear ELSE UNCHANGED selection
=============================================================================
