------------------------------ MODULE PlayedGame ------------------------------
(***************************************************************************)
(* A game and the controller of one player, put together in the three ways *)
(* the program has:                                                        *)
(*   "window"   view/run.py: the controller works on the engine itself.    *)
(*              A frame calls wait() and then refresh_selection(), and     *)
(*              reads the mouse; the loop ends with the game.              *)
(*   "text"     text/script_runner.py: clicks, jumps and waits of a script *)
(*              on the engine itself; nothing refreshes the selection.     *)
(*   "network"  client/game_window.py against server/session.py: the       *)
(*              controller works on the last snapshot that was read, and   *)
(*              its requests are taken by the server when they get there.  *)
(*              The player has the side Mine; the other one is the         *)
(*              environment's.                                             *)
(***************************************************************************)
EXTENDS GameEngine, Controller

Wire == INSTANCE Protocol

CONSTANTS
    FrontEnds,      \* the front ends considered
    Mine            \* the colour of the network player's seat

ASSUME PlayAssumption == FrontEnds \subseteq {"window", "text", "network"} /\ Mine \in Colors

VARIABLES
    frontEnd,
    shown,          \* SnapshotView: the view of the snapshot read last
    uplink          \* the payloads on their way to the server

playVars == <<vars, selection, frontEnd, shown, uplink>>

Local == frontEnd \in {"window", "text"}

-----------------------------------------------------------------------------
\* Views.

\* piece_at and is_busy of the engine.
EngineView == [at |-> board, busy |-> {c \in Positions : IsJumpingOn(c)}, over |-> gameOver]

Standing(c) == board[c]

\* The pieces in flight that took off from c.  A snapshot has them on that cell.
TookOffFrom(c) == {p \in InFlight : motion[p].source = c}

\* SnapshotView.piece_at on a snapshot of now: the pieces on the board are listed first.
\* Several flights from one cell are looked up in the order of the list of motions.
ShownAt(c) ==
    IF Standing(c) # NoPiece THEN Standing(c)
    ELSE IF TookOffFrom(c) = {} THEN NoPiece
    ELSE CHOOSE p \in TookOffFrom(c) :
            \A q \in TookOffFrom(c) : IndexIn(active, p) <= IndexIn(active, q)

\* GameEngine.snapshot as SnapshotView reads it; a piece in flight does not jump.
Snapshot ==
    [at   |-> [c \in Positions |-> ShownAt(c)],
     busy |-> {c \in Positions : Standing(c) # NoPiece /\ IsJumpingOn(c)},
     over |-> gameOver]

View == IF Local THEN EngineView ELSE shown

-----------------------------------------------------------------------------
\* The environment may build the game with any front end; the first snapshot is sent with
\* the role.
PlayInit ==
    /\ Init
    /\ NothingSelected
    /\ frontEnd \in FrontEnds
    /\ shown = [at |-> InitialBoard, busy |-> {}, over |-> FALSE]
    /\ uplink = <<>>

\* The engine's answer to a request: taken, rejected, or ignored after the end.
AskMove(s, d) ==
    \/ RequestMove(s, d)
    \/ ~gameOver /\ ~MoveAllowed(s, d) /\ Reject
    \/ RefuseAfterEnd

AskJump(c) ==
    \/ RequestJump(c)
    \/ ~gameOver /\ ~JumpAllowed(c) /\ Reject
    \/ RefuseAfterEnd

\* The requests about some places.  The wire carries any position.
Intents(places) == [type : {"MoveIntent"}, source : places, destination : places]
                       \cup [type : {"JumpIntent"}, position : places]

MoveIntent(s, d) == [type |-> "MoveIntent", source |-> s, destination |-> d]
JumpIntent(c)    == [type |-> "JumpIntent", position |-> c]

\* ServerConnection.request_move and request_jump put the intent, _send encodes it.
\* Bound of the model: one request on its way.
Send(intent) == uplink = <<>> /\ uplink' = <<Wire!Encode(intent)>>

-----------------------------------------------------------------------------
\* The player.  Mouse and script are read between two calls of the local engine; the
\* network player clicks while the server does whatever it does.
MayClick == Local => phase = "idle"

Click(c) ==
    /\ MayClick
    /\ ClickOnly(c, View)
    /\ UNCHANGED <<vars, frontEnd, shown, uplink>>

ClickAndMove(c) ==
    /\ MayClick
    /\ PutDown(c, View)
    /\ IF Local
       THEN AskMove(selected, c) /\ UNCHANGED uplink
       ELSE Send(MoveIntent(selected, c)) /\ UNCHANGED vars
    /\ UNCHANGED <<frontEnd, shown>>

Jump(c) ==
    /\ MayClick
    /\ JumpClick
    /\ IF ~AsksToJump(c, View) THEN UNCHANGED <<vars, uplink>>
       ELSE IF Local THEN AskJump(c) /\ UNCHANGED uplink
       ELSE Send(JumpIntent(c)) /\ UNCHANGED vars
    /\ UNCHANGED <<frontEnd, shown>>

-----------------------------------------------------------------------------
\* The clock of a local game.  The text front end also waits 0 ms before it prints.
StartWait ==
    /\ frontEnd = "window" => ~gameOver
    /\ \E ms \in TickSizes \cup (IF frontEnd = "text" THEN {0} ELSE {}) : BeginWait(ms)
    /\ UNCHANGED <<selection, frontEnd, shown, uplink>>

\* A step inside wait().  When the call returns, the window's frame goes on with
\* refresh_selection, and the server's tick with a broadcast that the client reads before
\* its next frame or after it.
InsideWait == ResolveWait \/ FinishWait \/ Apply

ContinueWait ==
    /\ InsideWait
    /\ \/ phase' # "idle" /\ UNCHANGED <<selection, shown>>
       \/ phase' = "idle" /\ frontEnd = "text" /\ UNCHANGED <<selection, shown>>
       \/ phase' = "idle" /\ frontEnd = "window" /\ Refresh(EngineView') /\ UNCHANGED shown
       \/ /\ phase' = "idle" /\ frontEnd = "network"
          /\ \/ shown' = Snapshot' /\ Refresh(Snapshot')
             \/ UNCHANGED <<selection, shown>>
    /\ UNCHANGED <<frontEnd, uplink>>

-----------------------------------------------------------------------------
\* The server's side of a network game.

\* Mutant of Owns: any piece will do.
OwnsAny(p, side) == p # NoPiece

\* GameSession._owns, for the piece that is there when the request is handled.
Owns(p, side) == p # NoPiece /\ Color[p] = side

Place(intent) == IF intent.type = "MoveIntent" THEN intent.source ELSE intent.position

\* handle_move and handle_jump: a request for a piece that is not the sender's is rejected
\* before it gets to the engine, with a message to the sender alone.
Handle(side, intent) ==
    LET c == Place(intent)
    IN  \/ ~Owns(board[c], side) /\ phase = "idle" /\ UNCHANGED vars
        \/ Owns(board[c], side) /\ intent.type = "MoveIntent" /\ AskMove(c, intent.destination)
        \/ Owns(board[c], side) /\ intent.type = "JumpIntent" /\ AskJump(c)

ServerTakesRequest ==
    /\ frontEnd = "network"
    /\ uplink # <<>>
    /\ Wire!Decodes(Head(uplink))
    /\ Handle(Mine, Wire!Decode(Head(uplink)))
    /\ uplink' = Tail(uplink)
    /\ UNCHANGED <<selection, frontEnd, shown>>

\* The opponent's client may be any program: it asks for whatever the wire can carry, also
\* beyond the edge of the board, where neither the router nor the session, the engine or the
\* rules look.  What it asks of a piece that is not its own changes nothing (Handle).
OpponentAsks ==
    /\ frontEnd = "network"
    /\ \E intent \in Intents(Positions) :
          Owns(board[Place(intent)], Other(Mine)) /\ Handle(Other(Mine), intent)
    /\ UNCHANGED <<selection, frontEnd, shown, uplink>>

\* A countdown runs out.
SessionResigns ==
    /\ frontEnd = "network"
    /\ \E color \in Colors : Resign(color)
    /\ UNCHANGED <<selection, frontEnd, shown, uplink>>

-----------------------------------------------------------------------------
PlayNext ==
    \/ \E c \in Clickable : Click(c) \/ ClickAndMove(c) \/ Jump(c)
    \/ StartWait \/ ContinueWait
    \/ ServerTakesRequest \/ OpponentAsks \/ SessionResigns

PlaySpec == PlayInit /\ [][PlayNext]_playVars

-----------------------------------------------------------------------------
(***************************************************************************)
(* Properties.                                                             *)
(***************************************************************************)

Uplinks == {<<>>} \cup {<<Wire!Encode(intent)>> : intent \in Intents(Cells)}

\* Every variable stays in the set of values the program gives it; a cell and a piece id
\* are selected together or not at all, and what the program's own client asks for is on
\* the board.  Boards, flights and the snapshots drawn from them may have pieces beyond it.
PlayTypeOK ==
    /\ TypeOK
    /\ selected \in Clickable /\ picked \in Pieces \cup {NoPiece}
    /\ selected = NoCell <=> picked = NoPiece
    /\ shown \in Views
    /\ uplink \in Uplinks

TakesOff(p) == motion[p] = Grounded /\ motion'[p] # Grounded

\* On a local game what a click moves is the piece that was picked up, whatever has landed
\* on its cell, been captured there or been promoted there between the two clicks.
PickedPieceMoves ==
    [][Local => \A p \in Pieces : TakesOff(p) => p = picked /\ motion'[p].source = selected]_playVars

\* On a local game no piece ever stands, flies or jumps beyond the edge, however its flight
\* was cut short: the engine does not look, but it is asked only for cells that were clicked
\* (pixel_to_cell).  A network game has no such promise, see OpponentAsks.
LocalStaysOnBoard ==
    Local => /\ \A c \in Positions \ Cells : board[c] = NoPiece /\ ~IsJumpingOn(c)
             /\ \A p \in InFlight : Path(motion[p]) \cup {motion[p].source} \subseteq Cells

\* A frame never draws a selection that is out of date: the selected cell holds the piece
\* that was picked up, and it does not jump, by the view that is drawn.
SelectionFresh ==
    frontEnd # "text" /\ (Local => phase = "idle") /\ selected # NoCell => StillThere(View)

\* What the network player sends gets no piece of the other colour off the ground or into a
\* jump, although it was clicked on an older view of a board that has changed since.
OwnPiecesOnly ==
    [][uplink # <<>> /\ uplink' = <<>> =>
          /\ \A p \in Pieces : TakesOff(p) => Color[p] = Mine
          /\ \A c \in Positions : jumpEnd'[c] # jumpEnd[c] => Color[board[c]] = Mine]_playVars
=============================================================================
