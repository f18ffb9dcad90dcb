-------------------------- MODULE PlayedGameProofs --------------------------
(***************************************************************************)
(* What PlayedGame guarantees for every board, every set of pieces and     *)
(* every interleaving of clicks, frames, snapshots and requests.           *)
(***************************************************************************)
EXTENDS PlayedGame, GameEngineProofs, WellFoundedInduction

-----------------------------------------------------------------------------
\* The wire gives back what was sent.

LEMMA IntentTable ==
    ASSUME NEW type \in {"MoveIntent", "JumpIntent"}
    PROVE  /\ type \in Wire!MessageTypes
           /\ Wire!FieldsOf[type] = Wire!IntentFields[type]
<1>1. DOMAIN Wire!Tables = 1 .. 4
  BY DEF Wire!Tables
<1>2. Wire!Tables[4] = Wire!IntentFields
  BY DEF Wire!Tables
<1>3. type \in DOMAIN Wire!Tables[4]
  BY <1>2 DEF Wire!IntentFields
<1>4. \A i \in 1 .. 4 : type \in DOMAIN Wire!Tables[i] => i = 4
  <2>1. type \notin DOMAIN Wire!Tables[1]
    BY DEF Wire!Tables, Wire!SnapshotFields
  <2>2. type \notin DOMAIN Wire!Tables[2]
    BY DEF Wire!Tables, Wire!EventFields
  <2>3. type \notin DOMAIN Wire!Tables[3]
    BY DEF Wire!Tables, Wire!LobbyFields
  <2> QED BY <2>1, <2>2, <2>3
<1>5. type \in Wire!MessageTypes
  BY <1>1, <1>3 DEF Wire!MessageTypes
<1>6. (CHOOSE i \in DOMAIN Wire!Tables : type \in DOMAIN Wire!Tables[i]) = 4
  BY <1>1, <1>3, <1>4
<1> QED BY <1>2, <1>5, <1>6 DEF Wire!FieldsOf

\* A position is written as an object and read back as the same pair.
LEMMA PositionOut ==
    ASSUME NEW v
    PROVE  Wire!FieldOut("position", v) = [row |-> v[1], col |-> v[2]]
BY DEF Wire!FieldOut, Wire!Out

LEMMA PositionIn ==
    ASSUME NEW v
    PROVE  Wire!FieldIn("position", v) = <<v.row, v.col>>
BY DEF Wire!FieldIn, Wire!In

LEMMA PositionRoundTrip ==
    ASSUME NEW c \in Positions
    PROVE  Wire!FieldIn("position", Wire!FieldOut("position", c)) = c
<1>1. c = <<c[1], c[2]>>
  BY PositionType
<1>2. Wire!FieldOut("position", c) = [row |-> c[1], col |-> c[2]]
  BY PositionOut
<1>3. Wire!FieldIn("position", Wire!FieldOut("position", c))
        = <<Wire!FieldOut("position", c).row, Wire!FieldOut("position", c).col>>
  BY PositionIn
<1> QED BY <1>1, <1>2, <1>3

LEMMA IntentRoundTrip ==
    ASSUME NEW intent \in Intents(Positions)
    PROVE  Wire!Decode(Wire!Encode(intent)) = intent
<1> DEFINE w == Wire!Encode(intent)
           F == Wire!FieldsOf[intent.type]
<1>1. /\ intent.type \in {"MoveIntent", "JumpIntent"}
      /\ intent.type = "MoveIntent" =>
            intent \in [type : {"MoveIntent"}, source : Positions, destination : Positions]
      /\ intent.type = "JumpIntent" => intent \in [type : {"JumpIntent"}, position : Positions]
  BY DEF Intents
<1>2. F = Wire!IntentFields[intent.type]
  BY <1>1, IntentTable
<1>3. /\ "type" \notin DOMAIN F
      /\ \A f \in DOMAIN F : F[f] = "position" /\ intent[f] \in Positions
      /\ {"type"} \cup DOMAIN F = DOMAIN intent
  <2>1. CASE intent.type = "MoveIntent"
    <3>1. F = [source |-> "position", destination |-> "position"]
      BY <1>2, <2>1 DEF Wire!IntentFields
    <3>2. intent \in [type : {"MoveIntent"}, source : Positions, destination : Positions]
      BY <1>1, <2>1
    <3> QED BY <3>1, <3>2
  <2>2. CASE intent.type = "JumpIntent"
    <3>1. F = [position |-> "position"]
      BY <1>2, <2>2 DEF Wire!IntentFields
    <3>2. intent \in [type : {"JumpIntent"}, position : Positions]
      BY <1>1, <2>2
    <3> QED BY <3>1, <3>2
  <2> QED BY <1>1, <2>1, <2>2
<1>4. /\ DOMAIN w = {"type"} \cup DOMAIN F
      /\ w.type = intent.type
      /\ \A f \in DOMAIN F : w[f] = Wire!FieldOut(F[f], intent[f])
  <2>1. w = [f \in {"type"} \cup DOMAIN F |->
                IF f = "type" THEN intent.type ELSE Wire!FieldOut(F[f], intent[f])]
    BY DEF Wire!Encode
  <2> HIDE DEF w, F
  <2> QED BY <2>1, <1>3
<1> HIDE DEF w
<1>5. /\ DOMAIN Wire!Decode(w) = {"type"} \cup DOMAIN F
      /\ Wire!Decode(w).type = intent.type
      /\ \A f \in DOMAIN F : Wire!Decode(w)[f] = Wire!FieldIn(F[f], w[f])
  <2>1. Wire!Decode(w) =
            [f \in {"type"} \cup DOMAIN F |->
                IF f = "type" THEN intent.type
                ELSE IF f \notin DOMAIN w THEN Wire!None
                ELSE Wire!FieldIn(F[f], w[f])]
    BY <1>4 DEF Wire!Decode
  <2> HIDE DEF F
  <2> QED BY <2>1, <1>3, <1>4
<1> HIDE DEF F
<1>6. \A f \in DOMAIN F : Wire!Decode(w)[f] = intent[f]
  BY <1>3, <1>4, <1>5, PositionRoundTrip
<1>7. /\ intent = [f \in DOMAIN intent |-> intent[f]]
      /\ Wire!Decode(w) = [f \in DOMAIN Wire!Decode(w) |-> Wire!Decode(w)[f]]
  <2>1. intent = [f \in DOMAIN intent |-> intent[f]]
    BY <1>1
  <2>2. Wire!Decode(w) = [f \in DOMAIN Wire!Decode(w) |-> Wire!Decode(w)[f]]
    BY DEF Wire!Decode
  <2> QED BY <2>1, <2>2
<1> QED BY <1>3, <1>5, <1>6, <1>7 DEF w

-----------------------------------------------------------------------------
\* The least index of a set of pieces in the list of motions, so that the lookup of a
\* piece in a snapshot finds the first one.

LEMMA LeastNatural ==
    ASSUME NEW T \in SUBSET Nat, T # {}
    PROVE  \E x \in T : \A y \in T : x <= y
<1>1. PICK x \in T : \A y \in T : <<y, x>> \notin OpToRel(<, Nat)
  BY WFMin, NatLessThanWellFounded
<1>2. ASSUME NEW y \in T PROVE x <= y
  <2>1. <<y, x>> \notin {ss \in Nat \X Nat : ss[1] < ss[2]}
    BY <1>1, <1>2 DEF OpToRel
  <2> QED BY <2>1
<1> QED BY <1>2

LEMMA ShownAtType ==
    ASSUME IInv, FlightInv, NEW c \in Positions
    PROVE  ShownAt(c) \in Pieces \cup {NoPiece}
<1> DEFINE T == TookOffFrom(c)
           First(p) == \A q \in T : IndexIn(active, p) <= IndexIn(active, q)
<1>1. CASE Standing(c) # NoPiece \/ T = {}
  BY <1>1 DEF ShownAt, Standing, IInv, TypeOK, Boards
<1>2. CASE Standing(c) = NoPiece /\ T # {}
  <2>1. T \subseteq Pieces /\ T \subseteq InFlight
    BY DEF TookOffFrom, InFlight
  <2>2. \A p \in T : IndexIn(active, p) \in Nat
    <3>1. active \in Seq(Pieces) /\ Members(active) = InFlight
      BY ListExact DEF IInv, TypeOK, FlightInv
    <3>2. \A p \in InFlight : \E i \in DOMAIN active : active[i] = p
      BY <3>1 DEF Members
    <3>3. \A p \in InFlight : IndexIn(active, p) \in DOMAIN active
      BY <3>2 DEF IndexIn
    <3> QED BY <2>1, <3>1, <3>3
  <2>3. \E p \in T : First(p)
    <3> DEFINE K == {IndexIn(active, p) : p \in T}
    <3>1. K \in SUBSET Nat /\ K # {}
      BY <1>2, <2>2
    <3>2. \E x \in K : \A y \in K : x <= y
      <4> HIDE DEF K
      <4> QED BY <3>1, LeastNatural
    <3> QED BY <3>2
  <2>4. ShownAt(c) = CHOOSE p \in T : First(p)
    BY <1>2 DEF ShownAt
  <2>5. ShownAt(c) \in T
    <3> HIDE DEF T, First
    <3> QED BY <2>3, <2>4
  <2> QED BY <2>1, <2>5
<1> QED BY <1>1, <1>2

LEMMA ViewTypes == IInv /\ FlightInv => EngineView \in Views /\ Snapshot \in Views
<1> SUFFICES ASSUME IInv, FlightInv PROVE EngineView \in Views /\ Snapshot \in Views
  OBVIOUS
<1>1. EngineView \in Views
  BY DEF EngineView, Views, IInv, TypeOK
<1>2. [c \in Positions |-> ShownAt(c)] \in Boards
  BY ShownAtType DEF Boards
<1> QED BY <1>1, <1>2 DEF Snapshot, Views, IInv, TypeOK

-----------------------------------------------------------------------------
\* The engine under the players: every step of PlayedGame is a step of the engine, a wait
\* of 0 ms, or none of the engine's business.

PlayerOK ==
    /\ selected \in Clickable /\ picked \in Pieces \cup {NoPiece}
    /\ selected = NoCell <=> picked = NoPiece
    /\ frontEnd \in FrontEnds
    /\ shown \in Views
    /\ uplink \in Uplinks

PlayInv == IInv /\ FlightInv /\ PlayerOK /\ SelectionFresh

EngineMoves == [Next]_vars \/ \E ms \in Nat : BeginWait(ms)

LEMMA AskStep ==
    /\ \A s, d \in Positions : AskMove(s, d) => Next
    /\ \A c \in Positions : AskJump(c) => Next
BY DEF AskMove, AskJump, Next

LEMMA HandleStep ==
    ASSUME NEW side, NEW intent \in Intents(Positions), Handle(side, intent)
    PROVE  [Next]_vars
<1>1. /\ intent.type = "MoveIntent" => intent.source \in Positions /\ intent.destination \in Positions
      /\ intent.type = "JumpIntent" => intent.position \in Positions
  BY DEF Intents
<1> QED BY <1>1, AskStep DEF Handle, Place

LEMMA IntentsOnBoard == Intents(Cells) \subseteq Intents(Positions)
BY CellsArePositions DEF Intents

\* What the server reads off the uplink is an intent the player has sent.
LEMMA RequestOnUplink ==
    ASSUME uplink \in Uplinks, uplink # <<>>
    PROVE  Wire!Decode(Head(uplink)) \in Intents(Cells) /\ Tail(uplink) = <<>>
<1>1. PICK intent \in Intents(Cells) : uplink = <<Wire!Encode(intent)>>
  BY DEF Uplinks
<1>2. Head(uplink) = Wire!Encode(intent) /\ Tail(uplink) = <<>>
  BY <1>1
<1> QED BY <1>2, IntentRoundTrip, IntentsOnBoard

LEMMA PlayEngineStep == PlayerOK /\ [PlayNext]_playVars => EngineMoves
<1> SUFFICES ASSUME PlayerOK, [PlayNext]_playVars PROVE EngineMoves
  OBVIOUS
<1> USE DEF EngineMoves
<1>1. ASSUME NEW c \in Clickable, Click(c) \/ ClickAndMove(c) \/ Jump(c)
      PROVE  EngineMoves
  <2>1. selected # NoCell => selected \in Positions
    BY CellsArePositions DEF PlayerOK, Clickable
  <2>2. c # NoCell => c \in Positions
    BY CellsArePositions DEF Clickable
  <2>3. CASE Click(c)
    BY <2>3 DEF Click
  <2>4. CASE ClickAndMove(c)
    BY <2>1, <2>2, <2>4, AskStep DEF ClickAndMove, PutDown
  <2>5. CASE Jump(c)
    BY <2>2, <2>5, AskStep DEF Jump, AsksToJump
  <2> QED BY <1>1, <2>3, <2>4, <2>5
<1>2. CASE StartWait
  BY <1>2, DurationAssumption DEF StartWait
<1>3. CASE ContinueWait
  BY <1>3 DEF ContinueWait, InsideWait, Next, Wait
<1>4. CASE ServerTakesRequest
  BY <1>4, RequestOnUplink, IntentsOnBoard, HandleStep DEF ServerTakesRequest, PlayerOK
<1>5. CASE OpponentAsks
  BY <1>5, HandleStep DEF OpponentAsks
<1>6. CASE SessionResigns
  BY <1>6 DEF SessionResigns, Next
<1>7. CASE UNCHANGED playVars
  BY <1>7 DEF playVars
<1> QED BY <1>1, <1>2, <1>3, <1>4, <1>5, <1>6, <1>7 DEF PlayNext

LEMMA EngineMovesKeep ==
    ASSUME IInv, FlightInv, EngineMoves
    PROVE  IInv' /\ FlightInv'
<1>1. CASE [Next]_vars
  BY <1>1, NextIInv, NextFlightInv
<1>2. ASSUME NEW ms \in Nat, BeginWait(ms) PROVE IInv' /\ FlightInv'
  <2>1. /\ UNCHANGED <<clock, board, motion, active, kind>>
        /\ phase' = "resolving" /\ phase = "idle"
    BY <1>2 DEF BeginWait, BeginAdvance, arbiterVars
  <2> QED BY <1>2, <2>1, BeginWaitStep, FlightFrame
<1> QED BY <1>1, <1>2 DEF EngineMoves

-----------------------------------------------------------------------------
\* The selection.

LEMMA ViewType ==
    ASSUME PlayInv
    PROVE  View \in Views
BY ViewTypes DEF PlayInv, PlayerOK, View

\* A click leaves the view alone, and selects only a piece that stands and does not jump.
LEMMA ClickSelects ==
    ASSUME PlayInv, NEW c \in Clickable, ClickOnly(c, View), UNCHANGED frontEnd,
           UNCHANGED <<vars, shown>>
    PROVE  /\ selected' \in Clickable /\ picked' \in Pieces \cup {NoPiece}
           /\ selected' = NoCell <=> picked' = NoPiece
           /\ SelectionFresh'
<1>1. View \in Views /\ View' = View /\ Local' = Local /\ phase' = phase
  <2>1. View' = View
    BY DEF View, EngineView, IsJumpingOn, Local, vars, arbiterVars, engineVars
  <2> QED BY <2>1, ViewType DEF Local, vars
<1>2. CASE UNCHANGED selection
  BY <1>1, <1>2 DEF selection, PlayInv, PlayerOK, SelectionFresh, StillThere
<1>3. CASE PickUp(c, View) /\ c # NoCell /\ c \notin View.busy /\ View.at[c] # NoPiece
  <2>1. c \in Positions /\ View.at[c] \in Pieces
    BY <1>1, <1>3, CellsArePositions DEF Clickable, Views, Boards
  <2>2. selected' = c /\ picked' = View.at[c] /\ picked' # NoPiece
    BY <1>3 DEF PickUp
  <2> QED BY <1>1, <1>3, <2>1, <2>2 DEF SelectionFresh, StillThere
<1>4. CASE Clear
  BY <1>4 DEF Clear, Clickable, SelectionFresh
<1> QED BY <1>2, <1>3, <1>4 DEF ClickOnly, IgnoreClick, Select, LetGo, Switch, Friendly

LEMMA RefreshKeeps ==
    ASSUME PlayerOK, NEW view, Refresh(view)
    PROVE  /\ selected' \in Clickable /\ picked' \in Pieces \cup {NoPiece}
           /\ selected' = NoCell <=> picked' = NoPiece
           /\ selected' # NoCell => view.at[selected'] = picked' /\ selected' \notin view.busy
BY DEF Refresh, Clear, StillThere, selection, PlayerOK, Clickable

LEMMA ReturnFromWait ==
    ASSUME PlayInv, ContinueWait, EngineView' \in Views, Snapshot' \in Views
    PROVE  PlayerOK' /\ SelectionFresh'
<1>1. UNCHANGED <<frontEnd, uplink>> /\ frontEnd \in FrontEnds /\ Local' = Local
  BY DEF ContinueWait, PlayInv, PlayerOK, Local
<1>2. CASE /\ UNCHANGED <<selection, shown>>
           /\ phase' # "idle" \/ frontEnd \in {"text", "network"}
  <2>1. PlayerOK'
    BY <1>1, <1>2 DEF selection, PlayInv, PlayerOK
  <2>2. CASE Local
    BY <1>1, <1>2, <2>1, <2>2 DEF SelectionFresh, Local
  <2>3. CASE ~Local
    BY <1>1, <1>2, <2>1, <2>3 DEF SelectionFresh, View, StillThere, selection, PlayInv
  <2> QED BY <2>2, <2>3
<1>3. CASE frontEnd = "window" /\ Refresh(EngineView') /\ UNCHANGED shown
  <2>1. View' = EngineView'
    BY <1>1, <1>3 DEF View, Local
  <2>2. PlayerOK'
    BY <1>1, <1>3, RefreshKeeps DEF PlayInv, PlayerOK
  <2>3. SelectionFresh'
    BY <1>3, <2>1, RefreshKeeps DEF PlayInv, SelectionFresh, StillThere
  <2> QED BY <2>2, <2>3
<1>4. CASE frontEnd = "network" /\ shown' = Snapshot' /\ Refresh(Snapshot')
  <2>1. View' = Snapshot'
    BY <1>1, <1>4 DEF View, Local
  <2>2. PlayerOK'
    BY <1>1, <1>4, RefreshKeeps DEF PlayInv, PlayerOK
  <2>3. SelectionFresh'
    BY <1>4, <2>1, RefreshKeeps DEF PlayInv, SelectionFresh, StillThere
  <2> QED BY <2>2, <2>3
<1>5. frontEnd \in {"window", "text", "network"}
  BY <1>1, PlayAssumption
<1> QED BY <1>2, <1>3, <1>4, <1>5 DEF ContinueWait

\* With nothing selected there is nothing to be out of date.
LEMMA NothingFresh ==
    ASSUME selected' = NoCell
    PROVE  SelectionFresh'
BY DEF SelectionFresh

LEMMA SentType ==
    ASSUME NEW intent \in Intents(Cells), Send(intent)
    PROVE  uplink' \in Uplinks
BY DEF Send, Uplinks

LEMMA IntentTypes ==
    /\ \A s, d \in Cells : MoveIntent(s, d) \in Intents(Cells)
    /\ \A c \in Cells : JumpIntent(c) \in Intents(Cells)
BY DEF MoveIntent, JumpIntent, Intents

LEMMA PlayerStep ==
    ASSUME PlayInv, IInv', FlightInv', [PlayNext]_playVars
    PROVE  PlayerOK' /\ SelectionFresh'
<1>1. ASSUME NEW c \in Clickable, Click(c) PROVE PlayerOK' /\ SelectionFresh'
  <2>1. ClickOnly(c, View) /\ UNCHANGED <<vars, frontEnd, shown, uplink>>
    BY <1>1 DEF Click
  <2> QED BY <2>1, ClickSelects DEF PlayInv, PlayerOK
<1>2. ASSUME NEW c \in Clickable, ClickAndMove(c) PROVE PlayerOK' /\ SelectionFresh'
  <2>1. Clear /\ c \in Cells /\ selected \in Cells /\ UNCHANGED <<frontEnd, shown>>
    BY <1>2 DEF ClickAndMove, PutDown, Clickable, PlayInv, PlayerOK
  <2>2. uplink' \in Uplinks
    BY <1>2, <2>1, SentType, IntentTypes DEF ClickAndMove, PlayInv, PlayerOK
  <2> QED BY <2>1, <2>2, NothingFresh DEF Clear, Clickable, PlayInv, PlayerOK
<1>3. ASSUME NEW c \in Clickable, Jump(c) PROVE PlayerOK' /\ SelectionFresh'
  <2>1. Clear /\ UNCHANGED <<frontEnd, shown>>
    BY <1>3 DEF Jump, JumpClick
  <2>2. uplink' \in Uplinks
    BY <1>3, SentType, IntentTypes DEF Jump, AsksToJump, Clickable, PlayInv, PlayerOK
  <2> QED BY <2>1, <2>2, NothingFresh DEF Clear, Clickable, PlayInv, PlayerOK
<1>4. CASE StartWait
  <2>1. UNCHANGED <<selection, frontEnd, shown, uplink>> /\ phase' = "resolving"
    BY <1>4 DEF StartWait, BeginWait, BeginAdvance
  <2>2. PlayerOK'
    BY <2>1 DEF selection, PlayInv, PlayerOK
  <2>3. SelectionFresh'
    BY <2>1 DEF SelectionFresh, Local, View, StillThere, selection, PlayInv
  <2> QED BY <2>2, <2>3
<1>5. CASE ContinueWait
  <2>1. EngineView' \in Views /\ Snapshot' \in Views
    <3>1. (IInv /\ FlightInv => EngineView \in Views /\ Snapshot \in Views)'
      BY ViewTypes, PTL
    <3> QED BY <3>1
  <2> QED BY <1>5, <2>1, ReturnFromWait
<1>6. CASE ServerTakesRequest \/ OpponentAsks \/ SessionResigns
  <2>1. UNCHANGED <<selection, frontEnd, shown>> /\ frontEnd = "network"
    BY <1>6 DEF ServerTakesRequest, OpponentAsks, SessionResigns
  <2>2. uplink' \in Uplinks
    BY <1>6, RequestOnUplink
       DEF ServerTakesRequest, OpponentAsks, SessionResigns, PlayInv, PlayerOK, Uplinks
  <2>3. PlayerOK'
    BY <2>1, <2>2 DEF selection, PlayInv, PlayerOK
  <2>4. SelectionFresh'
    BY <2>1 DEF SelectionFresh, Local, View, StillThere, selection, PlayInv
  <2> QED BY <2>3, <2>4
<1>7. CASE UNCHANGED playVars
  <2>1. UNCHANGED <<selection, frontEnd, shown, uplink>> /\ UNCHANGED <<board, jumpEnd, gameOver, phase>>
    BY <1>7 DEF playVars, vars, arbiterVars, engineVars
  <2>2. PlayerOK'
    BY <2>1 DEF selection, PlayInv, PlayerOK
  <2>3. SelectionFresh'
    BY <2>1 DEF SelectionFresh, Local, View, EngineView, IsJumpingOn, StillThere, selection, PlayInv
  <2> QED BY <2>2, <2>3
<1> QED BY <1>1, <1>2, <1>3, <1>4, <1>5, <1>6, <1>7 DEF PlayNext

LEMMA NextPlayInv == PlayInv /\ [PlayNext]_playVars => PlayInv'
<1> SUFFICES ASSUME PlayInv, [PlayNext]_playVars PROVE PlayInv'
  OBVIOUS
<1>1. IInv' /\ FlightInv'
  BY PlayEngineStep, EngineMovesKeep DEF PlayInv
<1>2. PlayerOK' /\ SelectionFresh'
  BY <1>1, PlayerStep
<1> QED BY <1>1, <1>2 DEF PlayInv

LEMMA InitPlayInv == PlayInit => PlayInv
<1> SUFFICES ASSUME PlayInit PROVE PlayInv
  OBVIOUS
<1>1. IInv /\ FlightInv
  BY InitIInv, InitFlightInv DEF PlayInit
<1>2. shown \in Views
  <2>1. InitialBoard \in Boards
    BY <1>1 DEF PlayInit, Init, IInv, TypeOK
  <2> QED BY <2>1 DEF PlayInit, Views
<1>3. PlayerOK /\ SelectionFresh
  BY <1>2 DEF PlayInit, NothingSelected, PlayerOK, Clickable, Uplinks, SelectionFresh
<1> QED BY <1>1, <1>3 DEF PlayInv

\* The invariant of a game with its player, in every front end.
THEOREM PlayInvariant == PlaySpec => []PlayInv
BY InitPlayInv, NextPlayInv, PTL DEF PlaySpec

\* The selection, the snapshot and the uplink keep their types with the engine's state: a
\* snapshot shows at most one piece on a cell, also where several took off from it.
THEOREM PlayTypeCorrect == PlaySpec => []PlayTypeOK
<1>1. PlayInv => PlayTypeOK
  BY DEF PlayInv, IInv, PlayerOK, PlayTypeOK
<1> QED BY <1>1, PlayInvariant, PTL

\* refresh_selection after every wait() of the window, and on every snapshot a network
\* client reads, is enough: no frame draws a selection that is out of date.
THEOREM SelectionStaysFresh == PlaySpec => []SelectionFresh
BY PlayInvariant, PTL DEF PlayInv

-----------------------------------------------------------------------------
\* What the clicks of a player get moving.

LEMMA ResolveLandsOnly ==
    ASSUME IInv, FlightInv, Resolve
    PROVE  InFlight' \subseteq InFlight
<1>1. LoopType /\ PlacedOnce /\ Started
  BY DEF IInv, TypeOK, LoopType, FlightInv
<1>2. PICK e \in Candidates :
          \/ e.type = "arrival"   /\ ResolveArrival(e.piece)
          \/ e.type = "collision" /\ ResolveCollision(e.piece, e.other, e.cell)
          \/ e.type = "encounter" /\ ResolveEncounter(e.piece, e.cell)
  BY DEF Resolve
<1> QED BY <1>1, <1>2, CandidateType, ArrivalEffect, CollisionEffect, EncounterEffect

\* A piece takes off only by a request for the cell it stands on.
LEMMA TakesOffByRequest ==
    ASSUME IInv, FlightInv, EngineMoves, NEW p \in Pieces, TakesOff(p)
    PROVE  \E s, d \in Positions : RequestMove(s, d) /\ p = board[s] /\ motion'[p].source = s
<1>1. p \in InFlight' /\ p \notin InFlight /\ motion' # motion
  BY DEF TakesOff, InFlight
<1>2. ~ResolveWait
  BY <1>1, ResolveLandsOnly DEF ResolveWait
<1>3. PICK s \in Positions, d \in Positions : RequestMove(s, d)
  BY <1>1, <1>2 DEF EngineMoves, Next, Wait, RequestJump, Reject, RefuseAfterEnd, Resign,
                    BeginWait, BeginAdvance, FinishWait, FinishAdvance, Apply, ApplyKingCapture,
                    ApplyArrival, arbiterVars, vars
<1>4. board[s] \in Pieces /\ motion \in [Pieces -> Motions \cup {Grounded}]
  BY <1>3 DEF RequestMove, MoveAllowed, IInv, TypeOK, Boards
<1>5. p = board[s] /\ motion'[p].source = s
  BY <1>1, <1>3, <1>4 DEF RequestMove, StartMotion, TakesOff
<1> QED BY <1>3, <1>5

\* On a local board the two clicks of a move are far apart in time: what takes off is the
\* piece that was picked up, from the cell where it was picked up, or nothing.
THEOREM OnlyThePickedPieceMoves == PlaySpec => PickedPieceMoves
<1> DEFINE Picked == Local => \A p \in Pieces :
                        TakesOff(p) => p = picked /\ motion'[p].source = selected
<1>1. PlayInv /\ [PlayNext]_playVars => [Picked]_playVars
  <2> SUFFICES ASSUME PlayInv, PlayNext, Local, NEW p \in Pieces, TakesOff(p)
               PROVE  p = picked /\ motion'[p].source = selected
    OBVIOUS
  <2>1. PICK s \in Positions, d \in Positions :
            RequestMove(s, d) /\ p = board[s] /\ motion'[p].source = s
    BY PlayEngineStep, TakesOffByRequest DEF PlayInv
  <2>2. motion' # motion /\ phase = "idle" /\ frontEnd # "network"
    BY <2>1 DEF TakesOff, RequestMove, Local
  <2>3. ~StartWait /\ ~ContinueWait
    BY <2>2 DEF StartWait, BeginWait, BeginAdvance, arbiterVars, ContinueWait, InsideWait,
                ResolveWait, Resolve, FinishWait, FinishAdvance, Apply
  <2>4. ~ServerTakesRequest /\ ~OpponentAsks /\ ~SessionResigns
    BY <2>2 DEF ServerTakesRequest, OpponentAsks, SessionResigns
  <2>5. \A c \in Clickable : ~Click(c) /\ ~Jump(c)
    BY <2>2 DEF Click, Jump, AskJump, RequestJump, Reject, RefuseAfterEnd, arbiterVars, vars
  <2>6. PICK c \in Clickable : ClickAndMove(c)
    BY <2>3, <2>4, <2>5 DEF PlayNext
  <2>7. StillThere(EngineView) /\ RequestMove(selected, c)
    BY <2>2, <2>6 DEF ClickAndMove, PutDown, View, AskMove, Reject, RefuseAfterEnd, arbiterVars
  <2>8. board[selected] = picked /\ selected \in Positions
    BY <2>6, <2>7, CellsArePositions
       DEF StillThere, EngineView, ClickAndMove, PutDown, PlayInv, PlayerOK, Clickable
  <2>9. motion' = [motion EXCEPT ![picked] =
                      [source |-> selected, dest |-> c, start |-> clock,
                       arrival |-> clock + MoveDuration * Distance(selected, c)]]
    BY <2>7, <2>8 DEF RequestMove, StartMotion
  <2> QED BY <2>8, <2>9 DEF TakesOff, PlayInv, IInv, TypeOK
<1>2. PlaySpec => [][Picked]_playVars
  BY <1>1, PlayInvariant, PTL DEF PlaySpec
<1> QED BY <1>2 DEF PickedPieceMoves

\* GameSession checks the owner on its own board, not on the one the client clicked on: a
\* request that arrives late moves and lifts only pieces of the sender's colour.
THEOREM OnlyOwnPiecesAnswer == PlaySpec => OwnPiecesOnly
<1> DEFINE Owned == uplink # <<>> /\ uplink' = <<>> =>
               /\ \A p \in Pieces : TakesOff(p) => Color[p] = Mine
               /\ \A c \in Positions : jumpEnd'[c] # jumpEnd[c] => Color[board[c]] = Mine
<1>1. PlayInv /\ [PlayNext]_playVars => [Owned]_playVars
  <2> SUFFICES ASSUME PlayInv, PlayNext, uplink # <<>>, uplink' = <<>>
               PROVE  /\ \A p \in Pieces : TakesOff(p) => Color[p] = Mine
                      /\ \A c \in Positions : jumpEnd'[c] # jumpEnd[c] => Color[board[c]] = Mine
    OBVIOUS
  <2>1. ServerTakesRequest
    BY DEF PlayNext, Click, ClickAndMove, Jump, Send, StartWait, ContinueWait, OpponentAsks,
           SessionResigns
  <2>2. PICK intent \in Intents(Positions) : Handle(Mine, intent)
    BY <2>1, RequestOnUplink, IntentsOnBoard DEF ServerTakesRequest, PlayInv, PlayerOK
  <2> DEFINE c == Place(intent)
  <2>3. CASE UNCHANGED <<motion, jumpEnd>>
    BY <2>3 DEF TakesOff
  <2>4. CASE Owns(board[c], Mine) /\ \E d : RequestMove(c, d)
    <3>1. board[c] \in Pieces /\ Color[board[c]] = Mine /\ UNCHANGED jumpEnd
      BY <2>2, <2>4 DEF Owns, RequestMove, Place, Intents, PlayInv, IInv, TypeOK, Boards, NoPiece
    <3>2. \A p \in Pieces : TakesOff(p) => p = board[c]
      BY <2>4, <3>1 DEF RequestMove, StartMotion, TakesOff, PlayInv, IInv, TypeOK
    <3> QED BY <3>1, <3>2
  <2>5. CASE Owns(board[c], Mine) /\ RequestJump(c)
    BY <2>5 DEF Owns, RequestJump, TakesOff, PlayInv, IInv, TypeOK
  <2> QED BY <2>2, <2>3, <2>4, <2>5
          DEF Handle, AskMove, AskJump, Reject, RefuseAfterEnd, arbiterVars, vars
<1>2. PlaySpec => [][Owned]_playVars
  BY <1>1, PlayInvariant, PTL DEF PlaySpec
<1> QED BY <1>2 DEF OwnPiecesOnly

-----------------------------------------------------------------------------
(***************************************************************************)
(* The edge of the board.  No line of the engine asks where a position is; *)
(* a local game stays on the board because it starts there, is asked only  *)
(* for cells of the board, and cuts a flight only at cells of its path.    *)
(***************************************************************************)

\* On the board, flight by flight and cell by cell.
Within(m) == m.source \in Cells /\ m.dest \in Cells

OnTheBoard ==
    /\ \A c \in Positions \ Cells : board[c] = NoPiece /\ jumpEnd[c] = 0
    /\ \A p \in InFlight : Within(motion[p])

\* A flight between cells of the board leads over such cells, however it is cut short.
LEMMA FlightWithin ==
    ASSUME NEW m \in Motions, Within(m)
    PROVE  /\ Path(m) \subseteq Cells
           /\ \A c \in Path(m) : Within(TruncateBefore(m, c))
<1>1. m.source \in Cells /\ m.dest \in Cells /\ m.source \in Positions /\ m.dest \in Positions
  BY DEF Within, Motions
<1>2. Length(m) \in Nat
  BY <1>1, LengthType DEF Length
<1>3. \A i \in 0 .. Length(m) : CellOf(m, i) \in Cells
  BY <1>1, PathOnBoard DEF CellOf, Length
<1>4. Path(m) \subseteq Cells
  BY <1>2, <1>3 DEF Path
<1>5. ASSUME NEW c \in Path(m) PROVE Within(TruncateBefore(m, c))
  <2>1. PICK i \in 1 .. Length(m) : c = CellOf(m, i)
    BY DEF Path
  <2>2. IndexOf(m, c) = i
    BY <2>1, IndexOfPathCell
  <2>3. CellOf(m, i - 1) \in Cells
    BY <1>2, <1>3
  <2>4. /\ TruncateBefore(m, c).source = m.source
        /\ TruncateBefore(m, c).dest = CellOf(m, i - 1)
    BY <2>2 DEF TruncateBefore, Motions
  <2> QED BY <1>1, <2>3, <2>4 DEF Within
<1> QED BY <1>4, <1>5

LEMMA ResolveOnTheBoard ==
    ASSUME IInv, FlightInv, OnTheBoard, ResolveWait
    PROVE  OnTheBoard'
<1>1. LoopType /\ PlacedOnce /\ Started /\ Resolve /\ jumpEnd' = jumpEnd
  BY DEF IInv, TypeOK, LoopType, FlightInv, ResolveWait, Resolve
<1>2. PICK e \in Candidates :
          \/ e.type = "arrival"   /\ ResolveArrival(e.piece)
          \/ e.type = "collision" /\ ResolveCollision(e.piece, e.other, e.cell)
          \/ e.type = "encounter" /\ ResolveEncounter(e.piece, e.cell)
  BY <1>1 DEF Resolve
<1>3. e.piece \in InFlight /\ motion[e.piece].dest \in Cells
  BY <1>1, CandidateType DEF OnTheBoard, Within
<1>4. /\ InFlight' \subseteq InFlight
      /\ \A r \in InFlight' : OnlyCut(r)
      /\ \/ board' = board
         \/ \E c \in Positions : board' = [board EXCEPT ![c] = NoPiece]
         \/ \E c \in Cells : board' = [board EXCEPT ![c] = e.piece]
  <2>1. CASE e.type = "arrival" /\ ResolveArrival(e.piece)
    BY <1>1, <1>3, <2>1, ArrivalEffect
  <2>2. CASE e.type = "collision" /\ ResolveCollision(e.piece, e.other, e.cell)
    BY <1>1, <2>2, CandidateType, CollisionEffect
  <2>3. CASE e.type = "encounter" /\ ResolveEncounter(e.piece, e.cell)
    <3>1. e.cell \in Passed(motion[e.piece]) /\ board[e.cell] # NoPiece
      BY <1>1, <2>3, CandidateType
    <3>2. e.cell \in Positions
      BY <1>1, <1>3, <3>1, MotionType, PathType DEF InFlight
    <3> QED BY <1>1, <1>3, <2>3, <3>1, <3>2, EncounterEffect
  <2> QED BY <1>2, <2>1, <2>2, <2>3
<1>5. \A c \in Positions \ Cells : board'[c] = NoPiece
  BY <1>1, <1>4 DEF OnTheBoard, LoopType, Boards
<1>6. ASSUME NEW r \in InFlight' PROVE Within(motion'[r])
  <2>1. motion[r] \in Motions /\ Within(motion[r]) /\ OnlyCut(r)
    BY <1>1, <1>4, MotionType DEF OnTheBoard, InFlight
  <2> QED BY <2>1, FlightWithin DEF OnlyCut
<1> QED BY <1>1, <1>5, <1>6 DEF OnTheBoard

\* What a player asks for on the board stays there.
LEMMA AskOnTheBoard ==
    ASSUME IInv, OnTheBoard, NEW s \in Cells, NEW d \in Cells, AskMove(s, d) \/ AskJump(s)
    PROVE  OnTheBoard'
<1>1. s \in Positions /\ d \in Positions
  BY CellsArePositions
<1>2. CASE RequestMove(s, d)
  <2>1. board[s] \in Pieces /\ UNCHANGED jumpEnd
    BY <1>1, <1>2 DEF RequestMove, MoveAllowed, IInv, TypeOK, Boards
  <2>2. \A c \in Positions : board'[c] \in {board[c], NoPiece}
    BY <1>2 DEF RequestMove, StartMotion, RemovePiece
  <2>3. \A p \in Pieces \ {board[s]} : motion'[p] = motion[p]
    BY <1>2, <2>1 DEF RequestMove, StartMotion, IInv, TypeOK
  <2>4. Within(motion'[board[s]])
    BY <1>2, <2>1 DEF RequestMove, StartMotion, IInv, TypeOK, Within
  <2> QED BY <2>1, <2>2, <2>3, <2>4 DEF OnTheBoard, InFlight
<1>3. CASE RequestJump(s)
  BY <1>1, <1>3 DEF RequestJump, OnTheBoard, InFlight, Within, IInv, TypeOK
<1>4. CASE Reject \/ RefuseAfterEnd
  BY <1>4 DEF Reject, RefuseAfterEnd, arbiterVars, OnTheBoard, InFlight
<1> QED BY <1>2, <1>3, <1>4 DEF AskMove, AskJump

LEMMA LocalStep ==
    ASSUME PlayInv, Local, OnTheBoard, [PlayNext]_playVars
    PROVE  OnTheBoard'
<1>1. frontEnd # "network" /\ IInv /\ FlightInv
  BY DEF Local, PlayInv
<1>2. ASSUME UNCHANGED <<board, jumpEnd, motion>> PROVE OnTheBoard'
  BY <1>2 DEF OnTheBoard, InFlight
<1>3. ASSUME NEW c \in Clickable, Click(c) \/ ClickAndMove(c) \/ Jump(c)
      PROVE  OnTheBoard'
  <2>1. CASE Click(c)
    BY <1>2, <2>1 DEF Click, vars, arbiterVars
  <2>2. CASE ClickAndMove(c)
    <3>1. selected \in Cells /\ c \in Cells /\ AskMove(selected, c)
      BY <2>2 DEF ClickAndMove, PutDown, Clickable, PlayInv, PlayerOK
    <3> QED BY <1>1, <3>1, AskOnTheBoard
  <2>3. CASE Jump(c) /\ AsksToJump(c, View)
    <3>1. c \in Cells /\ AskJump(c)
      BY <2>3 DEF Jump, AsksToJump, Clickable
    <3> QED BY <1>1, <3>1, AskOnTheBoard
  <2>4. CASE Jump(c) /\ ~AsksToJump(c, View)
    BY <1>2, <2>4 DEF Jump, vars, arbiterVars
  <2> QED BY <1>3, <2>1, <2>2, <2>3, <2>4
<1>4. CASE StartWait
  BY <1>2, <1>4 DEF StartWait, BeginWait, BeginAdvance, arbiterVars
<1>5. CASE ContinueWait
  <2>1. CASE ResolveWait
    BY <1>1, <2>1, ResolveOnTheBoard
  <2>2. CASE FinishWait
    <3>1. UNCHANGED <<board, motion>>
      BY <2>2 DEF FinishWait, FinishAdvance
    <3>2. \A x \in Positions : jumpEnd'[x] \in {jumpEnd[x], 0}
      BY <2>2 DEF FinishWait, FinishAdvance
    <3> QED BY <3>1, <3>2 DEF OnTheBoard, InFlight
  <2>3. CASE Apply
    BY <1>2, <2>3 DEF Apply, ApplyKingCapture, ApplyArrival, arbiterVars
  <2> QED BY <1>5, <2>1, <2>2, <2>3 DEF ContinueWait, InsideWait
<1>6. ~ServerTakesRequest /\ ~OpponentAsks /\ ~SessionResigns
  BY <1>1 DEF ServerTakesRequest, OpponentAsks, SessionResigns
<1>7. CASE UNCHANGED playVars
  BY <1>2, <1>7 DEF playVars, vars, arbiterVars
<1> QED BY <1>3, <1>4, <1>5, <1>6, <1>7 DEF PlayNext

\* The front end is chosen when the game is built.
LEMMA FrontEndKept ==
    ASSUME [PlayNext]_playVars
    PROVE  Local' = Local
BY DEF PlayNext, Click, ClickAndMove, Jump, StartWait, ContinueWait, ServerTakesRequest,
       OpponentAsks, SessionResigns, playVars, Local

LEMMA InitOnTheBoard == Init => OnTheBoard
<1> SUFFICES ASSUME Init PROVE OnTheBoard
  OBVIOUS
<1>1. \A c \in Positions \ Cells : board[c] = NoPiece
  BY StartAssumption DEF Init, InitialBoard
<1> QED BY <1>1 DEF Init, OnTheBoard, InFlight

\* No piece of a game at a window or of a script ever stands, jumps or flies beyond the
\* edge of the board, on every board and for every sequence of clicks and waits: that the
\* clicks are on the board is enough, the engine does not have to look.
THEOREM LocalGamesStayOnBoard == PlaySpec => []LocalStaysOnBoard
<1> DEFINE Inv == PlayInv /\ (Local => OnTheBoard)
<1>1. PlayInit => Inv
  BY InitPlayInv, InitOnTheBoard DEF PlayInit
<1>2. Inv /\ [PlayNext]_playVars => Inv'
  BY NextPlayInv, LocalStep, FrontEndKept
<1>3. Inv => LocalStaysOnBoard
  <2> SUFFICES ASSUME Inv, Local PROVE OnTheBoard => LocalStaysOnBoard
    BY DEF LocalStaysOnBoard
  <2>1. \A p \in InFlight : motion[p] \in Motions
    BY MotionType DEF InFlight, PlayInv, IInv, TypeOK, LoopType
  <2> QED BY <2>1, FlightWithin DEF OnTheBoard, Within, LocalStaysOnBoard, IsJumpingOn
<1> QED BY <1>1, <1>2, <1>3, PTL DEF PlaySpec
=============================================================================
