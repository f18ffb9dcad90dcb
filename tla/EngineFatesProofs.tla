-------------------------- MODULE EngineFatesProofs --------------------------
(***************************************************************************)
(* GameEngine implements PieceFates: the initial states agree, and every   *)
(* step of the engine is a step of PieceFates or changes no fate.          *)
(***************************************************************************)
EXTENDS EngineFates, GameEngineProofs

\* Promotion makes queens of pawns, so a king is a king from start to end.
KingsStay == \A p \in Pieces : kind[p] = "K" <=> StartKind[p] = "K"

FateInv == IInv /\ LossInv /\ FlightInv /\ KingsStay

LEMMA NextKingsStay == IInv /\ KingsStay /\ [Next]_vars => KingsStay'
<1> SUFFICES ASSUME IInv, KingsStay, [Next]_vars PROVE KingsStay'
  OBVIOUS
<1>1. CASE Apply
  <2> DEFINE e == Head(events)
  <2>1. e \in Reports
    BY <1>1 DEF Apply, ApplyingSome, IInv, TypeOK
  <2>2. e.piece \in Pieces
    BY <2>1 DEF Reports
  <2>3. ApplyKingCapture(e) \/ ApplyArrival(e)
    BY <1>1 DEF Apply
  <2> HIDE DEF e
  <2>4. \/ kind' = kind
        \/ kind' = [kind EXCEPT ![e.piece] = Promote(kind[e.piece], Color[e.piece], e.at[1])]
    BY <2>3 DEF ApplyKingCapture, ApplyArrival
  <2> QED BY <2>2, <2>4 DEF KingsStay, Promote, IInv, TypeOK
<1>2. CASE ~Apply
  <2>1. kind' = kind
    BY <1>2 DEF Next, Wait, RequestMove, RequestJump, Reject, RefuseAfterEnd, Resign,
                BeginWait, BeginAdvance, ResolveWait, Resolve, FinishWait, vars
  <2> QED BY <2>1 DEF KingsStay
<1> QED BY <1>1, <1>2

-----------------------------------------------------------------------------
\* The fates in terms of the board and the list of motions, before and after a step.

FateOf(standing, flying) ==
    [p \in Pieces |-> IF p \in flying THEN "flying"
                      ELSE IF p \in standing THEN "standing" ELSE "gone"]

LEMMA FateIs == Fate = FateOf(OnBoard(board), InFlight)
<1>1. \A p \in Pieces : p \in OnBoard(board) <=> \E c \in Positions : board[c] = p
  BY PieceAssumption DEF OnBoard, NoPiece
<1> QED BY <1>1 DEF Fate, FateOf, InFlight

LEMMA FateBecomes == Fate' = FateOf(OnBoard(board'), InFlight')
<1>1. (Fate = FateOf(OnBoard(board), InFlight))'
  BY FateIs, PTL
<1> QED BY <1>1 DEF FateOf, OnBoard, InFlight

\* The three changes of the board: a piece leaves it, whoever stands on a cell leaves it,
\* a piece is put on a cell on top of whoever stands there.
LEMMA BoardChanges ==
    ASSUME IInv, NEW c \in Positions, NEW p \in Pieces
    PROVE  /\ OnBoard(RemovePiece(board, p)) = OnBoard(board) \ {p}
           /\ OnBoard([board EXCEPT ![c] = NoPiece]) = OnBoard(board) \ {board[c]}
           /\ p \notin OnBoard(board) =>
                 OnBoard([board EXCEPT ![c] = p]) = (OnBoard(board) \ {board[c]}) \cup {p}
<1>1. board \in Boards /\ p # NoPiece
  BY PieceAssumption DEF IInv, TypeOK, NoPiece
<1>2. \A x, y \in Positions : board[x] = board[y] /\ board[x] # NoPiece => x = y
  BY DEF IInv, PlacedOnce
<1>3. OnBoard(RemovePiece(board, p)) = OnBoard(board) \ {p}
  BY <1>1 DEF OnBoard, RemovePiece
<1>4. OnBoard([board EXCEPT ![c] = NoPiece]) = OnBoard(board) \ {board[c]}
  <2> DEFINE b == [board EXCEPT ![c] = NoPiece]
  <2>1. \A x \in Positions : b[x] = IF x = c THEN NoPiece ELSE board[x]
    BY <1>1 DEF Boards
  <2> HIDE DEF b
  <2> QED BY <1>2, <2>1 DEF OnBoard, b
<1>5. ASSUME p \notin OnBoard(board)
      PROVE  OnBoard([board EXCEPT ![c] = p]) = (OnBoard(board) \ {board[c]}) \cup {p}
  <2> DEFINE b == [board EXCEPT ![c] = p]
  <2>1. \A x \in Positions : b[x] = IF x = c THEN p ELSE board[x]
    BY <1>1 DEF Boards
  <2> HIDE DEF b
  <2> QED BY <1>1, <1>2, <2>1 DEF OnBoard, b
<1> QED BY <1>3, <1>4, <1>5

\* The pieces on the board and in flight are two disjoint sets of pieces.
LEMMA FatesApart ==
    ASSUME IInv
    PROVE  /\ OnBoard(board) \subseteq Pieces /\ InFlight \subseteq Pieces
           /\ OnBoard(board) \cap InFlight = {}
           /\ \A c \in Positions : board[c] # NoPiece => board[c] \in OnBoard(board)
           /\ \A p \in Pieces : p # NoPiece
<1>1. \A c \in Positions : board[c] \in Pieces \cup {NoPiece}
  BY DEF IInv, TypeOK, Boards
<1>2. OnBoard(board) \subseteq Pieces
  BY <1>1 DEF OnBoard
<1>3. OnBoard(board) \cap InFlight = {}
  BY DEF IInv, PlacedOnce
<1> QED BY <1>2, <1>3, PieceAssumption DEF OnBoard, InFlight, NoPiece

-----------------------------------------------------------------------------
\* The steps.

LEMMA MoveTakesOff ==
    ASSUME FateInv, NEW s \in Positions, NEW d \in Positions, RequestMove(s, d)
    PROVE  Fates!TakeOff(board[s])
<1> DEFINE p == board[s]
<1>1. p \in Pieces /\ p \in OnBoard(board) /\ p \notin InFlight /\ ~gameOver
  BY FatesApart DEF RequestMove, MoveAllowed, FateInv
<1>2. OnBoard(board') = OnBoard(board) \ {p}
  BY <1>1, BoardChanges DEF RequestMove, StartMotion, FateInv
<1>3. InFlight' = InFlight \cup {p}
  <2> DEFINE m == [source |-> s, dest |-> d, start |-> clock,
                   arrival |-> clock + MoveDuration * Distance(s, d)]
  <2>1. motion' = [motion EXCEPT ![p] = m]
    BY DEF RequestMove, StartMotion
  <2>2. m # Grounded
    BY DEF Grounded, FateInv, IInv, TypeOK
  <2> HIDE DEF m, p
  <2> QED BY <1>1, <2>1, <2>2 DEF InFlight, FateInv, IInv, TypeOK
<1>4. lost' = lost /\ gameOver' = gameOver
  BY DEF RequestMove
<1> HIDE DEF p
<1>5. Fate[p] = "standing" /\ Fate' = [Fate EXCEPT ![p] = "flying"]
  BY <1>1, <1>2, <1>3, FateIs, FateBecomes DEF FateOf
<1> QED BY <1>1, <1>4, <1>5 DEF Fates!TakeOff, p

LEMMA ArrivalFate ==
    ASSUME FateInv, NEW p \in InFlight, ResolveArrival(p), UNCHANGED <<lost, gameOver>>
    PROVE  \/ UNCHANGED Fates!fates
           \/ Fates!Land(p)
           \/ \E q \in Pieces : Fates!LandOn(p, q) \/ Fates!Strike(p, q) \/ Fates!DropOut(p, q)
<1> DEFINE d == motion[p].dest
           q == board[d]
           S == OnBoard(board)
           F == InFlight
<1>1. LoopType /\ IInv
  BY DEF FateInv, IInv, TypeOK, LoopType
<1>2. p \in Pieces /\ p \notin S /\ d \in Positions /\ S \cap F = {}
  BY <1>1, FatesApart, MotionType DEF Motions
<1>3. q # NoPiece => q \in Pieces /\ q \in S /\ q \notin F /\ q # p
  BY <1>1, <1>2, FatesApart
<1>4. Fate = FateOf(S, F) /\ Fate' = FateOf(OnBoard(board'), InFlight')
  BY FateIs, FateBecomes
<1>5. CASE InFlight' = InFlight \ {p} /\ board' = board /\ Intercepted(p)
  <2>1. Fate' = [Fate EXCEPT ![p] = "gone"]
    BY <1>2, <1>4, <1>5 DEF FateOf
  <2>2. Fate[p] = "flying" /\ Fate[q] = "standing" /\ q \in Pieces /\ Enemies(p, q)
    BY <1>2, <1>3, <1>4, <1>5 DEF FateOf, Intercepted
  <2> QED BY <2>1, <2>2 DEF Fates!Strike, Fates!Hostile, Enemies
<1>6. CASE InFlight' = InFlight \ {p} /\ board' = board /\ FriendOn(p, d)
  <2>1. Fate' = [Fate EXCEPT ![p] = "gone"]
    BY <1>2, <1>4, <1>6 DEF FateOf
  <2>2. Fate[p] = "flying" /\ Fate[q] = "standing" /\ q \in Pieces /\ ~Enemies(p, q)
    BY <1>2, <1>3, <1>4, <1>6 DEF FateOf, FriendOn
  <2> QED BY <2>1, <2>2 DEF Fates!DropOut, Fates!Hostile, Enemies
<1>7. CASE InFlight' = InFlight \ {p} /\ board' = [board EXCEPT ![d] = p] /\ ~FriendOn(p, d)
  <2>1. OnBoard(board') = (S \ {q}) \cup {p}
    BY <1>1, <1>2, <1>7, BoardChanges
  <2>2. CASE q = NoPiece
    <3>1. Fate[p] = "flying" /\ Fate' = [Fate EXCEPT ![p] = "standing"]
      BY <1>1, <1>2, <1>4, <1>7, <2>1, <2>2, FatesApart DEF FateOf
    <3> QED BY <3>1 DEF Fates!Land
  <2>3. CASE q # NoPiece
    <3>1. Fate' = [Fate EXCEPT ![p] = "standing", ![q] = "gone"]
      BY <1>2, <1>3, <1>4, <1>7, <2>1, <2>3 DEF FateOf
    <3>2. Fate[p] = "flying" /\ Fate[q] = "standing" /\ q \in Pieces /\ Enemies(p, q)
      BY <1>2, <1>3, <1>4, <1>7, <2>3 DEF FateOf, FriendOn
    <3> QED BY <3>1, <3>2 DEF Fates!LandOn, Fates!Hostile, Enemies
  <2> QED BY <2>2, <2>3
<1>8. CASE InFlight' = InFlight /\ board' = board
  BY <1>4, <1>8 DEF Fates!fates
<1> QED BY <1>1, <1>5, <1>6, <1>7, <1>8, ArrivalEffect DEF FateInv, FlightInv

LEMMA CollisionFate ==
    ASSUME FateInv, NEW p \in InFlight, NEW q \in InFlight, p # q,
           NEW c \in Path(motion[p]) \cap Path(motion[q]), ResolveCollision(p, q, c),
           UNCHANGED <<lost, gameOver>>
    PROVE  \/ UNCHANGED Fates!fates
           \/ Fates!Strike(p, q) \/ Fates!Clash(p, q)
<1> DEFINE S == OnBoard(board)
           F == InFlight
<1>1. LoopType /\ IInv /\ Started
  BY DEF FateInv, FlightInv, IInv, TypeOK, LoopType
<1>2. p \in Pieces /\ q \in Pieces /\ p \notin S /\ q \notin S
  BY <1>1, FatesApart
<1>3. Fate = FateOf(S, F) /\ Fate' = FateOf(OnBoard(board'), InFlight')
  BY FateIs, FateBecomes
<1>4. Fate[p] = "flying" /\ Fate[q] = "flying"
  BY <1>2, <1>3 DEF FateOf
<1>5. /\ board' = board
      /\ \/ InFlight' = InFlight
         \/ Enemies(p, q) /\ \E x \in {p, q} : InFlight' = InFlight \ {x}
         \/ Enemies(p, q) /\ InFlight' = InFlight \ {p, q}
  BY <1>1, CollisionEffect
<1>6. CASE InFlight' = InFlight
  BY <1>3, <1>5, <1>6 DEF Fates!fates
<1>7. ASSUME Enemies(p, q), NEW x \in {p, q}, InFlight' = InFlight \ {x}
      PROVE  Fates!Strike(p, q)
  <2>1. Fate' = [Fate EXCEPT ![x] = "gone"]
    BY <1>2, <1>3, <1>5, <1>7 DEF FateOf
  <2> QED BY <1>4, <1>7, <2>1 DEF Fates!Strike, Fates!Hostile, Enemies
<1>8. CASE Enemies(p, q) /\ InFlight' = InFlight \ {p, q}
  <2>1. Fate' = [Fate EXCEPT ![p] = "gone", ![q] = "gone"]
    BY <1>2, <1>3, <1>5, <1>8 DEF FateOf
  <2> QED BY <1>4, <1>8, <2>1 DEF Fates!Clash, Fates!Hostile, Enemies
<1> QED BY <1>5, <1>6, <1>7, <1>8

LEMMA EncounterFate ==
    ASSUME FateInv, NEW p \in InFlight, NEW c \in Passed(motion[p]), board[c] # NoPiece,
           ResolveEncounter(p, c), UNCHANGED <<lost, gameOver>>
    PROVE  UNCHANGED Fates!fates \/ \E q \in Pieces : Fates!Strike(p, q)
<1> DEFINE S == OnBoard(board)
           F == InFlight
           q == board[c]
<1>1. LoopType /\ IInv /\ Started
  BY DEF FateInv, FlightInv, IInv, TypeOK, LoopType
<1>2. p \in Pieces /\ p \notin S /\ c \in Positions
  BY <1>1, FatesApart, MotionType, PathType
<1>3. q \in Pieces /\ q \in S /\ q \notin F
  BY <1>1, <1>2, FatesApart
<1>4. Fate = FateOf(S, F) /\ Fate' = FateOf(OnBoard(board'), InFlight')
  BY FateIs, FateBecomes
<1>5. /\ InFlight' = InFlight
      /\ \/ board' = board
         \/ Enemies(p, q) /\ board' = [board EXCEPT ![c] = NoPiece]
  BY <1>1, EncounterEffect
<1>6. CASE board' = board
  BY <1>4, <1>5, <1>6 DEF Fates!fates
<1>7. CASE Enemies(p, q) /\ board' = [board EXCEPT ![c] = NoPiece]
  <2>1. OnBoard(board') = S \ {q}
    BY <1>1, <1>2, <1>7, BoardChanges
  <2>2. Fate' = [Fate EXCEPT ![q] = "gone"]
    BY <1>3, <1>4, <1>5, <2>1 DEF FateOf
  <2>3. Fate[p] = "flying" /\ Fate[q] = "standing"
    BY <1>2, <1>3, <1>4 DEF FateOf
  <2> QED BY <1>3, <1>7, <2>2, <2>3 DEF Fates!Strike, Fates!Hostile, Enemies
<1> QED BY <1>5, <1>6, <1>7

\* An arrival with a captured piece is published: the loss is told, of a king with the end
\* of the game.  After the end nothing is told and nothing ends again.
LEMMA ApplyTells ==
    ASSUME FateInv, Apply
    PROVE  UNCHANGED Fates!fates \/ \E p \in Pieces : Fates!Tell(p)
<1> DEFINE e == Head(events)
           p == Head(events).captured
<1>1. events \in Seq(Reports) /\ events # <<>>
  BY DEF FateInv, IInv, TypeOK, ApplyingSome, Apply
<1>2. e \in Reports /\ e = events[1] /\ 1 \in 1 .. Len(events)
  BY <1>1
<1>3. Fate' = Fate
  <2>1. UNCHANGED <<board, motion>>
    BY DEF Apply, ApplyKingCapture, ApplyArrival, arbiterVars
  <2> QED BY <2>1 DEF Fate
<1>4. \/ ~KingTaken(e) /\ gameOver' = gameOver
      \/ KingTaken(e) /\ gameOver' = TRUE
  BY DEF Apply, ApplyKingCapture, ApplyArrival
<1>5. NoteLoss(e)
  BY DEF Apply, ApplyKingCapture, ApplyArrival
<1>6. p \in Pieces \cup {NoPiece}
  BY <1>2 DEF Reports
<1> HIDE DEF e
<1>7. CASE gameOver
  <2>1. lost' = lost /\ gameOver' = gameOver
    BY <1>4, <1>5, <1>7 DEF NoteLoss
  <2> QED BY <1>3, <2>1 DEF Fates!fates
<1>8. CASE ~gameOver /\ p = NoPiece
  <2>1. lost' = lost /\ gameOver' = gameOver
    BY <1>4, <1>5, <1>8 DEF NoteLoss, KingTaken, e
  <2> QED BY <1>3, <2>1 DEF Fates!fates
<1>9. CASE ~gameOver /\ p # NoPiece
  <2>1. p \in Pieces /\ lost' = lost \cup {p}
    BY <1>5, <1>6, <1>9 DEF NoteLoss, e
  <2>2. p \notin lost /\ p \notin InPlay
    BY <1>2, <1>9 DEF FateInv, LossInv, ReportsExact, e
  <2>3. Fate[p] = "gone"
    BY <2>1, <2>2, FateIs DEF FateOf, InPlay
  <2>4. gameOver' = (StartKind[p] = "K")
    BY <1>4, <1>9, <2>1 DEF KingTaken, FateInv, KingsStay, IInv, TypeOK, e
  <2> QED BY <1>3, <1>9, <2>1, <2>2, <2>3, <2>4 DEF Fates!Tell
<1> QED BY <1>7, <1>8, <1>9 DEF FateInv, IInv, TypeOK

LEMMA ResolveFates ==
    ASSUME FateInv, ResolveWait
    PROVE  [Fates!Next]_(Fates!fates)
<1>1. LoopType /\ Resolve /\ UNCHANGED <<lost, gameOver>>
  BY DEF FateInv, IInv, TypeOK, LoopType, ResolveWait
<1>2. PICK e \in Candidates :
          \/ e.type = "arrival"   /\ ResolveArrival(e.piece)
          \/ e.type = "collision" /\ ResolveCollision(e.piece, e.other, e.cell)
          \/ e.type = "encounter" /\ ResolveEncounter(e.piece, e.cell)
  BY <1>1 DEF Resolve
<1>3. /\ e.piece \in InFlight /\ e.piece \in Pieces
      /\ e.type = "collision" =>
            /\ e.other \in InFlight /\ e.other # e.piece /\ e.other \in Pieces
            /\ e.cell \in Path(motion[e.piece]) \cap Path(motion[e.other])
      /\ e.type = "encounter" => e.cell \in Passed(motion[e.piece]) /\ board[e.cell] # NoPiece
  BY <1>1, CandidateType DEF InFlight
<1>4. CASE e.type = "arrival" /\ ResolveArrival(e.piece)
  BY <1>1, <1>3, <1>4, ArrivalFate DEF Fates!Next
<1>5. CASE e.type = "collision" /\ ResolveCollision(e.piece, e.other, e.cell)
  BY <1>1, <1>3, <1>5, CollisionFate DEF Fates!Next
<1>6. CASE e.type = "encounter" /\ ResolveEncounter(e.piece, e.cell)
  BY <1>1, <1>3, <1>6, EncounterFate DEF Fates!Next
<1> QED BY <1>2, <1>4, <1>5, <1>6

LEMMA StepSimulation == FateInv /\ [Next]_vars => [Fates!Next]_(Fates!fates)
<1> SUFFICES ASSUME FateInv, [Next]_vars PROVE [Fates!Next]_(Fates!fates)
  OBVIOUS
<1>1. ASSUME NEW s \in Positions, NEW d \in Positions, RequestMove(s, d)
      PROVE  Fates!Next
  <2>1. board[s] \in Pieces
    BY <1>1, FatesApart DEF RequestMove, MoveAllowed, FateInv
  <2> QED BY <1>1, <2>1, MoveTakesOff DEF Fates!Next
<1>2. CASE \E color \in Colors : Resign(color)
  BY <1>2 DEF Resign, arbiterVars, Fates!Next, Fates!Resign, Fate
<1>3. CASE ResolveWait
  BY <1>3, ResolveFates
<1>4. CASE Apply
  BY <1>4, ApplyTells DEF Fates!Next
<1>5. CASE \/ \E c \in Positions : RequestJump(c)
           \/ Reject \/ RefuseAfterEnd
           \/ \E ms \in TickSizes : BeginWait(ms)
           \/ FinishWait
           \/ UNCHANGED vars
  <2>1. UNCHANGED <<board, motion, lost, gameOver>>
    BY <1>5 DEF RequestJump, Reject, RefuseAfterEnd, BeginWait, BeginAdvance, FinishWait,
                FinishAdvance, arbiterVars, engineVars, vars
  <2> QED BY <2>1 DEF Fates!fates, Fate
<1> QED BY <1>1, <1>2, <1>3, <1>4, <1>5 DEF Next, Wait

LEMMA InitialFates == Init => Fates!Init
<1> SUFFICES ASSUME Init PROVE Fates!Init
  OBVIOUS
<1>1. \A p \in Pieces : board[StartCell[p]] = p
  BY StartAssumption, CellsArePositions DEF Init, InitialBoard
<1>2. \A p \in Pieces : StartCell[p] \in Positions
  BY StartAssumption, CellsArePositions
<1> QED BY <1>1, <1>2 DEF Init, Fates!Init, Fate

LEMMA FatesInvariant == Spec => []FateInv
<1>1. Init => FateInv
  BY InitIInv, InitLossInv, InitFlightInv DEF FateInv, KingsStay, Init
<1>2. FateInv /\ [Next]_vars => FateInv'
  BY NextIInv, NextLossInv, NextFlightInv, NextKingsStay DEF FateInv
<1> QED BY <1>1, <1>2, PTL DEF Spec

\* On every board the engine implements PieceFates: a piece stands, flies or is gone for
\* good, is gone only by meeting another, its loss is told once, after it happened and
\* before the end, and the game ends exactly by a king's loss or a resignation.
THEOREM EngineKeepsFates == Spec => KeepsFates
BY InitialFates, StepSimulation, FatesInvariant, PTL DEF Spec, KeepsFates, Fates!Spec
=============================================================================
