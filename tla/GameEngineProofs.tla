-------------------------- MODULE GameEngineProofs --------------------------
(***************************************************************************)
(* What GameEngine guarantees on every board, for every set of pieces,     *)
(* every duration and every sequence of requests and ticks.                *)
(***************************************************************************)
EXTENDS GameEngine, TLAPS

-----------------------------------------------------------------------------
\* Geometry.  These are about the paths of motions in realtime/motion.py.

LEMMA PositionType ==
    ASSUME NEW c \in Positions
    PROVE  /\ c = <<c[1], c[2]>>
           /\ c[1] \in Int /\ -Margin <= c[1] /\ c[1] < Height + Margin
           /\ c[2] \in Int /\ -Margin <= c[2] /\ c[2] < Width + Margin
BY SizeAssumption, MarginAssumption DEF Positions

\* The cells of the board are positions.
LEMMA CellsArePositions == Cells \subseteq Positions
BY SizeAssumption, MarginAssumption DEF Cells, Positions

\* The length of a path is a natural number, and positive when there is a path.
LEMMA LengthType ==
    ASSUME NEW s \in Positions, NEW d \in Positions
    PROVE  /\ Distance(s, d) \in Nat
           /\ PathLength(s, d) \in Nat
           /\ s # d => PathLength(s, d) >= 1 /\ Distance(s, d) >= 1
<1>1. DRow(s, d) \in Int /\ DCol(s, d) \in Int
  BY PositionType DEF DRow, DCol
<1>2. s # d => DRow(s, d) # 0 \/ DCol(s, d) # 0
  <2>1. s = <<s[1], s[2]>> /\ d = <<d[1], d[2]>>
    BY PositionType
  <2>2. s[1] \in Int /\ s[2] \in Int /\ d[1] \in Int /\ d[2] \in Int
    BY PositionType
  <2>3. s # d => s[1] # d[1] \/ s[2] # d[2]
    BY <2>1
  <2> QED BY <2>2, <2>3 DEF DRow, DCol
<1> QED BY <1>1, <1>2 DEF Distance, PathLength, Abs

\* A path between two places of a rectangle stays inside it, its source included.
LEMMA PathInRectangle ==
    ASSUME NEW r0 \in Int, NEW r1 \in Int, NEW k0 \in Int, NEW k1 \in Int,
           NEW s \in (r0 .. r1) \X (k0 .. k1), NEW d \in (r0 .. r1) \X (k0 .. k1),
           NEW i \in 0 .. PathLength(s, d)
    PROVE  PathCell(s, d, i) \in (r0 .. r1) \X (k0 .. k1)
<1>1. /\ s[1] \in r0 .. r1 /\ s[2] \in k0 .. k1
      /\ d[1] \in r0 .. r1 /\ d[2] \in k0 .. k1
  OBVIOUS
<1>2. CASE ~OnLine(s, d)
  BY <1>2 DEF PathCell
<1>3. CASE OnLine(s, d)
  <2>1. DRow(s, d) \in Int /\ DCol(s, d) \in Int
    BY <1>1 DEF DRow, DCol
  <2>2. Distance(s, d) \in Nat
    BY <2>1 DEF Distance, Abs
  <2>3. i \in Nat /\ i <= Distance(s, d)
    BY <1>3, <2>2 DEF PathLength
  <2>4. s[1] + Sign(DRow(s, d)) * i \in r0 .. r1
    BY <1>1, <1>3, <2>3 DEF OnLine, Distance, Sign, Abs, DRow, DCol
  <2>5. s[2] + Sign(DCol(s, d)) * i \in k0 .. k1
    BY <1>1, <1>3, <2>3 DEF OnLine, Distance, Sign, Abs, DRow, DCol
  <2> QED BY <1>3, <2>4, <2>5 DEF PathCell
<1> QED BY <1>2, <1>3

\* So a path between positions leads over positions only, and one between cells of the
\* board does not leave the board.
LEMMA PathInside ==
    ASSUME NEW s \in Positions, NEW d \in Positions, NEW i \in 0 .. PathLength(s, d)
    PROVE  PathCell(s, d, i) \in Positions
BY PathInRectangle, SizeAssumption, MarginAssumption DEF Positions

LEMMA PathOnBoard ==
    ASSUME NEW s \in Cells, NEW d \in Cells, NEW i \in 0 .. PathLength(s, d)
    PROVE  PathCell(s, d, i) \in Cells
BY PathInRectangle, SizeAssumption DEF Cells

\* The index of the i-th cell of a path is i.
LEMMA IndexOfPathCell ==
    ASSUME NEW m \in Motions, NEW i \in 1 .. Length(m)
    PROVE  IndexOf(m, CellOf(m, i)) = i
<1> DEFINE s == m.source
           d == m.dest
<1>1. s \in Positions /\ d \in Positions
  BY DEF Motions
<1>2. CASE ~OnLine(s, d)
  BY <1>1, <1>2 DEF IndexOf, Length, PathLength, OnLine
<1>3. CASE OnLine(s, d)
  <2>1. i \in Nat /\ 1 <= i /\ i <= Distance(s, d)
    BY <1>1, <1>3, LengthType DEF Length, PathLength
  <2>2. CellOf(m, i) = <<s[1] + Sign(DRow(s, d)) * i, s[2] + Sign(DCol(s, d)) * i>>
    BY <1>3 DEF CellOf, PathCell
  <2>3. DRow(s, d) \in Int /\ DCol(s, d) \in Int
    BY <1>1, PositionType DEF DRow, DCol
  <2>4. /\ Sign(DRow(s, d)) \in {-1, 0, 1} /\ Sign(DCol(s, d)) \in {-1, 0, 1}
        /\ Sign(DRow(s, d)) # 0 \/ Sign(DCol(s, d)) # 0
    BY <2>1, <2>3 DEF Sign, Distance, Abs
  <2>5. /\ DRow(s, CellOf(m, i)) = Sign(DRow(s, d)) * i
        /\ DCol(s, CellOf(m, i)) = Sign(DCol(s, d)) * i
    <3>1. /\ CellOf(m, i)[1] = s[1] + Sign(DRow(s, d)) * i
          /\ CellOf(m, i)[2] = s[2] + Sign(DCol(s, d)) * i
      BY <2>2
    <3> HIDE DEF s
    <3> QED BY <3>1, <2>1, <2>4, <1>1, PositionType DEF DRow, DCol
  <2>6. Distance(s, CellOf(m, i)) = i
    <3> DEFINE x == Sign(DRow(s, d))
               y == Sign(DCol(s, d))
    <3> HIDE DEF x, y
    <3>1. x \in {-1, 0, 1} /\ y \in {-1, 0, 1} /\ (x # 0 \/ y # 0)
      BY <2>4 DEF x, y
    <3>2. DRow(s, CellOf(m, i)) = x * i /\ DCol(s, CellOf(m, i)) = y * i
      BY <2>5 DEF x, y
    <3> QED BY <3>1, <3>2, <2>1 DEF Distance, Abs
  <2> QED BY <1>3, <2>6 DEF IndexOf
<1> QED BY <1>2, <1>3

\* A motion cut short is still a motion between two positions.
LEMMA TruncateType ==
    ASSUME NEW m \in Motions, NEW c \in Path(m)
    PROVE  TruncateBefore(m, c) \in Motions
<1>1. m.source \in Positions /\ m.dest \in Positions /\ m.start \in Int /\ m.arrival \in Int
  BY DEF Motions
<1>2. Length(m) \in Nat
  BY <1>1, LengthType DEF Length
<1>3. PICK i \in 1 .. Length(m) : c = CellOf(m, i)
  BY DEF Path
<1>4. IndexOf(m, c) = i
  BY <1>3, IndexOfPathCell
<1>5. CellOf(m, i - 1) \in Positions
  <2>1. i - 1 \in 0 .. PathLength(m.source, m.dest)
    BY <1>2 DEF Length
  <2> QED BY <1>1, <2>1, PathInside DEF CellOf
<1>6. m.start + Pace(m) * (i - 1) \in Int
  <2>1. Pace(m) \in Int
    BY <1>1, <1>2, <1>3 DEF Pace
  <2> QED BY <1>1, <1>2, <2>1
<1> QED BY <1>4, <1>5, <1>6 DEF TruncateBefore, Motions

\* A path leads over positions.
LEMMA PathType ==
    ASSUME NEW m \in Motions
    PROVE  /\ Path(m) \subseteq Positions
           /\ Passed(m) \subseteq Path(m)
           /\ m.dest # m.source => m.dest \in Path(m)
<1>1. m.source \in Positions /\ m.dest \in Positions
  BY DEF Motions
<1>2. Length(m) \in Nat /\ (m.dest # m.source => Length(m) >= 1)
  BY <1>1, LengthType DEF Length
<1>3. Path(m) \subseteq Positions
  BY <1>1, <1>2, PathInside DEF Path, CellOf, Length
<1>4. Passed(m) \subseteq Path(m)
  BY <1>2 DEF Passed, Path
<1>5. ASSUME m.dest # m.source PROVE m.dest \in Path(m)
  <2> DEFINE u == m.source
             v == m.dest
  <2>1. CASE ~OnLine(u, v)
    <3>1. CellOf(m, Length(m)) = v
      BY <1>5, <2>1 DEF CellOf, PathCell, Length, PathLength
    <3> QED BY <3>1, <1>2, <1>5 DEF Path
  <2>2. CASE OnLine(u, v)
    <3>1. Length(m) = Distance(u, v)
      BY <1>5, <2>2 DEF Length, PathLength
    <3>2. DRow(u, v) \in Int /\ DCol(u, v) \in Int
      BY <1>1, PositionType DEF DRow, DCol
    <3>3. /\ Sign(DRow(u, v)) * Distance(u, v) = DRow(u, v)
          /\ Sign(DCol(u, v)) * Distance(u, v) = DCol(u, v)
      BY <2>2, <3>2 DEF OnLine, Distance, Sign, Abs
    <3>4. CellOf(m, Length(m)) = <<u[1] + DRow(u, v), u[2] + DCol(u, v)>>
      BY <2>2, <3>1, <3>3 DEF CellOf, PathCell
    <3>5. CellOf(m, Length(m)) = v
      BY <3>4, <1>1, PositionType DEF DRow, DCol
    <3> QED BY <3>5, <1>2, <1>5 DEF Path
  <2> QED BY <2>1, <2>2
<1> QED BY <1>3, <1>4, <1>5

\* Removing an element of a list leaves a list.
LEMMA WithoutType ==
    ASSUME NEW S, NEW list \in Seq(S), NEW p
    PROVE  Without(list, p) \in Seq(S)
<1>1. Len(list) \in Nat /\ \A i \in 1 .. Len(list) : list[i] \in S
  OBVIOUS
<1> DEFINE k == IndexIn(list, p)
           f == [i \in 1 .. Len(list) - 1 |-> IF i < k THEN list[i] ELSE list[i + 1]]
<1>2. \A i \in 1 .. Len(list) - 1 : f[i] \in S
  <2> HIDE DEF k
  <2> QED BY <1>1
<1>3. CASE Len(list) = 0
  <2>1. f = <<>>
    <3> HIDE DEF k
    <3> QED BY <1>3
  <2> QED BY <2>1 DEF Without
<1>4. CASE Len(list) > 0
  <2>1. Len(list) - 1 \in Nat
    BY <1>1, <1>4
  <2>2. f \in [1 .. Len(list) - 1 -> S]
    BY <1>2
  <2>3. \A n \in Nat : [1 .. n -> S] \subseteq Seq(S)
    OBVIOUS
  <2>4. f \in Seq(S)
    <3> HIDE DEF f
    <3> QED BY <2>1, <2>2, <2>3
  <2> QED BY <2>4 DEF Without
<1> QED BY <1>1, <1>3, <1>4

-----------------------------------------------------------------------------
\* One iteration of the arbiter's loop.

\* The part of TypeOK that an iteration can disturb.
LoopType ==
    /\ board \in Boards
    /\ motion \in [Pieces -> Motions \cup {Grounded}]
    /\ active \in Seq(Pieces)
    /\ events \in Seq(Reports)

LEMMA MotionType ==
    ASSUME LoopType, NEW p \in Pieces
    PROVE  motion[p] \in Motions
BY SizeAssumption, MarginAssumption DEF LoopType, Motions, Grounded, Positions

\* What the three kinds of candidates are made of.
LEMMA CandidateType ==
    ASSUME LoopType, NEW e \in Candidates
    PROVE  /\ e.piece \in InFlight
           /\ e.type = "collision" =>
                 /\ e.other \in InFlight /\ e.other # e.piece
                 /\ e.cell \in Path(motion[e.piece]) \cap Path(motion[e.other])
           /\ e.type = "encounter" =>
                 /\ e.cell \in Passed(motion[e.piece])
                 /\ board[e.cell] # NoPiece
<1>1. CASE e \in Arrivals
  BY <1>1 DEF Arrivals
<1>2. CASE e \in Collisions
  <2>1. PICK p \in InFlight : \E q \in {r \in InFlight : p < r} : e \in CollisionsOf(p, q)
    BY <1>2 DEF Collisions
  <2>2. PICK q \in InFlight : p < q /\ e \in CollisionsOf(p, q)
    BY <2>1
  <2>3. p # q
    BY <2>2, PieceAssumption DEF InFlight
  <2> QED BY <2>2, <2>3 DEF CollisionsOf
<1>3. CASE e \in Encounters
  <2>1. PICK p \in InFlight : e \in EncountersOf(p)
    BY <1>3 DEF Encounters
  <2> QED BY <2>1 DEF EncountersOf
<1> QED BY <1>1, <1>2, <1>3 DEF Candidates

\* Taking a motion out of the list.
LEMMA RemoveType ==
    ASSUME LoopType, NEW p \in Pieces, Remove(p)
    PROVE  /\ motion' \in [Pieces -> Motions \cup {Grounded}]
           /\ active' \in Seq(Pieces)
           /\ InFlight' = InFlight \ {p}
BY WithoutType DEF LoopType, Remove, InFlight

\* Cutting a motion short at a cell of its path.
LEMMA TruncateStep ==
    ASSUME LoopType, NEW p \in InFlight, NEW c \in Path(motion[p]),
           motion' = [motion EXCEPT ![p] = TruncateBefore(@, c)]
    PROVE  /\ motion' \in [Pieces -> Motions \cup {Grounded}]
           /\ InFlight' \subseteq InFlight
<1>1. p \in Pieces
  BY DEF InFlight
<1>2. TruncateBefore(motion[p], c) \in Motions
  BY <1>1, MotionType, TruncateType
<1> QED BY <1>1, <1>2 DEF LoopType, InFlight

\* The collision of two motions.
LEMMA CollisionStep ==
    ASSUME LoopType, NEW p \in InFlight, NEW q \in InFlight, p # q,
           NEW c \in Path(motion[p]) \cap Path(motion[q]), ResolveCollision(p, q, c)
    PROVE  LoopType' /\ board' = board /\ InFlight' \subseteq InFlight
<1>1. p \in Pieces /\ q \in Pieces
  BY DEF InFlight
<1>2. c \in Positions
  BY <1>1, MotionType, PathType
<1>3. board' = board
  BY DEF ResolveCollision
<1>4. ASSUME SimultaneousCollision(p, q, c)
      PROVE  LoopType' /\ InFlight' \subseteq InFlight
  <2>1. CASE Enemies(p, q)
    <3>1. motion' = [motion EXCEPT ![p] = Grounded, ![q] = Grounded]
      BY <1>4, <2>1 DEF SimultaneousCollision
    <3>2. active' = Without(Without(active, p), q)
      BY <1>4, <2>1 DEF SimultaneousCollision
    <3>3. active' \in Seq(Pieces)
      BY <3>2, WithoutType DEF LoopType
    <3>4. events' \in Seq(Reports)
      <4>1. \A x \in {p, q} : Event(x, c, x) \in Reports
        BY <1>1, <1>2 DEF Event, Reports
      <4>2. PICK x \in {p, q}, y \in {p, q} :
                events' = events \o <<Event(x, c, x), Event(y, c, y)>>
        BY <1>4, <2>1 DEF SimultaneousCollision
      <4> QED BY <4>1, <4>2 DEF LoopType
    <3> QED BY <1>1, <1>3, <3>1, <3>3, <3>4 DEF LoopType, InFlight
  <2>2. CASE ~Enemies(p, q)
    <3>1. motion' = [motion EXCEPT ![p] = TruncateBefore(@, c), ![q] = TruncateBefore(@, c)]
      BY <1>4, <2>2 DEF SimultaneousCollision
    <3>2. TruncateBefore(motion[p], c) \in Motions /\ TruncateBefore(motion[q], c) \in Motions
      BY <1>1, MotionType, TruncateType
    <3> QED BY <1>1, <1>3, <1>4, <2>2, <3>1, <3>2
            DEF LoopType, InFlight, SimultaneousCollision
  <2> QED BY <2>1, <2>2
<1>5. ASSUME NEW early \in {p, q}, NEW late \in {p, q}, RacingCollision(early, late, c)
      PROVE  LoopType' /\ InFlight' \subseteq InFlight
  <2>1. CASE Enemies(early, late)
    <3>1. Remove(early) /\ events' = Append(events, Event(late, c, early))
      BY <1>5, <2>1 DEF RacingCollision
    <3>2. Event(late, c, early) \in Reports
      BY <1>1, <1>2 DEF Event, Reports
    <3>3. events' \in Seq(Reports)
      BY <3>1, <3>2 DEF LoopType
    <3> QED BY <1>1, <1>3, <3>1, <3>3, RemoveType DEF LoopType
  <2>2. CASE ~Enemies(early, late)
    <3>1. motion' = [motion EXCEPT ![late] = TruncateBefore(@, c)]
      BY <1>5, <2>2 DEF RacingCollision
    <3>2. UNCHANGED <<active, events>>
      BY <1>5, <2>2 DEF RacingCollision
    <3> QED BY <1>3, <3>1, <3>2, TruncateStep DEF LoopType
  <2> QED BY <2>1, <2>2
<1> QED BY <1>3, <1>4, <1>5 DEF ResolveCollision

\* A motion meets a piece on its path.
LEMMA EncounterStep ==
    ASSUME LoopType, NEW p \in InFlight, NEW c \in Passed(motion[p]), board[c] # NoPiece,
           ResolveEncounter(p, c)
    PROVE  /\ LoopType' /\ InFlight' \subseteq InFlight
           /\ board' = board \/ board' = [board EXCEPT ![c] = NoPiece]
<1>1. p \in Pieces
  BY DEF InFlight
<1>2. c \in Path(motion[p]) /\ c \in Positions
  BY <1>1, MotionType, PathType
<1>3. CASE Enemies(p, board[c])
  <2>1. /\ board' = [board EXCEPT ![c] = NoPiece]
        /\ events' = Append(events, Event(p, c, board[c]))
        /\ UNCHANGED <<motion, active>>
    BY <1>3 DEF ResolveEncounter
  <2>2. board' \in Boards
    BY <1>2, <2>1 DEF LoopType, Boards
  <2>3. Event(p, c, board[c]) \in Reports
    BY <1>1, <1>2 DEF Event, Reports, LoopType, Boards
  <2>4. events' \in Seq(Reports)
    BY <2>1, <2>3 DEF LoopType
  <2> QED BY <2>1, <2>2, <2>4 DEF LoopType, InFlight
<1>4. CASE ~Enemies(p, board[c])
  <2>1. /\ motion' = [motion EXCEPT ![p] = TruncateBefore(@, c)]
        /\ UNCHANGED <<board, active, events>>
    BY <1>4 DEF ResolveEncounter
  <2> QED BY <1>2, <2>1, TruncateStep DEF LoopType
<1> QED BY <1>3, <1>4

\* A motion is due at its destination: the piece is destroyed, sent back, dropped or put
\* on the board.
LEMMA ArrivalStep ==
    ASSUME LoopType, NEW p \in InFlight, ResolveArrival(p)
    PROVE  /\ LoopType' /\ InFlight' \subseteq InFlight
           /\ \/ board' = board
              \/ \E d \in Positions : /\ board' = [board EXCEPT ![d] = p]
                                      /\ p \notin InFlight'
<1> DEFINE m == motion[p]
           d == motion[p].dest
<1>1. p \in Pieces
  BY DEF InFlight
<1>2. m \in Motions /\ d \in Positions
  BY <1>1, MotionType DEF Motions
<1>3. Event(p, d, p) \in Reports /\ Event(p, d, board[d]) \in Reports
  BY <1>1, <1>2 DEF Event, Reports, LoopType, Boards
<1>4. CASE /\ Remove(p) /\ UNCHANGED board
           /\ events' = Append(events, Event(p, d, p)) \/ UNCHANGED events
  <2>1. events' \in Seq(Reports)
    <3>1. CASE events' = Append(events, Event(p, d, p))
      BY <1>3, <3>1 DEF LoopType
    <3>2. CASE UNCHANGED events
      BY <3>2 DEF LoopType
    <3> QED BY <1>4, <3>1, <3>2
  <2>2. /\ motion' \in [Pieces -> Motions \cup {Grounded}]
        /\ active' \in Seq(Pieces)
        /\ InFlight' = InFlight \ {p}
    BY <1>1, <1>4, RemoveType
  <2>3. board' = board
    BY <1>4
  <2> QED BY <2>1, <2>2, <2>3 DEF LoopType
<1>5. CASE /\ d # m.source
           /\ motion' = [motion EXCEPT ![p] = TruncateBefore(m, d)]
           /\ active' = Append(Without(active, p), p)
           /\ UNCHANGED <<board, events>>
  <2>1. d \in Path(m)
    BY <1>2, <1>5, PathType
  <2>2. active' \in Seq(Pieces)
    BY <1>1, <1>5, WithoutType DEF LoopType
  <2>3. motion' = [motion EXCEPT ![p] = TruncateBefore(@, d)]
    BY <1>1, <1>5 DEF LoopType
  <2> QED BY <1>5, <2>1, <2>2, <2>3, TruncateStep DEF LoopType
<1>6. CASE /\ Remove(p)
           /\ board' = [board EXCEPT ![d] = p]
           /\ events' = Append(events, Event(p, d, board[d]))
  <2>1. board' \in Boards
    BY <1>1, <1>2, <1>6 DEF LoopType, Boards
  <2>2. events' \in Seq(Reports)
    BY <1>3, <1>6 DEF LoopType
  <2>3. /\ motion' \in [Pieces -> Motions \cup {Grounded}]
        /\ active' \in Seq(Pieces)
        /\ InFlight' = InFlight \ {p}
    BY <1>1, <1>6, RemoveType
  <2>4. LoopType'
    BY <2>1, <2>2, <2>3 DEF LoopType
  <2>5. \E x \in Positions : board' = [board EXCEPT ![x] = p] /\ p \notin InFlight'
    BY <1>2, <1>6, <2>3
  <2> QED BY <2>3, <2>4, <2>5
<1> QED BY <1>4, <1>5, <1>6 DEF ResolveArrival

\* PlacedOnce survives every change an iteration of the loop makes.
LEMMA PlacedOnceStep ==
    ASSUME LoopType, PlacedOnce, InFlight' \subseteq InFlight,
           \/ board' = board
           \/ \E c \in Positions : board' = [board EXCEPT ![c] = NoPiece]
           \/ \E d \in Positions, p \in InFlight : /\ board' = [board EXCEPT ![d] = p]
                                                   /\ p \notin InFlight'
    PROVE  PlacedOnce'
<1>1. CASE board' = board
  BY <1>1 DEF PlacedOnce, OnBoard
<1>2. ASSUME NEW c \in Positions, board' = [board EXCEPT ![c] = NoPiece]
      PROVE  PlacedOnce'
  BY <1>2 DEF PlacedOnce, OnBoard, LoopType, Boards
<1>3. ASSUME NEW d \in Positions, NEW p \in InFlight, p \notin InFlight',
             board' = [board EXCEPT ![d] = p]
      PROVE  PlacedOnce'
  <2>1. \A x \in Positions : board'[x] = IF x = d THEN p ELSE board[x]
    BY <1>3 DEF LoopType, Boards
  <2>2. \A x \in Positions : board[x] # p
    BY <1>3, PieceAssumption DEF PlacedOnce, OnBoard, InFlight, NoPiece
  <2>3. \A x, y \in Positions : board'[x] = board'[y] /\ board'[x] # NoPiece => x = y
    BY <2>1, <2>2 DEF PlacedOnce
  <2>4. \A q \in InFlight' : q \notin OnBoard(board')
    BY <1>3, <2>1 DEF PlacedOnce, OnBoard
  <2> QED BY <2>3, <2>4 DEF PlacedOnce, OnBoard
<1> QED BY <1>1, <1>2, <1>3

\* One iteration, whatever it resolves.
LEMMA ResolveStep ==
    ASSUME LoopType, PlacedOnce, Resolve
    PROVE  LoopType' /\ PlacedOnce'
<1>1. PICK e \in Candidates :
          \/ e.type = "arrival"   /\ ResolveArrival(e.piece)
          \/ e.type = "collision" /\ ResolveCollision(e.piece, e.other, e.cell)
          \/ e.type = "encounter" /\ ResolveEncounter(e.piece, e.cell)
  BY DEF Resolve
<1>2. e.piece \in InFlight /\ e.piece \in Pieces
  BY CandidateType DEF InFlight
<1>3. CASE e.type = "arrival" /\ ResolveArrival(e.piece)
  BY <1>2, <1>3, ArrivalStep, PlacedOnceStep
<1>4. CASE e.type = "collision" /\ ResolveCollision(e.piece, e.other, e.cell)
  BY <1>2, <1>4, CandidateType, CollisionStep, PlacedOnceStep
<1>5. CASE e.type = "encounter" /\ ResolveEncounter(e.piece, e.cell)
  <2>1. e.cell \in Passed(motion[e.piece]) /\ board[e.cell] # NoPiece
    BY <1>5, CandidateType
  <2>2. e.cell \in Positions
    BY <1>2, <2>1, MotionType, PathType
  <2> QED BY <1>2, <1>5, <2>1, <2>2, EncounterStep, PlacedOnceStep
<1> QED BY <1>1, <1>3, <1>4, <1>5

-----------------------------------------------------------------------------
\* The engine.

\* _apply_arrivals runs only while there is an arrival left to apply.
ApplyingSome == phase = "applying" => events # <<>>

IInv == TypeOK /\ PlacedOnce /\ ApplyingSome

LEMMA InitIInv == Init => IInv
<1> SUFFICES ASSUME Init PROVE IInv
  OBVIOUS
<1> USE DEF Init
<1>1. \A c \in Positions : /\ InitialBoard[c] \in Pieces \cup {NoPiece}
                           /\ InitialBoard[c] # NoPiece => StartCell[InitialBoard[c]] = c
  BY PieceAssumption DEF InitialBoard, NoPiece
<1>2. board \in Boards
  BY <1>1 DEF InitialBoard, Boards
<1>3. InFlight = {}
  BY DEF InFlight
<1>4. PlacedOnce
  BY <1>1, <1>3 DEF PlacedOnce
<1>5. /\ motion \in [Pieces -> Motions \cup {Grounded}]
      /\ kind \in [Pieces -> Kinds]
      /\ active \in Seq(Pieces) /\ events \in Seq(Reports)
  BY StartAssumption
<1>6. news \in SUBSET Published /\ lost \in SUBSET Pieces /\ jumped \in SUBSET Pieces
  OBVIOUS
<1> QED BY <1>2, <1>4, <1>5, <1>6 DEF IInv, TypeOK, ApplyingSome

\* Accepting a move takes the piece off the board and puts it in the air.
LEMMA RequestMoveStep ==
    ASSUME IInv, NEW s \in Positions, NEW d \in Positions, RequestMove(s, d)
    PROVE  IInv'
<1> DEFINE p == board[s]
           dur == MoveDuration * Distance(s, d)
<1>1. p \in Pieces
  BY DEF RequestMove, MoveAllowed, IInv, TypeOK, Boards
<1>2. dur \in Nat
  BY LengthType, MoveAssumption
<1>3. [source |-> s, dest |-> d, start |-> clock, arrival |-> clock + dur] \in Motions
  BY <1>2 DEF Motions, IInv, TypeOK
<1>4. motion' \in [Pieces -> Motions \cup {Grounded}]
  <2>1. motion' = [motion EXCEPT ![p] =
                     [source |-> s, dest |-> d, start |-> clock, arrival |-> clock + dur]]
    BY DEF RequestMove, StartMotion
  <2> HIDE DEF p, dur
  <2> QED BY <1>1, <1>3, <2>1 DEF IInv, TypeOK
<1>5. InFlight' \subseteq InFlight \cup {p}
  BY DEF RequestMove, StartMotion, InFlight, IInv, TypeOK
<1>6. board' = RemovePiece(board, p)
  BY DEF RequestMove, StartMotion
<1>7. board' \in Boards
  BY <1>6 DEF RemovePiece, Boards, IInv, TypeOK
<1>8. PlacedOnce'
  <2>1. \A c \in Positions : board'[c] = IF board[c] = p THEN NoPiece ELSE board[c]
    BY <1>6 DEF RemovePiece
  <2>2. p \notin OnBoard(board')
    BY <1>1, <2>1, PieceAssumption DEF OnBoard, NoPiece
  <2>3. OnBoard(board') \subseteq OnBoard(board)
    BY <2>1 DEF OnBoard
  <2>4. \A q \in InFlight' : q \notin OnBoard(board')
    BY <1>5, <2>2, <2>3 DEF IInv, PlacedOnce
  <2>5. \A x, y \in Positions : board'[x] = board'[y] /\ board'[x] # NoPiece => x = y
    BY <2>1 DEF IInv, PlacedOnce
  <2> QED BY <2>4, <2>5 DEF PlacedOnce, OnBoard
<1>9. active' \in Seq(Pieces)
  BY <1>1 DEF RequestMove, StartMotion, IInv, TypeOK
<1> QED BY <1>4, <1>7, <1>8, <1>9 DEF RequestMove, IInv, TypeOK, ApplyingSome

\* The steps that leave the board and the motions alone keep PlacedOnce.
LEMMA PlacedOnceFrame ==
    ASSUME PlacedOnce, UNCHANGED <<board, motion>>
    PROVE  PlacedOnce'
BY DEF PlacedOnce, InFlight, OnBoard

LEMMA RequestJumpStep ==
    ASSUME IInv, NEW c \in Positions, RequestJump(c)
    PROVE  IInv'
<1>1. PlacedOnce'
  BY PlacedOnceFrame DEF RequestJump, IInv
<1>2. jumpEnd' \in [Positions -> Nat]
  BY DurationAssumption DEF RequestJump, IInv, TypeOK
<1> QED BY <1>1, <1>2 DEF RequestJump, IInv, TypeOK, ApplyingSome

LEMMA OtherRequestStep ==
    ASSUME IInv, Reject \/ RefuseAfterEnd \/ \E color \in Colors : Resign(color)
    PROVE  IInv'
<1>1. UNCHANGED <<arbiterVars, kind, phase, until, jumped, events, lost, score>>
  BY DEF Reject, RefuseAfterEnd, Resign
<1>2. gameOver' \in BOOLEAN
  BY DEF Reject, RefuseAfterEnd, Resign, IInv, TypeOK
<1>3. news' \in SUBSET Published
  <2>1. \A color \in Colors : Over(Other(color)) \in Published
    BY DEF Colors, Over, Other, Published
  <2>2. Illegal \in Published
    BY DEF Published
  <2> QED BY <2>1, <2>2 DEF Reject, RefuseAfterEnd, Resign
<1>4. PlacedOnce'
  BY <1>1, PlacedOnceFrame DEF IInv, arbiterVars
<1> QED BY <1>1, <1>2, <1>3, <1>4 DEF IInv, TypeOK, ApplyingSome, arbiterVars

LEMMA BeginWaitStep ==
    ASSUME IInv, NEW ms \in Nat, BeginWait(ms)
    PROVE  IInv'
<1>1. PlacedOnce'
  BY PlacedOnceFrame DEF BeginWait, BeginAdvance, arbiterVars, IInv
<1>2. until' \in Nat
  BY DurationAssumption DEF BeginWait, BeginAdvance, IInv, TypeOK
<1>3. jumped' \in SUBSET Pieces
  BY DEF BeginWait, BeginAdvance, IInv, TypeOK, Boards
<1> QED BY <1>1, <1>2, <1>3
        DEF BeginWait, BeginAdvance, arbiterVars, IInv, TypeOK, ApplyingSome

LEMMA ResolveWaitStep ==
    ASSUME IInv, ResolveWait
    PROVE  IInv'
<1>1. LoopType /\ PlacedOnce /\ Resolve
  BY DEF IInv, TypeOK, LoopType, ResolveWait
<1>2. LoopType' /\ PlacedOnce'
  BY <1>1, ResolveStep
<1>3. phase' = "resolving"
  BY DEF ResolveWait, Resolve
<1> QED BY <1>2, <1>3 DEF ResolveWait, Resolve, LoopType, IInv, TypeOK, ApplyingSome

LEMMA ContinueStep ==
    ASSUME NEW rest \in Seq(Reports), Continue(rest)
    PROVE  /\ events' \in Seq(Reports)
           /\ phase' \in {"idle", "resolving", "applying"}
           /\ ApplyingSome'
BY DEF Continue, ApplyingSome

LEMMA FinishWaitStep ==
    ASSUME IInv, FinishWait
    PROVE  IInv'
<1>1. PlacedOnce'
  BY PlacedOnceFrame DEF FinishWait, FinishAdvance, IInv
<1>2. /\ events' \in Seq(Reports)
      /\ phase' \in {"idle", "resolving", "applying"}
      /\ ApplyingSome'
  BY ContinueStep DEF FinishWait, IInv, TypeOK
<1>3. cooldown' \in [Pieces -> Nat] /\ jumpEnd' \in [Positions -> Nat] /\ clock' \in Nat
  BY DurationAssumption DEF FinishWait, FinishAdvance, IInv, TypeOK
<1>4. news' \in SUBSET Published
  <2>1. \A p \in jumped : JumpDone(p) \in Published
    BY DEF JumpDone, Published, IInv, TypeOK
  <2> QED BY <2>1 DEF FinishWait
<1> QED BY <1>1, <1>2, <1>3, <1>4 DEF FinishWait, FinishAdvance, IInv, TypeOK

LEMMA ApplyStep ==
    ASSUME IInv, Apply
    PROVE  IInv'
<1> DEFINE e == Head(events)
<1>1. events \in Seq(Reports) /\ events # <<>>
  BY DEF IInv, TypeOK, ApplyingSome, Apply
<1>2. e \in Reports /\ Tail(events) \in Seq(Reports) /\ <<>> \in Seq(Reports)
  BY <1>1
<1>3. e.piece \in Pieces /\ e.at \in Positions /\ e.captured \in Pieces \cup {NoPiece}
  BY <1>2 DEF Reports
<1>4. UNCHANGED <<clock, board, motion, active, jumpEnd, until, jumped>>
  BY DEF Apply, ApplyKingCapture, ApplyArrival, arbiterVars
<1>5. PlacedOnce'
  BY <1>4, PlacedOnceFrame DEF IInv
<1>6. /\ events' \in Seq(Reports)
      /\ phase' \in {"idle", "resolving", "applying"}
      /\ ApplyingSome'
  BY <1>2, ContinueStep DEF Apply, ApplyKingCapture, ApplyArrival
<1>7. cooldown' \in [Pieces -> Nat] /\ kind' \in [Pieces -> Kinds] /\ gameOver' \in BOOLEAN
  <2>1. CASE ApplyKingCapture(e)
    BY <2>1 DEF ApplyKingCapture, arbiterVars, IInv, TypeOK
  <2>2. CASE ApplyArrival(e)
    <3>1. Promote(kind[e.piece], Color[e.piece], e.at[1]) \in Kinds
      BY <1>3 DEF Promote, Kinds, IInv, TypeOK
    <3>2. clock + LongRest \in Nat
      BY DurationAssumption DEF IInv, TypeOK
    <3> HIDE DEF e
    <3> QED BY <2>2, <1>3, <3>1, <3>2 DEF ApplyArrival, IInv, TypeOK
  <2> QED BY <2>1, <2>2 DEF Apply
<1>8. lost' \in SUBSET Pieces /\ score' \in [Colors -> Nat]
  <2>1. NoteLoss(e)
    BY DEF Apply, ApplyKingCapture, ApplyArrival
  <2>2. Color[e.piece] \in Colors
    BY <1>3, ColorAssumption DEF Colors
  <2>3. ScoreByKind(kind[e.captured]) \in Nat
    BY DEF ScoreByKind
  <2> HIDE DEF e
  <2>4. CASE gameOver \/ e.captured = NoPiece
    BY <2>1, <2>4 DEF NoteLoss, IInv, TypeOK
  <2>5. CASE ~(gameOver \/ e.captured = NoPiece)
    <3>1. /\ lost' = lost \cup {e.captured}
          /\ score' = score \/ score' = [score EXCEPT ![Color[e.piece]] =
                                              @ + ScoreByKind(kind[e.captured])]
      BY <2>1, <2>5 DEF NoteLoss
    <3>2. score' \in [Colors -> Nat]
      <4> DEFINE x == Color[e.piece]
                 n == ScoreByKind(kind[e.captured])
      <4>1. x \in Colors /\ n \in Nat /\ score \in [Colors -> Nat]
        BY <2>2, <2>3 DEF IInv, TypeOK
      <4>2. score' = score \/ score' = [score EXCEPT ![x] = score[x] + n]
        BY <3>1
      <4> HIDE DEF x, n
      <4>3. score[x] + n \in Nat
        BY <4>1
      <4> QED BY <4>1, <4>2, <4>3
    <3> QED BY <3>1, <3>2, <2>5, <1>3 DEF IInv, TypeOK
  <2> QED BY <2>4, <2>5
<1>9. news' \in SUBSET Published
  <2>1. ActionEvent(e) \subseteq Published
    BY <1>3 DEF ActionEvent, Stopped, Captured, Moved, Published
  <2>2. Promoted(e.piece) \in Published
    BY <1>3 DEF Promoted, Published
  <2>3. ASSUME KingTaken(e) PROVE Over(Other(Color[e.captured])) \in Published
    BY DEF Over, Other, Colors, Published
  <2> HIDE DEF e
  <2>4. CASE ApplyKingCapture(e)
    BY <2>1, <2>3, <2>4 DEF ApplyKingCapture
  <2>5. CASE ApplyArrival(e)
    BY <2>1, <2>2, <2>5 DEF ApplyArrival
  <2> QED BY <2>4, <2>5 DEF Apply, e
<1> QED BY <1>4, <1>5, <1>6, <1>7, <1>8, <1>9 DEF IInv, TypeOK

LEMMA NextIInv == IInv /\ [Next]_vars => IInv'
<1> SUFFICES ASSUME IInv, [Next]_vars PROVE IInv'
  OBVIOUS
<1>1. CASE \E s, d \in Positions : RequestMove(s, d)
  BY <1>1, RequestMoveStep
<1>2. CASE \E c \in Positions : RequestJump(c)
  BY <1>2, RequestJumpStep
<1>3. CASE Reject \/ RefuseAfterEnd \/ \E color \in Colors : Resign(color)
  BY <1>3, OtherRequestStep
<1>4. CASE \E ms \in TickSizes : BeginWait(ms)
  BY <1>4, BeginWaitStep, DurationAssumption
<1>5. CASE ResolveWait
  BY <1>5, ResolveWaitStep
<1>6. CASE FinishWait
  BY <1>6, FinishWaitStep
<1>7. CASE Apply
  BY <1>7, ApplyStep
<1>8. CASE UNCHANGED vars
  <2>1. PlacedOnce'
    BY <1>8, PlacedOnceFrame DEF vars, arbiterVars, IInv
  <2> QED BY <1>8, <2>1 DEF vars, arbiterVars, engineVars, IInv, TypeOK, ApplyingSome
<1> QED BY <1>1, <1>2, <1>3, <1>4, <1>5, <1>6, <1>7, <1>8 DEF Next, Wait

\* The inductive invariant holds of every reachable state of the engine.
THEOREM InductiveInvariant == Spec => []IInv
BY InitIInv, NextIInv, PTL DEF Spec

\* On every board and for every sequence of requests, ticks and captures, also for requests
\* up to any Margin beyond the edge, the variables of the engine and its arbiter keep their
\* types: a motion, however often it is cut short, stays within the positions that were
\* asked for, and every report and event names pieces and places there are.  The theorem
\* does not say that pieces stay on the board: request_move does not see to that.
THEOREM TypeCorrect == Spec => []TypeOK
BY InductiveInvariant, PTL DEF IInv

\* A piece is never on two cells, and never on the board while it is in flight.
THEOREM PiecesPlacedOnce == Spec => []PlacedOnce
BY InductiveInvariant, PTL DEF IInv

-----------------------------------------------------------------------------
(***************************************************************************)
(* Losses.  A piece leaves play (board and air) for good; a loss that is   *)
(* pending or published is of a piece that has left play, and no piece has *)
(* two of them.                                                            *)
(***************************************************************************)

InPlay == OnBoard(board) \cup InFlight

\* The pending reports es, given the published losses and the pieces in play.
ReportsExact(es, published, inPlay) ==
    /\ published \cap inPlay = {}
    /\ \A i \in 1 .. Len(es) : es[i].captured # NoPiece =>
          /\ es[i].captured \notin inPlay
          /\ es[i].captured \notin published
          /\ es[i].captured = es[i].piece \/ Enemies(es[i].piece, es[i].captured)
          /\ \A j \in 1 .. Len(es) : es[j].captured = es[i].captured => i = j

LossInv == ReportsExact(events, lost, InPlay)

\* A piece that is in play is reported as it leaves.
LEMMA ReportOneLoss ==
    ASSUME NEW es \in Seq(Reports), NEW published, NEW inPlay, NEW after, NEW r \in Reports,
           ReportsExact(es, published, inPlay),
           after \subseteq inPlay,
           r.captured # NoPiece =>
              /\ r.captured \in inPlay /\ r.captured \notin after
              /\ r.captured = r.piece \/ Enemies(r.piece, r.captured)
    PROVE  ReportsExact(Append(es, r), published, after)
<1> DEFINE fs == Append(es, r)
<1>1. /\ Len(fs) = Len(es) + 1 /\ Len(es) \in Nat
      /\ fs[Len(es) + 1] = r
      /\ \A i \in 1 .. Len(es) : fs[i] = es[i]
  OBVIOUS
<1>2. \A i \in 1 .. Len(fs) : i \in 1 .. Len(es) \/ i = Len(es) + 1
  BY <1>1
<1>3. \A i \in 1 .. Len(es) : es[i].captured # NoPiece => es[i].captured # r.captured
  BY DEF ReportsExact
<1> HIDE DEF fs
<1>4. \A i \in 1 .. Len(fs) : fs[i].captured # NoPiece =>
          /\ fs[i].captured \notin after
          /\ fs[i].captured \notin published
          /\ fs[i].captured = fs[i].piece \/ Enemies(fs[i].piece, fs[i].captured)
  BY <1>1, <1>2 DEF ReportsExact
<1>5. \A i, j \in 1 .. Len(fs) :
          fs[i].captured # NoPiece /\ fs[j].captured = fs[i].captured => i = j
  BY <1>1, <1>2, <1>3 DEF ReportsExact
<1>6. published \cap after = {}
  BY DEF ReportsExact
<1> QED BY <1>4, <1>5, <1>6 DEF ReportsExact, fs

LEMMA ReportNoLoss ==
    ASSUME NEW es, NEW published, NEW inPlay, NEW after,
           ReportsExact(es, published, inPlay), after \subseteq inPlay
    PROVE  ReportsExact(es, published, after)
BY DEF ReportsExact

LEMMA CollisionLoss ==
    ASSUME LoopType, PlacedOnce, LossInv, NEW p \in InFlight, NEW q \in InFlight, p # q,
           NEW c \in Path(motion[p]) \cap Path(motion[q]), ResolveCollision(p, q, c)
    PROVE  ReportsExact(events', lost, InPlay')
<1>1. p \in Pieces /\ q \in Pieces /\ c \in Positions
  BY MotionType, PathType DEF InFlight
<1>2. board' = board /\ InFlight' \subseteq InFlight
  BY CollisionStep
<1>3. InPlay' \subseteq InPlay
  BY <1>2 DEF InPlay, OnBoard
<1>4. p \notin OnBoard(board) /\ q \notin OnBoard(board)
  BY DEF PlacedOnce
<1>5. events \in Seq(Reports) /\ ReportsExact(events, lost, InPlay)
  BY DEF LoopType, LossInv
<1>6. CASE SimultaneousCollision(p, q, c) /\ Enemies(p, q)
  <2>1. PICK x \in {p, q}, y \in {p, q} :
            x # y /\ events' = events \o <<Event(x, c, x), Event(y, c, y)>>
    BY <1>6 DEF SimultaneousCollision
  <2>2. p \notin InPlay' /\ q \notin InPlay'
    BY <1>1, <1>2, <1>4, <1>6 DEF SimultaneousCollision, InFlight, LoopType, InPlay, OnBoard
  <2>3. Event(x, c, x) \in Reports /\ Event(y, c, y) \in Reports
    BY <1>1 DEF Event, Reports
  <2>4. ReportsExact(Append(events, Event(x, c, x)), lost, InPlay \ {x})
    BY <1>5, <2>3, ReportOneLoss DEF Event, InPlay
  <2>5. Append(events, Event(x, c, x)) \in Seq(Reports)
    BY <1>5, <2>3
  <2>8. Event(y, c, y).captured = y /\ Event(y, c, y).piece = y
    BY DEF Event
  <2>9. /\ InPlay' \subseteq InPlay \ {x}
        /\ y \in InPlay \ {x} /\ y \notin InPlay'
    BY <1>3, <2>1, <2>2 DEF InPlay
  <2>6. ReportsExact(Append(Append(events, Event(x, c, x)), Event(y, c, y)), lost, InPlay')
    <3> DEFINE es == Append(events, Event(x, c, x))
               r == Event(y, c, y)
               now == InPlay'
    <3>1. es \in Seq(Reports) /\ r \in Reports /\ ReportsExact(es, lost, InPlay \ {x})
      BY <2>3, <2>4, <2>5
    <3>2. now \subseteq InPlay \ {x} /\ r.captured \in InPlay \ {x} /\ r.captured \notin now
          /\ r.captured = r.piece
      BY <2>8, <2>9
    <3> HIDE DEF es, r, now
    <3>3. ReportsExact(Append(es, r), lost, now)
      BY <3>1, <3>2, ReportOneLoss
    <3> QED BY <3>3 DEF es, r, now
  <2>7. events' = Append(Append(events, Event(x, c, x)), Event(y, c, y))
    BY <1>5, <2>1, <2>3
  <2> QED BY <2>6, <2>7
<1>7. CASE SimultaneousCollision(p, q, c) /\ ~Enemies(p, q)
  BY <1>3, <1>5, <1>7, ReportNoLoss DEF SimultaneousCollision
<1>8. ASSUME NEW early \in {p, q}, NEW late \in {p, q}, RacingCollision(early, late, c)
      PROVE  ReportsExact(events', lost, InPlay')
  <2>1. CASE Enemies(early, late)
    <3>1. Event(late, c, early) \in Reports
      BY <1>1 DEF Event, Reports
    <3>2. early \notin InPlay'
      BY <1>1, <1>2, <1>4, <1>8, <2>1, RemoveType DEF RacingCollision, InPlay, OnBoard
    <3>3. events' = Append(events, Event(late, c, early))
      BY <1>8, <2>1 DEF RacingCollision
    <3>4. Enemies(late, early)
      BY <2>1 DEF Enemies
    <3> QED BY <1>3, <1>5, <3>1, <3>2, <3>3, <3>4, ReportOneLoss DEF Event, InPlay
  <2>2. CASE ~Enemies(early, late)
    BY <1>3, <1>5, <1>8, <2>2, ReportNoLoss DEF RacingCollision
  <2> QED BY <2>1, <2>2
<1> QED BY <1>6, <1>7, <1>8 DEF ResolveCollision

LEMMA EncounterLoss ==
    ASSUME LoopType, PlacedOnce, LossInv, NEW p \in InFlight, NEW c \in Passed(motion[p]),
           board[c] # NoPiece, ResolveEncounter(p, c)
    PROVE  ReportsExact(events', lost, InPlay')
<1>1. p \in Pieces /\ c \in Positions
  BY MotionType, PathType DEF InFlight
<1>2. events \in Seq(Reports) /\ ReportsExact(events, lost, InPlay)
  BY DEF LoopType, LossInv
<1>3. CASE Enemies(p, board[c])
  <2>1. /\ board' = [board EXCEPT ![c] = NoPiece]
        /\ events' = Append(events, Event(p, c, board[c]))
        /\ InFlight' = InFlight
    BY <1>3 DEF ResolveEncounter, InFlight
  <2>2. \A x \in Positions : board'[x] = IF x = c THEN NoPiece ELSE board[x]
    BY <2>1 DEF LoopType, Boards
  <2>3. InPlay' \subseteq InPlay
    BY <2>1, <2>2 DEF InPlay, OnBoard
  <2>4. board[c] \in InPlay /\ board[c] \notin InPlay'
    BY <1>1, <2>1, <2>2 DEF InPlay, OnBoard, PlacedOnce
  <2>5. Event(p, c, board[c]) \in Reports
    BY <1>1 DEF Event, Reports, LoopType, Boards
  <2> QED BY <1>2, <1>3, <2>1, <2>3, <2>4, <2>5, ReportOneLoss DEF Event
<1>4. CASE ~Enemies(p, board[c])
  <2>1. UNCHANGED <<board, events>>
    BY <1>4 DEF ResolveEncounter
  <2>2. InPlay' \subseteq InPlay
    BY <2>1, EncounterStep DEF InPlay, OnBoard
  <2> QED BY <1>2, <2>1, <2>2, ReportNoLoss
<1> QED BY <1>3, <1>4

LEMMA ArrivalLoss ==
    ASSUME LoopType, PlacedOnce, LossInv, NEW p \in InFlight, ResolveArrival(p)
    PROVE  ReportsExact(events', lost, InPlay')
<1> DEFINE d == motion[p].dest
<1>1. p \in Pieces /\ d \in Positions /\ p \in InPlay /\ p \notin OnBoard(board)
  BY MotionType DEF InFlight, Motions, InPlay, PlacedOnce
<1>2. events \in Seq(Reports) /\ ReportsExact(events, lost, InPlay)
  BY DEF LoopType, LossInv
<1>3. InFlight' \subseteq InFlight
  BY ArrivalStep
<1>4. CASE Intercepted(p) /\ Remove(p) /\ events' = Append(events, Event(p, d, p)) /\ board' = board
  <2>1. InFlight' = InFlight \ {p}
    BY <1>1, <1>4, RemoveType
  <2>2. InPlay' \subseteq InPlay /\ p \notin InPlay'
    BY <1>1, <1>4, <2>1 DEF InPlay, OnBoard
  <2>3. Event(p, d, p) \in Reports
    BY <1>1 DEF Event, Reports
  <2> QED BY <1>1, <1>2, <1>4, <2>2, <2>3, ReportOneLoss DEF Event
<1>5. CASE UNCHANGED <<board, events>>
  <2>1. InPlay' \subseteq InPlay
    BY <1>3, <1>5 DEF InPlay, OnBoard
  <2> QED BY <1>2, <1>5, <2>1, ReportNoLoss
<1>6. CASE /\ ~Intercepted(p) /\ ~FriendOn(p, d)
           /\ Remove(p)
           /\ board' = [board EXCEPT ![d] = p]
           /\ events' = Append(events, Event(p, d, board[d]))
  <2>1. InFlight' = InFlight \ {p}
    BY <1>1, <1>6, RemoveType
  <2>2. \A x \in Positions : board'[x] = IF x = d THEN p ELSE board[x]
    BY <1>1, <1>6 DEF LoopType, Boards
  <2>3. InPlay' \subseteq InPlay
    BY <1>1, <2>1, <2>2 DEF InPlay, OnBoard
  <2>4. Event(p, d, board[d]) \in Reports
    BY <1>1 DEF Event, Reports, LoopType, Boards
  <2>5. board[d] # NoPiece => /\ board[d] \in InPlay /\ board[d] \notin InPlay'
                              /\ Enemies(p, board[d])
    <3> SUFFICES ASSUME board[d] # NoPiece
                 PROVE  /\ board[d] \in OnBoard(board) /\ board[d] \notin InPlay'
                        /\ Enemies(p, board[d])
      BY DEF InPlay
    <3>1. board[d] \in OnBoard(board) /\ Enemies(p, board[d])
      BY <1>1, <1>6 DEF OnBoard, FriendOn
    <3>2. board[d] \notin InFlight' /\ board[d] # p
      BY <1>1, <1>3, <3>1 DEF PlacedOnce
    <3>3. board[d] \notin OnBoard(board')
      BY <1>1, <2>2, <3>2 DEF PlacedOnce, OnBoard
    <3> QED BY <3>1, <3>2, <3>3 DEF InPlay
  <2>6. Event(p, d, board[d]).captured = board[d] /\ Event(p, d, board[d]).piece = p
    BY DEF Event
  <2> HIDE DEF d
  <2> QED BY <1>2, <1>6, <2>3, <2>4, <2>5, <2>6, ReportOneLoss
<1> QED BY <1>4, <1>5, <1>6 DEF ResolveArrival

\* The arrival at the head of the batch is published, the rest stays pending or is dropped.
LEMMA PublishHead ==
    ASSUME NEW es \in Seq(Reports), es # <<>>, NEW published, NEW inPlay,
           ReportsExact(es, published, inPlay),
           NEW rest \in {<<>>, Tail(es)},
           NEW after,
           \/ after = published
           \/ es[1].captured # NoPiece /\ after = published \cup {es[1].captured}
    PROVE  ReportsExact(rest, after, inPlay)
<1>1. Len(es) \in Nat /\ 1 \in 1 .. Len(es)
  OBVIOUS
<1>2. after \cap inPlay = {}
  BY <1>1 DEF ReportsExact
<1>3. CASE rest = <<>>
  <2>1. Len(rest) = 0
    BY <1>3
  <2>2. \A i \in 1 .. Len(rest) : FALSE
    BY <2>1
  <2> QED BY <1>2, <2>2 DEF ReportsExact
<1>4. CASE rest = Tail(es)
  <2>1. \A i \in 1 .. Len(rest) : i + 1 \in 1 .. Len(es) /\ i + 1 # 1 /\ rest[i] = es[i + 1]
    BY <1>1, <1>4
  <2>2. \A i, j \in 1 .. Len(es) :
            es[i].captured # NoPiece /\ es[j].captured = es[i].captured => i = j
    BY DEF ReportsExact
  <2>3. \A i \in 1 .. Len(rest) : rest[i].captured # NoPiece => rest[i].captured \notin after
    BY <1>1, <2>1, <2>2 DEF ReportsExact
  <2>4. \A i, j \in 1 .. Len(rest) :
            rest[i].captured # NoPiece /\ rest[j].captured = rest[i].captured => i + 1 = j + 1
    BY <2>1, <2>2
  <2>5. \A i \in 1 .. Len(rest) : rest[i].captured # NoPiece =>
            /\ rest[i].captured \notin inPlay
            /\ rest[i].captured = rest[i].piece \/ Enemies(rest[i].piece, rest[i].captured)
    BY <2>1 DEF ReportsExact
  <2>6. \A i, j \in 1 .. Len(rest) : i + 1 = j + 1 => i = j
    OBVIOUS
  <2> QED BY <1>2, <2>3, <2>4, <2>5, <2>6 DEF ReportsExact
<1> QED BY <1>3, <1>4

LEMMA ResolveLoss ==
    ASSUME IInv, LossInv, ResolveWait
    PROVE  LossInv'
<1>1. LoopType /\ PlacedOnce /\ Resolve /\ lost' = lost
  BY DEF IInv, TypeOK, LoopType, ResolveWait
<1>2. PICK e \in Candidates :
          \/ e.type = "arrival"   /\ ResolveArrival(e.piece)
          \/ e.type = "collision" /\ ResolveCollision(e.piece, e.other, e.cell)
          \/ e.type = "encounter" /\ ResolveEncounter(e.piece, e.cell)
  BY <1>1 DEF Resolve
<1>3. /\ e.piece \in InFlight
      /\ e.type = "collision" =>
            /\ e.other \in InFlight /\ e.other # e.piece
            /\ e.cell \in Path(motion[e.piece]) \cap Path(motion[e.other])
      /\ e.type = "encounter" => e.cell \in Passed(motion[e.piece]) /\ board[e.cell] # NoPiece
  BY <1>1, CandidateType
<1>4. ReportsExact(events', lost, InPlay')
  <2>1. CASE e.type = "arrival"   /\ ResolveArrival(e.piece)
    BY <1>1, <1>3, <2>1, ArrivalLoss
  <2>2. CASE e.type = "collision" /\ ResolveCollision(e.piece, e.other, e.cell)
    BY <1>1, <1>3, <2>2, CollisionLoss
  <2>3. CASE e.type = "encounter" /\ ResolveEncounter(e.piece, e.cell)
    BY <1>1, <1>3, <2>3, EncounterLoss
  <2> QED BY <1>2, <2>1, <2>2, <2>3
<1> QED BY <1>1, <1>4 DEF LossInv

LEMMA ApplyLoss ==
    ASSUME IInv, LossInv, Apply
    PROVE  LossInv'
<1> DEFINE e == Head(events)
<1>1. events \in Seq(Reports) /\ events # <<>>
  BY DEF IInv, TypeOK, ApplyingSome, Apply
<1>2. e = events[1]
  BY <1>1
<1>3. InPlay' = InPlay
  BY DEF Apply, ApplyKingCapture, ApplyArrival, arbiterVars, InPlay, InFlight, OnBoard
<1>4. events' \in {<<>>, Tail(events)} /\ NoteLoss(e)
  BY DEF Apply, ApplyKingCapture, ApplyArrival, Continue
<1> HIDE DEF e
<1>5. \/ lost' = lost
      \/ e.captured # NoPiece /\ lost' = lost \cup {e.captured}
  BY <1>4 DEF NoteLoss
<1>6. ReportsExact(events', lost', InPlay)
  BY <1>1, <1>2, <1>4, <1>5, PublishHead DEF LossInv
<1> QED BY <1>3, <1>6 DEF LossInv

LEMMA NextLossInv == IInv /\ LossInv /\ [Next]_vars => LossInv'
<1> SUFFICES ASSUME IInv, LossInv, [Next]_vars PROVE LossInv'
  OBVIOUS
<1>1. ASSUME NEW s \in Positions, NEW d \in Positions, RequestMove(s, d) PROVE LossInv'
  <2> DEFINE p == board[s]
  <2>1. p \in Pieces /\ p \in OnBoard(board)
    BY <1>1 DEF RequestMove, MoveAllowed, IInv, TypeOK, Boards, OnBoard
  <2>2. InPlay' \subseteq InPlay
    BY <1>1, <2>1 DEF RequestMove, StartMotion, RemovePiece, InPlay, InFlight, OnBoard, IInv, TypeOK
  <2>3. UNCHANGED <<events, lost>>
    BY <1>1 DEF RequestMove
  <2> QED BY <2>2, <2>3, ReportNoLoss DEF LossInv
<1>2. CASE UNCHANGED <<board, motion, events, lost>>
  BY <1>2 DEF LossInv, InPlay, InFlight, OnBoard
<1>3. CASE ResolveWait
  BY <1>3, ResolveLoss
<1>4. CASE Apply
  BY <1>4, ApplyLoss
<1>5. CASE FinishWait
  BY <1>2, <1>5 DEF FinishWait, FinishAdvance, Continue
<1>6. CASE \/ \E c \in Positions : RequestJump(c)
           \/ Reject \/ RefuseAfterEnd \/ \E color \in Colors : Resign(color)
           \/ \E ms \in TickSizes : BeginWait(ms)
           \/ UNCHANGED vars
  BY <1>2, <1>6 DEF RequestJump, Reject, RefuseAfterEnd, Resign, BeginWait, BeginAdvance,
                    arbiterVars, engineVars, vars
<1> QED BY <1>1, <1>3, <1>4, <1>5, <1>6 DEF Next, Wait

LEMMA InitLossInv == Init => LossInv
<1> SUFFICES ASSUME Init PROVE LossInv
  OBVIOUS
<1>1. lost = {} /\ \A i \in 1 .. Len(events) : FALSE
  BY DEF Init
<1> QED BY <1>1 DEF LossInv, ReportsExact

\* Every pending or published loss is of a piece that has left play, and is the only one
\* of that piece, in every reachable state of the engine.
THEOREM LossesExact == Spec => [](IInv /\ LossInv)
<1>1. Init => IInv /\ LossInv
  BY InitIInv, InitLossInv
<1>2. IInv /\ LossInv /\ [Next]_vars => (IInv /\ LossInv)'
  BY NextIInv, NextLossInv
<1> QED BY <1>1, <1>2, PTL DEF Spec

\* A piece whose loss was published never reappears, on the board or in flight.
THEOREM LossesStay == Spec => []LossesAreReal
<1>1. LossInv => LossesAreReal
  BY DEF LossInv, ReportsExact, LossesAreReal, InPlay
<1> QED BY <1>1, LossesExact, PTL

\* No step publishes a second loss of the same piece or a capture of a piece by its own
\* colour, however many arrivals, collisions and encounters one wait() resolves.
THEOREM LossesPublishedOnce == Spec => EachLossOnce
<1> DEFINE Once == \A n \in news' :
          /\ n.type = "capture" => n.victim \notin lost /\ Enemies(n.piece, n.victim)
          /\ n.type = "stopped" => n.piece \notin lost
<1>1. IInv /\ LossInv /\ [Next]_vars => [Once]_vars
  <2> SUFFICES ASSUME IInv, LossInv, Next PROVE Once
    OBVIOUS
  <2>1. CASE Apply
    <3> DEFINE e == Head(events)
    <3>1. events \in Seq(Reports) /\ events # <<>>
      BY <2>1 DEF IInv, TypeOK, ApplyingSome, Apply
    <3>2. e = events[1] /\ 1 \in 1 .. Len(events)
      BY <3>1
    <3> HIDE DEF e
    <3>3. e.captured # NoPiece =>
             e.captured \notin lost /\ (e.captured = e.piece \/ Enemies(e.piece, e.captured))
      BY <3>2 DEF LossInv, ReportsExact
    <3>4. \A n \in news' : n \in ActionEvent(e) \/ n.type \in {"gameover", "promotion"}
      <4>1. ApplyKingCapture(e) \/ ApplyArrival(e)
        BY <2>1 DEF Apply, e
      <4> QED BY <4>1 DEF ApplyKingCapture, ApplyArrival, Over, Promoted
    <3>5. \A n \in ActionEvent(e) :
              /\ n.type = "capture" => n.victim \notin lost /\ Enemies(n.piece, n.victim)
              /\ n.type = "stopped" => n.piece \notin lost
      <4>1. CASE e.captured = e.piece /\ e.captured # NoPiece
        BY <3>3, <4>1 DEF ActionEvent, Stopped
      <4>2. CASE e.captured # e.piece
        BY <3>3, <4>2 DEF ActionEvent, Captured, Moved
      <4>3. e.piece # NoPiece
        <5>1. events[1] \in Reports
          BY <3>1, <3>2
        <5>2. e.piece \in Pieces
          BY <3>2, <5>1 DEF Reports
        <5> QED BY <5>2, PieceAssumption DEF NoPiece
      <4> QED BY <4>1, <4>2, <4>3
    <3> QED BY <3>4, <3>5
  <2>2. CASE ~Apply
    <3>1. \A n \in news' : n.type \in {"illegal", "gameover", "jump"}
      BY <2>2 DEF Next, Wait, RequestMove, RequestJump, Reject, RefuseAfterEnd, Resign,
                  BeginWait, ResolveWait, FinishWait, Illegal, Over, JumpDone
    <3> QED BY <3>1
  <2> QED BY <2>1, <2>2
<1> QED BY <1>1, LossesExact, PTL DEF Spec, EachLossOnce

-----------------------------------------------------------------------------
(***************************************************************************)
(* Flights: the list of motions, the pace of a motion however often it is  *)
(* cut short, and that no event is left behind by the clock.               *)
(***************************************************************************)

\* list.remove(p) on a list that holds every piece at most once.

NoRepeats(list) == \A i, j \in 1 .. Len(list) : list[i] = list[j] => i = j

Members(list) == {list[i] : i \in 1 .. Len(list)}

LEMMA WithoutMember ==
    ASSUME NEW S, NEW list \in Seq(S), NEW p \in Members(list), NoRepeats(list)
    PROVE  /\ Without(list, p) \in Seq(S)
           /\ NoRepeats(Without(list, p))
           /\ Members(Without(list, p)) = Members(list) \ {p}
<1> DEFINE k == IndexIn(list, p)
           w == Without(list, p)
           n == Len(list)
<1>1. n \in Nat /\ DOMAIN list = 1 .. n
  OBVIOUS
<1>2. k \in 1 .. n /\ list[k] = p
  BY <1>1 DEF IndexIn, Members
<1>3. w = [i \in 1 .. n - 1 |-> IF i < k THEN list[i] ELSE list[i + 1]]
  BY DEF Without
<1>4. w \in Seq(S)
  BY WithoutType
<1>5. Len(w) = n - 1
  BY <1>1, <1>2, <1>3, <1>4
<1> HIDE DEF k, w, n
<1>6. \A i \in 1 .. n - 1 : w[i] = IF i < k THEN list[i] ELSE list[i + 1]
  BY <1>3
<1>7. NoRepeats(w)
  <2> SUFFICES ASSUME NEW i \in 1 .. n - 1, NEW j \in 1 .. n - 1, w[i] = w[j]
               PROVE  i = j
    BY <1>5 DEF NoRepeats
  <2>1. \A x, y \in 1 .. n : list[x] = list[y] => x = y
    BY DEF NoRepeats, n
  <2>2. /\ i \in 1 .. n /\ i + 1 \in 1 .. n
        /\ j \in 1 .. n /\ j + 1 \in 1 .. n
    BY <1>1
  <2>3. (IF i < k THEN list[i] ELSE list[i + 1]) = (IF j < k THEN list[j] ELSE list[j + 1])
    BY <1>6
  <2> QED BY <1>1, <1>2, <2>1, <2>2, <2>3
<1>8. Members(w) \subseteq Members(list) \ {p}
  <2> SUFFICES ASSUME NEW i \in 1 .. n - 1 PROVE w[i] \in Members(list) /\ w[i] # p
    BY <1>5 DEF Members
  <2>1. i \in 1 .. n /\ i + 1 \in 1 .. n
    BY <1>1
  <2>2. w[i] \in Members(list)
    BY <1>6, <2>1 DEF Members, n
  <2>3. w[i] # p
    <3>1. \A x \in 1 .. n : list[x] = p => x = k
      BY <1>2 DEF NoRepeats, n
    <3> QED BY <1>1, <1>2, <1>6, <2>1, <3>1
  <2> QED BY <2>2, <2>3
<1>9. Members(list) \ {p} \subseteq Members(w)
  <2> SUFFICES ASSUME NEW i \in 1 .. n, list[i] # p PROVE list[i] \in Members(w)
    BY DEF Members, n
  <2>1. CASE i < k
    <3>1. i \in 1 .. n - 1 /\ w[i] = list[i]
      BY <1>1, <1>2, <1>6, <2>1
    <3> QED BY <1>5, <3>1 DEF Members
  <2>2. CASE i > k
    <3>1. i - 1 \in 1 .. n - 1 /\ w[i - 1] = list[i]
      BY <1>1, <1>2, <1>6, <2>2
    <3> QED BY <1>5, <3>1 DEF Members
  <2> QED BY <1>1, <1>2, <2>1, <2>2
<1> QED BY <1>4, <1>7, <1>8, <1>9 DEF w

LEMMA AppendMember ==
    ASSUME NEW S, NEW list \in Seq(S), NEW p \in S, p \notin Members(list), NoRepeats(list)
    PROVE  /\ Append(list, p) \in Seq(S)
           /\ NoRepeats(Append(list, p))
           /\ Members(Append(list, p)) = Members(list) \cup {p}
<1> DEFINE a == Append(list, p)
<1>1. /\ Len(list) \in Nat /\ Len(a) = Len(list) + 1
      /\ a[Len(list) + 1] = p
      /\ \A i \in 1 .. Len(list) : a[i] = list[i]
      /\ a \in Seq(S)
  OBVIOUS
<1>2. \A i \in 1 .. Len(a) : i \in 1 .. Len(list) \/ i = Len(list) + 1
  BY <1>1
<1>4. 1 .. Len(list) \subseteq 1 .. Len(a) /\ Len(list) + 1 \in 1 .. Len(a)
  BY <1>1
<1> HIDE DEF a
<1>3. NoRepeats(a)
  BY <1>1, <1>2 DEF NoRepeats, Members
<1>5. Members(a) = Members(list) \cup {p}
  BY <1>1, <1>2, <1>4 DEF Members
<1> QED BY <1>1, <1>3, <1>5 DEF a

-----------------------------------------------------------------------------
\* Motions cut short.

\* The cells of a path lie on the line to the destination, the j-th at distance j.
LEMMA PathCellOnLine ==
    ASSUME NEW s \in Positions, NEW d \in Positions, OnLine(s, d), NEW j \in 0 .. Distance(s, d)
    PROVE  /\ OnLine(s, PathCell(s, d, j))
           /\ Distance(s, PathCell(s, d, j)) = j
           /\ j = 0 => PathCell(s, d, j) = s
<1> DEFINE x == Sign(DRow(s, d))
           y == Sign(DCol(s, d))
           c == PathCell(s, d, j)
<1>1. DRow(s, d) \in Int /\ DCol(s, d) \in Int /\ Distance(s, d) \in Nat
  BY PositionType, LengthType DEF DRow, DCol
<1>2. /\ x \in {-1, 0, 1} /\ y \in {-1, 0, 1}
      /\ j # 0 => x # 0 \/ y # 0
      /\ x = 0 \/ y = 0 \/ (x # 0 /\ y # 0)
  BY <1>1 DEF Sign, Distance, Abs
<1>3. c = <<s[1] + x * j, s[2] + y * j>>
  BY DEF PathCell
<1> HIDE DEF x, y, c
<1>4. /\ s = <<s[1], s[2]>> /\ s[1] \in Int /\ s[2] \in Int
  BY PositionType
<1>5. DRow(s, c) = x * j /\ DCol(s, c) = y * j
  BY <1>2, <1>3, <1>4 DEF DRow, DCol
<1>6. OnLine(s, c) /\ Distance(s, c) = j
  BY <1>1, <1>2, <1>5 DEF OnLine, Distance, Abs
<1>7. ASSUME j = 0 PROVE c = s
  BY <1>2, <1>3, <1>4, <1>7
<1> QED BY <1>6, <1>7 DEF c

\* A motion cut short at the i-th cell of its path has i - 1 cells left.
LEMMA TruncateLength ==
    ASSUME NEW m \in Motions, NEW i \in 1 .. Length(m)
    PROVE  LET n == TruncateBefore(m, CellOf(m, i))
           IN /\ n.source = m.source /\ n.dest = CellOf(m, i - 1)
              /\ n.start = m.start
              /\ n.arrival = m.start + Pace(m) * (i - 1)
              /\ Length(n) = i - 1
<1> DEFINE n == TruncateBefore(m, CellOf(m, i))
           s == m.source
           d == m.dest
<1>1. s \in Positions /\ d \in Positions
  BY DEF Motions
<1>2. Length(m) \in Nat
  BY <1>1, LengthType DEF Length
<1>3. /\ n.source = s /\ n.dest = CellOf(m, i - 1)
      /\ n.start = m.start
      /\ n.arrival = m.start + Pace(m) * (i - 1)
  BY IndexOfPathCell DEF TruncateBefore, Motions
<1>4. Length(n) = PathLength(s, PathCell(s, d, i - 1))
  BY <1>3 DEF Length, CellOf
<1> HIDE DEF n
<1>5. CASE OnLine(s, d)
  <2>1. Length(m) <= Distance(s, d)
    BY <1>1, <1>5, LengthType DEF Length, PathLength
  <2>2. i - 1 \in 0 .. Distance(s, d)
    BY <1>1, <1>2, <2>1, LengthType
  <2>3. /\ OnLine(s, PathCell(s, d, i - 1))
        /\ Distance(s, PathCell(s, d, i - 1)) = i - 1
        /\ i - 1 = 0 => PathCell(s, d, i - 1) = s
    BY <1>1, <1>5, <2>2, PathCellOnLine
  <2>4. s = PathCell(s, d, i - 1) => i - 1 = 0
    BY <1>1, <2>3, PositionType DEF Distance, DRow, DCol, Abs
  <2> QED BY <1>2, <1>3, <1>4, <2>3, <2>4 DEF PathLength, n
<1>6. CASE ~OnLine(s, d)
  <2>1. i = 1
    BY <1>1, <1>6 DEF Length, PathLength, OnLine
  <2>2. PathCell(s, d, i - 1) = s
    BY <1>6, <2>1 DEF PathCell
  <2> QED BY <1>3, <1>4, <2>1, <2>2 DEF PathLength, n
<1> QED BY <1>5, <1>6

-----------------------------------------------------------------------------
\* What one iteration of the arbiter's loop does to the flights.

\* A motion in the list has a starting time of the game's clock, which a removed one,
\* Grounded, has not.
Started == \A p \in InFlight : motion[p].start \in Nat

\* The step leaves the motion of r alone or cuts it short at a cell of its path.
OnlyCut(r) ==
    \/ motion'[r] = motion[r]
    \/ \E c \in Path(motion[r]) : motion'[r] = TruncateBefore(motion[r], c)

\* A motion that is cut short stays in the list.
LEMMA CutStaysInFlight ==
    ASSUME LoopType, Started, NEW p \in InFlight, NEW c \in Path(motion[p])
    PROVE  TruncateBefore(motion[p], c) # Grounded
<1> DEFINE m == motion[p]
<1>1. m \in Motions /\ m.start \in Nat
  BY MotionType DEF InFlight, Started
<1>2. TruncateBefore(m, c).start = m.start
  BY <1>1 DEF TruncateBefore, Motions
<1> QED BY <1>1, <1>2 DEF Grounded

LEMMA CutEffect ==
    ASSUME LoopType, Started, NEW p \in InFlight, NEW c \in Path(motion[p]),
           motion' = [motion EXCEPT ![p] = TruncateBefore(@, c)]
    PROVE  InFlight' = InFlight /\ \A r \in InFlight' : OnlyCut(r)
BY CutStaysInFlight DEF InFlight, LoopType, OnlyCut

LEMMA RemoveEffect ==
    ASSUME LoopType, NEW p \in InFlight, Remove(p)
    PROVE  /\ InFlight' = InFlight \ {p} /\ active' = Without(active, p)
           /\ \A r \in InFlight' : OnlyCut(r)
BY DEF InFlight, LoopType, OnlyCut, Remove

LEMMA CollisionEffect ==
    ASSUME LoopType, Started, NEW p \in InFlight, NEW q \in InFlight, p # q,
           NEW c \in Path(motion[p]) \cap Path(motion[q]), ResolveCollision(p, q, c)
    PROVE  /\ board' = board
           /\ \A r \in InFlight' : OnlyCut(r)
           /\ \/ InFlight' = InFlight /\ active' = active
              \/ /\ Enemies(p, q)
                 /\ \E x \in {p, q} : InFlight' = InFlight \ {x} /\ active' = Without(active, x)
              \/ /\ Enemies(p, q)
                 /\ InFlight' = InFlight \ {p, q} /\ active' = Without(Without(active, p), q)
<1>1. board' = board
  BY DEF ResolveCollision
<1>2. CASE SimultaneousCollision(p, q, c) /\ Enemies(p, q)
  <2>1. /\ motion' = [motion EXCEPT ![p] = Grounded, ![q] = Grounded]
        /\ active' = Without(Without(active, p), q)
    BY <1>2 DEF SimultaneousCollision
  <2> QED BY <1>1, <1>2, <2>1 DEF InFlight, LoopType, OnlyCut
<1>3. CASE SimultaneousCollision(p, q, c) /\ ~Enemies(p, q)
  <2>1. motion' = [motion EXCEPT ![p] = TruncateBefore(@, c), ![q] = TruncateBefore(@, c)]
    BY <1>3 DEF SimultaneousCollision
  <2>2. active' = active
    BY <1>3 DEF SimultaneousCollision
  <2>3. /\ TruncateBefore(motion[p], c) # Grounded
        /\ TruncateBefore(motion[q], c) # Grounded
    BY CutStaysInFlight
  <2> QED BY <1>1, <2>1, <2>2, <2>3 DEF InFlight, LoopType, OnlyCut
<1>4. ASSUME NEW early \in {p, q}, NEW late \in {p, q}, early # late,
             RacingCollision(early, late, c)
      PROVE  /\ \A r \in InFlight' : OnlyCut(r)
             /\ \/ InFlight' = InFlight /\ active' = active
                \/ /\ Enemies(p, q)
                   /\ \E x \in {p, q} : InFlight' = InFlight \ {x} /\ active' = Without(active, x)
  <2>1. CASE Enemies(early, late)
    BY <1>4, <2>1, RemoveEffect DEF RacingCollision, Enemies
  <2>2. CASE ~Enemies(early, late)
    BY <1>4, <2>2, CutEffect DEF RacingCollision
  <2> QED BY <2>1, <2>2
<1> QED BY <1>1, <1>2, <1>3, <1>4 DEF ResolveCollision

LEMMA EncounterEffect ==
    ASSUME LoopType, Started, NEW p \in InFlight, NEW c \in Passed(motion[p]),
           board[c] # NoPiece, ResolveEncounter(p, c)
    PROVE  /\ InFlight' = InFlight /\ active' = active
           /\ \A r \in InFlight' : OnlyCut(r)
           /\ \/ board' = board
              \/ Enemies(p, board[c]) /\ board' = [board EXCEPT ![c] = NoPiece]
<1>1. c \in Path(motion[p])
  BY MotionType, PathType DEF InFlight
<1>2. CASE Enemies(p, board[c])
  BY <1>2 DEF ResolveEncounter, InFlight, OnlyCut
<1>3. CASE ~Enemies(p, board[c])
  BY <1>1, <1>3, CutEffect DEF ResolveEncounter
<1> QED BY <1>2, <1>3

LEMMA ArrivalEffect ==
    ASSUME LoopType, Started, NEW p \in InFlight, ResolveArrival(p)
    PROVE  LET d == motion[p].dest
           IN /\ \A r \in InFlight' : OnlyCut(r)
              /\ \/ /\ InFlight' = InFlight \ {p} /\ active' = Without(active, p)
                    /\ \/ Intercepted(p) /\ board' = board
                       \/ FriendOn(p, d) /\ board' = board
                       \/ ~FriendOn(p, d) /\ board' = [board EXCEPT ![d] = p]
                 \/ /\ InFlight' = InFlight /\ active' = Append(Without(active, p), p)
                    /\ board' = board
<1> DEFINE m == motion[p]
           d == motion[p].dest
<1>1. m \in Motions
  BY MotionType DEF InFlight
<1>2. CASE Remove(p) /\ Intercepted(p) /\ UNCHANGED board
  BY <1>2, RemoveEffect
<1>3. CASE /\ d # m.source
           /\ motion' = [motion EXCEPT ![p] = TruncateBefore(m, d)]
           /\ active' = Append(Without(active, p), p)
           /\ UNCHANGED <<board, events>>
  <2>1. d \in Path(m)
    BY <1>1, <1>3, PathType
  <2>2. motion' = [motion EXCEPT ![p] = TruncateBefore(@, d)]
    BY <1>3 DEF LoopType, InFlight
  <2> QED BY <1>3, <2>1, <2>2, CutEffect
<1>4. CASE Remove(p) /\ FriendOn(p, d) /\ UNCHANGED board
  BY <1>4, RemoveEffect
<1>5. CASE Remove(p) /\ ~FriendOn(p, d) /\ board' = [board EXCEPT ![d] = p]
  BY <1>5, RemoveEffect
<1> QED BY <1>2, <1>3, <1>4, <1>5 DEF ResolveArrival

-----------------------------------------------------------------------------
\* The pace of a motion.

\* What one cell of a flight of p costs: a knight's path has one cell for two.
Unit(p) == MoveDuration * (IF kind[p] = "N" THEN 2 ELSE 1)

LEMMA UnitType ==
    ASSUME NEW p
    PROVE  Unit(p) \in Nat \ {0}
BY MoveAssumption DEF Unit

LEMMA DivideProduct ==
    ASSUME NEW n \in Nat \ {0}, NEW u \in Nat
    PROVE  (n * u) \div n = u
OBVIOUS

\* PaceKept in terms of Unit.
Steady(p) == motion[p].arrival - motion[p].start = Length(motion[p]) * Unit(p)

LEMMA UnitProduct ==
    ASSUME NEW n \in Nat, NEW k
    PROVE  n * (MoveDuration * (IF k = "N" THEN 2 ELSE 1))
             = n * MoveDuration * (IF k = "N" THEN 2 ELSE 1)
BY MoveAssumption

LEMMA LengthOfMotion ==
    ASSUME NEW m \in Motions
    PROVE  Length(m) \in Nat
BY LengthType DEF Length, Motions

LEMMA PaceIsSteady ==
    ASSUME LoopType, PaceKept
    PROVE  \A p \in InFlight : Steady(p)
<1> SUFFICES ASSUME NEW p \in InFlight PROVE Steady(p)
  OBVIOUS
<1>1. Length(motion[p]) \in Nat
  BY MotionType, LengthOfMotion DEF InFlight
<1> QED BY <1>1, UnitProduct DEF PaceKept, Steady, Unit

\* Where a steady flight is when: at the i-th cell after i units.
LEMMA SteadyTimes ==
    ASSUME NEW m \in Motions, NEW u \in Nat \ {0}, m.arrival - m.start = Length(m) * u,
           NEW i \in 1 .. Length(m)
    PROVE  Pace(m) = u /\ TimeAt(m, CellOf(m, i)) = m.start + u * i
<1> DEFINE n == Length(m)
<1>1. n \in Nat /\ n # 0
  BY LengthOfMotion
<1>2. Pace(m) = u
  <2> HIDE DEF n
  <2>1. Pace(m) = (n * u) \div n
    BY DEF Pace, n
  <2> QED BY <1>1, <2>1, DivideProduct
<1>3. IndexOf(m, CellOf(m, i)) = i
  BY IndexOfPathCell
<1> QED BY <1>2, <1>3 DEF TimeAt

\* A steady flight that is cut short is still steady.
LEMMA SteadyCut ==
    ASSUME LoopType, Started, NEW p \in InFlight, Steady(p), OnlyCut(p), kind' = kind
    PROVE  Steady(p)' /\ motion'[p].start = motion[p].start
<1>1. CASE motion'[p] = motion[p]
  BY <1>1 DEF Steady, Unit
<1>2. ASSUME NEW c \in Path(motion[p]), motion'[p] = TruncateBefore(motion[p], c)
      PROVE  Steady(p)' /\ motion'[p].start = motion[p].start
  <2> DEFINE m == motion[p]
             w == motion'[p]
  <2>1. m \in Motions /\ m.start \in Nat
    BY MotionType DEF InFlight, Started
  <2>2. PICK i \in 1 .. Length(m) : c = CellOf(m, i)
    BY DEF Path
  <2>3. /\ w.start = m.start
        /\ w.arrival = m.start + Pace(m) * (i - 1)
        /\ Length(w) = i - 1
    BY <1>2, <2>1, <2>2, TruncateLength
  <2>4. Pace(m) = Unit(p)
    BY <2>1, <2>2, UnitType, SteadyTimes DEF Steady
  <2>5. i \in Int /\ Unit(p) \in Nat
    BY <2>1, LengthType, UnitType DEF Length, Motions
  <2>6. Unit(p)' = Unit(p)
    BY DEF Unit
  <2> HIDE DEF w, m
  <2>7. w.arrival - w.start = Length(w) * Unit(p)
    BY <2>1, <2>3, <2>4, <2>5
  <2> QED BY <2>3, <2>6, <2>7 DEF Steady, w, m
<1> QED BY <1>1, <1>2 DEF OnlyCut

\* A legal move has a straight path, a knight's one cell for a distance of two.
LEMMA LegalMoveSteady ==
    ASSUME NEW s \in Positions, NEW d \in Positions, NEW k \in Kinds, NEW b, NEW color,
           IsLegal(b, k, color, s, d)
    PROVE  /\ s # d /\ Distance(s, d) >= 1
           /\ Distance(s, d) = PathLength(s, d) * (IF k = "N" THEN 2 ELSE 1)
<1>1. DRow(s, d) \in Int /\ DCol(s, d) \in Int
  BY PositionType DEF DRow, DCol
<1>2. s = d => DRow(s, d) = 0 /\ DCol(s, d) = 0
  BY PositionType DEF DRow, DCol
<1>3. s # d => DRow(s, d) # 0 \/ DCol(s, d) # 0
  <2>1. s # d => Distance(s, d) >= 1
    BY LengthType
  <2> QED BY <1>1, <2>1 DEF Distance, Abs
<1>4. CASE k = "N"
  <2>1. {Abs(DRow(s, d)), Abs(DCol(s, d))} = {1, 2}
    BY <1>4 DEF IsLegal
  <2>2. \/ Abs(DRow(s, d)) = 1 /\ Abs(DCol(s, d)) = 2
        \/ Abs(DRow(s, d)) = 2 /\ Abs(DCol(s, d)) = 1
    <3> DEFINE a == Abs(DRow(s, d))
               e == Abs(DCol(s, d))
    <3> HIDE DEF a, e
    <3>1. {a, e} = {1, 2}
      BY <2>1 DEF a, e
    <3>2. a \in {1, 2} /\ e \in {1, 2} /\ 1 \in {a, e} /\ 2 \in {a, e}
      BY <3>1
    <3> QED BY <3>2 DEF a, e
  <2> QED BY <1>1, <1>2, <1>4, <2>2 DEF OnLine, PathLength, Distance, Abs
<1>5. CASE k # "N"
  <2>1. /\ s # d /\ OnLine(s, d)
    <3>1. CASE k = "K"
      BY <1>1, <1>2, <3>1 DEF IsLegal, Distance, OnLine, Abs
    <3>2. CASE k = "P"
      BY <1>1, <1>2, <3>2 DEF IsLegal, PawnLegal, PawnDirection, OnLine, Abs
    <3>3. CASE k \in {"R", "B", "Q"}
      BY <1>1, <1>2, <3>3 DEF IsLegal, Straight, Diagonal, OnLine
    <3> QED BY <1>5, <3>1, <3>2, <3>3 DEF Kinds
  <2> QED BY <1>5, <2>1, LengthType DEF PathLength
<1> QED BY <1>4, <1>5

-----------------------------------------------------------------------------
(***************************************************************************)
(* The inductive invariant.  FlightListExact and PaceKept need Started,    *)
(* which tells a motion of the list from a removed one; NothingLate is     *)
(* NothingOverdue kept up while the arrivals are applied.                  *)
(***************************************************************************)

Events == Arrivals \cup Collisions \cup Encounters

NothingLate == phase # "resolving" => \A e \in Events : e.key[1] > clock

FlightInv == Started /\ FlightListExact /\ PaceKept /\ NothingLate

\* FlightListExact in terms of the operators on lists.
LEMMA ListExact ==
    ASSUME active \in Seq(Pieces)
    PROVE  FlightListExact <=> Members(active) = InFlight /\ NoRepeats(active)
<1>1. DOMAIN active = 1 .. Len(active)
  OBVIOUS
<1> QED BY <1>1 DEF FlightListExact, Members, NoRepeats


LEMMA ResolveFlights ==
    ASSUME IInv, FlightInv, ResolveWait
    PROVE  FlightInv'
<1>1. LoopType /\ PlacedOnce /\ Resolve /\ kind' = kind
  BY DEF IInv, TypeOK, LoopType, ResolveWait, Resolve
<1>2. PICK e \in Candidates :
          \/ e.type = "arrival"   /\ ResolveArrival(e.piece)
          \/ e.type = "collision" /\ ResolveCollision(e.piece, e.other, e.cell)
          \/ e.type = "encounter" /\ ResolveEncounter(e.piece, e.cell)
  BY <1>1 DEF Resolve
<1>3. /\ e.piece \in InFlight
      /\ e.type = "collision" =>
            /\ e.other \in InFlight /\ e.other # e.piece
            /\ e.cell \in Path(motion[e.piece]) \cap Path(motion[e.other])
      /\ e.type = "encounter" => e.cell \in Passed(motion[e.piece]) /\ board[e.cell] # NoPiece
  BY <1>1, CandidateType
<1>4. /\ \A r \in InFlight' : OnlyCut(r)
      /\ \/ InFlight' = InFlight /\ active' = active
         \/ \E x \in InFlight : InFlight' = InFlight \ {x} /\ active' = Without(active, x)
         \/ \E x, y \in InFlight : /\ x # y /\ InFlight' = InFlight \ {x, y}
                                   /\ active' = Without(Without(active, x), y)
         \/ \E x \in InFlight : /\ InFlight' = InFlight
                                /\ active' = Append(Without(active, x), x)
  <2>1. CASE e.type = "arrival" /\ ResolveArrival(e.piece)
    BY <1>1, <1>3, <2>1, ArrivalEffect DEF FlightInv
  <2>2. CASE e.type = "collision" /\ ResolveCollision(e.piece, e.other, e.cell)
    BY <1>1, <1>3, <2>2, CollisionEffect DEF FlightInv
  <2>3. CASE e.type = "encounter" /\ ResolveEncounter(e.piece, e.cell)
    BY <1>1, <1>3, <2>3, EncounterEffect DEF FlightInv
  <2> QED BY <1>2, <2>1, <2>2, <2>3
<1>5. LoopType'
  BY <1>1, ResolveStep
<1>6. Started' /\ PaceKept'
  <2>1. \A r \in InFlight : Steady(r)
    BY <1>1, PaceIsSteady DEF FlightInv
  <2>2. InFlight' \subseteq InFlight
    BY <1>4
  <2>3. \A r \in InFlight' : Steady(r)' /\ motion'[r].start = motion[r].start
    BY <1>1, <1>4, <2>1, <2>2, SteadyCut DEF FlightInv
  <2>4. \A r \in InFlight' : Length(motion'[r]) \in Nat
    <3>1. \A r \in InFlight' : motion'[r] \in Motions
      BY <1>5, SizeAssumption, MarginAssumption DEF InFlight, LoopType, Grounded, Motions, Positions
    <3> QED BY <3>1, LengthOfMotion
  <2>5. PaceKept'
    BY <2>3, <2>4, UnitProduct DEF PaceKept, Steady, Unit
  <2> QED BY <2>2, <2>3, <2>5 DEF Started, FlightInv
<1>7. FlightListExact'
  <2>1. active \in Seq(Pieces) /\ Members(active) = InFlight /\ NoRepeats(active)
    BY <1>1, ListExact DEF LoopType, FlightInv
  <2>2. InFlight \subseteq Pieces
    BY DEF InFlight
  <2>3. Members(active') = InFlight' /\ NoRepeats(active')
    <3>1. CASE InFlight' = InFlight /\ active' = active
      BY <2>1, <3>1
    <3>2. ASSUME NEW x \in InFlight, InFlight' = InFlight \ {x}, active' = Without(active, x)
          PROVE  Members(active') = InFlight' /\ NoRepeats(active')
      BY <2>1, <3>2, WithoutMember
    <3>3. ASSUME NEW x \in InFlight, NEW y \in InFlight, x # y, InFlight' = InFlight \ {x, y},
                 active' = Without(Without(active, x), y)
          PROVE  Members(active') = InFlight' /\ NoRepeats(active')
      <4> DEFINE list == Without(active, x)
      <4>1. list \in Seq(Pieces) /\ NoRepeats(list) /\ Members(list) = InFlight \ {x}
        BY <2>1, WithoutMember
      <4> HIDE DEF list
      <4>2. active' = Without(list, y) /\ y \in Members(list)
        BY <3>3, <4>1 DEF list
      <4> QED BY <3>3, <4>1, <4>2, WithoutMember
    <3>4. ASSUME NEW x \in InFlight, InFlight' = InFlight,
                 active' = Append(Without(active, x), x)
          PROVE  Members(active') = InFlight' /\ NoRepeats(active')
      <4> DEFINE list == Without(active, x)
      <4>1. list \in Seq(Pieces) /\ NoRepeats(list) /\ Members(list) = InFlight \ {x}
        BY <2>1, WithoutMember
      <4> HIDE DEF list
      <4>2. active' = Append(list, x) /\ x \notin Members(list) /\ x \in Pieces
        BY <2>2, <3>4, <4>1 DEF list
      <4>3. NoRepeats(Append(list, x)) /\ Members(Append(list, x)) = Members(list) \cup {x}
        BY <4>1, <4>2, AppendMember
      <4> QED BY <3>4, <4>1, <4>2, <4>3
    <3> QED BY <1>4, <3>1, <3>2, <3>3, <3>4
  <2>4. DOMAIN active' = 1 .. Len(active')
    BY <1>5 DEF LoopType
  <2> QED BY <2>3, <2>4 DEF FlightListExact, Members, NoRepeats
<1>8. NothingLate'
  BY <1>1 DEF NothingLate, Resolve
<1> QED BY <1>6, <1>7, <1>8 DEF FlightInv

\* Every candidate is later than t, said of the flights and the board.
Due(t) ==
    /\ \A p \in InFlight : motion[p].arrival > t
    /\ \A p, q \in InFlight : p < q =>
          \A c \in Path(motion[p]) \cap Path(motion[q]) :
              Larger(TimeAt(motion[p], c), TimeAt(motion[q], c)) > t
    /\ \A p \in InFlight : \A c \in Passed(motion[p]) :
          board[c] # NoPiece => TimeAt(motion[p], c) > t

LEMMA EventsDue == \A t : (\A e \in Events : e.key[1] > t) <=> Due(t)
<1> SUFFICES ASSUME NEW t PROVE (\A e \in Events : e.key[1] > t) <=> Due(t)
  OBVIOUS
<1>1. (\A e \in Arrivals : e.key[1] > t) <=> \A p \in InFlight : motion[p].arrival > t
  <2>1. ASSUME NEW p \in InFlight
        PROVE  \E e \in Arrivals : e.key[1] = motion[p].arrival
    <3> DEFINE e == [type |-> "arrival", key |-> <<motion[p].arrival, 1, p, 0, 0, 0>>,
                     piece |-> p, other |-> NoPiece, cell |-> motion[p].dest]
    <3>1. e \in Arrivals
      BY DEF Arrivals
    <3> QED BY <3>1
  <2>2. ASSUME NEW e \in Arrivals
        PROVE  \E p \in InFlight : e.key[1] = motion[p].arrival
    BY DEF Arrivals
  <2> QED BY <2>1, <2>2
<1>2. (\A e \in Collisions : e.key[1] > t) <=>
          \A p, q \in InFlight : p < q =>
              \A c \in Path(motion[p]) \cap Path(motion[q]) :
                  Larger(TimeAt(motion[p], c), TimeAt(motion[q], c)) > t
  <2>1. ASSUME NEW p \in InFlight, NEW q \in InFlight, p < q,
               NEW c \in Path(motion[p]) \cap Path(motion[q])
        PROVE  \E e \in Collisions :
                   e.key[1] = Larger(TimeAt(motion[p], c), TimeAt(motion[q], c))
    <3> DEFINE e == [type |-> "collision",
                     key |-> <<Larger(TimeAt(motion[p], c), TimeAt(motion[q], c)), 0,
                               Smaller(p, q), Larger(p, q), c[1], c[2]>>,
                     piece |-> p, other |-> q, cell |-> c]
    <3>1. e \in CollisionsOf(p, q)
      BY DEF CollisionsOf
    <3>2. e \in Collisions
      BY <2>1, <3>1 DEF Collisions
    <3> QED BY <3>2
  <2>2. ASSUME NEW e \in Collisions
        PROVE  \E p, q \in InFlight : p < q /\ e \in CollisionsOf(p, q)
    BY DEF Collisions
  <2>3. ASSUME NEW p, NEW q, NEW e \in CollisionsOf(p, q)
        PROVE  \E c \in Path(motion[p]) \cap Path(motion[q]) :
                   e.key[1] = Larger(TimeAt(motion[p], c), TimeAt(motion[q], c))
    BY DEF CollisionsOf
  <2>4. ASSUME \A p, q \in InFlight : p < q =>
                   \A c \in Path(motion[p]) \cap Path(motion[q]) :
                       Larger(TimeAt(motion[p], c), TimeAt(motion[q], c)) > t,
               NEW e \in Collisions
        PROVE  e.key[1] > t
    <3>1. PICK p \in InFlight, q \in InFlight : p < q /\ e \in CollisionsOf(p, q)
      BY <2>2
    <3>2. PICK c \in Path(motion[p]) \cap Path(motion[q]) :
              e.key[1] = Larger(TimeAt(motion[p], c), TimeAt(motion[q], c))
      BY <2>3, <3>1
    <3> QED BY <2>4, <3>1, <3>2
  <2>5. ASSUME \A e \in Collisions : e.key[1] > t,
               NEW p \in InFlight, NEW q \in InFlight, p < q,
               NEW c \in Path(motion[p]) \cap Path(motion[q])
        PROVE  Larger(TimeAt(motion[p], c), TimeAt(motion[q], c)) > t
    BY <2>1, <2>5
  <2> QED BY <2>4, <2>5
<1>3. (\A e \in Encounters : e.key[1] > t) <=>
          \A p \in InFlight : \A c \in Passed(motion[p]) :
              board[c] # NoPiece => TimeAt(motion[p], c) > t
  <2>1. ASSUME NEW p \in InFlight, NEW c \in Passed(motion[p]), board[c] # NoPiece
        PROVE  \E e \in Encounters : e.key[1] = TimeAt(motion[p], c)
    <3> DEFINE e == [type |-> "encounter",
                     key |-> <<TimeAt(motion[p], c), 0, p, board[c], 0, 0>>,
                     piece |-> p, other |-> board[c], cell |-> c]
    <3>1. e \in EncountersOf(p)
      BY <2>1 DEF EncountersOf
    <3>2. e \in Encounters
      BY <3>1 DEF Encounters
    <3> QED BY <3>2
  <2>2. ASSUME NEW e \in Encounters
        PROVE  \E p \in InFlight : \E c \in Passed(motion[p]) :
                   board[c] # NoPiece /\ e.key[1] = TimeAt(motion[p], c)
    BY DEF Encounters, EncountersOf
  <2> QED BY <2>1, <2>2
<1> QED BY <1>1, <1>2, <1>3 DEF Events, Due

LEMMA EventTimes ==
    ASSUME IInv, FlightInv, NEW p \in InFlight
    PROVE  /\ motion[p].arrival \in Int
           /\ \A c \in Path(motion[p]) : TimeAt(motion[p], c) \in Int
<1>1. LoopType
  BY DEF IInv, TypeOK, LoopType
<1>2. motion[p] \in Motions
  BY <1>1, MotionType DEF InFlight
<1>3. Steady(p) /\ motion[p].start \in Nat
  BY <1>1, PaceIsSteady DEF FlightInv, Started
<1>4. ASSUME NEW c \in Path(motion[p]) PROVE TimeAt(motion[p], c) \in Int
  <2>1. PICK i \in 1 .. Length(motion[p]) : c = CellOf(motion[p], i)
    BY DEF Path
  <2>2. Length(motion[p]) \in Nat
    BY <1>2, LengthOfMotion
  <2>3. TimeAt(motion[p], c) = motion[p].start + Unit(p) * i
    BY <1>2, <1>3, <2>1, UnitType, SteadyTimes DEF Steady
  <2> QED BY <1>3, <2>2, <2>3, UnitType
<1> QED BY <1>2, <1>4 DEF Motions

\* Accepting a move adds a steady flight to the list, all of whose events are ahead.
LEMMA RequestMoveFlights ==
    ASSUME IInv, FlightInv, NEW s \in Positions, NEW d \in Positions, RequestMove(s, d)
    PROVE  FlightInv'
<1> DEFINE p == board[s]
           dur == MoveDuration * Distance(s, d)
           m == [source |-> s, dest |-> d, start |-> clock, arrival |-> clock + dur]
<1>1. p \in Pieces /\ p \in OnBoard(board) /\ p \notin InFlight
  BY DEF RequestMove, MoveAllowed, IInv, TypeOK, Boards, OnBoard, PlacedOnce
<1>2. s # d /\ dur = Length(m) * Unit(p)
  <2>1. /\ s # d
        /\ Distance(s, d) = PathLength(s, d) * (IF kind[p] = "N" THEN 2 ELSE 1)
    BY <1>1, LegalMoveSteady DEF RequestMove, MoveAllowed, ValidMove, IInv, TypeOK
  <2>2. Length(m) = PathLength(s, d)
    BY DEF Length
  <2>3. PathLength(s, d) \in Nat
    BY LengthType
  <2> DEFINE n == PathLength(s, d)
             k == kind[p]
  <2> HIDE DEF n, k
  <2>4. MoveDuration * (n * (IF k = "N" THEN 2 ELSE 1))
          = n * (MoveDuration * (IF k = "N" THEN 2 ELSE 1))
    BY <2>3, MoveAssumption DEF n
  <2> QED BY <2>1, <2>2, <2>4 DEF Unit, n, k
<1>3. clock \in Nat /\ Unit(p) \in Nat \ {0}
  BY UnitType DEF IInv, TypeOK
<1>4. /\ motion' = [motion EXCEPT ![p] = m]
      /\ active' = Append(active, p)
      /\ board' = RemovePiece(board, p)
      /\ clock' = clock /\ kind' = kind /\ phase = "idle" /\ phase' = "idle"
  BY DEF RequestMove, StartMotion
<1>5. dur \in Nat /\ dur > 0
  BY <1>2, LengthType, MoveAssumption
<1>6. m \in Motions /\ Length(m) \in Nat /\ m.start = clock /\ m.arrival = clock + dur
  BY <1>3, <1>5, LengthOfMotion DEF Motions
<1> HIDE DEF p, dur, m
<1>7. m # Grounded
  BY <1>3, <1>6 DEF Grounded
<1>8. /\ InFlight' = InFlight \cup {p}
      /\ motion'[p] = m
      /\ \A q \in InFlight : q # p /\ motion'[q] = motion[q]
  BY <1>1, <1>4, <1>7 DEF InFlight, IInv, TypeOK
<1>9. Started'
  BY <1>3, <1>6, <1>8 DEF Started, FlightInv
<1>10. PaceKept'
  <2>1. \A q \in InFlight : Steady(q)
    BY PaceIsSteady DEF FlightInv, IInv, TypeOK, LoopType
  <2>2. \A q \in InFlight' : motion'[q].arrival - motion'[q].start
                               = Length(motion'[q]) * Unit(q)
    BY <1>2, <1>3, <1>5, <1>6, <1>8, <2>1 DEF Steady
  <2>3. \A q \in InFlight' : Length(motion'[q]) \in Nat
    <3>1. \A q \in InFlight : Length(motion[q]) \in Nat
      BY MotionType, LengthOfMotion DEF InFlight, IInv, TypeOK, LoopType
    <3> QED BY <1>6, <1>8, <3>1
  <2>4. \A q \in InFlight' : Length(motion'[q]) * Unit(q)
             = Length(motion'[q]) * MoveDuration * (IF kind'[q] = "N" THEN 2 ELSE 1)
    BY <1>4, <2>3, UnitProduct DEF Unit
  <2> QED BY <2>2, <2>4 DEF PaceKept
<1>11. FlightListExact'
  <2>1. active \in Seq(Pieces) /\ Members(active) = InFlight /\ NoRepeats(active)
    BY ListExact DEF FlightInv, IInv, TypeOK
  <2>2. /\ active' \in Seq(Pieces) /\ NoRepeats(active')
        /\ Members(active') = InFlight \cup {p}
    BY <1>1, <1>4, <2>1, AppendMember
  <2>3. DOMAIN active' = 1 .. Len(active')
    BY <2>2
  <2> QED BY <1>8, <2>2, <2>3 DEF FlightListExact, Members, NoRepeats
<1>12. NothingLate'
  <2>1. Due(clock)
    BY <1>4, EventsDue DEF NothingLate, FlightInv
  <2>2. \A c \in Path(m) : TimeAt(m, c) \in Int /\ TimeAt(m, c) > clock
    <3> SUFFICES ASSUME NEW c \in Path(m)
                 PROVE  TimeAt(m, c) \in Int /\ TimeAt(m, c) > clock
      OBVIOUS
    <3>1. PICK i \in 1 .. Length(m) : c = CellOf(m, i)
      BY DEF Path
    <3>2. m.arrival - m.start = Length(m) * Unit(p)
      BY <1>2, <1>3, <1>5, <1>6
    <3>3. TimeAt(m, c) = clock + Unit(p) * i
      BY <1>3, <1>6, <3>1, <3>2, SteadyTimes
    <3> QED BY <1>3, <1>6, <3>3
  <2>3. \A q \in InFlight : \A c \in Path(motion[q]) : TimeAt(motion[q], c) \in Int
    BY EventTimes
  <2>4. \A c \in Positions : board'[c] # NoPiece => board[c] # NoPiece
    BY <1>4 DEF RemovePiece
  <2>5. \A q \in InFlight' : /\ Passed(motion'[q]) \subseteq Path(motion'[q])
                              /\ Path(motion'[q]) \subseteq Positions
    <3>1. \A q \in InFlight : motion[q] \in Motions
      BY MotionType DEF InFlight, IInv, TypeOK, LoopType
    <3> QED BY <1>6, <1>8, <3>1, PathType
  <2>6. \A q \in InFlight' : motion'[q].arrival > clock
    BY <1>3, <1>5, <1>6, <1>8, <2>1 DEF Due
  <2>7. \A q \in InFlight' : \A c \in Path(motion'[q]) : TimeAt(motion'[q], c) \in Int
    BY <1>8, <2>2, <2>3
  <2>8. ASSUME NEW q \in InFlight', NEW r \in InFlight', q < r,
               NEW c \in Path(motion'[q]) \cap Path(motion'[r])
        PROVE  Larger(TimeAt(motion'[q], c), TimeAt(motion'[r], c)) > clock
    <3>1. CASE q = p
      BY <1>3, <1>8, <2>2, <2>7, <3>1 DEF Larger
    <3>2. CASE r = p
      BY <1>3, <1>8, <2>2, <2>7, <3>2 DEF Larger
    <3>3. CASE q # p /\ r # p
      BY <1>8, <2>1, <2>8, <3>3 DEF Due
    <3> QED BY <3>1, <3>2, <3>3
  <2>9. ASSUME NEW q \in InFlight', NEW c \in Passed(motion'[q]), board'[c] # NoPiece
        PROVE  TimeAt(motion'[q], c) > clock
    <3>1. CASE q = p
      BY <1>8, <2>2, <2>5, <3>1
    <3>2. CASE q # p
      BY <1>8, <2>1, <2>4, <2>5, <2>9, <3>2 DEF Due
    <3> QED BY <3>1, <3>2
  <2>10. Due(clock)'
    BY <1>4, <2>6, <2>8, <2>9 DEF Due
  <2>11. (\A t : (\A e \in Events : e.key[1] > t) <=> Due(t))'
    BY EventsDue, PTL
  <2> QED BY <1>4, <2>10, <2>11 DEF NothingLate, Due
<1> QED BY <1>9, <1>10, <1>11, <1>12 DEF FlightInv

LEMMA EventKeys ==
    ASSUME IInv, FlightInv, NEW e \in Events
    PROVE  e.key[1] \in Int
<1>1. CASE e \in Arrivals
  BY <1>1, EventTimes DEF Arrivals
<1>2. CASE e \in Collisions
  <2>1. PICK p \in InFlight, q \in InFlight : e \in CollisionsOf(p, q)
    BY <1>2 DEF Collisions
  <2>2. PICK c \in Path(motion[p]) \cap Path(motion[q]) :
            e.key[1] = Larger(TimeAt(motion[p], c), TimeAt(motion[q], c))
    BY <2>1 DEF CollisionsOf
  <2>3. TimeAt(motion[p], c) \in Int /\ TimeAt(motion[q], c) \in Int
    BY EventTimes
  <2> QED BY <2>2, <2>3 DEF Larger
<1>3. CASE e \in Encounters
  <2>1. PICK p \in InFlight : \E c \in Passed(motion[p]) : e.key[1] = TimeAt(motion[p], c)
    BY <1>3 DEF Encounters, EncountersOf
  <2>2. motion[p] \in Motions
    BY MotionType DEF IInv, TypeOK, LoopType, InFlight
  <2>3. Passed(motion[p]) \subseteq Path(motion[p])
    BY <2>2, PathType
  <2> QED BY <2>1, <2>3, EventTimes
<1> QED BY <1>1, <1>2, <1>3 DEF Events

\* The loop of advance_time ends only when nothing is due up to the new clock.
LEMMA FinishWaitFlights ==
    ASSUME IInv, FlightInv, FinishWait
    PROVE  FlightInv'
<1>1. /\ UNCHANGED <<motion, board, active, kind>>
      /\ clock' = until /\ Candidates = {}
  BY DEF FinishWait, FinishAdvance
<1>2. InFlight' = InFlight
  BY <1>1 DEF InFlight
<1>3. \A e \in Events : e.key[1] > until
  <2>1. \A e \in Events : ~(e.key[1] <= until)
    BY <1>1 DEF Candidates, Events
  <2>2. until \in Int
    BY DEF IInv, TypeOK
  <2> QED BY <2>1, <2>2, EventKeys
<1>4. Events' = Events
  BY <1>1, <1>2 DEF Events, Arrivals, Collisions, CollisionsOf, Encounters, EncountersOf
<1>5. NothingLate'
  BY <1>1, <1>3, <1>4 DEF NothingLate
<1> QED BY <1>1, <1>2, <1>5 DEF FlightInv, Started, FlightListExact, PaceKept

\* A promotion is of a piece that stands on the board, so no flight changes its pace.
LEMMA ApplyFlights ==
    ASSUME IInv, FlightInv, Apply
    PROVE  FlightInv'
<1>1. UNCHANGED <<clock, motion, board, active>> /\ phase = "applying"
  BY DEF Apply, ApplyKingCapture, ApplyArrival, arbiterVars
<1>2. InFlight' = InFlight
  BY <1>1 DEF InFlight
<1>3. \A p \in InFlight : kind'[p] = kind[p]
  <2> SUFFICES ASSUME NEW p \in InFlight, kind'[p] # kind[p] PROVE FALSE
    OBVIOUS
  <2> DEFINE e == Head(events)
  <2>1. e \in Reports
    BY DEF Apply, ApplyingSome, IInv, TypeOK
  <2> HIDE DEF e
  <2>2. Settled(e) /\ e.piece = p
    BY DEF Apply, ApplyKingCapture, ApplyArrival, IInv, TypeOK, InFlight, e
  <2>3. p \in OnBoard(board)
    BY <2>1, <2>2, PieceAssumption DEF Settled, Reports, OnBoard, NoPiece
  <2> QED BY <2>3 DEF IInv, PlacedOnce
<1>4. Events' = Events
  BY <1>1, <1>2 DEF Events, Arrivals, Collisions, CollisionsOf, Encounters, EncountersOf
<1>5. NothingLate'
  BY <1>1, <1>4 DEF NothingLate, FlightInv
<1> QED BY <1>1, <1>2, <1>3, <1>5 DEF FlightInv, Started, FlightListExact, PaceKept

LEMMA FlightFrame ==
    ASSUME FlightInv, UNCHANGED <<clock, board, motion, active, kind>>,
           phase' # "resolving" => phase # "resolving"
    PROVE  FlightInv'
<1>1. InFlight' = InFlight
  BY DEF InFlight
<1>2. Events' = Events
  BY <1>1 DEF Events, Arrivals, Collisions, CollisionsOf, Encounters, EncountersOf
<1> QED BY <1>1, <1>2 DEF FlightInv, Started, FlightListExact, PaceKept, NothingLate

LEMMA NextFlightInv == IInv /\ FlightInv /\ [Next]_vars => FlightInv'
<1> SUFFICES ASSUME IInv, FlightInv, [Next]_vars PROVE FlightInv'
  OBVIOUS
<1>1. CASE \E s, d \in Positions : RequestMove(s, d)
  BY <1>1, RequestMoveFlights
<1>2. CASE ResolveWait
  BY <1>2, ResolveFlights
<1>3. CASE FinishWait
  BY <1>3, FinishWaitFlights
<1>4. CASE Apply
  BY <1>4, ApplyFlights
<1>5. CASE \/ \E c \in Positions : RequestJump(c)
           \/ Reject \/ RefuseAfterEnd \/ \E color \in Colors : Resign(color)
           \/ \E ms \in TickSizes : BeginWait(ms)
           \/ UNCHANGED vars
  <2>1. /\ UNCHANGED <<clock, board, motion, active, kind>>
        /\ phase' # "resolving" => phase # "resolving"
    BY <1>5 DEF RequestJump, Reject, RefuseAfterEnd, Resign, BeginWait, BeginAdvance,
                arbiterVars, vars
  <2> QED BY <2>1, FlightFrame
<1> QED BY <1>1, <1>2, <1>3, <1>4, <1>5 DEF Next, Wait

LEMMA InitFlightInv == Init => FlightInv
<1> SUFFICES ASSUME Init PROVE FlightInv
  OBVIOUS
<1>1. InFlight = {} /\ active = <<>>
  BY DEF Init, InFlight
<1>2. FlightListExact
  <2>1. DOMAIN active = {}
    BY <1>1
  <2> QED BY <1>1, <2>1 DEF FlightListExact
<1>3. Events = {}
  BY <1>1 DEF Events, Arrivals, Collisions, Encounters
<1> QED BY <1>1, <1>2, <1>3 DEF FlightInv, Started, PaceKept, NothingLate

\* The inductive invariant holds of every reachable state of the engine.
THEOREM FlightsInvariant == Spec => [](IInv /\ FlightInv)
<1>1. Init => IInv /\ FlightInv
  BY InitIInv, InitFlightInv
<1>2. IInv /\ FlightInv /\ [Next]_vars => (IInv /\ FlightInv)'
  BY NextIInv, NextFlightInv
<1> QED BY <1>1, <1>2, PTL DEF Spec

\* _active_motions holds exactly the pieces in flight, each once, although a flight that
\* meets a friend at its destination is removed and appended again.
THEOREM FlightListKept == Spec => []FlightListExact
BY FlightsInvariant, PTL DEF FlightInv

\* truncate_before never changes the pace of a flight: on every board and for every
\* MoveDuration, and whatever it is cut short by, a flight is due when it gets there.
THEOREM FlightsKeepPace == Spec => []PaceKept
BY FlightsInvariant, PTL DEF FlightInv

\* advance_time returns with everything up to the new clock resolved, and no request
\* taken between two calls puts an event at or behind the clock.
THEOREM NothingLeftBehind == Spec => []NothingOverdue
<1>1. FlightInv => NothingOverdue
  BY DEF FlightInv, NothingLate, NothingOverdue, Events
<1> QED BY <1>1, FlightsInvariant, PTL

-----------------------------------------------------------------------------
(***************************************************************************)
(* The loop of advance_time.  Remaining(p) never grows in an iteration,    *)
(* and the piece that an iteration is about loses some of it: a flight is  *)
(* cut short or ends, or the piece that stood in its way is gone.          *)
(***************************************************************************)

\* A motion cut short has fewer cells to go.
LEMMA CutShortens ==
    ASSUME NEW m \in Motions, NEW c \in Path(m)
    PROVE  Length(TruncateBefore(m, c)) \in Nat /\ Length(TruncateBefore(m, c)) < Length(m)
<1>1. PICK i \in 1 .. Length(m) : c = CellOf(m, i)
  BY DEF Path
<1>2. Length(m) \in Nat
  BY LengthOfMotion
<1>3. Length(TruncateBefore(m, c)) = i - 1
  BY <1>1, TruncateLength
<1> QED BY <1>1, <1>2, <1>3

LEMMA OnlyCutShortens ==
    ASSUME LoopType, NEW p \in InFlight, OnlyCut(p)
    PROVE  /\ Length(motion[p]) \in Nat /\ Length(motion'[p]) \in Nat
           /\ Length(motion'[p]) <= Length(motion[p])
           /\ motion'[p] # motion[p] => Length(motion'[p]) < Length(motion[p])
<1>1. motion[p] \in Motions
  BY MotionType DEF InFlight
<1>2. Length(motion[p]) \in Nat
  BY <1>1, LengthOfMotion
<1>3. CASE motion'[p] = motion[p]
  BY <1>2, <1>3
<1>4. CASE \E c \in Path(motion[p]) : motion'[p] = TruncateBefore(motion[p], c)
  BY <1>1, <1>2, <1>4, CutShortens
<1> QED BY <1>3, <1>4 DEF OnlyCut

\* What an iteration moves: a motion that was in the list is another one or gone, or a
\* piece that stood on the board is no longer there.
SomethingGives ==
    \/ \E p \in InFlight : p \notin InFlight' \/ motion'[p] # motion[p]
    \/ \E p \in OnBoard(board) : p \notin OnBoard(board')

\* TruncateBefore never returns the motion it is given.
LEMMA CutIsAnother ==
    ASSUME LoopType, NEW p \in InFlight, NEW c \in Path(motion[p])
    PROVE  TruncateBefore(motion[p], c) # motion[p]
<1>1. motion[p] \in Motions
  BY MotionType DEF InFlight
<1> QED BY <1>1, CutShortens, LengthOfMotion

LEMMA CollisionGives ==
    ASSUME LoopType, NEW p \in InFlight, NEW q \in InFlight, p # q,
           NEW c \in Path(motion[p]) \cap Path(motion[q]), ResolveCollision(p, q, c)
    PROVE  SomethingGives
<1>1. p \in Pieces /\ q \in Pieces /\ DOMAIN motion = Pieces
  BY DEF InFlight, LoopType
<1>2. ASSUME motion' = [motion EXCEPT ![p] = Grounded, ![q] = Grounded]
      PROVE  p \notin InFlight'
  BY <1>1, <1>2 DEF InFlight
<1>3. ASSUME motion' = [motion EXCEPT ![p] = TruncateBefore(@, c),
                                      ![q] = TruncateBefore(@, c)]
      PROVE  motion'[p] # motion[p]
  BY <1>1, <1>3, CutIsAnother
<1>4. ASSUME NEW early \in {p, q}, NEW late \in {p, q}, RacingCollision(early, late, c)
      PROVE  SomethingGives
  <2>1. CASE Remove(early)
    BY <1>1, <2>1 DEF Remove, InFlight, SomethingGives
  <2>2. CASE motion' = [motion EXCEPT ![late] = TruncateBefore(@, c)]
    <3>1. motion'[late] # motion[late]
      BY <1>1, <2>2, CutIsAnother
    <3> QED BY <3>1 DEF SomethingGives
  <2> QED BY <1>4, <2>1, <2>2 DEF RacingCollision
<1>5. CASE SimultaneousCollision(p, q, c)
  BY <1>2, <1>3, <1>5 DEF SimultaneousCollision, SomethingGives
<1> QED BY <1>4, <1>5 DEF ResolveCollision

LEMMA EncounterGives ==
    ASSUME LoopType, PlacedOnce, NEW p \in InFlight, NEW c \in Passed(motion[p]),
           board[c] # NoPiece, ResolveEncounter(p, c)
    PROVE  SomethingGives
<1>1. p \in Pieces /\ motion[p] \in Motions /\ DOMAIN motion = Pieces
  BY MotionType DEF InFlight, LoopType
<1>2. c \in Path(motion[p]) /\ c \in Positions
  BY <1>1, PathType
<1>3. CASE board' = [board EXCEPT ![c] = NoPiece]
  <2>1. \A x \in Positions : board'[x] = IF x = c THEN NoPiece ELSE board[x]
    BY <1>2, <1>3 DEF LoopType, Boards
  <2>2. board[c] \notin OnBoard(board')
    BY <1>2, <2>1 DEF PlacedOnce, OnBoard
  <2>3. board[c] \in OnBoard(board)
    BY <1>2 DEF OnBoard
  <2> QED BY <2>2, <2>3 DEF SomethingGives
<1>4. CASE motion' = [motion EXCEPT ![p] = TruncateBefore(@, c)]
  <2>1. motion'[p] # motion[p]
    BY <1>1, <1>2, <1>4, CutIsAnother
  <2> QED BY <2>1 DEF SomethingGives
<1> QED BY <1>3, <1>4 DEF ResolveEncounter

LEMMA ArrivalGives ==
    ASSUME LoopType, NEW p \in InFlight, ResolveArrival(p)
    PROVE  SomethingGives
<1>1. p \in Pieces /\ motion[p] \in Motions /\ DOMAIN motion = Pieces
  BY MotionType DEF InFlight, LoopType
<1>2. CASE Remove(p)
  BY <1>1, <1>2 DEF Remove, InFlight, SomethingGives
<1>3. CASE /\ motion[p].dest # motion[p].source
           /\ motion' = [motion EXCEPT ![p] = TruncateBefore(motion[p], motion[p].dest)]
  <2>1. motion'[p] # motion[p]
    BY <1>1, <1>3, PathType, CutIsAnother
  <2> QED BY <2>1 DEF SomethingGives
<1> QED BY <1>2, <1>3 DEF ResolveArrival

\* Only a piece that was in flight comes to the board.
LEMMA NoneAppears ==
    ASSUME LoopType, PlacedOnce, Started, Resolve
    PROVE  /\ InFlight' \subseteq InFlight
           /\ \A p \in InFlight' : OnlyCut(p)
           /\ OnBoard(board') \subseteq OnBoard(board) \cup (InFlight \ InFlight')
           /\ SomethingGives
<1>1. PICK e \in Candidates :
          \/ e.type = "arrival"   /\ ResolveArrival(e.piece)
          \/ e.type = "collision" /\ ResolveCollision(e.piece, e.other, e.cell)
          \/ e.type = "encounter" /\ ResolveEncounter(e.piece, e.cell)
  BY DEF Resolve
<1>2. /\ e.piece \in InFlight
      /\ e.type = "collision" =>
            /\ e.other \in InFlight /\ e.other # e.piece
            /\ e.cell \in Path(motion[e.piece]) \cap Path(motion[e.other])
      /\ e.type = "encounter" => e.cell \in Passed(motion[e.piece]) /\ board[e.cell] # NoPiece
  BY CandidateType
<1>3. ASSUME NEW d, NEW p \in Pieces \cup {NoPiece}, board' = [board EXCEPT ![d] = p]
      PROVE  OnBoard(board') \subseteq OnBoard(board) \cup ({p} \ {NoPiece})
  BY <1>3 DEF OnBoard, LoopType, Boards
<1>4. CASE e.type = "arrival" /\ ResolveArrival(e.piece)
  <2>1. SomethingGives
    BY <1>2, <1>4, ArrivalGives
  <2>2. e.piece \in Pieces
    BY <1>2 DEF InFlight
  <2>3. /\ \A r \in InFlight' : OnlyCut(r)
        /\ \/ InFlight' = InFlight \ {e.piece} /\ board' = board
           \/ /\ InFlight' = InFlight \ {e.piece}
              /\ board' = [board EXCEPT ![motion[e.piece].dest] = e.piece]
           \/ InFlight' = InFlight /\ board' = board
    BY <1>2, <1>4, ArrivalEffect
  <2> QED BY <1>2, <1>3, <2>1, <2>2, <2>3
<1>5. CASE e.type = "collision" /\ ResolveCollision(e.piece, e.other, e.cell)
  <2>1. SomethingGives
    BY <1>2, <1>5, CollisionGives
  <2> QED BY <1>2, <1>5, <2>1, CollisionEffect
<1>6. CASE e.type = "encounter" /\ ResolveEncounter(e.piece, e.cell)
  <2>1. SomethingGives
    BY <1>2, <1>6, EncounterGives
  <2>2. OnBoard(board') \subseteq OnBoard(board)
    BY <1>2, <1>3, <1>6, EncounterEffect
  <2> QED BY <1>2, <1>6, <2>1, <2>2, EncounterEffect
<1> QED BY <1>1, <1>4, <1>5, <1>6

\* An iteration of the loop: nothing is taken back, and something is got done.
LEMMA IterationAdvances ==
    ASSUME IInv, FlightInv, ResolveWait
    PROVE  /\ \A p \in Pieces : Remaining(p)' <= Remaining(p)
           /\ \E p \in Pieces : Remaining(p)' < Remaining(p)
<1>1. LoopType /\ PlacedOnce /\ Started /\ Resolve
  BY DEF IInv, TypeOK, LoopType, FlightInv, ResolveWait
<1>2. /\ InFlight' \subseteq InFlight
      /\ \A p \in InFlight' : OnlyCut(p)
      /\ OnBoard(board') \subseteq OnBoard(board) \cup (InFlight \ InFlight')
      /\ SomethingGives
  BY <1>1, NoneAppears
<1>3. \A p \in InFlight : p \in Pieces /\ p \notin OnBoard(board) /\ Length(motion[p]) \in Nat
  <2>1. \A p \in InFlight : p \in Pieces /\ motion[p] \in Motions
    BY <1>1, MotionType DEF InFlight
  <2> QED BY <1>1, <2>1, LengthOfMotion DEF PlacedOnce
<1>4. \A p \in InFlight' : /\ Length(motion'[p]) \in Nat
                           /\ Length(motion'[p]) <= Length(motion[p])
                           /\ motion'[p] # motion[p] => Length(motion'[p]) < Length(motion[p])
  BY <1>1, <1>2, OnlyCutShortens
<1>5. \A p : Remaining(p)' = IF p \in InFlight' THEN Length(motion'[p]) + 2
                             ELSE IF p \in OnBoard(board') THEN 1 ELSE 0
  BY DEF Remaining
<1>6. \A p \in Pieces : Remaining(p)' <= Remaining(p)
  BY <1>2, <1>3, <1>4, <1>5 DEF Remaining
<1>7. ASSUME NEW p \in InFlight, p \notin InFlight' \/ motion'[p] # motion[p]
      PROVE  Remaining(p)' < Remaining(p)
  BY <1>3, <1>4, <1>5, <1>7 DEF Remaining
<1>8. ASSUME NEW p \in OnBoard(board), p \notin OnBoard(board')
      PROVE  p \in Pieces /\ Remaining(p)' < Remaining(p)
  <2>1. p \in Pieces
    BY <1>1 DEF OnBoard, LoopType, Boards
  <2> QED BY <1>2, <1>3, <1>5, <1>8, <2>1 DEF Remaining
<1> QED BY <1>2, <1>3, <1>6, <1>7, <1>8 DEF SomethingGives

\* What is left to do about a piece is bounded by how far apart positions are, so the
\* number of iterations of one call is bounded by that times the number of the pieces.
LEMMA RemainingBounded ==
    ASSUME IInv, NEW p \in Pieces
    PROVE  Remaining(p) \in 0 .. Height + Width + 4 * Margin
<1>1. motion[p] \in Motions
  BY MotionType DEF IInv, TypeOK, LoopType
<1>2. motion[p].source \in Positions /\ motion[p].dest \in Positions
  BY <1>1 DEF Motions
<1>3. \A s, d \in Positions : PathLength(s, d) \in 0 .. Height + Width + 4 * Margin - 2
  <2> SUFFICES ASSUME NEW s \in Positions, NEW d \in Positions
               PROVE  PathLength(s, d) \in 0 .. Height + Width + 4 * Margin - 2
    OBVIOUS
  <2>1. /\ s[1] \in -Margin .. Height - 1 + Margin /\ d[1] \in -Margin .. Height - 1 + Margin
        /\ s[2] \in -Margin .. Width - 1 + Margin /\ d[2] \in -Margin .. Width - 1 + Margin
    BY DEF Positions
  <2>2. s # d => Distance(s, d) >= 1
    BY LengthType
  <2>3. Distance(s, d) \in 0 .. Height + Width + 4 * Margin - 2
    BY <2>1, SizeAssumption, MarginAssumption DEF Distance, DRow, DCol, Abs
  <2> QED BY <2>2, <2>3, SizeAssumption, MarginAssumption DEF PathLength
<1>4. Length(motion[p]) \in 0 .. Height + Width + 4 * Margin - 2
  BY <1>2, <1>3 DEF Length
<1> QED BY <1>4, SizeAssumption, MarginAssumption DEF Remaining

\* The while loop of advance_time makes headway in every iteration, on every board and
\* whatever flights, collisions and encounters there are.
THEOREM LoopKeepsAdvancing == Spec => LoopAdvances
<1>1. IInv /\ FlightInv /\ [Next]_vars =>
          [phase = "resolving" /\ phase' = "resolving" =>
              /\ \A p \in Pieces : Remaining(p)' <= Remaining(p)
              /\ \E p \in Pieces : Remaining(p)' < Remaining(p)]_vars
  <2> SUFFICES ASSUME IInv, FlightInv, Next, phase = "resolving", phase' = "resolving"
               PROVE  /\ \A p \in Pieces : Remaining(p)' <= Remaining(p)
                      /\ \E p \in Pieces : Remaining(p)' < Remaining(p)
    OBVIOUS
  <2>1. ResolveWait
    BY DEF Next, Wait, RequestMove, RequestJump, Reject, RefuseAfterEnd, Resign, BeginWait,
           BeginAdvance, FinishWait, Continue, Apply
  <2> QED BY <2>1, IterationAdvances
<1> QED BY <1>1, FlightsInvariant, PTL DEF Spec, LoopAdvances

-----------------------------------------------------------------------------
(***************************************************************************)
(* Promotion.  A pawn that has just landed on its last rank has an arrival *)
(* among the events that are still to be applied, and applying it finds    *)
(* the pawn where the event says.                                          *)
(***************************************************************************)

LastRank(color) == IF color = "w" THEN 0 ELSE Height - 1

\* constants.STANDARD_START_BOARD has no pawn on the last rank of its colour.  A board
\* file may have one, which no arrival would ever promote.
PawnsStartBehind == \A p \in Pieces : StartKind[p] = "P" => StartCell[p][1] # LastRank(Color[p])

LatePawn(c) == board[c] # NoPiece /\ kind[board[c]] = "P" /\ c[1] = LastRank(Color[board[c]])

\* The arrival of the piece on c is still to be applied.
Awaited(c) == \E i \in 1 .. Len(events) : /\ events[i].piece = board[c] /\ events[i].at = c
                                          /\ events[i].captured # board[c]

PromotionInv ==
    /\ phase = "idle" => events = <<>>
    /\ ~gameOver => \A c \in Positions : LatePawn(c) => Awaited(c)

\* An iteration of the loop adds events behind those that are there, and lands a piece
\* only together with its event.
LEMMA EventsGrow ==
    ASSUME IInv, Resolve
    PROVE  /\ \A i \in 1 .. Len(events) : i \in 1 .. Len(events') /\ events'[i] = events[i]
           /\ \/ \A c \in Positions : board'[c] \in {board[c], NoPiece}
              \/ \E p \in InFlight, d \in Positions :
                    /\ board' = [board EXCEPT ![d] = p]
                    /\ events' = Append(events, Event(p, d, board[d]))
<1>1. LoopType /\ events \in Seq(Reports)
  BY DEF IInv, TypeOK, LoopType
<1>2. PICK e \in Candidates :
          \/ e.type = "arrival"   /\ ResolveArrival(e.piece)
          \/ e.type = "collision" /\ ResolveCollision(e.piece, e.other, e.cell)
          \/ e.type = "encounter" /\ ResolveEncounter(e.piece, e.cell)
  BY DEF Resolve
<1>3. e.piece \in InFlight
  BY <1>1, CandidateType
<1>4. ASSUME NEW r, events' = Append(events, r)
      PROVE  \A i \in 1 .. Len(events) : i \in 1 .. Len(events') /\ events'[i] = events[i]
  BY <1>1, <1>4
<1>5. CASE e.type = "arrival" /\ ResolveArrival(e.piece)
  <2> DEFINE p == e.piece
             d == motion[p].dest
  <2>1. d \in Positions
    BY <1>1, <1>3, MotionType DEF InFlight, Motions
  <2> HIDE DEF p, d
  <2>2. CASE board' = board /\ (events' = events \/ events' = Append(events, Event(p, d, p)))
    BY <1>4, <2>2
  <2>3. CASE board' = [board EXCEPT ![d] = p] /\ events' = Append(events, Event(p, d, board[d]))
    BY <1>3, <1>4, <2>1, <2>3 DEF p
  <2> QED BY <1>5, <2>2, <2>3 DEF ResolveArrival, p, d
<1>6. CASE e.type = "collision" /\ ResolveCollision(e.piece, e.other, e.cell)
  <2>1. board' = board
    BY <1>6 DEF ResolveCollision
  <2>2. \/ events' = events
        \/ \E r : events' = Append(events, r)
        \/ \E r, t : events' = events \o <<r, t>>
    BY <1>6 DEF ResolveCollision, SimultaneousCollision, RacingCollision
  <2>3. ASSUME NEW r, NEW t, events' = events \o <<r, t>>
        PROVE  \A i \in 1 .. Len(events) : i \in 1 .. Len(events') /\ events'[i] = events[i]
    BY <1>1, <2>3
  <2> QED BY <1>4, <2>1, <2>2, <2>3
<1>7. CASE e.type = "encounter" /\ ResolveEncounter(e.piece, e.cell)
  <2>1. \/ events' = events /\ board' = board
        \/ /\ events' = Append(events, Event(e.piece, e.cell, board[e.cell]))
           /\ board' = [board EXCEPT ![e.cell] = NoPiece]
    BY <1>7 DEF ResolveEncounter
  <2>2. \A c \in Positions : board'[c] \in {board[c], NoPiece}
    BY <1>1, <2>1 DEF LoopType, Boards
  <2> QED BY <1>4, <2>1, <2>2
<1> QED BY <1>2, <1>5, <1>6, <1>7

LEMMA ResolvePromotion ==
    ASSUME IInv, PromotionInv, ResolveWait
    PROVE  PromotionInv'
<1>1. Resolve /\ kind' = kind /\ gameOver' = gameOver /\ phase' = "resolving"
  BY DEF ResolveWait, Resolve
<1> SUFFICES ASSUME ~gameOver, NEW c \in Positions, LatePawn(c)' PROVE Awaited(c)'
  BY <1>1 DEF PromotionInv
<1>2. \A i \in 1 .. Len(events) : i \in 1 .. Len(events') /\ events'[i] = events[i]
  BY <1>1, EventsGrow
<1>3. CASE board'[c] = board[c]
  <2>1. Awaited(c)
    BY <1>1, <1>3 DEF PromotionInv, LatePawn
  <2> QED BY <1>2, <1>3, <2>1 DEF Awaited
<1>4. ASSUME NEW p \in InFlight, board' = [board EXCEPT ![c] = p],
             events' = Append(events, Event(p, c, board[c]))
      PROVE  Awaited(c)'
  <2>1. board'[c] = p /\ board[c] # p
    BY <1>4, PieceAssumption DEF IInv, TypeOK, Boards, PlacedOnce, OnBoard, InFlight, NoPiece
  <2>2. events \in Seq(Reports)
    BY DEF IInv, TypeOK
  <2> DEFINE n == Len(events) + 1
  <2>3. n \in 1 .. Len(events') /\ events'[n] = Event(p, c, board[c])
    BY <1>4, <2>2
  <2>4. /\ events'[n].piece = p /\ events'[n].at = c /\ events'[n].captured = board[c]
    BY <2>3 DEF Event
  <2> QED BY <2>1, <2>3, <2>4 DEF Awaited
<1>5. \/ board'[c] = board[c]
      \/ board'[c] = NoPiece
      \/ \E p \in InFlight : /\ board' = [board EXCEPT ![c] = p]
                             /\ events' = Append(events, Event(p, c, board[c]))
  BY <1>1, EventsGrow DEF IInv, TypeOK, Boards
<1> QED BY <1>3, <1>4, <1>5 DEF LatePawn

LEMMA ApplyPromotion ==
    ASSUME IInv, PromotionInv, Apply
    PROVE  PromotionInv'
<1> DEFINE e == Head(events)
<1>1. events \in Seq(Reports) /\ events # <<>>
  BY DEF IInv, TypeOK, ApplyingSome, Apply
<1>2. board' = board
  BY DEF Apply, ApplyKingCapture, ApplyArrival, arbiterVars
<1>3. phase' = "idle" => events' = <<>>
  BY DEF Apply, ApplyKingCapture, ApplyArrival, Continue
<1>4. CASE ApplyKingCapture(e)
  BY <1>3, <1>4 DEF ApplyKingCapture, PromotionInv
<1>5. CASE ApplyArrival(e)
  <2>1. gameOver' = gameOver /\ events' = Tail(events)
    BY <1>5 DEF ApplyArrival, Continue
  <2> SUFFICES ASSUME ~gameOver, NEW c \in Positions, LatePawn(c)' PROVE Awaited(c)'
    BY <1>3, <2>1 DEF PromotionInv
  <2>2. e = events[1] /\ e \in Reports
    BY <1>1
  <2> HIDE DEF e
  <2>3. e.piece \in Pieces
    BY <2>2 DEF Reports
  <2>4. kind' = IF Settled(e)
                THEN [kind EXCEPT ![e.piece] = Promote(kind[e.piece], Color[e.piece], e.at[1])]
                ELSE kind
    BY <1>5 DEF ApplyArrival
  <2>5. kind[board[c]] = "P"
    BY <1>2, <2>3, <2>4 DEF LatePawn, Promote, IInv, TypeOK
  <2>6. Awaited(c)
    BY <1>2, <2>5 DEF PromotionInv, LatePawn
  <2>7. PICK i \in 1 .. Len(events) : /\ events[i].piece = board[c] /\ events[i].at = c
                                      /\ events[i].captured # board[c]
    BY <2>6 DEF Awaited
  <2>8. i # 1
    <3> SUFFICES ASSUME i = 1 PROVE FALSE
      OBVIOUS
    <3>1. e.piece = board[c] /\ e.at = c /\ Settled(e)
      BY <2>2, <2>7 DEF Settled
    <3>2. kind'[board[c]] = Promote("P", Color[board[c]], c[1])
      BY <2>3, <2>4, <2>5, <3>1 DEF IInv, TypeOK
    <3>3. c[1] = LastRank(Color[board[c]]) /\ kind'[board[c]] = "P"
      BY <1>2 DEF LatePawn
    <3> QED BY <3>2, <3>3 DEF Promote, LastRank
  <2>9. i - 1 \in 1 .. Len(events') /\ events'[i - 1] = events[i]
    BY <1>1, <2>1, <2>7, <2>8
  <2> QED BY <1>2, <2>7, <2>9 DEF Awaited
<1> QED BY <1>4, <1>5 DEF Apply

LEMMA NextPromotionInv == IInv /\ PromotionInv /\ [Next]_vars => PromotionInv'
<1> SUFFICES ASSUME IInv, PromotionInv, [Next]_vars PROVE PromotionInv'
  OBVIOUS
<1>1. ASSUME NEW s \in Positions, NEW d \in Positions, RequestMove(s, d)
      PROVE  PromotionInv'
  <2>1. UNCHANGED <<kind, phase, events, gameOver>>
    BY <1>1 DEF RequestMove
  <2>2. \A c \in Positions : board'[c] \in {board[c], NoPiece}
    BY <1>1 DEF RequestMove, StartMotion, RemovePiece
  <2>3. \A c \in Positions : LatePawn(c)' => LatePawn(c) /\ board'[c] = board[c]
    BY <2>1, <2>2 DEF LatePawn
  <2> QED BY <2>1, <2>3 DEF PromotionInv, Awaited
<1>2. CASE ResolveWait
  BY <1>2, ResolvePromotion
<1>3. CASE Apply
  BY <1>3, ApplyPromotion
<1>4. CASE FinishWait
  <2>1. UNCHANGED <<board, kind, events, gameOver>> /\ (phase' = "idle" => events' = <<>>)
    BY <1>4 DEF FinishWait, FinishAdvance, Continue
  <2> QED BY <2>1 DEF PromotionInv, LatePawn, Awaited
<1>5. CASE \/ \E c \in Positions : RequestJump(c)
           \/ Reject \/ RefuseAfterEnd \/ \E color \in Colors : Resign(color)
           \/ \E ms \in TickSizes : BeginWait(ms)
           \/ UNCHANGED vars
  <2>1. /\ UNCHANGED <<board, kind, events>>
        /\ phase' = "idle" => phase = "idle"
        /\ ~gameOver' => ~gameOver
    BY <1>5 DEF RequestJump, Reject, RefuseAfterEnd, Resign, BeginWait, BeginAdvance,
                arbiterVars, engineVars, vars
  <2> QED BY <2>1 DEF PromotionInv, LatePawn, Awaited
<1> QED BY <1>1, <1>2, <1>3, <1>4, <1>5 DEF Next, Wait

LEMMA InitPromotionInv == PawnsStartBehind /\ Init => PromotionInv
<1> SUFFICES ASSUME PawnsStartBehind, Init PROVE PromotionInv
  OBVIOUS
<1>1. \A c \in Positions : board[c] # NoPiece => /\ board[c] \in Pieces
                                                 /\ StartCell[board[c]] = c
  BY PieceAssumption DEF Init, InitialBoard, NoPiece
<1>2. \A c \in Positions : ~LatePawn(c)
  BY <1>1 DEF LatePawn, PawnsStartBehind, Init
<1> QED BY <1>2 DEF PromotionInv, Init

\* On a board whose pawns start in front of their last rank, every pawn that gets there
\* in a running game is a queen before the next request is taken: no batch of arrivals
\* leaves one out, whatever it captured and however it was cut short on the way.
THEOREM PawnsGetPromoted ==
    ASSUME PawnsStartBehind
    PROVE  Spec => []PawnsPromoted
<1>1. Init => IInv /\ PromotionInv
  BY InitIInv, InitPromotionInv
<1>2. IInv /\ PromotionInv /\ [Next]_vars => (IInv /\ PromotionInv)'
  BY NextIInv, NextPromotionInv
<1>3. PromotionInv => PawnsPromoted
  <2> SUFFICES ASSUME PromotionInv, phase = "idle", ~gameOver, NEW c \in Positions, LatePawn(c)
               PROVE  FALSE
    BY DEF PawnsPromoted, LatePawn, LastRank
  <2>1. Awaited(c) /\ events = <<>>
    BY DEF PromotionInv
  <2> QED BY <2>1 DEF Awaited
<1> QED BY <1>1, <1>2, <1>3, PTL DEF Spec
=============================================================================
