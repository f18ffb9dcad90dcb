------------------------ MODULE TickGranularityProofs ------------------------
(***************************************************************************)
(* Without jumps the outcome does not depend on the size of the tick: for  *)
(* every board, every sequence of moves and every way to divide the time.  *)
(*                                                                         *)
(* The position of a copy is its board and its motions.  One iteration of  *)
(* the loop of advance_time is a link from a position to the next one; it  *)
(* is determined by the position, not by how far the call goes.  The       *)
(* copies go through the same positions, the fine one behind the coarse    *)
(* one: there is a chain of links from its position to that of the coarse  *)
(* copy.  The coarse one adds links at the far end, the fine one takes     *)
(* them away at the near end, and when the fine clock has caught up there  *)
(* is no link left, as it would be overdue.                                *)
(***************************************************************************)
EXTENDS TickGranularity, GameEngineProofs

-----------------------------------------------------------------------------
\* Positions, and the events of a position.  These are Arrivals, Collisions and
\* Encounters of RealTimeArbiter as operators on a board and the motions.

Position(b, m) == [board |-> b, motion |-> m]

Here  == Position(board, motion)
Here2 == Position(board2, motion2)

Flying(m) == {p \in Pieces : m[p] # Grounded}

ArrivalsAt(m) ==
    {[type |-> "arrival", key |-> <<m[p].arrival, 1, p, 0, 0, 0>>,
      piece |-> p, other |-> NoPiece, cell |-> m[p].dest] : p \in Flying(m)}

PairAt(m, p, q) ==
    {[type |-> "collision",
      key |-> <<Larger(TimeAt(m[p], c), TimeAt(m[q], c)), 0,
                Smaller(p, q), Larger(p, q), c[1], c[2]>>,
      piece |-> p, other |-> q, cell |-> c] : c \in Path(m[p]) \cap Path(m[q])}

CollisionsAt(m) ==
    UNION {UNION {PairAt(m, p, q) : q \in {r \in Flying(m) : p < r}} : p \in Flying(m)}

MetBy(b, m, p) ==
    {[type |-> "encounter",
      key |-> <<TimeAt(m[p], c), 0, p, b[c], 0, 0>>,
      piece |-> p, other |-> b[c], cell |-> c] : c \in {x \in Passed(m[p]) : b[x] # NoPiece}}

EncountersAt(b, m) == UNION {MetBy(b, m, p) : p \in Flying(m)}

EventsAt(x) ==
    ArrivalsAt(x.motion) \cup CollisionsAt(x.motion) \cup EncountersAt(x.board, x.motion)

\* The position after event e, as long as nobody jumps.
Cut(m, p, c) == [m EXCEPT ![p] = TruncateBefore(m[p], c)]
Ground(m, p) == [m EXCEPT ![p] = Grounded]

AfterArrival(b, m, p) ==
    LET d == m[p].dest
    IN IF b[d] # NoPiece /\ ~Enemies(p, b[d])
       THEN IF d # m[p].source THEN Position(b, Cut(m, p, d)) ELSE Position(b, Ground(m, p))
       ELSE Position([b EXCEPT ![d] = p], Ground(m, p))

AfterRace(b, m, early, late, c) ==
    IF Enemies(early, late) THEN Position(b, Ground(m, early)) ELSE Position(b, Cut(m, late, c))

AfterCollision(b, m, p, q, c) ==
    IF TimeAt(m[p], c) = TimeAt(m[q], c)
    THEN IF Enemies(p, q) THEN Position(b, [m EXCEPT ![p] = Grounded, ![q] = Grounded])
         ELSE Position(b, [m EXCEPT ![p] = TruncateBefore(@, c), ![q] = TruncateBefore(@, c)])
    ELSE IF TimeAt(m[p], c) < TimeAt(m[q], c) THEN AfterRace(b, m, p, q, c)
         ELSE AfterRace(b, m, q, p, c)

AfterEncounter(b, m, p, c) ==
    IF Enemies(p, b[c]) THEN Position([b EXCEPT ![c] = NoPiece], m) ELSE Position(b, Cut(m, p, c))

After(x, e) ==
    CASE e.type = "arrival"   -> AfterArrival(x.board, x.motion, e.piece)
      [] e.type = "collision" -> AfterCollision(x.board, x.motion, e.piece, e.other, e.cell)
      [] e.type = "encounter" -> AfterEncounter(x.board, x.motion, e.piece, e.cell)

\* e is the event of position x that the loop resolves first.
First(x, e) == e \in EventsAt(x) /\ \A f \in EventsAt(x) : ~Before(f.key, e.key)

\* An iteration of a call that goes up to time t takes position x to position y.
Link(x, y, t) == \E e : First(x, e) /\ e.key[1] <= t /\ y = After(x, e)

-----------------------------------------------------------------------------
\* The two copies in terms of positions.

LEMMA CoarseEvents ==
    /\ Events = EventsAt(Here)
    /\ Candidates = {e \in EventsAt(Here) : e.key[1] <= until}
BY DEF Events, Candidates, EventsAt, Here, Position, Arrivals, ArrivalsAt, Collisions,
       CollisionsAt, CollisionsOf, PairAt, Encounters, EncountersAt, EncountersOf, MetBy,
       InFlight, Flying

FineEvents == Fine!Arrivals \cup Fine!Collisions \cup Fine!Encounters

LEMMA FineEventsAt ==
    /\ FineEvents = EventsAt(Here2)
    /\ Fine!Candidates = {e \in EventsAt(Here2) : e.key[1] <= until2}
<1>1. Fine!Arrivals = ArrivalsAt(motion2)
  BY DEF Fine!Arrivals, ArrivalsAt, Fine!InFlight, Flying, Fine!Grounded, Grounded,
         Fine!NoPiece, NoPiece
<1>2. Fine!Collisions = CollisionsAt(motion2)
  BY DEF Fine!Collisions, CollisionsAt, Fine!CollisionsOf, PairAt, Fine!InFlight, Flying,
         Fine!Grounded, Grounded, Fine!Larger, Larger, Fine!Smaller, Smaller,
         Fine!TimeAt, TimeAt, Fine!Pace, Pace, Fine!IndexOf, IndexOf, Fine!Path, Path,
         Fine!Length, Length, Fine!CellOf, CellOf, Fine!PathLength, PathLength,
         Fine!PathCell, PathCell, Fine!OnLine, OnLine, Fine!Distance, Distance,
         Fine!DRow, DRow, Fine!DCol, DCol, Fine!Abs, Abs, Fine!Sign, Sign
<1>3. Fine!Encounters = EncountersAt(board2, motion2)
  BY DEF Fine!Encounters, EncountersAt, Fine!EncountersOf, MetBy, Fine!InFlight, Flying,
         Fine!Grounded, Grounded, Fine!NoPiece, NoPiece, Fine!Passed, Passed,
         Fine!TimeAt, TimeAt, Fine!Pace, Pace, Fine!IndexOf, IndexOf,
         Fine!Length, Length, Fine!CellOf, CellOf, Fine!PathLength, PathLength,
         Fine!PathCell, PathCell, Fine!OnLine, OnLine, Fine!Distance, Distance,
         Fine!DRow, DRow, Fine!DCol, DCol, Fine!Abs, Abs, Fine!Sign, Sign
<1> QED BY <1>1, <1>2, <1>3 DEF FineEvents, Fine!Candidates, EventsAt, Here2, Position

-----------------------------------------------------------------------------
\* The position determines the event that comes first.

\* What a position of the coarse copy is like.
Sound(x) ==
    /\ \A c \in Positions : /\ x.board[c] \in Pieces \cup {NoPiece}
                            /\ x.board[c] \notin Flying(x.motion)
    /\ \A c, d \in Positions : x.board[c] = x.board[d] /\ x.board[c] # NoPiece => c = d
    /\ \A p \in Flying(x.motion) :
          /\ x.motion[p].arrival \in Int /\ x.motion[p].dest \in Positions
          /\ Path(x.motion[p]) \subseteq Positions /\ Passed(x.motion[p]) \subseteq Path(x.motion[p])
          /\ \A c \in Path(x.motion[p]) : TimeAt(x.motion[p], c) \in Int

LEMMA HereIsSound == IInv /\ FlightInv => Sound(Here)
<1> SUFFICES ASSUME IInv, FlightInv PROVE Sound(Here)
  OBVIOUS
<1>1. Here.board = board /\ Here.motion = motion /\ Flying(motion) = InFlight
  BY DEF Here, Position, Flying, InFlight
<1>2. \A c \in Positions : /\ board[c] \in Pieces \cup {NoPiece}
                           /\ board[c] \notin InFlight
  BY PieceAssumption DEF IInv, TypeOK, Boards, PlacedOnce, OnBoard, InFlight, NoPiece
<1>3. \A c, d \in Positions : board[c] = board[d] /\ board[c] # NoPiece => c = d
  BY DEF IInv, PlacedOnce
<1>4. ASSUME NEW p \in InFlight
      PROVE  /\ motion[p].arrival \in Int /\ motion[p].dest \in Positions
             /\ Path(motion[p]) \subseteq Positions /\ Passed(motion[p]) \subseteq Path(motion[p])
             /\ \A c \in Path(motion[p]) : TimeAt(motion[p], c) \in Int
  <2>1. motion[p] \in Motions
    BY MotionType DEF IInv, TypeOK, LoopType, InFlight
  <2> QED BY <2>1, PathType, EventTimes DEF Motions
<1> QED BY <1>1, <1>2, <1>3, <1>4 DEF Sound

\* Pieces are numbers, which the keys compare.
LEMMA PieceIsInt ==
    /\ \A p \in Pieces \cup {NoPiece} : p \in Int
    /\ \A m : \A p \in Flying(m) : p \in Pieces
<1>1. \A p \in Pieces \cup {NoPiece} : p \in Int
  BY PieceAssumption DEF NoPiece
<1>2. \A m : \A p \in Flying(m) : p \in Pieces
  BY DEF Flying
<1> QED BY <1>1, <1>2

\* The events of a position, one kind at a time.
LEMMA EventKinds ==
    ASSUME NEW x, Sound(x), NEW e \in EventsAt(x)
    PROVE  LET b == x.board
               m == x.motion
           IN \/ \E p \in Flying(m) :
                    e = [type |-> "arrival", key |-> <<m[p].arrival, 1, p, 0, 0, 0>>,
                         piece |-> p, other |-> NoPiece, cell |-> m[p].dest]
              \/ \E p \in Flying(m), q \in Flying(m), t \in Int : \E c \in Positions :
                    /\ c \in Path(m[p]) \cap Path(m[q])
                    /\ e = [type |-> "collision", key |-> <<t, 0, p, q, c[1], c[2]>>,
                            piece |-> p, other |-> q, cell |-> c]
              \/ \E p \in Flying(m), t \in Int : \E c \in Positions :
                    /\ c \in Passed(m[p]) /\ b[c] # NoPiece
                    /\ e = [type |-> "encounter", key |-> <<t, 0, p, b[c], 0, 0>>,
                            piece |-> p, other |-> b[c], cell |-> c]
<1> DEFINE b == x.board
           m == x.motion
<1>1. CASE e \in ArrivalsAt(m)
  BY <1>1 DEF ArrivalsAt
<1>2. CASE e \in CollisionsAt(m)
  <2>1. PICK p \in Flying(m), q \in Flying(m) : p < q /\ e \in PairAt(m, p, q)
    BY <1>2 DEF CollisionsAt
  <2>2. p \in Int /\ q \in Int
    BY PieceIsInt
  <2>3. Smaller(p, q) = p /\ Larger(p, q) = q
    BY <2>1, <2>2 DEF Smaller, Larger
  <2>4. PICK c \in Path(m[p]) \cap Path(m[q]) :
            e = [type |-> "collision",
                 key |-> <<Larger(TimeAt(m[p], c), TimeAt(m[q], c)), 0, p, q, c[1], c[2]>>,
                 piece |-> p, other |-> q, cell |-> c]
    BY <2>1, <2>3 DEF PairAt
  <2>5. c \in Positions /\ Larger(TimeAt(m[p], c), TimeAt(m[q], c)) \in Int
    BY DEF Sound, Larger
  <2> QED BY <2>4, <2>5
<1>3. CASE e \in EncountersAt(b, m)
  <2>1. PICK p \in Flying(m) : e \in MetBy(b, m, p)
    BY <1>3 DEF EncountersAt
  <2>2. PICK c \in Passed(m[p]) :
            /\ b[c] # NoPiece
            /\ e = [type |-> "encounter", key |-> <<TimeAt(m[p], c), 0, p, b[c], 0, 0>>,
                    piece |-> p, other |-> b[c], cell |-> c]
    BY <2>1 DEF MetBy
  <2>3. c \in Positions /\ TimeAt(m[p], c) \in Int
    BY DEF Sound
  <2> QED BY <2>2, <2>3
<1> QED BY <1>1, <1>2, <1>3 DEF EventsAt

Keys == Int \X Int \X Int \X Int \X Int \X Int

LEMMA KeyType ==
    ASSUME NEW x, Sound(x), NEW e \in EventsAt(x)
    PROVE  e.key \in Keys
<1>1. \A p \in Flying(x.motion) : p \in Int
  BY PieceIsInt
<1>2. \A c \in Positions : c[1] \in Int /\ c[2] \in Int
  BY PositionType
<1>3. \A p \in Flying(x.motion) : x.motion[p].arrival \in Int
  BY DEF Sound
<1>4. \A c \in Positions : x.board[c] \in Int
  BY PieceIsInt DEF Sound
<1> QED BY <1>1, <1>2, <1>3, <1>4, EventKinds DEF Keys

\* The keys are ordered totally.
LEMMA KeysCompare ==
    ASSUME NEW j \in Keys, NEW k \in Keys, ~Before(j, k), ~Before(k, j)
    PROVE  \A i \in 1 .. 6 : j[i] = k[i]
<1>1. \A i \in 1 .. 6 : j[i] \in Int /\ k[i] \in Int
  BY DEF Keys
<1>2. ASSUME NEW i \in 1 .. 6, \A h \in 1 .. (i - 1) : j[h] = k[h]
      PROVE  j[i] = k[i]
  <2>1. ~(j[i] < k[i])
    BY <1>2 DEF Before
  <2>2. ~(k[i] < j[i])
    BY <1>2 DEF Before
  <2> QED BY <1>1, <2>1, <2>2
<1>3. j[1] = k[1]
  BY <1>2
<1>4. j[2] = k[2]
  BY <1>2, <1>3
<1>5. j[3] = k[3]
  BY <1>2, <1>3, <1>4
<1>6. j[4] = k[4]
  BY <1>2, <1>3, <1>4, <1>5
<1>7. j[5] = k[5]
  BY <1>2, <1>3, <1>4, <1>5, <1>6
<1>8. j[6] = k[6]
  BY <1>2, <1>3, <1>4, <1>5, <1>6, <1>7
<1> QED BY <1>3, <1>4, <1>5, <1>6, <1>7, <1>8

LEMMA FirstIsUnique ==
    ASSUME NEW x, Sound(x), NEW e, NEW f, First(x, e), First(x, f)
    PROVE  e = f
<1> DEFINE b == x.board
           m == x.motion
<1>1. \A i \in 1 .. 6 : e.key[i] = f.key[i]
  BY KeyType, KeysCompare DEF First
<1>2. e.key[2] = f.key[2] /\ e.key[3] = f.key[3] /\ e.key[4] = f.key[4]
      /\ e.key[5] = f.key[5] /\ e.key[6] = f.key[6] /\ e.key[1] = f.key[1]
  BY <1>1
<1>3. e \in EventsAt(x) /\ f \in EventsAt(x)
  BY DEF First
<1>4. \A p \in Flying(m) : \A c \in Positions : b[c] # p
  BY DEF Sound
<1>5. \A c, d \in Positions : b[c] = b[d] /\ b[c] # NoPiece => c = d
  BY DEF Sound
<1>6. \A c, d \in Positions : c[1] = d[1] /\ c[2] = d[2] => c = d
  BY PositionType
<1>7. CASE \E p \in Flying(m) :
              e = [type |-> "arrival", key |-> <<m[p].arrival, 1, p, 0, 0, 0>>,
                   piece |-> p, other |-> NoPiece, cell |-> m[p].dest]
  BY <1>2, <1>3, <1>7, EventKinds
<1>8. CASE \E p \in Flying(m), q \in Flying(m), t \in Int : \E c \in Positions :
              e = [type |-> "collision", key |-> <<t, 0, p, q, c[1], c[2]>>,
                   piece |-> p, other |-> q, cell |-> c]
  BY <1>2, <1>3, <1>4, <1>6, <1>8, EventKinds
<1>9. CASE \E p \in Flying(m), t \in Int : \E c \in Positions :
              /\ b[c] # NoPiece
              /\ e = [type |-> "encounter", key |-> <<t, 0, p, b[c], 0, 0>>,
                      piece |-> p, other |-> b[c], cell |-> c]
  BY <1>2, <1>3, <1>4, <1>5, <1>9, EventKinds
<1> QED BY <1>3, <1>7, <1>8, <1>9, EventKinds

\* However far the calls go, they take a position to the same one.
LEMMA LinkIsUnique ==
    ASSUME NEW x, Sound(x), NEW y, NEW z, NEW t, NEW u, Link(x, y, t), Link(x, z, u)
    PROVE  y = z
BY FirstIsUnique DEF Link

\* What comes first of the events due comes first of all.
LEMMA FirstOfDue ==
    ASSUME NEW x, Sound(x), NEW t \in Int, NEW e \in EventsAt(x), e.key[1] <= t,
           \A f \in EventsAt(x) : f.key[1] <= t => ~Before(f.key, e.key)
    PROVE  First(x, e)
<1> SUFFICES ASSUME NEW f \in EventsAt(x), ~(f.key[1] <= t), Before(f.key, e.key) PROVE FALSE
  BY DEF First
<1>1. e.key[1] \in Int /\ f.key[1] \in Int
  BY KeyType DEF Keys
<1>2. PICK i \in 1 .. 6 : /\ f.key[i] < e.key[i]
                          /\ \A h \in 1 .. (i - 1) : f.key[h] = e.key[h]
  BY DEF Before
<1>3. f.key[1] <= e.key[1]
  BY <1>1, <1>2
<1> QED BY <1>1, <1>3

-----------------------------------------------------------------------------
\* An iteration of the loop is a link, in either copy.

NoJumps == /\ \A c \in Positions : jumpEnd[c] = 0
           /\ \A c \in Positions : jumpEnd2[c] = 0

LEMMA EventFields ==
    ASSUME NEW x, Sound(x), NEW e \in EventsAt(x)
    PROVE  /\ e.type \in {"arrival", "collision", "encounter"}
           /\ e.piece \in Flying(x.motion)
           /\ x.motion[e.piece].dest \in Positions
           /\ e.type = "collision" => /\ TimeAt(x.motion[e.piece], e.cell) \in Int
                                      /\ TimeAt(x.motion[e.other], e.cell) \in Int
<1>1. \A p \in Flying(x.motion) :
          x.motion[p].dest \in Positions
          /\ \A c \in Path(x.motion[p]) : TimeAt(x.motion[p], c) \in Int
  BY DEF Sound
<1>2. e.type \in {"arrival", "collision", "encounter"} /\ e.piece \in Flying(x.motion)
  BY EventKinds
<1>3. e.type = "collision" => /\ e.piece \in Flying(x.motion) /\ e.other \in Flying(x.motion)
                              /\ e.cell \in Path(x.motion[e.piece]) \cap Path(x.motion[e.other])
  BY EventKinds
<1> QED BY <1>1, <1>2, <1>3

LEMMA CoarseLink ==
    ASSUME IInv, FlightInv, NoJumps, ResolveWait
    PROVE  Link(Here, Here', until)
<1>1. PICK e \in Candidates :
          /\ IsNext(e)
          /\ \/ e.type = "arrival"   /\ ResolveArrival(e.piece)
             \/ e.type = "collision" /\ ResolveCollision(e.piece, e.other, e.cell)
             \/ e.type = "encounter" /\ ResolveEncounter(e.piece, e.cell)
  BY DEF ResolveWait, Resolve
<1>2. Sound(Here) /\ until \in Int
  BY HereIsSound DEF IInv, TypeOK
<1>3. e \in EventsAt(Here) /\ e.key[1] <= until
  BY CoarseEvents
<1>4. First(Here, e)
  BY <1>1, <1>2, <1>3, CoarseEvents, FirstOfDue DEF IsNext
<1>5. Here' = Position(board', motion') /\ Here.board = board /\ Here.motion = motion
  BY DEF Here, Position
<1>6. Here' = After(Here, e)
  <2>1. CASE e.type = "arrival" /\ ResolveArrival(e.piece)
    <3>1. ~Intercepted(e.piece)
      BY <1>2, <1>3, <1>5, EventFields DEF NoJumps, Intercepted, IsJumpingOn
    <3>2. Here' = AfterArrival(board, motion, e.piece)
      BY <1>5, <2>1, <3>1 DEF ResolveArrival, FriendOn, AfterArrival, Remove, Cut, Ground
    <3> QED BY <1>5, <2>1, <3>2 DEF After
  <2>2. CASE e.type = "collision" /\ ResolveCollision(e.piece, e.other, e.cell)
    <3>1. Here' = AfterCollision(board, motion, e.piece, e.other, e.cell)
      <4> DEFINE p == e.piece
                 q == e.other
                 c == e.cell
      <4>1. TimeAt(motion[p], c) \in Int /\ TimeAt(motion[q], c) \in Int
        BY <1>2, <1>3, <1>5, <2>2, EventFields
      <4>2. /\ board' = board
            /\ \/ TimeAt(motion[p], c) = TimeAt(motion[q], c) /\ SimultaneousCollision(p, q, c)
               \/ TimeAt(motion[p], c) < TimeAt(motion[q], c) /\ RacingCollision(p, q, c)
               \/ TimeAt(motion[p], c) > TimeAt(motion[q], c) /\ RacingCollision(q, p, c)
        BY <2>2 DEF ResolveCollision
      <4>3. ASSUME NEW early, NEW late, RacingCollision(early, late, c)
            PROVE  Position(board, motion') = AfterRace(board, motion, early, late, c)
        BY <4>3 DEF RacingCollision, Remove, AfterRace, Cut, Ground
      <4>4. ASSUME SimultaneousCollision(p, q, c), TimeAt(motion[p], c) = TimeAt(motion[q], c)
            PROVE  Position(board, motion') = AfterCollision(board, motion, p, q, c)
        BY <4>4 DEF SimultaneousCollision, AfterCollision
      <4> HIDE DEF p, q, c
      <4>5. CASE TimeAt(motion[p], c) = TimeAt(motion[q], c)
        BY <1>5, <4>1, <4>2, <4>4, <4>5 DEF p, q, c
      <4>6. CASE TimeAt(motion[p], c) < TimeAt(motion[q], c)
        BY <1>5, <4>1, <4>2, <4>3, <4>6 DEF AfterCollision, p, q, c
      <4>7. CASE TimeAt(motion[p], c) > TimeAt(motion[q], c)
        BY <1>5, <4>1, <4>2, <4>3, <4>7 DEF AfterCollision, p, q, c
      <4> QED BY <4>1, <4>5, <4>6, <4>7
    <3> QED BY <1>5, <2>2, <3>1 DEF After
  <2>3. CASE e.type = "encounter" /\ ResolveEncounter(e.piece, e.cell)
    <3>1. Here' = AfterEncounter(board, motion, e.piece, e.cell)
      BY <1>5, <2>3 DEF ResolveEncounter, AfterEncounter, Cut
    <3> QED BY <1>5, <2>3, <3>1 DEF After
  <2> QED BY <1>1, <2>1, <2>2, <2>3
<1> QED BY <1>3, <1>4, <1>6 DEF Link

\* The operators on motions are those of the engine, whichever copy they are used in.
LEMMA FineOperators ==
    /\ \A m, c : Fine!TruncateBefore(m, c) = TruncateBefore(m, c)
    /\ \A m, c : Fine!TimeAt(m, c) = TimeAt(m, c)
    /\ \A p, q : Fine!Enemies(p, q) <=> Enemies(p, q)
    /\ Fine!Grounded = Grounded
    /\ Fine!NoPiece = NoPiece
    /\ Fine!Positions = Positions
BY DEF Fine!TruncateBefore, TruncateBefore, Fine!Enemies, Enemies, Fine!Grounded, Grounded,
       Fine!NoPiece, NoPiece, Fine!Positions, Positions,
       Fine!TimeAt, TimeAt, Fine!Pace, Pace, Fine!IndexOf, IndexOf,
       Fine!Length, Length, Fine!CellOf, CellOf, Fine!PathLength, PathLength,
       Fine!PathCell, PathCell, Fine!OnLine, OnLine, Fine!Distance, Distance,
       Fine!DRow, DRow, Fine!DCol, DCol, Fine!Abs, Abs, Fine!Sign, Sign

LEMMA FineLink ==
    ASSUME Sound(Here2), until2 \in Int, NoJumps, Fine!ResolveWait
    PROVE  Link(Here2, Here2', until2)
<1>1. PICK e \in Fine!Candidates :
          /\ Fine!IsNext(e)
          /\ \/ e.type = "arrival"   /\ Fine!ResolveArrival(e.piece)
             \/ e.type = "collision" /\ Fine!ResolveCollision(e.piece, e.other, e.cell)
             \/ e.type = "encounter" /\ Fine!ResolveEncounter(e.piece, e.cell)
  BY DEF Fine!ResolveWait, Fine!Resolve
<1>2. e \in EventsAt(Here2) /\ e.key[1] <= until2
  BY FineEventsAt
<1>3. First(Here2, e)
  BY <1>1, <1>2, FineEventsAt, FirstOfDue DEF Fine!IsNext, Fine!Before, Before
<1>4. Here2' = Position(board2', motion2') /\ Here2.board = board2 /\ Here2.motion = motion2
  BY DEF Here2, Position
<1>5. Here2' = After(Here2, e)
  <2>1. CASE e.type = "arrival" /\ Fine!ResolveArrival(e.piece)
    <3>1. ~Fine!Intercepted(e.piece)
      BY <1>2, <1>4, EventFields DEF NoJumps, Fine!Intercepted, Fine!IsJumpingOn
    <3>2. Here2' = AfterArrival(board2, motion2, e.piece)
      BY <1>4, <2>1, <3>1, FineOperators
         DEF Fine!ResolveArrival, Fine!FriendOn, AfterArrival, Fine!Remove, Cut, Ground
    <3> QED BY <1>4, <2>1, <3>2 DEF After
  <2>2. CASE e.type = "collision" /\ Fine!ResolveCollision(e.piece, e.other, e.cell)
    <3>1. Here2' = AfterCollision(board2, motion2, e.piece, e.other, e.cell)
      <4> DEFINE p == e.piece
                 q == e.other
                 c == e.cell
      <4>1. TimeAt(motion2[p], c) \in Int /\ TimeAt(motion2[q], c) \in Int
        BY <1>2, <1>4, <2>2, EventFields
      <4>2. /\ board2' = board2
            /\ \/ TimeAt(motion2[p], c) = TimeAt(motion2[q], c) /\ Fine!SimultaneousCollision(p, q, c)
               \/ TimeAt(motion2[p], c) < TimeAt(motion2[q], c) /\ Fine!RacingCollision(p, q, c)
               \/ TimeAt(motion2[p], c) > TimeAt(motion2[q], c) /\ Fine!RacingCollision(q, p, c)
        BY <2>2, FineOperators DEF Fine!ResolveCollision
      <4>3. ASSUME NEW early, NEW late, Fine!RacingCollision(early, late, c)
            PROVE  Position(board2, motion2') = AfterRace(board2, motion2, early, late, c)
        BY <4>3, FineOperators DEF Fine!RacingCollision, Fine!Remove, AfterRace, Cut, Ground
      <4>4. ASSUME Fine!SimultaneousCollision(p, q, c), TimeAt(motion2[p], c) = TimeAt(motion2[q], c)
            PROVE  Position(board2, motion2') = AfterCollision(board2, motion2, p, q, c)
        BY <4>4, FineOperators DEF Fine!SimultaneousCollision, AfterCollision
      <4> HIDE DEF p, q, c
      <4>5. CASE TimeAt(motion2[p], c) = TimeAt(motion2[q], c)
        BY <1>4, <4>1, <4>2, <4>4, <4>5 DEF p, q, c
      <4>6. CASE TimeAt(motion2[p], c) < TimeAt(motion2[q], c)
        BY <1>4, <4>1, <4>2, <4>3, <4>6 DEF AfterCollision, p, q, c
      <4>7. CASE TimeAt(motion2[p], c) > TimeAt(motion2[q], c)
        BY <1>4, <4>1, <4>2, <4>3, <4>7 DEF AfterCollision, p, q, c
      <4> QED BY <4>1, <4>5, <4>6, <4>7
    <3> QED BY <1>4, <2>2, <3>1 DEF After
  <2>3. CASE e.type = "encounter" /\ Fine!ResolveEncounter(e.piece, e.cell)
    <3>1. Here2' = AfterEncounter(board2, motion2, e.piece, e.cell)
      BY <1>4, <2>3, FineOperators DEF Fine!ResolveEncounter, AfterEncounter, Cut
    <3> QED BY <1>4, <2>3, <3>1 DEF After
  <2> QED BY <1>1, <2>1, <2>2, <2>3
<1> QED BY <1>2, <1>3, <1>5 DEF Link

-----------------------------------------------------------------------------
\* Chains of links.

\* f takes position x to position y in n iterations of calls that go up to time t.
IsChain(f, n, x, y, t) ==
    /\ f[0] = x /\ f[n] = y
    /\ \A i \in 0 .. n : Sound(f[i])
    /\ \A i \in 0 .. n - 1 : Link(f[i], f[i + 1], t)

Chain(x, y, t) == \E n \in Nat : \E f : IsChain(f, n, x, y, t)

\* No event of x happens up to time t.
Quiet(x, t) == \A e \in EventsAt(x) : ~(e.key[1] <= t)

LEMMA ChainEmpty ==
    ASSUME NEW x, Sound(x), NEW t
    PROVE  Chain(x, x, t)
<1> DEFINE f == [i \in {0} |-> x]
<1>1. IsChain(f, 0, x, x, t)
  BY DEF IsChain
<1> QED BY <1>1 DEF Chain

LEMMA ChainGrows ==
    ASSUME NEW x, NEW y, NEW z, NEW t, Chain(x, y, t), Sound(z), Link(y, z, t)
    PROVE  Chain(x, z, t)
<1>0. PICK n \in Nat : \E f : IsChain(f, n, x, y, t)
  BY DEF Chain
<1>1. PICK f : IsChain(f, n, x, y, t)
  BY <1>0
<1> DEFINE g == [i \in 0 .. n + 1 |-> IF i <= n THEN f[i] ELSE z]
<1>2. \A i \in 0 .. n : i \in 0 .. n + 1 /\ g[i] = f[i]
  BY <1>1
<1>3. g[n + 1] = z /\ g[0] = x /\ g[n] = y
  BY <1>1 DEF IsChain
<1> HIDE DEF g
<1>4. \A i \in 0 .. n + 1 : Sound(g[i])
  <2>1. \A i \in 0 .. n + 1 : i \in 0 .. n \/ i = n + 1
    OBVIOUS
  <2> QED BY <1>1, <1>2, <1>3, <2>1 DEF IsChain
<1>5. \A i \in 0 .. n : Link(g[i], g[i + 1], t)
  <2> SUFFICES ASSUME NEW i \in 0 .. n PROVE Link(g[i], g[i + 1], t)
    OBVIOUS
  <2>1. CASE i = n
    BY <1>3, <2>1
  <2>2. CASE i # n
    <3>1. i \in 0 .. n - 1 /\ i + 1 \in 0 .. n
      BY <2>2
    <3> QED BY <1>1, <1>2, <3>1 DEF IsChain
  <2> QED BY <2>1, <2>2
<1>6. IsChain(g, n + 1, x, z, t)
  BY <1>3, <1>4, <1>5 DEF IsChain
<1> QED BY <1>6 DEF Chain

\* The links of a chain are the only ones there are.
LEMMA ChainShrinks ==
    ASSUME NEW x, NEW y, NEW z, NEW t, NEW u, Chain(x, y, t), x # y, Link(x, z, u)
    PROVE  Chain(z, y, t)
<1>0. PICK n \in Nat : \E f : IsChain(f, n, x, y, t)
  BY DEF Chain
<1>1. PICK f : IsChain(f, n, x, y, t)
  BY <1>0
<1>2. n # 0
  BY <1>1 DEF IsChain
<1>3. 0 \in 0 .. n /\ 0 \in 0 .. n - 1 /\ 1 \in 0 .. n
  BY <1>2
<1>4. Sound(x) /\ Link(x, f[1], t)
  BY <1>1, <1>3 DEF IsChain
<1>5. f[1] = z
  BY <1>4, LinkIsUnique
<1> DEFINE g == [i \in 0 .. n - 1 |-> f[i + 1]]
<1>6. g[0] = z /\ g[n - 1] = y
  BY <1>1, <1>2, <1>5 DEF IsChain
<1>7. \A i \in 0 .. n - 1 : g[i] = f[i + 1] /\ i + 1 \in 0 .. n
  OBVIOUS
<1> HIDE DEF g
<1>8. \A i \in 0 .. n - 1 : Sound(g[i])
  BY <1>1, <1>7 DEF IsChain
<1>9. \A i \in 0 .. n - 1 - 1 : Link(g[i], g[i + 1], t)
  <2> SUFFICES ASSUME NEW i \in 0 .. n - 1 - 1 PROVE Link(g[i], g[i + 1], t)
    OBVIOUS
  <2>1. i \in 0 .. n - 1 /\ i + 1 \in 0 .. n - 1
    OBVIOUS
  <2> QED BY <1>1, <1>7, <2>1 DEF IsChain
<1>10. IsChain(g, n - 1, z, y, t)
  BY <1>6, <1>8, <1>9 DEF IsChain
<1>11. n - 1 \in Nat
  BY <1>2
<1> QED BY <1>10, <1>11 DEF Chain

LEMMA ChainLater ==
    ASSUME NEW x, NEW y, NEW t \in Int, NEW u \in Int, t <= u, Chain(x, y, t)
    PROVE  Chain(x, y, u)
<1>0. PICK n \in Nat : \E f : IsChain(f, n, x, y, t)
  BY DEF Chain
<1>1. PICK f : IsChain(f, n, x, y, t)
  BY <1>0
<1>2. ASSUME NEW a, NEW b, Sound(a), Link(a, b, t)
      PROVE  Link(a, b, u)
  <2>1. PICK e : First(a, e) /\ e.key[1] <= t /\ b = After(a, e)
    BY <1>2 DEF Link
  <2>2. e.key[1] \in Int
    BY <1>2, <2>1, KeyType DEF First, Keys
  <2>3. e.key[1] <= u
    BY <2>1, <2>2
  <2> QED BY <2>1, <2>3 DEF Link
<1>3. \A i \in 0 .. n - 1 : i \in 0 .. n
  OBVIOUS
<1>4. IsChain(f, n, x, y, u)
  BY <1>1, <1>2, <1>3 DEF IsChain
<1> QED BY <1>4 DEF Chain

LEMMA ChainQuiet ==
    ASSUME NEW x, NEW y, NEW t, Chain(x, y, t), Quiet(x, t)
    PROVE  x = y
<1>0. PICK n \in Nat : \E f : IsChain(f, n, x, y, t)
  BY DEF Chain
<1>1. PICK f : IsChain(f, n, x, y, t)
  BY <1>0
<1>2. CASE n = 0
  BY <1>1, <1>2 DEF IsChain
<1>3. CASE n # 0
  <2>1. 0 \in 0 .. n - 1
    BY <1>3
  <2>2. Link(x, f[0 + 1], t)
    BY <1>1, <2>1 DEF IsChain
  <2> QED BY <2>2 DEF Link, First, Quiet
<1> QED BY <1>2, <1>3

LEMMA ChainStart ==
    ASSUME NEW x, NEW y, NEW t, Chain(x, y, t)
    PROVE  Sound(x)
<1>0. PICK n \in Nat : \E f : IsChain(f, n, x, y, t)
  BY DEF Chain
<1>1. PICK f : IsChain(f, n, x, y, t)
  BY <1>0
<1>2. 0 \in 0 .. n
  OBVIOUS
<1> QED BY <1>1, <1>2 DEF IsChain

-----------------------------------------------------------------------------
(***************************************************************************)
(* The invariant.  Horizon is the time up to which the coarse copy has     *)
(* been told to go; the fine one never goes further.                       *)
(***************************************************************************)

Horizon == IF phase = "resolving" THEN until ELSE clock

ClocksInOrder ==
    /\ phase = "resolving" => clock <= until
    /\ clock2 \in Int /\ until2 \in Int
    /\ clock2 <= clock
    /\ phase2 = "resolving" => until2 <= clock

Follows ==
    /\ NoJumps
    /\ Chain(Here2, Here, Horizon)
    /\ phase2 # "resolving" => Quiet(Here2, clock2)

TickInv == IInv /\ FlightInv /\ ClocksInOrder /\ (~withJumps => Follows)

\* What the invariant of the engine says of a position.
LEMMA HereIsQuiet == IInv /\ FlightInv /\ phase # "resolving" => Quiet(Here, clock)
<1> SUFFICES ASSUME IInv, FlightInv, phase # "resolving", NEW e \in Events
             PROVE  ~(e.key[1] <= clock)
  BY CoarseEvents DEF Quiet
<1>1. e.key[1] > clock /\ clock \in Int
  BY DEF FlightInv, NothingLate, IInv, TypeOK
<1> QED BY <1>1, EventKeys

\* When the clocks are equal and nobody is at work, so are the positions.
LEMMA SamePosition ==
    ASSUME TickInv, InStep, ~withJumps
    PROVE  Here2 = Here
BY ChainQuiet DEF TickInv, Follows, InStep, Horizon

\* The invariant of the coarse copy is that of the engine.
LEMMA CoarseStep ==
    ASSUME IInv, FlightInv, [TickNext]_tickVars
    PROVE  IInv' /\ FlightInv'
<1>1. [Next]_vars
  <2>1. CASE MoveBoth
    BY <2>1 DEF MoveBoth, Next
  <2>2. CASE JumpBoth
    BY <2>2 DEF JumpBoth, Next
  <2>3. CASE WaitOnce
    BY <2>3 DEF WaitOnce, Next, Wait
  <2>4. CASE WaitInParts
    BY <2>4 DEF WaitInParts
  <2>5. CASE UNCHANGED tickVars
    BY <2>5 DEF tickVars
  <2> QED BY <2>1, <2>2, <2>3, <2>4, <2>5 DEF TickNext, AtBound
<1> QED BY <1>1, NextIInv, NextFlightInv

LEMMA MoveKeepsInv ==
    ASSUME TickInv, IInv', FlightInv', MoveBoth
    PROVE  TickInv'
<1>1. PICK s \in Positions, d \in Positions : RequestMove(s, d) /\ Fine!RequestMove(s, d)
  BY DEF MoveBoth
<1>2. /\ InStep /\ withJumps' = withJumps
      /\ UNCHANGED <<clock, phase, until, jumpEnd>>
      /\ UNCHANGED <<clock2, phase2, until2, jumpEnd2>>
  BY <1>1 DEF MoveBoth, RequestMove, Fine!RequestMove
<1>3. ClocksInOrder'
  BY <1>2 DEF ClocksInOrder, TickInv
<1>4. ASSUME ~withJumps
      PROVE  Follows'
  <2>1. board2 = board /\ motion2 = motion /\ clock2 = clock
    BY <1>2, <1>4, SamePosition DEF Here, Here2, Position, InStep
  <2>2. /\ board' = RemovePiece(board, board[s])
        /\ motion' = [motion EXCEPT ![board[s]] =
                        [source |-> s, dest |-> d, start |-> clock,
                         arrival |-> clock + MoveDuration * Distance(s, d)]]
    BY <1>1 DEF RequestMove, StartMotion
  <2>3. /\ board2' = RemovePiece(board2, board2[s])
        /\ motion2' = [motion2 EXCEPT ![board2[s]] =
                        [source |-> s, dest |-> d, start |-> clock2,
                         arrival |-> clock2 + MoveDuration * Distance(s, d)]]
    <3>1. /\ board2' = Fine!RemovePiece(board2, board2[s])
          /\ motion2' = [motion2 EXCEPT ![board2[s]] =
                          [source |-> s, dest |-> d, start |-> clock2,
                           arrival |-> clock2 + MoveDuration * Fine!Distance(s, d)]]
      BY <1>1 DEF Fine!RequestMove, Fine!StartMotion
    <3>2. Fine!RemovePiece(board2, board2[s]) = RemovePiece(board2, board2[s])
      BY DEF Fine!RemovePiece, RemovePiece, Fine!Positions, Positions, Fine!NoPiece, NoPiece
    <3>3. Fine!Distance(s, d) = Distance(s, d)
      BY DEF Fine!Distance, Distance, Fine!DRow, DRow, Fine!DCol, DCol, Fine!Abs, Abs
    <3> QED BY <3>1, <3>2, <3>3
  <2>4. board2' = board' /\ motion2' = motion'
    BY <2>1, <2>2, <2>3
  <2>5. Here2' = Here' /\ clock2' = clock' /\ phase' = "idle"
    BY <1>2, <2>1, <2>4 DEF Here, Here2, Position, InStep
  <2>6. (IInv /\ FlightInv => Sound(Here))'
    BY HereIsSound, PTL
  <2>7. (IInv /\ FlightInv /\ phase # "resolving" => Quiet(Here, clock))'
    BY HereIsQuiet, PTL
  <2>8. Sound(Here') /\ Quiet(Here', clock')
    BY <2>5, <2>6, <2>7 DEF Sound, Quiet
  <2>9. Chain(Here2', Here', Horizon')
    BY <2>5, <2>8, ChainEmpty
  <2>10. Quiet(Here2', clock2')
    BY <2>5, <2>8
  <2>11. NoJumps'
    BY <1>2, <1>4 DEF NoJumps, TickInv, Follows
  <2> QED BY <2>9, <2>10, <2>11 DEF Follows
<1> QED BY <1>2, <1>3, <1>4 DEF TickInv

LEMMA JumpKeepsInv ==
    ASSUME TickInv, IInv', FlightInv', JumpBoth
    PROVE  TickInv'
<1>1. /\ withJumps' = TRUE
      /\ UNCHANGED <<clock, phase, until, clock2, phase2, until2>>
  BY DEF JumpBoth, RequestJump, Fine!RequestJump
<1> QED BY <1>1 DEF TickInv, ClocksInOrder

LEMMA WaitOnceKeepsInv ==
    ASSUME TickInv, IInv', FlightInv', WaitOnce
    PROVE  TickInv'
<1>1. UNCHANGED <<clock2, board2, motion2, phase2, until2, jumpEnd2, withJumps>>
  BY DEF WaitOnce, fineVars
<1>2. Here2' = Here2
  BY <1>1 DEF Here2, Position
<1>3. clock \in Int /\ until \in Int /\ clock' \in Int /\ until' \in Int
  BY DEF TickInv, IInv, TypeOK
<1>4. phase2 # "resolving" => (~withJumps => Quiet(Here2', clock2'))
  BY <1>1, <1>2 DEF TickInv, Follows
<1>5. CASE InStep /\ \E ms \in TickSizes : BeginWait(ms)
  <2>1. PICK ms \in TickSizes : BeginWait(ms)
    BY <1>5
  <2>2. /\ phase = "idle" /\ phase' = "resolving" /\ until' = clock + ms
        /\ UNCHANGED <<clock, board, motion, jumpEnd>> /\ ms \in Nat
    BY <2>1, DurationAssumption DEF BeginWait, BeginAdvance, arbiterVars
  <2>3. ClocksInOrder'
    BY <1>1, <1>3, <2>2 DEF TickInv, ClocksInOrder
  <2>4. ASSUME ~withJumps PROVE Follows'
    <3>1. Here' = Here /\ Horizon = clock /\ Horizon' = until'
      BY <2>2 DEF Here, Position, Horizon
    <3>2. Chain(Here2, Here, until')
      BY <1>3, <2>2, <2>4, <3>1, ChainLater DEF TickInv, Follows
    <3> QED BY <1>1, <1>2, <1>4, <2>2, <2>4, <3>1, <3>2 DEF Follows, NoJumps, TickInv
  <2> QED BY <1>1, <2>3, <2>4 DEF TickInv
<1>6. CASE ResolveWait
  <2>1. phase = "resolving" /\ UNCHANGED <<phase, clock, until, jumpEnd>>
    BY <1>6 DEF ResolveWait, Resolve
  <2>2. ClocksInOrder'
    BY <1>1, <2>1 DEF TickInv, ClocksInOrder
  <2>3. ASSUME ~withJumps PROVE Follows'
    <3>1. Horizon = until /\ Horizon' = until
      BY <2>1 DEF Horizon
    <3>2. Link(Here, Here', until)
      BY <1>6, <2>3, CoarseLink DEF TickInv, Follows
    <3>3. (IInv /\ FlightInv => Sound(Here))'
      BY HereIsSound, PTL
    <3>4. Sound(Here')
      BY <3>3 DEF Sound
    <3>5. Chain(Here2, Here', until)
      BY <2>3, <3>1, <3>2, <3>4, ChainGrows DEF TickInv, Follows
    <3> QED BY <1>1, <1>2, <1>4, <2>1, <2>3, <3>1, <3>5 DEF Follows, NoJumps, TickInv
  <2> QED BY <1>1, <2>2, <2>3 DEF TickInv
<1>7. CASE FinishWait
  <2>1. /\ phase = "resolving" /\ phase' # "resolving" /\ clock' = until
        /\ UNCHANGED <<board, motion>>
        /\ jumpEnd' = [c \in Positions |-> IF jumpEnd[c] <= until THEN 0 ELSE jumpEnd[c]]
    BY <1>7 DEF FinishWait, FinishAdvance, Continue
  <2>2. ClocksInOrder'
    BY <1>1, <1>3, <2>1 DEF TickInv, ClocksInOrder
  <2>3. ASSUME ~withJumps PROVE Follows'
    <3>1. Here' = Here /\ Horizon = until /\ Horizon' = until
      BY <2>1 DEF Here, Position, Horizon
    <3>2. NoJumps'
      BY <1>1, <2>1, <2>3 DEF TickInv, Follows, NoJumps
    <3> QED BY <1>1, <1>2, <1>4, <2>3, <3>1, <3>2 DEF Follows, TickInv
  <2> QED BY <1>1, <2>2, <2>3 DEF TickInv
<1>8. CASE Apply
  <2>1. /\ phase = "applying" /\ phase' # "resolving"
        /\ UNCHANGED <<clock, board, motion, jumpEnd>>
    BY <1>8 DEF Apply, ApplyKingCapture, ApplyArrival, Continue, arbiterVars
  <2>2. ClocksInOrder'
    BY <1>1, <2>1 DEF TickInv, ClocksInOrder
  <2>3. ASSUME ~withJumps PROVE Follows'
    <3>1. Here' = Here /\ Horizon' = Horizon
      BY <2>1 DEF Here, Position, Horizon
    <3> QED BY <1>1, <1>2, <1>4, <2>1, <2>3, <3>1 DEF Follows, NoJumps, TickInv
  <2> QED BY <1>1, <2>2, <2>3 DEF TickInv
<1> QED BY <1>5, <1>6, <1>7, <1>8 DEF WaitOnce

LEMMA WaitInPartsKeepsInv ==
    ASSUME TickInv, IInv', FlightInv', WaitInParts
    PROVE  TickInv'
<1>1. /\ phase = "idle"
      /\ UNCHANGED <<clock, board, motion, phase, until, jumpEnd, withJumps>>
  BY DEF WaitInParts, vars, arbiterVars
<1>2. Here' = Here /\ Horizon = clock /\ Horizon' = clock
  BY <1>1 DEF Here, Position, Horizon
<1>3. clock \in Int /\ clock2 \in Int /\ until2 \in Int
  BY DEF TickInv, ClocksInOrder, IInv, TypeOK
<1>4. CASE \E ms \in TickSizes : clock2 + ms <= clock /\ Fine!BeginWait(ms)
  <2>1. PICK ms \in TickSizes : clock2 + ms <= clock /\ Fine!BeginWait(ms)
    BY <1>4
  <2>2. /\ phase2' = "resolving" /\ until2' = clock2 + ms /\ ms \in Nat
        /\ UNCHANGED <<clock2, board2, motion2, jumpEnd2>>
    BY <2>1, DurationAssumption DEF Fine!BeginWait, Fine!BeginAdvance, Fine!arbiterVars
  <2>3. ClocksInOrder'
    BY <1>1, <1>3, <2>1, <2>2 DEF TickInv, ClocksInOrder
  <2>4. Here2' = Here2
    BY <2>2 DEF Here2, Position
  <2>5. ASSUME ~withJumps PROVE Follows'
    BY <1>1, <1>2, <2>2, <2>4, <2>5 DEF TickInv, Follows, NoJumps
  <2> QED BY <1>1, <2>3, <2>5 DEF TickInv
<1>5. CASE Fine!ResolveWait
  <2>1. phase2 = "resolving" /\ UNCHANGED <<clock2, phase2, until2, jumpEnd2>>
    BY <1>5 DEF Fine!ResolveWait, Fine!Resolve
  <2>2. ClocksInOrder'
    BY <1>1, <2>1 DEF TickInv, ClocksInOrder
  <2>3. ASSUME ~withJumps PROVE Follows'
    <3>1. Chain(Here2, Here, clock) /\ NoJumps
      BY <1>2, <2>3 DEF TickInv, Follows
    <3>2. Link(Here2, Here2', until2)
      BY <1>3, <1>5, <3>1, ChainStart, FineLink
    <3>3. Here2 # Here
      <4>1. Quiet(Here, clock)
        BY <1>1, HereIsQuiet DEF TickInv
      <4>2. PICK e \in EventsAt(Here2) : e.key[1] <= until2
        BY <3>2 DEF Link, First
      <4>3. e.key[1] \in Int
        BY <3>1, ChainStart, KeyType DEF Keys
      <4>4. until2 <= clock
        BY <2>1 DEF TickInv, ClocksInOrder
      <4> QED BY <1>3, <4>1, <4>2, <4>3, <4>4 DEF Quiet
    <3>4. Chain(Here2', Here, clock)
      BY <3>1, <3>2, <3>3, ChainShrinks
    <3> QED BY <1>1, <1>2, <2>1, <3>1, <3>4 DEF Follows, NoJumps
  <2> QED BY <1>1, <2>2, <2>3 DEF TickInv
<1>6. CASE Fine!FinishWait
  <2>1. /\ phase2 = "resolving" /\ phase2' # "resolving" /\ clock2' = until2 /\ until2' = 0
        /\ UNCHANGED <<board2, motion2>> /\ Fine!Candidates = {}
        /\ jumpEnd2' = [c \in Positions |-> IF jumpEnd2[c] <= until2 THEN 0 ELSE jumpEnd2[c]]
    BY <1>6, FineOperators DEF Fine!FinishWait, Fine!FinishAdvance, Fine!Continue
  <2>2. ClocksInOrder'
    BY <1>1, <1>3, <2>1 DEF TickInv, ClocksInOrder
  <2>3. ASSUME ~withJumps PROVE Follows'
    <3>1. Here2' = Here2
      BY <2>1 DEF Here2, Position
    <3>2. Quiet(Here2, until2)
      BY <2>1, FineEventsAt DEF Quiet
    <3>3. NoJumps'
      BY <1>1, <2>1, <2>3 DEF TickInv, Follows, NoJumps
    <3> QED BY <1>2, <2>1, <2>3, <3>1, <3>2, <3>3 DEF TickInv, Follows
  <2> QED BY <1>1, <2>2, <2>3 DEF TickInv
<1>7. CASE Fine!Apply
  <2>1. /\ phase2 = "applying" /\ phase2' # "resolving"
        /\ UNCHANGED <<clock2, board2, motion2, jumpEnd2, until2>>
    BY <1>7 DEF Fine!Apply, Fine!ApplyKingCapture, Fine!ApplyArrival, Fine!Continue,
                Fine!arbiterVars
  <2>2. ClocksInOrder'
    BY <1>1, <2>1 DEF TickInv, ClocksInOrder
  <2>3. Here2' = Here2
    BY <2>1 DEF Here2, Position
  <2>4. ASSUME ~withJumps PROVE Follows'
    BY <1>1, <1>2, <2>1, <2>3, <2>4 DEF TickInv, Follows, NoJumps
  <2> QED BY <1>1, <2>2, <2>4 DEF TickInv
<1> QED BY <1>4, <1>5, <1>6, <1>7 DEF WaitInParts

LEMMA StutterKeepsInv ==
    ASSUME TickInv, IInv', FlightInv', UNCHANGED tickVars
    PROVE  TickInv'
<1>1. /\ UNCHANGED <<clock, board, motion, phase, until, jumpEnd, withJumps>>
      /\ UNCHANGED <<clock2, board2, motion2, phase2, until2, jumpEnd2>>
  BY DEF tickVars, vars, arbiterVars, fineVars
<1>2. Here' = Here /\ Here2' = Here2 /\ Horizon' = Horizon
  BY <1>1 DEF Here, Here2, Position, Horizon
<1> QED BY <1>1, <1>2 DEF TickInv, ClocksInOrder, Follows, NoJumps

LEMMA NextTickInv == TickInv /\ [TickNext]_tickVars => TickInv'
<1> SUFFICES ASSUME TickInv, [TickNext]_tickVars PROVE TickInv'
  OBVIOUS
<1>1. IInv' /\ FlightInv'
  BY CoarseStep DEF TickInv
<1>2. CASE MoveBoth
  BY <1>1, <1>2, MoveKeepsInv
<1>3. CASE JumpBoth
  BY <1>1, <1>3, JumpKeepsInv
<1>4. CASE WaitOnce
  BY <1>1, <1>4, WaitOnceKeepsInv
<1>5. CASE WaitInParts
  BY <1>1, <1>5, WaitInPartsKeepsInv
<1>6. CASE UNCHANGED tickVars
  BY <1>1, <1>6, StutterKeepsInv
<1> QED BY <1>2, <1>3, <1>4, <1>5, <1>6 DEF TickNext, AtBound

LEMMA InitTickInv == TickInit => TickInv
<1> SUFFICES ASSUME TickInit PROVE TickInv
  OBVIOUS
<1>1. IInv /\ FlightInv
  BY InitIInv, InitFlightInv DEF TickInit
<1>2. /\ clock = 0 /\ phase = "idle" /\ board = InitialBoard
      /\ motion = [p \in Pieces |-> Grounded] /\ jumpEnd = [c \in Positions |-> 0]
  BY DEF TickInit, Init
<1>3. /\ clock2 = 0 /\ phase2 = "idle" /\ until2 = 0 /\ board2 = InitialBoard
      /\ motion2 = [p \in Pieces |-> Grounded] /\ jumpEnd2 = [c \in Positions |-> 0]
  <2>1. Fine!InitialBoard = InitialBoard
    BY DEF Fine!InitialBoard, InitialBoard, Fine!Positions, Positions, Fine!NoPiece, NoPiece
  <2> QED BY <2>1, FineOperators DEF TickInit, Fine!Init
<1>4. Here2 = Here /\ Horizon = 0
  BY <1>2, <1>3 DEF Here, Here2, Position, Horizon
<1>5. Chain(Here2, Here, Horizon) /\ Quiet(Here2, clock2)
  BY <1>1, <1>2, <1>3, <1>4, HereIsSound, HereIsQuiet, ChainEmpty
<1> QED BY <1>1, <1>2, <1>3, <1>5 DEF TickInv, ClocksInOrder, Follows, NoJumps

\* The fine copy is always some links behind the coarse one.
THEOREM FineFollowsCoarse == TickSpec => []TickInv
BY InitTickInv, NextTickInv, PTL DEF TickSpec

\* Unless a jump is requested, the cells the pieces stand on do not depend on how the time
\* is divided into calls of advance_time: whatever the board, the pieces and the moves.
THEOREM TicksDoNotMatter == TickSpec => []SameResultWithoutJumps
<1>1. TickInv => SameResultWithoutJumps
  BY SamePosition DEF SameResultWithoutJumps, Here, Here2, Position
<1> QED BY <1>1, FineFollowsCoarse, PTL

\* Nor do the flights: the games are the same from then on.
THEOREM FlightsDoNotDependOnTicks == TickSpec => [](InStep /\ ~withJumps => motion = motion2)
<1>1. TickInv => (InStep /\ ~withJumps => motion = motion2)
  BY SamePosition DEF Here, Here2, Position
<1> QED BY <1>1, FineFollowsCoarse, PTL
=============================================================================
