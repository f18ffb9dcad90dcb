--------------------------- MODULE RealTimeArbiter ---------------------------
(***************************************************************************)
(* realtime/real_time_arbiter.py: motions in flight, jumps and cooldowns   *)
(* against a clock its caller advances.  advance_time(ms) is a loop that   *)
(* resolves, in time order, every arrival, every collision of two motions  *)
(* and every encounter of a motion with a piece on the board that is due.  *)
(* One iteration of the loop is one step here: phase is "resolving" from   *)
(* the call to its return, and no request can be taken in between because  *)
(* the code is synchronous.                                                *)
(*                                                                         *)
(* Time is counted in units of half a second: all the durations of         *)
(* constants.py are multiples of it.                                       *)
(***************************************************************************)
EXTENDS MoveRules, Sequences

CONSTANTS
    MoveDuration     \* what one cell of a move costs

ASSUME MoveAssumption == MoveDuration \in Nat \ {0}

VARIABLES
    clock,      \* _clock
    board,      \* _board
    motion,     \* motion[p]: the motion of p, or Grounded
    active,     \* _active_motions: the pieces in flight in list order
    jumpEnd,    \* _active_jumps: jumpEnd[c] is the end of the jump on c, 0 if none
    cooldown,   \* _cooldowns: the time p's rest ends
    kind,       \* the kind a piece has now, carried by the Piece object
    phase,      \* "idle", "resolving" (in advance_time) or "applying" (in _apply_arrivals)
    until,      \* new_clock of the advance_time call being executed
    jumped,     \* the JumpEndedEvents of this call: the pieces whose jump ended
    events      \* the ArrivalEvents of this call still to be applied

arbiterVars == <<clock, board, motion, active, jumpEnd, cooldown>>

Motions == [source : Positions, dest : Positions, start : Int, arrival : Int]

Grounded == [source |-> <<0, 0>>, dest |-> <<0, 0>>, start |-> -1, arrival |-> -1]

InFlight == {p \in Pieces : motion[p] # Grounded}

Enemies(p, q) == Color[p] # Color[q]

-----------------------------------------------------------------------------
\* realtime/motion.py.

Length(m)   == PathLength(m.source, m.dest)
CellOf(m, i) == PathCell(m.source, m.dest, i)
Path(m)     == {CellOf(m, i) : i \in 1 .. Length(m)}

\* The cells a motion passes over before its destination.
Passed(m)   == {CellOf(m, i) : i \in 1 .. Length(m) - 1}

\* path_cells().index(cell) + 1.
IndexOf(m, cell) == IF OnLine(m.source, m.dest) THEN Distance(m.source, cell) ELSE 1

\* duration_ms / len(path): exact, because a duration is a multiple of the path.
Pace(m) == (m.arrival - m.start) \div Length(m)

TimeAt(m, cell) == m.start + Pace(m) * IndexOf(m, cell)

\* Mutants of TruncateBefore: the old arrival time, no effect.
TruncateKeepsArrival(m, cell) == [m EXCEPT !.dest = CellOf(m, IndexOf(m, cell) - 1)]
TruncateNowhere(m, cell) == m

\* truncate_before: stop one cell short of cell, at the time that cell is reached.
TruncateBefore(m, cell) ==
    LET i == IndexOf(m, cell)
    IN [m EXCEPT !.dest = CellOf(m, i - 1), !.arrival = m.start + Pace(m) * (i - 1)]

-----------------------------------------------------------------------------
IsJumpingOn(c)  == jumpEnd[c] # 0
IsResting(p)    == clock < cooldown[p]

IndexIn(list, p) == CHOOSE i \in DOMAIN list : list[i] = p

\* Mutant of Without: the piece stays in the list.
WithoutNothing(list, p) == list

\* list.remove(p).
Without(list, p) ==
    LET k == IndexIn(list, p)
    IN [i \in 1 .. Len(list) - 1 |-> IF i < k THEN list[i] ELSE list[i + 1]]

\* Mutant of StartMotion: the piece stays on the board as well.
StartMotionOnBoard(p, s, d, duration) ==
    /\ motion' = [motion EXCEPT ![p] =
                    [source |-> s, dest |-> d, start |-> clock, arrival |-> clock + duration]]
    /\ active' = Append(active, p)
    /\ UNCHANGED board

\* _active_motions.append and board.remove_piece.
StartMotion(p, s, d, duration) ==
    /\ motion' = [motion EXCEPT ![p] =
                    [source |-> s, dest |-> d, start |-> clock, arrival |-> clock + duration]]
    /\ active' = Append(active, p)
    /\ board' = RemovePiece(board, p)

\* advance_time up to its loop: the jumps that end are reported first, for the piece
\* that stands on the guarded cell now.
BeginAdvance(ms) ==
    /\ phase = "idle"
    /\ phase' = "resolving"
    /\ until' = clock + ms
    /\ jumped' = {board[c] : c \in {x \in Positions : /\ jumpEnd[x] # 0
                                                      /\ jumpEnd[x] <= clock + ms}}
                 \ {NoPiece}
    /\ UNCHANGED <<arbiterVars, kind, events>>

-----------------------------------------------------------------------------
\* _next_event: every candidate with the key the code sorts by.  The pair's earliest
\* shared cell (_collision_between) is the least of the pair's keys.

Larger(a, b)  == IF a >= b THEN a ELSE b
Smaller(a, b) == IF a <= b THEN a ELSE b

Arrivals ==
    {[type |-> "arrival", key |-> <<motion[p].arrival, 1, p, 0, 0, 0>>,
      piece |-> p, other |-> NoPiece, cell |-> motion[p].dest] : p \in InFlight}

CollisionsOf(p, q) ==
    {[type |-> "collision",
      key |-> <<Larger(TimeAt(motion[p], c), TimeAt(motion[q], c)), 0,
                Smaller(p, q), Larger(p, q), c[1], c[2]>>,
      piece |-> p, other |-> q, cell |-> c] : c \in Path(motion[p]) \cap Path(motion[q])}

Collisions ==
    UNION {UNION {CollisionsOf(p, q) : q \in {r \in InFlight : p < r}} : p \in InFlight}

EncountersOf(p) ==
    {[type |-> "encounter",
      key |-> <<TimeAt(motion[p], c), 0, p, board[c], 0, 0>>,
      piece |-> p, other |-> board[c], cell |-> c]
        : c \in {x \in Passed(motion[p]) : board[x] # NoPiece}}

Encounters == UNION {EncountersOf(p) : p \in InFlight}

\* Mutant of Candidates: what is due exactly now waits for the next call.
CandidatesStrictlyBefore ==
    {e \in Arrivals \cup Collisions \cup Encounters : e.key[1] < until}

Candidates ==
    {e \in Arrivals \cup Collisions \cup Encounters : e.key[1] <= until}

\* Mutant of Before: the kind of the event before its time.
BeforeIgnoringTime(j, k) ==
    \E i \in 2 .. 6 : j[i] < k[i] /\ \A h \in 2 .. (i - 1) : j[h] = k[h]

\* Lexicographic order of two keys.
Before(j, k) ==
    \E i \in 1 .. 6 : j[i] < k[i] /\ \A h \in 1 .. (i - 1) : j[h] = k[h]

IsNext(e) == e \in Candidates /\ \A f \in Candidates : ~Before(f.key, e.key)

-----------------------------------------------------------------------------
\* The event (ArrivalEvent) that mover was at a cell and captured a piece; a mover
\* that captured itself was destroyed.
Event(mover, cell, captured) == [piece |-> mover, at |-> cell, captured |-> captured]

\* _active_motions.remove.
Remove(p) ==
    /\ motion' = [motion EXCEPT ![p] = Grounded]
    /\ active' = Without(active, p)

\* Both are at the cell at the same time: friends both stop short, enemies destroy
\* each other, reported in list order.
SimultaneousCollision(p, q, c) ==
    IF Enemies(p, q)
    THEN LET first  == IF IndexIn(active, p) < IndexIn(active, q) THEN p ELSE q
             second == IF first = p THEN q ELSE p
         IN /\ motion' = [motion EXCEPT ![p] = Grounded, ![q] = Grounded]
            /\ active' = Without(Without(active, p), q)
            /\ events' = events \o <<Event(first, c, first), Event(second, c, second)>>
    ELSE /\ motion' = [motion EXCEPT ![p] = TruncateBefore(@, c), ![q] = TruncateBefore(@, c)]
         /\ UNCHANGED <<active, events>>

\* Mutant of RacingCollision: the wrong one of the two enemies is removed.
RacingCollisionRemovesLate(early, late, c) ==
    IF Enemies(early, late)
    THEN Remove(late) /\ events' = Append(events, Event(late, c, early))
    ELSE /\ motion' = [motion EXCEPT ![late] = TruncateBefore(@, c)]
         /\ UNCHANGED <<active, events>>

\* The later one at the cell stops short of a friend or captures an enemy and flies on.
RacingCollision(early, late, c) ==
    IF Enemies(early, late)
    THEN Remove(early) /\ events' = Append(events, Event(late, c, early))
    ELSE /\ motion' = [motion EXCEPT ![late] = TruncateBefore(@, c)]
         /\ UNCHANGED <<active, events>>

ResolveCollision(p, q, c) ==
    /\ LET tp == TimeAt(motion[p], c)
           tq == TimeAt(motion[q], c)
       IN \/ tp = tq /\ SimultaneousCollision(p, q, c)
          \/ tp < tq /\ RacingCollision(p, q, c)
          \/ tp > tq /\ RacingCollision(q, p, c)
    /\ UNCHANGED board

\* Mutant of ResolveEncounter: the captured piece stays on the board.
ResolveEncounterLeavesVictim(p, c) ==
    IF Enemies(p, board[c])
    THEN /\ events' = Append(events, Event(p, c, board[c]))
         /\ UNCHANGED <<board, motion, active>>
    ELSE /\ motion' = [motion EXCEPT ![p] = TruncateBefore(@, c)]
         /\ UNCHANGED <<board, active, events>>

\* A motion meets a piece that stands on a cell of its path.
ResolveEncounter(p, c) ==
    IF Enemies(p, board[c])
    THEN /\ board' = [board EXCEPT ![c] = NoPiece]
         /\ events' = Append(events, Event(p, c, board[c]))
         /\ UNCHANGED <<motion, active>>
    ELSE /\ motion' = [motion EXCEPT ![p] = TruncateBefore(@, c)]
         /\ UNCHANGED <<board, active, events>>

\* An enemy stands on the destination with a jump in the list.
Intercepted(p) ==
    LET d == motion[p].dest
    IN IsJumpingOn(d) /\ board[d] # NoPiece /\ Enemies(p, board[d])

\* Mutant of FriendOn: the colour of the piece on the destination is not looked at.
FriendOnNever(p, c) == FALSE

FriendOn(p, c) == board[c] # NoPiece /\ ~Enemies(p, board[c])

\* The mover is removed first, then destroyed, sent one cell back, dropped or landed.
ResolveArrival(p) ==
    LET m == motion[p]
        d == m.dest
    IN \/ /\ Intercepted(p)
          /\ Remove(p)
          /\ events' = Append(events, Event(p, d, p))
          /\ UNCHANGED board
       \/ /\ ~Intercepted(p) /\ FriendOn(p, d) /\ d # m.source
          /\ motion' = [motion EXCEPT ![p] = TruncateBefore(m, d)]
          /\ active' = Append(Without(active, p), p)
          /\ UNCHANGED <<board, events>>
       \/ /\ ~Intercepted(p) /\ FriendOn(p, d) /\ d = m.source
          /\ Remove(p)
          /\ UNCHANGED <<board, events>>
       \/ /\ ~Intercepted(p) /\ ~FriendOn(p, d)
          /\ Remove(p)
          /\ board' = [board EXCEPT ![d] = p]
          /\ events' = Append(events, Event(p, d, board[d]))

\* One iteration of the loop.
Resolve ==
    /\ phase = "resolving"
    /\ \E e \in Candidates :
          /\ IsNext(e)
          /\ \/ e.type = "arrival"   /\ ResolveArrival(e.piece)
             \/ e.type = "collision" /\ ResolveCollision(e.piece, e.other, e.cell)
             \/ e.type = "encounter" /\ ResolveEncounter(e.piece, e.cell)
    /\ UNCHANGED <<clock, jumpEnd, cooldown, kind, phase, until, jumped>>

\* The loop is over: the clock moves and the jumps that have ended leave the list.
FinishAdvance ==
    /\ phase = "resolving"
    /\ Candidates = {}
    /\ clock' = until
    /\ jumpEnd' = [c \in Positions |-> IF jumpEnd[c] <= until THEN 0 ELSE jumpEnd[c]]
    /\ UNCHANGED <<board, motion, active>>
=============================================================================
