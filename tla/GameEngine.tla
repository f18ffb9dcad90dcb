------------------------------ MODULE GameEngine ------------------------------
(***************************************************************************)
(* engine/game_engine.py: the single authority of one game.  It accepts or *)
(* rejects moves and jumps, advances time through the arbiter, applies the *)
(* arrivals it gets back (captures, rests, promotions, the end of the      *)
(* game) and publishes events.  engine/game_conditions.py gives the win    *)
(* condition (a captured king) and the promotion rule.                     *)
(*                                                                         *)
(* wait(ms) is one synchronous call; here it is BeginWait, one Resolve per *)
(* iteration of the arbiter's loop, FinishWait, and one Apply per arrival. *)
(***************************************************************************)
EXTENDS RealTimeArbiter

CONSTANTS
    StartCell,      \* StartCell[p]: where p stands in the initial layout
    StartKind,      \* StartKind[p]: its kind there
    JumpDuration, LongRest, ShortRest,
    TickSizes,      \* the dt a caller may pass to wait()
    MaxClock        \* bound of the model: no flight may end later than this

ASSUME StartAssumption ==
    /\ StartCell \in [Pieces -> Cells]
    /\ StartKind \in [Pieces -> Kinds]
    /\ \A p, q \in Pieces : StartCell[p] = StartCell[q] => p = q
ASSUME DurationAssumption ==
    /\ JumpDuration \in Nat \ {0}
    /\ LongRest \in Nat /\ ShortRest \in Nat
    /\ TickSizes \subseteq Nat
    /\ MaxClock \in Nat

VARIABLES
    gameOver,   \* _game_over
    news,       \* the events published by the latest step
    lost,       \* the pieces whose loss has been published so far
    score       \* ScoreTracker: the points of each colour

engineVars == <<gameOver, news, lost, score>>
vars == <<arbiterVars, kind, phase, until, jumped, events, engineVars>>

Colors == {"w", "b"}

ScoreByKind(k) ==
    CASE k = "P" -> 1 [] k = "N" -> 3 [] k = "B" -> 3 [] k = "R" -> 5 [] k = "Q" -> 9
      [] OTHER -> 0

-----------------------------------------------------------------------------
InitialBoard ==
    [c \in Positions |-> IF \E p \in Pieces : StartCell[p] = c
                         THEN CHOOSE p \in Pieces : StartCell[p] = c ELSE NoPiece]

Init ==
    /\ clock = 0
    /\ board = InitialBoard
    /\ motion = [p \in Pieces |-> Grounded]
    /\ active = <<>>
    /\ jumpEnd = [c \in Positions |-> 0]
    /\ cooldown = [p \in Pieces |-> 0]
    /\ kind = StartKind
    /\ phase = "idle"
    /\ until = 0
    /\ jumped = {}
    /\ events = <<>>
    /\ gameOver = FALSE
    /\ news = {}
    /\ lost = {}
    /\ score = [x \in Colors |-> 0]

-----------------------------------------------------------------------------
\* The published events.

Moved(e)     == [type |-> "move", piece |-> e.piece, at |-> e.at]
Captured(e)  == [type |-> "capture", piece |-> e.piece, victim |-> e.captured]
Stopped(e)   == [type |-> "stopped", piece |-> e.piece]
Promoted(p)  == [type |-> "promotion", piece |-> p]
Over(winner) == [type |-> "gameover", winner |-> winner]
JumpDone(p)  == [type |-> "jump", piece |-> p]
Illegal      == [type |-> "illegal"]

\* _publish_action_event: nothing once the game is over.
ActionEvent(e) ==
    IF gameOver THEN {}
    ELSE IF e.captured = e.piece THEN {Stopped(e)}
    ELSE IF e.captured # NoPiece THEN {Captured(e)}
    ELSE {Moved(e)}

\* Mutant of NoteLoss: every arrival is taken for a capture.
NoteLossOfNobody(e) ==
    IF gameOver THEN UNCHANGED <<lost, score>>
    ELSE lost' = lost \cup {e.captured} /\ UNCHANGED score

\* ScoreTracker._on_capture, the subscriber to the capture events.
NoteLoss(e) ==
    IF gameOver \/ e.captured = NoPiece
    THEN UNCHANGED <<lost, score>>
    ELSE /\ lost' = lost \cup {e.captured}
         /\ score' = IF e.captured = e.piece THEN score
                     ELSE [score EXCEPT ![Color[e.piece]] = @ + ScoreByKind(kind[e.captured])]

-----------------------------------------------------------------------------
\* request_move and request_jump.  The bound MaxClock keeps every flight and jump
\* within the modelled time.

MoveAllowed(s, d) ==
    /\ ~IsJumpingOn(s)
    /\ board[s] # NoPiece
    /\ ~IsResting(board[s])
    /\ ValidMove(board, kind[board[s]], board[s], s, d)

RequestMove(s, d) ==
    /\ phase = "idle"
    /\ ~gameOver
    /\ MoveAllowed(s, d)
    /\ clock + MoveDuration * Distance(s, d) <= MaxClock
    /\ StartMotion(board[s], s, d, MoveDuration * Distance(s, d))
    /\ news' = {}
    /\ UNCHANGED <<clock, jumpEnd, cooldown, kind, phase, until, jumped, events,
                   gameOver, lost, score>>

JumpAllowed(c) ==
    /\ ~IsJumpingOn(c)
    /\ board[c] # NoPiece
    /\ ~IsResting(board[c])

RequestJump(c) ==
    /\ phase = "idle"
    /\ ~gameOver
    /\ JumpAllowed(c)
    /\ clock + JumpDuration <= MaxClock
    /\ jumpEnd' = [jumpEnd EXCEPT ![c] = clock + JumpDuration]
    /\ news' = {}
    /\ UNCHANGED <<clock, board, motion, active, cooldown, kind, phase, until, jumped,
                   events, gameOver, lost, score>>

\* A rejected request leaves the game alone and publishes an IllegalActionEvent.  There
\* is always one to make: no piece may move to its own cell.
Reject ==
    /\ phase = "idle"
    /\ ~gameOver
    /\ news' = {Illegal}
    /\ UNCHANGED <<arbiterVars, kind, phase, until, jumped, events, gameOver, lost, score>>

Resign(color) ==
    /\ phase = "idle"
    /\ ~gameOver
    /\ gameOver' = TRUE
    /\ news' = {Over(Other(color))}
    /\ UNCHANGED <<arbiterVars, kind, phase, until, jumped, events, lost, score>>

-----------------------------------------------------------------------------
\* wait(ms).

BeginWait(ms) ==
    /\ clock + ms <= MaxClock
    /\ BeginAdvance(ms)
    /\ news' = {}
    /\ UNCHANGED <<gameOver, lost, score>>

ResolveWait ==
    /\ Resolve
    /\ news' = {}
    /\ UNCHANGED <<gameOver, lost, score>>

\* The loop of _apply_arrivals goes on with the arrivals that are left.
Continue(rest) ==
    /\ events' = rest
    /\ phase' = IF rest = <<>> THEN "idle" ELSE "applying"

\* advance_time returns.  The ended jumps come first in its list: each piece starts its
\* short rest at the new clock.  A rest that has ended is the same as none.
FinishWait ==
    /\ FinishAdvance
    /\ cooldown' = [p \in Pieces |-> IF p \in jumped THEN until + ShortRest
                                     ELSE IF cooldown[p] <= until THEN 0 ELSE cooldown[p]]
    /\ news' = IF gameOver THEN {} ELSE {JumpDone(p) : p \in jumped}
    /\ jumped' = {}
    /\ until' = 0
    /\ Continue(events)
    /\ UNCHANGED <<kind, gameOver, lost, score>>

\* Mutant of KingTaken: a king destroyed by the jump it ran into does not count.
KingTakenByAnother(e) == e.captured \notin {NoPiece, e.piece} /\ kind[e.captured] = "K"

\* KingCaptureWinCondition.is_game_over.
KingTaken(e) == e.captured # NoPiece /\ kind[e.captured] = "K"

\* _apply_arrivals, the captured king: the rest of the batch is dropped.  The flag is
\* set again, and the event published again, when the game was over already.
ApplyKingCapture(e) ==
    /\ KingTaken(e)
    /\ gameOver' = TRUE
    /\ news' = ActionEvent(e) \cup {Over(Other(Color[e.captured]))}
    /\ NoteLoss(e)
    /\ Continue(<<>>)
    /\ UNCHANGED <<arbiterVars, kind, until, jumped>>

\* The mover is still on the cell it landed on: it rests and may be promoted.  The
\* promotion is published whether or not the game is over.
Settled(e) == e.captured # e.piece /\ board[e.at] = e.piece

ApplyArrival(e) ==
    /\ ~KingTaken(e)
    /\ LET promoted == Promote(kind[e.piece], Color[e.piece], e.at[1])
       IN IF Settled(e)
          THEN /\ cooldown' = [cooldown EXCEPT ![e.piece] = clock + LongRest]
               /\ kind' = [kind EXCEPT ![e.piece] = promoted]
               /\ news' = ActionEvent(e) \cup
                          (IF promoted # kind[e.piece] THEN {Promoted(e.piece)} ELSE {})
          ELSE news' = ActionEvent(e) /\ UNCHANGED <<cooldown, kind>>
    /\ NoteLoss(e)
    /\ Continue(Tail(events))
    /\ UNCHANGED <<clock, board, motion, active, jumpEnd, until, jumped, gameOver>>

Apply ==
    /\ phase = "applying"
    /\ ApplyKingCapture(Head(events)) \/ ApplyArrival(Head(events))

\* Every request, resign included, returns at once when the game is over.
RefuseAfterEnd ==
    /\ phase = "idle"
    /\ gameOver
    /\ news' = {}
    /\ UNCHANGED <<arbiterVars, kind, phase, until, jumped, events, gameOver, lost, score>>

-----------------------------------------------------------------------------
Wait == (\E ms \in TickSizes : BeginWait(ms)) \/ ResolveWait \/ FinishWait \/ Apply

Next ==
    \/ \E s, d \in Positions : RequestMove(s, d)
    \/ \E c \in Positions : RequestJump(c)
    \/ Reject
    \/ \E color \in Colors : Resign(color)
    \/ RefuseAfterEnd
    \/ Wait

Spec == Init /\ [][Next]_vars

\* Whoever owns the game keeps calling wait(): the server loop for a networked game, the
\* frame loop for a local one.
LiveSpec == Spec /\ WF_vars(Wait)

-----------------------------------------------------------------------------
(***************************************************************************)
(* Properties.                                                             *)
(***************************************************************************)

\* What the arbiter reports and what the engine publishes.
Reports == [piece : Pieces, at : Positions, captured : Pieces \cup {NoPiece}]

Published ==
    [type : {"move"}, piece : Pieces, at : Positions]
    \cup [type : {"capture"}, piece : Pieces, victim : Pieces]
    \cup [type : {"stopped", "promotion", "jump"}, piece : Pieces]
    \cup [type : {"gameover"}, winner : Colors]
    \cup {Illegal}

\* Every variable stays in the set of values the program gives it.
TypeOK ==
    /\ clock \in Nat
    /\ board \in Boards
    /\ motion \in [Pieces -> Motions \cup {Grounded}]
    /\ active \in Seq(Pieces)
    /\ jumpEnd \in [Positions -> Nat]
    /\ cooldown \in [Pieces -> Nat]
    /\ kind \in [Pieces -> Kinds]
    /\ phase \in {"idle", "resolving", "applying"}
    /\ until \in Nat
    /\ jumped \in SUBSET Pieces
    /\ events \in Seq(Reports)
    /\ gameOver \in BOOLEAN
    /\ news \in SUBSET Published
    /\ lost \in SUBSET Pieces
    /\ score \in [Colors -> Nat]

\* A piece is in one place: on one cell of the board or in one flight, never both.  The
\* board, the list of motions and the handlers that move a piece between them (takeoff,
\* landing, capture in passing, falling back) have to agree on this at every step.
PlacedOnce ==
    /\ \A c, d \in Positions : board[c] = board[d] /\ board[c] # NoPiece => c = d
    /\ \A p \in InFlight : p \notin OnBoard(board)

\* The list of motions holds each piece in flight once, whatever was appended again.
FlightListExact ==
    /\ {active[i] : i \in DOMAIN active} = InFlight
    /\ \A i, j \in DOMAIN active : active[i] = active[j] => i = j

\* A flight cut short keeps its pace: it is due exactly when the piece gets to its new
\* destination, however many times it was cut, so that a motion never slows, never
\* speeds up and never overshoots.
PaceKept ==
    \A p \in InFlight :
        motion[p].arrival - motion[p].start =
            Length(motion[p]) * MoveDuration * (IF kind[p] = "N" THEN 2 ELSE 1)

\* Between two calls of wait() nothing is overdue: no arrival, collision or encounter
\* that the clock has already passed is left unresolved, also not by a request made in
\* between.
NothingOverdue ==
    phase = "idle" =>
        \A e \in Arrivals \cup Collisions \cup Encounters : e.key[1] > clock

\* What advance_time can still do to a piece: stop its flight short of every cell that is
\* left of its path, end the flight, and take the piece off the board.
Remaining(p) ==
    IF p \in InFlight THEN Length(motion[p]) + 2
    ELSE IF p \in OnBoard(board) THEN 1 ELSE 0

\* Every iteration of the loop in advance_time gets some piece further and takes none
\* back, although it shortens flights and appends them again: the loop cannot go round
\* in circles, so it ends after as many iterations as there is something left to do.
LoopAdvances ==
    [][phase = "resolving" /\ phase' = "resolving" =>
          /\ \A p \in Pieces : Remaining(p)' <= Remaining(p)
          /\ \E p \in Pieces : Remaining(p)' < Remaining(p)]_vars

\* A piece whose loss was published is really gone and stays gone.
LossesAreReal == \A p \in lost : p \notin OnBoard(board) /\ p \notin InFlight

\* No loss is published twice, and no piece is captured by its own colour.
EachLossOnce ==
    [][\A n \in news' :
          /\ n.type = "capture" => n.victim \notin lost /\ Enemies(n.piece, n.victim)
          /\ n.type = "stopped" => n.piece \notin lost]_vars

\* In a running game a piece is on the board or in flight unless its loss was published:
\* a flight that meets friends is stopped short of them, however often, but not lost.
NoneVanishes ==
    phase = "idle" /\ ~gameOver =>
        \A p \in Pieces : p \in OnBoard(board) \cup InFlight \cup lost

\* Once the game is over no event is published any more, although the flights left over
\* are still resolved by later calls of wait().
NothingAfterEnd == [][gameOver => news' = {}]_vars

\* A pawn that stands on its last rank between two calls of a running game has become a
\* queen, also when it got there by a capture or together with other arrivals.
PawnsPromoted ==
    phase = "idle" /\ ~gameOver =>
        \A c \in Positions : board[c] # NoPiece /\ kind[board[c]] = "P" =>
            c[1] # (IF Color[board[c]] = "w" THEN 0 ELSE Height - 1)

\* No piece is in flight for good: the loop of advance_time, which shortens flights and
\* appends them again, terminates, and every flight does get resolved.
EveryFlightEnds == \A p \in Pieces : []<>(p \notin InFlight)
=============================================================================
