--------------------------- MODULE TickGranularity ---------------------------
(***************************************************************************)
(* Two copies of the engine get the same requests at the same times.  One  *)
(* is advanced by a single wait(ms), the other by several shorter ones     *)
(* that add up to it: the comparison tests/test_real_time_arbiter.py makes *)
(* for one pair of moves, for every sequence of requests and every way to  *)
(* divide the time.                                                        *)
(*                                                                         *)
(* The copy with the coarse ticks is GameEngine's own; the variables of    *)
(* the fine one end in 2.                                                  *)
(***************************************************************************)
EXTENDS GameEngine

VARIABLES
    clock2, board2, motion2, active2, jumpEnd2, cooldown2, kind2, phase2, until2,
    jumped2, events2, gameOver2, news2, lost2, score2,
    withJumps     \* history: a jump has been requested

fineVars == <<clock2, board2, motion2, active2, jumpEnd2, cooldown2, kind2, phase2,
              until2, jumped2, events2, gameOver2, news2, lost2, score2>>
tickVars == <<vars, fineVars, withJumps>>

Fine == INSTANCE GameEngine WITH
    clock <- clock2, board <- board2, motion <- motion2, active <- active2,
    jumpEnd <- jumpEnd2, cooldown <- cooldown2, kind <- kind2, phase <- phase2,
    until <- until2, jumped <- jumped2, events <- events2, gameOver <- gameOver2,
    news <- news2, lost <- lost2, score <- score2

TickInit == Init /\ Fine!Init /\ withJumps = FALSE

InStep == phase = "idle" /\ phase2 = "idle" /\ clock = clock2

\* The same request reaches both copies, and both accept it.
MoveBoth ==
    /\ InStep
    /\ \E s, d \in Positions : RequestMove(s, d) /\ Fine!RequestMove(s, d)
    /\ UNCHANGED withJumps

JumpBoth ==
    /\ InStep
    /\ \E c \in Positions : RequestJump(c) /\ Fine!RequestJump(c)
    /\ withJumps' = TRUE

\* The coarse copy waits once.
WaitOnce ==
    /\ \/ InStep /\ \E ms \in TickSizes : BeginWait(ms)
       \/ ResolveWait \/ FinishWait \/ Apply
    /\ UNCHANGED <<fineVars, withJumps>>

\* Then the fine copy follows in smaller steps, never beyond the coarse one.
WaitInParts ==
    /\ phase = "idle"
    /\ \/ \E ms \in TickSizes : clock2 + ms <= clock /\ Fine!BeginWait(ms)
       \/ Fine!ResolveWait \/ Fine!FinishWait \/ Fine!Apply
    /\ UNCHANGED <<vars, withJumps>>

\* At the end of the modelled time both copies stay where they are.
AtBound ==
    /\ InStep
    /\ clock = MaxClock
    /\ UNCHANGED tickVars

TickNext == MoveBoth \/ JumpBoth \/ WaitOnce \/ WaitInParts \/ AtBound

TickSpec == TickInit /\ [][TickNext]_tickVars

\* However the waiting time is divided into calls of wait(), the same pieces stand on the
\* same cells afterwards.  This is what the test named above claims; a jump breaks it,
\* because it guards its cell for the whole call in which it ends.
SameResult == InStep => board = board2

\* As long as nobody jumps it does hold: the loop of advance_time takes arrivals,
\* collisions and encounters in time order, also those that an earlier one in the same
\* call has brought about.
SameResultWithoutJumps == InStep /\ ~withJumps => board = board2
=============================================================================
