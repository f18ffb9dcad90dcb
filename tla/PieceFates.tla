------------------------------ MODULE PieceFates ------------------------------
(***************************************************************************)
(* What the engine promises about the pieces of one game, without a board, *)
(* a clock or a tick: a piece stands, flies or is gone for good; whoever   *)
(* is gone was met by somebody; its loss is told at most once, while the   *)
(* game runs; and the game ends when the loss of a king is told or when a  *)
(* side resigns.  EngineFates shows that GameEngine implements this.       *)
(***************************************************************************)
CONSTANTS
    Pieces,
    Color,          \* Color[p]
    StartKind       \* StartKind[p]; no piece becomes a king or stops being one

VARIABLES
    fate,           \* fate[p]: "standing", "flying" or "gone"
    told,           \* the pieces whose loss was published
    over            \* the game has ended

fates == <<fate, told, over>>

Hostile(p, q) == Color[p] # Color[q]

Init ==
    /\ fate = [p \in Pieces |-> "standing"]
    /\ told = {}
    /\ over = FALSE

-----------------------------------------------------------------------------
\* A move is accepted: only of a piece that stands, and not after the end.
TakeOff(p) ==
    /\ ~over
    /\ fate[p] = "standing"
    /\ fate' = [fate EXCEPT ![p] = "flying"]
    /\ UNCHANGED <<told, over>>

\* A flight ends on its cell, alone or on top of an enemy that stood there.
Land(p) ==
    /\ fate[p] = "flying"
    /\ fate' = [fate EXCEPT ![p] = "standing"]
    /\ UNCHANGED <<told, over>>

LandOn(p, q) ==
    /\ fate[p] = "flying" /\ fate[q] = "standing" /\ Hostile(p, q)
    /\ fate' = [fate EXCEPT ![p] = "standing", ![q] = "gone"]
    /\ UNCHANGED <<told, over>>

\* In flight p meets an enemy, flying or standing, and one of the two is gone.
Strike(p, q) ==
    /\ fate[p] = "flying" /\ fate[q] # "gone" /\ Hostile(p, q)
    /\ \E loser \in {p, q} : fate' = [fate EXCEPT ![loser] = "gone"]
    /\ UNCHANGED <<told, over>>

\* Two enemies in flight destroy each other.
Clash(p, q) ==
    /\ fate[p] = "flying" /\ fate[q] = "flying" /\ Hostile(p, q)
    /\ fate' = [fate EXCEPT ![p] = "gone", ![q] = "gone"]
    /\ UNCHANGED <<told, over>>

\* A flight that was cut back to its source finds a friend there, and is dropped.
DropOut(p, q) ==
    /\ fate[p] = "flying" /\ fate[q] = "standing" /\ ~Hostile(p, q)
    /\ fate' = [fate EXCEPT ![p] = "gone"]
    /\ UNCHANGED <<told, over>>

\* The loss of p is published; that of a king ends the game.
Tell(p) ==
    /\ ~over
    /\ fate[p] = "gone" /\ p \notin told
    /\ told' = told \cup {p}
    /\ over' = (StartKind[p] = "K")
    /\ UNCHANGED fate

Resign ==
    /\ ~over
    /\ over' = TRUE
    /\ UNCHANGED <<fate, told>>

-----------------------------------------------------------------------------
Next ==
    \/ \E p \in Pieces : TakeOff(p) \/ Land(p) \/ Tell(p)
    \/ \E p, q \in Pieces : LandOn(p, q) \/ Strike(p, q) \/ Clash(p, q) \/ DropOut(p, q)
    \/ Resign

Spec == Init /\ [][Next]_fates
=============================================================================
