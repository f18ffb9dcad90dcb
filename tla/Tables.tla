------------------------------- MODULE Tables -------------------------------
(***************************************************************************)
(* What the server promises the people who play on it, without             *)
(* connections, queues, keys or ticks: a username sits at one table at a   *)
(* time, in a seat that stays its own until the table is cleared; a result *)
(* stays as it was first announced and is rated once; and no table is      *)
(* cleared while both its players are there and still playing.             *)
(* ServerTables shows that GameServer implements this.                     *)
(***************************************************************************)
CONSTANTS
    Rooms,          \* there is one table in each
    Users,
    Faults          \* "rating": a result may go unrated; "crash": all may be cleared

VARIABLE
    table           \* table[r]: who sits there, which sides are away, the result, the rating

\* Nobody sits at it.
Cleared == [seats |-> {}, away |-> {}, result |-> "none", rated |-> "no"]

Init == table = [r \in Rooms |-> Cleared]

-----------------------------------------------------------------------------
\* Sitting down, leaving and coming back.

SitsSomewhere(u) == \E r \in Rooms : \E s \in table[r].seats : s.user = u

Taken(t, side) == \E s \in t.seats : s.role = side

\* The sides are given out first; who comes later watches.
NextRole(t) ==
    IF ~Taken(t, "white") THEN "white" ELSE IF ~Taken(t, "black") THEN "black" ELSE "spectator"

Seated(t, seat) == [t EXCEPT !.seats = @ \cup {seat}]

Sit(r, u) ==
    /\ ~SitsSomewhere(u)
    /\ table' = [table EXCEPT ![r] = Seated(@, [role |-> NextRole(@), user |-> u])]

\* A match.  (A username that is logged in twice may be matched with itself.)
SitTogether(r, u, v) ==
    /\ ~SitsSomewhere(u) /\ ~SitsSomewhere(v)
    /\ table[r] = Cleared
    /\ table' = [table EXCEPT ![r] = Seated(Seated(@, [role |-> "white", user |-> u]),
                                            [role |-> "black", user |-> v])]

\* The seat stays taken by the same username.
Gone(t, side) == [t EXCEPT !.away = @ \cup {side}]

Back(t, side) == [t EXCEPT !.away = @ \ {side}]

Leave(r, side) ==
    /\ Taken(table[r], side)
    /\ table' = [table EXCEPT ![r] = Gone(@, side)]

ComeBack(r, side) ==
    /\ side \in table[r].away
    /\ table' = [table EXCEPT ![r] = Back(@, side)]

-----------------------------------------------------------------------------
\* The end of a game.

BothPlay(t) == \A side \in {"white", "black"} : Taken(t, side) /\ side \notin t.away

\* What may be known as the rating after winner has been announced: it is told once, unless
\* somebody is missing, and may be told later only if the rating store failed before.
Ratings(t, winner) ==
    IF t.rated # "no" THEN {t.rated}
    ELSE IF ~(Taken(t, "white") /\ Taken(t, "black")) THEN {"skipped"}
    ELSE {winner} \cup (IF "rating" \in Faults THEN {"no"} ELSE {})

Announced(t, winner) ==
    {[seats |-> t.seats, away |-> t.away,
      result |-> IF t.result = "none" THEN winner ELSE t.result,
      rated |-> x] : x \in Ratings(t, winner)}

MayClear(t) == t.result # "none" \/ ~BothPlay(t)

After(t) ==
    {t} \cup (IF t.seats # {} THEN Announced(t, "white") \cup Announced(t, "black") ELSE {})
        \cup (IF MayClear(t) THEN {Cleared} ELSE {})

\* Any number of games may end and of tables be cleared at once.
Proceed ==
    /\ DOMAIN table' = Rooms
    /\ \A r \in Rooms : table'[r] \in After(table[r])

BreakDown ==
    /\ "crash" \in Faults
    /\ table' = [r \in Rooms |-> Cleared]

-----------------------------------------------------------------------------
Next ==
    \/ \E r \in Rooms :
          \/ \E u \in Users : Sit(r, u)
          \/ \E u, v \in Users : SitTogether(r, u, v)
          \/ \E side \in {"white", "black"} : Leave(r, side) \/ ComeBack(r, side)
    \/ Proceed \/ BreakDown

Spec == Init /\ [][Next]_table
=============================================================================
