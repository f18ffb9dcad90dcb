----------------------------- MODULE GameSession -----------------------------
(***************************************************************************)
(* server/session.py: one networked game.  A session is a value here, a    *)
(* record that each operation turns into the next one: several rooms hold  *)
(* one each, in GameRooms.                                                 *)
(*                                                                         *)
(* Of the engine a session uses only that it may announce the end of the   *)
(* game in any wait(), also again after the end (the contract GameEngine's *)
(* events satisfy), and that resign() ends a running game.                 *)
(***************************************************************************)
EXTENDS Lists

CONSTANTS
    Countdown       \* DISCONNECT_COUNTDOWN_SECONDS, in ticks

ASSUME CountdownAssumption == Countdown \in Nat \ {0}

Sides == {"white", "black"}

OtherSide(side) == IF side = "white" THEN "black" ELSE "white"

\* seats: _roles and _usernames, two dicts with the same keys in the same order.
\* countdowns: _countdowns_by_color in the order the countdowns began.
\* result: the winner the engine announced first.  rated: the winner the rating store was
\* told, "skipped" when a seat had no username, "no" before (_ratings_updated is FALSE).
NewSession ==
    [seats |-> <<>>, countdowns |-> <<>>, over |-> FALSE, result |-> "none", rated |-> "no"]

-----------------------------------------------------------------------------
\* Roles.

SeatsOf(s, c) == {i \in DOMAIN s.seats : s.seats[i].conn = c}

SideSeated(s, side) == \E i \in DOMAIN s.seats : s.seats[i].role = side

RoleAt(index) == IF index = 1 THEN "white" ELSE IF index = 2 THEN "black" ELSE "spectator"

\* assign_role and record_login.
Place(s, c, u) ==
    IF SeatsOf(s, c) = {}
    THEN [s EXCEPT !.seats = Append(@, [conn |-> c, user |-> u, role |-> RoleAt(Len(@) + 1)])]
    ELSE [s EXCEPT !.seats = [i \in DOMAIN @ |-> IF @[i].conn = c THEN [@[i] EXCEPT !.user = u]
                                                 ELSE @[i]]]

-----------------------------------------------------------------------------
\* Disconnect and reconnect.

Counting(s, side) == \E i \in DOMAIN s.countdowns : s.countdowns[i].side = side

\* begin_disconnect_countdown: only for a player, and only one countdown per side.
BeginCountdown(s, c) ==
    LET sides == {s.seats[i].role : i \in SeatsOf(s, c)} \cap Sides
    IN IF sides = {} \/ \E side \in sides : Counting(s, side) THEN s
       ELSE [s EXCEPT !.countdowns =
                Append(@, [side |-> CHOOSE side \in sides : TRUE, left |-> Countdown])]

\* _connection_for_username: the first seat with that name.
SeatFor(s, u) ==
    CHOOSE i \in DOMAIN s.seats : /\ s.seats[i].user = u
                                  /\ \A j \in DOMAIN s.seats : s.seats[j].user = u => i <= j

CanReconnect(s, u) ==
    /\ \E i \in DOMAIN s.seats : s.seats[i].user = u
    /\ Counting(s, s.seats[SeatFor(s, u)].role)

SeatsWithout(s, c) == Kept(s.seats, DOMAIN s.seats \ SeatsOf(s, c))

CountdownsWithout(s, side) ==
    Kept(s.countdowns, {i \in DOMAIN s.countdowns : s.countdowns[i].side # side})

\* Mutant: the countdown goes on.
ReconnectOnTheClock(s, c, u) ==
    LET old == s.seats[SeatFor(s, u)]
    IN [s EXCEPT !.seats = Append(SeatsWithout(s, old.conn), [old EXCEPT !.conn = c])]

\* Mutant: the new connection gets its role from assign_role.
ReconnectAsNewcomer(s, c, u) ==
    LET old == s.seats[SeatFor(s, u)]
    IN Place([s EXCEPT !.countdowns = CountdownsWithout(s, old.role),
                       !.seats = SeatsWithout(s, old.conn)], c, u)

\* reconnect: the seat goes to the new connection, at the end of both dicts.
Reconnect(s, c, u) ==
    LET old == s.seats[SeatFor(s, u)]
    IN [s EXCEPT !.countdowns = CountdownsWithout(s, old.role),
                 !.seats = Append(SeatsWithout(s, old.conn), [old EXCEPT !.conn = c])]

-----------------------------------------------------------------------------
\* The end of the game and the rating: _on_game_over, called for each GameOverEvent.

Rateable(s) == SideSeated(s, "white") /\ SideSeated(s, "black")

\* The rating store raises, and so does whatever published the event.
RatingRaises(s, storeUp) == s.rated = "no" /\ Rateable(s) /\ ~storeUp

\* Mutant: every GameOverEvent updates the ratings.
GameOverRatesAgain(s, winner, storeUp) ==
    [s EXCEPT !.over = TRUE,
              !.result = IF @ = "none" THEN winner ELSE @,
              !.rated = IF Rateable(s) /\ storeUp THEN winner ELSE @]

GameOver(s, winner, storeUp) ==
    [s EXCEPT !.over = TRUE,
              !.result = IF @ = "none" THEN winner ELSE @,
              !.rated = IF @ # "no" THEN @
                        ELSE IF ~Rateable(s) THEN "skipped"
                        ELSE IF storeUp THEN winner ELSE @]

-----------------------------------------------------------------------------
\* tick.

Aged(s) == [i \in DOMAIN s.countdowns |-> [s.countdowns[i] EXCEPT !.left = @ - 1]]

\* The countdowns that run out now, and what is left of the others.
Due(s) == {i \in DOMAIN s.countdowns : s.countdowns[i].left = 1}

StillRunning(s) == Kept(Aged(s), DOMAIN s.countdowns \ Due(s))

\* Mutant: a countdown that runs out is deleted, and nobody resigns.
AdvanceWithoutResigning(s, storeUp) == [s EXCEPT !.countdowns = StillRunning(s)]

\* Every countdown advances, in order.  The first one to run out resigns for its side; if
\* that raises, the ones after it have not advanced.  A second one that runs out resigns
\* a game that is over, which does nothing.
AdvanceCountdowns(s, storeUp) ==
    IF Due(s) = {} THEN [s EXCEPT !.countdowns = Aged(s)]
    ELSE LET first == CHOOSE i \in Due(s) : \A j \in Due(s) : i <= j
             over  == GameOver(s, OtherSide(s.countdowns[first].side), storeUp)
             left  == [i \in DOMAIN s.countdowns |->
                          IF i < first THEN Aged(s)[i] ELSE s.countdowns[i]]
         IN [over EXCEPT !.countdowns =
                IF RatingRaises(s, storeUp) THEN Kept(left, DOMAIN left \ {first})
                ELSE StillRunning(s)]

\* end is the winner that engine.wait announces in this tick, or "none".
TickSession(s, end, storeUp) ==
    LET waited == IF end = "none" THEN s ELSE GameOver(s, end, storeUp)
    IN IF end # "none" /\ RatingRaises(s, storeUp) THEN waited
       ELSE IF waited.over THEN [waited EXCEPT !.countdowns = <<>>]
       ELSE AdvanceCountdowns(waited, storeUp)

\* tick raises, and the room's tick ends there.
TickRaises(s, end, storeUp) ==
    /\ RatingRaises(s, storeUp)
    /\ \/ end # "none"
       \/ ~s.over /\ Due(s) # {}
=============================================================================
