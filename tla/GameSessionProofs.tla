-------------------------- MODULE GameSessionProofs --------------------------
(***************************************************************************)
(* What the operations of a GameSession do to its seats, its countdowns    *)
(* and its result, for every session, connection and username.             *)
(***************************************************************************)
EXTENDS GameSession, ListProofs

\* The sessions between connections of C and usernames of U.
SeatsOver(C, U) == [conn : C, user : U, role : Sides \cup {"spectator"}]

Clocks == [side : Sides, left : 1 .. Countdown]

SessionsOver(C, U) ==
    [seats : Seq(SeatsOver(C, U)), countdowns : Seq(Clocks), over : BOOLEAN,
     result : Sides \cup {"none"}, rated : Sides \cup {"no", "skipped"}]

\* A connection has at most one seat and a side at most one, the sides are given out white
\* first, and only a side that is seated can be counted down.
Orderly(s) ==
    /\ \A i, j \in DOMAIN s.seats : s.seats[i].conn = s.seats[j].conn => i = j
    /\ \A i, j \in DOMAIN s.seats :
          s.seats[i].role = s.seats[j].role /\ s.seats[i].role \in Sides => i = j
    /\ SideSeated(s, "white") <=> Len(s.seats) >= 1
    /\ SideSeated(s, "black") <=> Len(s.seats) >= 2
    /\ \A side \in Sides : Counting(s, side) => SideSeated(s, side)

\* Once a result is announced the ratings are decided, and by that result.
WellRated(s) ==
    /\ s.result # "none" => s.rated # "no"
    /\ s.rated \in Sides => s.rated = s.result

LEMMA SessionFields ==
    ASSUME NEW C, NEW U, NEW s \in SessionsOver(C, U)
    PROVE  /\ s.seats \in Seq(SeatsOver(C, U)) /\ Len(s.seats) \in Nat
           /\ DOMAIN s.seats = 1 .. Len(s.seats)
           /\ \A i \in DOMAIN s.seats : /\ s.seats[i] \in SeatsOver(C, U)
                                        /\ s.seats[i].conn \in C /\ s.seats[i].user \in U
                                        /\ s.seats[i].role \in Sides \cup {"spectator"}
           /\ s.countdowns \in Seq(Clocks) /\ Len(s.countdowns) \in Nat
           /\ DOMAIN s.countdowns = 1 .. Len(s.countdowns)
           /\ \A i \in DOMAIN s.countdowns : /\ s.countdowns[i] \in Clocks
                                             /\ s.countdowns[i].side \in Sides
                                             /\ s.countdowns[i].left \in 1 .. Countdown
           /\ s.over \in BOOLEAN /\ s.result \in Sides \cup {"none"}
           /\ s.rated \in Sides \cup {"no", "skipped"}
<1>1. /\ s.seats \in Seq(SeatsOver(C, U)) /\ s.countdowns \in Seq(Clocks)
      /\ s.over \in BOOLEAN /\ s.result \in Sides \cup {"none"}
      /\ s.rated \in Sides \cup {"no", "skipped"}
  BY DEF SessionsOver
<1>2. \A i \in DOMAIN s.seats : s.seats[i] \in SeatsOver(C, U)
  BY <1>1
<1>3. \A i \in DOMAIN s.countdowns : s.countdowns[i] \in Clocks
  BY <1>1
<1>4. \A seat \in SeatsOver(C, U) :
         seat.conn \in C /\ seat.user \in U /\ seat.role \in Sides \cup {"spectator"}
  BY DEF SeatsOver
<1>5. \A d \in Clocks : d.side \in Sides /\ d.left \in 1 .. Countdown
  BY DEF Clocks
<1>6. /\ Len(s.seats) \in Nat /\ DOMAIN s.seats = 1 .. Len(s.seats)
      /\ Len(s.countdowns) \in Nat /\ DOMAIN s.countdowns = 1 .. Len(s.countdowns)
  BY <1>1
<1> QED BY <1>1, <1>2, <1>3, <1>4, <1>5, <1>6

LEMMA NewSessionType ==
    ASSUME NEW C, NEW U
    PROVE  /\ NewSession \in SessionsOver(C, U) /\ Orderly(NewSession) /\ WellRated(NewSession)
           /\ NewSession.seats = <<>> /\ NewSession.countdowns = <<>> /\ ~NewSession.over
<1>1. /\ NewSession.seats = <<>> /\ NewSession.countdowns = <<>> /\ ~NewSession.over
      /\ NewSession.result = "none" /\ NewSession.rated = "no"
  BY DEF NewSession
<1>2. <<>> \in Seq(SeatsOver(C, U)) /\ <<>> \in Seq(Clocks)
  OBVIOUS
<1>3. NewSession \in SessionsOver(C, U)
  BY <1>2 DEF NewSession, SessionsOver
<1>4. DOMAIN NewSession.seats = {} /\ DOMAIN NewSession.countdowns = {} /\ Len(NewSession.seats) = 0
  BY <1>1
<1>5. Orderly(NewSession)
  BY <1>4 DEF Orderly, SideSeated, Counting
<1> QED BY <1>1, <1>3, <1>5 DEF WellRated, Sides

-----------------------------------------------------------------------------
\* Operations that leave the seats alone.

LEMMA SeatsAlone ==
    ASSUME NEW s, NEW t, Orderly(s), t.seats = s.seats,
           \A side \in Sides : Counting(t, side) => Counting(s, side) \/ SideSeated(s, side)
    PROVE  Orderly(t)
BY DEF Orderly, SideSeated

LEMMA BeginCountdownKeeps ==
    ASSUME NEW C, NEW U, NEW s \in SessionsOver(C, U), Orderly(s), NEW c
    PROVE  LET t == BeginCountdown(s, c)
           IN  /\ t \in SessionsOver(C, U) /\ Orderly(t) /\ t.seats = s.seats
               /\ t.over = s.over /\ t.result = s.result /\ t.rated = s.rated
               /\ \A side \in Sides :
                     Counting(t, side) <=>
                        \/ Counting(s, side)
                        \/ \E i \in SeatsOf(s, c) : s.seats[i].role = side
<1> DEFINE t     == BeginCountdown(s, c)
           sides == {s.seats[i].role : i \in SeatsOf(s, c)} \cap Sides
           first == CHOOSE side \in sides : TRUE
           clock == [side |-> first, left |-> Countdown]
<1>1. \A x, y \in sides : x = y
  BY DEF Orderly, SeatsOf
<1>2. \A side \in Sides : side \in sides <=> \E i \in SeatsOf(s, c) : s.seats[i].role = side
  OBVIOUS
<1>3. CASE sides = {} \/ \E side \in sides : Counting(s, side)
  <2>1. t = s
    BY <1>3 DEF BeginCountdown
  <2>2. \A side \in sides : Counting(s, side)
    BY <1>1, <1>3
  <2> HIDE DEF t, sides
  <2> QED BY <1>2, <2>1, <2>2 DEF t
<1>4. CASE ~(sides = {} \/ \E side \in sides : Counting(s, side))
  <2>1. t = [s EXCEPT !.countdowns = Append(s.countdowns, clock)]
    BY <1>4 DEF BeginCountdown
  <2>2. first \in sides
    BY <1>4
  <2>3. clock \in Clocks
    BY <2>2, CountdownAssumption DEF Clocks
  <2>4. clock.side = first
    OBVIOUS
  <2> HIDE DEF t, clock, first, sides
  <2>5. Append(s.countdowns, clock) \in Seq(Clocks)
    BY <2>3, SessionFields
  <2>6. t \in SessionsOver(C, U) /\ t.countdowns = Append(s.countdowns, clock)
    BY <2>1, <2>5 DEF SessionsOver
  <2>7. t.seats = s.seats /\ t.over = s.over /\ t.result = s.result /\ t.rated = s.rated
    BY <2>1 DEF SessionsOver
  <2>8. ASSUME NEW side \in Sides
        PROVE  Counting(t, side) <=> Counting(s, side) \/ side = first
    <3>1. /\ DOMAIN t.countdowns = 1 .. Len(s.countdowns) + 1
          /\ t.countdowns[Len(s.countdowns) + 1] = clock
          /\ \A i \in 1 .. Len(s.countdowns) : t.countdowns[i] = s.countdowns[i]
          /\ DOMAIN s.countdowns = 1 .. Len(s.countdowns) /\ Len(s.countdowns) \in Nat
      BY <2>3, <2>6, SessionFields
    <3>2. ASSUME Counting(t, side), side # first PROVE Counting(s, side)
      <4>1. PICK i \in DOMAIN t.countdowns : t.countdowns[i].side = side
        BY <3>2 DEF Counting
      <4>2. i \in 1 .. Len(s.countdowns)
        BY <2>4, <3>1, <3>2, <4>1
      <4> QED BY <3>1, <4>1, <4>2 DEF Counting
    <3>3. ASSUME Counting(s, side) PROVE Counting(t, side)
      <4>1. PICK i \in DOMAIN s.countdowns : s.countdowns[i].side = side
        BY <3>3 DEF Counting
      <4>2. i \in DOMAIN t.countdowns
        BY <3>1
      <4> QED BY <3>1, <4>1, <4>2 DEF Counting
    <3>4. side = first => Counting(t, side)
      <4>1. Len(s.countdowns) + 1 \in DOMAIN t.countdowns
        BY <3>1
      <4> QED BY <2>4, <3>1, <4>1 DEF Counting
    <3> QED BY <3>2, <3>3, <3>4
  <2>9. \A side \in Sides : side \in sides <=> side = first
    BY <1>1, <2>2
  <2>10. \A side \in Sides : Counting(t, side) => Counting(s, side) \/ SideSeated(s, side)
    BY <1>2, <2>8, <2>9 DEF SideSeated, SeatsOf
  <2>11. Orderly(t)
    BY <2>7, <2>10, SeatsAlone
  <2>12. \A side \in Sides : Counting(t, side) <=>
            Counting(s, side) \/ \E i \in SeatsOf(s, c) : s.seats[i].role = side
    BY <1>2, <2>8, <2>9
  <2> QED BY <2>6, <2>7, <2>11, <2>12 DEF t
<1> QED BY <1>3, <1>4

-----------------------------------------------------------------------------
\* The end of the game, and the tick.

LEMMA GameOverKeeps ==
    ASSUME NEW C, NEW U, NEW s \in SessionsOver(C, U), NEW winner \in Sides, NEW storeUp
    PROVE  LET t == GameOver(s, winner, storeUp)
           IN  /\ t \in SessionsOver(C, U) /\ t.seats = s.seats /\ t.countdowns = s.countdowns
               /\ t.over = TRUE
               /\ WellRated(s) /\ storeUp = TRUE => WellRated(t)
<1> DEFINE t      == GameOver(s, winner, storeUp)
           result == IF s.result = "none" THEN winner ELSE s.result
           rated  == IF s.rated # "no" THEN s.rated
                     ELSE IF ~Rateable(s) THEN "skipped"
                     ELSE IF storeUp THEN winner ELSE s.rated
<1>1. t = [s EXCEPT !.over = TRUE, !.result = result, !.rated = rated]
  BY DEF GameOver
<1>2. result \in Sides \cup {"none"} /\ rated \in Sides \cup {"no", "skipped"}
  BY SessionFields
<1>3. WellRated(s) /\ storeUp = TRUE =>
         (result # "none" => rated # "no") /\ (rated \in Sides => rated = result)
  BY DEF WellRated, Sides
<1> HIDE DEF t, result, rated
<1>4. t \in SessionsOver(C, U)
  BY <1>1, <1>2 DEF SessionsOver
<1>5. /\ t.seats = s.seats /\ t.countdowns = s.countdowns /\ t.over = TRUE
      /\ t.result = result /\ t.rated = rated
  BY <1>1 DEF SessionsOver
<1> QED BY <1>3, <1>4, <1>5 DEF WellRated, t

\* A countdown that ages keeps its side.
LEMMA AgedType ==
    ASSUME NEW C, NEW U, NEW s \in SessionsOver(C, U)
    PROVE  /\ Aged(s) \in Seq([side : Sides, left : 0 .. Countdown])
           /\ Len(Aged(s)) = Len(s.countdowns)
           /\ \A i \in DOMAIN s.countdowns :
                 /\ Aged(s)[i].side = s.countdowns[i].side
                 /\ i \notin Due(s) => Aged(s)[i] \in Clocks
<1> DEFINE n == Len(s.countdowns)
           X == [side : Sides, left : 0 .. Countdown]
           older(d) == [d EXCEPT !.left = @ - 1]
<1>1. n \in Nat /\ DOMAIN s.countdowns = 1 .. n /\ \A i \in 1 .. n : s.countdowns[i] \in Clocks
  BY SessionFields
<1>2. ASSUME NEW d \in Clocks
      PROVE  older(d) \in X /\ older(d).side = d.side /\ (d.left # 1 => older(d) \in Clocks)
  BY CountdownAssumption DEF Clocks
<1>3. Aged(s) = [i \in 1 .. n |-> older(s.countdowns[i])]
  BY <1>1 DEF Aged
<1>4. Due(s) = {i \in 1 .. n : s.countdowns[i].left = 1}
  BY <1>1 DEF Due
<1> HIDE DEF n, X, older
<1>5. Aged(s) \in [1 .. n -> X]
  BY <1>1, <1>2, <1>3
<1>6. Aged(s) \in Seq(X) /\ Len(Aged(s)) = n
  BY <1>1, <1>3, <1>5
<1>7. \A i \in 1 .. n : /\ Aged(s)[i].side = s.countdowns[i].side
                        /\ i \notin Due(s) => Aged(s)[i] \in Clocks
  BY <1>1, <1>2, <1>3, <1>4
<1> QED BY <1>1, <1>6, <1>7 DEF n, X

LEMMA AdvanceKeeps ==
    ASSUME NEW C, NEW U, NEW s \in SessionsOver(C, U), Orderly(s), NEW storeUp
    PROVE  LET t == AdvanceCountdowns(s, storeUp)
           IN  /\ t \in SessionsOver(C, U) /\ Orderly(t) /\ t.seats = s.seats
               /\ s.over => t.over
               /\ ~t.over => \A side \in Sides : Counting(t, side) <=> Counting(s, side)
               /\ WellRated(s) /\ storeUp = TRUE => WellRated(t)
<1> DEFINE t == AdvanceCountdowns(s, storeUp)
           n == Len(s.countdowns)
<1>1. /\ n \in Nat /\ DOMAIN s.countdowns = 1 .. n
      /\ \A i \in 1 .. n : s.countdowns[i] \in Clocks
      /\ s.over \in BOOLEAN
  BY SessionFields
<1>2. /\ Aged(s) \in Seq([side : Sides, left : 0 .. Countdown]) /\ Len(Aged(s)) = n
      /\ \A i \in 1 .. n : /\ Aged(s)[i].side = s.countdowns[i].side
                           /\ i \notin Due(s) => Aged(s)[i] \in Clocks
  BY <1>1, AgedType
<1>3. Due(s) \in SUBSET (1 .. n)
  BY <1>1 DEF Due
<1>4. CASE Due(s) = {}
  <2>1. t = [s EXCEPT !.countdowns = Aged(s)]
    BY <1>4 DEF AdvanceCountdowns
  <2> HIDE DEF t, n
  <2>2. \A i \in 1 .. n : Aged(s)[i] \in Clocks
    BY <1>2, <1>4
  <2>3. Aged(s) \in Seq(Clocks) /\ DOMAIN Aged(s) = 1 .. n
    <3>1. Aged(s) = [i \in 1 .. n |-> Aged(s)[i]]
      BY <1>2
    <3>2. Aged(s) \in [1 .. n -> Clocks]
      BY <2>2, <3>1
    <3> QED BY <1>1, <3>1, <3>2
  <2>4. t \in SessionsOver(C, U)
    BY <2>1, <2>3 DEF SessionsOver
  <2>5. /\ t.seats = s.seats /\ t.over = s.over /\ t.result = s.result /\ t.rated = s.rated
        /\ t.countdowns = Aged(s)
    BY <2>1 DEF SessionsOver
  <2>6. \A side \in Sides : Counting(t, side) <=> Counting(s, side)
    BY <1>1, <1>2, <2>3, <2>5 DEF Counting
  <2>7. Orderly(t)
    BY <2>5, <2>6, SeatsAlone
  <2> QED BY <2>4, <2>5, <2>6, <2>7 DEF WellRated, t
<1>5. CASE Due(s) # {}
  <2> DEFINE first == CHOOSE i \in Due(s) : \A j \in Due(s) : i <= j
             over  == GameOver(s, OtherSide(s.countdowns[first].side), storeUp)
             left  == [i \in DOMAIN s.countdowns |->
                          IF i < first THEN Aged(s)[i] ELSE s.countdowns[i]]
             rest  == IF RatingRaises(s, storeUp) THEN Kept(left, DOMAIN left \ {first})
                      ELSE StillRunning(s)
  <2>1. t = [over EXCEPT !.countdowns = rest]
    BY <1>5 DEF AdvanceCountdowns
  <2>2. first \in Due(s) /\ \A j \in Due(s) : first <= j
    <3>1. Due(s) \in SUBSET Nat
      BY <1>3
    <3>2. \E i \in Due(s) : \A j \in Due(s) : i <= j
      BY <1>5, <3>1, LeastNatural
    <3> QED BY <3>2
  <2>3. /\ left = [i \in 1 .. n |-> IF i < first THEN Aged(s)[i] ELSE s.countdowns[i]]
        /\ DOMAIN left = 1 .. n
    BY <1>1
  <2>4. over = GameOver(s, OtherSide(s.countdowns[first].side), storeUp)
    OBVIOUS
  <2>5. rest = Kept(left, 1 .. n \ {first}) \/ rest = Kept(Aged(s), 1 .. n \ Due(s))
    BY <1>1, <2>3 DEF StillRunning
  <2> HIDE DEF first, left, over, rest, t, n
  <2>6. \A i \in 1 .. n : left[i] \in Clocks /\ left[i].side = s.countdowns[i].side
    <3> SUFFICES ASSUME NEW i \in 1 .. n
                 PROVE  left[i] \in Clocks /\ left[i].side = s.countdowns[i].side
      OBVIOUS
    <3>1. i < first => i \notin Due(s)
      BY <1>3, <2>2
    <3> QED BY <1>1, <1>2, <2>3, <3>1
  <2>7. left \in Seq(Clocks) /\ Len(left) = n
    <3>1. left \in [1 .. n -> Clocks]
      BY <2>3, <2>6
    <3> QED BY <1>1, <3>1
  <2>8. rest \in Seq(Clocks)
        /\ \A j \in DOMAIN rest : \E i \in 1 .. n : rest[j].side = s.countdowns[i].side
    <3>1. CASE rest = Kept(left, 1 .. n \ {first})
      <4> DEFINE places == 1 .. n \ {first}
      <4>1. places \in SUBSET (1 .. Len(left)) /\ \A i \in places : left[i] \in Clocks
        BY <2>6, <2>7
      <4> HIDE DEF places
      <4>2. /\ Kept(left, places) \in Seq(Clocks)
            /\ \A j \in DOMAIN Kept(left, places) : \E i \in places : Kept(left, places)[j] = left[i]
        BY <2>7, <4>1, KeptIn
      <4>3. rest = Kept(left, places)
        BY <3>1 DEF places
      <4>4. \A i \in places : left[i].side = s.countdowns[i].side /\ i \in 1 .. n
        BY <2>6 DEF places
      <4> QED BY <4>2, <4>3, <4>4
    <3>2. CASE rest = Kept(Aged(s), 1 .. n \ Due(s))
      <4> DEFINE places == 1 .. n \ Due(s)
                 aged   == Aged(s)
      <4>1. places \in SUBSET (1 .. Len(aged)) /\ \A i \in places : aged[i] \in Clocks
        BY <1>2
      <4>2. aged \in Seq([side : Sides, left : 0 .. Countdown])
        BY <1>2
      <4> HIDE DEF places, aged
      <4>3. /\ Kept(aged, places) \in Seq(Clocks)
            /\ \A j \in DOMAIN Kept(aged, places) : \E i \in places : Kept(aged, places)[j] = aged[i]
        BY <4>1, <4>2, KeptIn
      <4>4. \A i \in places : aged[i].side = s.countdowns[i].side /\ i \in 1 .. n
        BY <1>2 DEF places, aged
      <4>5. rest = Kept(aged, places)
        BY <3>2 DEF places, aged
      <4> QED BY <4>3, <4>4, <4>5
    <3> QED BY <2>5, <3>1, <3>2
  <2>9. s.countdowns[first].side \in Sides
    BY <1>1, <1>3, <2>2 DEF Clocks
  <2>10. OtherSide(s.countdowns[first].side) \in Sides
    BY <2>9 DEF OtherSide, Sides
  <2>11. /\ over \in SessionsOver(C, U) /\ over.seats = s.seats /\ over.over = TRUE
         /\ WellRated(s) /\ storeUp = TRUE => WellRated(over)
    <3> DEFINE winner == OtherSide(s.countdowns[first].side)
    <3>1. winner \in Sides /\ over = GameOver(s, winner, storeUp)
      BY <2>4, <2>10
    <3> HIDE DEF winner
    <3> DEFINE o == GameOver(s, winner, storeUp)
    <3>2. /\ o \in SessionsOver(C, U) /\ o.seats = s.seats /\ o.countdowns = s.countdowns
          /\ o.over = TRUE
          /\ WellRated(s) /\ storeUp = TRUE => WellRated(o)
      BY <3>1, GameOverKeeps, Zenon
    <3> QED BY <3>1, <3>2, Zenon
  <2>12. t \in SessionsOver(C, U)
    BY <2>1, <2>8, <2>11 DEF SessionsOver
  <2>13. /\ t.seats = s.seats /\ t.over = TRUE /\ t.countdowns = rest
         /\ t.result = over.result /\ t.rated = over.rated
    BY <2>1, <2>11 DEF SessionsOver
  <2>14. \A side \in Sides : Counting(t, side) => Counting(s, side)
    BY <1>1, <2>8, <2>13 DEF Counting
  <2>15. Orderly(t)
    BY <2>13, <2>14, SeatsAlone, Zenon
  <2> QED BY <2>11, <2>12, <2>13, <2>15 DEF WellRated, t
<1> QED BY <1>4, <1>5

LEMMA TickKeeps ==
    ASSUME NEW C, NEW U, NEW s \in SessionsOver(C, U), Orderly(s),
           NEW end \in Sides \cup {"none"}, NEW storeUp
    PROVE  LET t == TickSession(s, end, storeUp)
           IN  /\ t \in SessionsOver(C, U) /\ Orderly(t) /\ t.seats = s.seats
               /\ s.over => t.over
               /\ ~t.over => \A side \in Sides : Counting(t, side) <=> Counting(s, side)
               /\ WellRated(s) /\ storeUp = TRUE => WellRated(t)
<1> DEFINE waited == IF end = "none" THEN s ELSE GameOver(s, end, storeUp)
           t      == TickSession(s, end, storeUp)
<1>1. "none" \notin Sides
  BY DEF Sides
<1>2. /\ waited \in SessionsOver(C, U) /\ waited.seats = s.seats /\ waited.countdowns = s.countdowns
      /\ s.over => waited.over
      /\ ~waited.over => waited = s
      /\ WellRated(s) /\ storeUp = TRUE => WellRated(waited)
  <2>1. CASE end = "none"
    BY <2>1, SessionFields
  <2>2. CASE end # "none"
    <3>1. end \in Sides /\ waited = GameOver(s, end, storeUp)
      BY <2>2
    <3> HIDE DEF waited
    <3> DEFINE o == GameOver(s, end, storeUp)
    <3>2. /\ o \in SessionsOver(C, U) /\ o.seats = s.seats /\ o.countdowns = s.countdowns
          /\ o.over = TRUE
          /\ WellRated(s) /\ storeUp = TRUE => WellRated(o)
      BY <3>1, GameOverKeeps, Zenon
    <3> QED BY <3>1, <3>2, Zenon
  <2> QED BY <2>1, <2>2
<1>3. t = IF end # "none" /\ RatingRaises(s, storeUp) THEN waited
          ELSE IF waited.over THEN [waited EXCEPT !.countdowns = <<>>]
          ELSE AdvanceCountdowns(waited, storeUp)
  BY DEF TickSession
<1>4. Orderly(waited)
  <2>1. \A side \in Sides : Counting(waited, side) => Counting(s, side)
    BY <1>2 DEF Counting
  <2> QED BY <1>2, <2>1, SeatsAlone
<1> HIDE DEF waited, t
<1>5. CASE t = waited
  BY <1>2, <1>4, <1>5 DEF t
<1>6. CASE waited.over /\ t = [waited EXCEPT !.countdowns = <<>>]
  <2>1. t \in SessionsOver(C, U)
    <3>1. <<>> \in Seq(Clocks)
      OBVIOUS
    <3> QED BY <1>2, <1>6, <3>1 DEF SessionsOver
  <2>2. /\ t.seats = s.seats /\ t.over /\ t.countdowns = <<>>
        /\ t.result = waited.result /\ t.rated = waited.rated
    BY <1>2, <1>6 DEF SessionsOver
  <2>3. \A side \in Sides : ~Counting(t, side)
    BY <2>2 DEF Counting
  <2>4. Orderly(t)
    BY <2>2, <2>3, SeatsAlone
  <2> QED BY <1>2, <2>1, <2>2, <2>4 DEF WellRated, t
<1>7. CASE ~waited.over /\ t = AdvanceCountdowns(waited, storeUp)
  <2>1. waited = s
    BY <1>2, <1>7
  <2>2. t = AdvanceCountdowns(s, storeUp)
    BY <1>7, <2>1
  <2>3. /\ t \in SessionsOver(C, U) /\ Orderly(t) /\ t.seats = s.seats
        /\ s.over => t.over
        /\ ~t.over => \A side \in Sides : Counting(t, side) <=> Counting(s, side)
        /\ WellRated(s) /\ storeUp = TRUE => WellRated(t)
    BY <2>2, AdvanceKeeps
  <2> QED BY <2>3 DEF t
<1> QED BY <1>3, <1>5, <1>6, <1>7

-----------------------------------------------------------------------------
\* A seat is given, or changes hands.

LEMMA PlaceGivesSeat ==
    ASSUME NEW C, NEW U, NEW s \in SessionsOver(C, U), Orderly(s), NEW c \in C, NEW u \in U,
           SeatsOf(s, c) = {}
    PROVE  LET t == Place(s, c, u)
           IN  /\ t \in SessionsOver(C, U) /\ Orderly(t)
               /\ t.seats = Append(s.seats, [conn |-> c, user |-> u, role |-> RoleAt(Len(s.seats) + 1)])
               /\ t.countdowns = s.countdowns /\ t.over = s.over
               /\ t.result = s.result /\ t.rated = s.rated
               /\ RoleAt(Len(s.seats) + 1) \in Sides => ~Counting(s, RoleAt(Len(s.seats) + 1))
<1> DEFINE n    == Len(s.seats)
           role == RoleAt(n + 1)
           seat == [conn |-> c, user |-> u, role |-> role]
           t    == Place(s, c, u)
<1>1. /\ s.seats \in Seq(SeatsOver(C, U)) /\ n \in Nat /\ DOMAIN s.seats = 1 .. n
      /\ s.countdowns \in Seq(Clocks)
  BY SessionFields
<1>2. t = [s EXCEPT !.seats = Append(s.seats, seat)]
  BY DEF Place
<1>3. /\ role \in Sides \cup {"spectator"}
      /\ role = "white" <=> n = 0
      /\ role = "black" <=> n = 1
  <2> HIDE DEF n
  <2>1. CASE n = 0
    BY <2>1 DEF RoleAt, Sides
  <2>2. CASE n = 1
    BY <2>2 DEF RoleAt, Sides
  <2>3. CASE n # 0 /\ n # 1
    <3>1. n + 1 # 1 /\ n + 1 # 2
      BY <1>1, <2>3
    <3> QED BY <2>3, <3>1 DEF RoleAt, Sides
  <2> QED BY <2>1, <2>2, <2>3
<1>4. seat.conn = c /\ seat.user = u /\ seat.role = role /\ seat \in SeatsOver(C, U)
  BY <1>3 DEF SeatsOver
<1>5. n = Len(s.seats)
  OBVIOUS
<1>6. role = RoleAt(Len(s.seats) + 1) /\ t = Place(s, c, u)
      /\ seat = [conn |-> c, user |-> u, role |-> RoleAt(Len(s.seats) + 1)]
  OBVIOUS
<1> HIDE DEF n, role, seat, t
<1>7. /\ Append(s.seats, seat) \in Seq(SeatsOver(C, U))
      /\ Len(Append(s.seats, seat)) = n + 1 /\ DOMAIN Append(s.seats, seat) = 1 .. n + 1
      /\ Append(s.seats, seat)[n + 1] = seat
      /\ \A i \in 1 .. n : Append(s.seats, seat)[i] = s.seats[i]
  BY <1>1, <1>4, <1>5
<1>8. t \in SessionsOver(C, U)
  BY <1>2, <1>7 DEF SessionsOver
<1>9. /\ t.seats = Append(s.seats, seat) /\ t.countdowns = s.countdowns /\ t.over = s.over
      /\ t.result = s.result /\ t.rated = s.rated
  BY <1>2 DEF SessionsOver
<1>10. /\ Len(t.seats) = n + 1 /\ DOMAIN t.seats = 1 .. n + 1 /\ t.seats[n + 1] = seat
       /\ \A i \in 1 .. n : t.seats[i] = s.seats[i]
  BY <1>7, <1>9
<1>11. \A i \in 1 .. n : s.seats[i].conn # c
  BY <1>1 DEF SeatsOf
<1>12. \A i \in 1 .. n : s.seats[i].role \in Sides => s.seats[i].role # role
  BY <1>1, <1>3, <1>5 DEF Orderly, SideSeated, Sides
<1>13. \A i, j \in DOMAIN t.seats : t.seats[i].conn = t.seats[j].conn => i = j
  <2> SUFFICES ASSUME NEW i \in 1 .. n + 1, NEW j \in 1 .. n + 1,
                      t.seats[i].conn = t.seats[j].conn
               PROVE  i = j
    BY <1>10
  <2>1. CASE i \in 1 .. n /\ j \in 1 .. n
    BY <1>1, <1>10, <2>1 DEF Orderly
  <2>2. CASE i = n + 1 /\ j \in 1 .. n
    BY <1>4, <1>10, <1>11, <2>2
  <2>3. CASE j = n + 1 /\ i \in 1 .. n
    BY <1>4, <1>10, <1>11, <2>3
  <2>4. CASE i = n + 1 /\ j = n + 1
    BY <2>4
  <2> QED BY <1>1, <2>1, <2>2, <2>3, <2>4
<1>14. \A i, j \in DOMAIN t.seats :
          t.seats[i].role = t.seats[j].role /\ t.seats[i].role \in Sides => i = j
  <2> SUFFICES ASSUME NEW i \in 1 .. n + 1, NEW j \in 1 .. n + 1,
                      t.seats[i].role = t.seats[j].role, t.seats[i].role \in Sides
               PROVE  i = j
    BY <1>10
  <2>1. CASE i \in 1 .. n /\ j \in 1 .. n
    BY <1>1, <1>10, <2>1 DEF Orderly
  <2>2. CASE i = n + 1 /\ j \in 1 .. n
    BY <1>4, <1>10, <1>12, <2>2
  <2>3. CASE j = n + 1 /\ i \in 1 .. n
    BY <1>4, <1>10, <1>12, <2>3
  <2>4. CASE i = n + 1 /\ j = n + 1
    BY <2>4
  <2> QED BY <1>1, <2>1, <2>2, <2>3, <2>4
<1>15. \A side \in Sides : SideSeated(t, side) <=> SideSeated(s, side) \/ side = role
  <2> SUFFICES ASSUME NEW side \in Sides
               PROVE  (\E i \in 1 .. n + 1 : t.seats[i].role = side) <=>
                         (\E i \in 1 .. n : s.seats[i].role = side) \/ side = role
    BY <1>1, <1>10 DEF SideSeated
  <2>1. ASSUME NEW i \in 1 .. n + 1, t.seats[i].role = side, side # role
        PROVE  \E j \in 1 .. n : s.seats[j].role = side
    <3>1. i \in 1 .. n
      BY <1>1, <1>4, <1>10, <2>1
    <3> QED BY <1>10, <2>1, <3>1
  <2>2. ASSUME NEW j \in 1 .. n, s.seats[j].role = side
        PROVE  \E i \in 1 .. n + 1 : t.seats[i].role = side
    <3>1. j \in 1 .. n + 1
      BY <1>1
    <3> QED BY <1>10, <2>2, <3>1
  <2>3. n + 1 \in 1 .. n + 1 /\ t.seats[n + 1].role = role
    BY <1>1, <1>4, <1>10
  <2> QED BY <2>1, <2>2, <2>3
<1>16. \A side \in Sides : Counting(t, side) <=> Counting(s, side)
  BY <1>9 DEF Counting
<1>17. Orderly(t)
  <2>1. SideSeated(t, "white") <=> Len(t.seats) >= 1
    BY <1>1, <1>3, <1>5, <1>10, <1>15 DEF Orderly, Sides
  <2>2. SideSeated(t, "black") <=> Len(t.seats) >= 2
    <3>1. SideSeated(t, "black") <=> SideSeated(s, "black") \/ n = 1
      BY <1>3, <1>15 DEF Sides
    <3>2. SideSeated(s, "black") <=> n >= 2
      BY <1>5 DEF Orderly
    <3> QED BY <1>1, <1>10, <3>1, <3>2
  <2>3. \A side \in Sides : Counting(t, side) => SideSeated(t, side)
    BY <1>15, <1>16 DEF Orderly
  <2> QED BY <1>13, <1>14, <2>1, <2>2, <2>3 DEF Orderly
<1>18. role \in Sides => ~Counting(s, role)
  BY <1>12, <1>1 DEF Orderly, SideSeated
<1> QED BY <1>6, <1>8, <1>9, <1>17, <1>18

\* The seat a username comes back to, and what else a reconnect leaves as it was.
LEMMA SeatFound ==
    ASSUME NEW C, NEW U, NEW s \in SessionsOver(C, U), NEW u, CanReconnect(s, u)
    PROVE  LET k == SeatFor(s, u)
           IN  /\ k \in DOMAIN s.seats /\ s.seats[k].user = u
               /\ Counting(s, s.seats[k].role) /\ s.seats[k].role \in Sides
<1> DEFINE k == SeatFor(s, u)
           I == {i \in DOMAIN s.seats : s.seats[i].user = u}
<1>1. DOMAIN s.seats \in SUBSET Nat
  BY SessionFields
<1>2. I # {} /\ I \in SUBSET Nat
  BY <1>1 DEF CanReconnect
<1>3. \E i \in I : \A j \in I : i <= j
  <2> HIDE DEF I
  <2> QED BY <1>2, LeastNatural
<1>4. k \in DOMAIN s.seats /\ s.seats[k].user = u
  BY <1>3 DEF SeatFor
<1>5. Counting(s, s.seats[k].role)
  BY DEF CanReconnect
<1>6. s.seats[k].role \in Sides
  <2> DEFINE role == s.seats[k].role
  <2>1. Counting(s, role)
    BY <1>5
  <2> HIDE DEF role
  <2>2. role \in Sides
    BY <2>1, SessionFields DEF Counting
  <2> QED BY <2>2 DEF role
<1> QED BY <1>4, <1>5, <1>6

\* A reconnect: the seat of the returning username moves to the end under its new
\* connection, the other seats keep their order, and the countdown of its side stops.
LEMMA ReconnectKeeps ==
    ASSUME NEW C, NEW U, NEW s \in SessionsOver(C, U), Orderly(s), NEW c \in C, NEW u,
           SeatsOf(s, c) = {}, CanReconnect(s, u)
    PROVE  LET k == SeatFor(s, u)
               t == Reconnect(s, c, u)
               moved == [s.seats[k] EXCEPT !.conn = c]
           IN  /\ t \in SessionsOver(C, U) /\ Orderly(t)
               /\ \A i \in DOMAIN t.seats :
                     \/ t.seats[i] = moved
                     \/ \E j \in DOMAIN s.seats \ {k} : t.seats[i] = s.seats[j]
               /\ \E i \in DOMAIN t.seats : t.seats[i] = moved
               /\ \A j \in DOMAIN s.seats \ {k} : \E i \in DOMAIN t.seats : t.seats[i] = s.seats[j]
               /\ \A side \in Sides : Counting(t, side) <=>
                                         Counting(s, side) /\ side # s.seats[k].role
               /\ t.over = s.over /\ t.result = s.result /\ t.rated = s.rated
<1> DEFINE k     == SeatFor(s, u)
           old   == s.seats[k]
           moved == [old EXCEPT !.conn = c]
           n     == Len(s.seats)
           m     == Len(s.countdowns)
           stay  == (1 .. n) \ {k}
           on    == {i \in 1 .. m : s.countdowns[i].side # old.role}
           rest  == Kept(s.seats, stay)
           runs  == Kept(s.countdowns, on)
           t     == Reconnect(s, c, u)
<1>1. k \in 1 .. n /\ old.role \in Sides /\ Counting(s, old.role) /\ old.user = u
  BY SeatFound, SessionFields
<1>2. /\ s.seats \in Seq(SeatsOver(C, U)) /\ n \in Nat /\ DOMAIN s.seats = 1 .. n
      /\ \A i \in 1 .. n : s.seats[i] \in SeatsOver(C, U)
      /\ s.countdowns \in Seq(Clocks) /\ m \in Nat /\ DOMAIN s.countdowns = 1 .. m
  BY SessionFields
<1>3. SeatsOf(s, old.conn) = {k}
  BY <1>1, <1>2 DEF SeatsOf, Orderly
<1>4. SeatsWithout(s, old.conn) = rest
  BY <1>2, <1>3 DEF SeatsWithout
<1>5. CountdownsWithout(s, old.role) = runs
  BY <1>2 DEF CountdownsWithout
<1>6. t = [s EXCEPT !.countdowns = runs, !.seats = Append(rest, moved)]
  BY <1>4, <1>5 DEF Reconnect
<1>7. /\ moved \in SeatsOver(C, U) /\ moved.conn = c /\ moved.role = old.role
      /\ moved.user = old.user
  <2>1. old \in SeatsOver(C, U)
    BY <1>1, <1>2
  <2> HIDE DEF old
  <2> QED BY <2>1 DEF SeatsOver
<1>8. stay \in SUBSET (1 .. n) /\ on \in SUBSET (1 .. m)
  OBVIOUS
<1>9. \A i \in 1 .. n : s.seats[i].conn # c
  BY <1>2 DEF SeatsOf
<1>10. n = Len(s.seats) /\ m = Len(s.countdowns)
  OBVIOUS
<1>11. \A i \in on : s.countdowns[i].side # old.role
  OBVIOUS
<1>12. \A i \in 1 .. m : s.countdowns[i].side # old.role => i \in on
  OBVIOUS
<1>13. Cardinality(stay) = n - 1 /\ n >= 1
  <2>2. k \in 1 .. n /\ n \in Nat
    BY <1>1, <1>2
  <2> HIDE DEF k, n
  <2>1. IsFiniteSet(1 .. n) /\ Cardinality(1 .. n) = n
    BY <2>2, FS_Interval
  <2>3. Cardinality((1 .. n) \ {k}) = n - 1
    BY <2>1, <2>2, FS_RemoveElement
  <2> QED BY <2>2, <2>3
<1>14. \A i \in stay : i \in 1 .. n /\ i # k
  OBVIOUS
<1>15. \A i \in 1 .. n : i # k => i \in stay
  OBVIOUS
<1> HIDE DEF k, old, moved, n, m, stay, on, rest, runs, t
<1>16. /\ rest \in Seq(SeatsOver(C, U)) /\ Len(rest) = n - 1
       /\ \A i \in 1 .. n - 1 : Nth(stay, i) \in stay /\ rest[i] = s.seats[Nth(stay, i)]
       /\ \A i \in stay : \E j \in 1 .. n - 1 : rest[j] = s.seats[i]
       /\ \A i, j \in 1 .. n - 1 : Nth(stay, i) = Nth(stay, j) => i = j
  <2> DEFINE list == s.seats
             S    == SeatsOver(C, U)
  <2>1. list \in Seq(S) /\ stay \in SUBSET (1 .. Len(list)) /\ rest = Kept(list, stay)
    BY <1>2, <1>8, <1>10 DEF rest
  <2>2. list = s.seats /\ S = SeatsOver(C, U)
    OBVIOUS
  <2> HIDE DEF list, S
  <2>3. /\ Kept(list, stay) \in Seq(S) /\ Len(Kept(list, stay)) = Cardinality(stay)
        /\ \A i \in 1 .. Cardinality(stay) :
              Nth(stay, i) \in stay /\ Kept(list, stay)[i] = list[Nth(stay, i)]
        /\ \A i \in stay : \E j \in 1 .. Cardinality(stay) : Kept(list, stay)[j] = list[i]
        /\ \A i, j \in 1 .. Cardinality(stay) : Nth(stay, i) = Nth(stay, j) => i = j
    BY <2>1, KeptSeq
  <2> QED BY <1>13, <2>1, <2>2, <2>3
<1>17. /\ runs \in Seq(Clocks)
       /\ \A i \in DOMAIN runs : \E j \in on : runs[i] = s.countdowns[j]
       /\ \A j \in on : \E i \in DOMAIN runs : runs[i] = s.countdowns[j]
  <2> DEFINE list == s.countdowns
  <2>1. /\ list \in Seq(Clocks) /\ on \in SUBSET (1 .. Len(list)) /\ runs = Kept(list, on)
        /\ \A i \in on : list[i] \in Clocks
    BY <1>2, <1>8, <1>10 DEF runs
  <2>2. list = s.countdowns
    OBVIOUS
  <2> HIDE DEF list
  <2>3. /\ Kept(list, on) \in Seq(Clocks)
        /\ \A j \in DOMAIN Kept(list, on) : \E i \in on : Kept(list, on)[j] = list[i]
        /\ \A i \in on : \E j \in DOMAIN Kept(list, on) : Kept(list, on)[j] = list[i]
    <3>1. \A i \in on : list[i] \in Clocks
      BY <2>1
    <3>2. on \in SUBSET (1 .. Len(list))
      BY <2>1
    <3>3. list \in Seq(Clocks)
      BY <2>1
    <3> QED BY ONLY <3>1, <3>2, <3>3, KeptIn
  <2> QED BY <2>1, <2>2, <2>3
<1>18. /\ Append(rest, moved) \in Seq(SeatsOver(C, U)) /\ Len(Append(rest, moved)) = n
       /\ Append(rest, moved)[n] = moved
       /\ \A i \in 1 .. n - 1 : Append(rest, moved)[i] = rest[i]
  BY <1>2, <1>7, <1>13, <1>16
<1>19. t \in SessionsOver(C, U)
  BY <1>6, <1>17, <1>18 DEF SessionsOver
<1>20. /\ t.seats = Append(rest, moved) /\ t.countdowns = runs
       /\ t.over = s.over /\ t.result = s.result /\ t.rated = s.rated
  BY <1>6 DEF SessionsOver
<1>21. /\ Len(t.seats) = n /\ DOMAIN t.seats = 1 .. n /\ t.seats[n] = moved
       /\ \A i \in 1 .. n - 1 : /\ Nth(stay, i) \in 1 .. n /\ Nth(stay, i) # k
                                /\ t.seats[i] = s.seats[Nth(stay, i)]
       /\ \A i \in 1 .. n : i # k => \E j \in 1 .. n - 1 : t.seats[j] = s.seats[i]
  <2>1. Len(t.seats) = n /\ DOMAIN t.seats = 1 .. n /\ t.seats[n] = moved
    BY <1>18, <1>20
  <2>2. \A i \in 1 .. n - 1 : t.seats[i] = rest[i]
    BY <1>18, <1>20
  <2>3. \A i \in 1 .. n - 1 : /\ Nth(stay, i) \in 1 .. n /\ Nth(stay, i) # k
                              /\ t.seats[i] = s.seats[Nth(stay, i)]
    BY <1>14, <1>15, <1>16, <2>2
  <2>4. \A i \in 1 .. n : i # k => \E j \in 1 .. n - 1 : t.seats[j] = s.seats[i]
    BY <1>14, <1>15, <1>16, <2>2
  <2> QED BY <2>1, <2>3, <2>4
<1>22. \A i \in 1 .. n : i \in 1 .. n - 1 \/ i = n
  BY <1>2
<1>23. n \in 1 .. n /\ \A i \in 1 .. n - 1 : i \in 1 .. n
  BY <1>2, <1>13
<1>24. \A i \in 1 .. n : \/ t.seats[i] = moved
                         \/ \E j \in (1 .. n) \ {k} : t.seats[i] = s.seats[j]
  BY <1>21, <1>22
<1>25. /\ \E i \in 1 .. n : t.seats[i] = moved
       /\ \A j \in (1 .. n) \ {k} : \E i \in 1 .. n : t.seats[i] = s.seats[j]
  BY <1>21, <1>23
<1>26. \A side \in Sides : SideSeated(t, side) <=> SideSeated(s, side)
  <2> SUFFICES ASSUME NEW side
               PROVE  (\E i \in 1 .. n : t.seats[i].role = side) <=>
                         \E j \in 1 .. n : s.seats[j].role = side
    BY <1>2, <1>21 DEF SideSeated
  <2>1. s.seats[k].role = moved.role
    BY <1>7 DEF old
  <2> QED BY <1>1, <1>24, <1>25, <2>1
<1>27. \A i, j \in 1 .. n : t.seats[i].conn = t.seats[j].conn => i = j
  <2> SUFFICES ASSUME NEW i \in 1 .. n, NEW j \in 1 .. n, t.seats[i].conn = t.seats[j].conn
               PROVE  i = j
    OBVIOUS
  <2>1. CASE i \in 1 .. n - 1 /\ j \in 1 .. n - 1
    <3>1. s.seats[Nth(stay, i)].conn = s.seats[Nth(stay, j)].conn
      BY <1>21, <2>1
    <3>2. Nth(stay, i) = Nth(stay, j)
      BY <1>2, <1>21, <2>1, <3>1 DEF Orderly
    <3> QED BY <1>16, <2>1, <3>2
  <2>2. \A h \in 1 .. n - 1 : t.seats[h].conn # c
    <3> SUFFICES ASSUME NEW h \in 1 .. n - 1 PROVE t.seats[h].conn # c
      OBVIOUS
    <3>1. Nth(stay, h) \in 1 .. n /\ t.seats[h] = s.seats[Nth(stay, h)]
      BY <1>21
    <3> QED BY <1>9, <3>1
  <2>3. CASE i = n /\ j \in 1 .. n - 1
    BY <1>7, <1>21, <2>2, <2>3
  <2>4. CASE j = n /\ i \in 1 .. n - 1
    BY <1>7, <1>21, <2>2, <2>4
  <2> QED BY <1>22, <2>1, <2>3, <2>4
<1>28. \A i, j \in 1 .. n : t.seats[i].role = t.seats[j].role /\ t.seats[i].role \in Sides => i = j
  <2> SUFFICES ASSUME NEW i \in 1 .. n, NEW j \in 1 .. n,
                      t.seats[i].role = t.seats[j].role, t.seats[i].role \in Sides
               PROVE  i = j
    OBVIOUS
  <2>1. CASE i \in 1 .. n - 1 /\ j \in 1 .. n - 1
    <3>1. /\ s.seats[Nth(stay, i)].role = s.seats[Nth(stay, j)].role
          /\ s.seats[Nth(stay, i)].role \in Sides
      BY <1>21, <2>1
    <3>2. Nth(stay, i) = Nth(stay, j)
      BY <1>2, <1>21, <2>1, <3>1 DEF Orderly
    <3> QED BY <1>16, <2>1, <3>2
  <2>2. \A h \in 1 .. n - 1 : t.seats[h].role # moved.role
    <3> SUFFICES ASSUME NEW h \in 1 .. n - 1, t.seats[h].role = moved.role
                 PROVE  FALSE
      OBVIOUS
    <3>1. /\ s.seats[Nth(stay, h)].role = s.seats[k].role /\ s.seats[k].role \in Sides
          /\ Nth(stay, h) \in 1 .. n /\ Nth(stay, h) # k
      BY <1>1, <1>7, <1>21 DEF old
    <3> QED BY <1>1, <1>2, <3>1 DEF Orderly
  <2>3. CASE i = n /\ j \in 1 .. n - 1
    BY <1>21, <2>2, <2>3
  <2>4. CASE j = n /\ i \in 1 .. n - 1
    BY <1>21, <2>2, <2>4
  <2> QED BY <1>22, <2>1, <2>3, <2>4
<1>29. \A side \in Sides : Counting(t, side) <=> Counting(s, side) /\ side # old.role
  <2> SUFFICES ASSUME NEW side
               PROVE  (\E i \in DOMAIN runs : runs[i].side = side) <=>
                         (\E i \in 1 .. m : s.countdowns[i].side = side) /\ side # old.role
    BY <1>2, <1>20 DEF Counting
  <2>1. \A i \in on : i \in 1 .. m
    BY <1>8
  <2>2. ASSUME NEW i \in DOMAIN runs, runs[i].side = side
        PROVE  (\E j \in 1 .. m : s.countdowns[j].side = side) /\ side # old.role
    <3>1. PICK j \in on : runs[i] = s.countdowns[j]
      BY <1>17
    <3> QED BY <1>11, <2>1, <2>2, <3>1
  <2>3. ASSUME NEW j \in 1 .. m, s.countdowns[j].side = side, side # old.role
        PROVE  \E i \in DOMAIN runs : runs[i].side = side
    <3>1. PICK i \in DOMAIN runs : runs[i] = s.countdowns[j]
      BY <1>12, <1>17, <2>3
    <3> QED BY <2>3, <3>1
  <2> QED BY <2>2, <2>3
<1>30. Orderly(t)
  <2>1. "white" \in Sides /\ "black" \in Sides
    BY DEF Sides
  <2>2. /\ SideSeated(t, "white") <=> Len(t.seats) >= 1
        /\ SideSeated(t, "black") <=> Len(t.seats) >= 2
    BY <1>10, <1>21, <1>26, <2>1 DEF Orderly
  <2>3. \A side \in Sides : Counting(t, side) => SideSeated(t, side)
    BY <1>26, <1>29 DEF Orderly
  <2> QED BY <1>21, <1>27, <1>28, <2>2, <2>3 DEF Orderly
<1>31. /\ DOMAIN s.seats = 1 .. n /\ DOMAIN t.seats = 1 .. n
  BY <1>2, <1>21
<1> QED BY <1>19, <1>20, <1>24, <1>25, <1>29, <1>30, <1>31 DEF k, old, moved, t

-----------------------------------------------------------------------------
\* The same operations by the set of seats: all that the server's invariants speak about.

Seated(s) == {s.seats[i] : i \in DOMAIN s.seats}

LEMMA SeatedFields ==
    ASSUME NEW C, NEW U, NEW s \in SessionsOver(C, U)
    PROVE  /\ \A x \in Seated(s) : /\ x \in SeatsOver(C, U) /\ x.conn \in C /\ x.user \in U
                                   /\ x.role \in Sides \cup {"spectator"}
           /\ \A c : SeatsOf(s, c) = {} <=> \A x \in Seated(s) : x.conn # c
<1>1. \A i \in DOMAIN s.seats : /\ s.seats[i] \in SeatsOver(C, U)
                                /\ s.seats[i].conn \in C /\ s.seats[i].user \in U
                                /\ s.seats[i].role \in Sides \cup {"spectator"}
  BY SessionFields
<1> QED BY <1>1 DEF Seated, SeatsOf

LEMMA SeatedOnce ==
    ASSUME NEW s, Orderly(s)
    PROVE  /\ \A x, y \in Seated(s) : x.conn = y.conn => x = y
           /\ \A x, y \in Seated(s) : x.role = y.role /\ x.role \in Sides => x = y
BY DEF Seated, Orderly

LEMMA NewSessionSeated ==
    ASSUME NEW C, NEW U
    PROVE  /\ NewSession \in SessionsOver(C, U) /\ Orderly(NewSession) /\ WellRated(NewSession)
           /\ Seated(NewSession) = {} /\ ~NewSession.over
           /\ \A side : ~Counting(NewSession, side)
BY NewSessionType DEF Seated, Counting

LEMMA PlaceSeated ==
    ASSUME NEW C, NEW U, NEW s \in SessionsOver(C, U), Orderly(s), NEW c \in C, NEW u \in U,
           \A x \in Seated(s) : x.conn # c
    PROVE  LET t == Place(s, c, u)
           IN  /\ t \in SessionsOver(C, U) /\ Orderly(t)
               /\ \E seat \in SeatsOver(C, U) :
                     /\ seat.conn = c /\ seat.user = u
                     /\ Seated(t) = Seated(s) \cup {seat}
                     /\ seat.role \in Sides => ~Counting(t, seat.role)
               /\ \A side : Counting(t, side) <=> Counting(s, side)
               /\ t.over = s.over /\ t.result = s.result /\ t.rated = s.rated
<1> DEFINE t    == Place(s, c, u)
           n    == Len(s.seats)
           role == RoleAt(Len(s.seats) + 1)
           seat == [conn |-> c, user |-> u, role |-> role]
<1>1. SeatsOf(s, c) = {}
  BY SeatedFields
<1>2. /\ t \in SessionsOver(C, U) /\ Orderly(t) /\ t.seats = Append(s.seats, seat)
      /\ t.countdowns = s.countdowns /\ t.over = s.over
      /\ t.result = s.result /\ t.rated = s.rated
      /\ role \in Sides => ~Counting(s, role)
  BY <1>1, PlaceGivesSeat
<1>3. seat.conn = c /\ seat.user = u /\ seat.role = role
  OBVIOUS
<1>4. s.seats \in Seq(SeatsOver(C, U)) /\ n \in Nat /\ DOMAIN s.seats = 1 .. n
  BY SessionFields
<1> HIDE DEF t, role, seat
<1>5. /\ DOMAIN t.seats = 1 .. n + 1 /\ t.seats[n + 1] = seat
      /\ \A i \in 1 .. n : t.seats[i] = s.seats[i]
  BY <1>2, <1>4
<1>6. \A i \in 1 .. n + 1 : i \in 1 .. n \/ i = n + 1
  BY <1>4
<1>7. n + 1 \in 1 .. n + 1 /\ \A i \in 1 .. n : i \in 1 .. n + 1
  BY <1>4
<1> HIDE DEF n
<1>8. Seated(t) = Seated(s) \cup {seat}
  BY <1>4, <1>5, <1>6, <1>7 DEF Seated
<1>9. seat \in SeatsOver(C, U)
  BY <1>2, <1>8, SeatedFields
<1>10. \A side : Counting(t, side) <=> Counting(s, side)
  BY <1>2 DEF Counting
<1> QED BY <1>2, <1>3, <1>8, <1>9, <1>10 DEF t

LEMMA ReconnectSeated ==
    ASSUME NEW C, NEW U, NEW s \in SessionsOver(C, U), Orderly(s), NEW c \in C, NEW u,
           \A x \in Seated(s) : x.conn # c, CanReconnect(s, u)
    PROVE  LET t == Reconnect(s, c, u)
           IN  /\ t \in SessionsOver(C, U) /\ Orderly(t)
               /\ \E old \in Seated(s), moved \in SeatsOver(C, U) :
                     /\ old.user = u /\ moved.user = u /\ moved.conn = c
                     /\ moved.role = old.role /\ old.role \in Sides
                     /\ Seated(t) = (Seated(s) \ {old}) \cup {moved}
                     /\ \A side \in Sides : Counting(t, side) <=>
                                               Counting(s, side) /\ side # old.role
               /\ t.over = s.over /\ t.result = s.result /\ t.rated = s.rated
<1> DEFINE t     == Reconnect(s, c, u)
           k     == SeatFor(s, u)
           old   == s.seats[k]
           moved == [old EXCEPT !.conn = c]
<1>1. SeatsOf(s, c) = {}
  BY SeatedFields
<1>2. /\ t \in SessionsOver(C, U) /\ Orderly(t)
      /\ \A i \in DOMAIN t.seats :
            \/ t.seats[i] = moved
            \/ \E j \in DOMAIN s.seats \ {k} : t.seats[i] = s.seats[j]
      /\ \E i \in DOMAIN t.seats : t.seats[i] = moved
      /\ \A j \in DOMAIN s.seats \ {k} : \E i \in DOMAIN t.seats : t.seats[i] = s.seats[j]
      /\ \A side \in Sides : Counting(t, side) <=> Counting(s, side) /\ side # old.role
      /\ t.over = s.over /\ t.result = s.result /\ t.rated = s.rated
  BY <1>1, ReconnectKeeps
<1>3. k \in DOMAIN s.seats /\ old.user = u /\ old.role \in Sides
  BY SeatFound
<1>4. old \in SeatsOver(C, U) /\ old \in Seated(s)
  BY <1>3, SessionFields DEF Seated
<1>5. \A j \in DOMAIN s.seats \ {k} : s.seats[j] # old
  BY <1>3 DEF Orderly
<1>6. old = s.seats[k]
  OBVIOUS
<1> HIDE DEF t, k, old
<1>7. moved \in SeatsOver(C, U) /\ moved.conn = c /\ moved.user = old.user /\ moved.role = old.role
  BY <1>4 DEF SeatsOver
<1> HIDE DEF moved
<1>8. Seated(t) = (Seated(s) \ {old}) \cup {moved}
  <2>1. ASSUME NEW x \in Seated(t) PROVE x = moved \/ x \in Seated(s) \ {old}
    BY <1>2, <1>5 DEF Seated
  <2>2. moved \in Seated(t)
    BY <1>2 DEF Seated
  <2>3. ASSUME NEW x \in Seated(s), x # old PROVE x \in Seated(t)
    BY <1>2, <1>6, <2>3 DEF Seated
  <2> QED BY <2>1, <2>2, <2>3
<1> QED BY <1>2, <1>3, <1>4, <1>7, <1>8 DEF t

LEMMA BeginCountdownSeated ==
    ASSUME NEW C, NEW U, NEW s \in SessionsOver(C, U), Orderly(s), NEW c
    PROVE  LET t == BeginCountdown(s, c)
           IN  /\ t \in SessionsOver(C, U) /\ Orderly(t) /\ Seated(t) = Seated(s)
               /\ t.over = s.over /\ t.result = s.result /\ t.rated = s.rated
               /\ \A side \in Sides :
                     Counting(t, side) <=> \/ Counting(s, side)
                                           \/ \E x \in Seated(s) : x.conn = c /\ x.role = side
BY BeginCountdownKeeps DEF Seated, SeatsOf

LEMMA TickSeated ==
    ASSUME NEW C, NEW U, NEW s \in SessionsOver(C, U), Orderly(s),
           NEW end \in Sides \cup {"none"}, NEW storeUp
    PROVE  LET t == TickSession(s, end, storeUp)
           IN  /\ t \in SessionsOver(C, U) /\ Orderly(t) /\ Seated(t) = Seated(s)
               /\ ~t.over => ~s.over /\ \A side \in Sides : Counting(t, side) <=> Counting(s, side)
               /\ WellRated(s) /\ storeUp = TRUE => WellRated(t)
<1> DEFINE t == TickSession(s, end, storeUp)
<1>1. /\ t \in SessionsOver(C, U) /\ Orderly(t) /\ t.seats = s.seats
      /\ s.over => t.over
      /\ ~t.over => \A side \in Sides : Counting(t, side) <=> Counting(s, side)
      /\ WellRated(s) /\ storeUp = TRUE => WellRated(t)
  BY TickKeeps, Zenon
<1> HIDE DEF t
<1>2. Seated(t) = Seated(s)
  BY <1>1 DEF Seated
<1>3. ~t.over => ~s.over /\ \A side \in Sides : Counting(t, side) <=> Counting(s, side)
  BY <1>1, Zenon
<1> QED BY <1>1, <1>2, <1>3, Zenon DEF t
=============================================================================
