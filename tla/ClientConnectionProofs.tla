----------------------- MODULE ClientConnectionProofs -----------------------
(***************************************************************************)
(* What ClientConnection guarantees for every number of requests and       *)
(* messages and every interleaving of the three threads.                   *)
(***************************************************************************)
EXTENDS ClientConnection, ListProofs

-----------------------------------------------------------------------------
\* What the server says is one of the items, and the first of some items has a place.

LEMMA SpokenDomain == DOMAIN Spoken = {"nothing", "welcome", "seat"}
BY DEF Spoken

LEMMA HeardItems ==
    ASSUME NEW when \in DOMAIN Spoken, NEW item \in Heard[when]
    PROVE  item \in Items
<1>1. \A message : ItemFor(message) \in Items
  BY DEF ItemFor, Items
<1>2. Heard[when] = {ItemFor(Wire!Decode(Payload(message, 0))) : message \in Spoken[when]}
  BY DEF Heard
<1> QED BY <1>1, <1>2

LEMMA FirstPlace ==
    ASSUME NEW queue \in Seq(Items)
    PROVE  SelectInSeq(queue, LAMBDA x : x = "closed") \in 0 .. Len(queue)
<1> DEFINE I == {i \in 1 .. Len(queue) : queue[i] = "closed"}
<1>3. I \in SUBSET Nat
  OBVIOUS
<1>1. I # {} => \E x \in I : \A y \in I : x <= y
  <2> HIDE DEF I
  <2> QED BY <1>3, LeastNatural
<1>2. I # {} => Min(I) \in I
  BY <1>1 DEF Min
<1> QED BY <1>2 DEF SelectInSeq

LEMMA DrainedLength ==
    ASSUME NEW queue \in Seq(Items)
    PROVE  Len(Drained(queue)) \in 0 .. Len(queue)
<1> DEFINE k == SelectInSeq(queue, LAMBDA x : x = "closed")
<1>1. k \in 0 .. Len(queue)
  BY FirstPlace
<1>2. Drained(queue) = IF k = 0 THEN queue ELSE SubSeq(queue, 1, k)
  BY DEF Drained
<1> HIDE DEF k
<1>3. k # 0 => Len(SubSeq(queue, 1, k)) = k
  BY <1>1
<1> QED BY <1>1, <1>2, <1>3

LEMMA PlaysCount ==
    ASSUME NEW n \in Nat, NEW set \in SUBSET (2 .. n)
    PROVE  /\ IsFiniteSet(set) /\ Cardinality(set) \in Nat
           /\ set \cup {n + 1} \in SUBSET (2 .. n + 1) \/ n = 0
           /\ Cardinality(set \cup {n + 1}) = Cardinality(set) + 1
           /\ \A part \in SUBSET set : Cardinality(part) \in Nat
                                       /\ Cardinality(part) <= Cardinality(set)
<1>1. IsFiniteSet(2 .. n)
  BY FS_Interval
<1>2. IsFiniteSet(set)
  BY <1>1, FS_Subset
<1>3. n + 1 \notin set
  OBVIOUS
<1>4. Cardinality(set \cup {n + 1}) = Cardinality(set) + 1
  BY <1>2, <1>3, FS_AddElement
<1>5. \A part \in SUBSET set : IsFiniteSet(part) /\ Cardinality(part) <= Cardinality(set)
  BY <1>2, FS_Subset
<1>6. set \cup {n + 1} \in SUBSET (2 .. n + 1) \/ n = 0
  OBVIOUS
<1> QED BY <1>2, <1>4, <1>5, <1>6, FS_CardinalityType

-----------------------------------------------------------------------------
\* Types.

LEMMA TypeInit == Init => TypeOK
<1> SUFFICES ASSUME Init PROVE TypeOK
  OBVIOUS
<1>1. Cardinality({}) = 0
  BY FS_EmptySet
<1>2. asked \in Requests /\ plays \subseteq 2 .. asked /\ unmatched \in 0 .. Cardinality(plays)
  BY <1>1, ClientAssumption DEF Init, Requests
<1>3. worker \in WorkerStates
  BY DEF Init, Idle, WorkerStates
<1>4. outbound \in Seq({Sentinel} \cup Requests)
  BY <1>2 DEF Init
<1>5. inbound \in Seq(Items) /\ sent \in Seq(Requests) /\ received \in 0 .. MaxReceived
  BY ClientAssumption DEF Init
<1> QED BY <1>2, <1>3, <1>4, <1>5 DEF Init, TypeOK, InRoom, Gone

\* The variables that only the main thread's requests change.
LEMMA TypeStep == TypeOK /\ [Next]_vars => TypeOK'
<1> SUFFICES ASSUME TypeOK, [Next]_vars PROVE TypeOK'
  OBVIOUS
<1> DEFINE Out == {Sentinel} \cup Requests
<1>1. /\ main \in {"login"} \cup InRoom \cup Gone
      /\ searching \in BOOLEAN /\ gameOver \in BOOLEAN
      /\ inbound \in Seq(Items)
      /\ outbound \in Seq(Out)
      /\ net \in {"connecting", "pumping", "ending", "dead"}
      /\ worker \in WorkerStates
      /\ link \in {"up", "clean", "error"}
      /\ said \in {"nothing", "welcome", "seat"}
      /\ asked \in Requests /\ plays \subseteq 2 .. asked
      /\ unmatched \in 0 .. Cardinality(plays)
      /\ received \in 0 .. MaxReceived
      /\ sent \in Seq(Requests)
      /\ hungUp \in BOOLEAN
  BY DEF TypeOK
<1>2. Append(outbound, Sentinel) \in Seq(Out)
  BY <1>1
<1>3. Append(inbound, "closed") \in Seq(Items)
  BY <1>1 DEF Items
<1>4. asked \in Nat /\ Cardinality(plays) \in Nat
  <2>1. asked \in Nat /\ plays \in SUBSET (2 .. asked)
    BY <1>1 DEF Requests
  <2> QED BY <2>1, PlaysCount
<1>5. ASSUME NEW raised \in BOOLEAN, EndPump(raised)
      PROVE  net' = "ending" /\ inbound' \in Seq(Items) /\ outbound' \in Seq(Out)
  BY <1>1, <1>2, <1>3, <1>5 DEF EndPump, WakeWorker
<1>6. Idle \in WorkerStates /\ Waiting \in WorkerStates
  BY DEF Idle, Waiting, WorkerStates
<1>7. CASE AwaitLogin
  <2>1. Tail(inbound) \in Seq(Items)
    BY <1>1, <1>7 DEF AwaitLogin
  <2> QED BY <1>1, <1>7, <2>1
          DEF AwaitLogin, TypeOK, askVars, netVars, InRoom, Gone
<1>8. CASE LobbyFrame
  <2>1. main' \in {"login"} \cup InRoom \cup Gone /\ searching' \in BOOLEAN /\ gameOver' \in BOOLEAN
        /\ outbound' \in Seq(Out)
    BY <1>1, <1>2, <1>8 DEF LobbyFrame, Close, InRoom, Gone
  <2> QED BY <1>1, <1>8, <2>1 DEF LobbyFrame, TypeOK, askVars, netVars
<1>9. CASE GameFrame
  <2>1. SubSeq(inbound, Len(Drained(inbound)) + 1, Len(inbound)) \in Seq(Items)
    BY <1>1, DrainedLength
  <2>2. main' \in {"login"} \cup InRoom \cup Gone /\ outbound' \in Seq(Out)
    BY <1>1, <1>2, <1>9 DEF GameFrame, Close, InRoom, Gone
  <2>3. gameOver' \in BOOLEAN
    BY <1>1, <1>9 DEF GameFrame
  <2>4. inbound' \in Seq(Items)
    BY <1>9, <2>1 DEF GameFrame
  <2> QED BY <1>1, <1>9, <2>2, <2>3, <2>4 DEF GameFrame, TypeOK, askVars, netVars
<1>10. ASSUME Put
       PROVE  /\ asked' \in Requests /\ asked' = asked + 1 /\ outbound' \in Seq(Out)
              /\ main' = main /\ gameOver' = gameOver /\ inbound' = inbound /\ worker' = worker
              /\ UNCHANGED netVars
  <2>1. asked + 1 \in Requests
    BY <1>1, <1>10, ClientAssumption DEF Put, Requests
  <2> QED BY <1>1, <1>10, <2>1 DEF Put
<1>11. CASE AskToPlay
  <2>1. plays' \subseteq 2 .. asked' /\ Cardinality(plays') = Cardinality(plays) + 1
    <3>1. plays \in SUBSET (2 .. asked) /\ asked # 0
      BY <1>1 DEF Requests
    <3>2. /\ plays \cup {asked + 1} \in SUBSET (2 .. asked + 1)
          /\ Cardinality(plays \cup {asked + 1}) = Cardinality(plays) + 1
      BY <1>4, <3>1, PlaysCount
    <3>3. plays' = plays \cup {asked + 1} /\ asked' = asked + 1
      BY <1>10, <1>11 DEF AskToPlay
    <3> QED BY <3>2, <3>3
  <2> QED BY <1>1, <1>4, <1>10, <1>11, <2>1 DEF AskToPlay, TypeOK, netVars
<1>12. CASE Ask
  BY <1>1, <1>4, <1>10, <1>12 DEF Ask, TypeOK, netVars
<1>13. CASE Leave
  BY <1>1, <1>2, <1>13 DEF Leave, Close, TypeOK, askVars, netVars, InRoom, Gone
<1>14. CASE Connect
  BY <1>1, <1>14 DEF Connect, TypeOK, mainVars, askVars
<1>15. CASE ConnectFails
  BY <1>1, <1>2, <1>15 DEF ConnectFails, WakeWorker, TypeOK, mainVars, askVars
<1>16. CASE Receive
  <2>1. PICK item \in Heard[said] :
            /\ item = "unmatched" => unmatched < Cardinality(plays \cap Range(sent))
            /\ inbound' = Append(inbound, item)
            /\ said' = SaidThen(item)
            /\ unmatched' = unmatched + (IF item = "unmatched" THEN 1 ELSE 0)
    BY <1>16 DEF Receive
  <2>2. item \in Items
    BY <1>1, <2>1, SpokenDomain, HeardItems
  <2>3. plays \cap Range(sent) \in SUBSET plays
    OBVIOUS
  <2>4. /\ Cardinality(plays \cap Range(sent)) \in Nat
        /\ Cardinality(plays \cap Range(sent)) <= Cardinality(plays)
    BY <1>1, <1>4, <2>3, PlaysCount
  <2>5. unmatched' \in 0 .. Cardinality(plays)
    BY <1>1, <1>4, <2>1, <2>4
  <2>6. inbound' \in Seq(Items) /\ said' \in {"nothing", "welcome", "seat"}
    BY <1>1, <2>1, <2>2 DEF SaidThen
  <2>7. received' \in 0 .. MaxReceived
    BY <1>1, <1>16, ClientAssumption DEF Receive
  <2>8. UNCHANGED <<mainVars, outbound, worker, net, link, sent, hungUp>>
    BY <1>16 DEF Receive
  <2> QED BY <1>1, <2>5, <2>6, <2>7, <2>8 DEF TypeOK, mainVars, askVars
<1>17. CASE ReceiveEnds
  <2>1. EndPump(link = "error")
    BY <1>17 DEF ReceiveEnds
  <2>2. net' = "ending" /\ inbound' \in Seq(Items) /\ outbound' \in Seq(Out)
    BY <1>5, <2>1
  <2> QED BY <1>1, <1>17, <2>2 DEF ReceiveEnds, TypeOK, mainVars, askVars
<1>18. ASSUME NEW how \in {"clean", "error"}, PeerCloses(how) PROVE TypeOK'
  BY <1>1, <1>18 DEF PeerCloses, TypeOK, mainVars, askVars
<1>19. CASE AskWorker
  BY <1>1, <1>6, <1>19 DEF AskWorker, TypeOK, mainVars, netVars, askVars
<1>20. CASE WorkerGets
  <2>1. worker' = [at |-> "taken", item |-> Head(outbound)] /\ outbound' = Tail(outbound)
    BY <1>20 DEF WorkerGets, Got, Taken
  <2>2. Head(outbound) \in Out /\ Tail(outbound) \in Seq(Out)
    BY <1>1, <1>20 DEF WorkerGets
  <2>3. worker' \in WorkerStates
    BY <2>1, <2>2 DEF WorkerStates
  <2> QED BY <1>1, <1>20, <2>1, <2>2, <2>3 DEF WorkerGets, TypeOK, mainVars, netVars, askVars
<1>21. CASE Send
  <2>1. worker.item \in Requests
    BY <1>1, <1>21 DEF Send, WorkerStates
  <2>2. /\ net' \in {"connecting", "pumping", "ending", "dead"} /\ inbound' \in Seq(Items)
        /\ outbound' \in Seq(Out) /\ sent' \in Seq(Requests)
    <3>1. CASE sent' = Append(sent, worker.item) /\ UNCHANGED <<inbound, outbound, net>>
      BY <1>1, <2>1, <3>1
    <3>2. CASE EndPump(TRUE) /\ sent' = sent
      BY <1>1, <1>5, <3>2
    <3> QED BY <1>21, <3>1, <3>2 DEF Send
  <2> QED BY <1>1, <1>6, <1>21, <2>2 DEF Send, TypeOK, mainVars, askVars
<1>22. CASE HangUp
  <2>1. PICK raised \in {FALSE, link = "error"} : EndPump(raised)
    BY <1>22 DEF HangUp
  <2>2. net' = "ending" /\ inbound' \in Seq(Items) /\ outbound' \in Seq(Out)
    BY <1>5, <2>1
  <2> QED BY <1>1, <1>6, <1>22, <2>2 DEF HangUp, TypeOK, mainVars, askVars
<1>23. CASE ThreadEnds
  BY <1>1, <1>23 DEF ThreadEnds, TypeOK, mainVars, askVars
<1>24. CASE UNCHANGED vars
  BY <1>1, <1>24 DEF vars, TypeOK, askVars
<1> QED BY <1>7, <1>8, <1>9, <1>11, <1>12, <1>13, <1>14, <1>15, <1>16, <1>17, <1>18, <1>19, <1>20,
           <1>21, <1>22, <1>23, <1>24 DEF Next

\* Every variable of the client keeps its type: the queues hold items and requests only, and
\* MatchNotFound is heard no more often than PlayIntents were put.
THEOREM ClientTypeCorrect == Spec => []TypeOK
BY TypeInit, TypeStep, PTL DEF Spec

-----------------------------------------------------------------------------
\* The queue of requests.  While the pump runs, what the server has (sent), what the worker
\* holds and what is queued are together 1 .. asked, in that order, and behind them the
\* sentinel once the main thread has closed.  Nobody reads the queue after that.

Pumping      == net \in {"connecting", "pumping"}
Closing      == main \in {"lost", "left"}
SentinelHeld == worker = Taken(Sentinel)
Held         == IF worker.at = "taken" /\ worker.item # Sentinel THEN 1 ELSE 0
Fetched      == Len(sent) + Held
Queued       == (asked - Fetched) + (IF Closing /\ ~SentinelHeld THEN 1 ELSE 0)

QueueInv ==
    /\ SentInOrder
    /\ NothingUnsentAtHangUp
    /\ Pumping =>
          /\ ~hungUp
          /\ Fetched <= asked
          /\ Held = 1 => worker.item = Fetched
          /\ SentinelHeld => Closing /\ Fetched = asked
          /\ Len(outbound) = Queued
          /\ \A i \in 1 .. Len(outbound) :
                outbound[i] = IF Fetched + i <= asked THEN Fetched + i ELSE Sentinel

LEMMA QueueInit == Init => QueueInv
<1> SUFFICES ASSUME Init PROVE QueueInv
  OBVIOUS
<1>1. Fetched = 0 /\ Held = 0 /\ ~SentinelHeld /\ ~Closing
  BY DEF Init, Fetched, Held, SentinelHeld, Closing, Idle, Taken
<1>2. Len(outbound) = 1 /\ outbound[1] = 1 /\ Queued = 1
  BY <1>1 DEF Init, Queued
<1>3. SentInOrder
  BY DEF Init, SentInOrder
<1> QED BY <1>1, <1>2, <1>3 DEF QueueInv, NothingUnsentAtHangUp, Init

\* A step that leaves the queue and what was taken from it alone, or ends the pump.
LEMMA QueueQuiet ==
    ASSUME QueueInv, UNCHANGED <<sent, hungUp, asked>>, main \in Gone => main' \in Gone,
           Pumping' => /\ Pumping /\ outbound' = outbound
                       /\ Held' = Held /\ SentinelHeld' = SentinelHeld /\ Closing' = Closing
                       /\ worker'.item = worker.item
    PROVE  QueueInv'
<1>1. SentInOrder' /\ NothingUnsentAtHangUp'
  BY DEF QueueInv, SentInOrder, NothingUnsentAtHangUp
<1>2. ASSUME Pumping' PROVE Fetched' = Fetched /\ Queued' = Queued
  BY <1>2 DEF Fetched, Queued
<1> QED BY <1>1, <1>2 DEF QueueInv

\* The main thread closes: it had not closed before.
LEMMA QueueCloses ==
    ASSUME TypeOK, QueueInv, main \in InRoom, main' \in {"lost", "left"}, Close,
           UNCHANGED <<worker, net, sent, hungUp, asked>>
    PROVE  QueueInv'
<1>1. ~hungUp
  BY DEF QueueInv, NothingUnsentAtHangUp, InRoom, Gone
<1>2. SentInOrder' /\ NothingUnsentAtHangUp'
  BY <1>1 DEF QueueInv, SentInOrder, NothingUnsentAtHangUp
<1>3. ~Closing /\ Closing' /\ Held' = Held /\ SentinelHeld' = SentinelHeld /\ Fetched' = Fetched
      /\ Pumping' = Pumping
  BY DEF Closing, InRoom, Held, SentinelHeld, Fetched, Pumping
<1>4. asked \in Nat /\ Fetched \in Nat
  BY DEF TypeOK, Requests, Fetched, Held
<1>5. ASSUME Pumping
      PROVE  /\ ~SentinelHeld /\ Len(outbound) = asked - Fetched
             /\ Len(outbound') = Len(outbound) + 1
             /\ \A i \in 1 .. Len(outbound) : outbound'[i] = outbound[i]
             /\ outbound'[Len(outbound) + 1] = Sentinel
  <2>1. ~SentinelHeld /\ Len(outbound) = asked - Fetched
    BY <1>3, <1>4, <1>5 DEF QueueInv, Queued
  <2> QED BY <2>1 DEF Close, TypeOK
<1>6. ASSUME Pumping
      PROVE  /\ Len(outbound') = Queued'
             /\ \A i \in 1 .. Len(outbound') :
                   outbound'[i] = IF Fetched + i <= asked THEN Fetched + i ELSE Sentinel
  <2>1. Len(outbound') = Queued'
    BY <1>3, <1>4, <1>5, <1>6 DEF Queued
  <2>2. ASSUME NEW i \in 1 .. Len(outbound')
        PROVE  outbound'[i] = IF Fetched + i <= asked THEN Fetched + i ELSE Sentinel
    <3>1. CASE i \in 1 .. Len(outbound)
      BY <1>5, <1>6, <3>1 DEF QueueInv
    <3>2. CASE i = Len(outbound) + 1
      BY <1>4, <1>5, <1>6, <3>2
    <3> QED BY <1>4, <1>5, <1>6, <2>2, <3>1, <3>2
  <2> QED BY <2>1, <2>2
<1> QED BY <1>1, <1>2, <1>3, <1>5, <1>6 DEF QueueInv

\* The main thread asks for something: it has not closed.
LEMMA QueueAsks ==
    ASSUME TypeOK, QueueInv, main \in {"lobby", "game"}, Put, UNCHANGED <<net, sent, hungUp>>
    PROVE  QueueInv'
<1>1. ~hungUp
  BY DEF QueueInv, NothingUnsentAtHangUp, Gone
<1>2. SentInOrder' /\ NothingUnsentAtHangUp'
  BY <1>1 DEF QueueInv, SentInOrder, NothingUnsentAtHangUp
<1>3. /\ ~Closing /\ ~Closing' /\ Held' = Held /\ SentinelHeld' = SentinelHeld
      /\ Fetched' = Fetched /\ Pumping' = Pumping /\ asked' = asked + 1 /\ worker' = worker
  BY DEF Closing, Held, SentinelHeld, Fetched, Pumping, Put
<1>4. asked \in Nat /\ Fetched \in Nat
  BY DEF TypeOK, Requests, Fetched, Held
<1>5. ASSUME Pumping
      PROVE  /\ ~SentinelHeld /\ Len(outbound) = asked - Fetched
             /\ Len(outbound') = Len(outbound) + 1
             /\ \A i \in 1 .. Len(outbound) : outbound'[i] = outbound[i]
             /\ outbound'[Len(outbound) + 1] = asked + 1
  <2>1. ~SentinelHeld /\ Len(outbound) = asked - Fetched
    BY <1>3, <1>4, <1>5 DEF QueueInv, Queued
  <2> QED BY <2>1 DEF Put, TypeOK
<1>6. ASSUME Pumping
      PROVE  /\ Len(outbound') = Queued'
             /\ \A i \in 1 .. Len(outbound') :
                   outbound'[i] = IF Fetched + i <= asked + 1 THEN Fetched + i ELSE Sentinel
  <2>1. Len(outbound') = Queued'
    BY <1>3, <1>4, <1>5, <1>6 DEF Queued
  <2>2. ASSUME NEW i \in 1 .. Len(outbound')
        PROVE  outbound'[i] = IF Fetched + i <= asked + 1 THEN Fetched + i ELSE Sentinel
    <3>1. CASE i \in 1 .. Len(outbound)
      <4>1. outbound[i] = IF Fetched + i <= asked THEN Fetched + i ELSE Sentinel
        BY <1>6, <3>1 DEF QueueInv
      <4> QED BY <1>4, <1>5, <1>6, <3>1, <4>1
    <3>2. CASE i = Len(outbound) + 1
      BY <1>4, <1>5, <1>6, <3>2
    <3> QED BY <1>4, <1>5, <1>6, <2>2, <3>1, <3>2
  <2> QED BY <2>1, <2>2
<1>7. Pumping => Fetched <= asked /\ (Held = 1 => worker.item = Fetched)
  BY DEF QueueInv
<1> QED BY <1>1, <1>2, <1>3, <1>4, <1>5, <1>6, <1>7 DEF QueueInv

\* The worker takes the next request, or the sentinel behind the last one.
LEMMA QueueGets ==
    ASSUME TypeOK, QueueInv, WorkerGets
    PROVE  QueueInv'
<1>1. /\ worker = Waiting /\ Len(outbound) # 0
      /\ worker' = Taken(Head(outbound)) /\ outbound' = Tail(outbound)
      /\ UNCHANGED <<mainVars, inbound, netVars>>
  BY DEF WorkerGets, Got, TypeOK
<1>2. UNCHANGED <<main, asked, net, sent, hungUp>>
  BY <1>1 DEF mainVars, askVars, netVars
<1>3. SentInOrder' /\ NothingUnsentAtHangUp' /\ Pumping' = Pumping /\ Closing' = Closing
  BY <1>2 DEF QueueInv, SentInOrder, NothingUnsentAtHangUp, Pumping, Closing
<1>4. Held = 0 /\ ~SentinelHeld /\ Fetched = Len(sent)
  BY <1>1 DEF Held, SentinelHeld, Fetched, Waiting, Taken, TypeOK
<1>5. asked \in Nat /\ Len(sent) \in Nat /\ Len(outbound) \in Nat
      /\ Len(outbound') = Len(outbound) - 1
      /\ \A i \in 1 .. Len(outbound) - 1 : outbound'[i] = outbound[i + 1]
      /\ Head(outbound) = outbound[1]
  BY <1>1 DEF TypeOK, Requests
<1>6. SUFFICES ASSUME Pumping PROVE QueueInv'
  BY <1>3 DEF QueueInv
<1>7. ~hungUp /\ Fetched <= asked /\ Len(outbound) = Queued
      /\ \A i \in 1 .. Len(outbound) :
            outbound[i] = IF Fetched + i <= asked THEN Fetched + i ELSE Sentinel
  BY <1>6 DEF QueueInv
<1>8. CASE Fetched + 1 <= asked
  <2>1. Head(outbound) = Fetched + 1 /\ Head(outbound) # Sentinel
    BY <1>1, <1>4, <1>5, <1>7, <1>8 DEF Sentinel
  <2>2. Held' = 1 /\ worker'.item = Fetched + 1 /\ ~SentinelHeld' /\ Fetched' = Fetched + 1
    BY <1>1, <1>2, <1>4, <1>5, <2>1 DEF Held, SentinelHeld, Fetched, Taken
  <2>3. Len(outbound') = Queued'
    BY <1>2, <1>3, <1>4, <1>5, <1>7, <2>2 DEF Queued
  <2>4. \A i \in 1 .. Len(outbound') :
           outbound'[i] = IF Fetched' + i <= asked THEN Fetched' + i ELSE Sentinel
    BY <1>4, <1>5, <1>7, <2>2
  <2> QED BY <1>2, <1>3, <1>7, <1>8, <2>2, <2>3, <2>4 DEF QueueInv
<1>9. CASE ~(Fetched + 1 <= asked)
  <2>1. Head(outbound) = Sentinel /\ Fetched = asked /\ Closing /\ Len(outbound) = 1
    BY <1>1, <1>4, <1>5, <1>7, <1>9 DEF Queued
  <2>2. Held' = 0 /\ SentinelHeld' /\ Fetched' = Fetched
    BY <1>1, <1>2, <1>4, <1>5, <2>1 DEF Held, SentinelHeld, Fetched, Taken
  <2>3. Len(outbound') = 0 /\ Queued' = 0
    BY <1>2, <1>4, <1>5, <2>1, <2>2 DEF Queued
  <2> QED BY <1>2, <1>3, <1>4, <1>5, <1>7, <2>1, <2>2, <2>3 DEF QueueInv
<1> QED BY <1>8, <1>9

\* What the worker holds goes to the server, or the pump ends.
LEMMA QueueSends ==
    ASSUME TypeOK, QueueInv, Send
    PROVE  QueueInv'
<1>1. /\ net = "pumping" /\ worker.at = "taken" /\ worker.item # Sentinel /\ worker' = Idle
      /\ UNCHANGED <<main, asked, hungUp>>
  BY DEF Send, mainVars, askVars
<1>2. Pumping /\ Held = 1 /\ Fetched = Len(sent) + 1 /\ ~SentinelHeld
  BY <1>1 DEF Pumping, Held, Fetched, SentinelHeld, Taken
<1>3. Held' = 0 /\ ~SentinelHeld' /\ Closing' = Closing
  BY <1>1 DEF Held, SentinelHeld, Idle, Taken, Closing
<1>4. Len(sent) \in Nat /\ asked \in Nat
  BY DEF TypeOK, Requests
<1>5. ~hungUp /\ Fetched <= asked /\ worker.item = Fetched /\ Len(outbound) = Queued
      /\ \A i \in 1 .. Len(outbound) :
            outbound[i] = IF Fetched + i <= asked THEN Fetched + i ELSE Sentinel
  BY <1>2 DEF QueueInv
<1>6. CASE sent' = Append(sent, worker.item) /\ UNCHANGED <<inbound, outbound, net>>
  <2>1. Len(sent') = Len(sent) + 1 /\ Fetched' = Fetched /\ Queued' = Queued
    <3>1. Len(sent') = Len(sent) + 1
      BY <1>6 DEF TypeOK
    <3>2. Fetched' = Len(sent) + 1
      BY <1>3, <1>4, <3>1 DEF Fetched
    <3>3. Fetched' = Fetched
      BY <1>2, <3>2
    <3> QED BY <1>1, <1>2, <1>3, <3>1, <3>3 DEF Queued
  <2>2. sent = [i \in 1 .. Len(sent) |-> i]
    BY DEF QueueInv, SentInOrder
  <2>3. sent' = [i \in 1 .. Len(sent) + 1 |-> i]
    BY <1>2, <1>4, <1>5, <1>6, <2>2 DEF TypeOK
  <2>4. SentInOrder' /\ NothingUnsentAtHangUp' /\ Pumping' /\ ~hungUp'
    BY <1>1, <1>2, <1>5, <1>6, <2>1, <2>3 DEF SentInOrder, NothingUnsentAtHangUp, Pumping
  <2> QED BY <1>1, <1>3, <1>5, <1>6, <2>1, <2>4 DEF QueueInv
<1>7. CASE EndPump(TRUE) /\ sent' = sent
  <2>1. ~Pumping'
    BY <1>7 DEF EndPump, Pumping
  <2> QED BY <1>1, <1>7, <2>1, QueueQuiet
<1> QED BY <1>6, <1>7 DEF Send

LEMMA QueueStep == TypeOK /\ QueueInv /\ [Next]_vars => QueueInv'
<1> SUFFICES ASSUME TypeOK, QueueInv, [Next]_vars PROVE QueueInv'
  OBVIOUS
<1> USE DEF mainVars, askVars, netVars
<1>1. ASSUME UNCHANGED <<sent, hungUp, asked, main, net, worker, outbound>> PROVE QueueInv'
  <2>1. Pumping' => Pumping /\ Held' = Held /\ SentinelHeld' = SentinelHeld /\ Closing' = Closing
    BY <1>1 DEF Pumping, Held, SentinelHeld, Closing
  <2> QED BY <1>1, <2>1, QueueQuiet
<1>2. ASSUME UNCHANGED <<sent, hungUp, asked, main>>, ~Pumping' PROVE QueueInv'
  BY <1>2, QueueQuiet
<1>3. CASE AwaitLogin
  <2>1. Pumping' => Pumping /\ Held' = Held /\ SentinelHeld' = SentinelHeld /\ Closing' = Closing
    BY <1>3 DEF AwaitLogin, Pumping, Held, SentinelHeld, Closing
  <2>2. main \notin Gone
    BY <1>3 DEF AwaitLogin, Gone
  <2> QED BY <1>3, <2>1, <2>2, QueueQuiet DEF AwaitLogin
<1>4. ASSUME UNCHANGED <<sent, hungUp, asked, net, worker, outbound>>,
             main \in InRoom, main' \in InRoom
      PROVE  QueueInv'
  <2>1. Pumping' => Pumping /\ Held' = Held /\ SentinelHeld' = SentinelHeld /\ Closing' = Closing
    BY <1>4 DEF Pumping, Held, SentinelHeld, Closing, InRoom
  <2>2. main \notin Gone
    BY <1>4 DEF InRoom, Gone
  <2> QED BY <1>4, <2>1, <2>2, QueueQuiet
<1>5. CASE LobbyFrame
  <2>1. main \in InRoom /\ UNCHANGED <<sent, hungUp, asked, net, worker>>
    BY <1>5 DEF LobbyFrame, InRoom
  <2>2. \/ main' \in InRoom /\ UNCHANGED outbound
        \/ main' \in {"lost", "left"} /\ Close
    BY <1>5, <2>1 DEF LobbyFrame, InRoom
  <2> QED BY <1>4, <2>1, <2>2, QueueCloses
<1>6. CASE GameFrame
  <2>1. main \in InRoom /\ UNCHANGED <<sent, hungUp, asked, net, worker>>
    BY <1>6 DEF GameFrame, InRoom
  <2>2. \/ main' \in InRoom /\ UNCHANGED outbound
        \/ main' \in {"lost", "left"} /\ Close
    BY <1>6, <2>1 DEF GameFrame, InRoom
  <2> QED BY <1>4, <2>1, <2>2, QueueCloses
<1>7. CASE AskToPlay
  BY <1>7, QueueAsks DEF AskToPlay, Put
<1>8. CASE Ask
  BY <1>8, QueueAsks DEF Ask, Put
<1>9. CASE Leave
  BY <1>9, QueueCloses DEF Leave
<1>10. CASE Connect
  <2>1. Pumping' => Pumping /\ Held' = Held /\ SentinelHeld' = SentinelHeld /\ Closing' = Closing
    BY <1>10 DEF Connect, Pumping, Held, SentinelHeld, Closing
  <2> QED BY <1>10, <2>1, QueueQuiet DEF Connect
<1>11. CASE ConnectFails
  BY <1>2, <1>11 DEF ConnectFails, Pumping
<1>12. CASE Receive
  BY <1>1, <1>12 DEF Receive
<1>13. CASE ReceiveEnds
  BY <1>2, <1>13 DEF ReceiveEnds, EndPump, Pumping
<1>14. ASSUME NEW how \in {"clean", "error"}, PeerCloses(how) PROVE QueueInv'
  BY <1>1, <1>14 DEF PeerCloses
<1>15. CASE AskWorker
  <2>1. Held' = Held /\ SentinelHeld' = SentinelHeld /\ worker'.item = worker.item
    BY <1>15 DEF AskWorker, Held, SentinelHeld, Idle, Waiting, Taken
  <2>2. Pumping' => Pumping /\ Closing' = Closing
    BY <1>15 DEF AskWorker, Pumping, Closing
  <2> QED BY <1>15, <2>1, <2>2, QueueQuiet DEF AskWorker
<1>16. CASE WorkerGets
  BY <1>16, QueueGets
<1>17. CASE Send
  BY <1>17, QueueSends
<1>18. CASE HangUp
  <2>1. Pumping /\ SentinelHeld /\ ~Pumping' /\ UNCHANGED <<sent, asked, main>>
    BY <1>18 DEF HangUp, EndPump, Pumping, SentinelHeld
  <2>2. Held = 0
    BY <2>1 DEF SentinelHeld, Held, Taken
  <2>3. Closing /\ Len(sent) = asked
    BY <2>1, <2>2 DEF QueueInv, Fetched, TypeOK
  <2>4. SentInOrder' /\ NothingUnsentAtHangUp'
    BY <2>1, <2>3 DEF QueueInv, SentInOrder, NothingUnsentAtHangUp, Closing, Gone
  <2> QED BY <2>1, <2>4 DEF QueueInv
<1>19. CASE ThreadEnds
  BY <1>2, <1>19 DEF ThreadEnds, Pumping
<1>20. CASE UNCHANGED vars
  BY <1>1, <1>20 DEF vars
<1> QED BY <1>3, <1>5, <1>6, <1>7, <1>8, <1>9, <1>10, <1>11, <1>12, <1>13, <1>14, <1>15, <1>16, <1>17,
           <1>18, <1>19, <1>20 DEF Next

\* The inductive invariant of the queue of requests.
THEOREM QueueInvariant == Spec => []QueueInv
<1>1. TypeOK /\ QueueInv /\ [Next]_vars => QueueInv'
  BY QueueStep
<1> QED BY <1>1, QueueInit, ClientTypeCorrect, PTL DEF Spec

\* The requests reach the server in the order of the clicks, none twice and none left out,
\* through the queue, the worker's thread and the event loop (_send).
THEOREM RequestsStayInOrder == Spec => []SentInOrder
<1>1. QueueInv => SentInOrder
  BY DEF QueueInv
<1> QED BY <1>1, QueueInvariant, PTL

\* Only a main thread that is done makes the client close the connection, and only when all
\* that was asked has been sent: neither close's sentinel nor the one of the finally clause
\* overtakes a request.
THEOREM HangUpComesLast == Spec => []NothingUnsentAtHangUp
<1>1. QueueInv => NothingUnsentAtHangUp
  BY DEF QueueInv
<1> QED BY <1>1, QueueInvariant, PTL

-----------------------------------------------------------------------------
\* The lobby's search.  A PlayIntent the server has not answered is the last one, and while
\* a lobby that does not search is shown none is open: an answer that is still in the queue
\* has the view searching until the frame that reads it.

Answered == Cardinality(plays) = unmatched

AnswerQueued == \E i \in 1 .. Len(inbound) : inbound[i] = "unmatched"

SearchInv ==
    /\ OneSearchAtATime
    /\ main = "login" => plays = {} /\ ~searching
    /\ main \in {"login", "lobby"} /\ ~searching => Answered /\ ~AnswerQueued
    /\ main \in {"login", "lobby"} /\ AnswerQueued => Answered

LEMMA SearchInit == Init => SearchInv
BY FS_EmptySet DEF Init, SearchInv, OneSearchAtATime, Answered, AnswerQueued

LEMMA SearchStep == TypeOK /\ SearchInv /\ [Next]_vars => SearchInv'
<1> SUFFICES ASSUME TypeOK, SearchInv, [Next]_vars PROVE SearchInv'
  OBVIOUS
<1> USE DEF mainVars, askVars, netVars
<1>1. /\ asked \in Nat /\ asked # 0 /\ plays \in SUBSET (2 .. asked)
      /\ Cardinality(plays) \in Nat /\ unmatched \in 0 .. Cardinality(plays)
      /\ inbound \in Seq(Items)
  <2>1. asked \in Nat /\ asked # 0 /\ plays \in SUBSET (2 .. asked)
    BY DEF TypeOK, Requests
  <2> QED BY <2>1, PlaysCount DEF TypeOK
<1>2. ASSUME UNCHANGED <<plays, unmatched>>, main' \notin {"login", "lobby"} PROVE SearchInv'
  BY <1>2 DEF SearchInv, OneSearchAtATime
<1>3. ASSUME UNCHANGED <<plays, unmatched, main, searching>>, AnswerQueued' => AnswerQueued
      PROVE  SearchInv'
  BY <1>3 DEF SearchInv, OneSearchAtATime, Answered
<1>4. CASE AwaitLogin
  <2>1. main = "login" /\ UNCHANGED <<plays, unmatched, searching>> /\ inbound' = Tail(inbound)
        /\ inbound # <<>> /\ main' # "over"
    BY <1>4 DEF AwaitLogin
  <2>2. ~searching /\ plays = {} /\ Answered /\ ~AnswerQueued
    BY <2>1 DEF SearchInv
  <2>3. ~AnswerQueued'
    BY <1>1, <2>1, <2>2 DEF AnswerQueued
  <2> QED BY <2>1, <2>2, <2>3 DEF SearchInv, OneSearchAtATime, Answered
<1>5. CASE LobbyFrame
  <2>1. UNCHANGED <<plays, unmatched>> /\ inbound' = <<>> /\ main = "lobby"
    BY <1>5 DEF LobbyFrame
  <2>2. \/ main' \notin {"login", "lobby"}
        \/ main' = "lobby" /\ searching' = (searching /\ ~SearchEnds(inbound))
    BY <1>5, <2>1 DEF LobbyFrame
  <2>3. CASE main' = "lobby" /\ searching' = (searching /\ ~SearchEnds(inbound))
    <3>1. SearchEnds(inbound) = AnswerQueued
      BY DEF SearchEnds, Contains, AnswerQueued
    <3>2. ~AnswerQueued'
      BY <2>1 DEF AnswerQueued
    <3>3. ~searching' => Answered
      BY <2>1, <2>3, <3>1 DEF SearchInv
    <3> QED BY <2>1, <2>3, <3>2, <3>3 DEF SearchInv, OneSearchAtATime, Answered
  <2> QED BY <1>2, <2>1, <2>2, <2>3
<1>6. CASE GameFrame
  <2>1. UNCHANGED <<plays, unmatched>> /\ main' \notin {"login", "lobby"}
    BY <1>6 DEF GameFrame
  <2> QED BY <1>2, <2>1
<1>7. CASE AskToPlay
  <2>1. /\ main = "lobby" /\ main' = "lobby" /\ ~searching /\ searching' = TRUE
        /\ plays' = plays \cup {asked + 1} /\ UNCHANGED <<unmatched, inbound>>
    BY <1>7 DEF AskToPlay, Put
  <2>2. Answered /\ ~AnswerQueued
    BY <2>1 DEF SearchInv
  <2>3. Cardinality(plays') = Cardinality(plays) + 1
    BY <1>1, <2>1, PlaysCount
  <2>4. ~AnswerQueued'
    BY <2>1, <2>2 DEF AnswerQueued
  <2> QED BY <1>1, <2>1, <2>2, <2>3, <2>4 DEF SearchInv, OneSearchAtATime, Answered
<1>8. CASE Ask
  BY <1>3, <1>8 DEF Ask, Put, AnswerQueued
<1>9. CASE Leave
  BY <1>2, <1>9 DEF Leave
<1>10. ASSUME UNCHANGED <<plays, unmatched, main, searching>>,
              inbound' = inbound \/ inbound' = Append(inbound, "closed")
       PROVE  SearchInv'
  <2>1. AnswerQueued' => AnswerQueued
    BY <1>1, <1>10 DEF AnswerQueued
  <2> QED BY <1>3, <1>10, <2>1
<1>11. CASE Connect \/ ConnectFails \/ AskWorker \/ WorkerGets \/ ThreadEnds
  BY <1>10, <1>11 DEF Connect, ConnectFails, AskWorker, WorkerGets, ThreadEnds
<1>12. CASE ReceiveEnds \/ Send \/ HangUp
  BY <1>10, <1>12 DEF ReceiveEnds, Send, HangUp, EndPump
<1>13. ASSUME NEW how \in {"clean", "error"}, PeerCloses(how) PROVE SearchInv'
  BY <1>10, <1>13 DEF PeerCloses
<1>14. CASE Receive
  <2>1. PICK item \in Heard[said] :
            /\ item = "unmatched" => unmatched < Cardinality(plays \cap Range(sent))
            /\ inbound' = Append(inbound, item)
            /\ unmatched' = unmatched + (IF item = "unmatched" THEN 1 ELSE 0)
    BY <1>14 DEF Receive
  <2>2. UNCHANGED <<plays, main, searching>>
    BY <1>14 DEF Receive
  <2>3. CASE item # "unmatched"
    <3>1. AnswerQueued' => AnswerQueued
      BY <1>1, <2>1, <2>3 DEF AnswerQueued
    <3>2. unmatched' = unmatched
      BY <1>1, <2>1, <2>3
    <3> QED BY <1>3, <2>2, <3>1, <3>2
  <2>4. CASE item = "unmatched"
    <3>1. plays \cap Range(sent) \in SUBSET plays
      OBVIOUS
    <3>2. /\ Cardinality(plays \cap Range(sent)) \in Nat
          /\ Cardinality(plays \cap Range(sent)) <= Cardinality(plays)
      BY <1>1, <3>1, PlaysCount
    <3>3. unmatched < Cardinality(plays) /\ Cardinality(plays) <= unmatched + 1
      BY <1>1, <2>1, <2>4, <3>2 DEF SearchInv, OneSearchAtATime
    <3>4. Answered' /\ OneSearchAtATime'
      BY <1>1, <2>1, <2>2, <2>4, <3>3 DEF Answered, OneSearchAtATime
    <3>5. main \in {"login", "lobby"} => main = "lobby" /\ searching
      BY <1>1, <3>3, FS_EmptySet DEF SearchInv, Answered
    <3> QED BY <2>2, <3>4, <3>5 DEF SearchInv
  <2> QED BY <2>3, <2>4
<1>15. CASE UNCHANGED vars
  BY <1>10, <1>15 DEF vars
<1> QED BY <1>4, <1>5, <1>6, <1>7, <1>8, <1>9, <1>11, <1>12, <1>13, <1>14, <1>15 DEF Next

\* The inductive invariant of the lobby's search.
THEOREM SearchInvariant == Spec => []SearchInv
<1>1. TypeOK /\ SearchInv /\ [Next]_vars => SearchInv'
  BY SearchStep
<1> QED BY <1>1, SearchInit, ClientTypeCorrect, PTL DEF Spec

\* The client never has two searches open: the Play button is shown again only when the
\* answer to the last PlayIntent has been read, never for another notice (LobbyView).
THEOREM SearchesOneByOne == Spec => []OneSearchAtATime
<1>1. SearchInv => OneSearchAtATime
  BY DEF SearchInv
<1> QED BY <1>1, SearchInvariant, PTL

-----------------------------------------------------------------------------
\* The wire.  A message is faithful if its type is in the registry, it has exactly the
\* fields of its type, and each value survives its codec.

FieldsFor(message) == Wire!FieldsOf[message.type]

Survives(codec, v) == Wire!FieldIn(codec, Wire!FieldOut(codec, v)) = v

Faithful(message) ==
    /\ message.type \in Wire!MessageTypes
    /\ "type" \notin DOMAIN FieldsFor(message)
    /\ message = [f \in {"type"} \cup DOMAIN FieldsFor(message) |-> message[f]]
    /\ \A f \in DOMAIN FieldsFor(message) : Survives(FieldsFor(message)[f], message[f])

\* A payload that carries a message, whatever else it carries.
Carries(payload, message) ==
    /\ payload.type = message.type
    /\ \A f \in DOMAIN FieldsFor(message) :
          /\ f \in DOMAIN payload
          /\ payload[f] = Wire!FieldOut(FieldsFor(message)[f], message[f])

LEMMA EncodeCarries ==
    ASSUME NEW message, Faithful(message)
    PROVE  /\ Carries(Wire!Encode(message), message)
           /\ DOMAIN Wire!Encode(message) = {"type"} \cup DOMAIN FieldsFor(message)
<1> DEFINE F == FieldsFor(message)
<1>1. Wire!Encode(message) =
         [f \in {"type"} \cup DOMAIN F |->
             IF f = "type" THEN message.type ELSE Wire!FieldOut(F[f], message[f])]
  BY DEF Wire!Encode, FieldsFor
<1>2. "type" \notin DOMAIN F
  BY DEF Faithful
<1> QED BY <1>1, <1>2 DEF Carries

LEMMA ClockRidesAlong ==
    ASSUME NEW message, Faithful(message), "clock_ms" \notin DOMAIN FieldsFor(message), NEW clock
    PROVE  /\ Carries(Wire!EncodeSnapshot(message, clock), message)
           /\ Wire!EncodeSnapshot(message, clock).clock_ms = clock
<1> DEFINE w == Wire!Encode(message)
<1>1. Wire!EncodeSnapshot(message, clock) =
         [f \in {"clock_ms"} \cup DOMAIN w |-> IF f = "clock_ms" THEN clock ELSE w[f]]
  BY DEF Wire!EncodeSnapshot
<1>2. Carries(w, message) /\ DOMAIN w = {"type"} \cup DOMAIN FieldsFor(message)
  BY EncodeCarries
<1> HIDE DEF w
<1> QED BY <1>1, <1>2 DEF Carries

LEMMA DecodeReturns ==
    ASSUME NEW message, NEW payload, Faithful(message), Carries(payload, message)
    PROVE  /\ Wire!Decode(payload) = message
           /\ message.type # "JoinRoomIntent" => Wire!Decodes(payload)
<1> DEFINE F == FieldsFor(message)
<1>1. F = Wire!FieldsOf[payload.type]
  BY DEF Carries, FieldsFor
<1>2. Wire!Decode(payload) =
         [f \in {"type"} \cup DOMAIN F |->
             IF f = "type" THEN payload.type
             ELSE IF f \notin DOMAIN payload THEN Wire!None
             ELSE Wire!FieldIn(F[f], payload[f])]
  BY <1>1 DEF Wire!Decode
<1>3. \A f \in DOMAIN F : Wire!FieldIn(F[f], payload[f]) = message[f]
  BY DEF Faithful, Carries, Survives
<1>4. Wire!Decode(payload) = [f \in {"type"} \cup DOMAIN F |-> message[f]]
  BY <1>2, <1>3 DEF Carries, Faithful
<1>5. Wire!Decode(payload) = message
  BY <1>4 DEF Faithful
<1>6. message.type # "JoinRoomIntent" => Wire!Decodes(payload)
  BY <1>1 DEF Wire!Decodes, Carries, Faithful
<1> QED BY <1>5, <1>6

\* The registry: a type has the fields its own table gives it.
LEMMA Registry ==
    /\ \A type \in DOMAIN Wire!SnapshotFields :
          type \in Wire!MessageTypes /\ Wire!FieldsOf[type] = Wire!SnapshotFields[type]
    /\ \A type \in DOMAIN Wire!EventFields :
          type \in Wire!MessageTypes /\ Wire!FieldsOf[type] = Wire!EventFields[type]
    /\ \A type \in DOMAIN Wire!LobbyFields :
          type \in Wire!MessageTypes /\ Wire!FieldsOf[type] = Wire!LobbyFields[type]
    /\ \A type \in DOMAIN Wire!IntentFields :
          type \in Wire!MessageTypes /\ Wire!FieldsOf[type] = Wire!IntentFields[type]
<1>1. /\ DOMAIN Wire!Tables = 1 .. 4
      /\ Wire!Tables[1] = Wire!SnapshotFields /\ Wire!Tables[2] = Wire!EventFields
      /\ Wire!Tables[3] = Wire!LobbyFields /\ Wire!Tables[4] = Wire!IntentFields
  BY DEF Wire!Tables
<1>2. /\ DOMAIN Wire!SnapshotFields = {"GameSnapshot"}
      /\ DOMAIN Wire!EventFields =
            {"MoveCompletedEvent", "JumpCompletedEvent", "MotionStoppedEvent", "CaptureEvent",
             "PromotionEvent", "GameOverEvent", "IllegalActionEvent", "PlayerDisconnectedEvent",
             "PlayerReconnectedEvent"}
      /\ DOMAIN Wire!LobbyFields =
            {"Login", "LoggedIn", "PlayIntent", "CreateRoomIntent", "JoinRoomIntent",
             "RoomRejected", "MatchNotFound", "RoleAssigned"}
      /\ DOMAIN Wire!IntentFields = {"MoveIntent", "JumpIntent"}
  BY DEF Wire!SnapshotFields, Wire!EventFields, Wire!LobbyFields, Wire!IntentFields
<1>3. ASSUME NEW i \in 1 .. 4, NEW type \in DOMAIN Wire!Tables[i]
      PROVE  type \in Wire!MessageTypes /\ Wire!FieldsOf[type] = Wire!Tables[i][type]
  <2>1. \A j \in 1 .. 4 : type \in DOMAIN Wire!Tables[j] => j = i
    <3>1. type \in DOMAIN Wire!SnapshotFields => type \notin DOMAIN Wire!EventFields
             /\ type \notin DOMAIN Wire!LobbyFields /\ type \notin DOMAIN Wire!IntentFields
      BY <1>2
    <3>2. type \in DOMAIN Wire!EventFields =>
             type \notin DOMAIN Wire!LobbyFields /\ type \notin DOMAIN Wire!IntentFields
      BY <1>2
    <3>3. type \in DOMAIN Wire!LobbyFields => type \notin DOMAIN Wire!IntentFields
      BY <1>2
    <3>4. i \in {1, 2, 3, 4} /\ \A j \in 1 .. 4 : j \in {1, 2, 3, 4}
      OBVIOUS
    <3> QED BY <1>1, <1>3, <3>1, <3>2, <3>3, <3>4
  <2>2. type \in Wire!MessageTypes
    BY <1>1, <1>3 DEF Wire!MessageTypes
  <2>3. (CHOOSE j \in DOMAIN Wire!Tables : type \in DOMAIN Wire!Tables[j]) = i
    BY <1>1, <1>3, <2>1
  <2> QED BY <2>2, <2>3 DEF Wire!FieldsOf
<1>4. 1 \in 1 .. 4 /\ 2 \in 1 .. 4 /\ 3 \in 1 .. 4 /\ 4 \in 1 .. 4
  OBVIOUS
<1> QED BY <1>1, <1>3, <1>4

\* The codecs, one by one.
LEMMA PlainSurvives ==
    ASSUME NEW v, NEW codec \in {"plain", "optional"}
    PROVE  Survives(codec, v)
BY DEF Survives, Wire!FieldIn, Wire!FieldOut, Wire!In, Wire!Out

LEMMA PositionSurvives ==
    ASSUME NEW a, NEW b
    PROVE  Survives("position", <<a, b>>)
<1>1. Wire!FieldOut("position", <<a, b>>) = [row |-> a, col |-> b]
  BY DEF Wire!FieldOut, Wire!Out
<1>2. \A v : Wire!FieldIn("position", v) = <<v.row, v.col>>
  BY DEF Wire!FieldIn, Wire!In
<1> QED BY <1>1, <1>2 DEF Survives

LEMMA ColorSurvives ==
    ASSUME NEW v \in DOMAIN Wire!ColorValue
    PROVE  Survives("color", v) /\ Survives("optionalColor", v)
<1>1. /\ DOMAIN Wire!ColorValue = {"WHITE", "BLACK"}
      /\ Wire!ColorValue["WHITE"] = "w" /\ Wire!ColorValue["BLACK"] = "b"
  BY DEF Wire!ColorValue
<1>2. Wire!Member(Wire!ColorValue, Wire!ColorValue[v]) = v
  BY <1>1 DEF Wire!Member
<1>3. v # Wire!None /\ Wire!ColorValue[v] # Wire!None
  BY <1>1 DEF Wire!None
<1>4. /\ Wire!FieldOut("color", v) = Wire!ColorValue[v]
      /\ Wire!FieldOut("optionalColor", v) = Wire!ColorValue[v]
  BY <1>3 DEF Wire!FieldOut, Wire!Out
<1>5. \A x : /\ Wire!FieldIn("color", x) = Wire!Member(Wire!ColorValue, x)
             /\ x # Wire!None =>
                   Wire!FieldIn("optionalColor", x) = Wire!Member(Wire!ColorValue, x)
  BY DEF Wire!FieldIn, Wire!In
<1> QED BY <1>2, <1>3, <1>4, <1>5 DEF Survives

LEMMA NoColorSurvives == Survives("optionalColor", Wire!None)
<1>1. Wire!FieldOut("optionalColor", Wire!None) = Wire!None
  BY DEF Wire!FieldOut, Wire!Out
<1>2. Wire!FieldIn("optionalColor", Wire!None) = Wire!None
  BY DEF Wire!FieldIn, Wire!In
<1> QED BY <1>1, <1>2 DEF Survives

LEMMA KindSurvives ==
    ASSUME NEW v \in DOMAIN Wire!KindValue
    PROVE  Survives("kind", v)
<1>1. /\ DOMAIN Wire!KindValue = {"KING", "QUEEN", "ROOK", "BISHOP", "KNIGHT", "PAWN"}
      /\ Wire!KindValue["KING"] = "K" /\ Wire!KindValue["QUEEN"] = "Q"
      /\ Wire!KindValue["ROOK"] = "R" /\ Wire!KindValue["BISHOP"] = "B"
      /\ Wire!KindValue["KNIGHT"] = "N" /\ Wire!KindValue["PAWN"] = "P"
  BY DEF Wire!KindValue
<1>2. \A x \in DOMAIN Wire!KindValue : Wire!KindValue[x] = Wire!KindValue[v] => x = v
  BY <1>1
<1>3. Wire!Member(Wire!KindValue, Wire!KindValue[v]) = v
  BY <1>2 DEF Wire!Member
<1>4. Wire!FieldOut("kind", v) = Wire!KindValue[v]
  BY DEF Wire!FieldOut, Wire!Out
<1>5. \A x : Wire!FieldIn("kind", x) = Wire!Member(Wire!KindValue, x)
  BY DEF Wire!FieldIn, Wire!In
<1> QED BY <1>3, <1>4, <1>5 DEF Survives

\* The list of pieces of a snapshot.
LEMMA PieceReturns ==
    ASSUME NEW piece \in ShownPieces
    PROVE  Wire!PieceIn(Wire!PieceOut(piece)) = piece
<1> DEFINE P == Wire!PieceFields
           w == Wire!PieceOut(piece)
<1>1. /\ DOMAIN P = {"id", "kind", "color", "row", "col", "render_row", "render_col", "is_moving",
                     "is_jumping", "rest_fraction_remaining"}
      /\ P["kind"] = "kind" /\ P["color"] = "color"
      /\ \A f \in DOMAIN P \ {"kind", "color"} : P[f] = "plain"
  BY DEF Wire!PieceFields
<1>2. /\ piece = [f \in DOMAIN P |-> piece[f]]
      /\ piece["kind"] \in DOMAIN Wire!KindValue /\ piece["color"] \in DOMAIN Wire!ColorValue
  BY <1>1 DEF ShownPieces
<1>3. w = [f \in DOMAIN P |-> Wire!Out(P[f], piece[f])]
  BY DEF Wire!PieceOut
<1>4. Wire!PieceIn(w) = [f \in DOMAIN P |-> Wire!In(P[f], w[f])]
  BY DEF Wire!PieceIn
<1> HIDE DEF w, P
<1>5. ASSUME NEW codec \in {"plain", "kind", "color"}, NEW v, Survives(codec, v)
      PROVE  Wire!In(codec, Wire!Out(codec, v)) = v
  BY <1>5 DEF Survives, Wire!FieldIn, Wire!FieldOut
<1>6. \A f \in DOMAIN P : P[f] \in {"plain", "kind", "color"} /\ Survives(P[f], piece[f])
  BY <1>1, <1>2, PlainSurvives, KindSurvives, ColorSurvives
<1>7. \A f \in DOMAIN P : Wire!In(P[f], w[f]) = piece[f]
  BY <1>3, <1>5, <1>6
<1>8. Wire!PieceIn(w) = [f \in DOMAIN P |-> piece[f]]
  BY <1>4, <1>7
<1> QED BY <1>2, <1>8 DEF w

LEMMA PiecesSurvive ==
    ASSUME NEW v \in Seq(ShownPieces)
    PROVE  Survives("pieces", v)
<1> DEFINE n == Len(v)
           w == [i \in 1 .. n |-> Wire!PieceOut(v[i])]
<1>1. n \in Nat /\ v = [i \in 1 .. n |-> v[i]] /\ \A i \in 1 .. n : v[i] \in ShownPieces
  OBVIOUS
<1>2. Wire!FieldOut("pieces", v) = w
  BY DEF Wire!FieldOut
<1> HIDE DEF n
<1>3. Len(w) = n
  BY <1>1
<1>4. Wire!FieldIn("pieces", w) = [i \in 1 .. n |-> Wire!PieceIn(w[i])]
  BY <1>3 DEF Wire!FieldIn
<1>5. \A i \in 1 .. n : Wire!PieceIn(w[i]) = v[i]
  BY <1>1, PieceReturns
<1> HIDE DEF w
<1>6. Wire!FieldIn("pieces", w) = v
  BY <1>1, <1>4, <1>5
<1> QED BY <1>2, <1>6 DEF Survives

\* The messages: what the server may say.
LEMMA LobbyFaithful ==
    ASSUME NEW message,
           message \in [type : {"LoggedIn"}, username : {"user"}, rating : {1200}]
                         \cup [type : {"RoomRejected", "MatchNotFound"}, reason : {"why"}]
                         \cup [type : {"RoleAssigned"}, role : {"white", "black", "spectator"},
                               room_id : {"room"}, join_code : {Wire!None, "code"}]
    PROVE  Faithful(message) /\ message.type \notin {"GameSnapshot", "JoinRoomIntent"}
<1>1. CASE message \in [type : {"LoggedIn"}, username : {"user"}, rating : {1200}]
  <2>1. message.type = "LoggedIn"
    BY <1>1
  <2>2. /\ FieldsFor(message) = [username |-> "plain", rating |-> "plain"]
        /\ message.type \in Wire!MessageTypes
    BY <2>1, Registry DEF FieldsFor, Wire!LobbyFields
  <2>3. message = [f \in {"type", "username", "rating"} |-> message[f]]
    BY <1>1
  <2> QED BY <2>1, <2>2, <2>3, PlainSurvives DEF Faithful
<1>2. CASE message \in [type : {"RoomRejected", "MatchNotFound"}, reason : {"why"}]
  <2>1. message.type \in {"RoomRejected", "MatchNotFound"}
    BY <1>2
  <2>2. /\ FieldsFor(message) = [reason |-> "plain"]
        /\ message.type \in Wire!MessageTypes
    BY <2>1, Registry DEF FieldsFor, Wire!LobbyFields
  <2>3. message = [f \in {"type", "reason"} |-> message[f]]
    BY <1>2
  <2> QED BY <2>1, <2>2, <2>3, PlainSurvives DEF Faithful
<1>3. CASE message \in [type : {"RoleAssigned"}, role : {"white", "black", "spectator"},
                        room_id : {"room"}, join_code : {Wire!None, "code"}]
  <2>1. message.type = "RoleAssigned"
    BY <1>3
  <2>2. /\ FieldsFor(message) = [role |-> "plain", room_id |-> "plain", join_code |-> "optional"]
        /\ message.type \in Wire!MessageTypes
    BY <2>1, Registry DEF FieldsFor, Wire!LobbyFields
  <2>3. message = [f \in {"type", "role", "room_id", "join_code"} |-> message[f]]
    BY <1>3
  <2> QED BY <2>1, <2>2, <2>3, PlainSurvives DEF Faithful
<1> QED BY <1>1, <1>2, <1>3

LEMMA SnapshotFaithful ==
    ASSUME NEW message,
           message \in [type : {"GameSnapshot"}, board_width : {3}, board_height : {2},
                        pieces : {<<>>} \cup [1 .. 1 -> ShownPieces], game_over : BOOLEAN]
    PROVE  /\ Faithful(message) /\ message.type = "GameSnapshot"
           /\ "clock_ms" \notin DOMAIN FieldsFor(message)
<1>1. message.type = "GameSnapshot"
  OBVIOUS
<1>2. /\ FieldsFor(message) = [board_width |-> "plain", board_height |-> "plain",
                               pieces |-> "pieces", game_over |-> "plain"]
      /\ message.type \in Wire!MessageTypes
  BY <1>1, Registry DEF FieldsFor, Wire!SnapshotFields
<1>3. message = [f \in {"type", "board_width", "board_height", "pieces", "game_over"} |-> message[f]]
  OBVIOUS
<1>4. Survives("pieces", message.pieces)
  <2>1. message.pieces \in {<<>>} \cup [1 .. 1 -> ShownPieces]
    OBVIOUS
  <2>2. \A v \in [1 .. 1 -> ShownPieces] : v \in Seq(ShownPieces)
    <3>1. \A n \in Nat : \A v \in [1 .. n -> ShownPieces] : v \in Seq(ShownPieces)
      OBVIOUS
    <3> QED BY <3>1
  <2>4. <<>> \in Seq(ShownPieces)
    OBVIOUS
  <2>3. message.pieces \in Seq(ShownPieces)
    BY <2>1, <2>2, <2>4
  <2> QED BY <2>3, PiecesSurvive
<1> QED BY <1>1, <1>2, <1>3, <1>4, PlainSurvives DEF Faithful

\* The codecs of an event's fields.
LEMMA EventCodecs ==
    ASSUME NEW type \in DOMAIN Wire!EventFields
    PROVE  /\ "type" \notin DOMAIN Wire!EventFields[type]
           /\ \A f \in DOMAIN Wire!EventFields[type] :
                 Wire!EventFields[type][f]
                    \in {"plain", "kind", "color", "optionalColor", "position"}
<1> DEFINE codecs == {"plain", "kind", "color", "optionalColor", "position"}
           E == Wire!EventFields
<1>1. ASSUME NEW place \in {"destination", "cell", "at"}
      PROVE  /\ "type" \notin DOMAIN Wire!PieceAt(place)
             /\ \A f \in DOMAIN Wire!PieceAt(place) : Wire!PieceAt(place)[f] \in codecs
  BY DEF Wire!PieceAt
<1>2. type \in {"MoveCompletedEvent", "JumpCompletedEvent", "MotionStoppedEvent", "CaptureEvent",
                "PromotionEvent", "GameOverEvent", "IllegalActionEvent",
                "PlayerDisconnectedEvent", "PlayerReconnectedEvent"}
  BY DEF Wire!EventFields
<1>3. CASE type \in {"MoveCompletedEvent", "JumpCompletedEvent", "MotionStoppedEvent"}
  <2>1. /\ E["MoveCompletedEvent"] = Wire!PieceAt("destination")
        /\ E["JumpCompletedEvent"] = Wire!PieceAt("cell")
        /\ E["MotionStoppedEvent"] = Wire!PieceAt("at")
    BY DEF Wire!EventFields
  <2>2. \E place \in {"destination", "cell", "at"} : E[type] = Wire!PieceAt(place)
    BY <1>3, <2>1
  <2> HIDE DEF E, codecs
  <2>3. "type" \notin DOMAIN E[type] /\ \A f \in DOMAIN E[type] : E[type][f] \in codecs
    BY <1>1, <2>2
  <2> QED BY <2>3 DEF E, codecs
<1>4. CASE type = "CaptureEvent"
  <2>1. E[type] =
           [piece_id |-> "plain", piece_kind |-> "kind", piece_color |-> "color",
            captured_piece_id |-> "plain", captured_kind |-> "kind", captured_color |-> "color",
            at |-> "position", at_ms |-> "plain"]
    BY <1>4 DEF Wire!EventFields
  <2> HIDE DEF E
  <2>2. "type" \notin DOMAIN E[type] /\ \A f \in DOMAIN E[type] : E[type][f] \in codecs
    BY <2>1
  <2> QED BY <2>2 DEF E
<1>5. CASE type = "PromotionEvent"
  <2>1. E[type] =
           [piece_id |-> "plain", piece_color |-> "color", from_kind |-> "kind",
            to_kind |-> "kind", at |-> "position", at_ms |-> "plain"]
    BY <1>5 DEF Wire!EventFields
  <2> HIDE DEF E
  <2>2. "type" \notin DOMAIN E[type] /\ \A f \in DOMAIN E[type] : E[type][f] \in codecs
    BY <2>1
  <2> QED BY <2>2 DEF E
<1>6. CASE type = "GameOverEvent"
  <2>1. E[type] =
           [winner_color |-> "optionalColor", at_ms |-> "plain"]
    BY <1>6 DEF Wire!EventFields
  <2> HIDE DEF E
  <2>2. "type" \notin DOMAIN E[type] /\ \A f \in DOMAIN E[type] : E[type][f] \in codecs
    BY <2>1
  <2> QED BY <2>2 DEF E
<1>7. CASE type = "IllegalActionEvent"
  <2>1. E[type] =
           [piece_id |-> "plain", destination |-> "position", at_ms |-> "plain"]
    BY <1>7 DEF Wire!EventFields
  <2> HIDE DEF E
  <2>2. "type" \notin DOMAIN E[type] /\ \A f \in DOMAIN E[type] : E[type][f] \in codecs
    BY <2>1
  <2> QED BY <2>2 DEF E
<1>8. CASE type = "PlayerDisconnectedEvent"
  <2>1. E[type] =
           [color |-> "color", seconds_remaining |-> "plain"]
    BY <1>8 DEF Wire!EventFields
  <2> HIDE DEF E
  <2>2. "type" \notin DOMAIN E[type] /\ \A f \in DOMAIN E[type] : E[type][f] \in codecs
    BY <2>1
  <2> QED BY <2>2 DEF E
<1>9. CASE type = "PlayerReconnectedEvent"
  <2>1. E[type] =
           [color |-> "color"]
    BY <1>9 DEF Wire!EventFields
  <2> HIDE DEF E
  <2>2. "type" \notin DOMAIN E[type] /\ \A f \in DOMAIN E[type] : E[type][f] \in codecs
    BY <2>1
  <2> QED BY <2>2 DEF E
<1> QED BY <1>2, <1>3, <1>4, <1>5, <1>6, <1>7, <1>8, <1>9

LEMMA HappeningFaithful ==
    ASSUME NEW message \in Happenings
    PROVE  Faithful(message) /\ message.type \in DOMAIN Wire!EventFields
<1>1. CASE message \in [type : {"GameOverEvent"}, winner_color : {Wire!None}, at_ms : {7}]
  <2>1. message.type = "GameOverEvent" /\ message.winner_color = Wire!None
    BY <1>1
  <2>2. /\ FieldsFor(message) = [winner_color |-> "optionalColor", at_ms |-> "plain"]
        /\ message.type \in Wire!MessageTypes /\ message.type \in DOMAIN Wire!EventFields
    BY <2>1, Registry DEF FieldsFor, Wire!EventFields
  <2>3. message = [f \in {"type", "winner_color", "at_ms"} |-> message[f]]
    BY <1>1
  <2>4. Survives("optionalColor", message.winner_color) /\ Survives("plain", message.at_ms)
    BY <2>1, PlainSurvives, NoColorSurvives
  <2>5. /\ DOMAIN FieldsFor(message) = {"winner_color", "at_ms"}
        /\ FieldsFor(message)["winner_color"] = "optionalColor"
        /\ FieldsFor(message)["at_ms"] = "plain"
    BY <2>2
  <2>6. \A f \in DOMAIN FieldsFor(message) : Survives(FieldsFor(message)[f], message[f])
    BY <2>4, <2>5
  <2>7. {"type"} \cup DOMAIN FieldsFor(message) = {"type", "winner_color", "at_ms"}
    BY <2>5
  <2>8. Faithful(message)
    BY <2>2, <2>3, <2>5, <2>6, <2>7 DEF Faithful
  <2> QED BY <2>2, <2>8
<1>2. CASE \E type \in DOMAIN Wire!EventFields, kind \in DOMAIN Wire!KindValue,
              color \in DOMAIN Wire!ColorValue, kind2 \in DOMAIN Wire!KindValue,
              color2 \in DOMAIN Wire!ColorValue :
              message = Happening(type, kind, color, kind2, color2)
  <2>1. PICK type \in DOMAIN Wire!EventFields, kind \in DOMAIN Wire!KindValue,
             color \in DOMAIN Wire!ColorValue, kind2 \in DOMAIN Wire!KindValue,
             color2 \in DOMAIN Wire!ColorValue :
             message = Happening(type, kind, color, kind2, color2)
    BY <1>2
  <2> DEFINE F == Wire!EventFields[type]
             second == {"captured_kind", "captured_color", "to_kind"}
             value(f) == CASE F[f] = "kind" -> IF f \in second THEN kind2 ELSE kind
                           [] F[f] \in {"color", "optionalColor"} ->
                                 IF f \in second THEN color2 ELSE color
                           [] F[f] = "position" -> <<1, 2>>
                           [] OTHER -> 7
  <2>2. message = [f \in {"type"} \cup DOMAIN F |-> IF f = "type" THEN type ELSE value(f)]
    BY <2>1 DEF Happening
  <2>3. /\ "type" \notin DOMAIN F
        /\ \A f \in DOMAIN F : F[f] \in {"plain", "kind", "color", "optionalColor", "position"}
    BY EventCodecs
  <2>4. message.type = type
    BY <2>2
  <2>5. FieldsFor(message) = F /\ message.type \in Wire!MessageTypes
    BY <2>4, Registry DEF FieldsFor
  <2>6. ASSUME NEW f \in DOMAIN F PROVE Survives(F[f], value(f))
    <3> HIDE DEF F
    <3>1. CASE F[f] = "kind"
      BY <3>1, KindSurvives
    <3>2. CASE F[f] \in {"color", "optionalColor"}
      BY <3>2, ColorSurvives
    <3>3. CASE F[f] = "position"
      <4>1. value(f) = <<1, 2>>
        BY <3>3
      <4> QED BY <3>3, <4>1, PositionSurvives
    <3>4. CASE F[f] = "plain"
      BY <3>4, PlainSurvives
    <3> QED BY <2>3, <3>1, <3>2, <3>3, <3>4
  <2> HIDE DEF F, value
  <2>7. \A f \in DOMAIN F : message[f] = value(f)
    BY <2>2, <2>3
  <2>8. message = [f \in {"type"} \cup DOMAIN F |-> message[f]]
    BY <2>2
  <2> QED BY <2>3, <2>4, <2>5, <2>6, <2>7, <2>8 DEF Faithful
<1> QED BY <1>1, <1>2 DEF Happenings

LEMMA AllUndistorted == DOMAIN Spoken \subseteq Undistorted
<1>1. ASSUME NEW message, NEW clock, Faithful(message),
             message.type \notin {"GameSnapshot", "JoinRoomIntent"}
      PROVE  /\ Wire!Decodes(Payload(message, clock))
             /\ Wire!Decode(Payload(message, clock)) = message
  <2>1. Payload(message, clock) = Wire!Encode(message)
    BY <1>1 DEF Payload
  <2> QED BY <1>1, <2>1, EncodeCarries, DecodeReturns
<1>2. ASSUME NEW message \in Spoken["nothing"] \cup Spoken["welcome"]
      PROVE  Faithful(message) /\ message.type \notin {"GameSnapshot", "JoinRoomIntent"}
  BY LobbyFaithful DEF Spoken, Notices
<1>3. ASSUME NEW message \in Spoken["seat"], NEW clock
      PROVE  /\ Wire!Decodes(Payload(message, clock))
             /\ Wire!Decode(Payload(message, clock)) = message
             /\ message.type = "GameSnapshot" => Payload(message, clock).clock_ms = clock
  <2>1. CASE message \in [type : {"GameSnapshot"}, board_width : {3}, board_height : {2},
                          pieces : {<<>>} \cup [1 .. 1 -> ShownPieces], game_over : BOOLEAN]
    <3>1. /\ Faithful(message) /\ message.type = "GameSnapshot"
          /\ "clock_ms" \notin DOMAIN FieldsFor(message)
      BY <2>1, SnapshotFaithful
    <3>2. Payload(message, clock) = Wire!EncodeSnapshot(message, clock)
      BY <3>1 DEF Payload
    <3>3. Carries(Payload(message, clock), message) /\ Payload(message, clock).clock_ms = clock
      BY <3>1, <3>2, ClockRidesAlong
    <3> QED BY <3>1, <3>3, DecodeReturns
  <2>2. CASE message \in Happenings
    <3>1. Faithful(message) /\ message.type \in DOMAIN Wire!EventFields
      BY <2>2, HappeningFaithful
    <3>2. message.type \notin {"GameSnapshot", "JoinRoomIntent"}
      BY <3>1 DEF Wire!EventFields
    <3> QED BY <1>1, <3>1, <3>2
  <2>3. CASE message \in Notices
    <3>1. Faithful(message) /\ message.type \notin {"GameSnapshot", "JoinRoomIntent"}
      BY <2>3, LobbyFaithful DEF Notices
    <3> QED BY <1>1, <3>1
  <2> QED BY <2>1, <2>2, <2>3 DEF Spoken
<1>4. ASSUME NEW when \in DOMAIN Spoken, NEW message \in Spoken[when], NEW clock \in {0, 7}
      PROVE  /\ Wire!Decodes(Payload(message, clock))
             /\ Wire!Decode(Payload(message, clock)) = message
             /\ message.type = "GameSnapshot" => Payload(message, clock).clock_ms = clock
  <2>1. when \in {"nothing", "welcome", "seat"}
    BY SpokenDomain
  <2> QED BY <1>1, <1>2, <1>3, <2>1
<1> QED BY <1>4 DEF Undistorted

\* Every message and every event the server may send is decoded to what was encoded, a
\* snapshot together with its clock (protocol/registry.py and the codecs).
THEOREM NothingIsDistorted == Spec => []HeardAsSaid
<1>1. TypeOK => HeardAsSaid
  BY SpokenDomain, AllUndistorted DEF TypeOK, HeardAsSaid
<1> QED BY <1>1, ClientTypeCorrect, PTL

\* What the client may ask.
LEMMA JoinCodesAreStripped ==
    ASSUME NEW code \in JoinCodes
    PROVE  Survives("typed", code) /\ Wire!FieldOut("typed", code) = code
<1>1. Wire!FieldOut("typed", code) = code /\ Wire!FieldIn("typed", code) = Wire!Strip(code)
  BY DEF Wire!FieldOut, Wire!FieldIn, Wire!Out, Wire!In
<1>2. PICK text \in Wire!Texts : code = Wire!Strip(text)
  BY DEF JoinCodes
<1>3. Wire!Strip(code) = code
  BY <1>2 DEF Wire!Strip, Wire!Texts
<1> QED BY <1>1, <1>3 DEF Survives

LEMMA AskedFaithful ==
    ASSUME NEW who \in DOMAIN Asked, NEW message \in Asked[who]
    PROVE  /\ Faithful(message)
           /\ message.type = "JoinRoomIntent" =>
                 /\ message.join_code \in JoinCodes
                 /\ FieldsFor(message) = [join_code |-> "typed"]
<1>1. \/ message \in [type : {"Login"}, username : {"user"}, password : {"secret"}]
      \/ message \in [type : {"PlayIntent"}]
      \/ message \in [type : {"CreateRoomIntent"}]
      \/ message \in [type : {"JoinRoomIntent"}, join_code : JoinCodes]
      \/ message \in [type : {"MoveIntent"}, source : {<<1, 2>>}, destination : {<<0, 2>>}]
      \/ message \in [type : {"JumpIntent"}, position : {<<1, 2>>}]
  <2>1. /\ who \in {"login", "play", "other"}
        /\ Asked["login"] = [type : {"Login"}, username : {"user"}, password : {"secret"}]
        /\ Asked["play"] = [type : {"PlayIntent"}]
        /\ Asked["other"] =
              [type : {"CreateRoomIntent"}]
                \cup [type : {"JoinRoomIntent"}, join_code : JoinCodes]
                \cup [type : {"MoveIntent"}, source : {<<1, 2>>}, destination : {<<0, 2>>}]
                \cup [type : {"JumpIntent"}, position : {<<1, 2>>}]
    BY DEF Asked
  <2>2. CASE who = "login"
    BY <2>1, <2>2
  <2>3. CASE who = "play"
    BY <2>1, <2>3
  <2>4. CASE who = "other"
    BY <2>1, <2>4, Zenon
  <2> QED BY <2>1, <2>2, <2>3, <2>4
<1>2. CASE message \in [type : {"Login"}, username : {"user"}, password : {"secret"}]
  <2>1. message.type = "Login" /\ message = [f \in {"type", "username", "password"} |-> message[f]]
    BY <1>2
  <2>2. /\ FieldsFor(message) = [username |-> "plain", password |-> "plain"]
        /\ message.type \in Wire!MessageTypes
    BY <2>1, Registry DEF FieldsFor, Wire!LobbyFields
  <2> QED BY <2>1, <2>2, PlainSurvives DEF Faithful
<1>3. CASE message \in [type : {"PlayIntent"}] \cup [type : {"CreateRoomIntent"}]
  <2>1. message.type \in {"PlayIntent", "CreateRoomIntent"}
        /\ message = [f \in {"type"} |-> message[f]]
    BY <1>3
  <2>2. DOMAIN FieldsFor(message) = {} /\ message.type \in Wire!MessageTypes
    BY <2>1, Registry DEF FieldsFor, Wire!LobbyFields, Wire!Nothing
  <2>3. {"type"} \cup DOMAIN FieldsFor(message) = {"type"}
    BY <2>2
  <2> QED BY <2>1, <2>2, <2>3 DEF Faithful
<1>4. CASE message \in [type : {"JoinRoomIntent"}, join_code : JoinCodes]
  <2>1. message.type = "JoinRoomIntent" /\ message = [f \in {"type", "join_code"} |-> message[f]]
        /\ message.join_code \in JoinCodes
    BY <1>4
  <2>2. FieldsFor(message) = [join_code |-> "typed"] /\ message.type \in Wire!MessageTypes
    BY <2>1, Registry DEF FieldsFor, Wire!LobbyFields
  <2> QED BY <2>1, <2>2, JoinCodesAreStripped DEF Faithful
<1>5. CASE message \in [type : {"MoveIntent"}, source : {<<1, 2>>}, destination : {<<0, 2>>}]
  <2>1. message.type = "MoveIntent" /\ message = [f \in {"type", "source", "destination"} |-> message[f]]
        /\ message.source = <<1, 2>> /\ message.destination = <<0, 2>>
    BY <1>5
  <2>2. /\ FieldsFor(message) = [source |-> "position", destination |-> "position"]
        /\ message.type \in Wire!MessageTypes
    BY <2>1, Registry DEF FieldsFor, Wire!IntentFields
  <2> QED BY <2>1, <2>2, PositionSurvives DEF Faithful
<1>6. CASE message \in [type : {"JumpIntent"}, position : {<<1, 2>>}]
  <2>1. message.type = "JumpIntent" /\ message = [f \in {"type", "position"} |-> message[f]]
        /\ message.position = <<1, 2>>
    BY <1>6
  <2>2. FieldsFor(message) = [position |-> "position"] /\ message.type \in Wire!MessageTypes
    BY <2>1, Registry DEF FieldsFor, Wire!IntentFields
  <2> QED BY <2>1, <2>2, PositionSurvives DEF Faithful
<1> QED BY <1>1, <1>2, <1>3, <1>4, <1>5, <1>6

LEMMA AllUnderstood == DOMAIN Asked \subseteq Understood
<1> SUFFICES ASSUME NEW who \in DOMAIN Asked, NEW message \in Asked[who]
             PROVE  LET payload == Wire!Encode(message)
                    IN  IF NoCode(message) THEN ~Wire!Decodes(payload)
                        ELSE Wire!Decodes(payload) /\ Wire!Decode(payload) = message
  BY DEF Understood
<1> DEFINE w == Wire!Encode(message)
<1>1. Faithful(message) /\ Carries(w, message)
  BY AskedFaithful, EncodeCarries
<1>2. Wire!Decode(w) = message /\ (message.type # "JoinRoomIntent" => Wire!Decodes(w))
  BY <1>1, DecodeReturns
<1>3. CASE message.type # "JoinRoomIntent"
  BY <1>2, <1>3 DEF NoCode
<1>4. CASE message.type = "JoinRoomIntent"
  <2>1. /\ w.type = "JoinRoomIntent" /\ FieldsFor(message) = [join_code |-> "typed"]
        /\ w.join_code = message.join_code /\ "join_code" \in DOMAIN w
    BY <1>1, <1>4, AskedFaithful, JoinCodesAreStripped DEF Carries
  <2> HIDE DEF w
  <2>2. Wire!FieldsOf[w.type] = [join_code |-> "typed"] /\ w.type \in Wire!MessageTypes
    BY <1>1, <1>4, <2>1 DEF FieldsFor, Faithful
  <2>3. Wire!Decodes(w) = (w.join_code.content # "")
    BY <2>1, <2>2 DEF Wire!Decodes
  <2> QED BY <1>2, <1>4, <2>1, <2>3 DEF NoCode, w
<1> QED BY <1>3, <1>4

\* Every request of the client is read by the server as it was meant, and a join without a
\* code is not read at all (lobby_messages.py, game_messages.py).
THEOREM RequestsAreUnderstood == Spec => []ReadAsMeant
<1>1. TypeOK => ReadAsMeant
  <2>1. DOMAIN Asked = {"login", "play", "other"}
    BY DEF Asked
  <2>2. \A n : AskedBy(n) \in DOMAIN Asked
    BY <2>1 DEF AskedBy
  <2> QED BY <2>2, AllUnderstood DEF ReadAsMeant
<1> QED BY <1>1, ClientTypeCorrect, PTL
=============================================================================
