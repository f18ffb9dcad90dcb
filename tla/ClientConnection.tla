-------------------------- MODULE ClientConnection --------------------------
(***************************************************************************)
(* One ServerConnection of the client (client/server_connection.py) and    *)
(* the three threads that meet at its two queues:                          *)
(*                                                                         *)
(*   - the main thread waits for the login reply, polls the lobby, then    *)
(*     polls the game window (home_screen.py, game_window.py, run.py);     *)
(*   - the background thread runs the event loop: it connects, receives    *)
(*     into inbound, sends, and ends (_connect_and_pump);                  *)
(*   - a worker of the loop's executor blocks in outbound.get for _send.   *)
(*     The background thread cannot die before the worker is free, as      *)
(*     asyncio.run waits for its executor.                                 *)
(*                                                                         *)
(* A request is its number: 1 is the login, then come the user's requests  *)
(* in the order of the clicks.  Of the server there is only what it says:  *)
(* Spoken, in the order it says it, and PeerCloses, how it goes away.      *)
(***************************************************************************)
EXTENDS Naturals, FiniteSets, SequencesExt

Wire == INSTANCE Protocol

CONSTANTS
    MaxRequests,   \* bound: requests of the main thread, the login included
    MaxReceived    \* bound: messages from the server

ASSUME ClientAssumption ==
    /\ MaxRequests \in Nat \ {0}
    /\ MaxReceived \in Nat

VARIABLES
    main,      \* where the main thread is
    searching, \* LobbyView._searching
    gameOver,  \* SnapshotView.game_over
    inbound,   \* the queue of items for the main thread
    outbound,  \* the queue of requests for the server, sentinels among them
    net,       \* the background thread
    worker,    \* the executor's thread
    link,      \* the socket: "up", or closed cleanly or with an error
    said,      \* how far the server has got with this client
    asked,     \* history: requests put so far
    plays,     \* history: those of them that are a PlayIntent
    unmatched, \* history: how often the server has said MatchNotFound
    received,  \* history: messages received so far
    sent,      \* history: requests given to connection.send
    hungUp     \* history: _send has closed the connection

vars == <<main, searching, gameOver, inbound, outbound, net, worker, link, said,
          asked, plays, unmatched, received, sent, hungUp>>

Sentinel  == 0              \* _CLOSE_SENTINEL
Requests  == 1 .. MaxRequests
Items     == {"loggedIn", "rejected", "unmatched", "role", "snapshot", "finalSnapshot", "event",
              "closed"}
Snapshots == {"snapshot", "finalSnapshot"}
InRoom    == {"lobby", "game", "over"}        \* inside "with connection"
Gone      == {"rejected", "lost", "left"}     \* done with this connection
WorkerStates == [at : {"idle", "waiting", "taken"}, item : {Sentinel} \cup Requests]

TypeOK ==
    /\ main \in {"login"} \cup InRoom \cup Gone
    /\ searching \in BOOLEAN /\ gameOver \in BOOLEAN
    /\ inbound \in Seq(Items)
    /\ outbound \in Seq({Sentinel} \cup Requests)
    /\ net \in {"connecting", "pumping", "ending", "dead"}
    /\ worker \in WorkerStates
    /\ link \in {"up", "clean", "error"}
    /\ said \in {"nothing", "welcome", "seat"}
    /\ asked \in Requests /\ plays \subseteq 2 .. asked
    /\ unmatched \in 0 .. Cardinality(plays)
    /\ received \in 0 .. MaxReceived
    /\ sent \in Seq(Requests)
    /\ hungUp \in BOOLEAN

Idle     == [at |-> "idle", item |-> Sentinel]
Waiting  == [at |-> "waiting", item |-> Sentinel]
Taken(x) == [at |-> "taken", item |-> x]

\* The main thread has started the background thread and put the login.
Init ==
    /\ main = "login"
    /\ searching = FALSE
    /\ gameOver = FALSE
    /\ inbound = <<>>
    /\ outbound = <<1>>
    /\ net = "connecting"
    /\ worker = Idle
    /\ link = "up"
    /\ said = "nothing"
    /\ asked = 1
    /\ plays = {}
    /\ unmatched = 0
    /\ received = 0
    /\ sent = <<>>
    /\ hungUp = FALSE

-----------------------------------------------------------------------------
(* The main thread *)

askVars  == <<asked, plays>>
mainVars == <<main, searching, gameOver, askVars>>
netVars  == <<net, link, said, unmatched, received, sent, hungUp>>

\* Mutant: the block is left without closing.
LeaveOpen == UNCHANGED outbound

\* Mutant: the sentinel overtakes what is queued.
CloseAtOnce == outbound' = <<Sentinel>> \o outbound

\* ServerConnection.close, called by __exit__ however the block is left.
Close == outbound' = Append(outbound, Sentinel)

\* connect_and_login blocks in inbound.get for the one or the other reply.
AwaitLogin ==
    /\ main = "login"
    /\ inbound # <<>>
    /\ main' = CASE Head(inbound) = "loggedIn" -> "lobby"
                 [] Head(inbound) = "closed"   -> "rejected"
                 [] OTHER                      -> "login"
    /\ inbound' = Tail(inbound)
    /\ UNCHANGED <<searching, gameOver, askVars, outbound, worker, netVars>>

\* Mutant of SearchEnds: any answer ends the search.
SearchEndsByNotice(items) == \E i \in DOMAIN items : items[i] \in {"unmatched", "rejected"}

\* set_searching(False).
SearchEnds(items) == Contains(items, "unmatched")

\* A frame of run_lobby takes all there is; the first snapshot or close ends the
\* lobby, and what was taken behind it is dropped.
LobbyFrame ==
    /\ main = "lobby"
    /\ inbound # <<>>
    /\ inbound' = <<>>
    /\ LET first == SelectInSeq(inbound, LAMBDA x : x \in Snapshots \cup {"closed"})
       IN  \/ /\ first = 0
              /\ searching' = (searching /\ ~SearchEnds(inbound))
              /\ UNCHANGED <<main, gameOver, outbound>>
           \/ /\ first # 0
              /\ inbound[first] \in Snapshots
              /\ main' = "game"
              /\ gameOver' = (inbound[first] = "finalSnapshot")
              /\ searching' = FALSE     \* the view is gone
              /\ UNCHANGED outbound
           \/ /\ first # 0
              /\ inbound[first] = "closed"
              /\ main' = "lost"
              /\ searching' = FALSE
              /\ Close
              /\ UNCHANGED gameOver
    /\ UNCHANGED <<askVars, worker, netVars>>

\* Mutant: a batch ends with its first snapshot, and the rest of it is dropped.
DrainedToSnapshot(queue) ==
    LET first == SelectInSeq(queue, LAMBDA x : x \in Snapshots)
    IN  IF first = 0 THEN queue ELSE SubSeq(queue, 1, first)

\* How far GameWindow._drain_inbound gets: it leaves what follows a close.
Drained(queue) ==
    LET closed == SelectInSeq(queue, LAMBDA x : x = "closed")
    IN  IF closed = 0 THEN queue ELSE SubSeq(queue, 1, closed)

\* A frame of GameWindow.run: a lost connection ends it, the end of the game makes it
\* wait for a last key.
GameFrame ==
    LET batch     == Drained(inbound)
        snapshots == SelectSeq(batch, LAMBDA x : x \in Snapshots)
        lost      == Contains(batch, "closed")
    IN  /\ main = "game"
        /\ inbound # <<>> \/ gameOver
        /\ inbound' = IF lost THEN SubSeq(inbound, Len(batch) + 1, Len(inbound)) ELSE <<>>
        /\ gameOver' = IF snapshots = <<>> THEN gameOver ELSE Last(snapshots) = "finalSnapshot"
        /\ \/ lost  /\ main' = "lost" /\ Close
           \/ ~lost /\ main' = (IF gameOver' THEN "over" ELSE "game") /\ UNCHANGED outbound
        /\ UNCHANGED <<searching, askVars, worker, netVars>>

\* Requests are put whatever has become of the link.
Put ==
    /\ asked < MaxRequests
    /\ asked' = asked + 1
    /\ outbound' = Append(outbound, asked + 1)
    /\ UNCHANGED <<main, gameOver, inbound, worker, netVars>>

\* A click on the lobby's Play button.
AskToPlay ==
    /\ main = "lobby"
    /\ ~searching
    /\ searching' = TRUE
    /\ plays' = plays \cup {asked + 1}
    /\ Put

\* A room created or joined in the lobby's dialog, searching or not, or a click on the board.
Ask ==
    /\ main \in {"lobby", "game"}
    /\ ~gameOver
    /\ Put
    /\ UNCHANGED <<searching, plays>>

\* The user closes the lobby or the window, or presses the last key.
Leave ==
    /\ main \in InRoom
    /\ main' = "left"
    /\ searching' = FALSE
    /\ Close
    /\ UNCHANGED <<gameOver, askVars, inbound, worker, netVars>>

\* The code typed into the lobby's dialog.  Nothing there asks for one.
JoinCodes == {Wire!Strip(text) : text \in Wire!Texts}

\* What a request may be, by who makes it: the login, the Play button, or anything else.
Asked ==
    [login |-> [type : {"Login"}, username : {"user"}, password : {"secret"}],
     play  |-> [type : {"PlayIntent"}],
     other |-> [type : {"CreateRoomIntent"}]
                 \cup [type : {"JoinRoomIntent"}, join_code : JoinCodes]
                 \cup [type : {"MoveIntent"}, source : {<<1, 2>>}, destination : {<<0, 2>>}]
                 \cup [type : {"JumpIntent"}, position : {<<1, 2>>}]]

AskedBy(n) == IF n = 1 THEN "login" ELSE IF n \in plays THEN "play" ELSE "other"

-----------------------------------------------------------------------------
(* The background thread and its worker *)

\* Mutant: no finally.
LetWorkerWait == UNCHANGED outbound

\* _connect_and_pump's finally: whatever ended the pump, a worker in get wakes up.
WakeWorker == outbound' = Append(outbound, Sentinel)

Connect ==
    /\ net = "connecting"
    /\ net' = "pumping"
    /\ UNCHANGED <<mainVars, inbound, outbound, worker, link, said, unmatched, received, sent, hungUp>>

\* Opening the connection raises something else than ConnectionClosed.
ConnectFails ==
    /\ net = "connecting"
    /\ net' = "ending"
    /\ link' = "error"
    /\ WakeWorker
    /\ UNCHANGED <<mainVars, inbound, worker, said, unmatched, received, sent, hungUp>>

ShownPieces ==
    [id : {"piece"}, kind : DOMAIN Wire!KindValue, color : DOMAIN Wire!ColorValue, row : {1},
     col : {2}, render_row : {1}, render_col : {0}, is_moving : BOOLEAN, is_jumping : BOOLEAN,
     rest_fraction_remaining : {Wire!None, "half"}]

\* An event of a type, about a piece and a second one (captured, or promoted to).
Happening(type, kind, color, kind2, color2) ==
    LET fields == Wire!EventFields[type]
        second == {"captured_kind", "captured_color", "to_kind"}
    IN  [f \in {"type"} \cup DOMAIN fields |->
            IF f = "type" THEN type
            ELSE CASE fields[f] = "kind"                      -> IF f \in second THEN kind2 ELSE kind
                   [] fields[f] \in {"color", "optionalColor"} -> IF f \in second THEN color2 ELSE color
                   [] fields[f] = "position"                  -> <<1, 2>>
                   [] OTHER                                   -> 7]

\* The events that are broadcast, and the one that is sent to the one it concerns.
Happenings ==
    {Happening(type, kind, color, kind2, color2) :
        type \in DOMAIN Wire!EventFields, kind \in DOMAIN Wire!KindValue,
        color \in DOMAIN Wire!ColorValue, kind2 \in DOMAIN Wire!KindValue,
        color2 \in DOMAIN Wire!ColorValue}
    \cup [type : {"GameOverEvent"}, winner_color : {Wire!None}, at_ms : {7}]

\* The two refusals.  A search may expire, and a request of the lobby be answered, when the
\* client has been seated already.
Notices == [type : {"RoomRejected", "MatchNotFound"}, reason : {"why"}]

\* What the server may say, by what it has said before: "nothing", "welcome" after the
\* login, "seat" when there is a role.
Spoken ==
    [nothing |-> [type : {"LoggedIn"}, username : {"user"}, rating : {1200}],
     welcome |-> Notices
                   \cup [type : {"RoleAssigned"}, role : {"white", "black", "spectator"},
                         room_id : {"room"}, join_code : {Wire!None, "code"}],
     seat    |-> Notices
                   \cup [type : {"GameSnapshot"}, board_width : {3}, board_height : {2},
                         pieces : {<<>>} \cup [1 .. 1 -> ShownPieces], game_over : BOOLEAN]
                   \cup Happenings]

\* What the main thread tells apart of a SnapshotReceived or EventReceived.
ItemFor(message) ==
    CASE message.type = "LoggedIn"      -> "loggedIn"
      [] message.type = "RoleAssigned"  -> "role"
      [] message.type = "RoomRejected"  -> "rejected"
      [] message.type = "MatchNotFound" -> "unmatched"
      [] message.type = "GameSnapshot"  -> IF message.game_over THEN "finalSnapshot" ELSE "snapshot"
      [] OTHER                          -> "event"

\* The server's payload: a snapshot goes with its clock.
Payload(message, clock) ==
    IF message.type = "GameSnapshot" THEN Wire!EncodeSnapshot(message, clock)
    ELSE Wire!Encode(message)

\* The items that come of what the server may say.
Heard == [when \in DOMAIN Spoken |->
            {ItemFor(Wire!Decode(Payload(message, 0))) : message \in Spoken[when]}]

\* serve enters the lobby first, and the role goes out before the first snapshot.
SaidThen(item) ==
    CASE item = "loggedIn" -> "welcome" [] item = "role" -> "seat" [] OTHER -> said

\* _receive and _handle_message.  The server answers a login, and a PlayIntent at most once.
Receive ==
    /\ net = "pumping"
    /\ link = "up"
    /\ received < MaxReceived
    /\ \E item \in Heard[said] :
          /\ item = "loggedIn" => sent # <<>>
          /\ item = "unmatched" => unmatched < Cardinality(plays \cap Range(sent))
          /\ inbound' = Append(inbound, item)
          /\ said' = SaidThen(item)
          /\ unmatched' = unmatched + (IF item = "unmatched" THEN 1 ELSE 0)
    /\ received' = received + 1
    /\ UNCHANGED <<mainVars, outbound, worker, net, link, sent, hungUp>>

\* The server refuses the login or the network fails ("error"), or the server shuts
\* down ("clean").
PeerCloses(how) ==
    /\ net = "pumping"
    /\ link = "up"
    /\ link' = how
    /\ UNCHANGED <<mainVars, inbound, outbound, worker, net, said, unmatched, received, sent, hungUp>>

\* Mutant: what is put is the bare reason.
EndPumpBare(raised) ==
    /\ net' = "ending"
    /\ inbound' = IF raised THEN Append(inbound, "reason") ELSE inbound
    /\ WakeWorker

\* The except clause of _connect_and_pump: a ConnectionClosed is told to the main
\* thread.  The pump is over, the other task is cancelled.
EndPump(raised) ==
    /\ net' = "ending"
    /\ inbound' = IF raised THEN Append(inbound, "closed") ELSE inbound
    /\ WakeWorker

\* "async for" raises for a close with an error, and just ends after a clean one.
ReceiveEnds ==
    /\ net = "pumping"
    /\ link # "up"
    /\ EndPump(link = "error")
    /\ UNCHANGED <<mainVars, worker, link, said, unmatched, received, sent, hungUp>>

\* _send asks the executor for the next request.
AskWorker ==
    /\ net = "pumping"
    /\ worker = Idle
    /\ worker' = Waiting
    /\ UNCHANGED <<mainVars, inbound, outbound, netVars>>

\* Mutant: the queue gives the last one first.
GotLatest(queue) == [item |-> Last(queue), left |-> Front(queue)]

\* What Queue.get takes, and what it leaves.
Got(queue) == [item |-> Head(queue), left |-> Tail(queue)]

\* outbound.get returns in the worker, also when nobody awaits it any more.
WorkerGets ==
    /\ worker = Waiting
    /\ outbound # <<>>
    /\ worker' = Taken(Got(outbound).item)
    /\ outbound' = Got(outbound).left
    /\ UNCHANGED <<mainVars, inbound, netVars>>

\* connection.send; on a closed connection it raises ConnectionClosed.
Send ==
    /\ net = "pumping"
    /\ worker.at = "taken"
    /\ worker.item # Sentinel
    /\ worker' = Idle
    /\ \/ /\ link = "up"
          /\ sent' = Append(sent, worker.item)
          /\ UNCHANGED <<inbound, outbound, net>>
       \/ /\ link # "up"
          /\ EndPump(TRUE)
          /\ UNCHANGED sent
    /\ UNCHANGED <<mainVars, link, said, unmatched, received, hungUp>>

\* _send closes the connection at the sentinel.  The pump ends without an exception,
\* unless _receive has met an error of its own at the same time.
HangUp ==
    /\ net = "pumping"
    /\ worker = Taken(Sentinel)
    /\ worker' = Idle
    /\ hungUp' = (link = "up")
    /\ link' = IF link = "up" THEN "clean" ELSE link
    /\ \E raised \in {FALSE, link = "error"} : EndPump(raised)
    /\ UNCHANGED <<mainVars, said, unmatched, received, sent>>

\* asyncio.run has waited for the executor's thread, and the background thread ends.
ThreadEnds ==
    /\ net = "ending"
    /\ worker # Waiting
    /\ net' = "dead"
    /\ UNCHANGED <<mainVars, inbound, outbound, worker, link, said, unmatched, received, sent, hungUp>>

-----------------------------------------------------------------------------
MainSteps == AwaitLogin \/ LobbyFrame \/ GameFrame
PumpEnds  == ReceiveEnds \/ Send \/ HangUp

Next ==
    \/ AwaitLogin \/ LobbyFrame \/ GameFrame \/ AskToPlay \/ Ask \/ Leave
    \/ Connect \/ ConnectFails \/ Receive \/ ReceiveEnds
    \/ \E how \in {"clean", "error"} : PeerCloses(how)
    \/ AskWorker \/ WorkerGets \/ Send \/ HangUp \/ ThreadEnds

Spec == Init /\ [][Next]_vars

\* The threads run; connecting has a timeout.  Nothing is assumed of the user, nor of
\* what the server says and when it closes.
LiveSpec ==
    /\ Spec
    /\ WF_vars(MainSteps)
    /\ WF_vars(Connect \/ ConnectFails)
    /\ WF_vars(PumpEnds)
    /\ WF_vars(AskWorker)
    /\ WF_vars(WorkerGets)
    /\ WF_vars(ThreadEnds)

-----------------------------------------------------------------------------
(* Properties *)

\* The server gets the requests in the order of the clicks, the login first, none twice
\* and none left out in between, through queue, worker and event loop.
SentInOrder == sent = [i \in 1 .. Len(sent) |-> i]

\* A client asks for one match at a time: each further PlayIntent comes after the answer
\* MatchNotFound to the one before, whatever other notices arrive while it searches.
OneSearchAtATime == Cardinality(plays) <= unmatched + 1

Undistorted ==
    {when \in DOMAIN Spoken :
        \A message \in Spoken[when], clock \in {0, 7} :
            LET payload == Payload(message, clock)
            IN  /\ Wire!Decodes(payload)
                /\ Wire!Decode(payload) = message
                /\ message.type = "GameSnapshot" => payload.clock_ms = clock}

\* Whatever the server may say now, the client hears as it was said: every message and event
\* type with its enums, positions and missing values, and a snapshot with its clock.
HeardAsSaid == said \in Undistorted

NoCode(message) == message.type = "JoinRoomIntent" /\ message.join_code.content = ""

Understood ==
    {who \in DOMAIN Asked :
        \A message \in Asked[who] :
            LET payload == Wire!Encode(message)
            IN  IF NoCode(message) THEN ~Wire!Decodes(payload)
                ELSE Wire!Decodes(payload) /\ Wire!Decode(payload) = message}

\* Whatever the client has sent the server reads as it was meant, but for a join without a
\* code, which it must not read at all: an empty code would be looked up like any other.
ReadAsMeant == \A i \in DOMAIN sent : AskedBy(sent[i]) \in Understood

\* When the client itself closes the connection, all it was asked for has been sent, and
\* the main thread is done with it: the sentinel overtakes no request, and the sentinel
\* of the finally clause never closes a connection.
NothingUnsentAtHangUp == hungUp => main \in Gone /\ Len(sent) = asked

\* The background thread ends when the connection has ended, whoever ended it and
\* whatever its worker was doing.
ThreadEndsWithLink == link # "up" ~> net = "dead"

\* The background thread ends when the main thread is done with it, even if it was still
\* connecting.
ThreadEndsWithMain == main \in Gone ~> net = "dead"

\* A close that is in the queue ends the wait for the login and the game: neither
\* overlooks it among other items.
CloseIsRead ==
    \A m \in {"login", "game"} :
        (main = m /\ Contains(inbound, "closed")) ~> main # m

\* No thread waits for a connection that is dead: the login, the lobby and the game all
\* come to know of it.
NobodyWaitsForTheDead == net = "dead" ~> main \notin {"login", "lobby", "game"}
=============================================================================
