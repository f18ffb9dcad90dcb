# KFChess: TLA+ models and proofs

KFChess is chess without turns: both players move whenever they like, a piece
takes time to cross the board, may be met, overtaken or intercepted on its way,
and rests after it has landed. One game is run by an engine that is driven from
outside by calls of `wait(ms)`; a server runs many games, seats players through
a rating queue or private rooms, survives dropped connections and records
ratings; a player clicks in a local window, in a script or in a network client.
This directory models the engine, the server, the client's connection, the wire
protocol and the click controller on top of the engine, checks them with TLC on
small instances, and proves the safety properties of all of them for every
board, every number of connections, rooms and requests, and every fault.

Contents: 1 inventory, 2 modules and their correspondence to the code, 3 what
the runs check, 4 bounds, 5 fairness, 6 proofs, 7 disagreements found, 8 what is
only model-checked or not modelled, 9 plan.

## 1. Inventory

| component | state | operations | talks to |
|---|---|---|---|
| Board and rules (`model/`, `rules/`, `realtime/motion.py`) | the cell map; a `Motion` is a value | `validate_move`, `is_legal` of six strategies, `path_cells`, `time_at_cell`, `truncate_before` | called by the engine and the arbiter |
| Real-time arbiter (`realtime/real_time_arbiter.py`) | clock, active motions, active jumps, cooldowns | `start_motion`, `start_jump`, `advance_time`, `set_cooldown` | moves pieces on the board; returns arrivals and ended jumps |
| Game engine (`engine/`, `events/score_tracker.py`) | game over, score, kinds of the pieces | `request_move`, `request_jump`, `resign`, `wait` | drives the arbiter; publishes events to synchronous subscribers |
| Game session (`server/session.py`) | seats and login names, disconnect countdowns, whether the rating was updated | `assign_role`, `record_login`, `begin_disconnect_countdown`, `reconnect`, `tick`, `_on_game_over` | ticks and resigns on the engine, writes ratings |
| Rooms and participants (`server/rooms.py`, `server/contracts.py`) | sessions, connections, participants, usernames and join codes by room, closing timers; state and room of each participant | create, join, match, reconnect, remove, tick, close | sessions, directory |
| Room directory (`server/room_directory.py`) | three families of Redis keys | two atomic reservation scripts, deletion | shared with every other process |
| Matchmaker (`server/matchmaker.py`) | the queue | enqueue or match, cancel, tick | called by the router and the server loop |
| Connections and routing (`connection_lifecycle.py`, `connection_handler.py`, `client_message_router.py`, `ws_server.py`) | one coroutine per connection, one server loop | login, reconnect attempt, messages, drop, tick | everything above |
| Client (`client/`) | two queues between the network thread and the window, whether a search is on, the last snapshot | connect, pump, lobby, game window, close | the server |
| Wire protocol (`protocol/`) | none | a codec per message type | client and server |
| Click controller and views (`input/`, `view/`) | the selected cell and the id of the piece picked up there | `click`, `jump`, `refresh_selection` | reads an engine or a snapshot, asks an engine or the server |
| Text front end (`text/`, `board_io/`) | script position | clicks, jumps, waits, prints | controller and engine |
| Accounts and ratings | SQL | passwords, ELO | sessions, logins |

What makes the system hard to test:

* **Order within one tick.** A single `wait` may have to resolve arrivals,
  collisions in mid-air and encounters with standing pieces; each of them
  creates or removes others, and they must be taken in time order.
* **Repeated shortening.** A flight that meets a friend is cut one cell short,
  put back in the list, and may be cut again, down to its own source.
* **Tick size.** The result should not depend on how the time is divided into
  calls; scheduling decides that division in production.
* **Two lists of truth.** A piece is on the board or in the list of motions; a
  participant is in a room according to the room's connections, the room's
  participants, its own `room_id`, its own `state` and the directory.
* **Drops and reconnects** race the countdown, the end of the game, the closing
  of the room, and logins of the same user on a second connection.
* **Old views.** A selection refers to what stood on a cell at the first click;
  a network player clicks on a snapshot, and the server handles the request on
  a board that has moved on.
* **The edge of the board.** Clicks go through the mapper, which knows the edge;
  `handle_move`, `request_move` and `validate_move` never ask
  `Board.in_bounds`, so an intent from the network may name any position.
* **Faults.** The rating store may fail in the middle of publishing the end of
  the game; the directory may fail in the middle of closing a room or making a
  match; the process may die and leave its directory keys behind.

What makes each component correct is stated as the properties of section 3; the
hazards in `PROJECT.json` name the line at which each of them could go wrong.

## 2. Modules

```
MoveRules ─> RealTimeArbiter ─> GameEngine
        │                           ├─> TickGranularity <─INSTANCE─ GameEngine
        │                           ├─> EngineFates ─(refines)─ PieceFates
        └─> Controller ─────────────┴─> PlayedGame <─INSTANCE─ Protocol
GameSession ─┐
RoomDirectory┴> GameRooms ─> GameServer <─INSTANCE─ Matchmaker
                                 └─> ServerTables ─(refines)─ Tables
ClientConnection <─INSTANCE─ Protocol
MCFlights, MCPawns, MCKnights, MCTicks, MCPlayed, MCServer: instances for TLC

Lists ─> ListProofs          (Lists is used by GameSession and Matchmaker)
GameEngine ─> GameEngineProofs ─┬─> EngineFatesProofs      <─ EngineFates
                                ├─> TickGranularityProofs  <─ TickGranularity
                                └─> PlayedGameProofs       <─ PlayedGame
ListProofs ─┬─> ClientConnectionProofs  <─ ClientConnection
            └─> GameSessionProofs ─> GameServerProofs  <─ GameSession, ServerTables
```

**MoveRules** (`board.py`, `piece_rules.py`, `rule_engine.py`, part of
`motion.py`). Pure operators. A board maps positions `<<row, col>>` to a piece or
`NoPiece`, as the dict of `Board` does. `Cells` are the positions on the board
(`Board.in_bounds`); `Positions` are those and `Margin` rows and columns more on
every side. The engine and the arbiter are stated over `Positions`, because
nothing on the way of a request asks whether a position is on the board; `Cells`
appear only where the code has the edge: in the start layout and in the clicks.
`IsLegal` is the disjunction of the strategies; `PathCell(s, d, i)`
is the i-th element of `Motion.path_cells` (only the destination for a flight
that is not on a line, i.e. a knight's).

**RealTimeArbiter**. `motion[p]` is the `Motion` of `p` and `active` the order
of the list, `jumpEnd[c]` the end of the jump that guards `c` (0 for none),
`cooldown[p]` the end of a rest. `advance_time` is a loop; it is `BeginAdvance`
(the new clock and the jumps that end), one `Resolve` per iteration and
`FinishAdvance`. `Candidates` is the list that `_next_event` sorts, `Before` its
sort key `(time, type, ids)`. `ResolveCollision`, `ResolveEncounter` and
`ResolveArrival` translate the methods of the same name with every early return.
Times are integers: a path of n cells takes `n * MoveDuration` (a knight's two
units), and `TimeAt` divides exactly as the durations are multiples.

**GameEngine** extends it with requests and with `wait`: `BeginWait`,
`ResolveWait`, `FinishWait`, then one `Apply` per arrival. The phases `"idle"`,
`"resolving"`, `"applying"` mark where in the call the engine is; requests are
possible only in `"idle"`, because the whole call is synchronous. `news` holds
the events published by the latest step, `lost` the pieces whose loss was
published (a history of `CaptureEvent`s and `MotionStoppedEvent`s), `score` is
the `ScoreTracker`.

**TickGranularity** runs two copies of GameEngine on the same requests. One,
the module's own variables, is advanced by single calls of `wait`; the other,
an instance on the variables that end in 2, follows in calls of any sizes that
add up to the same time (`WaitInParts`). A request is made when both have got to
the same time and has to be accepted by both; kinds and rests of the copies are
compared in no other way.

**PieceFates** is what the engine promises about pieces, without board, clock
or tick: a piece stands, flies or is gone for good; whoever is gone was met by
somebody, an enemy except in `DropOut` (finding `vanish`); a loss is told after
it happened, at most once and only while the game runs; the game ends exactly
when a king's loss is told or a side resigns. **EngineFates** maps the engine's
board, motions, published losses and `_game_over` to it; `KeepsFates` says that
the engine implements it.

**Controller** (`controller.py`, `board_mapper.py`): `selected` and `picked`
are `_selected` and `_selected_piece_id`. `click` is the disjunction of
`IgnoreClick`, `Select`, `LetGo`, `Switch` (together `ClickOnly`), which ask for
nothing, and `PutDown`, after which the caller asks to move. What the controller
reads is a parameter, a *view*: what is shown where, which pieces jump, whether
the game is over. A click is on one of `Cells` or beside the board (`NoCell`):
`pixel_to_cell` gives no other position.

**PlayedGame** composes GameEngine and Controller in the three ways the program
does. In the window and the text front end the view is the engine; a request is
a call of it, between two calls of `wait`. In the network client the view is
`shown`, the snapshot read last; a request is encoded by Protocol, is on its way
in `uplink`, and is handled by `handle_move` or `handle_jump` (`Handle`) with
the ownership check `Owns`. `Snapshot` is `GameEngine.snapshot` as
`SnapshotView` reads it: a piece in flight is shown on the cell it left. After
a tick the client reads the new snapshot or still has an older one. The
opponent's requests and resignations are the environment's: the server takes
whatever intents its connection sends, so they name any of `Positions`
(`OpponentAsks`), where the program's own client, whose clicks are mapped, names
cells only (`Uplinks`).

**Protocol**: per message type the codec of each field (`FieldsOf`), and with
it `Encode` and `Decode`. A payload is a record of plain values; the JSON text
is left out. Two instances use it: a move is encoded and decoded in PlayedGame,
everything the server may say in ClientConnection.

**GameSession** keeps a session as a record, since every room has one. `seats`
are the two dicts `_roles` and `_usernames`, which always have the same keys in
the same order; the order matters, because a username is looked up by the first
match and a role is given by the length. `countdowns` is
`_countdowns_by_color` with the ticks left; `rated` stands for
`_ratings_updated` and remembers what the store was told. Of the engine it uses
one thing: in any tick it may announce the end with either winner, also after
the end, which GameEngine shows to happen. `AdvanceCountdowns` includes the
resignation of the side whose time is up, and the exception that leaves the
rest of the countdowns where they are when the rating store fails.

**RoomDirectory**: `roomKeys`, `joinKeys` and `userKey` are the keys in Redis;
each Lua script is one step. A room id stands for its join code as well.

**GameRooms**: one operator per operation of the registry, each giving the next
value of every variable of registry, directory and participants. `CloseRooms`
closes a set of rooms because one tick may close several. When the directory
fails, `_close_room` raises after it has forgotten participants, usernames and
join code: the room stays in `halfClosed`, where joins and reconnects raise in
their turn (`JoinHalfClosed`, `ReconnectToHalfClosed`).

**Matchmaker**: the queue, in the order of arrival.

**Lists**: what is left of a list, or of a dict, whose entries were taken out
somewhere (`Kept`): the queue, the seats, the countdowns.

**GameServer** puts the actions together. Everything runs on one event loop, so
a step is what the code does between two awaits: `Login` up to the first await
of `_enter_lobby`, `TryReconnect` after it, then one action per kind of message
(`StartSearch`, `MatchSeeker`, `CreateRoom`, `JoinRoom`, `RejectMessage`),
`Drop` for the end of a connection at any time, also between login and the
reconnect attempt, and `ServerLoop` for one round of `_run_server_loop`.
`ServerLoopWithoutStore` is a round in which the rating store fails where it is
asked; `ServerLoopWithoutDirectory`, `DropWithoutDirectory` and
`MatchWithoutDirectory` are the three places where a failing directory leaves
something half done (elsewhere it leaves nothing: `RejectMessage`);
`Crash` is the death of the process, which only the directory survives.
A connection is used once: a client that comes back uses another one.

**Tables** is what the server promises the people who play on it, without
connections, queues, keys, states or ticks. There is a table in each room: who
sits there in which role, which players are away, the result and what was rated.
A username sits at one table at a time, gets the next role that is free (or sits
down together with its match), leaves and comes back to the same seat; a result
stays what was announced first and is rated once; and no table is cleared that
has no result while both its players are there (`MayClear`), unless the process
crashes. **ServerTables** maps rooms to tables (`TableOf`): a player is away while the
connection of its seat is not among those of the room. `KeepsPromise` says that
GameServer implements Tables: a step that nobody at a table can see (a login, a
search, a message that is refused, a tick of a countdown) is a stutter.

**ClientConnection** is one `ServerConnection` of the client and its threads.
`main` is where the main thread is: in `connect_and_login` (`AwaitLogin`), in
`run_lobby` (`LobbyFrame`), in `GameWindow.run` (`GameFrame`, "over" when it
waits for a last key), or done. `net` is the background thread, `worker` the
thread of its executor that blocks in `outbound.get`; `AskWorker`, `WorkerGets`
and `Send` or `HangUp` are one round of `_send`. `EndPump` is what every end of
the pump has in common, the `finally` clause with its sentinel included, and
`ThreadEnds` the end of `asyncio.run`, which waits for the executor. Requests
are their numbers, and an item is what the main thread tells apart of a message
that has been encoded by the server and decoded by `_handle_message`
(`ItemFor`, `Heard`). `searching` is the lobby's flag behind the Play button,
`plays` the requests that are PlayIntents;
`Asked` is what a request may stand for. Of the server there is
what it says (`Spoken`) and in which order (`SaidThen`, after
`connection_handler.py`), and how it closes the connection (`PeerCloses`; a
network that fails looks the same). `RoomRejected` and `MatchNotFound` may also
reach a client that has been given its seat: a second request for a room is
answered, and a search expires, wherever its seeker sits by then.

## 3. Runs

| run | instance | properties | shows |
|---|---|---|---|
| `flights` | a pawn, a king and a rook, 4 x 2, requests up to one step beyond the edge | `TypeOK`, `PlacedOnce`, `FlightListExact`, `LossesAreReal`, `EachLossOnce`, `KeepsFates`, `PawnsPromoted`, `PaceKept`, `NothingOverdue`, `LoopAdvances`, `EveryFlightEnds` | head-on, following and landing encounters keep board, list of flights and published losses consistent, on the board and beside it, and are what `PieceFates` promises; a pawn on its last rank is a queen when `wait` returns, by whatever way it got there; shortened flights keep their pace; every iteration of the loop of `advance_time` gets on, the loop terminates and leaves nothing due behind |
| `ticks` | two rooks and a king, 2 x 3, ticks of 1 to 4 | `SameResultWithoutJumps` | without jumps it does not matter into which calls of `wait` the time is divided |
| `rooms` | 4 connections, 3 usernames, 2 rooms, one fault (rating store, directory or crash) | `TypeOK`, `Membership`, `SeatsReserved`, `AbsentOnTheClock`, `SeatKept` | rooms, connections, seats, countdowns and directory keys stay consistent |
| `rooms_live` | 3 connections, 2 usernames too far apart to be matched, 1 room, no faults | `NobodyLockedOut`, `RatedForTheWinner`, `Membership`, `SearchEnds`, `FinishedRoomCloses`, `AbsenceEnds`, `KeepsPromise` | nobody is locked out, ratings go to the first winner, everything that starts ends, and every step is one that Tables allows |
| `played` | a king and a rook against a rook, 1 x 3, each of the three front ends, an opponent that may name positions one step beyond the edge | `PlayTypeOK`, `SelectionFresh`, `LocalStaysOnBoard`, `PickedPieceMoves`, `OwnPiecesOnly` | between two clicks anything may happen to the picked piece; a local click moves it or nothing, no frame draws an outdated selection, a local game never leaves the board, and a request clicked on an old snapshot moves no piece of the opponent |
| `client` | one connection, 3 requests, 5 messages | `TypeOK`, `OneSearchAtATime`, `HeardAsSaid`, `ReadAsMeant`, `SentInOrder`, `NothingUnsentAtHangUp`, `ThreadEndsWithLink`, `ThreadEndsWithMain`, `CloseIsRead` | requests keep their order, none is lost when the client closes, the thread ends whoever closes first, a close in the queue is read, messages come out as they went in, no second search starts while one is on |
| `vanish`, `after_end`, `ticks_jump`, `seated`, `rated`, `client_dead` | | one each | section 7 |

`LocalStaysOnBoard`: at the window and in a script no piece stands, jumps or
flies beyond the edge. It is the front end alone that sees to it, with a mapper
that knows the edge, a layout that starts inside it and flights that are cut at
cells of their own path; of a network game it is false (section 7).
`Membership`: the connections of an open room are exactly those whose `room_id`
names it. `SeatsReserved`: every seat of an open room is backed by a directory
key, so no username gets a seat in a second room. `AbsentOnTheClock`: in a
running game exactly the players who are away have a countdown. (`Membership`
and `AbsentOnTheClock` are about every room but one that a failed directory left
half closed: the failure of one room must not disturb another.) `SeatKept`: a
side belongs to the username that got it first, through any number of
reconnects (which move the seat to the end of the table that roles are counted
from). `HeardAsSaid` and `ReadAsMeant` are about every message type the server
and the client send, with the fields' values varied as far as codecs tell them
apart. Each property has a mutant of a mapped definition, an operator of the
same module whose comment begins with "Mutant", that breaks it.

## 4. Bounds

*Engine.* `MaxClock` ends the modelled time: no flight or jump may end later,
no tick passes it. One unit is 500 ms: `MoveDuration` and `JumpDuration` are 2
(a cell or a jump take one second, so flights meet between cells at odd units),
`LongRest` 3 and `ShortRest` 1 are distinct and shorter than the modelled time,
so a piece can jump or rest and move again. Three pieces are enough for every case of the
arbiter's code, which treats pairs: two that meet and a third that stands or
flies where they fall back to; `MCKnights` has four. The pawn of `MCFlights` can
take its double step, capture on the diagonal and promote, and the two columns
have every encounter of a row in them. The boards are the
smallest on which the paths in question exist. `Margin` is 1 in `flights` and
`played`: one row or column is enough for a piece to leave the board, to stop
there, to be met there and to come back. It is 0 in the tick runs, whose two
copies it would make too large, and in `vanish` and `after_end`, whose
counterexamples stay on the board; the theorems are about every `Margin`.
`TickSizes` is `{1}` except in
the tick runs: larger ticks resolve more events per call, which `ticks` covers.

*Clicks.* Three cells in a row: a king and a rook of the player's between which
selections switch, and an enemy rook that can land on the cell of a selected
piece. At most one request is on its way (`Send`): two in a row are handled as
two at different times, each by the board it meets. Moves, jumps and rests take
one unit here, so that a piece can be picked up, moved and picked up again within
`MaxClock` 3; how flights meet is the question of `flights`, not of this run.

*Client.* Three requests and five messages: a request of the lobby and one of
the game behind the login; a greeting, a role and three messages of a game, so
that a batch can hold a snapshot, an event and a close. `client_dead` needs
fewer. The system stops when all threads have ended (`CHECK_DEADLOCK FALSE`).

*Server.* A tick is one round of the loop. `SearchTime` 1 (0 in `rooms`: the
first tick ends a search), `Countdown` 2 and
`Grace` 3 in `rooms_live` (where a second announcement of the end must
find the room open) leave room for a step of every other actor before, between
and after the ticks. In `rooms`, `Grace` is 1: a room closes in the tick in which
its game ends, unless a fault keeps it open; that members stay straight in a
finished room that waits is checked in `rooms_live`, and so is `KeepsPromise`: it
needs `Grace` above 1, or a room would be closed in the step that ends its game
and the end would be seen nowhere. That run has one table and no faults; what
several tables and faults do to the promise is left to the proof. Three connections let a player reconnect while the opponent
stays, four let it also be logged in twice; three usernames give a spectator.
Two rooms are the fewest in which a username could be seated twice; a match or
creation that would need a third room does not happen in the model. `MaxFaults`
bounds the faults. The rating of a username is fixed. `SYMMETRY` over
connections, usernames and rooms is used in the runs without liveness; their
usernames have the same rating, and every `CHOOSE` picks by position.

## 5. Fairness

`LiveSpec` of GameEngine has weak fairness of `Wait`: the server loop of a
networked game and the frame loop of a local one call it without end, and the
call itself is synchronous. No fairness is assumed of players.

`LiveSpec` of GameServer has weak fairness of `ServerLoop` (a task that sleeps
16 ms and runs again). Nothing is assumed of clients, nor that a connection's
coroutine ever goes on: they may never log in, never send, never drop.

`LiveSpec` of ClientConnection has weak fairness of each thread's next step:
the two polling loops and the blocking `get`s proceed when there is an item,
connecting succeeds or fails (websockets gives up after a timeout), and the
event loop runs its tasks. Nothing is assumed of the user, of what the server
says, or that the connection ever closes.

## 6. Proofs

Eight modules hold theorems, which are about every value of the constants that
satisfies the named `ASSUME`s of the modules. Each is proved the same way: an
invariant that is inductive, one lemma for each action that the action keeps it,
and a last step of temporal reasoning only. TLC checked each inductive invariant
on the instances of the runs before it was proved, except `TickInv`: it quantifies
over chains of any length, and TLC checked only what follows from it.

**GameEngineProofs**: every board size, set of pieces, start layout, duration,
tick size and bound.

* `TypeCorrect`. What is hard in it is that a motion, cut at a cell of its path
  any number of times, keeps a sensible path between its source and the
  destination that was asked for, wherever that lies: `PathInRectangle`,
  `IndexOfPathCell`, `TruncateType`, `TruncateStep`. It does not say that pieces
  stay on the board; the engine does not see to that.
* `PiecesPlacedOnce`. The strengthening is
  `IInv == TypeOK /\ PlacedOnce /\ ApplyingSome`; the last part says that
  arrivals are left to apply in the phase that takes the head of the list.
  Every handler of the loop either clears cells and drops motions, or puts one
  piece, which has just left the list of motions, on one cell.
* `LoopKeepsAdvancing` (`LoopAdvances`). What a piece has left to do is its path,
  two more while it flies and one more while it stands (`Remaining`); every
  iteration of the loop lowers it for some piece and raises it for none: a flight
  that is shortened and appended again has lost a cell (`CutShortens`), a piece
  that lands is in flight no more, a piece that is met is gone.
  `RemainingBounded` bounds it by height, width and margin of the board. So the loop
  ends; that the sum over the pieces falls and is never negative is left to
  the reader, who needs no more than that the pieces are finitely many.
* `LossesStay` (`LossesAreReal`) and `LossesPublishedOnce` (`EachLossOnce`).
  They need to know that the reports still to be applied are about pieces that
  are already gone, each reported once and by an enemy (`LossesExact`).

The second half of the module is about flights, from the invariant `FlightInv`.

* `FlightListKept` (`FlightListExact`): list and motions agree, each piece once.
* `FlightsKeepPace` (`PaceKept`): the division in `truncate_before` is exact
  because a flight's duration is a multiple of its path, and stays one.
* `NothingLeftBehind` (`NothingOverdue`). The strengthening `NothingLate` says
  that during a call no event lies at or before the *old* clock: an event that
  a handler brings about (a shortened flight meets somebody else, a landed piece
  is met) is never earlier than the one that was handled. This is why the time
  order of the loop matters.
* `PawnsGetPromoted` (`PawnsPromoted`), for boards on which no pawn starts on
  its own last rank (`PawnsStartBehind`): true of
  `constants.STANDARD_START_BOARD`; a board file can break it, and such a pawn
  is never promoted, since only arrivals promote. The invariant is that a pawn on
  its last rank in a running game has its arrival still in the batch.

**TickGranularityProofs**: `TicksDoNotMatter` (`SameResultWithoutJumps`) and, for
the motions instead of the board, `FlightsDoNotDependOnTicks`: every board, every
sequence of moves, every division of the time. One iteration of the loop is a
*link* from a position, that is a board and its motions, to the next one.
Without jumps the link does not depend on how far the call goes (`CoarseLink`,
`FineLink`) and there is only one from each position (`LinkIsUnique`), because
the sort keys of two events differ and the first event is one and the same
(`FirstIsUnique`). The invariant `Follows` is a chain of links from
the position of the fine copy to that of the coarse one, none of them later
than the time up to which the coarse copy has been told to go. The coarse copy appends a
link (`ChainGrows`), the fine one drops the first (`ChainShrinks`); a call that
ends without work is one whose next link lies beyond its clock (`ChainLater`),
and once the clocks agree the fine position has nothing due, so the chain is
empty (`ChainQuiet`). A request then meets two equal positions, and the chain
starts anew (`ChainEmpty`). The invariants of both copies, `FlightInv` above all, make
a link well defined; with a jump it is not, as finding `ticks_jump` shows.

**EngineFatesProofs**: `EngineKeepsFates`, the engine implements PieceFates
(`Spec => KeepsFates`). `InitialFates` maps the initial states, `StepSimulation`
each step to a step of PieceFates or a stutter; the invariant adds to `FlightInv`
and the losses that a king is a king from start to end.

**PlayedGameProofs**: all front ends, any interleaving of clicks, frames and
snapshots, an opponent that names any positions. `PlayTypeCorrect`,
`SelectionStaysFresh`, `OnlyThePickedPieceMoves`, `OnlyOwnPiecesAnswer` and
`LocalGamesStayOnBoard`. The invariant is the engine's with the types of
selection, snapshot and uplink; the last theorem needs that a move or a jump is
decoded to what was encoded. That a snapshot shows one piece per cell although
several pieces in flight may have left the same one needs the last of them by
piece id, which exists in every finite set of pieces. `LocalGamesStayOnBoard`
(`LocalStaysOnBoard`) has an invariant of its own, `OnTheBoard`: nothing stands
or jumps beyond the edge, and every flight has its source and its destination on
the board. A flight between cells leads over cells, however often it is cut
(`PathOnBoard`, `FlightWithin`), the loop puts pieces only where their flights
end (`ResolveOnTheBoard`), and a local request is about cells (`AskOnTheBoard`).

**ListProofs** and **GameSessionProofs** hold lemmas only: `Kept` keeps the
order and exactly the entries at the given places; then what each operation of
a session does to the set of its seats, to the countdowns and to the result, for
every session that is `Orderly` (one seat for each connection and each side, the
sides given out first, countdowns for seated sides only).

**GameServerProofs**: any number of connections, usernames and rooms, any
ratings, any number of faults of any of the three kinds.

* The inductive invariant (`ServerInvariant`) is `RoomsInv`, about rooms, seats
  and the directory, and `QueueInv`, about the queue. `SeatsReserved`,
  `Membership` and `AbsentOnTheClock` are not inductive alone: a key is deleted
  for the usernames of the room, so those have to be the names of its seats and of
  its connections (`NamesKnown`), each reserved for this room (`NamesReserved`);
  a connection may only enter a room when it is in no other one, which follows
  from its username having no key; a closed room is empty (`ClosedRooms`); a
  connection that is on its way in is nowhere yet (`Fresh`).
* `Lawful` says what a step does: it keeps the invariant, keeps who has which
  side (`SeatStep`), keeps the ratings right unless the rating store can fail
  (`RateStep`), and leaves no key behind unless the directory or the process can
  fail (`LockStep`). There is one lemma for every action (`LoginLawful` to
  `CrashLawful`); those that move connections into rooms share `MoveInKeeps`,
  those that close rooms `CloseRoomsKeeps`, those that leave `LeaveKeeps`.
* From it `ServerTypeCorrect`, `MembersKnowTheirRoom`, `SeatsAreReserved`,
  `TheAbsentAreOnTheClock` and `SeatsAreKept` follow whatever fails;
  `NobodyStaysLockedOut` when `Faults` has neither "directory" nor "crash", and
  `TheWinnerIsRated` when it does not have "rating". The hypotheses are needed:
  section 8 tells what happens without the first one; without the second, a
  second announcement of the end is rated when the store failed at the first.
* `TheServerKeepsItsPromise` (`KeepsPromise`): the server implements Tables,
  whatever fails. It adds `Tidy` to the invariant: somebody sits in every open
  room (a table where nobody sits announces nothing), a session whose grace has
  begun to run is over (`Timed`), and what is over has a result (`Decided`); so
  that a room closes in a tick only when its table has one. First come lemmas of
  what an operation on a session does to its table (`PlaceAtTable`,
  `ReconnectAtTable`, `LeaveTable`, `RoundAtTable`), then one for each action that
  names the step of Tables it is (`CreateRoomTables` to `CrashTables`). That
  nobody sits down at a second table follows from the keys of the directory
  (`NoKeyNoSeat`), that the last one to leave is not both players from the
  order of the seats (`LastIsAlone`). The hypothesis is `Grace > 1`; in the code
  it is 10 seconds of 16 ms ticks.

**ClientConnectionProofs**: any number of requests and messages.

* `ClientTypeCorrect`.
* `RequestsStayInOrder` (`SentInOrder`) and `HangUpComesLast`
  (`NothingUnsentAtHangUp`) from `QueueInv`: what has been sent, what the worker
  or the coroutine holds, and what waits in the queue are the numbers of the
  requests, one after the other, with the sentinel behind all of them.
* `SearchesOneByOne` (`OneSearchAtATime`) from `SearchInv`: the Play button is
  shown only when the number of answers read is that of the searches asked for.
* `NothingIsDistorted` (`HeardAsSaid`) and `RequestsAreUnderstood`
  (`ReadAsMeant`): `Decode` undoes `Encode` for every message type, field by
  field. The values of the fields are those that ClientConnection varies.

Every theorem that has the name of a property in its statement says for all
values of the constants what a run shows on an instance.

## 7. Where code and words disagree

Each of these is a run that TLC must find violated; the counterexample is the
shortest sequence of calls.

* `vanish`: a flight cut back to its own source, which a friend has taken in
  the meantime, is dropped by `_resolve_arrival`: the piece is nowhere and no
  event says so. The tests speak of a shortened flight landing normally.
* `after_end`: a flight left over when the game ends still publishes its
  promotion, or the end of the game once more, perhaps with the other winner. A
  test says that leftover resolutions publish nothing.
* `ticks_jump`: a jump also intercepts flights that arrive after its end, when
  both fall into one call of `wait`. A test claims that big and small waits
  give the same result.
* `seated`: a seeker may open or join a private room and stays in the queue;
  the expiry of its search, or a match that comes too late, sets its state to
  LOBBY while it is seated, and its moves are rejected from then on.
* `rated`: when the rating store fails at the end of a game, nothing retries,
  although the comment on the call says that it must not be skipped.
* `client_dead`: a clean close, or a connection that cannot be opened, ends the
  background thread without an item for the main thread: the login waits
  forever, lobby and window go on as if connected. A test says that exactly
  this must not happen. The lobby also drops a close that it drains in one
  batch behind the first snapshot.

`NobodyStranded` of GameServer does not hold either and is not a run: a
username on two connections may be matched with itself; when one side drops and
comes back, `_replace_participant_in_room` takes out the live entry of the
other side as the stale one, and the room closes without resetting that
connection. No document says whether a username may play itself.

`LocalStaysOnBoard` cannot be said of a network game: `handle_move`
(`server/session.py:139-148`) passes the positions of an intent on,
`request_move` (`engine/game_engine.py:94`) hands them to `validate_move`
(`rules/rule_engine.py:17-39`), and none of them asks `Board.in_bounds`. A king, a
queen, a rook, a bishop or a knight, or a pawn that steps ahead, may be sent
beyond the edge by a client that is not this program's; it
flies, lands and stands there, and can come back. No document, comment or test
says what is to happen (the tests of a click out of bounds are about the
mapper), so it is no run. All other properties of the engine are stated and
proved with such positions in play.

With `Faults = {"crash"}` `NobodyLockedOut` fails as well: the keys of the dead
process stay for six hours, and the reservation scripts ask only whether a key
exists. `room_directory.py:11-14` calls the liveness of the shard the real
staleness check; only lookups that nothing calls make it.

## 8. Model-checked only, and not modelled

Liveness (`EveryFlightEnds`, `SearchEnds`, `FinishedRoomCloses`, `AbsenceEnds`,
`ThreadEndsWithLink`, `ThreadEndsWithMain`, `CloseIsRead`)
is beyond the prover and checked by TLC; of `EveryFlightEnds` the part that is
no liveness, that the loop cannot go round in circles, is proved as
`LoopAdvances`. Every safety property of the runs that pass has a theorem. The
properties of the runs that expect a violation are false and have none.

Not modelled: what of the snapshot only the drawing uses (render positions,
`rest_remaining_fraction`); the displayed second of a countdown; sending and its
failures, which the server ignores; the heartbeat (one failed write ends the
server loop, and with it every behaviour), key expiry and a room construction
that raises; a change of ratings, which matter to the choice of an opponent
only; passwords, SQL and the ELO formula (one process serves all rooms, and the
store's calls follow one another); the JSON text and malformed messages (a
position on the wire is a pair of integers, any within `Margin` of the board);
drawing, sound, animation, the client's list of moves and score, which follow
events and change nothing else; the parsers of boards and scripts; the client's
pop-ups and its retry of a login.

With the directory fault `SearchEnds` does not hold: when the reservation of a
match raises, the opponent has left the queue but is told nothing, and its
client shows "Searching..." until it is restarted. Nor does `NobodyLockedOut`:
the users of a half-closed room are locked out until their keys expire. No
document says what is to happen when Redis fails, so neither is a run.

## 9. Plan

Done: the engine and the server with their abstract specifications, the click
controller on the engine and on snapshots, the wire protocol, the faults of the
server and the client's connection, and proofs of all their safety properties.
Left:

1. That the model of a session in GameServer, an engine that may announce the end
   in any tick, is what GameEngine does.
