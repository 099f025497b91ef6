# A TLA+ development of puzzle-bubble

puzzle-bubble is a multi-player bubble shooter: a lobby, rooms and game sessions
behind a TCP gateway, written in Go. The modules here model the parts that decide
who is in which room, who wins a game, and what a shot does to a board. TLC checks
them on small instances; TLAPS proves their invariants and action properties, and
that the room manager and the game service implement abstract specifications, for
all instances.

## The system

| Component | Source | State | Operations | Hard behaviour |
|---|---|---|---|---|
| Room manager | `internal/room/service.go` | `rooms`, `playerRoom`, per room an owner, roster, ready flags, state and command log | create, join, ready, start, leave, submit, pull | two tables that must agree; owner hand-over; a bounded log; frames |
| Combined service, games | `internal/gamesvc/server.go` | `sessions`, `wsConns` under `Server.mu` | create a session, connect, shot/land/aim/heartbeat, state tick | settlement calls the room manager with its own lock held; timeouts; sessions replaced under live sockets |
| Combined service, presence | `internal/gamesvc/server.go` | `roomWS`, `roomLastHB`, `roomOfPlayer`, `roomMonitor` under `roomMu` | connect, message, leave, monitor pass | a goroutine per room that ends itself; evictions in several critical sections |
| Bubble engine | `internal/gameplay/engine.go` | one `PlayerState` per player | begin shot, commit landing, fire, tick, add layer | hexagonal neighbours, matching, falling, reprojection |
| Lobby UI server | `internal/ui` | its own copy of rooms and seats, boards, tickets, the layer timer, event channels and sockets, under `Server.mu` | create, join, poll, start, leave; shots; frame loop; events | every call to another service is made with the lock dropped, so replies overtake each other; a start is two critical sections round two calls |
| Monolithic server | `internal/mono` | rooms, seats, boards, tickets, sockets, heartbeats under one mutex; users and tokens in SQLite | create, join, leave, start, room socket, heartbeat pass | seven tables per game; joining does not leave; sockets checked and registered in two sections; late cleanups |
| TCP gateway | `internal/gateway` | `sessions`, `playerIndex`, `wsByPlayer` | authenticate, heartbeat, forward, push, lobby socket | two logins of one player, kick against unbind, push against replacement |
| User system | `internal/usersystem` | tokens in Redis, with a time to live | login, verify, refresh | sliding expiry |
| Push, proxy, clients, protocol, stubs, configuration, commands, web client | the rest | little or none | forwarding, framing, wiring, rendering | none of their own |

The gateway forwards room requests over gRPC to the combined service, which embeds
the room manager. The lobby asks the same service for a game session
(`CreateSession`) and hands the tickets to the players' browsers, which open one
WebSocket per player. Each game socket has a reading goroutine and a 70 ms state
tick. The engine is called under `Server.mu`. The monitor goroutines and the
settlement of a game call `LeaveRoom` on the room manager, which has a mutex of
its own: that is where the components meet.

What makes each modelled component correct:

- room manager: the two tables agree, every room has an owner among its members,
  the shown state fits the roster, polling loses no command;
- games: at most one winner, who outlasted the others; the losers are evicted once;
  the lock is always released; the silent lose;
- presence: one monitor per room, the registered socket is the open one, every
  tracked player can become overdue, and the overdue are evicted;
- gateway: a player has one connection of each kind, the tables name the connections
  that are being served, and a login that displaces another ends it;
- lobby: its copy of a room has an owner who is a member and no game of one player; a
  started game can be entered; the winner outlasted the others; the copy catches up;
- monolithic server: a game is in all tables or in none, a seat is a membership, a
  socket belongs to somebody in the room, the winner outlasted the others;
- engine: after a landing nothing hangs in the air and no match of three is left,
  nothing else disappears, and the score counts it; a layer costs no bubble.

## Modules

| Module | What it is |
|---|---|
| `GoMap` | maps as functions: `EmptyMap`, `Put`, `Del` |
| `RoomDirectory` | abstract: who is in which room, and who hosts it |
| `RoomManager` | the room manager; implements `RoomDirectory` |
| `RoomManagerProofs` | inductive invariant, theorems, refinement proof |
| `Elimination` | abstract: players drop out of a game, and the last one wins |
| `GameServer` | games of the combined service, extends `RoomManager`; implements `Elimination` |
| `GameServerProofs` | its inductive invariant, theorems, refinement proof |
| `RoomMonitor` | presence of the combined service, extends `RoomManager` |
| `RoomMonitorProofs` | its inductive invariant and theorems |
| `BubbleEngine` | one player's board |
| `BubbleEngineProofs` | its inductive invariant and theorems |
| `Recursion` | induction and recursive functions on intervals of the naturals, for the proofs |
| `Gateway` | TCP sessions, lobby sockets and pushes |
| `GatewayProofs` | its inductive invariant and theorems |
| `LobbyServer` | the lobby's copy, its calls in flight and its games, extends `RoomManager` |
| `LobbyServerProofs` | its inductive invariant and theorems |
| `MonoServer` | the single-process server |
| `MonoServerProofs` | its inductive invariant and theorems |
| `MCRoomManager`, `MCGameServer`, `MCRoomMonitor`, `MCBubbleEngine`, `MCGateway`, `MCLobbyServer`, `MCMonoServer` | model values and symmetry for TLC |

Names of definitions follow the source (`updateRoomState` is
`updateRoomStateLocked`, `placeAndResolve` is itself); a definition marked
"Mutant" is a wrong variant of the one after it, used to show that a property
notices, and is part of no specification.

### RoomManager

One action per method of `Manager`, atomic because each holds `Manager.mu` from
start to end; `RMNext` is the dispatch of `HandleGatewayMessage`. An error return is
a disabled action, since it changes nothing. The clock `now` stands for both the
nanosecond clock that gives room ids and the one frames are measured by; it moves
between a creation and the next critical section. Picking the next owner by
ranging over a Go map is a choice of any remaining member. `PullInputs` is an
operator: it changes no state, and `PollsMissNothing` says what it returns. Room
names and command payloads are left out.

### GameServer

A critical section of `Server.mu` is one action, except where the code calls out
of it: a decided game starts a `settling` (entered by `Store`, inside the landing
or tick that decided it), and each `LeaveRoom` of a loser is a step, between which
other clients use the room manager. `MutexFree` keeps everything else that needs
`Server.mu` waiting. Sessions are never deleted and are replaced by a new
`CreateSession` for the room, which the handlers of old sockets do not notice.
Tickets are modelled by who may connect: only the players of the present session.
A message read just before its connection was closed is still handled. Heartbeat
age is a set `stale`, which the clock may enlarge at any time. The process
crashes (`crashed`) where a goroutine without a recover dereferences nil; a panic
inside an HTTP handler ends that handler only. A landing yields any status: the
board is `BubbleEngine`'s. `TickState` does nothing here, because this service
never calls `Fire` and so never has a moving bubble.

`Elimination` is what remains of this for a player: a game begins with two or more, some
drop out, a sole survivor has won, and the win is settled. `GamesPlayed` shows each
session as such a game (`GameOf`): its players, those not on "lose", the winner if there
is one, and `finalized`. A landing or a tick of the service is one `Fall`, of all the
players it fells, so that the last ones may fall together and nobody wins. No step
of the abstract game is possible between a win and its settlement except the
settlement, which is what holding `Server.mu` over the evictions is for.

### RoomMonitor

Each critical section of `roomMu` is one action, and so is each call of the room
manager outside it: a leave request is `LeaveRequest`, then `LeaveCleanup`; a
monitor is a small program `scan`, `evict`, `cleanup`, `exit`. A room or game socket
may name any room id handed out so far, since pages and tickets survive the rooms
they came from. Of a game socket only the section that tracks its player is
here; its other half is in `GameServer`. A player has one leave request and one
game socket at a time. The history variable `missed` has the rooms in which somebody
was tracked while the room's monitor had made its last pass and still held its flag:
`ensureRoomMonitorLocked` then starts none, the flag goes, and the player has no
monitor until the next message. `TrackedAreWatched` says that this is the only way
to have none; it is reachable.

### BubbleEngine

The coordinates are the code's integers (radius 16, row gap 28); only the size of
the board is a parameter. `Round` is `math.Round`, halves away from zero. `Reach`
is the breadth-first search of `clearMatches` and `dropFloating`, by waves. Angles
and speeds are left out: a bubble the server flies goes to any point that is
not lower, stopped at the walls, which includes every real flight between those
points. `shot` is `ShotColor` while `PendingShot` holds and `Empty` otherwise;
nothing reads it in between. `AddTopLayer` has the guard of its callers
(`canAddLayer`), for the one player modelled. Bubbles with nothing to hold them
may be on the board `NewInitialState` draws, so the properties do not assume
otherwise.

The properties are stated without the code's searches: two cells touch by the
distance of their centres, and a board is `Anchored` when every set of bubbles
below the top row touches a bubble outside the set.

### Gateway

`sess` holds where the handler goroutine of each TCP session is: `reading`,
`verifying` a token, `binding` it to its player, `leaving` (out of `sessions`),
`deleting` its entry, `gone`. `playerIndex` is a `sync.Map`, so the Load, the Close of
the old connection and the Store of a login are three steps (`AuthAccepted`, `Kick`,
`Bind`), and an unbind is two (`UnbindLoad`, `UnbindDelete`). A session may
authenticate again as another player, as the code lets it. `wsByPlayer` changes under
`wsMu`, each time in one action; a push reads its targets under `wsMu`, writes
outside it, and deletes the entry of a failed target in a section of its own. The user
service is external: it accepts a token as any player's, or refuses it, at any
time. Timeouts and refused heartbeats are failed reads.

Two history variables say which races have happened. `raced` has the sessions that
were between a Load and the Store or Delete after it while another session of the player
was, too; `OneSessionUnlessRaced` says that nothing else gives a player two sessions.
`dropped` has the lobby sockets whose own entry was deleted by a push that had failed on
another socket of the player; `OpenSocketsGetPushes` holds for all others, also after a
failed push and a reconnection. Both exceptions are reachable.

### LobbyServer

It extends `RoomManager`, so that the room service's tables and the lobby's copy of
them are in one state. A request is a member of `calls`: its remote part (an operation of the
room manager, or `CreateSession` of the game service) puts a reply there, and applying
the reply is a later action, so any other request may overtake it. `createRoom`,
`handleJoinRoom` and `handleRoomDetail` end in `syncRoomCacheFromRemote`, which
replaces the copy of a room by the reply. `handleStartGame` is four actions: the first
critical section, `CreateSession`, `StartRoom` (the room service starts the room its own
table has for the player, whatever the request names) and `FinishStart`.
`handleLeaveRoom` is the remote leave, whose error is ignored, and `LeaveCopy`. With
`CallsMayFail`, a call ends with an error after or before the service did its part.
`Evicted` is what the combined service does behind the lobby's back.
`rooms` and `roomMembers` are written together and are one table `item`;
`roomGameAddr` and `roomTickets` are `tickets`, which remember the number of the
session they are for. `StepRoom` is the frame loop for one room: flight, outcome, layer.
`busy` is a moving bubble or a pending shot, so a tick may bring either to rest.

The lobby is not the only way to the rooms: the TCP gateway forwards `CreateRoom`, `JoinRoom`,
`StartGame` and `LeaveRoom` to the same room manager (`HandleGatewayMessage`,
gamesvc/server.go:486), of which the lobby learns from later replies. `GatewayRequest` and
`GatewayStart` are these for the players in `GatewayPlayer`, next to the requests of those in
`LobbyPlayer`, who may be the same; a leave is an `Evicted`. The game service has no session for a
room started that way.

`UnexcusedStartsCanBeEntered` says that every member of a room that plays, with no start of it
in flight, has a ticket of its latest session, unless since the last request to start it

1. it was started through the gateway;
2. a second start was requested before the first had ended;
3. the room service started another room than the request named, or the room with a
   member who joined after the tickets were asked for;
4. a call of the start failed or was refused, or its second section kept no tickets:
   the copy was gone, short of members, had a member without a ticket, or a reply had
   made it play;
5. the lobby ended the game of its copy when the last opponent there left, while the room
   service, whose members the copy did not have, played on.

The history variable `excused` has these rooms. All five can be reached. What is left to check is
a start that the other replies, joins, leaves and evictions overtake, and all that happens to
the room afterwards. Run `start_race` shows a case of the fourth.

### MonoServer

One mutex guards everything, so an action is a whole request, message, tick or
pass, except that a room socket's handler checks the seat (`WSCheck`), registers
(`WSRegister`) and cleans up (`WSCleanup`) in three sections. `RoomsWithout` is
`removePlayerLocked` for a set of players: the heartbeat pass removes all late players
in one section. Joining a room does not leave the one the player has a seat in, where it
stays listed: `strayed` remembers those, and `SeatsAreMemberships` excepts them.
`loose` has the sockets that the tables lost sight of, because the handler of an older
socket deleted their entry or because their player left between check and
registration; `SocketsFollowMembers` excepts them. Both exceptions are reachable.
Server-side flight is left out because nothing in this server calls `Fire`. A player who
never opened a room socket has no heartbeat and is never removed, as in the code.

## Runs

| Run | Checks | Instance |
|---|---|---|
| `rooms` | types; tables agree; owners, ready flags and seats; state against roster; log is the tail; polls miss nothing; frames; `RoomManager` implements `RoomDirectory` | 3 players, capacities -1 and 3, 2 clock steps, frames of one step, log of 2, 3 commands; symmetric players |
| `games` | types; the winner outlasted all; decided means settled | 3 players, 2 connections, 1 session; symmetric |
| `games_progress` | `GameServer` implements `Elimination`; settlements end; overdue players lose | 2 players, 1 connection, 2 sessions, one room |
| `presence` | types; one monitor per room; open sockets are registered; tracked players have a heartbeat and, unless `missed`, a monitor | 2 players, 2 room sockets, 2 goroutines; symmetric |
| `presence_progress` | late players go | 1 player, 2 rooms |
| `board` | types and status; nothing hangs; matches cleared; only the unheld fall, and the score counts all that goes; layers lose nothing | 4 x 3 board, 2 colours, 2 shots, 2 layers, 3 points where a bubble may stop; symmetric |
| `gateway` | types; entries name running handlers; one session per player unless raced; open sockets get pushes; displaced sessions end | 1 player, 3 connections of either kind, 1 push at a time |
| `lobby` | types; copies have an owner among the members; playing copies have two; unexcused starts can be entered | 2 players of the lobby and one of the gateway, 1 room, 2 calls in flight, 1 session; no boards in play, no failing calls; symmetric |
| `lobby_play` | winners outlast; the copy catches up | 2 players of the lobby, one of them shooting, 1 room, 2 calls, 1 session, calls may fail |
| `start_race` | violated: a started game that nobody can enter | 2 players of the lobby |
| `mono` | types; games are in all tables or none; seats are memberships; sockets follow members | 2 players, 2 rooms, 2 sockets, which one player opens for one of the rooms (`Watched`), capacity clamped to 2; symmetric sockets |
| `mono_three` | winners held out | 3 players, 1 room, 1 socket; symmetric players |

Why the bounds are enough. Three players are the least with which an owner hands
over to one of two, a game has two losers to evict, and a player can be outside
a full room. A log of two and three commands trims and goes on. A room that starts at one
clock reading and again at the next would number its frames afresh if the start time
were reset. Two sessions of a game are what it takes to replace one, and one socket
is enough to outlive the replaced session: that is `games_progress`, which also has a
player who falls while the other does, too; three players and two sockets meet in one
session, in `games`. Two goroutines would let a second monitor appear.
Four rows and three columns hold both parities of rows, a losing row, groups of
three round a corner, and an odd row that has its last two bubbles fall on the same
column; three full rows, after two layers, also give the case of a landing with no free
cell in reach. The points are off the centres of cells of an even row, of another one with the
row above and below it in reach, and outside the field.

Three connections are an old session, its successor, and a third that
meets what their race left behind; likewise a push fails on one lobby socket, before or after
a second replaced it, and a third registers. One player has all
of them: the code relates connections of different players nowhere, except that a session
may authenticate as another player, which the theorems
cover and the larger instance below.

The lobby needs three players for one who joins between the first section of a start
and the room service's, and two calls for one to overtake the other. In run `lobby` the third
joins, starts and leaves through the gateway, which also ends a start that is in flight or
keeps one from beginning. More of it was run by hand, with no boards and no
violation: two players who use both ways, with two sessions (0.2 million states up to symmetry); two who use the
lobby and a third the gateway, with two sessions (6.3 million); three who use the lobby, with
two sessions (1.7 million), and the same with one of them on the gateway, too (11.6 million); a second
room (`MaxTime = 3`) of two players of the lobby, with one session (1.4 million), which adds the start
of another room than the request names. With boards, one shooting player and layers reach every status;
`Shooter` bounds who looks at a board and who shoots. The single process needs two
rooms for a player listed twice, two sockets for one that outlives its successor's
registration, and three players for one who leaves or joins a game that goes on.

The instances are as small as these cases allow, so that a run takes a minute or less. Larger
ones were run by hand, with no violation: that `GameServer` implements `Elimination` with
three players and two connections (0.8 million states), `games` with two sessions, `gateway`
with two players (1 million) and with four connections (0.7 million), `rooms` with a clock step more. The theorems have no such bounds.

Symmetry is used where players, connections, sockets or colours are only compared,
and in no run that checks a property with fairness.

Deadlock is not checked: clocks, commands, sessions, rooms and shots are bounded, and a run
of the model may end when the bounds are used up.

### Fairness

`GSSpec` assumes weak fairness of each handler's tick, of the next eviction and of
the end of a settlement: a ticker fires and a goroutine that holds a mutex runs on.
The eviction waits for no lock but the room manager's, whose sections are short.
`MonSpec` assumes weak fairness of each monitor, for the same reason. `GwSpec` assumes weak
fairness of a session's handler where it does not wait for its peer: the user service
answers or times out, a write has a deadline, and a read of a closed connection
fails. Clients are
assumed to do nothing: no message, disconnection or request has fairness. So
`OverduePlayersLose` holds only while somebody has a socket of the game, and
`LatePlayersGo` only while the room's monitor runs, as stated in them;
`missed` shows how the second condition can fail.
`LobbySpec` assumes weak fairness of each call in flight (the clients have timeouts) and
strong fairness of polls and of their replies; run `lobby_play` has no players on the
gateway, so that everybody in a room has its page open: every page in a room polls it
every three seconds (`web/assets/room.js:170`), each of its requests may fail, and not all do.

### Where the code and its texts part

`start_race` shows a game that starts and cannot be entered: the owner's page is told
`already_started` without a ticket, and every page in the room then says "Game is starting,
waiting for session ticket..." (`web/assets/room.js:85`), since the next start is refused as well.

The models also have these behaviours, which no property forbids; each was found
as a counterexample of the statement it breaks:

1. A player who has left the game's room for another is thrown out of the new one
   when the game is decided (`finalizeRoomAfterWinLocked`, gamesvc/server.go:347).
2. If the last players of a game are found overdue in the same pass, there is
   no winner, now or later, and the room state stays "playing" (gamesvc/server.go:332), and
   likewise if one layer fells all (ui/game_state.go:112, mono/server.go:768).
3. After a session is replaced, an aim of a player who is not in the new one is a
   nil dereference in a goroutine, which ends the process (`crashed`, gamesvc/server.go:265);
   shots and landings are refused.
4. A player tracked while the room's monitor ends has no monitor (gamesvc/server.go:720).
5. `Fire` ignores a pending client shot (engine.go:198).

## Proofs

The theorems hold for all values of the constants that satisfy the named assumptions:
finite sets of players (`PlayerAssumption`), who use the lobby, the gateway, both or neither
(`LobbyPlayersAssumption`), and of the lobby's calls (`CallAssumption`),
bounds that are natural numbers, capacities that are integers, a `NoOne` or `None`
that is no player, a board of at least two rows and one column (`BoardAssumption`) with its launcher more
than a bubble's radius below the top (`PointsAssumption`; the code has 688 and 16), and `Empty` no colour.
The bounds of the runs (clock, sessions, log, size of the board) are parameters of the
theorems. Every invariant and every action property that a passing run checks is
proved; none of the invariants is inductive but those of `MonoServer` and `BubbleTypeOK`.
What each proof adds to them is the following.

`RoomManagerProofs`: `TypeCorrect`, `MembershipSafe`, `TendedSafe`, `StateSafe`,
`LogSafe`, `PollsSafe`, `FramesSafe` are the invariants of run `rooms`, and
`Refinement` is `RMSpec => ImplementsDirectory`. `RMInv` joins what they need of each other,
room by room: `RosterInv` (members are those the player table sends there, the
owner is one of them, within capacity), `StateInv` (the state fits the roster),
`LogInv` (the log is the tail of the sequence) and `FrameInv` (a room that is playing
or has commands has a start time, not in the future; the frames of its commands
do not decrease and are at most the frame the clock would give now, whether or not the
room is playing). The last is needed because a room that falls
back from Playing keeps its start time: without it nothing bounds old frames when it
starts again. `PollsSafe` follows from `LogInv` and from what the loop of `PullInputs`
returns, by induction over the log (`PullsTheRest`). There is one lemma per action, then `RMInvInductive` and
`RMInvAlways`, from which each theorem follows. For the refinement, an action
that leaves the directory's variables alone is shown to stutter (`SameOwnerStutters`),
and the three others map to `Open`, `Enter` and `Exit` (`ManagerSteps`). The modules that extend
`RoomManager` use `RMInv` and its lemmas for the steps the room manager takes in them.

`GameServerProofs`: `GSTypeCorrect`, `WinnerSafe`, `DecidedSafe`, for the steps
`WinnerFinal` (a winner is final as long as the session is not replaced) and the refinement
`GamesEliminate`, which is `GSSafe => ImplementsElimination`. `GSInv` says of every session that a named winner is one whom all others
have lost to (`WinnerInv`) and that a sole survivor has been named (`SurvivorInv`): the
first is needed for the second to name nobody anew. `SettlingInv` ties the settlement, which
goes on over several steps while players use other rooms, to a game that has a winner and
is not settled; `ConnsInv` keeps the handlers on sessions that exist.

For the refinement, whatever a landing or a tick stores is related to the session before it
by `GoesOn`: the same players, nobody back in the game, and a winner who stays or has just
been left alone. `GoesOnFalls` maps that to a `Fall` of the players who are out, or to a
stutter if there are none: then a sole survivor was one before, and `SurvivorInv` says
that it has been named, so the outcome rule, which runs again, names nobody anew.
`FreeMeansSettled` gives the guard of `Begin` and `Fall` from `SettlingInv`, and that
`Settled` is a `Settle`, once per game, needs that a game whose settlement goes on is not
settled yet, which `SettlingInv` had to be strengthened by.

`GamesRunManager` is `GSSafe => RMSpec`: every step of the service is a step of the room manager
or leaves the rooms alone, so the theorems of `RoomManagerProofs` hold inside the
service. `GamesKeepDirectory` is `Refinement` carried over by it.

`RoomMonitorProofs`: `MonTypeCorrect`, `OneMonitorSafe`, `RegisteredSafe`, `WatchedSafe`.
`OneMonitorPerRoom` needs that a monitor holds its room's flag until its last step, and
`TrackedAreWatched` that one which is ending leaves nobody behind who is not in `missed`
(`MonitorInv`). `PastInv` names rooms by past clock readings: a new room is one that
no monitor, tracked player or flag belongs to.

`GatewayProofs`: `GwTypeCorrect`, `EntriesSafe`, `OneSessionSafe`, `PushesReachSafe`.
Binding and unbinding act on an entry of `playerIndex` they loaded in an earlier step.
`BindingInv` says that whoever is registered when a session stores its own entry was in the set it
kicked, or raced; `DeletingInv` that a leaving session deletes its own entry, or that
of one that raced. From both follows that a served session that did not race is
registered (`ServedInv`), and so that it is the only one. `WsInv` says that a lobby socket
that is read and open is registered unless it is in `dropped`. `PushInv` says that a
socket whose entry a push is about to delete is closed: so the deletion either takes the entry of that socket, which needs none any
more, or that of another one, which goes into `dropped`.

`MonoServerProofs`: `MonoTypeCorrect`, `GamesSafe`, `SeatsSafe`, `SocketsSafe` and, for the
steps, `WinnersSafe`. The four invariants of run `mono` are inductive together, and in no
part: a leaver's socket is found through its seat, and whether a game stops is decided
by who is still seated.

`LobbyServerProofs`: `LobbyTypeCorrect`, `CopiesTendedSafe`, `OpponentsSafe`,
`EnterableSafe` and, for the steps, `LobbyWinnersSafe`. `LobbyInv` adds to the tables
what the calls in flight carry: a reply has a room whose owner is a member and which, if it
plays, has two (`CallsInv`, from `StateInv` of the room manager), since applying it
replaces the copy. `RaceInv` describes a room that is not excused: it has one start at most, whose
session is the latest; when the room service has done its part, the start has asked for a
ticket for every member; once no start is left and the room plays, every member has one. `ReadyInv` (nobody in the lobby is
ready) says that a room whose members change stops playing, so no step
of the room service but `StartGame` brings it to play. That a start may begin another room than it names is a case
run `lobby` cannot reach with its one room: a reply computed earlier makes a
player owner of the copy of a room it has left, it starts that room while it hosts another, and
the other one begins to play. The request then finishes as if its own room had started.

`LobbyKeepsDirectory` is `LobbySafe => ImplementsDirectory`. The lobby clamps the capacity it passes
on to 2..8, so its rooms are not all rooms of `RMSpec` with the same `Capacities`; `ManagerSteps` is
therefore stated for a `CreateRoom` with any integer.

`Recursion` has what the proofs about loops rest on. The library states induction for an
operator as a parameter, which the provers cannot instantiate, so `Induction` is stated for a
set of numbers. A recursive function is by definition some function that satisfies its
equation; that there is one, and only one, is `RecursionExists` and `RecursionUnique`.

`BubbleEngineProofs`: `BubbleTypeCorrect` and, for the steps, `LayersCostNothing`, `MatchesGo`,
`UnheldFall`, `NothingHangs`. Each action property follows from the type and from
what the functions of the engine compute:

- `Reach` runs as many waves as there are cells to add; a wave that adds none ends the
  search, so the set is closed under neighbours (`ReachClosed`) and everything in it is
  linked to a start (`ReachLinks`). The neighbours of the code's tables are the cells
  that touch by distance (`NeighborsTouch`), so the properties, which do not mention the search,
  follow: a completed match is cleared (`LandingClearsMatches`), what is not held falls
  (`LandingAnchors`), and each bubble is paid for once (`LandingPays`).
- A bubble lands within the board because the search for the nearest free cell returns a
  cell (`NearestIsCell`, `NearestEmptyIsNearby`).
- A push goes column by column (`PushedByColumn`). An even row arrives unchanged
  (`PushedEven`); an odd row arrives one column to the right, and its last bubble, which has no
  column to go to, takes the gap nearest to the last column (`SlotIsNearest`, `PushedOdd`). So no two
  bubbles get the same cell and every row keeps its colours (`GoalsDiffer`, `RowCount`). Bubbles
  that touched touch again, or are joined by the unbroken run of bubbles between the last one's gap
  and the last column (`LastJoins`, `TouchKept`), which is why a layer leaves nothing hanging
  (`LayerAnchors`) although `AddTopLayer` does not drop floating bubbles.

The type proof needs the assumption on the launcher: one within a radius of the top would
start a bubble outside the area in which `BubbleTypeOK` says it flies.

Only model-checked is liveness, under the fairness stated above: `SettlementEnds`,
`OverduePlayersLose`, `LatePlayersGo`, `DisplacedSessionsEnd`, `CopyCatchesUp`. The
provers have no rules for fairness and ENABLED.

## Plan

1. Done: `RoomManager`, `RoomDirectory`; `GameServer`; `RoomMonitor`; `BubbleEngine`;
   `Gateway`; `LobbyServer`; `MonoServer`; the proofs of all their invariants and action properties;
   `Elimination` and the proof that `GameServer` implements it.
2. That `MonoServer` implements a variant of `Elimination` in which players also leave a game
   and nothing is settled.
3. `LobbyEvents`: the event channels of `handleRoomEvents` (16 deep, the newest
   dropped when full, closed by their handler after it unsubscribed) and the sockets of
   `handleGameWS` and `handleLobbyWS`.
4. `SessionClock`: the deadlines of `handleConn` (read, idle, authentication) on
   a clock, which `Gateway` leaves out: a silent session ends within `IdleTimeout` plus
   `ReadTimeout`; authentication is only timed when a read times out.
5. `Tokens` (`internal/usersystem`): issue, verify, sliding refresh, expiry.

## Not modelled

Message framing, JSON and protobuf conversion, SQL, configuration, logging, process
start and shutdown, and rendering in the browser: they keep no state the properties
above depend on. Writes to a connection are not modelled either: no lock of the code
orders the goroutines that write to one, so there is no property of them to check.
The loss of a service process is modelled only as the end of the behaviour:
its state is in memory. Every access to a table is under the mutex that guards it, or an
operation of `sync.Map`. One data race is known and left out: the lobby
encodes a reply from a shared `*RoomItem` after it released its lock
(ui/server.go:538), while the frame loop may change the room's state. Of the lobby, the
event channels and sockets are left out: a closed socket or a lost event changes no
table of `LobbyServer`. Of the
monolithic server, users and tokens (rows of SQLite, each used by one statement) and the set
of lobby sockets are left out.
