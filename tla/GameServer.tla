----------------------------- MODULE GameServer -----------------------------
(***************************************************************************)
(* The game half of the combined room-and-game service                     *)
(* (internal/gamesvc/server.go): game sessions, the game WebSocket         *)
(* handlers and the settlement of a decided game, running against the room *)
(* manager the service embeds.                                             *)
(*                                                                         *)
(* Server.mu guards sessions and sockets.  Every critical section is one   *)
(* action, except the settlement of a decided game: it keeps Server.mu     *)
(* while it calls LeaveRoom once per loser, and the room manager serves    *)
(* other requests in between.  `settling' is that critical section; while  *)
(* it is not NotSettling, Server.mu is taken.                              *)
(*                                                                         *)
(* A heartbeat older than HeartbeatTimeout is a member of `stale', which   *)
(* the clock may grow at any time and a message shrinks.  What a landing   *)
(* does to a board is module BubbleEngine; here it yields a status.        *)
(***************************************************************************)
EXTENDS RoomManager

CONSTANTS Conn,         \* WebSocket connections
          MaxSessions,  \* bound on the sessions created
          NoOne         \* the empty WinnerID

ASSUME NoOneAssumption == NoOne \notin Player
ASSUME MaxSessionsAssumption == MaxSessions \in Nat

VARIABLES sessions,  \* room id -> session of its latest game
          conns,     \* running handlers: connection -> room, player, open?
          wsConns,   \* <<room id, player>> -> connection registered last
          settling,  \* settlement in progress: its room and the losers left
          crashed,   \* the process died of an unrecovered panic
          made       \* sessions created so far

gsvars == <<sessions, conns, wsConns, settling, crashed, made>>
allvars == <<rooms, playerRoom, now, sessions, conns, wsConns, settling, crashed, made>>

Status == {"playing", "win", "lose"}
NotSettling == [room |-> 0, todo |-> {}]

-----------------------------------------------------------------------------
(* Sessions *)

NewSession(players) ==
    [gen |-> made + 1, states |-> [p \in players |-> "playing"], pending |-> {},
     stale |-> {}, winner |-> NoOne, finalized |-> FALSE]

\* LastHeartbeat[p] = now
Touch(s, p) == [s EXCEPT !.stale = @ \ {p}]

\* Mutant: a player who cleared the board no longer counts.
AliveShooting(s) == {p \in DOMAIN s.states : s.states[p] = "playing"}

Alive(s) == {p \in DOMAIN s.states : s.states[p] # "lose"}

HasOutcome(s) == Cardinality(DOMAIN s.states) >= 2 /\ Cardinality(Alive(s)) = 1

\* WinnerID becomes the only player who has not lost.
resolveOutcome(s) ==
    IF HasOutcome(s) THEN [s EXCEPT !.winner = CHOOSE p \in Alive(s) : TRUE] ELSE s

\* Mutant: a player who is the only one overdue is passed over.
TimedOutSome(s) ==
    IF Cardinality(s.stale) > 1
    THEN [s EXCEPT !.states = [p \in DOMAIN @ |-> IF p \in s.stale THEN "lose" ELSE @[p]]]
    ELSE s

\* Overdue players lose.
TimedOut(s) ==
    [s EXCEPT !.states = [p \in DOMAIN @ |-> IF p \in s.stale THEN "lose" ELSE @[p]]]

applyHeartbeatTimeouts(s) ==
    IF s.winner # NoOne THEN s ELSE resolveOutcome(TimedOut(s))

\* Mutant: whoever has a shot in flight may land it.
CanLandLate(s, p) == p \in s.pending

\* BeginClientShot and CommitLanding refuse unless the player is still playing.
CanShoot(s, p) == p \in DOMAIN s.states /\ s.states[p] = "playing" /\ p \notin s.pending
CanLand(s, p) == p \in DOMAIN s.states /\ s.states[p] = "playing" /\ p \in s.pending

\* Store session s of room id; if it has just been decided, go on to
\* finalizeRoomAfterWinLocked without releasing the mutex.
Store(id, s) ==
    /\ sessions' = [sessions EXCEPT ![id] = s]
    /\ settling' = IF HasOutcome(s) /\ ~s.finalized
                   THEN [room |-> id, todo |-> DOMAIN s.states \ {s.winner}]
                   ELSE NotSettling

-----------------------------------------------------------------------------
(* Room requests *)

MutexFree == settling = NotSettling /\ ~crashed

\* HandleGatewayMessage: four of the manager's operations.  LeaveRoom is also
\* what the heartbeat monitor of module RoomMonitor calls.
RoomRequest ==
    /\ ~crashed
    /\ \E p \in Player :
          \/ \E cap \in Capacities : CreateRoom(p, cap)
          \/ \E id \in DOMAIN rooms : JoinRoom(p, id)
          \/ StartGame(p)
          \/ LeaveRoom(p)
    /\ UNCHANGED gsvars

\* The lobby asks for a session for the members of a room it is about to
\* start; a session the room already had is replaced.  The request's list may
\* be older, but a member who leaves before it and one who leaves after it
\* leave the same state.
CreateSession(id) ==
    /\ MutexFree
    /\ made < MaxSessions
    /\ Cardinality(rooms[id].players) >= 2
    /\ sessions' = Put(sessions, id, NewSession(rooms[id].players))
    /\ made' = made + 1
    /\ UNCHANGED <<conns, wsConns, settling, crashed>>
    /\ UNCHANGED rmvars

-----------------------------------------------------------------------------
(* Game sockets *)

\* Close connection c; its handler notices later.
Hangup(m, c) == IF c \in DOMAIN m THEN [m EXCEPT ![c].open = FALSE] ELSE m

\* handleWSGame, up to its loop: only a player of the session has a valid
\* ticket, and an older registered connection is closed.
Connect(c, id, p) ==
    /\ MutexFree
    /\ c \notin DOMAIN conns
    /\ p \in DOMAIN sessions[id].states
    /\ LET old == IF <<id, p>> \in DOMAIN wsConns THEN Hangup(conns, wsConns[<<id, p>>]) ELSE conns
       IN  conns' = Put(old, c, [room |-> id, player |-> p, open |-> TRUE])
    /\ wsConns' = Put(wsConns, <<id, p>>, c)
    /\ sessions' = [sessions EXCEPT ![id] = Touch(@, p)]
    /\ UNCHANGED <<settling, crashed, made>>
    /\ UNCHANGED rmvars

\* readWS handles a message of connection c, perhaps one it read just before
\* the connection was closed.
Receives(c) == MutexFree /\ c \in DOMAIN conns

Shot(c) ==
    /\ Receives(c)
    /\ LET id == conns[c].room
           p == conns[c].player
           s == Touch(sessions[id], p)
       IN  sessions' = [sessions EXCEPT ![id] =
                           IF CanShoot(s, p) THEN [s EXCEPT !.pending = @ \cup {p}] ELSE s]
    /\ UNCHANGED <<conns, wsConns, settling, crashed, made>>
    /\ UNCHANGED rmvars

Land(c, outcome) ==
    /\ Receives(c)
    /\ LET id == conns[c].room
           p == conns[c].player
           s == Touch(sessions[id], p)
       IN  Store(id, resolveOutcome(
               IF CanLand(s, p)
               THEN [s EXCEPT !.states[p] = outcome, !.pending = @ \ {p}]
               ELSE s))
    /\ UNCHANGED <<conns, wsConns, crashed, made>>
    /\ UNCHANGED rmvars

\* An aim is written through States[playerID] unchecked: a player without a
\* state in the room's present session is a nil dereference in a goroutine
\* nobody recovers.
Aim(c) ==
    /\ Receives(c)
    /\ LET id == conns[c].room
           p == conns[c].player
       IN  /\ sessions' = [sessions EXCEPT ![id] = Touch(@, p)]
           /\ crashed' = (p \notin DOMAIN sessions[id].states)
    /\ UNCHANGED <<conns, wsConns, settling, made>>
    /\ UNCHANGED rmvars

Heartbeat(c) ==
    /\ Receives(c)
    /\ sessions' = [sessions EXCEPT ![conns[c].room] = Touch(@, conns[c].player)]
    /\ UNCHANGED <<conns, wsConns, settling, crashed, made>>
    /\ UNCHANGED rmvars

\* The peer goes away, or its token can no longer be refreshed.
Drop(c) ==
    /\ ~crashed
    /\ conns[c].open
    /\ conns' = Hangup(conns, c)
    /\ UNCHANGED <<sessions, wsConns, settling, crashed, made>>
    /\ UNCHANGED rmvars

\* The 70 ms tick of a handler.  Rendering the state of a player without one
\* panics inside the HTTP server, which recovers and ends the handler.
BuildState(c) ==
    /\ MutexFree
    /\ LET id == conns[c].room
           s == sessions[id]
       IN  /\ Store(id, applyHeartbeatTimeouts(s))
           /\ conns' = IF conns[c].player \in DOMAIN s.states THEN conns ELSE Hangup(conns, c)
    /\ UNCHANGED <<wsConns, crashed, made>>
    /\ UNCHANGED rmvars

\* Mutant: the entry of the connection stays behind.
UnregisterNothing(c) ==
    /\ MutexFree
    /\ ~conns[c].open
    /\ conns' = Del(conns, c)
    /\ UNCHANGED <<sessions, wsConns, settling, crashed, made>>
    /\ UNCHANGED rmvars

\* The deferred cleanup removes whatever connection is registered.
Unregister(c) ==
    /\ MutexFree
    /\ ~conns[c].open
    /\ wsConns' = Del(wsConns, <<conns[c].room, conns[c].player>>)
    /\ conns' = Del(conns, c)
    /\ UNCHANGED <<sessions, settling, crashed, made>>
    /\ UNCHANGED rmvars

\* HeartbeatTimeout passes without a message of p.
Expire(id, p) ==
    /\ ~crashed
    /\ p \in DOMAIN sessions[id].states
    /\ sessions' = [sessions EXCEPT ![id].stale = @ \cup {p}]
    /\ UNCHANGED <<conns, wsConns, settling, crashed, made>>
    /\ UNCHANGED rmvars

-----------------------------------------------------------------------------
(* Settlement: finalizeRoomAfterWinLocked *)

\* Mutant: an error of LeaveRoom is not ignored.
EvictStrict(p) ==
    /\ p \in settling.todo
    /\ LeaveRoom(p)
    /\ settling' = [settling EXCEPT !.todo = @ \ {p}]
    /\ UNCHANGED <<sessions, conns, wsConns, crashed, made>>

\* LeaveRoom takes the loser out of whichever room it is in; its error is
\* ignored when it is in none.
Evict(p) ==
    /\ p \in settling.todo
    /\ ~crashed
    /\ LeaveRoom(p) \/ (~mustGetPlayerRoom(p) /\ UNCHANGED rmvars)
    /\ settling' = [settling EXCEPT !.todo = @ \ {p}]
    /\ UNCHANGED <<sessions, conns, wsConns, crashed, made>>

\* Mutant: Finalized is never set.
SettleForgotten ==
    /\ settling # NotSettling
    /\ settling.todo = {}
    /\ settling' = NotSettling
    /\ UNCHANGED <<sessions, conns, wsConns, crashed, made>>
    /\ UNCHANGED rmvars

Settled ==
    /\ ~crashed
    /\ settling # NotSettling
    /\ settling.todo = {}
    /\ sessions' = [sessions EXCEPT ![settling.room].finalized = TRUE]
    /\ settling' = NotSettling
    /\ UNCHANGED <<conns, wsConns, crashed, made>>
    /\ UNCHANGED rmvars

-----------------------------------------------------------------------------

GSInit ==
    /\ NewManager
    /\ sessions = EmptyMap
    /\ conns = EmptyMap
    /\ wsConns = EmptyMap
    /\ settling = NotSettling
    /\ crashed = FALSE
    /\ made = 0

GSNext ==
    \/ RoomRequest
    \/ \E id \in DOMAIN rooms : CreateSession(id)
    \/ \E c \in Conn, id \in DOMAIN sessions, p \in Player : Connect(c, id, p)
    \/ \E c \in DOMAIN conns : \/ Shot(c)
                               \/ \E o \in Status : Land(c, o)
                               \/ Aim(c)
                               \/ Heartbeat(c)
                               \/ Drop(c)
                               \/ BuildState(c)
                               \/ Unregister(c)
    \/ \E id \in DOMAIN sessions, p \in Player : Expire(id, p)
    \/ \E p \in settling.todo : Evict(p)
    \/ Settled

GSSafe == GSInit /\ [][GSNext]_allvars

\* The goroutines of the service are scheduled fairly: a handler's ticker
\* fires, and a settlement, once begun, goes on.
Fairness ==
    /\ WF_allvars(\E p \in settling.todo : Evict(p))
    /\ WF_allvars(Settled)
    /\ \A c \in Conn : WF_allvars(c \in DOMAIN conns /\ BuildState(c))

GSSpec == GSSafe /\ Fairness

-----------------------------------------------------------------------------
(* Properties *)

Session == [gen : 1 .. MaxSessions,
            states : UNION {[S -> Status] : S \in SUBSET Player},
            pending : SUBSET Player, stale : SUBSET Player,
            winner : Player \cup {NoOne}, finalized : BOOLEAN]

\* The state keeps its types, and handlers and registrations belong to
\* sessions that exist.
GSTypeOK ==
    /\ RMTypeOK
    /\ sessions \in [DOMAIN sessions -> Session]
    /\ DOMAIN conns \subseteq Conn
    /\ conns \in [DOMAIN conns -> [room : DOMAIN sessions, player : Player, open : BOOLEAN]]
    /\ wsConns \in [DOMAIN wsConns -> DOMAIN conns]
    /\ settling \in [room : Nat, todo : SUBSET Player]
    /\ crashed \in BOOLEAN
    /\ made \in 0 .. MaxSessions

\* The winner named in WinnerID is a player of the session, and all the
\* others have lost: no landing, timeout or late message revives one.
WinnerOutlastedAll ==
    \A id \in DOMAIN sessions :
        LET s == sessions[id]
        IN  s.winner # NoOne =>
               /\ s.winner \in DOMAIN s.states
               /\ \A q \in DOMAIN s.states \ {s.winner} : s.states[q] = "lose"

\* A game has one winner: WinnerID never changes once it is set, although
\* resolveOutcomeLocked runs again on every later landing.
WinnerIsFinal ==
    [][\A id \in DOMAIN sessions :
          sessions[id].winner # NoOne /\ sessions'[id].gen = sessions[id].gen
             => sessions'[id].winner = sessions[id].winner]_allvars

\* A session as its players know it.
GameOf(s) == [players |-> DOMAIN s.states, alive |-> Alive(s),
              winner |-> {s.winner} \ {NoOne}, settled |-> s.finalized]

GamesPlayed == [id \in DOMAIN sessions |-> GameOf(sessions[id])]

Games == INSTANCE Elimination WITH RoomId <- 1 .. MaxTime, game <- GamesPlayed

\* The service implements the elimination game: whatever landings, timeouts,
\* late messages and replaced sessions do, players only ever drop out, the
\* last one wins at once and once, and no game moves, in any room, between a
\* win and the end of its settlement.
ImplementsElimination == Games!ElimSpec

\* A game with a sole survivor has a winner at once, whichever landing or
\* timeout felled the others; and whenever Server.mu is free, the games with a
\* winner are exactly the settled ones: losers are evicted once per game, in
\* the critical section that names the winner.
DecidedMeansSettled ==
    \A id \in DOMAIN sessions :
        LET s == sessions[id]
        IN  /\ \A p, q \in DOMAIN s.states :
                  /\ p # q /\ s.states[p] # "lose"
                  /\ \A o \in DOMAIN s.states \ {p} : s.states[o] = "lose"
                  => s.winner = p
            /\ s.finalized => s.winner # NoOne
            /\ s.winner # NoOne => s.finalized \/ settling.room = id

\* Server.mu is always released: evicting losers who already left on their
\* own does not hold up the settlement.
SettlementEnds == (settling # NotSettling) ~> (settling = NotSettling \/ crashed)

Overdue(id, p) ==
    /\ id \in DOMAIN sessions
    /\ p \in DOMAIN sessions[id].states
    /\ sessions[id].winner = NoOne
    /\ p \in sessions[id].stale
    /\ sessions[id].states[p] # "lose"

Watches(c, id) == c \in DOMAIN conns /\ conns[c].room = id

\* A player whose heartbeats stopped does not hold up the game of the others:
\* while one of them keeps its game socket, the player sends again or loses.
OverduePlayersLose ==
    \A id \in 1 .. MaxTime, p \in Player, c \in Conn :
        Overdue(id, p) /\ Watches(c, id) ~> ~Overdue(id, p) \/ ~Watches(c, id) \/ crashed
=============================================================================
