----------------------------- MODULE RoomMonitor -----------------------------
(***************************************************************************)
(* The room half of the combined service (internal/gamesvc/server.go):     *)
(* room sockets, the heartbeat table and the per-room monitor goroutine    *)
(* that takes silent players out of their room.                            *)
(*                                                                         *)
(* Server.roomMu guards the four tables; the room manager has its own      *)
(* mutex.  Each critical section is one action, so a leave request is two  *)
(* (LeaveRoom, then the cleanup), and one eviction by a monitor is two     *)
(* after the scan that chose the player.                                   *)
(*                                                                         *)
(* roomLastHB is `beat': an entry is "fresh", or "late" once it is older   *)
(* than HeartbeatTimeout.  Of a game socket (module GameServer) only its   *)
(* last critical section matters here, which tracks its player.            *)
(***************************************************************************)
EXTENDS RoomManager

CONSTANTS Sock,       \* room WebSocket connections
          Goroutine   \* monitor goroutines

VARIABLES roomOfPlayer,  \* player -> room id
          beat,          \* player -> "fresh" or "late"
          roomWS,        \* player -> its registered room socket
          roomMonitor,   \* room ids whose monitor flag is set
          socks,         \* running room socket handlers: player, open?
          gameWS,        \* player -> room of its game socket
          monitors,      \* running monitors: room, step, players to evict
          leaving,       \* leave requests between their critical sections
          missed         \* history: rooms tracked while their monitor was ending

mvars == <<roomOfPlayer, beat, roomWS, roomMonitor, socks, gameWS, monitors, leaving, missed>>
monvars == <<rooms, playerRoom, now, roomOfPlayer, beat, roomWS, roomMonitor,
             socks, gameWS, monitors, leaving, missed>>

-----------------------------------------------------------------------------
(* Helpers that run under roomMu *)

NewMonitor(id) == [room |-> id, pc |-> "scan", todo |-> {}, cur |-> {}]

\* Mutant: the flag is not consulted.
ensureMonitorAlways(id) ==
    /\ roomMonitor' = roomMonitor \cup {id}
    /\ \E g \in Goroutine \ DOMAIN monitors : monitors' = Put(monitors, g, NewMonitor(id))

\* One goroutine per room, as long as the flag is set.
ensureRoomMonitor(id) ==
    \/ /\ id \in roomMonitor
       /\ UNCHANGED <<roomMonitor, monitors>>
    \/ /\ id \notin roomMonitor
       /\ roomMonitor' = roomMonitor \cup {id}
       /\ \E g \in Goroutine \ DOMAIN monitors : monitors' = Put(monitors, g, NewMonitor(id))

\* The monitor of the room has made its last pass and still holds the flag.
Ending(id) == \E g \in DOMAIN monitors : monitors[g].room = id /\ monitors[g].pc = "exit"

\* Player p was heard of in room id.
Track(p, id) ==
    /\ roomOfPlayer' = Put(roomOfPlayer, p, id)
    /\ beat' = Put(beat, p, "fresh")
    /\ ensureRoomMonitor(id)
    /\ missed' = IF Ending(id) THEN missed \cup {id} ELSE missed \ {id}

\* Close the room socket registered for p, if any.
CloseRegistered(m, p) ==
    IF p \in DOMAIN roomWS /\ roomWS[p] \in DOMAIN m
    THEN [m EXCEPT ![roomWS[p]].open = FALSE]
    ELSE m

\* Forget p: its socket is closed and its three entries are deleted.
Untrack(p) ==
    /\ socks' = CloseRegistered(socks, p)
    /\ roomWS' = Del(roomWS, p)
    /\ beat' = Del(beat, p)
    /\ roomOfPlayer' = Del(roomOfPlayer, p)

-----------------------------------------------------------------------------
(* Room requests *)

RoomRequest ==
    /\ \E p \in Player :
          \/ \E cap \in Capacities : CreateRoom(p, cap)
          \/ \E id \in DOMAIN rooms : JoinRoom(p, id)
          \/ StartGame(p)
    /\ UNCHANGED mvars

LeaveRequest(p) ==
    /\ p \notin leaving
    /\ LeaveRoom(p)
    /\ leaving' = leaving \cup {p}
    /\ UNCHANGED <<roomOfPlayer, beat, roomWS, roomMonitor, socks, gameWS, monitors, missed>>

LeaveCleanup(p) ==
    /\ p \in leaving
    /\ Untrack(p)
    /\ leaving' = leaving \ {p}
    /\ UNCHANGED <<roomMonitor, gameWS, monitors, missed>>
    /\ UNCHANGED rmvars

-----------------------------------------------------------------------------
(* Sockets *)

\* handleWSRoom.  The room id comes from the client's page, which may be one
\* of a room it has left.
RoomConnect(c, p, id) ==
    /\ c \notin DOMAIN socks
    /\ socks' = Put(CloseRegistered(socks, p), c, [player |-> p, open |-> TRUE])
    /\ roomWS' = Put(roomWS, p, c)
    /\ Track(p, id)
    /\ UNCHANGED <<gameWS, leaving>>
    /\ UNCHANGED rmvars

\* A message, perhaps one read just before the socket was closed.
RoomMessage(c) ==
    /\ c \in DOMAIN socks
    /\ beat' = Put(beat, socks[c].player, "fresh")
    /\ UNCHANGED <<roomOfPlayer, roomWS, roomMonitor, socks, gameWS, monitors, leaving, missed>>
    /\ UNCHANGED rmvars

\* The peer goes away, or its token can no longer be refreshed.
RoomDrop(c) ==
    /\ socks[c].open
    /\ socks' = [socks EXCEPT ![c].open = FALSE]
    /\ UNCHANGED <<roomOfPlayer, beat, roomWS, roomMonitor, gameWS, monitors, leaving, missed>>
    /\ UNCHANGED rmvars

\* Mutant: the cleanup of a handler removes whatever socket is registered.
RoomExitBlindly(c) ==
    /\ ~socks[c].open
    /\ socks' = Del(socks, c)
    /\ roomWS' = Del(roomWS, socks[c].player)
    /\ UNCHANGED <<roomOfPlayer, beat, roomMonitor, gameWS, monitors, leaving, missed>>
    /\ UNCHANGED rmvars

\* Mutant: the entry stays behind.
RoomExitLeaky(c) ==
    /\ ~socks[c].open
    /\ socks' = Del(socks, c)
    /\ UNCHANGED <<roomOfPlayer, beat, roomWS, roomMonitor, gameWS, monitors, leaving, missed>>
    /\ UNCHANGED rmvars

\* The deferred cleanup leaves the entry of a newer socket alone.
RoomExit(c) ==
    /\ ~socks[c].open
    /\ socks' = Del(socks, c)
    /\ LET p == socks[c].player
       IN  roomWS' = IF p \in DOMAIN roomWS /\ roomWS[p] = c THEN Del(roomWS, p) ELSE roomWS
    /\ UNCHANGED <<roomOfPlayer, beat, roomMonitor, gameWS, monitors, leaving, missed>>
    /\ UNCHANGED rmvars

\* A game socket is opened with a ticket of room id.  Sessions outlive rooms,
\* so it may be a room the player has left.
GameConnect(p, id) ==
    /\ p \notin DOMAIN gameWS
    /\ gameWS' = Put(gameWS, p, id)
    /\ Track(p, id)
    /\ UNCHANGED <<roomWS, socks, leaving>>
    /\ UNCHANGED rmvars

GameMessage(p) ==
    /\ Track(p, gameWS[p])
    /\ UNCHANGED <<roomWS, socks, gameWS, leaving>>
    /\ UNCHANGED rmvars

GameDrop(p) ==
    /\ gameWS' = Del(gameWS, p)
    /\ UNCHANGED <<roomOfPlayer, beat, roomWS, roomMonitor, socks, monitors, leaving, missed>>
    /\ UNCHANGED rmvars

\* HeartbeatTimeout passes without a message of p.
Expire(p) ==
    /\ beat[p] = "fresh"
    /\ beat' = [beat EXCEPT ![p] = "late"]
    /\ UNCHANGED <<roomOfPlayer, roomWS, roomMonitor, socks, gameWS, monitors, leaving, missed>>
    /\ UNCHANGED rmvars

-----------------------------------------------------------------------------
(* The monitor goroutine: runSingleRoomHeartbeatMonitor *)

Tracked(id) == {p \in DOMAIN roomOfPlayer : roomOfPlayer[p] = id}
Late(id) == {p \in Tracked(id) : p \in DOMAIN beat /\ beat[p] = "late"}

\* Mutant: a pass that finds somebody to evict is the last one.
AfterScanOnce(id) ==
    IF Late(id) # {} THEN "exit" ELSE IF Tracked(id) = {} THEN "exit" ELSE "scan"

\* Mutant: a pass without anybody to evict is the last one.
AfterScanIdle(id) == IF Late(id) # {} THEN "evict" ELSE "exit"

\* What a pass goes on to do: evict, end for want of players, or wait for the
\* next tick.
AfterScan(id) ==
    IF Late(id) # {} THEN "evict" ELSE IF Tracked(id) = {} THEN "exit" ELSE "scan"

Scan(g) ==
    /\ monitors[g].pc = "scan"
    /\ LET id == monitors[g].room
       IN  monitors' = [monitors EXCEPT ![g].pc = AfterScan(id), ![g].todo = Late(id)]
    /\ UNCHANGED <<roomOfPlayer, beat, roomWS, roomMonitor, socks, gameWS, leaving, missed>>
    /\ UNCHANGED rmvars

\* LeaveRoom for one of the players chosen, its error ignored.
EvictLeave(g, p) ==
    /\ monitors[g].pc = "evict"
    /\ p \in monitors[g].todo
    /\ LeaveRoom(p) \/ (~mustGetPlayerRoom(p) /\ UNCHANGED rmvars)
    /\ monitors' = [monitors EXCEPT ![g].pc = "cleanup", ![g].cur = {p}]
    /\ UNCHANGED <<roomOfPlayer, beat, roomWS, roomMonitor, socks, gameWS, leaving, missed>>

EvictCleanup(g, p) ==
    /\ monitors[g].pc = "cleanup"
    /\ p \in monitors[g].cur
    /\ Untrack(p)
    /\ LET rest == monitors[g].todo \ {p}
       IN  monitors' = [monitors EXCEPT ![g].pc = IF rest = {} THEN "scan" ELSE "evict",
                                        ![g].todo = rest, ![g].cur = {}]
    /\ UNCHANGED <<roomMonitor, gameWS, leaving, missed>>
    /\ UNCHANGED rmvars

\* The deferred deletion of the flag, after the loop has returned.
MonitorExit(g) ==
    /\ monitors[g].pc = "exit"
    /\ roomMonitor' = roomMonitor \ {monitors[g].room}
    /\ monitors' = Del(monitors, g)
    /\ UNCHANGED <<roomOfPlayer, beat, roomWS, socks, gameWS, leaving, missed>>
    /\ UNCHANGED rmvars

MonitorStep(g) ==
    /\ g \in DOMAIN monitors
    /\ \/ Scan(g)
       \/ \E p \in monitors[g].todo : EvictLeave(g, p)
       \/ \E p \in monitors[g].cur : EvictCleanup(g, p)
       \/ MonitorExit(g)

-----------------------------------------------------------------------------

MonInit ==
    /\ NewManager
    /\ roomOfPlayer = EmptyMap
    /\ beat = EmptyMap
    /\ roomWS = EmptyMap
    /\ roomMonitor = {}
    /\ socks = EmptyMap
    /\ gameWS = EmptyMap
    /\ monitors = EmptyMap
    /\ leaving = {}
    /\ missed = {}

MonNext ==
    \/ RoomRequest
    \/ \E p \in Player : \/ LeaveRequest(p)
                         \/ LeaveCleanup(p)
                         \/ \E id \in 1 .. now - 1 : GameConnect(p, id)
                         \/ \E c \in Sock, id \in 1 .. now - 1 : RoomConnect(c, p, id)
    \/ \E c \in DOMAIN socks : RoomMessage(c) \/ RoomDrop(c) \/ RoomExit(c)
    \/ \E p \in DOMAIN gameWS : GameMessage(p) \/ GameDrop(p)
    \/ \E p \in DOMAIN beat : Expire(p)
    \/ \E g \in Goroutine : MonitorStep(g)

MonSafe == MonInit /\ [][MonNext]_monvars

\* A monitor's ticker fires and the scheduler runs it.
MonSpec == MonSafe /\ \A g \in Goroutine : WF_monvars(MonitorStep(g))

-----------------------------------------------------------------------------
(* Properties *)

\* The tables keep their types; flags stand for goroutines and registered
\* sockets for handlers that are still running.
MonTypeOK ==
    /\ RMTypeOK
    /\ roomOfPlayer \in [DOMAIN roomOfPlayer -> 1 .. now - 1]
    /\ beat \in [DOMAIN beat -> {"fresh", "late"}]
    /\ roomWS \in [DOMAIN roomWS -> DOMAIN socks]
    /\ socks \in [DOMAIN socks -> [player : Player, open : BOOLEAN]]
    /\ gameWS \in [DOMAIN gameWS -> 1 .. now - 1]
    /\ monitors \in [DOMAIN monitors ->
                        [room : roomMonitor, pc : {"scan", "evict", "cleanup", "exit"},
                         todo : SUBSET Player, cur : SUBSET Player]]
    /\ roomMonitor \subseteq 1 .. now - 1
    /\ leaving \subseteq Player
    /\ missed \subseteq 1 .. now - 1

\* ensureRoomMonitorLocked never starts a second monitor for a room, however
\* sockets come and go while one is ending.
OneMonitorPerRoom ==
    \A g, h \in DOMAIN monitors : monitors[g].room = monitors[h].room => g = h

\* The roomWS table always holds the one open room socket of a player: a
\* handler that ends late does not unregister its successor.
OpenSocketsAreRegistered ==
    \A c \in DOMAIN socks :
        socks[c].open => socks[c].player \in DOMAIN roomWS /\ roomWS[socks[c].player] = c

\* A tracked player can be found overdue: it has a heartbeat to measure (the
\* monitor skips players without one), and the room it is tracked in has its
\* monitor flag, unless it was tracked while the monitor was ending.
TrackedAreWatched ==
    /\ DOMAIN roomOfPlayer \subseteq DOMAIN beat
    /\ \A p \in DOMAIN roomOfPlayer : roomOfPlayer[p] \in roomMonitor \cup missed

LateIn(p, id) == p \in Late(id)
Monitored(id) == \E g \in DOMAIN monitors : monitors[g].room = id /\ monitors[g].pc # "exit"

\* A silent player of a room whose monitor runs does not stay: it is heard of
\* again, moves on, or is evicted, and the monitor does not end before.
LatePlayersGo ==
    \A p \in Player, id \in 1 .. MaxTime :
        (LateIn(p, id) /\ Monitored(id)) ~> ~LateIn(p, id)
=============================================================================
