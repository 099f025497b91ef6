-------------------------- MODULE RoomMonitorProofs --------------------------
(***************************************************************************)
(* Proofs about RoomMonitor, for any players, sockets and goroutines.  The *)
(* inductive invariant MonInv has four parts: the room manager's own, the  *)
(* sockets, the tracked players with their monitors, and the rest.         *)
(***************************************************************************)
EXTENDS RoomMonitor, RoomManagerProofs

\* A registered socket is one of the player it is registered for.
SocketInv ==
    /\ roomWS \in [DOMAIN roomWS -> DOMAIN socks]
    /\ socks \in [DOMAIN socks -> [player : Player, open : BOOLEAN]]
    /\ \A p \in DOMAIN roomWS : socks[roomWS[p]].player = p
    /\ OpenSocketsAreRegistered

Monitor == [room : Nat, pc : {"scan", "evict", "cleanup", "exit"},
            todo : SUBSET Player, cur : SUBSET Player]

\* A monitor holds the flag of its room alone; if it is ending, whoever is
\* tracked there was tracked too late for it, and `missed' says so.
MonitorInv ==
    /\ monitors \in [DOMAIN monitors -> Monitor]
    /\ \A g \in DOMAIN monitors : monitors[g].room \in roomMonitor
    /\ OneMonitorPerRoom
    /\ \A g \in DOMAIN monitors :
          monitors[g].pc = "exit" =>
              \A p \in DOMAIN roomOfPlayer :
                  roomOfPlayer[p] = monitors[g].room => monitors[g].room \in missed

TrackInv ==
    /\ roomOfPlayer \in [DOMAIN roomOfPlayer -> Nat]
    /\ DOMAIN roomOfPlayer \subseteq Player
    /\ beat \in [DOMAIN beat -> {"fresh", "late"}]
    /\ TrackedAreWatched

\* Rooms are named by past readings of the clock.
PastInv ==
    /\ \A p \in DOMAIN roomOfPlayer : roomOfPlayer[p] \in 1 .. now - 1
    /\ gameWS \in [DOMAIN gameWS -> 1 .. now - 1] /\ DOMAIN gameWS \subseteq Player
    /\ roomMonitor \subseteq 1 .. now - 1
    /\ missed \subseteq 1 .. now - 1
    /\ leaving \subseteq Player

MonInv == RMInv /\ SocketInv /\ MonitorInv /\ TrackInv /\ PastInv

-----------------------------------------------------------------------------
(* What the helpers keep *)

\* Closing the registered socket of a player, and forgetting it or replacing
\* it, leaves the others registered.
LEMMA UntrackKeepsSockets ==
    ASSUME SocketInv, NEW p \in Player,
           socks' = CloseRegistered(socks, p), roomWS' = Del(roomWS, p)
    PROVE  SocketInv'
<1>1. /\ DOMAIN socks' = DOMAIN socks
      /\ socks' = [c \in DOMAIN socks' |-> socks'[c]]
      /\ \A c \in DOMAIN socks :
            /\ socks'[c] \in [player : Player, open : BOOLEAN]
            /\ socks'[c].player = socks[c].player
            /\ socks'[c].open => socks[c].open /\ ~(p \in DOMAIN roomWS /\ roomWS[p] = c)
  BY DEF SocketInv, CloseRegistered
<1>2. /\ DOMAIN roomWS' = DOMAIN roomWS \ {p}
      /\ roomWS' = [q \in DOMAIN roomWS' |-> roomWS'[q]]
      /\ \A q \in DOMAIN roomWS' : roomWS'[q] = roomWS[q]
  BY DEF Del
<1>3. /\ roomWS' \in [DOMAIN roomWS' -> DOMAIN socks']
      /\ socks' \in [DOMAIN socks' -> [player : Player, open : BOOLEAN]]
      /\ \A q \in DOMAIN roomWS' : socks'[roomWS'[q]].player = q
  BY <1>1, <1>2 DEF SocketInv
<1>4. OpenSocketsAreRegistered'
  <2> SUFFICES ASSUME NEW c \in DOMAIN socks', socks'[c].open
               PROVE  socks'[c].player \in DOMAIN roomWS' /\ roomWS'[socks'[c].player] = c
    BY DEF OpenSocketsAreRegistered
  <2>1. /\ c \in DOMAIN socks /\ socks'[c].player = socks[c].player
        /\ socks[c].player \in DOMAIN roomWS /\ roomWS[socks[c].player] = c
        /\ ~(p \in DOMAIN roomWS /\ roomWS[p] = c)
    BY <1>1 DEF SocketInv, OpenSocketsAreRegistered
  <2>2. QED
    BY <1>2, <2>1
<1>5. QED
  BY <1>3, <1>4 DEF SocketInv

\* Forgetting a player takes nobody else off the monitors' list.
LEMMA UntrackKeepsTracked ==
    ASSUME MonitorInv, TrackInv, NEW p \in Player,
           beat' = Del(beat, p), roomOfPlayer' = Del(roomOfPlayer, p),
           UNCHANGED <<roomMonitor, missed>>
    PROVE  /\ TrackInv'
           /\ \A q \in DOMAIN roomOfPlayer' : q \in DOMAIN roomOfPlayer /\ roomOfPlayer'[q] = roomOfPlayer[q]
BY DEF TrackInv, TrackedAreWatched, Del

\* Tracking a player, with or without starting a monitor.
LEMMA TrackKeeps ==
    ASSUME MonitorInv, TrackInv, NEW p \in Player, NEW id \in Nat, Track(p, id)
    PROVE  /\ MonitorInv' /\ TrackInv'
           /\ roomMonitor' = roomMonitor \cup {id}
           /\ missed' \subseteq missed \cup {id}
           /\ \A q \in DOMAIN roomOfPlayer' :
                 roomOfPlayer'[q] = id \/ (q \in DOMAIN roomOfPlayer /\ roomOfPlayer'[q] = roomOfPlayer[q])
<1>1. /\ DOMAIN roomOfPlayer' = DOMAIN roomOfPlayer \cup {p}
      /\ roomOfPlayer' = [q \in DOMAIN roomOfPlayer' |-> roomOfPlayer'[q]]
      /\ roomOfPlayer'[p] = id
      /\ \A q \in DOMAIN roomOfPlayer : q # p => roomOfPlayer'[q] = roomOfPlayer[q]
      /\ DOMAIN beat' = DOMAIN beat \cup {p}
      /\ beat' \in [DOMAIN beat' -> {"fresh", "late"}]
  BY DEF Track, Put, TrackInv
<1>2. /\ roomMonitor' = roomMonitor \cup {id}
      /\ missed' = IF Ending(id) THEN missed \cup {id} ELSE missed \ {id}
  BY DEF Track, ensureRoomMonitor
<1>3. TrackInv'
  <2>1. roomOfPlayer' \in [DOMAIN roomOfPlayer' -> Nat] /\ DOMAIN roomOfPlayer' \subseteq Player
    BY <1>1 DEF TrackInv
  <2>2. TrackedAreWatched'
    BY <1>1, <1>2 DEF TrackInv, TrackedAreWatched
  <2>3. QED
    BY <1>1, <2>1, <2>2 DEF TrackInv
<1>4. /\ monitors' \in [DOMAIN monitors' -> Monitor]
      /\ \A g \in DOMAIN monitors' : monitors'[g].room \in roomMonitor'
      /\ OneMonitorPerRoom'
      /\ \A g \in DOMAIN monitors' :
            monitors'[g].pc = "exit" => g \in DOMAIN monitors /\ monitors'[g] = monitors[g]
  <2>1. CASE UNCHANGED monitors
    BY <1>2, <2>1 DEF MonitorInv, OneMonitorPerRoom
  <2>2. CASE id \notin roomMonitor /\ \E g \in Goroutine \ DOMAIN monitors : monitors' = Put(monitors, g, NewMonitor(id))
    <3>1. PICK g \in Goroutine \ DOMAIN monitors : monitors' = Put(monitors, g, NewMonitor(id))
      BY <2>2
    <3>2. /\ DOMAIN monitors' = DOMAIN monitors \cup {g}
          /\ monitors' = [h \in DOMAIN monitors' |-> monitors'[h]]
          /\ monitors'[g] = NewMonitor(id)
          /\ \A h \in DOMAIN monitors : monitors'[h] = monitors[h]
      BY <3>1 DEF Put
    <3>3. NewMonitor(id) \in Monitor /\ NewMonitor(id).room = id /\ NewMonitor(id).pc = "scan"
      BY DEF NewMonitor, Monitor
    <3>4. \A h \in DOMAIN monitors : monitors[h].room # id
      BY <2>2 DEF MonitorInv
    <3>5. QED
      BY <1>2, <3>2, <3>3, <3>4 DEF MonitorInv, OneMonitorPerRoom
  <2>3. QED
    BY <2>1, <2>2 DEF Track, ensureRoomMonitor
<1>5. ASSUME NEW g \in DOMAIN monitors', monitors'[g].pc = "exit",
             NEW q \in DOMAIN roomOfPlayer', roomOfPlayer'[q] = monitors'[g].room
      PROVE  monitors'[g].room \in missed'
  <2>1. g \in DOMAIN monitors /\ monitors'[g] = monitors[g] /\ monitors[g].pc = "exit"
    BY <1>4, <1>5
  <2>2. CASE monitors[g].room = id
    BY <1>2, <2>1, <2>2 DEF Ending
  <2>3. CASE monitors[g].room # id
    BY <1>1, <1>2, <1>5, <2>1, <2>3 DEF MonitorInv
  <2>4. QED
    BY <2>2, <2>3
<1>6. MonitorInv'
  BY <1>4, <1>5 DEF MonitorInv
<1>7. QED
  BY <1>1, <1>2, <1>3, <1>6

-----------------------------------------------------------------------------
(* Every step preserves the invariant *)

LEMMA MonInitInv == MonInit => MonInv
<1> SUFFICES ASSUME MonInit PROVE MonInv
  OBVIOUS
<1>1. RMInv
  BY NewManagerInv DEF MonInit
<1>2. QED
  BY <1>1 DEF MonInit, EmptyMap, MonInv, SocketInv, MonitorInv, TrackInv, PastInv,
              OpenSocketsAreRegistered, OneMonitorPerRoom, TrackedAreWatched, Monitor

\* The manager keeps its own invariant, and its clock does not go back.
LEMMA ManagerKeeps ==
    ASSUME RMInv, [RMNext]_rmvars
    PROVE  RMInv' /\ now \in Nat /\ now' \in Nat /\ now <= now'
<1>1. RMInv'
  BY RMInvInductive
<1>2. now \in Nat /\ now' \in Nat
  BY <1>1, BoundsAssumption DEF RMInv, RMTypeOK
<1>3. now' = now \/ now' = now + 1
  BY DEF RMNext, rmvars, CreateRoom, JoinRoom, SetReady, StartGame, LeaveRoom, SubmitInput, Tick
<1>4. QED
  BY <1>1, <1>2, <1>3

\* Requests that leave the tables of the monitors alone.
LEMMA RoomRequestInv == ASSUME MonInv, RoomRequest PROVE MonInv'
<1>1. RMNext
  BY DEF RoomRequest, RMNext
<1>2. RMInv' /\ now \in Nat /\ now' \in Nat /\ now <= now'
  BY <1>1, ManagerKeeps DEF MonInv
<1>3. UNCHANGED mvars
  BY DEF RoomRequest
<1>4. SocketInv' /\ MonitorInv' /\ TrackInv'
  BY <1>3 DEF MonInv, mvars, SocketInv, MonitorInv, TrackInv,
              OpenSocketsAreRegistered, OneMonitorPerRoom, TrackedAreWatched
<1>5. PastInv'
  BY <1>2, <1>3 DEF MonInv, mvars, PastInv
<1>6. QED
  BY <1>2, <1>4, <1>5 DEF MonInv

LEMMA LeaveRequestInv == ASSUME MonInv, NEW p \in Player, LeaveRequest(p) PROVE MonInv'
<1>1. RMNext /\ UNCHANGED now
  BY DEF LeaveRequest, RMNext, LeaveRoom
<1>2. RMInv'
  BY <1>1, ManagerKeeps DEF MonInv
<1>3. SocketInv' /\ MonitorInv' /\ TrackInv'
  BY DEF LeaveRequest, MonInv, SocketInv, MonitorInv, TrackInv,
         OpenSocketsAreRegistered, OneMonitorPerRoom, TrackedAreWatched
<1>4. PastInv'
  BY <1>1 DEF LeaveRequest, MonInv, PastInv
<1>5. QED
  BY <1>2, <1>3, <1>4 DEF MonInv

\* Steps that leave the manager alone keep its invariant.
LEMMA ManagerIdle == ASSUME MonInv, UNCHANGED rmvars PROVE RMInv' /\ UNCHANGED now
BY ManagerKeeps DEF MonInv, rmvars

LEMMA LeaveCleanupInv == ASSUME MonInv, NEW p \in Player, LeaveCleanup(p) PROVE MonInv'
<1>1. RMInv' /\ UNCHANGED now
  BY ManagerIdle DEF LeaveCleanup
<1>2. SocketInv'
  BY UntrackKeepsSockets DEF MonInv, LeaveCleanup, Untrack
<1>3. /\ TrackInv'
      /\ \A q \in DOMAIN roomOfPlayer' : q \in DOMAIN roomOfPlayer /\ roomOfPlayer'[q] = roomOfPlayer[q]
  BY UntrackKeepsTracked DEF MonInv, LeaveCleanup, Untrack
<1>4. MonitorInv' /\ PastInv'
  BY <1>1, <1>3 DEF MonInv, LeaveCleanup, MonitorInv, PastInv, OneMonitorPerRoom
<1>5. QED
  BY <1>1, <1>2, <1>3, <1>4 DEF MonInv

\* A new room socket takes the place of the player's old one.
LEMMA RoomConnectInv ==
    ASSUME MonInv, NEW c \in Sock, NEW p \in Player, NEW id \in 1 .. now - 1, RoomConnect(c, p, id)
    PROVE  MonInv'
<1>1. RMInv' /\ UNCHANGED now /\ id \in Nat
  BY ManagerIdle DEF RoomConnect
<1>2. SocketInv'
  <2> DEFINE old == CloseRegistered(socks, p)
  <2>1. /\ DOMAIN old = DOMAIN socks
        /\ \A d \in DOMAIN socks :
              /\ old[d] \in [player : Player, open : BOOLEAN]
              /\ old[d].player = socks[d].player
              /\ old[d].open => socks[d].open /\ ~(p \in DOMAIN roomWS /\ roomWS[p] = d)
    BY DEF MonInv, SocketInv, CloseRegistered
  <2>2. /\ c \notin DOMAIN socks
        /\ DOMAIN socks' = DOMAIN socks \cup {c}
        /\ socks' = [d \in DOMAIN socks' |-> socks'[d]]
        /\ socks'[c] = [player |-> p, open |-> TRUE]
        /\ \A d \in DOMAIN socks : socks'[d] = old[d]
    BY <2>1 DEF RoomConnect, Put
  <2>3. /\ DOMAIN roomWS' = DOMAIN roomWS \cup {p}
        /\ roomWS' = [q \in DOMAIN roomWS' |-> roomWS'[q]]
        /\ roomWS'[p] = c
        /\ \A q \in DOMAIN roomWS : q # p => roomWS'[q] = roomWS[q]
    BY DEF RoomConnect, Put
  <2> HIDE DEF old
  <2>4. /\ roomWS' \in [DOMAIN roomWS' -> DOMAIN socks']
        /\ socks' \in [DOMAIN socks' -> [player : Player, open : BOOLEAN]]
        /\ \A q \in DOMAIN roomWS' : socks'[roomWS'[q]].player = q
    <3>1. [player |-> p, open |-> TRUE] \in [player : Player, open : BOOLEAN]
      OBVIOUS
    <3>2. \A d \in DOMAIN socks' : socks'[d] \in [player : Player, open : BOOLEAN]
      BY <2>1, <2>2, <3>1
    <3>3. \A q \in DOMAIN roomWS : roomWS[q] \in DOMAIN socks /\ socks[roomWS[q]].player = q
      BY DEF MonInv, SocketInv
    <3>4. ASSUME NEW q \in DOMAIN roomWS'
          PROVE  roomWS'[q] \in DOMAIN socks' /\ socks'[roomWS'[q]].player = q
      BY <2>1, <2>2, <2>3, <3>3
    <3>5. QED
      BY <2>2, <2>3, <3>2, <3>4
  <2>5. OpenSocketsAreRegistered'
    <3> SUFFICES ASSUME NEW d \in DOMAIN socks', socks'[d].open
                 PROVE  socks'[d].player \in DOMAIN roomWS' /\ roomWS'[socks'[d].player] = d
      BY DEF OpenSocketsAreRegistered
    <3>1. CASE d = c
      BY <2>2, <2>3, <3>1
    <3>2. CASE d # c
      <4>1. /\ d \in DOMAIN socks /\ socks'[d].player = socks[d].player
            /\ socks[d].player \in DOMAIN roomWS /\ roomWS[socks[d].player] = d
            /\ ~(p \in DOMAIN roomWS /\ roomWS[p] = d)
        BY <2>1, <2>2, <3>2 DEF MonInv, SocketInv, OpenSocketsAreRegistered
      <4>2. QED
        BY <2>3, <4>1
    <3>3. QED
      BY <3>1, <3>2
  <2>6. QED
    BY <2>4, <2>5 DEF SocketInv
<1>3. /\ MonitorInv' /\ TrackInv'
      /\ roomMonitor' = roomMonitor \cup {id}
      /\ missed' \subseteq missed \cup {id}
      /\ \A q \in DOMAIN roomOfPlayer' :
            roomOfPlayer'[q] = id \/ (q \in DOMAIN roomOfPlayer /\ roomOfPlayer'[q] = roomOfPlayer[q])
  BY <1>1, TrackKeeps DEF MonInv, RoomConnect
<1>4. PastInv'
  BY <1>1, <1>3 DEF MonInv, PastInv, RoomConnect
<1>5. QED
  BY <1>1, <1>2, <1>3, <1>4 DEF MonInv

\* A game socket tracks its player when it is opened and with each message.
LEMMA GameTrackInv ==
    ASSUME MonInv, NEW p \in Player, NEW id \in 1 .. now - 1, Track(p, id),
           gameWS' \in [DOMAIN gameWS' -> 1 .. now - 1], DOMAIN gameWS' \subseteq Player,
           UNCHANGED <<roomWS, socks, leaving>>, UNCHANGED rmvars
    PROVE  MonInv'
<1>1. RMInv' /\ UNCHANGED now /\ id \in Nat
  BY ManagerIdle
<1>2. SocketInv'
  BY DEF MonInv, SocketInv, OpenSocketsAreRegistered
<1>3. /\ MonitorInv' /\ TrackInv'
      /\ roomMonitor' = roomMonitor \cup {id}
      /\ missed' \subseteq missed \cup {id}
      /\ \A q \in DOMAIN roomOfPlayer' :
            roomOfPlayer'[q] = id \/ (q \in DOMAIN roomOfPlayer /\ roomOfPlayer'[q] = roomOfPlayer[q])
  BY <1>1, TrackKeeps DEF MonInv
<1>4. PastInv'
  BY <1>1, <1>3 DEF MonInv, PastInv
<1>5. QED
  BY <1>1, <1>2, <1>3, <1>4 DEF MonInv

LEMMA GameConnectInv ==
    ASSUME MonInv, NEW p \in Player, NEW id \in 1 .. now - 1, GameConnect(p, id)
    PROVE  MonInv'
<1>1. gameWS' \in [DOMAIN gameWS' -> 1 .. now - 1] /\ DOMAIN gameWS' \subseteq Player
  BY DEF GameConnect, Put, MonInv, PastInv
<1>2. QED
  BY <1>1, GameTrackInv DEF GameConnect

LEMMA GameMessageInv ==
    ASSUME MonInv, NEW p \in DOMAIN gameWS, GameMessage(p)
    PROVE  MonInv'
<1>1. /\ gameWS' \in [DOMAIN gameWS' -> 1 .. now - 1] /\ DOMAIN gameWS' \subseteq Player
      /\ gameWS[p] \in 1 .. now - 1 /\ p \in Player
  BY DEF GameMessage, MonInv, PastInv
<1>2. QED
  BY <1>1, GameTrackInv DEF GameMessage

\* A message or the lapse of time changes an entry of the heartbeat table.
LEMMA BeatInv ==
    ASSUME MonInv, DOMAIN beat \subseteq DOMAIN beat',
           beat' \in [DOMAIN beat' -> {"fresh", "late"}],
           UNCHANGED <<roomOfPlayer, roomWS, roomMonitor, socks, gameWS, monitors, leaving, missed>>,
           UNCHANGED rmvars
    PROVE  MonInv'
<1>1. RMInv' /\ UNCHANGED now
  BY ManagerIdle
<1>2. SocketInv' /\ MonitorInv'
  BY DEF MonInv, SocketInv, MonitorInv, OpenSocketsAreRegistered, OneMonitorPerRoom
<1>3. TrackInv' /\ PastInv'
  BY <1>1 DEF MonInv, TrackInv, TrackedAreWatched, PastInv
<1>4. QED
  BY <1>1, <1>2, <1>3 DEF MonInv

LEMMA RoomMessageInv == ASSUME MonInv, NEW c \in DOMAIN socks, RoomMessage(c) PROVE MonInv'
<1>1. /\ DOMAIN beat \subseteq DOMAIN beat'
      /\ beat' \in [DOMAIN beat' -> {"fresh", "late"}]
  BY DEF RoomMessage, Put, MonInv, TrackInv
<1>2. QED
  BY <1>1, BeatInv DEF RoomMessage

LEMMA ExpireInv == ASSUME MonInv, NEW p \in DOMAIN beat, Expire(p) PROVE MonInv'
<1>1. /\ DOMAIN beat \subseteq DOMAIN beat'
      /\ beat' \in [DOMAIN beat' -> {"fresh", "late"}]
  BY DEF Expire, MonInv, TrackInv
<1>2. QED
  BY <1>1, BeatInv DEF Expire

\* Steps of a room socket's handler that track and forget nobody.
LEMMA SocketStepInv ==
    ASSUME MonInv, SocketInv',
           UNCHANGED <<roomOfPlayer, beat, roomMonitor, gameWS, monitors, leaving, missed>>,
           UNCHANGED rmvars
    PROVE  MonInv'
<1>1. RMInv' /\ UNCHANGED now
  BY ManagerIdle
<1>2. MonitorInv' /\ TrackInv'
  BY DEF MonInv, MonitorInv, TrackInv, OneMonitorPerRoom, TrackedAreWatched
<1>3. PastInv'
  BY <1>1 DEF MonInv, PastInv
<1>4. QED
  BY <1>1, <1>2, <1>3 DEF MonInv

LEMMA RoomDropInv == ASSUME MonInv, NEW c \in DOMAIN socks, RoomDrop(c) PROVE MonInv'
<1>1. /\ DOMAIN socks' = DOMAIN socks
      /\ socks' = [d \in DOMAIN socks' |-> socks'[d]]
      /\ \A d \in DOMAIN socks :
            /\ socks'[d] \in [player : Player, open : BOOLEAN]
            /\ socks'[d].player = socks[d].player
            /\ socks'[d].open => socks[d].open
  BY DEF RoomDrop, MonInv, SocketInv
<1>2. UNCHANGED roomWS
  BY DEF RoomDrop
<1>3. SocketInv'
  BY <1>1, <1>2 DEF MonInv, SocketInv, OpenSocketsAreRegistered
<1>4. QED
  BY <1>3, SocketStepInv DEF RoomDrop

\* A handler that ends takes its own registration with it, and no other.
LEMMA RoomExitInv == ASSUME MonInv, NEW c \in DOMAIN socks, RoomExit(c) PROVE MonInv'
<1> DEFINE p == socks[c].player
<1>1. /\ DOMAIN socks' = DOMAIN socks \ {c}
      /\ socks' = [d \in DOMAIN socks' |-> socks[d]]
  BY DEF RoomExit, Del
<1>2. /\ DOMAIN roomWS' \subseteq DOMAIN roomWS
      /\ roomWS' = [q \in DOMAIN roomWS' |-> roomWS[q]]
      /\ \A q \in DOMAIN roomWS : q \in DOMAIN roomWS' <=> ~(q = p /\ roomWS[q] = c)
  BY DEF RoomExit, Del, MonInv, SocketInv
<1>3. \A q \in DOMAIN roomWS' : roomWS[q] \in DOMAIN socks' /\ socks'[roomWS[q]].player = q
  BY <1>1, <1>2 DEF MonInv, SocketInv
<1>4. OpenSocketsAreRegistered'
  <2> SUFFICES ASSUME NEW d \in DOMAIN socks', socks'[d].open
               PROVE  socks'[d].player \in DOMAIN roomWS' /\ roomWS'[socks'[d].player] = d
    BY DEF OpenSocketsAreRegistered
  <2>1. /\ d \in DOMAIN socks /\ d # c /\ socks'[d] = socks[d]
        /\ socks[d].player \in DOMAIN roomWS /\ roomWS[socks[d].player] = d
    BY <1>1 DEF MonInv, SocketInv, OpenSocketsAreRegistered
  <2>2. QED
    BY <1>2, <2>1
<1>5. SocketInv'
  <2>1. socks' \in [DOMAIN socks' -> [player : Player, open : BOOLEAN]]
    BY <1>1 DEF MonInv, SocketInv
  <2>2. QED
    BY <1>2, <1>3, <1>4, <2>1 DEF SocketInv
<1>6. QED
  BY <1>5, SocketStepInv DEF RoomExit

LEMMA GameDropInv == ASSUME MonInv, NEW p \in DOMAIN gameWS, GameDrop(p) PROVE MonInv'
<1>1. RMInv' /\ UNCHANGED now
  BY ManagerIdle DEF GameDrop
<1>2. SocketInv' /\ MonitorInv' /\ TrackInv'
  BY DEF GameDrop, MonInv, SocketInv, MonitorInv, TrackInv,
         OpenSocketsAreRegistered, OneMonitorPerRoom, TrackedAreWatched
<1>3. PastInv'
  BY <1>1 DEF GameDrop, Del, MonInv, PastInv
<1>4. QED
  BY <1>1, <1>2, <1>3 DEF MonInv

-----------------------------------------------------------------------------
(* The monitors' steps *)

\* Monitor g goes on to another step of its pass; it may only decide to end
\* when nobody is tracked in its room.
LEMMA MonitorGoesOn ==
    ASSUME MonitorInv, NEW g \in DOMAIN monitors, NEW m \in Monitor,
           m.room = monitors[g].room,
           m.pc = "exit" => \A p \in DOMAIN roomOfPlayer' : roomOfPlayer'[p] # m.room,
           monitors' = [monitors EXCEPT ![g] = m],
           \A p \in DOMAIN roomOfPlayer' : p \in DOMAIN roomOfPlayer /\ roomOfPlayer'[p] = roomOfPlayer[p],
           UNCHANGED <<roomMonitor, missed>>
    PROVE  MonitorInv'
BY DEF MonitorInv, OneMonitorPerRoom

LEMMA ScanInv == ASSUME MonInv, NEW g \in DOMAIN monitors, Scan(g) PROVE MonInv'
<1> DEFINE id == monitors[g].room
           m == [monitors[g] EXCEPT !.pc = AfterScan(id), !.todo = Late(id)]
<1>1. RMInv' /\ UNCHANGED now
  BY ManagerIdle DEF Scan
<1>2. Tracked(id) \subseteq DOMAIN roomOfPlayer /\ Late(id) \subseteq Tracked(id)
  BY DEF Tracked, Late
<1>3. monitors' = [monitors EXCEPT ![g] = m]
  BY DEF Scan, MonInv, MonitorInv
<1>4. monitors[g] \in Monitor /\ AfterScan(id) \in {"scan", "evict", "exit"}
  BY DEF MonInv, MonitorInv, AfterScan
<1>5. m \in Monitor /\ m.room = id /\ m.pc = AfterScan(id)
  <2>1. Late(id) \in SUBSET Player
    BY <1>2 DEF MonInv, TrackInv
  <2>2. m.room = id /\ m.pc = AfterScan(id) /\ m.todo = Late(id) /\ m.cur = monitors[g].cur
    BY <1>4 DEF Monitor
  <2>3. QED
    BY <1>4, <2>1, <2>2 DEF Monitor
<1>6. m.pc = "exit" => \A p \in DOMAIN roomOfPlayer' : roomOfPlayer'[p] # m.room
  <2>1. AfterScan(id) = "exit" => Tracked(id) = {}
    BY DEF AfterScan
  <2>2. Tracked(id) = {} => \A p \in DOMAIN roomOfPlayer : roomOfPlayer[p] # id
    BY DEF Tracked
  <2>3. UNCHANGED roomOfPlayer
    BY DEF Scan
  <2> HIDE DEF m, id
  <2>4. QED
    BY <1>5, <2>1, <2>2, <2>3
<1>7. MonitorInv'
  <2> HIDE DEF m
  <2>1. QED
    BY <1>3, <1>5, <1>6, MonitorGoesOn DEF Scan, MonInv
<1>8. SocketInv' /\ TrackInv' /\ PastInv'
  BY <1>1 DEF Scan, MonInv, SocketInv, TrackInv, PastInv,
              OpenSocketsAreRegistered, TrackedAreWatched
<1>9. QED
  BY <1>1, <1>7, <1>8 DEF MonInv

LEMMA EvictLeaveInv ==
    ASSUME MonInv, NEW g \in DOMAIN monitors, NEW p \in monitors[g].todo, EvictLeave(g, p)
    PROVE  MonInv'
<1> DEFINE m == [monitors[g] EXCEPT !.pc = "cleanup", !.cur = {p}]
<1>1. monitors[g] \in Monitor /\ p \in Player
  BY DEF MonInv, MonitorInv, Monitor
<1>2. RMInv' /\ UNCHANGED now
  <2>1. CASE LeaveRoom(p)
    BY <1>1, <2>1, ManagerKeeps DEF RMNext, MonInv, LeaveRoom
  <2>2. CASE UNCHANGED rmvars
    BY <2>2, ManagerIdle
  <2>3. QED
    BY <2>1, <2>2 DEF EvictLeave
<1>3. m \in Monitor /\ m.room = monitors[g].room /\ m.pc = "cleanup"
  BY <1>1 DEF Monitor
<1>4. monitors' = [monitors EXCEPT ![g] = m]
  BY DEF EvictLeave, MonInv, MonitorInv
<1>5. MonitorInv'
  <2> HIDE DEF m
  <2>1. QED
    BY <1>3, <1>4, MonitorGoesOn DEF EvictLeave, MonInv
<1>6. SocketInv' /\ TrackInv' /\ PastInv'
  BY <1>2 DEF EvictLeave, MonInv, SocketInv, TrackInv, PastInv,
              OpenSocketsAreRegistered, TrackedAreWatched
<1>7. QED
  BY <1>2, <1>5, <1>6 DEF MonInv

LEMMA EvictCleanupInv ==
    ASSUME MonInv, NEW g \in DOMAIN monitors, NEW p \in monitors[g].cur, EvictCleanup(g, p)
    PROVE  MonInv'
<1> DEFINE rest == monitors[g].todo \ {p}
           m == [monitors[g] EXCEPT !.pc = IF rest = {} THEN "scan" ELSE "evict",
                                    !.todo = rest, !.cur = {}]
<1>1. RMInv' /\ UNCHANGED now
  BY ManagerIdle DEF EvictCleanup
<1>2. monitors[g] \in Monitor /\ p \in Player
  BY DEF MonInv, MonitorInv, Monitor
<1>3. SocketInv'
  BY <1>2, UntrackKeepsSockets DEF MonInv, EvictCleanup, Untrack
<1>4. /\ TrackInv'
      /\ \A q \in DOMAIN roomOfPlayer' : q \in DOMAIN roomOfPlayer /\ roomOfPlayer'[q] = roomOfPlayer[q]
  BY <1>2, UntrackKeepsTracked DEF MonInv, EvictCleanup, Untrack
<1>5. m \in Monitor /\ m.room = monitors[g].room /\ m.pc # "exit"
  <2>1. /\ m.pc = IF rest = {} THEN "scan" ELSE "evict"
        /\ m.room = monitors[g].room /\ m.todo = rest /\ m.cur = {}
    BY <1>2 DEF Monitor
  <2>2. QED
    BY <1>2, <2>1 DEF Monitor
<1>6. monitors' = [monitors EXCEPT ![g] = m]
  BY DEF EvictCleanup, MonInv, MonitorInv
<1>7. MonitorInv'
  <2> HIDE DEF m
  <2>1. QED
    BY <1>4, <1>5, <1>6, MonitorGoesOn DEF EvictCleanup, MonInv
<1>8. PastInv'
  BY <1>1, <1>4 DEF EvictCleanup, MonInv, PastInv
<1>9. QED
  BY <1>1, <1>3, <1>4, <1>7, <1>8 DEF MonInv

\* The flag goes with the one monitor that held it, and nobody who is still
\* tracked there goes unnoticed.
LEMMA MonitorExitInv == ASSUME MonInv, NEW g \in DOMAIN monitors, MonitorExit(g) PROVE MonInv'
<1> DEFINE id == monitors[g].room
<1>1. RMInv' /\ UNCHANGED now
  BY ManagerIdle DEF MonitorExit
<1>2. /\ DOMAIN monitors' = DOMAIN monitors \ {g}
      /\ monitors' = [h \in DOMAIN monitors' |-> monitors[h]]
      /\ \A h \in DOMAIN monitors' : monitors'[h] = monitors[h] /\ monitors[h].room # id
  BY DEF MonitorExit, Del, MonInv, MonitorInv, OneMonitorPerRoom
<1>3. MonitorInv'
  <2>1. /\ monitors' \in [DOMAIN monitors' -> Monitor]
        /\ \A h \in DOMAIN monitors' : monitors'[h].room \in roomMonitor'
        /\ OneMonitorPerRoom'
    BY <1>2 DEF MonitorExit, MonInv, MonitorInv, OneMonitorPerRoom
  <2>2. QED
    BY <1>2, <2>1 DEF MonitorExit, MonInv, MonitorInv
<1>4. TrackInv'
  BY DEF MonitorExit, MonInv, MonitorInv, TrackInv, TrackedAreWatched
<1>5. SocketInv' /\ PastInv'
  BY <1>1 DEF MonitorExit, MonInv, SocketInv, PastInv, OpenSocketsAreRegistered
<1>6. QED
  BY <1>1, <1>3, <1>4, <1>5 DEF MonInv

-----------------------------------------------------------------------------
(* The theorems *)

LEMMA MonInvInductive == MonInv /\ [MonNext]_monvars => MonInv'
<1> SUFFICES ASSUME MonInv, [MonNext]_monvars PROVE MonInv'
  OBVIOUS
<1>1. CASE RoomRequest
  BY <1>1, RoomRequestInv
<1>2. ASSUME NEW p \in Player, LeaveRequest(p) \/ LeaveCleanup(p) PROVE MonInv'
  BY <1>2, LeaveRequestInv, LeaveCleanupInv
<1>3. ASSUME NEW p \in Player, NEW id \in 1 .. now - 1, GameConnect(p, id) PROVE MonInv'
  BY <1>3, GameConnectInv
<1>4. ASSUME NEW p \in Player, NEW c \in Sock, NEW id \in 1 .. now - 1, RoomConnect(c, p, id)
      PROVE  MonInv'
  BY <1>4, RoomConnectInv
<1>5. ASSUME NEW c \in DOMAIN socks, RoomMessage(c) \/ RoomDrop(c) \/ RoomExit(c) PROVE MonInv'
  BY <1>5, RoomMessageInv, RoomDropInv, RoomExitInv
<1>6. ASSUME NEW p \in DOMAIN gameWS, GameMessage(p) \/ GameDrop(p) PROVE MonInv'
  BY <1>6, GameMessageInv, GameDropInv
<1>7. ASSUME NEW p \in DOMAIN beat, Expire(p) PROVE MonInv'
  BY <1>7, ExpireInv
<1>8. ASSUME NEW g \in Goroutine, MonitorStep(g) PROVE MonInv'
  BY <1>8, ScanInv, EvictLeaveInv, EvictCleanupInv, MonitorExitInv DEF MonitorStep
<1>9. CASE UNCHANGED monvars
  <2>1. UNCHANGED rmvars /\ UNCHANGED mvars
    BY <1>9 DEF monvars, rmvars, mvars
  <2>2. RMInv' /\ UNCHANGED now
    BY <2>1, ManagerIdle
  <2>3. SocketInv' /\ MonitorInv' /\ TrackInv' /\ PastInv'
    BY <2>1, <2>2 DEF MonInv, mvars, SocketInv, MonitorInv, TrackInv, PastInv,
                      OpenSocketsAreRegistered, OneMonitorPerRoom, TrackedAreWatched
  <2>4. QED
    BY <2>2, <2>3 DEF MonInv
<1>10. QED
  BY <1>1, <1>2, <1>3, <1>4, <1>5, <1>6, <1>7, <1>8, <1>9 DEF MonNext

LEMMA MonInvAlways == MonSafe => []MonInv
<1>1. MonInit => MonInv
  BY MonInitInv
<1>2. MonInv /\ [MonNext]_monvars => MonInv'
  BY MonInvInductive
<1>3. QED
  BY <1>1, <1>2, PTL DEF MonSafe

\* The four tables of the presence half keep their types whatever sockets,
\* requests and monitors do, and a monitor's flag outlives it in no case.
THEOREM MonTypeCorrect == MonSafe => []MonTypeOK
<1>1. MonInv => MonTypeOK
  <2> SUFFICES ASSUME MonInv PROVE MonTypeOK
    OBVIOUS
  <2>1. RMTypeOK
    BY DEF MonInv, RMInv
  <2>2. monitors \in [DOMAIN monitors ->
                        [room : roomMonitor, pc : {"scan", "evict", "cleanup", "exit"},
                         todo : SUBSET Player, cur : SUBSET Player]]
    BY DEF MonInv, MonitorInv, Monitor
  <2>3. roomOfPlayer \in [DOMAIN roomOfPlayer -> 1 .. now - 1]
    BY DEF MonInv, TrackInv, PastInv
  <2>4. QED
    BY <2>1, <2>2, <2>3 DEF MonInv, SocketInv, TrackInv, PastInv, MonTypeOK
<1>2. QED
  BY <1>1, MonInvAlways, PTL

\* ensureRoomMonitorLocked never starts a second monitor for a room.
THEOREM OneMonitorSafe == MonSafe => []OneMonitorPerRoom
<1>1. MonInv => OneMonitorPerRoom
  BY DEF MonInv, MonitorInv
<1>2. QED
  BY <1>1, MonInvAlways, PTL

\* However many sockets a player opens in however short a time, the open one
\* is the registered one.
THEOREM RegisteredSafe == MonSafe => []OpenSocketsAreRegistered
<1>1. MonInv => OpenSocketsAreRegistered
  BY DEF MonInv, SocketInv
<1>2. QED
  BY <1>1, MonInvAlways, PTL

\* A tracked player has a heartbeat to measure, and a monitor's flag unless
\* the monitor was already ending.
THEOREM WatchedSafe == MonSafe => []TrackedAreWatched
<1>1. MonInv => TrackedAreWatched
  BY DEF MonInv, TrackInv
<1>2. QED
  BY <1>1, MonInvAlways, PTL
=============================================================================
