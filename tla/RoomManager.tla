----------------------------- MODULE RoomManager -----------------------------
(***************************************************************************)
(* The room service (internal/room/service.go).  Manager keeps every room  *)
(* and the room of every player under one mutex, so each exported method   *)
(* is one atomic action.  A call that returns an error changes nothing and *)
(* is a stuttering step.                                                   *)
(*                                                                         *)
(* A room's Players map (player -> Ready flag) is the pair of sets         *)
(* `players' and `ready'.  Times are naturals, 0 standing for Go's zero    *)
(* time.  Command text, payload and wall-clock stamps are left out.        *)
(***************************************************************************)
EXTENDS Naturals, Integers, Sequences, FiniteSets, GoMap

CONSTANTS Player,      \* player ids
          Capacities,  \* the capacities clients ask for
          FrameTick,   \* frame length (50 ms by default)
          LogCap,      \* commands kept per room (2048)
          MaxTime,     \* bound on the clock
          MaxSeq       \* bound on the commands of a room

ASSUME PlayerAssumption == IsFiniteSet(Player)
ASSUME CapacitiesAssumption == Capacities \subseteq Int
ASSUME FrameTickAssumption == FrameTick \in Nat \ {0}
ASSUME LogCapAssumption == LogCap \in Nat \ {0}
ASSUME BoundsAssumption == MaxTime \in Nat \ {0} /\ MaxSeq \in Nat

VARIABLES rooms,       \* room id -> room
          playerRoom,  \* player -> id of the room it is in
          now          \* the clock

rmvars == <<rooms, playerRoom, now>>

-----------------------------------------------------------------------------
(* Rooms *)

RoomState == {"Idle", "Ready", "Loading", "Playing", "Settlement", "Closed"}

Event == [seq : Nat, frame : Nat, player : Player]

Room == [owner : Player, state : RoomState, maxPlayers : Nat,
         players : SUBSET Player, ready : SUBSET Player,
         cmdSeq : Nat, commands : Seq(Event), since : Nat]

\* Mutant: the capacity clamp is forgotten.
NewRoomUnclamped(p, cap) ==
    [owner |-> p, state |-> "Idle", maxPlayers |-> cap,
     players |-> {p}, ready |-> {}, cmdSeq |-> 0, commands |-> <<>>, since |-> 0]

NewRoom(p, cap) ==
    [owner |-> p, state |-> "Idle", maxPlayers |-> IF cap <= 1 THEN 2 ELSE cap,
     players |-> {p}, ready |-> {}, cmdSeq |-> 0, commands |-> <<>>, since |-> 0]

\* Mutant: every start resets PlayingSince.
StartedAfresh(r, t) == [r EXCEPT !.state = "Playing", !.since = t]

\* PlayingSince is set by the first start only.
Started(r, t) == [r EXCEPT !.state = "Playing", !.since = IF @ = 0 THEN t ELSE @]

\* Mutant: the case of a single remaining member is forgotten.
updateRoomStateNoIdle(r, t) ==
    IF ~(r.players \subseteq r.ready) THEN [r EXCEPT !.state = "Ready"] ELSE Started(r, t)

\* The state a room falls into after its roster or a ready flag changed.
updateRoomState(r, t) ==
    CASE r.players = {} -> [r EXCEPT !.state = "Closed"]
      [] Cardinality(r.players) = 1 -> [r EXCEPT !.state = "Idle"]
      [] Cardinality(r.players) > 1 /\ ~(r.players \subseteq r.ready) ->
             [r EXCEPT !.state = "Ready"]
      [] OTHER -> IF r.state \in {"Idle", "Ready", "Loading"} THEN Started(r, t) ELSE r

currentFrame(r, t) ==
    IF r.state # "Playing" \/ r.since = 0 THEN 0 ELSE (t - r.since) \div FrameTick

\* Mutant: the wrong end of the log is dropped.
TrimOldest(s) == IF Len(s) > LogCap THEN SubSeq(s, 1, LogCap) ELSE s

\* The last LogCap commands.
Trim(s) == IF Len(s) > LogCap THEN SubSeq(s, Len(s) - LogCap + 1, Len(s)) ELSE s

\* The lookup that opens most methods: both tables must know the player.
mustGetPlayerRoom(p) == p \in DOMAIN playerRoom /\ playerRoom[p] \in DOMAIN rooms

-----------------------------------------------------------------------------
(* Operations *)

NewManager ==
    /\ rooms = EmptyMap
    /\ playerRoom = EmptyMap
    /\ now = 1

\* The id is the reading of the nanosecond clock, which has moved on by the
\* time the mutex is taken again.
CreateRoom(p, cap) ==
    /\ now < MaxTime
    /\ p \notin DOMAIN playerRoom
    /\ rooms' = Put(rooms, now, NewRoom(p, cap))
    /\ playerRoom' = Put(playerRoom, p, now)
    /\ now' = now + 1

JoinRoom(p, id) ==
    /\ p \notin DOMAIN playerRoom
    /\ id \in DOMAIN rooms
    /\ rooms[id].state \notin {"Closed", "Settlement", "Playing"}
    /\ Cardinality(rooms[id].players) < rooms[id].maxPlayers
    /\ LET r == [rooms[id] EXCEPT !.players = @ \cup {p}]
       IN  rooms' = [rooms EXCEPT ![id] = updateRoomState(r, now)]
    /\ playerRoom' = Put(playerRoom, p, id)
    /\ UNCHANGED now

SetReady(p, flag) ==
    /\ mustGetPlayerRoom(p)
    /\ LET id == playerRoom[p]
           r == [rooms[id] EXCEPT !.ready = IF flag THEN @ \cup {p} ELSE @ \ {p}]
       IN  rooms' = [rooms EXCEPT ![id] = updateRoomState(r, now)]
    /\ UNCHANGED <<playerRoom, now>>

StartGame(p) ==
    /\ mustGetPlayerRoom(p)
    /\ LET id == playerRoom[p]
       IN  /\ rooms[id].owner = p
           /\ Cardinality(rooms[id].players) >= 2
           /\ rooms' = [rooms EXCEPT ![id] = Started(rooms[id], now)]
    /\ UNCHANGED <<playerRoom, now>>

\* r without its member p, owned by o.
Without(r, p, o) ==
    [r EXCEPT !.players = @ \ {p}, !.ready = @ \ {p}, !.owner = o]

\* Mutants: the owner is never replaced; or replaced whoever leaves.
NextOwnerKept(r, p) == {r.owner}
NextOwnerAny(r, p) == r.players \ {p}

\* Ranging over a Go map yields any member first.
NextOwner(r, p) == IF r.owner = p THEN r.players \ {p} ELSE {r.owner}

\* Mutant: the player's own table entry survives when the room goes on.
LeaveRoomStale(p) ==
    /\ mustGetPlayerRoom(p)
    /\ LET id == playerRoom[p]
           r == rooms[id]
       IN  \/ /\ r.players \ {p} = {}
              /\ rooms' = Del(rooms, id)
              /\ playerRoom' = Del(playerRoom, p)
           \/ /\ r.players \ {p} # {}
              /\ \E o \in NextOwner(r, p) :
                    rooms' = [rooms EXCEPT ![id] = updateRoomState(Without(r, p, o), now)]
              /\ UNCHANGED playerRoom
    /\ UNCHANGED now

LeaveRoom(p) ==
    /\ mustGetPlayerRoom(p)
    /\ LET id == playerRoom[p]
           r == rooms[id]
       IN  \/ /\ r.players \ {p} = {}
              /\ rooms' = Del(rooms, id)
           \/ /\ r.players \ {p} # {}
              /\ \E o \in NextOwner(r, p) :
                    rooms' = [rooms EXCEPT ![id] = updateRoomState(Without(r, p, o), now)]
    /\ playerRoom' = Del(playerRoom, p)
    /\ UNCHANGED now

SubmitInput(p) ==
    /\ mustGetPlayerRoom(p)
    /\ LET id == playerRoom[p]
           r == rooms[id]
           ev == [seq |-> r.cmdSeq + 1, frame |-> currentFrame(r, now), player |-> p]
       IN  /\ r.state = "Playing"
           /\ r.cmdSeq < MaxSeq
           /\ rooms' = [rooms EXCEPT ![id].cmdSeq = @ + 1,
                                     ![id].commands = Trim(Append(@, ev))]
    /\ UNCHANGED <<playerRoom, now>>

\* Mutant: the last command seen is sent again.
PullInputsAgain(r, lastSeq) ==
    LET events[n \in 0 .. Len(r.commands)] ==
            IF n = 0 THEN <<>>
            ELSE IF r.commands[n].seq >= lastSeq THEN Append(events[n - 1], r.commands[n])
            ELSE events[n - 1]
    IN  events[Len(r.commands)]

\* The reply to a poll by a client that has seen everything up to lastSeq.
PullInputs(r, lastSeq) ==
    LET events[n \in 0 .. Len(r.commands)] ==
            IF n = 0 THEN <<>>
            ELSE IF r.commands[n].seq > lastSeq THEN Append(events[n - 1], r.commands[n])
            ELSE events[n - 1]
    IN  events[Len(r.commands)]

Tick ==
    /\ now < MaxTime
    /\ now' = now + 1
    /\ UNCHANGED <<rooms, playerRoom>>

\* HandleGatewayMessage dispatches on the command of the request.
RMNext ==
    \/ \E p \in Player :
          \/ \E cap \in Capacities : CreateRoom(p, cap)
          \/ \E id \in DOMAIN rooms : JoinRoom(p, id)
          \/ \E flag \in BOOLEAN : SetReady(p, flag)
          \/ StartGame(p)
          \/ LeaveRoom(p)
          \/ SubmitInput(p)
    \/ Tick

RMSpec == NewManager /\ [][RMNext]_rmvars

-----------------------------------------------------------------------------
(* Properties *)

\* Both tables and the clock keep their types; room ids are past clock
\* readings, so CreateRoom never overwrites a room.
RMTypeOK ==
    /\ now \in 1 .. MaxTime
    /\ DOMAIN rooms \subseteq 1 .. now - 1
    /\ rooms \in [DOMAIN rooms -> Room]
    /\ DOMAIN playerRoom \subseteq Player
    /\ playerRoom \in [DOMAIN playerRoom -> DOMAIN rooms]

\* The two tables agree after every operation: playerRoom sends p to a room
\* exactly when that room lists p.  SetReady dereferences r.Players[p] with
\* nothing but the playerRoom entry to go by.
MembershipAgrees ==
    \A p \in Player, id \in DOMAIN rooms :
        p \in rooms[id].players <=> p \in DOMAIN playerRoom /\ playerRoom[p] = id

\* No room is left without members or in the hands of somebody outside it,
\* and ready flags and seats belong to members within the capacity.
RoomsAreTended ==
    \A id \in DOMAIN rooms :
        /\ rooms[id].owner \in rooms[id].players
        /\ rooms[id].ready \subseteq rooms[id].players
        /\ Cardinality(rooms[id].players) <= rooms[id].maxPlayers

\* The state a room shows matches its roster whichever way it was reached:
\* Idle with one member, and with more Playing as soon as all are ready.
\* Loading, Settlement and Closed never outlive a critical section.
StateFollowsRoster ==
    \A id \in DOMAIN rooms :
        LET r == rooms[id]
        IN  /\ r.state \in {"Idle", "Ready", "Playing"}
            /\ r.state = "Idle" <=> Cardinality(r.players) = 1
            /\ Cardinality(r.players) > 1 /\ r.players \subseteq r.ready
                  => r.state = "Playing"

\* The log of a room is the unbroken tail of its command sequence, at most
\* LogCap long: trimming never leaves a hole and never drops more than it must.
LogKeepsTail ==
    \A id \in DOMAIN rooms :
        LET r == rooms[id]
        IN  /\ Len(r.commands) = IF r.cmdSeq <= LogCap THEN r.cmdSeq ELSE LogCap
            /\ \A i \in 1 .. Len(r.commands) :
                  r.commands[i].seq = r.cmdSeq - Len(r.commands) + i

\* A client that polls PullInputs with the last sequence number it has seen
\* gets every later command, once and in order, as long as it is at most
\* LogCap commands behind.
PollsMissNothing ==
    \A id \in DOMAIN rooms :
        LET r == rooms[id]
        IN  \A last \in 0 .. r.cmdSeq :
                LET got == PullInputs(r, last)
                IN  r.cmdSeq - last <= LogCap =>
                       /\ Len(got) = r.cmdSeq - last
                       /\ \A i \in 1 .. Len(got) : got[i].seq = last + i

\* Frame numbers never run backwards along the log of a room and never ahead
\* of the frame a client is told next, although games stop and start again.
FramesFollowSeq ==
    \A id \in DOMAIN rooms :
        LET r == rooms[id]
        IN  /\ \A i \in 1 .. Len(r.commands) - 1 :
                  r.commands[i].frame <= r.commands[i + 1].frame
            /\ r.state = "Playing" =>
                  \A i \in 1 .. Len(r.commands) :
                      r.commands[i].frame <= currentFrame(r, now)

\* The manager implements the directory of rooms.
Nowhere == 0

Directory ==
    INSTANCE RoomDirectory WITH
        RoomId <- 1 .. MaxTime,
        where <- [p \in Player |-> IF p \in DOMAIN playerRoom THEN playerRoom[p] ELSE Nowhere],
        host <- [id \in DOMAIN rooms |-> rooms[id].owner],
        used <- 1 .. now - 1

\* Seen through its two tables, every operation of the manager is a step of
\* the directory: one room per player, hosts that are members and change only
\* by leaving, ids never reused.
ImplementsDirectory == Directory!DirSpec
=============================================================================
