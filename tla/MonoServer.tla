----------------------------- MODULE MonoServer -----------------------------
(***************************************************************************)
(* The single-process server (internal/mono/server.go): rooms, games and   *)
(* sockets in tables under one mutex.  Each critical section is an action; *)
(* a room socket's handler has two of them before its loop, and one after. *)
(*                                                                         *)
(* A heartbeat older than the timeout is a member of `late', which the     *)
(* clock may grow at any time and a message shrinks.  What a landing or a  *)
(* layer does to a board is module BubbleEngine; here it yields a status.  *)
(* Server-side flight is left out: nothing in this server calls Fire.      *)
(***************************************************************************)
EXTENDS Naturals, FiniteSets, GoMap

CONSTANTS Player,    \* player ids
          Conn,      \* room sockets
          Capacity,  \* the capacities clients ask for
          MaxRooms,  \* bound on the rooms created
          Watched    \* bound: the players, and the rooms they open sockets for

ASSUME PlayerAssumption == IsFiniteSet(Player)
ASSUME MonoBoundsAssumption == MaxRooms \in Nat /\ Capacity \subseteq Nat /\ Watched \subseteq Player \X (1 .. MaxRooms)

VARIABLES rooms,       \* room id -> room
          playerRoom,  \* player -> room it has its seat in
          boards,      \* room id -> player -> board, Server.gameStates
          tickets,     \* room id -> players with a ticket, Server.roomTickets
          nextAdd,     \* rooms with a next layer, Server.roomNextAdd
          socks,       \* running handlers: socket -> room, player, registered?, open?
          roomConns,   \* <<room id, player>> -> socket registered last
          lastHB,      \* players with a heartbeat time
          late,        \* those of them whose time is too old
          made,        \* rooms created so far
          strayed,     \* history: <<player, room>> left behind by a join
          loose        \* history: sockets the tables lost sight of

roomvars == <<rooms, playerRoom, boards, tickets, nextAdd, made, strayed>>
sockvars == <<socks, roomConns, loose>>
beatvars == <<lastHB, late>>
monovars == <<rooms, playerRoom, boards, tickets, nextAdd, socks, roomConns,
              lastHB, late, made, strayed, loose>>

-----------------------------------------------------------------------------
(* Data *)

RoomId == 1 .. MaxRooms
Status == {"playing", "win", "lose"}

\* winner is the empty set for an empty WinnerID.
Room == [owner : Player, state : {"waiting", "playing"}, winner : SUBSET Player,
         max : Nat, players : SUBSET Player]

NewRoom(p, cap) ==
    [owner |-> p, state |-> "waiting", winner |-> {},
     max |-> IF cap < 2 THEN 2 ELSE IF cap > 8 THEN 8 ELSE cap, players |-> {p}]

Board == [status : Status, pending : BOOLEAN]
NewBoard == [status |-> "playing", pending |-> FALSE]

\* m without the keys in ks.
Minus(m, ks) == [k \in DOMAIN m \ ks |-> m[k]]

Seated(p, id) == p \in DOMAIN playerRoom /\ playerRoom[p] = id

MonoInit ==
    /\ rooms = EmptyMap /\ playerRoom = EmptyMap /\ boards = EmptyMap
    /\ tickets = EmptyMap /\ nextAdd = {} /\ made = 0
    /\ socks = EmptyMap /\ roomConns = EmptyMap
    /\ lastHB = {} /\ late = {} /\ strayed = {} /\ loose = {}

-----------------------------------------------------------------------------
(* removePlayerLocked, for all of L at once: the heartbeat loop removes       *)
(* several players in one critical section, and the order makes no difference *)

Gone(id, L) == {p \in L : Seated(p, id)}
Left(id, L) == rooms[id].players \ Gone(id, L)

ClosedBy(L) == {id \in DOMAIN rooms : Left(id, L) = {}}

\* Mutant: a game goes on with the last player.
StoppedByNone(L) == {}

\* The games that stop because one player is left.
StoppedBy(L) ==
    {id \in DOMAIN rooms : /\ Gone(id, L) # {}
                           /\ rooms[id].state = "playing"
                           /\ Cardinality(Left(id, L)) = 1}

\* Mutant: the last player wins even with a lost board.
SurvivorsAny(id, L) == Left(id, L) \cap DOMAIN boards[id]

Survivors(id, L) == {p \in Left(id, L) \cap DOMAIN boards[id] : boards[id][p].status # "lose"}

\* Mutant: a departed owner keeps the room.
HeirsNone(id, L) == {rooms[id].owner}

\* Ranging over a Go map yields any player first.
Heirs(id, L) == IF rooms[id].owner \in Gone(id, L) THEN Left(id, L) ELSE {rooms[id].owner}

RoomWithout(id, L, heir) ==
    [rooms[id] EXCEPT !.players = Left(id, L), !.owner = heir,
                      !.state  = IF id \in StoppedBy(L) THEN "waiting" ELSE @,
                      !.winner = IF id \in StoppedBy(L) THEN Survivors(id, L) ELSE @]

RoomsWithout(L) ==
    LET open == DOMAIN rooms \ ClosedBy(L)
        heirs == {h \in [open -> Player] : \A id \in open : h[id] \in Heirs(id, L)}
    IN  {[id \in open |-> RoomWithout(id, L, h[id])] : h \in heirs}

\* The tables of games that are over are deleted.
EndGames(ids) ==
    /\ boards' = Minus(boards, ids)
    /\ tickets' = Minus(tickets, ids)
    /\ nextAdd' = nextAdd \ ids

\* Their registered sockets are closed; their handlers notice later.
HangUp(cs) == [c \in DOMAIN socks |-> [socks[c] EXCEPT !.open = @ /\ c \notin cs]]

\* Mutant: only with the last player.
RegisteredAtClosing(L) ==
    {roomConns[k] : k \in {j \in DOMAIN roomConns : j[2] \in Gone(j[1], L) /\ j[1] \in ClosedBy(L)}}

RegisteredAt(L) == {roomConns[k] : k \in {j \in DOMAIN roomConns : j[2] \in Gone(j[1], L)}}

SocketsWithout(L) ==
    /\ socks' = HangUp(RegisteredAt(L))
    /\ roomConns' = Minus(roomConns, {k \in DOMAIN roomConns : k[1] \in ClosedBy(L)})
    /\ UNCHANGED loose

-----------------------------------------------------------------------------
(* Requests *)

\* Whoever is seated leaves that room first.
createRoom(p, cap) ==
    /\ made < MaxRooms
    /\ made' = made + 1
    /\ \E rs \in RoomsWithout({p}) : rooms' = Put(rs, made', NewRoom(p, cap))
    /\ playerRoom' = Put(playerRoom, p, made')
    /\ EndGames(ClosedBy({p}) \cup StoppedBy({p}))
    /\ SocketsWithout({p})
    /\ UNCHANGED <<beatvars, strayed>>

HasSeat(id) == Cardinality(rooms[id].players) < rooms[id].max

\* Nobody leaves a room by joining another, and a game may be under way.
handleJoin(p, id) ==
    /\ id \in DOMAIN rooms
    /\ p \notin rooms[id].players
    /\ HasSeat(id)
    /\ rooms' = [rooms EXCEPT ![id].players = @ \cup {p}]
    /\ playerRoom' = Put(playerRoom, p, id)
    /\ strayed' = strayed \cup (IF p \in DOMAIN playerRoom THEN {<<p, playerRoom[p]>>} ELSE {})
    /\ UNCHANGED <<boards, tickets, nextAdd, made>>
    /\ UNCHANGED <<sockvars, beatvars>>

handleLeave(p) ==
    /\ p \in DOMAIN playerRoom
    /\ rooms' \in RoomsWithout({p})
    /\ playerRoom' = Del(playerRoom, p)
    /\ EndGames(ClosedBy({p}) \cup StoppedBy({p}))
    /\ SocketsWithout({p})
    /\ UNCHANGED <<beatvars, made, strayed>>

\* The owner starts the game, or starts it again while it is going on.
handleStart(id) ==
    /\ id \in DOMAIN rooms
    /\ Cardinality(rooms[id].players) >= 2
    /\ rooms' = [rooms EXCEPT ![id].state = "playing", ![id].winner = {}]
    /\ boards' = Put(boards, id, [p \in rooms[id].players |-> NewBoard])
    /\ tickets' = Put(tickets, id, rooms[id].players)
    /\ nextAdd' = nextAdd \cup {id}
    /\ UNCHANGED <<playerRoom, made, strayed>>
    /\ UNCHANGED <<sockvars, beatvars>>

-----------------------------------------------------------------------------
(* Games *)

Alive(id, bs) == {p \in rooms[id].players \cap DOMAIN bs : bs[p].status # "lose"}

\* resolveRoomOutcomeLocked: somebody lost and one of the players is left.
Decided(id, bs) ==
    /\ rooms[id].state = "playing"
    /\ Cardinality(rooms[id].players) >= 2
    /\ \E p \in rooms[id].players \cap DOMAIN bs : bs[p].status = "lose"
    /\ Cardinality(Alive(id, bs)) = 1

\* The boards of a decided game are deleted with the rest of it.
Settle(id, bs) ==
    /\ rooms' = [rooms EXCEPT ![id].state = "waiting", ![id].winner = Alive(id, bs)]
    /\ EndGames({id})

\* canAddLayer looks at every board of the game, those of players who left
\* included.
CanAddLayer(bs) == \A p \in DOMAIN bs : bs[p] = NewBoard

\* AddTopLayer on every board: the lowest row of some may be full.
Layered(bs) == [DOMAIN bs -> {NewBoard, [status |-> "lose", pending |-> FALSE]}]

-----------------------------------------------------------------------------
(* Room sockets *)

\* The first section of handleWSRoom: a seat, and during a game a ticket,
\* which handleRoomDetail gives to whoever is seated.
WSCheck(c, p, id) ==
    /\ c \notin DOMAIN socks
    /\ Seated(p, id)
    /\ id \in DOMAIN rooms /\ rooms[id].state = "playing" /\ id \in DOMAIN tickets
          => p \in tickets[id]
    /\ socks' = Put(socks, c, [room |-> id, player |-> p, registered |-> FALSE, open |-> TRUE])
    /\ UNCHANGED <<roomConns, loose>>
    /\ UNCHANGED <<roomvars, beatvars>>

\* The second one: register, closing the predecessor, without looking again.
WSRegister(c) ==
    /\ c \in DOMAIN socks /\ ~socks[c].registered
    /\ LET k == <<socks[c].room, socks[c].player>>
           old == IF k \in DOMAIN roomConns THEN {roomConns[k]} ELSE {}
       IN  /\ socks' = [HangUp(old) EXCEPT ![c].registered = TRUE]
           /\ roomConns' = Put(roomConns, k, c)
           /\ loose' = IF Seated(k[2], k[1]) THEN loose ELSE loose \cup {c}
    /\ lastHB' = lastHB \cup {socks[c].player}
    /\ late' = late \ {socks[c].player}
    /\ UNCHANGED roomvars

\* Mutant: the cleanup leaves the entry to its successor, and its own too.
WSCleanupNothing(c) ==
    /\ c \in DOMAIN socks /\ socks[c].registered /\ ~socks[c].open
    /\ socks' = Del(socks, c)
    /\ UNCHANGED <<roomConns, loose>>
    /\ UNCHANGED <<roomvars, beatvars>>

\* The deferred section deletes whatever socket is registered.
WSCleanup(c) ==
    /\ c \in DOMAIN socks /\ socks[c].registered /\ ~socks[c].open
    /\ LET k == <<socks[c].room, socks[c].player>>
       IN  /\ roomConns' = Del(roomConns, k)
           /\ loose' = (loose \ {c}) \cup
                 (IF k \in DOMAIN roomConns THEN {roomConns[k]} \ {c} ELSE {})
    /\ socks' = Del(socks, c)
    /\ UNCHANGED <<roomvars, beatvars>>

\* The peer goes away, or a write fails.
Drop(c) ==
    /\ c \in DOMAIN socks /\ socks[c].open
    /\ socks' = HangUp({c})
    /\ UNCHANGED <<roomConns, loose>>
    /\ UNCHANGED <<roomvars, beatvars>>

\* readPlayerWS has a message, perhaps one read just before the socket was
\* closed; its player is heard of, wherever it is by now.
Receives(c) ==
    /\ c \in DOMAIN socks /\ socks[c].registered
    /\ lastHB' = lastHB \cup {socks[c].player}
    /\ late' = late \ {socks[c].player}
    /\ UNCHANGED sockvars
    /\ UNCHANGED <<playerRoom, made, strayed>>

HasBoard(c) == socks[c].room \in DOMAIN boards /\ socks[c].player \in DOMAIN boards[socks[c].room]

\* An aim or a heartbeat, or any message of a player without a board.
Other(c) ==
    /\ Receives(c)
    /\ UNCHANGED <<rooms, boards, tickets, nextAdd>>

Shot(c) ==
    /\ Receives(c)
    /\ HasBoard(c)
    /\ boards[socks[c].room][socks[c].player] = NewBoard
    /\ boards' = [boards EXCEPT ![socks[c].room][socks[c].player].pending = TRUE]
    /\ UNCHANGED <<rooms, tickets, nextAdd>>

\* A landing outside the board is refused, and leaves the shot pending; the
\* outcome rule runs all the same.
Land(c, outcome) ==
    /\ Receives(c)
    /\ HasBoard(c)
    /\ LET id == socks[c].room
           p == socks[c].player
           landed == [boards[id] EXCEPT ![p] = [status |-> outcome, pending |-> FALSE]]
       IN  \E bs \in {boards[id]} \cup
                     (IF boards[id][p] = [NewBoard EXCEPT !.pending = TRUE] THEN {landed} ELSE {}) :
              \/ Decided(id, bs) /\ Settle(id, bs)
              \/ /\ ~Decided(id, bs)
                 /\ boards' = [boards EXCEPT ![id] = bs]
                 /\ UNCHANGED <<rooms, tickets, nextAdd>>

\* The 70 ms tick of a handler ends it when the room is gone, ...
BuildStateGone(c) ==
    /\ c \in DOMAIN socks /\ socks[c].registered /\ socks[c].open
    /\ socks[c].room \notin DOMAIN rooms
    /\ socks' = HangUp({c})
    /\ UNCHANGED <<roomConns, loose>>
    /\ UNCHANGED <<roomvars, beatvars>>

\* ... and otherwise settles the game or adds a layer when one is due.
BuildState(c) ==
    /\ c \in DOMAIN socks /\ socks[c].registered
    /\ LET id == socks[c].room
       IN  /\ id \in DOMAIN rooms /\ id \in DOMAIN boards
           /\ \/ Decided(id, boards[id]) /\ Settle(id, boards[id])
              \/ /\ ~Decided(id, boards[id])
                 /\ rooms[id].state = "playing"
                 /\ \/ /\ id \notin nextAdd
                       /\ UNCHANGED boards
                    \/ /\ id \in nextAdd
                       /\ CanAddLayer(boards[id])
                       /\ \E bs \in Layered(boards[id]) : boards' = [boards EXCEPT ![id] = bs]
                 /\ nextAdd' = nextAdd \cup {id}
                 /\ UNCHANGED <<rooms, tickets>>
    /\ UNCHANGED <<playerRoom, made, strayed>>
    /\ UNCHANGED <<sockvars, beatvars>>

-----------------------------------------------------------------------------
(* Heartbeats *)

\* The timeout passes without a message of p.
Expire(p) ==
    /\ p \in lastHB \ late
    /\ late' = late \cup {p}
    /\ UNCHANGED lastHB
    /\ UNCHANGED <<roomvars, sockvars>>

\* One pass of heartbeatLoop: every late player leaves the room it is in now.
heartbeatLoop ==
    /\ late # {}
    /\ rooms' \in RoomsWithout(late)
    /\ playerRoom' = Minus(playerRoom, late)
    /\ EndGames(ClosedBy(late) \cup StoppedBy(late))
    /\ SocketsWithout(late)
    /\ lastHB' = lastHB \ late
    /\ late' = late \ late
    /\ UNCHANGED <<made, strayed>>

-----------------------------------------------------------------------------
(* The whole *)

Request ==
    \/ \E p \in Player :
          \/ \E cap \in Capacity : createRoom(p, cap)
          \/ \E id \in DOMAIN rooms : handleJoin(p, id)
          \/ handleLeave(p)
    \/ \E id \in DOMAIN rooms : handleStart(id)

Socket ==
    \E c \in Conn :
        \/ \E p \in Player, id \in RoomId : <<p, id>> \in Watched /\ WSCheck(c, p, id)
        \/ WSRegister(c)
        \/ WSCleanup(c)
        \/ Drop(c)
        \/ Other(c)
        \/ Shot(c)
        \/ \E outcome \in Status : Land(c, outcome)
        \/ BuildState(c)
        \/ BuildStateGone(c)

MonoNext == Request \/ Socket \/ (\E p \in Player : Expire(p)) \/ heartbeatLoop

MonoSafe == MonoInit /\ [][MonoNext]_monovars

-----------------------------------------------------------------------------
(* Properties *)

Sock == [room : RoomId, player : Player, registered : BOOLEAN, open : BOOLEAN]

\* The tables keep their types, and a registered socket has a running handler
\* for that room and player.
MonoTypeOK ==
    /\ made \in 0 .. MaxRooms
    /\ rooms \in [DOMAIN rooms -> Room] /\ DOMAIN rooms \subseteq 1 .. made
    /\ playerRoom \in [DOMAIN playerRoom -> RoomId] /\ DOMAIN playerRoom \subseteq Player
    /\ \A id \in DOMAIN boards : boards[id] \in [DOMAIN boards[id] -> Board]
    /\ \A id \in DOMAIN tickets : tickets[id] \subseteq Player
    /\ socks \in [DOMAIN socks -> Sock] /\ DOMAIN socks \subseteq Conn
    /\ \A k \in DOMAIN roomConns :
          LET c == roomConns[k]
          IN  c \in DOMAIN socks /\ socks[c].registered /\ k = <<socks[c].room, socks[c].player>>
    /\ late \subseteq lastHB /\ lastHB \subseteq Player
    /\ strayed \subseteq Player \X RoomId /\ loose \subseteq DOMAIN socks

\* A game is set up in all its tables or in none, exactly while its room
\* plays, and there are two to play it.
GamesAreSetUp ==
    \A id \in RoomId :
        LET playing == id \in DOMAIN rooms /\ rooms[id].state = "playing"
        IN  /\ playing <=> id \in DOMAIN boards
            /\ playing <=> id \in DOMAIN tickets
            /\ playing <=> id \in nextAdd
            /\ playing => Cardinality(rooms[id].players) >= 2

\* Every seat is a membership of an open room, whose owner is one of its
\* players, within its capacity; and the other way round except for players
\* who joined another room without leaving this one.
SeatsAreMemberships ==
    /\ \A p \in DOMAIN playerRoom :
          playerRoom[p] \in DOMAIN rooms /\ p \in rooms[playerRoom[p]].players
    /\ \A id \in DOMAIN rooms :
          /\ rooms[id].owner \in rooms[id].players
          /\ Cardinality(rooms[id].players) <= rooms[id].max
          /\ \A p \in rooms[id].players : Seated(p, id) \/ <<p, id>> \in strayed

\* The socket of somebody who left the room is closed, so that it neither
\* shoots nor sees the game, unless the cleanup of an older handler took it
\* off the table, or it was registered after its player had left.
SocketsFollowMembers ==
    \A c \in DOMAIN socks \ loose :
        socks[c].registered /\ socks[c].open =>
            /\ <<socks[c].room, socks[c].player>> \in DOMAIN roomConns
            /\ roomConns[<<socks[c].room, socks[c].player>>] = c
            /\ socks[c].room \in DOMAIN rooms
            /\ socks[c].player \in rooms[socks[c].room].players

\* A player becomes the winner only by a game in which its own board holds, and
\* the board of every other player still in the room is lost or about to be.
WinnersHeldOut ==
    [][\A id \in DOMAIN rooms \cap DOMAIN rooms' :
          \A p \in rooms'[id].winner \ rooms[id].winner :
             /\ rooms[id].state = "playing"
             /\ p \in rooms'[id].players \cap DOMAIN boards[id]
             /\ boards[id][p].status # "lose"
             /\ \A q \in rooms'[id].players \cap DOMAIN boards[id] :
                   q # p => boards[id][q].status = "lose" \/ boards[id][q].pending]_monovars
=============================================================================
