----------------------------- MODULE LobbyServer -----------------------------
(***************************************************************************)
(* The lobby UI server (internal/ui/server.go, game_state.go) in front of  *)
(* the room manager.  It keeps a copy of the rooms under Server.mu and     *)
(* drops that mutex around every call to the room and game services, so a  *)
(* request is a call in flight: its remote part, then what the reply does  *)
(* to the copy.  Replies may be overtaken by later ones.                   *)
(*                                                                         *)
(* rooms and roomMembers are always set and deleted together and are one   *)
(* table `item'; so are roomGameAddr and roomTickets, which are `tickets'. *)
(* What a shot or a layer does to a board is module BubbleEngine; here it  *)
(* yields a status.                                                        *)
(***************************************************************************)
EXTENDS RoomManager

CONSTANTS Call,         \* calls in flight
          LobbyPlayer,  \* the players who use the lobby's pages
          GatewayPlayer,  \* the players who use the TCP gateway
          Shooter,      \* bound: the players who watch and shoot; if there are
                        \* none, boards get no layers either
          MaxSessions,  \* bound on the game sessions of a room
          CallsMayFail  \* whether a remote call may time out or be cancelled

ASSUME CallAssumption == IsFiniteSet(Call)
ASSUME LobbyPlayersAssumption == LobbyPlayer \cup GatewayPlayer \subseteq Player
ASSUME LobbyBoundsAssumption == MaxSessions \in Nat /\ CallsMayFail \in BOOLEAN

VARIABLES item,     \* room id -> the copy of the room
          uiRoom,   \* player -> room, Server.playerRoom
          boards,   \* room id -> player -> board, Server.gameStates
          nextAdd,  \* rooms whose next layer is scheduled
          tickets,  \* room id -> session and the players with a ticket for it
          issued,   \* room id -> number of its latest session in the game service
          calls,    \* call -> request in flight
          excused   \* history: rooms whose last start went wrong in one of the
                    \* ways that UnexcusedStartsCanBeEntered lists

copyvars == <<item, uiRoom, boards, nextAdd, tickets>>
lobbyvars == <<rooms, playerRoom, now, item, uiRoom, boards, nextAdd, tickets,
               issued, calls, excused>>

-----------------------------------------------------------------------------
(* Data *)

RoomId == 1 .. MaxTime
Status == {"playing", "win", "lose"}

\* busy: a bubble is moving or a client's shot is pending.
Board == [status : Status, busy : BOOLEAN]
NewBoard == [status |-> "playing", busy |-> FALSE]

\* winner is the empty set for an empty WinnerID.
Item == [owner : Player, state : {"waiting", "playing", "closed"},
         winner : SUBSET Player, members : SUBSET Player]

toUIRoomState(state) ==
    CASE state = "Playing" -> "playing"
      [] state \in {"Closed", "Settlement"} -> "closed"
      [] OTHER -> "waiting"

\* What the lobby makes of a room in a reply.
roomItemFromRemote(r) ==
    [owner |-> r.owner, state |-> toUIRoomState(r.state), winner |-> {}, members |-> r.players]

Reply(id, r) == [op |-> "sync", room |-> id, item |-> roomItemFromRemote(r)]

\* The room service has room id playing.
Plays(id) == id \in DOMAIN rooms /\ rooms[id].state = "Playing"

\* The rooms some start request is working on.
InStart == {calls[c].room : c \in {d \in DOMAIN calls : calls[d].op = "start"}}

\* The room service has room id playing, and no start of it is in flight.
Begun(id) == Plays(id) /\ id \notin InStart

Issued(id) == IF id \in DOMAIN issued THEN issued[id] ELSE 0

\* The sessions room id has been or is being given, which the bound limits.
Asked(id) ==
    Issued(id) + Cardinality({c \in DOMAIN calls :
        calls[c].op = "start" /\ calls[c].at = "session" /\ calls[c].room = id})

LobbyInit ==
    /\ NewManager
    /\ item = EmptyMap /\ uiRoom = EmptyMap /\ boards = EmptyMap
    /\ nextAdd = {} /\ tickets = EmptyMap
    /\ issued = EmptyMap /\ calls = EmptyMap /\ excused = {}

-----------------------------------------------------------------------------
(* Requests that end in a refreshed copy *)

Free(c) == c \in Call \ DOMAIN calls

createRoom(p, cap, c) ==
    /\ Free(c)
    /\ CreateRoom(p, IF cap < 2 THEN 2 ELSE IF cap > 8 THEN 8 ELSE cap)
    /\ calls' = Put(calls, c, Reply(now, rooms'[now]))
    /\ UNCHANGED copyvars
    /\ UNCHANGED <<issued, excused>>

handleJoinRoom(p, id, c) ==
    /\ Free(c)
    /\ JoinRoom(p, id)
    /\ calls' = Put(calls, c, Reply(id, rooms'[id]))
    /\ UNCHANGED copyvars
    /\ UNCHANGED <<issued, excused>>

\* A member of the room polls it, as every open room page does; anybody else
\* is refused, and a reply without the room changes nothing.
handleRoomDetail(id, c) ==
    /\ Free(c)
    /\ id \in DOMAIN rooms
    /\ calls' = Put(calls, c, Reply(id, rooms[id]))
    /\ UNCHANGED rmvars
    /\ UNCHANGED copyvars
    /\ UNCHANGED <<issued, excused>>

\* Mutant: a reply only adds members.
syncRoomCacheMerging(c) ==
    /\ c \in DOMAIN calls /\ calls[c].op = "sync"
    /\ LET id == calls[c].room
           new == calls[c].item
           old == IF id \in DOMAIN item THEN item[id].members ELSE {}
       IN  /\ item' = Put(item, id, [new EXCEPT !.members = @ \cup old])
           /\ uiRoom' = [p \in DOMAIN uiRoom \cup new.members |->
                            IF p \in new.members THEN id ELSE uiRoom[p]]
    /\ calls' = Del(calls, c)
    /\ UNCHANGED rmvars
    /\ UNCHANGED <<boards, nextAdd, tickets, issued, excused>>

\* The reply replaces the copy of the room, whatever happened since it was
\* computed.  Members get a seat; nobody loses one.
syncRoomCacheFromRemote(c) ==
    /\ c \in DOMAIN calls /\ calls[c].op = "sync"
    /\ LET id == calls[c].room
           new == calls[c].item
       IN  /\ item' = Put(item, id, new)
           /\ uiRoom' = [p \in DOMAIN uiRoom \cup new.members |->
                            IF p \in new.members THEN id ELSE uiRoom[p]]
    /\ calls' = Del(calls, c)
    /\ UNCHANGED rmvars
    /\ UNCHANGED <<boards, nextAdd, tickets, issued, excused>>

-----------------------------------------------------------------------------
(* Starting a game *)

\* Both critical sections of handleStartGame make this test.
Startable(id) ==
    /\ id \in DOMAIN item
    /\ item[id].state # "playing"
    /\ Cardinality(item[id].members) >= 2

handleStartGame(p, id, c) ==
    /\ Free(c)
    /\ Startable(id)
    /\ item[id].owner = p
    /\ Asked(id) < MaxSessions
    /\ calls' = Put(calls, c, [op |-> "start", at |-> "session", by |-> p, room |-> id,
                               players |-> item[id].members, gen |-> 0])
    /\ excused' = IF id \in InStart THEN excused \cup {id} ELSE excused \ {id}
    /\ UNCHANGED rmvars
    /\ UNCHANGED copyvars
    /\ UNCHANGED issued

\* The game service replaces the session the room had.
CreateSession(c) ==
    /\ c \in DOMAIN calls /\ calls[c].op = "start" /\ calls[c].at = "session"
    /\ LET id == calls[c].room
       IN  /\ issued' = Put(issued, id, Issued(id) + 1)
           /\ calls' = [calls EXCEPT ![c].at = "room", ![c].gen = Issued(id) + 1]
    /\ UNCHANGED rmvars
    /\ UNCHANGED copyvars
    /\ UNCHANGED excused

\* The room service starts the room its own table has for the player, which
\* need not be the one the request names, nor have the members it had.
StartRoom(c) ==
    /\ c \in DOMAIN calls /\ calls[c].op = "start" /\ calls[c].at = "room"
    /\ StartGame(calls[c].by)
    /\ calls' = [calls EXCEPT ![c].at = "finish"]
    /\ LET id == playerRoom[calls[c].by]
       IN  excused' = IF id = calls[c].room /\ rooms[id].players \subseteq calls[c].players
                      THEN excused ELSE excused \cup {id, calls[c].room}
    /\ UNCHANGED copyvars
    /\ UNCHANGED issued

RoomRefusesStart(p) ==
    ~ /\ mustGetPlayerRoom(p)
      /\ rooms[playerRoom[p]].owner = p
      /\ Cardinality(rooms[playerRoom[p]].players) >= 2

\* Mutant: the tickets stay.
EndGameHalf(id) ==
    /\ boards' = Del(boards, id)
    /\ nextAdd' = nextAdd \ {id}
    /\ UNCHANGED tickets

\* The room's boards, timer and tickets are deleted.
EndGame(id) ==
    /\ boards' = Del(boards, id)
    /\ nextAdd' = nextAdd \ {id}
    /\ tickets' = Del(tickets, id)

\* Mutant: the second section does not look at the copy again.
StillStartableUnchecked(id) == id \in DOMAIN item

\* What the second section finds out about the room after the calls.
StillStartable(id) == Startable(id)

\* Mutant: the tickets of the present members only.
TicketsOfPresent(c) == [gen |-> calls[c].gen, players |-> item[calls[c].room].members]

TicketsOf(c) == [gen |-> calls[c].gen, players |-> calls[c].players]

\* The second critical section.  Unless the room is gone, short of members or
\* playing by now, the game begins for its present members, and the tickets
\* are kept if every one of them has one.
FinishStart(c) ==
    /\ c \in DOMAIN calls /\ calls[c].op = "start" /\ calls[c].at = "finish"
    /\ LET id == calls[c].room
       IN  \/ /\ ~StillStartable(id)
              /\ excused' = excused \cup {id}
              /\ UNCHANGED copyvars
           \/ /\ StillStartable(id)
              /\ item[id].members \cup {calls[c].by} \subseteq calls[c].players
              /\ item' = [item EXCEPT ![id].state = "playing", ![id].winner = {}]
              /\ boards' = Put(boards, id, [p \in item[id].members |-> NewBoard])
              /\ nextAdd' = nextAdd \cup {id}
              /\ tickets' = Put(tickets, id, TicketsOf(c))
              /\ UNCHANGED <<uiRoom, excused>>
           \/ /\ StillStartable(id)
              /\ ~(item[id].members \cup {calls[c].by} \subseteq calls[c].players)
              /\ item' = [item EXCEPT ![id].state = "waiting", ![id].winner = {}]
              /\ EndGame(id)
              /\ excused' = excused \cup {id}
              /\ UNCHANGED uiRoom
    /\ calls' = Del(calls, c)
    /\ UNCHANGED rmvars
    /\ UNCHANGED issued

-----------------------------------------------------------------------------
(* Leaving *)

\* The remote part of handleLeaveRoom, whose error is ignored.
handleLeaveRoom(p, c) ==
    /\ Free(c)
    /\ \/ LeaveRoom(p)
       \/ ~mustGetPlayerRoom(p) /\ UNCHANGED rmvars
       \/ CallsMayFail /\ UNCHANGED rmvars
    /\ calls' = Put(calls, c, [op |-> "leave", by |-> p])
    /\ UNCHANGED copyvars
    /\ UNCHANGED <<issued, excused>>

\* Mutants: the owner who leaves stays owner; the member who stays wins
\* whatever its board says.
NextHostKept(r, p) == {r.owner}
LastMemberWins(id, p) == id \in DOMAIN boards

\* Ranging over a Go map yields any member first.
NextHost(r, p) == IF r.owner = p THEN r.members \ {p} ELSE {r.owner}

\* A playing room stops when one member is left, ...
Stops(r, left) == r.state = "playing" /\ Cardinality(left) = 1

\* ... who wins unless its board is lost.
LastMemberHolds(id, p) ==
    id \in DOMAIN boards /\ p \in DOMAIN boards[id] /\ boards[id][p].status # "lose"

\* The boards of room id without p's; a room without boards has no entry.
WithoutBoard(id, p) ==
    IF id \notin DOMAIN boards THEN boards
    ELSE IF DOMAIN boards[id] \subseteq {p} THEN Del(boards, id)
    ELSE [boards EXCEPT ![id] = Del(@, p)]

\* The local part: removePlayerFromRoomLocked and what follows it.
LeaveCopy(c) ==
    /\ c \in DOMAIN calls /\ calls[c].op = "leave" /\ calls[c].by \in DOMAIN uiRoom
    /\ LET p == calls[c].by
           id == uiRoom[p]
           left == item[id].members \ {p}
       IN  /\ uiRoom' = Del(uiRoom, p)
           /\ \/ /\ id \notin DOMAIN item
                 /\ nextAdd' = nextAdd \ {id}
                 /\ tickets' = Del(tickets, id)
                 /\ UNCHANGED <<item, boards>>
              \/ /\ id \in DOMAIN item
                 /\ left = {}
                 /\ item' = Del(item, id)
                 /\ EndGame(id)
              \/ /\ id \in DOMAIN item
                 /\ left # {}
                 /\ Stops(item[id], left)
                 /\ \E o \in NextHost(item[id], p) :
                       item' = [item EXCEPT ![id] =
                          [owner |-> o, state |-> "waiting", members |-> left,
                           winner |-> {q \in left : LastMemberHolds(id, q)}]]
                 /\ EndGame(id)
              \/ /\ id \in DOMAIN item
                 /\ left # {}
                 /\ ~Stops(item[id], left)
                 /\ \E o \in NextHost(item[id], p) :
                       item' = [item EXCEPT ![id].owner = o, ![id].members = left]
                 /\ boards' = WithoutBoard(id, p)
                 /\ UNCHANGED <<nextAdd, tickets>>
           /\ excused' = IF Begun(id) /\ tickets' # tickets THEN excused \cup {id} ELSE excused
    /\ calls' = Del(calls, c)
    /\ UNCHANGED rmvars
    /\ UNCHANGED issued

-----------------------------------------------------------------------------
(* Calls that come to nothing, and changes made behind the lobby's back *)

\* A start the room service refuses; a leave that names another room than the
\* copy has for the player, or of a player it has in none; a call that fails,
\* perhaps after the service did its part.
EndsEarly(c) ==
    /\ c \in DOMAIN calls
    /\ \/ calls[c].op = "leave"
       \/ calls[c].op = "start" /\ calls[c].at = "room" /\ RoomRefusesStart(calls[c].by)
       \/ calls[c].op # "leave" /\ CallsMayFail
    /\ calls' = Del(calls, c)
    /\ excused' = IF calls[c].op = "start" THEN excused \cup {calls[c].room} ELSE excused
    /\ UNCHANGED rmvars
    /\ UNCHANGED copyvars
    /\ UNCHANGED issued

\* The combined service evicts a loser or a silent player, or the player
\* leaves through the gateway.
Evicted(p) ==
    /\ LeaveRoom(p)
    /\ UNCHANGED copyvars
    /\ UNCHANGED <<issued, calls, excused>>

\* HandleGatewayMessage of the combined service: the TCP gateway reaches the
\* same rooms as the lobby, with the player's own capacity ...
GatewayRequest(p) ==
    /\ \/ \E cap \in Capacities : CreateRoom(p, cap)
       \/ \E id \in DOMAIN rooms : JoinRoom(p, id)
    /\ UNCHANGED copyvars
    /\ UNCHANGED <<issued, calls, excused>>

\* ... and starts a room for which nobody asked the game service for a session.
GatewayStart(p) ==
    /\ StartGame(p)
    /\ excused' = excused \cup {playerRoom[p]}
    /\ UNCHANGED copyvars
    /\ UNCHANGED <<issued, calls>>

-----------------------------------------------------------------------------
(* Boards *)

ensurePlayerGameState(id, p) ==
    IF id \notin DOMAIN boards THEN Put(boards, id, [q \in {p} |-> NewBoard])
    ELSE IF p \in DOMAIN boards[id] THEN boards
    ELSE [boards EXCEPT ![id] = Put(@, p, NewBoard)]

OnlyBoardsChange ==
    /\ UNCHANGED rmvars
    /\ UNCHANGED <<item, uiRoom, nextAdd, tickets, issued, calls, excused>>

\* handleGameState, the 70 ms state of a socket, or an aim: each makes a board
\* for whoever has a seat, and the aim does not look for the room.
Watch(p) ==
    /\ p \in DOMAIN uiRoom
    /\ boards' = ensurePlayerGameState(uiRoom[p], p)
    /\ OnlyBoardsChange

\* The guard of the three ways to shoot.
MayPlay(p) == p \in DOMAIN uiRoom /\ uiRoom[p] \in DOMAIN item /\ item[uiRoom[p]].state = "playing"

\* fireLocked and beginClientShotLocked.
Shoot(p) ==
    /\ MayPlay(p)
    /\ \E bs \in {ensurePlayerGameState(uiRoom[p], p)} :
          boards' = IF bs[uiRoom[p]][p].status = "playing"
                    THEN [bs EXCEPT ![uiRoom[p]][p].busy = TRUE]
                    ELSE bs
    /\ OnlyBoardsChange

commitLanding(p, outcome) ==
    /\ MayPlay(p)
    /\ \E bs \in {ensurePlayerGameState(uiRoom[p], p)} :
          boards' = IF bs[uiRoom[p]][p].status = "playing" /\ bs[uiRoom[p]][p].busy
                    THEN [bs EXCEPT ![uiRoom[p]][p] = [status |-> outcome, busy |-> FALSE]]
                    ELSE bs
    /\ OnlyBoardsChange

-----------------------------------------------------------------------------
(* The 33 ms frame loop *)

\* TickState: a moving bubble flies on or comes to rest.
Ticked(b) ==
    {b} \cup IF b.status = "playing" /\ b.busy
             THEN {[status |-> s, busy |-> FALSE] : s \in Status} ELSE {}

TickedRoom(bs) ==
    {f \in [DOMAIN bs -> Board] : \A p \in DOMAIN bs : f[p] \in Ticked(bs[p])}

Alive(r, bs) == {p \in r.members \cap DOMAIN bs : bs[p].status # "lose"}

\* resolveRoomOutcomeLocked: somebody lost and one member is left.
Decided(r, bs) ==
    /\ r.state = "playing"
    /\ Cardinality(r.members) >= 2
    /\ \E p \in r.members \cap DOMAIN bs : bs[p].status = "lose"
    /\ Cardinality(Alive(r, bs)) = 1

Settled(r, bs) ==
    [p \in DOMAIN bs |->
        [status |-> IF p \in Alive(r, bs) THEN "win" ELSE "lose", busy |-> FALSE]]

\* canAddLayerLocked, and AddTopLayer on every board of the room: the lowest
\* row of some may be full.
CanAddLayer(bs) == DOMAIN bs # {} /\ \A p \in DOMAIN bs : bs[p] = NewBoard
Layered(bs) == [DOMAIN bs -> {NewBoard, [status |-> "lose", busy |-> FALSE]}]

\* stepRoomsLocked for one room; rooms share nothing, and boards of a room
\* are there whenever it plays but for a reply that made it play.
StepRoom(id) ==
    /\ id \in DOMAIN item
    /\ \/ /\ item[id].state # "playing"
          /\ id \in nextAdd
          /\ nextAdd' = nextAdd \ {id}
          /\ UNCHANGED <<item, boards>>
       \/ /\ item[id].state = "playing"
          /\ id \notin DOMAIN boards
          /\ nextAdd' = nextAdd \cup {id}
          /\ UNCHANGED <<item, boards>>
       \/ /\ item[id].state = "playing"
          /\ id \in DOMAIN boards
          /\ \E bs \in TickedRoom(boards[id]) :
                \/ /\ Decided(item[id], bs)
                   /\ item' = [item EXCEPT ![id].state = "waiting",
                                           ![id].winner = Alive(item[id], bs)]
                   /\ boards' = [boards EXCEPT ![id] = Settled(item[id], bs)]
                \/ /\ ~Decided(item[id], bs)
                   /\ \/ boards' = [boards EXCEPT ![id] = bs]
                      \/ /\ id \in nextAdd
                         /\ CanAddLayer(bs) /\ Shooter # {}
                         /\ \E ls \in Layered(bs) : boards' = [boards EXCEPT ![id] = ls]
                   /\ UNCHANGED item
          /\ nextAdd' = nextAdd \cup {id}
    /\ UNCHANGED rmvars
    /\ UNCHANGED <<uiRoom, tickets, issued, calls, excused>>

-----------------------------------------------------------------------------
(* The whole *)

Remote(c) ==
    \/ CreateSession(c)
    \/ StartRoom(c)
    \/ syncRoomCacheFromRemote(c)
    \/ FinishStart(c)
    \/ LeaveCopy(c)
    \/ EndsEarly(c)

LobbyNext ==
    \/ \E c \in Call :
          \/ \E p \in LobbyPlayer :
                \/ \E cap \in Capacities : createRoom(p, cap, c)
                \/ \E id \in DOMAIN rooms : handleJoinRoom(p, id, c)
                \/ \E id \in DOMAIN item : handleStartGame(p, id, c)
                \/ handleLeaveRoom(p, c)
          \/ \E id \in DOMAIN rooms : handleRoomDetail(id, c)
          \/ Remote(c)
    \/ \E p \in Player :
          \/ Evicted(p)
          \/ /\ p \in Shooter
             /\ Watch(p) \/ Shoot(p) \/ \E outcome \in Status : commitLanding(p, outcome)
    \/ \E p \in GatewayPlayer : GatewayRequest(p) \/ GatewayStart(p)
    \/ \E id \in DOMAIN item : StepRoom(id)

LobbySafe == LobbyInit /\ [][LobbyNext]_lobbyvars

\* Remote calls return, and the answers to polls are not lost for ever; the
\* pages in a room go on polling it.
LobbySpec ==
    /\ LobbySafe
    /\ \A c \in Call : WF_lobbyvars(Remote(c))
    /\ SF_lobbyvars(\E c \in Call : syncRoomCacheFromRemote(c))
    /\ \A id \in RoomId : SF_lobbyvars(\E c \in Call : handleRoomDetail(id, c))

-----------------------------------------------------------------------------
(* Properties *)

CallRecord ==
    [op : {"sync"}, room : RoomId, item : Item]
    \cup [op : {"start"}, at : {"session", "room", "finish"}, by : Player, room : RoomId,
          players : SUBSET Player, gen : 0 .. MaxSessions]
    \cup [op : {"leave"}, by : Player]

\* The lobby's tables keep their types; only rooms it knows have a schedule
\* or tickets, and no entry of boards is empty.
LobbyTypeOK ==
    /\ item \in [DOMAIN item -> Item] /\ DOMAIN item \subseteq RoomId
    /\ uiRoom \in [DOMAIN uiRoom -> RoomId] /\ DOMAIN uiRoom \subseteq Player
    /\ \A id \in DOMAIN boards :
          /\ id \in RoomId
          /\ boards[id] \in [DOMAIN boards[id] -> Board]
          /\ DOMAIN boards[id] \in (SUBSET Player) \ {{}}
    /\ nextAdd \subseteq DOMAIN item
    /\ DOMAIN tickets \subseteq DOMAIN item
    /\ tickets \in [DOMAIN tickets -> [gen : 1 .. MaxSessions, players : SUBSET Player]]
    /\ issued \in [DOMAIN issued -> 1 .. MaxSessions]
    /\ calls \in [DOMAIN calls -> CallRecord] /\ DOMAIN calls \subseteq Call
    /\ excused \subseteq RoomId

\* However replies, leaves and evictions overtake each other, a room of the
\* copy has an owner among its members: handleStartGame serves nobody else.
CopiesAreTended == \A id \in DOMAIN item : item[id].owner \in item[id].members

\* A room of the copy that is playing has somebody to play against: neither a
\* late reply nor a leave leaves a single member in a game, which
\* resolveRoomOutcomeLocked would never end.
PlayingRoomsHaveOpponents ==
    \A id \in DOMAIN item :
        item[id].state = "playing" => Cardinality(item[id].members) >= 2

Enterable(id) ==
    /\ id \in DOMAIN tickets
    /\ tickets[id].gen = Issued(id)
    /\ rooms[id].players \subseteq tickets[id].players

\* Whatever replies, joins, leaves and evictions overtake a start, every
\* member of a room that plays has a ticket of its latest session, unless
\* since the last start of it was asked for
\*  - it was started through the TCP gateway, which makes no session
\*    (GatewayStart);
\*  - a second start of it was asked for before the first had ended
\*    (handleStartGame);
\*  - the room service started another room than the one named, or the room
\*    with a member who joined after the tickets were asked for (StartRoom);
\*  - a call of the start failed or was refused (EndsEarly), or its second
\*    section kept no tickets: the copy was gone, short of members, or had a
\*    member without a ticket, or a reply had made it play (FinishStart);
\*  - the lobby ended the game of its copy, and dropped the tickets, when the
\*    last opponent in the copy left (LeaveCopy), while the room service, whose
\*    members the copy did not have, played on.
UnexcusedStartsCanBeEntered ==
    \A id \in RoomId : Begun(id) /\ id \notin excused => Enterable(id)

Underway(id) == Begun(id) /\ id \in DOMAIN item /\ item[id].state = "playing"

\* README.md:117 says a successful start gives game_addr and game_ticket, with
\* which the client goes on to /game.
StartedGamesCanBeEntered == \A id \in RoomId : Underway(id) => Enterable(id)

\* A member becomes the winner only by a game of the room in which its own
\* board holds, and the board of every other member who is still there is lost
\* or about to be: landings, layers and leaves decide it together.
WinnersOutlast ==
    [][\A id \in DOMAIN item \cap DOMAIN item' :
          \A p \in item'[id].winner \ item[id].winner :
             /\ item[id].state = "playing"
             /\ p \in item'[id].members
             /\ p \in DOMAIN boards[id] /\ boards[id][p].status # "lose"
             /\ \A q \in item'[id].members \cap DOMAIN boards[id] :
                   q # p => boards[id][q].status = "lose" \/ boards[id][q].busy]_lobbyvars

\* Once membership stops changing and the last leave is done with, the copy of
\* every room comes to list the members the room service has, although each
\* reply replaces the copy by an older truth.
CopyCatchesUp ==
    <>[][UNCHANGED rooms /\ \A c \in DOMAIN calls' : calls'[c].op # "leave"]_lobbyvars
    => <>[](\A id \in DOMAIN rooms :
               id \in DOMAIN item /\ item[id].members = rooms[id].players)
=============================================================================
