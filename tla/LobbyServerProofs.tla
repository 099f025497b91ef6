-------------------------- MODULE LobbyServerProofs --------------------------
(***************************************************************************)
(* Proofs about LobbyServer, for any players, calls in flight and bounds.  *)
(* The inductive invariant LobbyInv adds to the tables what the calls in   *)
(* flight carry: a reply holds a sound room (CallsInv), and a start that   *)
(* is not excused has the latest session of its room and tickets for the   *)
(* members with which the room service starts it (RaceInv).                *)
(***************************************************************************)
EXTENDS LobbyServer, RoomManagerProofs

-----------------------------------------------------------------------------
(* The inductive invariant *)

\* Neither the lobby nor the HandleGatewayMessage of the combined service calls
\* SetReady, so a room plays by StartGame only.
ReadyInv == \A id \in DOMAIN rooms : rooms[id].ready = {}

ItemSound(i) ==
    /\ i \in Item
    /\ i.owner \in i.members
    /\ i.state = "playing" => Cardinality(i.members) >= 2

CopyInv ==
    /\ item = [id \in DOMAIN item |-> item[id]] /\ DOMAIN item \subseteq RoomId
    /\ \A id \in DOMAIN item : ItemSound(item[id])
    /\ uiRoom \in [DOMAIN uiRoom -> RoomId] /\ DOMAIN uiRoom \subseteq Player
    /\ nextAdd \subseteq DOMAIN item
    /\ DOMAIN tickets \subseteq DOMAIN item
    /\ tickets \in [DOMAIN tickets -> [gen : 1 .. MaxSessions, players : SUBSET Player]]

\* The boards bs of a room.
RoomBoards(bs) == bs \in [DOMAIN bs -> Board] /\ DOMAIN bs \in (SUBSET Player) \ {{}}

BoardsInv == \A id \in DOMAIN boards : id \in RoomId /\ RoomBoards(boards[id])

SyncCall(m) ==
    /\ m \in [op : {"sync"}, room : RoomId, item : Item]
    /\ ItemSound(m.item) /\ m.item.winner = {}

StartCall(m) ==
    /\ m \in [op : {"start"}, at : {"session", "room", "finish"}, by : Player, room : RoomId,
              players : SUBSET Player, gen : 0 .. MaxSessions]
    /\ m.by \in m.players
    /\ m.at # "session" => m.gen # 0

LeaveCall(m) == m \in [op : {"leave"}, by : Player]

CallsInv ==
    /\ calls = [c \in DOMAIN calls |-> calls[c]] /\ DOMAIN calls \subseteq Call
    /\ \A c \in DOMAIN calls : SyncCall(calls[c]) \/ StartCall(calls[c]) \/ LeaveCall(calls[c])

\* The start requests that wait for a session for room id.
Asking(id) ==
    {c \in DOMAIN calls : calls[c].op = "start" /\ calls[c].at = "session" /\ calls[c].room = id}

SessionsInv ==
    /\ issued \in [DOMAIN issued -> 1 .. MaxSessions]
    /\ \A id \in RoomId : Issued(id) + Cardinality(Asking(id)) <= MaxSessions

Starting(c, id) == c \in DOMAIN calls /\ calls[c].op = "start" /\ calls[c].room = id

\* Room id has one start at most, whose session, once it has one, is the
\* latest; when the room service has done its part, the start has asked for a
\* ticket for every member of the room, if it plays; once no start is left,
\* whoever is in the room that plays has a ticket.
RaceInv(id) ==
    /\ \A c, d : Starting(c, id) /\ Starting(d, id) => c = d
    /\ \A c : Starting(c, id) /\ calls[c].at # "session" => calls[c].gen = Issued(id)
    /\ \A c : Starting(c, id) /\ calls[c].at = "finish" /\ Plays(id)
                 => rooms[id].players \subseteq calls[c].players
    /\ Plays(id) /\ (\A c : ~Starting(c, id)) => Enterable(id)

RacesInv == excused \subseteq RoomId /\ \A id \in RoomId \ excused : RaceInv(id)

LobbyInv == RMInv /\ ReadyInv /\ CopyInv /\ BoardsInv /\ CallsInv /\ SessionsInv /\ RacesInv

\* What a step may not do to the winner of a game (the body of WinnersOutlast).
Outlasted ==
    \A id \in DOMAIN item \cap DOMAIN item' :
        \A p \in item'[id].winner \ item[id].winner :
            /\ item[id].state = "playing"
            /\ p \in item'[id].members
            /\ p \in DOMAIN boards[id] /\ boards[id][p].status # "lose"
            /\ \A q \in item'[id].members \cap DOMAIN boards[id] :
                  q # p => boards[id][q].status = "lose" \/ boards[id][q].busy

-----------------------------------------------------------------------------
(* What the room service does *)

\* No room starts to play, and none that plays changes its members.
Calm(id) == Plays(id)' => Plays(id) /\ rooms'[id].players = rooms[id].players

LEMMA RoomIds == RMInv => DOMAIN rooms \subseteq RoomId
BY BoundsAssumption DEF RMInv, RMTypeOK, RoomId

\* A room in which nobody is ready does not play after its roster changed.
LEMMA UpdateUnready ==
    ASSUME NEW r \in Room, NEW t, r.ready = {}, r.owner \in r.players
    PROVE  updateRoomState(r, t).ready = {} /\ updateRoomState(r, t).state # "Playing"
<1>1. r.players \subseteq Player /\ r.players # {}
  BY DEF Room
<1>2. IsFiniteSet(r.players) /\ Cardinality(r.players) \in Nat /\ Cardinality(r.players) # 0
  BY <1>1, PlayersFinite, FS_EmptySet
<1>3. ~(r.players \subseteq r.ready)
  BY <1>1
<1>4. CASE Cardinality(r.players) = 1
  <2>1. updateRoomState(r, t) = [r EXCEPT !.state = "Idle"]
    BY <1>1, <1>4 DEF updateRoomState
  <2>2. QED
    BY <2>1 DEF Room
<1>5. CASE Cardinality(r.players) # 1
  <2>1. updateRoomState(r, t) = [r EXCEPT !.state = "Ready"]
    BY <1>1, <1>2, <1>3, <1>5 DEF updateRoomState
  <2>2. QED
    BY <2>1 DEF Room
<1>6. QED
  BY <1>4, <1>5

LEMMA JoinIsCalm ==
    ASSUME RMInv, ReadyInv, NEW p \in Player, NEW id \in DOMAIN rooms, JoinRoom(p, id)
    PROVE  /\ RMInv' /\ ReadyInv'
           /\ DOMAIN rooms' = DOMAIN rooms
           /\ \A j \in RoomId : Calm(j)
<1> DEFINE r == [rooms[id] EXCEPT !.players = @ \cup {p}]
           x == updateRoomState(r, now)
<1>1. rooms[id] \in Room /\ rooms[id].ready = {} /\ rooms[id].owner \in rooms[id].players
  BY DEF RMInv, RoomInv, RosterInv, ReadyInv
<1>2. r \in Room /\ r.ready = {} /\ r.owner \in r.players
  BY <1>1 DEF Room
<1>3. rooms' = [rooms EXCEPT ![id] = x]
  BY DEF JoinRoom
<1> HIDE DEF r
<1>4. x.ready = {} /\ x.state # "Playing"
  BY <1>2, UpdateUnready
<1> HIDE DEF x
<1>5. /\ DOMAIN rooms' = DOMAIN rooms /\ rooms'[id] = x
      /\ \A j \in DOMAIN rooms \ {id} : rooms'[j] = rooms[j]
  BY <1>3
<1>6. QED
  BY <1>4, <1>5, JoinRoomInv DEF ReadyInv, Calm, Plays

LEMMA LeaveIsCalm ==
    ASSUME RMInv, ReadyInv, NEW p \in Player, LeaveRoom(p)
    PROVE  /\ RMInv' /\ ReadyInv'
           /\ \A j \in RoomId : Calm(j)
<1> DEFINE id == playerRoom[p]
           r == rooms[id]
<1>1. id \in DOMAIN rooms /\ r \in Room /\ r.ready = {}
  BY PlayersRoom DEF LeaveRoom, RoomInv, ReadyInv
<1>2. CASE rooms' = Del(rooms, id)
  <2>1. DOMAIN rooms' \subseteq DOMAIN rooms /\ \A j \in DOMAIN rooms' : rooms'[j] = rooms[j]
    BY <1>2 DEF Del
  <2>2. QED
    BY <2>1, LeaveRoomInv DEF ReadyInv, Calm, Plays
<1>3. ASSUME NEW o \in NextOwner(r, p), r.players \ {p} # {},
             rooms' = [rooms EXCEPT ![id] = updateRoomState(Without(r, p, o), now)]
      PROVE  /\ ReadyInv' /\ \A j \in RoomId : Calm(j)
  <2> DEFINE w == Without(r, p, o)
             x == updateRoomState(w, now)
  <2>1. o \in r.players \ {p}
    <3>1. r.owner \in r.players
      BY <1>1 DEF RMInv, RoomInv, RosterInv
    <3>2. QED
      BY <1>3, <3>1 DEF NextOwner
  <2>2. r.players \subseteq Player
    BY <1>1 DEF Room
  <2> HIDE DEF r, id
  <2>3. w \in Room /\ w.ready = {} /\ w.owner \in w.players
    BY <1>1, <2>1, <2>2 DEF Without, Room
  <2> HIDE DEF w
  <2>4. x.ready = {} /\ x.state # "Playing"
    BY <2>3, UpdateUnready
  <2>5. rooms' = [rooms EXCEPT ![id] = x]
    BY <1>3 DEF w
  <2> HIDE DEF x
  <2>6. /\ DOMAIN rooms' = DOMAIN rooms /\ rooms'[id] = x
        /\ \A j \in DOMAIN rooms \ {id} : rooms'[j] = rooms[j]
    BY <1>1, <2>5
  <2>7. QED
    BY <2>4, <2>6 DEF ReadyInv, Calm, Plays
<1>4. QED
  BY <1>2, <1>3, LeaveRoomInv DEF LeaveRoom

LEMMA CreateIsCalm ==
    ASSUME RMInv, ReadyInv, NEW p \in Player, NEW cap \in Int, CreateRoom(p, cap)
    PROVE  /\ RMInv' /\ ReadyInv'
           /\ now \in DOMAIN rooms'
           /\ \A j \in RoomId : Calm(j)
<1> DEFINE x == NewRoom(p, cap)
<1>1. x.ready = {} /\ x.state # "Playing"
  BY DEF NewRoom
<1>2. rooms' = Put(rooms, now, x)
  BY DEF CreateRoom
<1> HIDE DEF x
<1>3. /\ DOMAIN rooms' = DOMAIN rooms \cup {now} /\ rooms'[now] = x
      /\ \A j \in DOMAIN rooms \ {now} : rooms'[j] = rooms[j]
  BY <1>2 DEF Put
<1>4. QED
  BY <1>1, <1>3, CreateRoomInv DEF ReadyInv, Calm, Plays

LEMMA StartPlays ==
    ASSUME RMInv, ReadyInv, NEW p \in Player, StartGame(p)
    PROVE  /\ RMInv' /\ ReadyInv' /\ DOMAIN rooms' = DOMAIN rooms
           /\ playerRoom[p] \in DOMAIN rooms
           /\ \A j \in RoomId \ {playerRoom[p]} : Calm(j)
           /\ rooms'[playerRoom[p]].players = rooms[playerRoom[p]].players
<1> DEFINE id == playerRoom[p]
           x == Started(rooms[id], now)
<1>1. id \in DOMAIN rooms /\ rooms[id] \in Room /\ rooms[id].ready = {}
  BY PlayersRoom DEF StartGame, RoomInv, ReadyInv
<1>2. rooms' = [rooms EXCEPT ![id] = x]
  BY DEF StartGame
<1>3. x.ready = {} /\ x.players = rooms[id].players
  BY <1>1 DEF Started, Room
<1> HIDE DEF x
<1>4. /\ DOMAIN rooms' = DOMAIN rooms /\ rooms'[id] = x
      /\ \A j \in DOMAIN rooms \ {id} : rooms'[j] = rooms[j]
  BY <1>1, <1>2
<1>5. QED
  BY <1>1, <1>3, <1>4, StartGameInv DEF ReadyInv, Calm, Plays

\* What the lobby makes of a room in a reply is sound.
LEMMA ReplySound ==
    ASSUME NEW r \in Room, r.owner \in r.players, StateInv(r), NEW id \in RoomId
    PROVE  SyncCall(Reply(id, r))
<1> DEFINE i == roomItemFromRemote(r)
<1>2. r.players \subseteq Player /\ r.owner \in Player /\ r.players # {}
  BY DEF Room
<1>3. IsFiniteSet(r.players) /\ Cardinality(r.players) \in Nat /\ Cardinality(r.players) # 0
  BY <1>2, PlayersFinite, FS_EmptySet
<1>4. r.state = "Playing" => Cardinality(r.players) >= 2
  BY <1>3 DEF StateInv
<1>5. toUIRoomState(r.state) \in {"waiting", "playing"}
      /\ (toUIRoomState(r.state) = "playing" => r.state = "Playing")
  BY DEF toUIRoomState, StateInv
<1>6. /\ i.owner = r.owner /\ i.state = toUIRoomState(r.state) /\ i.winner = {}
      /\ i.members = r.players
  BY DEF roomItemFromRemote
<1>7. i \in Item
  BY <1>2, <1>5 DEF roomItemFromRemote, Item
<1> HIDE DEF i
<1>8. ItemSound(i)
  BY <1>4, <1>5, <1>6, <1>7 DEF ItemSound
<1>9. Reply(id, r) = [op |-> "sync", room |-> id, item |-> i]
  BY DEF Reply, i
<1>10. QED
  BY <1>6, <1>7, <1>8, <1>9 DEF SyncCall

RepliesInv == \A id \in DOMAIN rooms : SyncCall(Reply(id, rooms[id]))

LEMMA RepliesSound == RMInv => RepliesInv
<1> SUFFICES ASSUME RMInv, NEW id \in DOMAIN rooms
             PROVE  SyncCall(Reply(id, rooms[id]))
  BY DEF RepliesInv
<1>1. rooms[id] \in Room /\ rooms[id].owner \in rooms[id].players /\ StateInv(rooms[id])
  BY DEF RMInv, RoomInv, RosterInv
<1>2. id \in RoomId
  BY RoomIds
<1>3. QED
  BY <1>1, <1>2, ReplySound

LEMMA RepliesSoundNext == RMInv' => RepliesInv'
BY RepliesSound, PTL

-----------------------------------------------------------------------------
(* What a step leaves alone *)

\* Nobody wins.
LEMMA NobodyWins ==
    ASSUME \A id \in DOMAIN item \cap DOMAIN item' : item'[id].winner \subseteq item[id].winner
    PROVE  Outlasted
BY DEF Outlasted

LEMMA CopyKept ==
    ASSUME CopyInv, BoardsInv, UNCHANGED copyvars
    PROVE  CopyInv' /\ BoardsInv' /\ Outlasted
<1>1. item' = item /\ uiRoom' = uiRoom /\ boards' = boards /\ nextAdd' = nextAdd /\ tickets' = tickets
  BY DEF copyvars
<1>2. QED
  BY <1>1 DEF CopyInv, BoardsInv, Outlasted

LEMMA RoomsKept ==
    ASSUME RMInv, ReadyInv, UNCHANGED rmvars
    PROVE  RMInv' /\ ReadyInv' /\ \A id \in RoomId : Calm(id)
<1>1. rooms' = rooms /\ playerRoom' = playerRoom /\ now' = now
  BY DEF rmvars
<1>2. RMInv'
  BY <1>1, RMInvInductive DEF rmvars
<1>3. QED
  BY <1>1, <1>2 DEF ReadyInv, Calm, Plays

LEMMA AskingFinite ==
    ASSUME CallsInv, NEW id
    PROVE  IsFiniteSet(Asking(id)) /\ Cardinality(Asking(id)) \in Nat
<1>1. Asking(id) \subseteq Call
  BY DEF CallsInv, Asking
<1>2. QED
  BY <1>1, CallAssumption, FS_Subset, FS_CardinalityType

LEMMA IssuedNat ==
    ASSUME SessionsInv, NEW id
    PROVE  Issued(id) \in Nat /\ Issued(id) <= MaxSessions
BY LobbyBoundsAssumption DEF SessionsInv, Issued

\* The bound on sessions holds on as long as no start is added.
LEMMA SessionsKept ==
    ASSUME CallsInv, SessionsInv, UNCHANGED issued,
           \A id \in RoomId : Asking(id)' \subseteq Asking(id)
    PROVE  SessionsInv'
<1>1. \A id \in RoomId : Issued(id)' = Issued(id)
  BY DEF Issued
<1>2. ASSUME NEW id \in RoomId
      PROVE  Issued(id)' + Cardinality(Asking(id)') <= MaxSessions
  <2>1. Asking(id)' \subseteq Asking(id)
    OBVIOUS
  <2>2. Cardinality(Asking(id)') <= Cardinality(Asking(id)) /\ Cardinality(Asking(id)') \in Nat
        /\ Cardinality(Asking(id)) \in Nat
    BY <2>1, AskingFinite, FS_Subset, FS_CardinalityType
  <2>3. Issued(id) + Cardinality(Asking(id)) <= MaxSessions /\ Issued(id) \in Nat
    BY IssuedNat DEF SessionsInv
  <2>4. QED
    BY <1>1, <2>2, <2>3, LobbyBoundsAssumption
<1>3. QED
  BY <1>2 DEF SessionsInv

\* A call is made that is not a start.
LEMMA CallsGain ==
    ASSUME CallsInv, SessionsInv, UNCHANGED issued, NEW c \in Call \ DOMAIN calls,
           NEW m, SyncCall(m) \/ LeaveCall(m), calls' = Put(calls, c, m)
    PROVE  /\ CallsInv' /\ SessionsInv'
           /\ \A id, d : /\ Starting(d, id)' <=> Starting(d, id)
                         /\ Starting(d, id) => calls'[d] = calls[d]
<1>1. /\ DOMAIN calls' = DOMAIN calls \cup {c} /\ calls'[c] = m
      /\ \A d \in DOMAIN calls : calls'[d] = calls[d]
      /\ calls' = [d \in DOMAIN calls' |-> calls'[d]]
  BY DEF Put
<1>2. m.op # "start"
  BY DEF SyncCall, LeaveCall
<1>3. CallsInv'
  <2>1. \A d \in DOMAIN calls' : SyncCall(calls'[d]) \/ StartCall(calls'[d]) \/ LeaveCall(calls'[d])
    BY <1>1 DEF CallsInv
  <2>2. DOMAIN calls' \subseteq Call
    BY <1>1 DEF CallsInv
  <2>3. QED
    BY ONLY <1>1, <2>1, <2>2 DEF CallsInv, SyncCall, StartCall, LeaveCall, ItemSound
<1>4. \A id \in RoomId : Asking(id)' \subseteq Asking(id)
  BY <1>1, <1>2 DEF Asking
<1>5. SessionsInv'
  BY <1>4, SessionsKept
<1>6. QED
  BY <1>1, <1>2, <1>3, <1>5 DEF Starting

\* A call is done with.
LEMMA CallsLose ==
    ASSUME CallsInv, SessionsInv, UNCHANGED issued, NEW c \in DOMAIN calls, calls' = Del(calls, c)
    PROVE  /\ CallsInv' /\ SessionsInv'
           /\ \A id, d : /\ Starting(d, id)' <=> Starting(d, id) /\ d # c
                         /\ Starting(d, id) /\ d # c => calls'[d] = calls[d]
<1>1. /\ DOMAIN calls' = DOMAIN calls \ {c}
      /\ \A d \in DOMAIN calls' : calls'[d] = calls[d]
      /\ calls' = [d \in DOMAIN calls' |-> calls'[d]]
  BY DEF Del
<1>2. CallsInv'
  <2>1. \A d \in DOMAIN calls' : SyncCall(calls'[d]) \/ StartCall(calls'[d]) \/ LeaveCall(calls'[d])
    BY <1>1 DEF CallsInv
  <2>2. DOMAIN calls' \subseteq Call
    BY <1>1 DEF CallsInv
  <2>3. QED
    BY ONLY <1>1, <2>1, <2>2 DEF CallsInv, SyncCall, StartCall, LeaveCall, ItemSound
<1>3. \A id \in RoomId : Asking(id)' \subseteq Asking(id)
  BY <1>1 DEF Asking
<1>4. SessionsInv'
  BY <1>3, SessionsKept
<1>5. QED
  BY <1>1, <1>2, <1>4 DEF Starting

\* RaceInv holds on for a room whose starts and tickets are as they were and
\* which did not begin to play, whatever became of its copy.
LEMMA RaceKept ==
    ASSUME NEW id \in RoomId, RaceInv(id), Calm(id),
           \A d : /\ Starting(d, id)' <=> Starting(d, id)
                  /\ Starting(d, id) => calls'[d] = calls[d],
           Issued(id)' = Issued(id),
           id \in DOMAIN tickets' <=> id \in DOMAIN tickets,
           id \in DOMAIN tickets => tickets'[id] = tickets[id]
    PROVE  RaceInv(id)'
<1>1. \A c, d : Starting(c, id)' /\ Starting(d, id)' => c = d
  BY DEF RaceInv
<1>2. Plays(id)' /\ (\A c : ~Starting(c, id)') => Enterable(id)'
  BY DEF RaceInv, Calm, Enterable
<1>3. \A c : Starting(c, id)' /\ calls'[c].at = "finish" /\ Plays(id)'
               => rooms'[id].players \subseteq calls'[c].players
  BY DEF RaceInv, Calm
<1>4. \A c : Starting(c, id)' /\ calls'[c].at # "session" => calls'[c].gen = Issued(id)'
  BY DEF RaceInv
<1>5. QED
  BY <1>1, <1>2, <1>3, <1>4 DEF RaceInv

\* Steps that leave the tickets, the sessions and the starts as they are.
LEMMA RacesKept ==
    ASSUME RacesInv, \A id \in RoomId : Calm(id),
           \A id, d : /\ Starting(d, id)' <=> Starting(d, id)
                      /\ Starting(d, id) => calls'[d] = calls[d],
           UNCHANGED <<tickets, issued>>, excused \subseteq excused', excused' \subseteq RoomId
    PROVE  RacesInv'
<1>1. \A id : Issued(id)' = Issued(id)
  BY DEF Issued
<1>2. \A id \in RoomId \ excused : RaceInv(id)'
  BY <1>1, RaceKept DEF RacesInv
<1>3. QED
  BY <1>2 DEF RacesInv

-----------------------------------------------------------------------------
(* Requests and what the room service does of itself *)

LEMMA CreateKeeps ==
    ASSUME LobbyInv, NEW p \in Player, NEW cap \in Capacities, NEW c \in Call,
           createRoom(p, cap, c)
    PROVE  LobbyInv' /\ Outlasted
<1> DEFINE used == IF cap < 2 THEN 2 ELSE IF cap > 8 THEN 8 ELSE cap
           m == Reply(now, rooms'[now])
<1>1. used \in Int
  BY CapacitiesAssumption
<1>2. CreateRoom(p, used) /\ UNCHANGED copyvars /\ UNCHANGED issued /\ excused' = excused
  BY DEF createRoom
<1> HIDE DEF used
<1>3. RMInv' /\ ReadyInv' /\ now \in DOMAIN rooms' /\ \A j \in RoomId : Calm(j)
  BY <1>1, <1>2, CreateIsCalm DEF LobbyInv
<1>4. SyncCall(m)
  BY <1>3, RepliesSoundNext DEF RepliesInv
<1>5. c \in Call \ DOMAIN calls /\ calls' = Put(calls, c, m)
  BY DEF createRoom, Free
<1> HIDE DEF m
<1>6. /\ CallsInv' /\ SessionsInv'
      /\ \A id, d : /\ Starting(d, id)' <=> Starting(d, id)
                    /\ Starting(d, id) => calls'[d] = calls[d]
  BY <1>2, <1>4, <1>5, CallsGain DEF LobbyInv
<1>7. CopyInv' /\ BoardsInv' /\ Outlasted
  BY <1>2, CopyKept DEF LobbyInv
<1>8. RacesInv'
  BY <1>2, <1>3, <1>6, RacesKept DEF LobbyInv, copyvars, RacesInv
<1>9. QED
  BY <1>3, <1>6, <1>7, <1>8 DEF LobbyInv

LEMMA JoinKeeps ==
    ASSUME LobbyInv, NEW p \in Player, NEW id \in DOMAIN rooms, NEW c \in Call,
           handleJoinRoom(p, id, c)
    PROVE  LobbyInv' /\ Outlasted
<1> DEFINE m == Reply(id, rooms'[id])
<1>2. JoinRoom(p, id) /\ UNCHANGED copyvars /\ UNCHANGED issued /\ excused' = excused
  BY DEF handleJoinRoom
<1>3. RMInv' /\ ReadyInv' /\ DOMAIN rooms' = DOMAIN rooms /\ \A j \in RoomId : Calm(j)
  BY <1>2, JoinIsCalm DEF LobbyInv
<1>4. SyncCall(m)
  BY <1>3, RepliesSoundNext DEF RepliesInv
<1>5. c \in Call \ DOMAIN calls /\ calls' = Put(calls, c, m)
  BY DEF handleJoinRoom, Free
<1> HIDE DEF m
<1>6. /\ CallsInv' /\ SessionsInv'
      /\ \A j, d : /\ Starting(d, j)' <=> Starting(d, j)
                   /\ Starting(d, j) => calls'[d] = calls[d]
  BY <1>2, <1>4, <1>5, CallsGain DEF LobbyInv
<1>7. CopyInv' /\ BoardsInv' /\ Outlasted
  BY <1>2, CopyKept DEF LobbyInv
<1>8. RacesInv'
  BY <1>2, <1>3, <1>6, RacesKept DEF LobbyInv, copyvars, RacesInv
<1>9. QED
  BY <1>3, <1>6, <1>7, <1>8 DEF LobbyInv

LEMMA DetailKeeps ==
    ASSUME LobbyInv, NEW id \in DOMAIN rooms, NEW c \in Call, handleRoomDetail(id, c)
    PROVE  LobbyInv' /\ Outlasted
<1> DEFINE m == Reply(id, rooms[id])
<1>2. UNCHANGED rmvars /\ UNCHANGED copyvars /\ UNCHANGED issued /\ excused' = excused
  BY DEF handleRoomDetail
<1>3. RMInv' /\ ReadyInv' /\ \A j \in RoomId : Calm(j)
  BY <1>2, RoomsKept DEF LobbyInv
<1>4. SyncCall(m)
  BY RepliesSound DEF LobbyInv, RepliesInv
<1>5. c \in Call \ DOMAIN calls /\ calls' = Put(calls, c, m)
  BY DEF handleRoomDetail, Free
<1> HIDE DEF m
<1>6. /\ CallsInv' /\ SessionsInv'
      /\ \A j, d : /\ Starting(d, j)' <=> Starting(d, j)
                   /\ Starting(d, j) => calls'[d] = calls[d]
  BY <1>2, <1>4, <1>5, CallsGain DEF LobbyInv
<1>7. CopyInv' /\ BoardsInv' /\ Outlasted
  BY <1>2, CopyKept DEF LobbyInv
<1>8. RacesInv'
  BY <1>2, <1>3, <1>6, RacesKept DEF LobbyInv, copyvars, RacesInv
<1>9. QED
  BY <1>3, <1>6, <1>7, <1>8 DEF LobbyInv

LEMMA LeaveRequestKeeps ==
    ASSUME LobbyInv, NEW p \in Player, NEW c \in Call, handleLeaveRoom(p, c)
    PROVE  LobbyInv' /\ Outlasted
<1> DEFINE m == [op |-> "leave", by |-> p]
<1>1. UNCHANGED copyvars /\ UNCHANGED issued /\ excused' = excused
  BY DEF handleLeaveRoom
<1>2. LeaveRoom(p) \/ UNCHANGED rmvars
  BY DEF handleLeaveRoom
<1>3. RMInv' /\ ReadyInv' /\ \A j \in RoomId : Calm(j)
  BY <1>2, LeaveIsCalm, RoomsKept DEF LobbyInv
<1>4. LeaveCall(m)
  BY DEF LeaveCall
<1>5. c \in Call \ DOMAIN calls /\ calls' = Put(calls, c, m)
  BY DEF handleLeaveRoom, Free
<1> HIDE DEF m
<1>6. /\ CallsInv' /\ SessionsInv'
      /\ \A j, d : /\ Starting(d, j)' <=> Starting(d, j)
                   /\ Starting(d, j) => calls'[d] = calls[d]
  BY <1>1, <1>4, <1>5, CallsGain DEF LobbyInv
<1>7. CopyInv' /\ BoardsInv' /\ Outlasted
  BY <1>1, CopyKept DEF LobbyInv
<1>8. RacesInv'
  BY <1>1, <1>3, <1>6, RacesKept DEF LobbyInv, copyvars, RacesInv
<1>9. QED
  BY <1>3, <1>6, <1>7, <1>8 DEF LobbyInv

\* Nothing of the lobby changes but what the room service may do of itself.
LEMMA SessionsSame ==
    ASSUME CallsInv, SessionsInv, UNCHANGED <<issued, calls>>
    PROVE  /\ CallsInv' /\ SessionsInv'
           /\ \A id, d : /\ Starting(d, id)' <=> Starting(d, id)
                         /\ Starting(d, id) => calls'[d] = calls[d]
<1>1. calls' = calls /\ issued' = issued
  OBVIOUS
<1>2. \A id \in RoomId : Asking(id)' = Asking(id) /\ Issued(id)' = Issued(id)
  BY <1>1 DEF Asking, Issued
<1>3. SessionsInv'
  BY <1>1, <1>2 DEF SessionsInv
<1>4. QED
  BY <1>1, <1>3 DEF CallsInv, Starting

LEMMA EvictionKeeps ==
    ASSUME LobbyInv, NEW p \in Player, Evicted(p)
    PROVE  LobbyInv' /\ Outlasted
<1>1. LeaveRoom(p) /\ UNCHANGED copyvars /\ UNCHANGED <<issued, calls>> /\ excused' = excused
  BY DEF Evicted
<1>3. RMInv' /\ ReadyInv' /\ \A j \in RoomId : Calm(j)
  BY <1>1, LeaveIsCalm DEF LobbyInv
<1>6. /\ CallsInv' /\ SessionsInv'
      /\ \A j, d : /\ Starting(d, j)' <=> Starting(d, j)
                   /\ Starting(d, j) => calls'[d] = calls[d]
  BY <1>1, SessionsSame DEF LobbyInv
<1>7. CopyInv' /\ BoardsInv' /\ Outlasted
  BY <1>1, CopyKept DEF LobbyInv
<1>8. RacesInv'
  BY <1>1, <1>3, <1>6, RacesKept DEF LobbyInv, copyvars, RacesInv
<1>9. QED
  BY <1>3, <1>6, <1>7, <1>8 DEF LobbyInv

LEMMA GatewayRequestKeeps ==
    ASSUME LobbyInv, NEW p \in Player, GatewayRequest(p)
    PROVE  LobbyInv' /\ Outlasted
<1>1. UNCHANGED copyvars /\ UNCHANGED <<issued, calls>> /\ excused' = excused
  BY DEF GatewayRequest
<1>2. RMInv' /\ ReadyInv' /\ \A j \in RoomId : Calm(j)
  <2>1. ASSUME NEW cap \in Capacities, CreateRoom(p, cap)
        PROVE  RMInv' /\ ReadyInv' /\ \A j \in RoomId : Calm(j)
    <3>1. cap \in Int
      BY CapacitiesAssumption
    <3>2. QED
      BY <2>1, <3>1, CreateIsCalm DEF LobbyInv
  <2>2. ASSUME NEW id \in DOMAIN rooms, JoinRoom(p, id)
        PROVE  RMInv' /\ ReadyInv' /\ \A j \in RoomId : Calm(j)
    BY <2>2, JoinIsCalm DEF LobbyInv
  <2>3. QED
    BY <2>1, <2>2 DEF GatewayRequest
<1>3. /\ CallsInv' /\ SessionsInv'
      /\ \A j, d : /\ Starting(d, j)' <=> Starting(d, j)
                   /\ Starting(d, j) => calls'[d] = calls[d]
  BY <1>1, SessionsSame DEF LobbyInv
<1>4. CopyInv' /\ BoardsInv' /\ Outlasted
  BY <1>1, CopyKept DEF LobbyInv
<1>5. RacesInv'
  BY <1>1, <1>2, <1>3, RacesKept DEF LobbyInv, copyvars, RacesInv
<1>6. QED
  BY <1>2, <1>3, <1>4, <1>5 DEF LobbyInv

\* The room started through the gateway is excused, the others are calm.
LEMMA GatewayStartKeeps ==
    ASSUME LobbyInv, NEW p \in Player, GatewayStart(p)
    PROVE  LobbyInv' /\ Outlasted
<1>1. PICK own : own = playerRoom[p]
  OBVIOUS
<1>2. /\ StartGame(p) /\ UNCHANGED copyvars /\ UNCHANGED <<issued, calls>>
      /\ excused' = excused \cup {own}
  BY <1>1 DEF GatewayStart
<1>3. /\ RMInv' /\ ReadyInv' /\ own \in DOMAIN rooms
      /\ \A j \in RoomId \ {own} : Calm(j)
  BY <1>1, <1>2, StartPlays DEF LobbyInv
<1>4. /\ CallsInv' /\ SessionsInv'
      /\ \A j, d : /\ Starting(d, j)' <=> Starting(d, j)
                   /\ Starting(d, j) => calls'[d] = calls[d]
  BY <1>2, SessionsSame DEF LobbyInv
<1>5. CopyInv' /\ BoardsInv' /\ Outlasted
  BY <1>2, CopyKept DEF LobbyInv
<1>6. excused' \subseteq RoomId
  BY <1>2, <1>3, RoomIds DEF LobbyInv, RacesInv
<1>7. ASSUME NEW j \in RoomId \ excused'
      PROVE  RaceInv(j)'
  <2>1. RaceInv(j) /\ Calm(j)
    BY <1>2, <1>3 DEF LobbyInv, RacesInv
  <2>2. Issued(j)' = Issued(j) /\ tickets' = tickets
    BY <1>2 DEF Issued, copyvars
  <2>3. QED
    BY <1>4, <2>1, <2>2, RaceKept
<1>8. QED
  BY <1>3, <1>4, <1>5, <1>6, <1>7 DEF LobbyInv, RacesInv

-----------------------------------------------------------------------------
(* Replies and failures *)

LEMMA FailureKeeps ==
    ASSUME LobbyInv, NEW c \in Call, EndsEarly(c)
    PROVE  LobbyInv' /\ Outlasted
<1>1. /\ c \in DOMAIN calls /\ calls' = Del(calls, c)
      /\ UNCHANGED rmvars /\ UNCHANGED copyvars /\ UNCHANGED issued
  BY DEF EndsEarly
<1>2. excused' = IF calls[c].op = "start" THEN excused \cup {calls[c].room} ELSE excused
  BY DEF EndsEarly
<1>3. RMInv' /\ ReadyInv' /\ \A id \in RoomId : Calm(id)
  BY <1>1, RoomsKept DEF LobbyInv
<1>4. /\ CallsInv' /\ SessionsInv'
      /\ \A id, d : /\ Starting(d, id)' <=> Starting(d, id) /\ d # c
                    /\ Starting(d, id) /\ d # c => calls'[d] = calls[d]
  BY <1>1, CallsLose DEF LobbyInv
<1>5. CopyInv' /\ BoardsInv' /\ Outlasted
  BY <1>1, CopyKept DEF LobbyInv
<1>6. excused \subseteq excused' /\ excused' \subseteq RoomId
  <2>1. calls[c].op = "start" => calls[c].room \in RoomId
    BY <1>1 DEF LobbyInv, CallsInv, SyncCall, StartCall, LeaveCall
  <2>2. QED
    BY <1>2, <2>1 DEF LobbyInv, RacesInv
<1>7. ASSUME NEW id \in RoomId \ excused'
      PROVE  RaceInv(id)'
  <2>1. ~Starting(c, id)
    BY <1>2 DEF Starting
  <2>2. \A d : /\ Starting(d, id)' <=> Starting(d, id)
               /\ Starting(d, id) => calls'[d] = calls[d]
    BY <1>4, <2>1
  <2>3. RaceInv(id)
    BY <1>6 DEF LobbyInv, RacesInv
  <2>4. Issued(id)' = Issued(id) /\ tickets' = tickets
    BY <1>1 DEF Issued, copyvars
  <2>5. QED
    BY <1>3, <2>2, <2>3, <2>4, RaceKept
<1>8. QED
  BY <1>3, <1>4, <1>5, <1>6, <1>7 DEF LobbyInv, RacesInv

LEMMA SyncKeeps ==
    ASSUME LobbyInv, NEW c \in Call, syncRoomCacheFromRemote(c)
    PROVE  LobbyInv' /\ Outlasted
<1> DEFINE id == calls[c].room
           new == calls[c].item
<1>1. /\ c \in DOMAIN calls /\ calls[c].op = "sync" /\ calls' = Del(calls, c)
      /\ UNCHANGED rmvars /\ UNCHANGED <<boards, nextAdd, tickets, issued>>
      /\ item' = Put(item, id, new)
      /\ uiRoom' = [p \in DOMAIN uiRoom \cup new.members |->
                       IF p \in new.members THEN id ELSE uiRoom[p]]
      /\ excused' = excused
  BY DEF syncRoomCacheFromRemote
<1>2. SyncCall(calls[c])
  BY <1>1 DEF LobbyInv, CallsInv, StartCall, LeaveCall
<1>3. id \in RoomId /\ new \in Item /\ ItemSound(new) /\ new.winner = {} /\ new.members \subseteq Player
  BY <1>2 DEF SyncCall, Item
<1> HIDE DEF id, new
<1>5. RMInv' /\ ReadyInv' /\ \A j \in RoomId : Calm(j)
  BY <1>1, RoomsKept DEF LobbyInv
<1>6. /\ CallsInv' /\ SessionsInv'
      /\ \A j, d : /\ Starting(d, j)' <=> Starting(d, j) /\ d # c
                   /\ Starting(d, j) /\ d # c => calls'[d] = calls[d]
  BY <1>1, CallsLose DEF LobbyInv
<1>7. /\ DOMAIN item' = DOMAIN item \cup {id} /\ item'[id] = new
      /\ \A j \in DOMAIN item \ {id} : item'[j] = item[j]
      /\ item' = [j \in DOMAIN item' |-> item'[j]]
  BY <1>1 DEF Put
<1>8. CopyInv' /\ BoardsInv'
  <2>1. DOMAIN item' \subseteq RoomId /\ \A j \in DOMAIN item' : ItemSound(item'[j])
    BY <1>3, <1>7 DEF LobbyInv, CopyInv
  <2>2. uiRoom' \in [DOMAIN uiRoom' -> RoomId] /\ DOMAIN uiRoom' \subseteq Player
    <3>1. DOMAIN uiRoom' = DOMAIN uiRoom \cup new.members
      BY <1>1
    <3>2. \A p \in DOMAIN uiRoom' : uiRoom'[p] \in RoomId
      BY <1>1, <1>3, <3>1 DEF LobbyInv, CopyInv
    <3>3. DOMAIN uiRoom' \subseteq Player
      BY <1>3, <3>1 DEF LobbyInv, CopyInv
    <3>4. QED
      BY <1>1, <3>1, <3>2, <3>3
  <2>3. nextAdd' \subseteq DOMAIN item' /\ DOMAIN tickets' \subseteq DOMAIN item'
        /\ tickets' \in [DOMAIN tickets' -> [gen : 1 .. MaxSessions, players : SUBSET Player]]
    BY <1>1, <1>7 DEF LobbyInv, CopyInv
  <2>4. BoardsInv'
    BY <1>1 DEF LobbyInv, BoardsInv
  <2>5. QED
    BY <1>7, <2>1, <2>2, <2>3, <2>4 DEF CopyInv, ItemSound
<1>9. Outlasted
  BY <1>3, <1>7, NobodyWins
<1>10. ASSUME NEW j \in RoomId \ excused
       PROVE  RaceInv(j)'
  <2>1. ~Starting(c, j)
    BY <1>1 DEF Starting
  <2>2. \A d : /\ Starting(d, j)' <=> Starting(d, j)
               /\ Starting(d, j) => calls'[d] = calls[d]
    BY <1>6, <2>1
  <2>3. RaceInv(j)
    BY DEF LobbyInv, RacesInv
  <2>4. Issued(j)' = Issued(j) /\ tickets' = tickets
    BY <1>1 DEF Issued
  <2>5. QED
    BY <1>5, <2>2, <2>3, <2>4, RaceKept
<1>11. QED
  BY <1>1, <1>5, <1>6, <1>8, <1>9, <1>10 DEF LobbyInv, RacesInv

-----------------------------------------------------------------------------
(* Starts *)

LEMMA StartRequestKeeps ==
    ASSUME LobbyInv, NEW p \in Player, NEW id \in DOMAIN item, NEW c \in Call,
           handleStartGame(p, id, c)
    PROVE  LobbyInv' /\ Outlasted
<1> DEFINE m == [op |-> "start", at |-> "session", by |-> p, room |-> id,
                 players |-> item[id].members, gen |-> 0]
<1>1. /\ c \in Call \ DOMAIN calls /\ Startable(id) /\ item[id].owner = p /\ Asked(id) < MaxSessions
      /\ calls' = Put(calls, c, m) /\ UNCHANGED rmvars /\ UNCHANGED copyvars /\ UNCHANGED issued
      /\ excused' = IF id \in InStart THEN excused \cup {id} ELSE excused \ {id}
  BY DEF handleStartGame, Free
<1>2. id \in RoomId /\ item[id] \in Item /\ p \in item[id].members /\ item[id].members \subseteq Player
  BY <1>1 DEF LobbyInv, CopyInv, ItemSound, Item
<1>3. /\ StartCall(m) /\ m.op = "start" /\ m.at = "session" /\ m.room = id
      /\ m.players = item[id].members
  BY <1>2, LobbyBoundsAssumption DEF StartCall
<1> HIDE DEF m
<1>4. /\ DOMAIN calls' = DOMAIN calls \cup {c} /\ calls'[c] = m
      /\ \A d \in DOMAIN calls : calls'[d] = calls[d]
      /\ calls' = [d \in DOMAIN calls' |-> calls'[d]]
  BY <1>1 DEF Put
<1>5. CallsInv'
  <2>1. \A d \in DOMAIN calls' : SyncCall(calls'[d]) \/ StartCall(calls'[d]) \/ LeaveCall(calls'[d])
    BY <1>3, <1>4 DEF LobbyInv, CallsInv
  <2>2. DOMAIN calls' \subseteq Call
    BY <1>4 DEF LobbyInv, CallsInv
  <2>3. QED
    BY ONLY <1>4, <2>1, <2>2 DEF CallsInv, SyncCall, StartCall, LeaveCall, ItemSound
<1>6. SessionsInv'
  <2>1. issued' = issued /\ \A j : Issued(j)' = Issued(j)
    BY <1>1 DEF Issued
  <2>2. Asking(id)' = Asking(id) \cup {c} /\ c \notin Asking(id)
    BY <1>1, <1>3, <1>4 DEF Asking
  <2>3. \A j \in RoomId \ {id} : Asking(j)' = Asking(j)
    BY <1>1, <1>3, <1>4 DEF Asking
  <2>4. Cardinality(Asking(id)') = Cardinality(Asking(id)) + 1 /\ Cardinality(Asking(id)) \in Nat
    BY <2>2, AskingFinite, FS_AddElement DEF LobbyInv
  <2>5. Issued(id) + Cardinality(Asking(id)) < MaxSessions /\ Issued(id) \in Nat
    BY <1>1, IssuedNat DEF Asked, Asking, LobbyInv
  <2>6. Issued(id)' + Cardinality(Asking(id)') <= MaxSessions
    BY <2>1, <2>4, <2>5, LobbyBoundsAssumption
  <2>7. \A j \in RoomId : Issued(j)' + Cardinality(Asking(j)') <= MaxSessions
    BY <2>1, <2>3, <2>6 DEF LobbyInv, SessionsInv
  <2>8. QED
    BY <2>1, <2>7 DEF LobbyInv, SessionsInv
<1>7. CopyInv' /\ BoardsInv' /\ Outlasted
  BY <1>1, CopyKept DEF LobbyInv
<1>8. RMInv' /\ ReadyInv' /\ \A j \in RoomId : Calm(j)
  BY <1>1, RoomsKept DEF LobbyInv
<1>9. tickets' = tickets
  BY <1>1 DEF copyvars
<1>10. ASSUME NEW j \in RoomId \ excused', j # id
       PROVE  RaceInv(j)'
  <2>1. \A d : /\ Starting(d, j)' <=> Starting(d, j)
               /\ Starting(d, j) => calls'[d] = calls[d]
    BY <1>1, <1>3, <1>4, <1>10 DEF Starting
  <2>2. RaceInv(j) /\ Issued(j)' = Issued(j)
    BY <1>1, <1>10 DEF LobbyInv, RacesInv, Issued
  <2>3. QED
    BY <1>8, <1>9, <2>1, <2>2, RaceKept
<1>11. ASSUME id \notin excused'
       PROVE  RaceInv(id)'
  <2>1. \A d : ~Starting(d, id)
    BY <1>1, <1>11 DEF InStart, Starting
  <2>2. \A d : Starting(d, id)' <=> d = c
    BY <1>1, <1>3, <1>4, <2>1 DEF Starting
  <2>3. QED
    BY <1>3, <1>4, <2>2 DEF RaceInv
<1>12. excused' \subseteq RoomId
  BY <1>1, <1>2 DEF LobbyInv, RacesInv
<1>13. QED
  BY <1>5, <1>6, <1>7, <1>8, <1>10, <1>11, <1>12 DEF LobbyInv, RacesInv

\* A start request goes on as m.
LEMMA StartGoesOn ==
    ASSUME CallsInv, NEW c \in DOMAIN calls, calls[c].op = "start",
           NEW m, StartCall(m), m.room = calls[c].room, m.at # "session",
           calls' = [calls EXCEPT ![c] = m]
    PROVE  /\ CallsInv' /\ calls'[c] = m
           /\ \A id, d : /\ Starting(d, id)' <=> Starting(d, id)
                         /\ Starting(d, id) /\ d # c => calls'[d] = calls[d]
           /\ \A id \in RoomId : Asking(id)' = Asking(id) \ {c}
<1>1. /\ DOMAIN calls' = DOMAIN calls /\ calls'[c] = m
      /\ \A d \in DOMAIN calls \ {c} : calls'[d] = calls[d]
      /\ calls' = [d \in DOMAIN calls' |-> calls'[d]]
  BY DEF CallsInv
<1>2. m.op = "start"
  BY DEF StartCall
<1>3. CallsInv'
  <2>1. \A d \in DOMAIN calls' : SyncCall(calls'[d]) \/ StartCall(calls'[d]) \/ LeaveCall(calls'[d])
    BY <1>1 DEF CallsInv
  <2>2. DOMAIN calls' \subseteq Call
    BY <1>1 DEF CallsInv
  <2>3. QED
    BY ONLY <1>1, <2>1, <2>2 DEF CallsInv, SyncCall, StartCall, LeaveCall, ItemSound
<1>4. QED
  BY <1>1, <1>2, <1>3 DEF Starting, Asking

LEMMA SessionKeeps ==
    ASSUME LobbyInv, NEW c \in Call, CreateSession(c)
    PROVE  LobbyInv' /\ Outlasted
<1>0. PICK id : id = calls[c].room
  OBVIOUS
<1> DEFINE n == Issued(id) + 1
           m == [calls[c] EXCEPT !.at = "room", !.gen = n]
<1>1. /\ c \in DOMAIN calls /\ calls[c].op = "start" /\ calls[c].at = "session"
      /\ issued' = Put(issued, id, n) /\ calls' = [calls EXCEPT ![c] = m]
      /\ UNCHANGED rmvars /\ UNCHANGED copyvars /\ excused' = excused
  BY <1>0 DEF CreateSession, LobbyInv, CallsInv
<1>2. StartCall(calls[c])
  BY <1>1 DEF LobbyInv, CallsInv, SyncCall, LeaveCall
<1>3. id \in RoomId
  BY <1>0, <1>2 DEF StartCall
<1>4. n \in 1 .. MaxSessions
  <2>1. c \in Asking(id)
    BY <1>0, <1>1 DEF Asking
  <2>2. Cardinality(Asking(id)) # 0 /\ Cardinality(Asking(id)) \in Nat
    BY <2>1, AskingFinite, FS_EmptySet DEF LobbyInv
  <2>3. Issued(id) + Cardinality(Asking(id)) <= MaxSessions /\ Issued(id) \in Nat
    BY <1>3, IssuedNat DEF LobbyInv, SessionsInv
  <2>4. QED
    BY <2>2, <2>3, LobbyBoundsAssumption
<1> HIDE DEF n
<1>5. /\ StartCall(m) /\ m.room = id /\ m.at = "room" /\ m.gen = n /\ m.players = calls[c].players
  <2> DEFINE k == calls[c]
             R == [op : {"start"}, at : {"session", "room", "finish"}, by : Player,
                   room : RoomId, players : SUBSET Player, gen : 0 .. MaxSessions]
  <2>1. k \in R /\ k.by \in k.players
    BY <1>2 DEF StartCall
  <2>2. n \in 0 .. MaxSessions /\ n # 0
    BY <1>4
  <2> HIDE DEF k
  <2>3. m \in R /\ m.by = k.by /\ m.room = k.room /\ m.at = "room" /\ m.gen = n /\ m.players = k.players
    BY <2>1, <2>2 DEF k
  <2>4. QED
    BY <1>0, <2>1, <2>2, <2>3 DEF k, StartCall
<1> HIDE DEF m
<1>6. /\ CallsInv' /\ calls'[c] = m
      /\ \A j, d : /\ Starting(d, j)' <=> Starting(d, j)
                   /\ Starting(d, j) /\ d # c => calls'[d] = calls[d]
      /\ \A j \in RoomId : Asking(j)' = Asking(j) \ {c}
  BY <1>0, <1>1, <1>5, StartGoesOn DEF LobbyInv
<1>7. c \in Asking(id) /\ \A j : j # id => c \notin Asking(j)
  BY <1>0, <1>1 DEF Asking
<1>8. Starting(c, id) /\ \A j : j # id => ~Starting(c, j)
  BY <1>0, <1>1 DEF Starting
<1>9. Issued(id)' = n /\ \A j : j # id => Issued(j)' = Issued(j)
  <2>1. DOMAIN issued' = DOMAIN issued \cup {id} /\ issued'[id] = n
        /\ \A j \in DOMAIN issued \ {id} : issued'[j] = issued[j]
    BY <1>1 DEF Put
  <2>2. QED
    BY <2>1 DEF Issued
<1>10. SessionsInv'
  <2>1. issued' \in [DOMAIN issued' -> 1 .. MaxSessions]
    <3>1. /\ DOMAIN issued' = DOMAIN issued \cup {id} /\ issued'[id] = n
          /\ \A j \in DOMAIN issued \ {id} : issued'[j] = issued[j]
          /\ issued' = [j \in DOMAIN issued' |-> issued'[j]]
      BY <1>1 DEF Put
    <3>2. \A j \in DOMAIN issued' : issued'[j] \in 1 .. MaxSessions
      BY <1>4, <3>1 DEF LobbyInv, SessionsInv
    <3>3. QED
      BY <3>1, <3>2
  <2>2. ASSUME NEW j \in RoomId
        PROVE  Issued(j)' + Cardinality(Asking(j)') <= MaxSessions
    <3>1. CASE j = id
      <4>1. Cardinality(Asking(id)') = Cardinality(Asking(id)) - 1 /\ Cardinality(Asking(id)) \in Nat
        BY <1>3, <1>6, <1>7, AskingFinite, FS_RemoveElement DEF LobbyInv
      <4>2. Issued(id) + Cardinality(Asking(id)) <= MaxSessions /\ Issued(id) \in Nat
        BY <1>3, IssuedNat DEF LobbyInv, SessionsInv
      <4>3. QED
        BY <1>9, <3>1, <4>1, <4>2, LobbyBoundsAssumption DEF n
    <3>2. CASE j # id
      BY <1>6, <1>7, <1>9, <3>2 DEF LobbyInv, SessionsInv
    <3>3. QED
      BY <3>1, <3>2
  <2>3. QED
    BY <2>1, <2>2 DEF SessionsInv
<1>11. CopyInv' /\ BoardsInv' /\ Outlasted
  BY <1>1, CopyKept DEF LobbyInv
<1>12. RMInv' /\ ReadyInv' /\ \A j \in RoomId : Calm(j)
  BY <1>1, RoomsKept DEF LobbyInv
<1>13. tickets' = tickets
  BY <1>1 DEF copyvars
<1>14. ASSUME NEW j \in RoomId \ excused'
       PROVE  RaceInv(j)'
  <2>1. RaceInv(j)
    BY <1>1 DEF LobbyInv, RacesInv
  <2>2. CASE j # id
    <3>1. \A d : /\ Starting(d, j)' <=> Starting(d, j)
                 /\ Starting(d, j) => calls'[d] = calls[d]
      BY <1>6, <1>8, <2>2
    <3>2. Issued(j)' = Issued(j)
      BY <1>9, <2>2
    <3>3. QED
      BY <1>12, <1>13, <2>1, <3>1, <3>2, RaceKept
  <2>3. CASE j = id
    <3>1. \A d : Starting(d, j)' <=> d = c
      BY <1>6, <1>8, <2>1, <2>3 DEF RaceInv
    <3>2. calls'[c].gen = Issued(j)' /\ calls'[c].at # "finish"
      BY <1>5, <1>6, <1>9, <2>3
    <3>3. QED
      BY <3>1, <3>2 DEF RaceInv
  <2>4. QED
    BY <2>2, <2>3
<1>15. QED
  BY <1>1, <1>6, <1>10, <1>11, <1>12, <1>14 DEF LobbyInv, RacesInv

LEMMA RoomStartKeeps ==
    ASSUME LobbyInv, NEW c \in Call, StartRoom(c)
    PROVE  LobbyInv' /\ Outlasted
<1>1. PICK id, own, p : id = calls[c].room /\ p = calls[c].by /\ own = playerRoom[p]
  OBVIOUS
<1> DEFINE m == [calls[c] EXCEPT !.at = "finish"]
<1>2. /\ c \in DOMAIN calls /\ calls[c].op = "start" /\ calls[c].at = "room"
      /\ StartGame(p) /\ calls' = [calls EXCEPT ![c] = m]
      /\ UNCHANGED copyvars /\ UNCHANGED issued
      /\ excused' = IF own = id /\ rooms[own].players \subseteq calls[c].players
                  THEN excused ELSE excused \cup {own, id}
  BY <1>1 DEF StartRoom, LobbyInv, CallsInv
<1>3. StartCall(calls[c])
  BY <1>2 DEF LobbyInv, CallsInv, SyncCall, LeaveCall
<1>4. id \in RoomId /\ p \in Player
  BY <1>1, <1>3 DEF StartCall
<1>5. /\ StartCall(m) /\ m.room = id /\ m.at = "finish" /\ m.gen = calls[c].gen
      /\ m.players = calls[c].players
  <2> DEFINE k == calls[c]
             R == [op : {"start"}, at : {"session", "room", "finish"}, by : Player,
                   room : RoomId, players : SUBSET Player, gen : 0 .. MaxSessions]
  <2>1. k \in R /\ k.by \in k.players /\ k.gen # 0
    BY <1>2, <1>3 DEF StartCall
  <2> HIDE DEF k
  <2>2. m \in R /\ m.by = k.by /\ m.room = k.room /\ m.at = "finish" /\ m.gen = k.gen /\ m.players = k.players
    BY <2>1 DEF k
  <2>3. QED
    BY <1>1, <2>1, <2>2 DEF k, StartCall
<1> HIDE DEF m
<1>6. /\ CallsInv' /\ calls'[c] = m
      /\ \A j, d : /\ Starting(d, j)' <=> Starting(d, j)
                   /\ Starting(d, j) /\ d # c => calls'[d] = calls[d]
      /\ \A j \in RoomId : Asking(j)' = Asking(j) \ {c}
  BY <1>1, <1>2, <1>5, StartGoesOn DEF LobbyInv
<1>7. SessionsInv'
  BY <1>2, <1>6, SessionsKept DEF LobbyInv
<1>8. CopyInv' /\ BoardsInv' /\ Outlasted
  BY <1>2, CopyKept DEF LobbyInv
<1>9. /\ RMInv' /\ ReadyInv' /\ own \in DOMAIN rooms
      /\ \A j \in RoomId \ {own} : Calm(j)
      /\ rooms'[own].players = rooms[own].players
  BY <1>1, <1>2, <1>4, StartPlays DEF LobbyInv
<1>10. Starting(c, id) /\ \A j : j # id => ~Starting(c, j)
  BY <1>1, <1>2 DEF Starting
<1>11. tickets' = tickets /\ \A j : Issued(j)' = Issued(j)
  BY <1>2 DEF copyvars, Issued
<1>12. excused \subseteq excused' /\ excused' \subseteq RoomId
  BY <1>2, <1>4, <1>9, RoomIds DEF LobbyInv, RacesInv
<1>13. ASSUME NEW j \in RoomId \ excused'
       PROVE  RaceInv(j)'
  <2>1. RaceInv(j)
    BY <1>12 DEF LobbyInv, RacesInv
  <2>2. CASE j # id
    <3>1. j # own
      BY <1>2, <2>2
    <3>2. \A d : /\ Starting(d, j)' <=> Starting(d, j)
                 /\ Starting(d, j) => calls'[d] = calls[d]
      BY <1>6, <1>10, <2>2
    <3>3. QED
      BY <1>9, <1>11, <2>1, <3>1, <3>2, RaceKept
  <2>3. CASE j = id
    <3>1. own = id /\ rooms[id].players \subseteq calls[c].players
      BY <1>2, <2>3
    <3>2. \A d : Starting(d, j)' <=> d = c
      BY <1>6, <1>10, <2>1, <2>3 DEF RaceInv
    <3>3. calls'[c].gen = Issued(j)'
      BY <1>2, <1>5, <1>6, <1>10, <1>11, <2>1, <2>3 DEF RaceInv
    <3>4. rooms'[j].players \subseteq calls'[c].players
      BY <1>5, <1>6, <1>9, <2>3, <3>1
    <3>5. QED
      BY <3>2, <3>3, <3>4 DEF RaceInv
  <2>4. QED
    BY <2>2, <2>3
<1>14. QED
  BY <1>6, <1>7, <1>8, <1>9, <1>12, <1>13 DEF LobbyInv, RacesInv

\* The copy of one room changes.
LEMMA ItemChanged ==
    ASSUME CopyInv, NEW id \in DOMAIN item, NEW i, ItemSound(i), item' = [item EXCEPT ![id] = i]
    PROVE  /\ DOMAIN item' = DOMAIN item /\ item'[id] = i
           /\ \A j \in DOMAIN item \ {id} : item'[j] = item[j]
           /\ item' = [j \in DOMAIN item' |-> item'[j]] /\ DOMAIN item' \subseteq RoomId
           /\ \A j \in DOMAIN item' : ItemSound(item'[j])
<1>1. /\ DOMAIN item' = DOMAIN item /\ item'[id] = i
      /\ \A j \in DOMAIN item \ {id} : item'[j] = item[j]
      /\ item' = [j \in DOMAIN item' |-> item'[j]]
  OBVIOUS
<1>2. \A j \in DOMAIN item' : ItemSound(item'[j])
  BY <1>1 DEF CopyInv
<1>3. QED
  BY <1>1, <1>2 DEF CopyInv

\* The boards of one room change, or are deleted.
LEMMA BoardsPut ==
    ASSUME BoardsInv, NEW id \in RoomId, NEW bs, RoomBoards(bs),
           DOMAIN boards' = DOMAIN boards \cup {id}, boards'[id] = bs,
           \A j \in DOMAIN boards \ {id} : boards'[j] = boards[j]
    PROVE  BoardsInv'
<1>1. \A j \in DOMAIN boards' : j \in RoomId /\ RoomBoards(boards'[j])
  BY DEF BoardsInv
<1>2. QED
  BY <1>1 DEF BoardsInv, RoomBoards

LEMMA BoardsDel ==
    ASSUME BoardsInv, NEW id, boards' = Del(boards, id)
    PROVE  BoardsInv'
<1>1. DOMAIN boards' \subseteq DOMAIN boards /\ \A j \in DOMAIN boards' : boards'[j] = boards[j]
  BY DEF Del
<1>2. \A j \in DOMAIN boards' : j \in RoomId /\ RoomBoards(boards'[j])
  BY <1>1 DEF BoardsInv
<1>3. QED
  BY <1>2 DEF BoardsInv, RoomBoards

\* The lobby decides what becomes of a start for room id.
LEMMA FinishKeeps ==
    ASSUME LobbyInv, NEW c \in Call, FinishStart(c)
    PROVE  LobbyInv' /\ Outlasted
<1>1. PICK id, old : id = calls[c].room /\ old = item[id]
  OBVIOUS
<1> DEFINE enough == old.members \cup {calls[c].by} \subseteq calls[c].players
           i(s) == [old EXCEPT !.state = s, !.winner = {}]
           Ignored == ~Startable(id) /\ UNCHANGED copyvars /\ excused' = excused \cup {id}
           Kept == /\ Startable(id) /\ enough
                   /\ item' = [item EXCEPT ![id] = i("playing")]
                   /\ boards' = Put(boards, id, [p \in old.members |-> NewBoard])
                   /\ nextAdd' = nextAdd \cup {id}
                   /\ tickets' = Put(tickets, id, TicketsOf(c))
                   /\ uiRoom' = uiRoom /\ excused' = excused
           Undone == /\ Startable(id) /\ ~enough
                     /\ item' = [item EXCEPT ![id] = i("waiting")]
                     /\ boards' = Del(boards, id) /\ nextAdd' = nextAdd \ {id}
                     /\ tickets' = Del(tickets, id)
                     /\ uiRoom' = uiRoom /\ excused' = excused \cup {id}
<1>2. /\ c \in DOMAIN calls /\ calls[c].op = "start" /\ calls[c].at = "finish"
      /\ calls' = Del(calls, c) /\ UNCHANGED rmvars /\ UNCHANGED issued
  BY DEF FinishStart
<1>3. Ignored \/ Kept \/ Undone
  BY <1>1 DEF FinishStart, StillStartable, EndGame
<1>4. StartCall(calls[c])
  BY <1>2 DEF LobbyInv, CallsInv, SyncCall, LeaveCall
<1>5. /\ id \in RoomId /\ TicketsOf(c) \in [gen : 1 .. MaxSessions, players : SUBSET Player]
      /\ calls[c].by \in calls[c].players
  <2>1. calls[c].gen \in 1 .. MaxSessions /\ calls[c].players \in SUBSET Player
    BY <1>2, <1>4, LobbyBoundsAssumption DEF StartCall
  <2>2. TicketsOf(c) \in [gen : 1 .. MaxSessions, players : SUBSET Player]
    BY <2>1 DEF TicketsOf
  <2>3. QED
    BY <1>1, <1>4, <2>2 DEF StartCall
<1>6. RMInv' /\ ReadyInv' /\ \A j \in RoomId : Calm(j)
  BY <1>2, RoomsKept DEF LobbyInv
<1>7. /\ CallsInv' /\ SessionsInv'
      /\ \A j, d : /\ Starting(d, j)' <=> Starting(d, j) /\ d # c
                   /\ Starting(d, j) /\ d # c => calls'[d] = calls[d]
  BY <1>2, CallsLose DEF LobbyInv
<1>8. Startable(id) => id \in DOMAIN item /\ ItemSound(old) /\ Cardinality(old.members) >= 2
  BY <1>1 DEF Startable, LobbyInv, CopyInv
<1>9. ASSUME Startable(id), NEW s \in {"playing", "waiting"}
      PROVE  ItemSound(i(s)) /\ i(s).winner = {}
  <2>1. old \in Item /\ old.owner \in old.members /\ Cardinality(old.members) >= 2
    BY <1>8, <1>9 DEF ItemSound
  <2>2. /\ i(s) \in Item /\ i(s).owner = old.owner /\ i(s).members = old.members /\ i(s).winner = {}
    BY <2>1 DEF Item
  <2>3. QED
    BY <2>1, <2>2 DEF ItemSound
<1>10. excused \subseteq excused' /\ excused' \subseteq RoomId /\ (Ignored \/ Undone => id \in excused')
  BY <1>3, <1>5 DEF LobbyInv, RacesInv
<1>11. ASSUME NEW j \in RoomId \ excused', j # id,
              j \in DOMAIN tickets' <=> j \in DOMAIN tickets,
              j \in DOMAIN tickets => tickets'[j] = tickets[j]
       PROVE  RaceInv(j)'
  <2>1. RaceInv(j)
    BY <1>10 DEF LobbyInv, RacesInv
  <2>2. Issued(j)' = Issued(j)
    BY <1>2 DEF Issued
  <2>3. \A d : /\ Starting(d, j)' <=> Starting(d, j)
               /\ Starting(d, j) => calls'[d] = calls[d]
    BY <1>1, <1>7, <1>11 DEF Starting
  <2>4. QED
    BY <1>6, <1>11, <2>1, <2>2, <2>3, RaceKept
<1>12. CASE Ignored
  <2>1. CopyInv' /\ BoardsInv' /\ Outlasted
    BY <1>12, CopyKept DEF LobbyInv
  <2>2. tickets' = tickets
    BY <1>12 DEF copyvars
  <2>3. ASSUME NEW j \in RoomId \ excused'
        PROVE  RaceInv(j)'
    <3>1. j # id
      BY <1>10, <1>12
    <3>2. QED
      BY <1>11, <2>2, <3>1
  <2>4. QED
    BY <1>6, <1>7, <1>10, <2>1, <2>3 DEF LobbyInv, RacesInv
<1>13. CASE Kept \/ Undone
  <2>1. PICK s \in {"playing", "waiting"} : item' = [item EXCEPT ![id] = i(s)]
    BY <1>13
  <2>2. id \in DOMAIN item /\ ItemSound(i(s)) /\ i(s).winner = {}
    BY <1>8, <1>9, <1>13
  <2> HIDE DEF i
  <2>3. /\ DOMAIN item' = DOMAIN item /\ item'[id] = i(s)
        /\ \A j \in DOMAIN item \ {id} : item'[j] = item[j]
        /\ item' = [j \in DOMAIN item' |-> item'[j]] /\ DOMAIN item' \subseteq RoomId
        /\ \A j \in DOMAIN item' : ItemSound(item'[j])
    BY <2>1, <2>2, ItemChanged DEF LobbyInv
  <2>4. Outlasted
    BY <2>2, <2>3, NobodyWins
  <2>5. uiRoom' = uiRoom /\ nextAdd' \subseteq DOMAIN item'
    BY <1>13, <2>2, <2>3 DEF LobbyInv, CopyInv
  <2>6. /\ DOMAIN tickets' \subseteq DOMAIN item'
        /\ tickets' \in [DOMAIN tickets' -> [gen : 1 .. MaxSessions, players : SUBSET Player]]
        /\ \A j \in RoomId \ {id} : /\ j \in DOMAIN tickets' <=> j \in DOMAIN tickets
                                    /\ j \in DOMAIN tickets => tickets'[j] = tickets[j]
    <3>1. CASE Kept
      <4>1. /\ DOMAIN tickets' = DOMAIN tickets \cup {id} /\ tickets'[id] = TicketsOf(c)
            /\ \A j \in DOMAIN tickets \ {id} : tickets'[j] = tickets[j]
            /\ tickets' = [j \in DOMAIN tickets' |-> tickets'[j]]
        BY <3>1 DEF Put
      <4>2. \A j \in DOMAIN tickets' : tickets'[j] \in [gen : 1 .. MaxSessions, players : SUBSET Player]
        BY <1>5, <4>1 DEF LobbyInv, CopyInv
      <4>3. QED
        BY <2>2, <2>3, <4>1, <4>2 DEF LobbyInv, CopyInv
    <3>2. CASE Undone
      <4>1. /\ DOMAIN tickets' = DOMAIN tickets \ {id}
            /\ \A j \in DOMAIN tickets' : tickets'[j] = tickets[j]
            /\ tickets' = [j \in DOMAIN tickets' |-> tickets'[j]]
        BY <3>2 DEF Del
      <4>2. \A j \in DOMAIN tickets' : tickets'[j] \in [gen : 1 .. MaxSessions, players : SUBSET Player]
        BY <4>1 DEF LobbyInv, CopyInv
      <4>3. QED
        BY <2>3, <4>1, <4>2 DEF LobbyInv, CopyInv
    <3>3. QED
      BY <1>13, <3>1, <3>2
  <2>7. CopyInv'
    <3>1. uiRoom' \in [DOMAIN uiRoom' -> RoomId] /\ DOMAIN uiRoom' \subseteq Player
      BY <2>5 DEF LobbyInv, CopyInv
    <3>2. QED
      BY <2>3, <2>5, <2>6, <3>1 DEF CopyInv, ItemSound
  <2>8. BoardsInv'
    <3>1. CASE Kept
      <4>0. PICK bs : bs = [p \in old.members |-> NewBoard]
        OBVIOUS
      <4>1. old.members \subseteq Player /\ old.members # {}
        BY <1>8, <1>13 DEF ItemSound, Item
      <4>2. RoomBoards(bs)
        BY <4>0, <4>1 DEF RoomBoards, NewBoard, Board, Status
      <4>3. /\ DOMAIN boards' = DOMAIN boards \cup {id} /\ boards'[id] = bs
            /\ \A j \in DOMAIN boards \ {id} : boards'[j] = boards[j]
        BY <3>1, <4>0 DEF Put
      <4>4. BoardsInv /\ id \in RoomId
        BY <1>5 DEF LobbyInv
      <4>5. QED
        BY ONLY <4>2, <4>3, <4>4, BoardsPut
    <3>2. CASE Undone
      BY <3>2, BoardsDel DEF LobbyInv
    <3>3. QED
      BY <1>13, <3>1, <3>2
  <2>9. ASSUME NEW j \in RoomId \ excused'
        PROVE  RaceInv(j)'
    <3>1. CASE j # id
      BY <1>11, <2>6, <3>1
    <3>2. CASE j = id
      <4>1. Kept /\ RaceInv(j)
        BY <1>10, <1>13, <3>2 DEF LobbyInv, RacesInv
      <4>2. Starting(c, j)
        BY <1>1, <1>2, <3>2 DEF Starting
      <4>3. \A d : ~Starting(d, j)'
        BY <1>7, <4>1, <4>2 DEF RaceInv
      <4>4. calls[c].gen = Issued(j) /\ (Plays(j) => rooms[j].players \subseteq calls[c].players)
        BY <1>2, <4>1, <4>2 DEF RaceInv
      <4>5. id \in DOMAIN tickets' /\ tickets'[id] = TicketsOf(c)
        BY <4>1 DEF Put
      <4>6. TicketsOf(c).gen = calls[c].gen /\ TicketsOf(c).players = calls[c].players
        BY DEF TicketsOf
      <4>7. Issued(j)' = Issued(j)
        BY <1>2 DEF Issued
      <4>8. Plays(j)' => Enterable(j)'
        BY <1>2, <3>2, <4>4, <4>5, <4>6, <4>7 DEF Enterable, Plays, rmvars
      <4>9. QED
        BY <4>3, <4>8 DEF RaceInv
    <3>3. QED
      BY <3>1, <3>2
  <2>10. QED
    BY <1>6, <1>7, <1>10, <2>4, <2>7, <2>8, <2>9 DEF LobbyInv, RacesInv
<1>14. QED
  BY <1>3, <1>12, <1>13

-----------------------------------------------------------------------------
(* Leaving the copy *)

\* What is left of a room one member leaves is sound, whoever becomes host.
LEMMA LeftSound ==
    ASSUME NEW old, ItemSound(old), NEW p, NEW left, left = old.members \ {p}, left # {},
           NEW o \in NextHost(old, p)
    PROVE  /\ left \subseteq Player /\ o \in left
           /\ ~Stops(old, left) /\ old.state = "playing" => Cardinality(left) >= 2
           /\ Stops(old, left) => \A q, r \in left : q = r
<1>1. old.owner \in old.members /\ old.members \subseteq Player
  BY DEF ItemSound, Item
<1>2. o \in left
  BY <1>1 DEF NextHost
<1>3. IsFiniteSet(left) /\ Cardinality(left) \in Nat /\ Cardinality(left) # 0
  BY <1>1, PlayersFinite, FS_EmptySet
<1>4. Stops(old, left) => \A q, r \in left : q = r
  BY <1>3, FS_Singleton DEF Stops
<1>5. QED
  BY <1>1, <1>2, <1>3, <1>4 DEF Stops

\* A board less leaves the tables of boards in order.
LEMMA WithoutBoardKeeps ==
    ASSUME BoardsInv, NEW id, NEW p, boards' = WithoutBoard(id, p)
    PROVE  BoardsInv'
<1>1. CASE id \notin DOMAIN boards
  BY <1>1 DEF WithoutBoard, BoardsInv
<1>2. CASE id \in DOMAIN boards /\ DOMAIN boards[id] \subseteq {p}
  BY <1>2, BoardsDel DEF WithoutBoard
<1>3. CASE id \in DOMAIN boards /\ ~(DOMAIN boards[id] \subseteq {p})
  <2>0. PICK bs : bs = Del(boards[id], p)
    OBVIOUS
  <2>1. boards' = [boards EXCEPT ![id] = bs]
    BY <1>3, <2>0 DEF WithoutBoard
  <2>2. RoomBoards(boards[id]) /\ id \in RoomId
    BY <1>3 DEF BoardsInv
  <2>3. /\ DOMAIN bs = DOMAIN boards[id] \ {p} /\ bs = [q \in DOMAIN bs |-> bs[q]]
        /\ \A q \in DOMAIN bs : bs[q] = boards[id][q]
    BY <2>0 DEF Del
  <2>4. RoomBoards(bs)
    BY <1>3, <2>2, <2>3 DEF RoomBoards
  <2>5. /\ DOMAIN boards' = DOMAIN boards \cup {id} /\ boards'[id] = bs
        /\ \A j \in DOMAIN boards \ {id} : boards'[j] = boards[j]
    BY <1>3, <2>1
  <2>6. QED
    BY ONLY BoardsInv, <2>2, <2>4, <2>5, BoardsPut
<1>4. QED
  BY <1>1, <1>2, <1>3

LEMMA LeaveKeeps ==
    ASSUME LobbyInv, NEW c \in Call, LeaveCopy(c)
    PROVE  LobbyInv' /\ Outlasted
<1> DEFINE p == calls[c].by
           id == uiRoom[p]
           old == item[id]
           left == old.members \ {p}
           Unknown == /\ id \notin DOMAIN item
                      /\ nextAdd' = nextAdd \ {id} /\ tickets' = Del(tickets, id)
                      /\ item' = item /\ boards' = boards
           Emptied == /\ id \in DOMAIN item /\ left = {} /\ item' = Del(item, id)
                      /\ boards' = Del(boards, id)
                      /\ nextAdd' = nextAdd \ {id} /\ tickets' = Del(tickets, id)
           Stopped == /\ id \in DOMAIN item /\ left # {} /\ Stops(old, left)
                      /\ \E o \in NextHost(old, p) :
                            item' = [item EXCEPT ![id] =
                               [owner |-> o, state |-> "waiting", members |-> left,
                                winner |-> {q \in left : LastMemberHolds(id, q)}]]
                      /\ boards' = Del(boards, id)
                      /\ nextAdd' = nextAdd \ {id} /\ tickets' = Del(tickets, id)
           Shrunk == /\ id \in DOMAIN item /\ left # {} /\ ~Stops(old, left)
                     /\ \E o \in NextHost(old, p) :
                           item' = [item EXCEPT ![id].owner = o, ![id].members = left]
                     /\ boards' = WithoutBoard(id, p)
                     /\ nextAdd' = nextAdd /\ tickets' = tickets
<1>2. /\ c \in DOMAIN calls /\ calls[c].op = "leave" /\ p \in DOMAIN uiRoom
      /\ uiRoom' = Del(uiRoom, p)
      /\ calls' = Del(calls, c) /\ UNCHANGED rmvars /\ UNCHANGED issued
  BY DEF LeaveCopy
<1>3. excused' = IF Begun(id) /\ tickets' # tickets THEN excused \cup {id} ELSE excused
  BY DEF LeaveCopy
<1>4. Unknown \/ Emptied \/ Stopped \/ Shrunk
  BY DEF LeaveCopy, EndGame
<1>1. old = item[id] /\ left = old.members \ {p} /\ id = uiRoom[p]
  OBVIOUS
<1> HIDE DEF p, id, old, left, Unknown, Emptied, Stopped, Shrunk
<1>5. id \in RoomId /\ (id \in DOMAIN item => ItemSound(old))
  BY <1>1, <1>2 DEF LobbyInv, CopyInv
<1>6. RMInv' /\ ReadyInv' /\ \A j \in RoomId : Calm(j)
  BY <1>2, RoomsKept DEF LobbyInv
<1>7. /\ CallsInv' /\ SessionsInv'
      /\ \A j, d : /\ Starting(d, j)' <=> Starting(d, j) /\ d # c
                   /\ Starting(d, j) /\ d # c => calls'[d] = calls[d]
  BY <1>2, CallsLose DEF LobbyInv
<1>8. /\ DOMAIN item' \subseteq DOMAIN item
      /\ item' = [j \in DOMAIN item' |-> item'[j]]
      /\ \A j \in DOMAIN item' : ItemSound(item'[j])
      /\ \A j \in DOMAIN item \ {id} : j \in DOMAIN item' /\ item'[j] = item[j]
      /\ Outlasted
  <2>1. CASE Unknown
    BY <2>1, NobodyWins DEF Unknown, LobbyInv, CopyInv
  <2>2. CASE Emptied
    <3>1. /\ DOMAIN item' = DOMAIN item \ {id} /\ item' = [j \in DOMAIN item' |-> item'[j]]
          /\ \A j \in DOMAIN item' : item'[j] = item[j]
      BY <2>2 DEF Emptied, Del
    <3>2. \A j \in DOMAIN item' : ItemSound(item'[j])
      BY <3>1 DEF LobbyInv, CopyInv
    <3>3. QED
      BY <3>1, <3>2, NobodyWins
  <2>3. CASE Stopped
    <3>1. PICK o, w, i :
             /\ o \in NextHost(old, p)
             /\ w = {q \in left : LastMemberHolds(id, q)}
             /\ i = [owner |-> o, state |-> "waiting", members |-> left, winner |-> w]
             /\ item' = [item EXCEPT ![id] = i]
      BY <2>3 DEF Stopped
    <3>2. /\ id \in DOMAIN item /\ left # {} /\ Stops(old, left)
      BY <2>3 DEF Stopped
    <3>3. left \subseteq Player /\ o \in left /\ \A q, r \in left : q = r
      BY ONLY <1>1, <1>5, <3>1, <3>2, LeftSound
    <3>4. i.owner = o /\ i.state = "waiting" /\ i.members = left /\ i.winner = w
      BY <3>1
    <3>5. i \in Item
      BY <3>1, <3>3 DEF Item
    <3>6. ItemSound(i)
      BY <3>4, <3>5, <3>3 DEF ItemSound
    <3>7. /\ DOMAIN item' = DOMAIN item /\ item'[id] = i
          /\ \A j \in DOMAIN item \ {id} : item'[j] = item[j]
          /\ item' = [j \in DOMAIN item' |-> item'[j]]
          /\ \A j \in DOMAIN item' : ItemSound(item'[j])
      BY <3>1, <3>2, <3>6, ItemChanged DEF LobbyInv
    <3>8. ASSUME NEW q \in w
          PROVE  /\ item[id].state = "playing" /\ q \in item'[id].members
                 /\ q \in DOMAIN boards[id] /\ boards[id][q].status # "lose"
                 /\ \A r \in item'[id].members \cap DOMAIN boards[id] : r = q
      BY <1>1, <3>1, <3>2, <3>4, <3>7, <3>8, <3>3 DEF Stops, LastMemberHolds
    <3>9. Outlasted
      BY <3>4, <3>7, <3>8 DEF Outlasted
    <3>10. QED
      BY <3>7, <3>9
  <2>4. CASE Shrunk
    <3>1. PICK o, i :
             /\ o \in NextHost(old, p)
             /\ i = [old EXCEPT !.owner = o, !.members = left]
             /\ item' = [item EXCEPT ![id] = i]
      <4>1. PICK o \in NextHost(old, p) :
               item' = [item EXCEPT ![id].owner = o, ![id].members = left]
        BY <2>4 DEF Shrunk
      <4>2. item' = [item EXCEPT ![id] = [item[id] EXCEPT !.owner = o, !.members = left]]
        BY ONLY <4>1
      <4>3. QED
        BY <1>1, <4>2
    <3>2. /\ id \in DOMAIN item /\ left # {} /\ ~Stops(old, left)
      BY <2>4 DEF Shrunk
    <3>3. /\ left \subseteq Player /\ o \in left
          /\ old.state = "playing" => Cardinality(left) >= 2
      BY ONLY <1>1, <1>5, <3>1, <3>2, LeftSound
    <3>4. old \in Item
      BY <1>5, <3>2 DEF ItemSound
    <3>5. /\ i \in Item /\ i.owner = o /\ i.state = old.state /\ i.members = left
          /\ i.winner = old.winner
      BY <3>1, <3>3, <3>4 DEF Item
    <3>6. ItemSound(i)
      BY <3>3, <3>5 DEF ItemSound
    <3>7. /\ DOMAIN item' = DOMAIN item /\ item'[id] = i
          /\ \A j \in DOMAIN item \ {id} : item'[j] = item[j]
          /\ item' = [j \in DOMAIN item' |-> item'[j]]
          /\ \A j \in DOMAIN item' : ItemSound(item'[j])
      BY <3>1, <3>2, <3>6, ItemChanged DEF LobbyInv
    <3>8. Outlasted
      BY <1>1, <3>5, <3>7, NobodyWins
    <3>9. QED
      BY <3>7, <3>8
  <2>5. QED
    BY <1>4, <2>1, <2>2, <2>3, <2>4
<1>9. \/ nextAdd' = nextAdd \ {id} /\ tickets' = Del(tickets, id)
      \/ id \in DOMAIN item' /\ nextAdd' = nextAdd /\ tickets' = tickets
  <2>1. Shrunk => id \in DOMAIN item'
    BY DEF Shrunk
  <2>2. QED
    BY <1>4, <2>1 DEF Unknown, Emptied, Stopped, Shrunk
<1>10. /\ DOMAIN tickets' = IF tickets' = tickets THEN DOMAIN tickets ELSE DOMAIN tickets \ {id}
       /\ \A j \in DOMAIN tickets' : tickets'[j] = tickets[j]
       /\ tickets' \in [DOMAIN tickets' -> [gen : 1 .. MaxSessions, players : SUBSET Player]]
  <2>1. CASE tickets' = tickets
    BY <2>1 DEF LobbyInv, CopyInv
  <2>2. CASE tickets' # tickets
    <3>1. tickets' = Del(tickets, id)
      BY <1>9, <2>2
    <3>2. /\ DOMAIN tickets' = DOMAIN tickets \ {id} /\ tickets' = [j \in DOMAIN tickets' |-> tickets'[j]]
          /\ \A j \in DOMAIN tickets' : tickets'[j] = tickets[j]
      BY <3>1 DEF Del
    <3>3. \A j \in DOMAIN tickets' : tickets'[j] \in [gen : 1 .. MaxSessions, players : SUBSET Player]
      BY <3>2 DEF LobbyInv, CopyInv
    <3>4. QED
      BY <2>2, <3>2, <3>3
  <2>3. QED
    BY <2>1, <2>2
<1>11. CopyInv'
  <2>1. uiRoom' \in [DOMAIN uiRoom' -> RoomId] /\ DOMAIN uiRoom' \subseteq Player
    <3>1. /\ DOMAIN uiRoom' = DOMAIN uiRoom \ {p} /\ uiRoom' = [q \in DOMAIN uiRoom' |-> uiRoom'[q]]
          /\ \A q \in DOMAIN uiRoom' : uiRoom'[q] = uiRoom[q]
      BY <1>2 DEF Del
    <3>2. \A q \in DOMAIN uiRoom' : uiRoom'[q] \in RoomId
      BY <3>1 DEF LobbyInv, CopyInv
    <3>3. QED
      BY <3>1, <3>2 DEF LobbyInv, CopyInv
  <2>2. nextAdd' \subseteq DOMAIN item'
    BY <1>8, <1>9 DEF LobbyInv, CopyInv
  <2>3. DOMAIN tickets' \subseteq DOMAIN item'
    <3>1. DOMAIN tickets \subseteq DOMAIN item
      BY DEF LobbyInv, CopyInv
    <3>2. CASE tickets' = Del(tickets, id)
      <4>1. DOMAIN tickets' = DOMAIN tickets \ {id}
        BY <3>2 DEF Del
      <4>2. QED
        BY <1>8, <3>1, <4>1
    <3>3. CASE id \in DOMAIN item' /\ tickets' = tickets
      BY <1>8, <3>1, <3>3
    <3>4. QED
      BY <1>9, <3>2, <3>3
  <2>4. DOMAIN item' \subseteq RoomId
    BY <1>8 DEF LobbyInv, CopyInv
  <2>5. QED
    BY <1>8, <1>10, <2>1, <2>2, <2>3, <2>4 DEF CopyInv, ItemSound
<1>12. BoardsInv'
  <2>1. boards' = boards \/ boards' = Del(boards, id) \/ boards' = WithoutBoard(id, p)
    BY <1>4 DEF Unknown, Emptied, Stopped, Shrunk
  <2>2. CASE boards' = boards
    BY <2>2 DEF LobbyInv, BoardsInv
  <2>3. QED
    BY <2>1, <2>2, BoardsDel, WithoutBoardKeeps DEF LobbyInv
<1>13. excused \subseteq excused' /\ excused' \subseteq RoomId
  BY <1>3, <1>5 DEF LobbyInv, RacesInv
<1>14. ASSUME NEW j \in RoomId \ excused'
       PROVE  RaceInv(j)'
  <2>1. RaceInv(j) /\ Issued(j)' = Issued(j)
    BY <1>2, <1>13 DEF LobbyInv, RacesInv, Issued
  <2>2. \A d : /\ Starting(d, j)' <=> Starting(d, j)
               /\ Starting(d, j) => calls'[d] = calls[d]
    BY <1>2, <1>7 DEF Starting
  <2>3. CASE j = id /\ tickets' # tickets
    <3>1. ~(Plays(j) /\ \A d : ~Starting(d, j))
      BY <1>3, <2>3 DEF Begun, InStart, Starting
    <3>2. rooms' = rooms
      BY <1>2 DEF rmvars
    <3>3. Plays(j)' <=> Plays(j)
      BY <3>2 DEF Plays
    <3>4. \A d : Starting(d, j)' /\ calls'[d].at = "finish" /\ Plays(j)'
                   => rooms'[j].players \subseteq calls'[d].players
      BY <2>1, <2>2, <3>2, <3>3 DEF RaceInv
    <3>5. \A d : Starting(d, j)' /\ calls'[d].at # "session" => calls'[d].gen = Issued(j)'
      BY <2>1, <2>2 DEF RaceInv
    <3>6. ~(Plays(j)' /\ \A d : ~Starting(d, j)')
      BY <2>2, <3>1, <3>3
    <3>7. \A d, e : Starting(d, j)' /\ Starting(e, j)' => d = e
      BY <2>1, <2>2 DEF RaceInv
    <3>8. QED
      BY <3>4, <3>5, <3>6, <3>7 DEF RaceInv
  <2>4. CASE j # id \/ tickets' = tickets
    <3>1. /\ j \in DOMAIN tickets' <=> j \in DOMAIN tickets
          /\ j \in DOMAIN tickets => tickets'[j] = tickets[j]
      BY <1>10, <2>4
    <3>2. Calm(j)
      BY <1>6
    <3>3. QED
      BY <2>1, <2>2, <3>1, <3>2, RaceKept
  <2>5. QED
    BY <2>3, <2>4
<1>15. QED
  BY <1>6, <1>7, <1>8, <1>11, <1>12, <1>13, <1>14 DEF LobbyInv, RacesInv

-----------------------------------------------------------------------------
(* Boards *)

BoardsSound(bs) == \A id \in DOMAIN bs : id \in RoomId /\ RoomBoards(bs[id])

LEMMA BoardsKeep ==
    ASSUME LobbyInv, OnlyBoardsChange, BoardsSound(boards')
    PROVE  LobbyInv' /\ Outlasted
<1>1. /\ UNCHANGED rmvars /\ UNCHANGED <<issued, calls>> /\ excused' = excused
      /\ item' = item /\ uiRoom' = uiRoom /\ nextAdd' = nextAdd /\ tickets' = tickets /\ issued' = issued
  BY DEF OnlyBoardsChange
<1>2. RMInv' /\ ReadyInv' /\ \A id \in RoomId : Calm(id)
  BY <1>1, RoomsKept DEF LobbyInv
<1>3. /\ CallsInv' /\ SessionsInv'
      /\ \A j, d : /\ Starting(d, j)' <=> Starting(d, j)
                   /\ Starting(d, j) => calls'[d] = calls[d]
  BY <1>1, SessionsSame DEF LobbyInv
<1>4. CopyInv' /\ BoardsInv' /\ Outlasted
  BY <1>1 DEF LobbyInv, CopyInv, BoardsInv, BoardsSound, RoomBoards, Outlasted
<1>5. RacesInv'
  BY <1>1, <1>2, <1>3, RacesKept DEF LobbyInv, RacesInv
<1>6. QED
  BY <1>2, <1>3, <1>4, <1>5 DEF LobbyInv

LEMMA NewBoardSound == NewBoard \in Board
BY DEF NewBoard, Board, Status

LEMMA EnsureSound ==
    ASSUME BoardsInv, NEW id \in RoomId, NEW p \in Player, NEW bs, bs = ensurePlayerGameState(id, p)
    PROVE  BoardsSound(bs) /\ id \in DOMAIN bs /\ p \in DOMAIN bs[id]
<1>1. CASE id \notin DOMAIN boards
  <2>1. PICK one : one = [q \in {p} |-> NewBoard]
    OBVIOUS
  <2>2. RoomBoards(one) /\ DOMAIN one = {p}
    BY <2>1, NewBoardSound DEF RoomBoards
  <2>3. bs = Put(boards, id, one)
    BY <1>1, <2>1 DEF ensurePlayerGameState
  <2>4. DOMAIN bs = DOMAIN boards \cup {id} /\ bs[id] = one /\ \A j \in DOMAIN boards \ {id} : bs[j] = boards[j]
    BY <2>3 DEF Put
  <2>5. QED
    BY <2>2, <2>4 DEF BoardsInv, BoardsSound
<1>2. CASE id \in DOMAIN boards /\ p \in DOMAIN boards[id]
  BY <1>2 DEF ensurePlayerGameState, BoardsInv, BoardsSound
<1>3. CASE id \in DOMAIN boards /\ p \notin DOMAIN boards[id]
  <2>1. PICK old, more : old = boards[id] /\ more = Put(old, p, NewBoard)
    OBVIOUS
  <2>2. RoomBoards(old)
    BY <1>3, <2>1 DEF BoardsInv
  <2>3. /\ DOMAIN more = DOMAIN old \cup {p} /\ more = [q \in DOMAIN more |-> more[q]]
        /\ \A q \in DOMAIN more : more[q] = IF q = p THEN NewBoard ELSE old[q]
    BY <2>1 DEF Put
  <2>4. \A q \in DOMAIN more : more[q] \in Board
    BY <2>2, <2>3, NewBoardSound DEF RoomBoards
  <2>5. RoomBoards(more)
    BY <2>2, <2>3, <2>4 DEF RoomBoards
  <2>6. bs = [boards EXCEPT ![id] = more]
    BY <1>3, <2>1 DEF ensurePlayerGameState
  <2>7. DOMAIN bs = DOMAIN boards /\ bs[id] = more /\ \A j \in DOMAIN boards \ {id} : bs[j] = boards[j]
    BY <1>3, <2>6
  <2>8. QED
    BY <1>3, <2>3, <2>5, <2>7 DEF BoardsInv, BoardsSound
<1>4. QED
  BY <1>1, <1>2, <1>3

\* One board of one room changes.
LEMMA BoardSet ==
    ASSUME NEW bs, BoardsSound(bs), NEW id \in DOMAIN bs, NEW p \in DOMAIN bs[id], NEW b \in Board,
           NEW new, new = [bs EXCEPT ![id] = [bs[id] EXCEPT ![p] = b]]
    PROVE  BoardsSound(new)
<1>1. PICK old, one : old = bs[id] /\ one = [old EXCEPT ![p] = b]
  OBVIOUS
<1>2. RoomBoards(old) /\ id \in RoomId
  BY <1>1 DEF BoardsSound
<1>3. /\ DOMAIN one = DOMAIN old /\ one = [q \in DOMAIN one |-> one[q]]
      /\ \A q \in DOMAIN one : one[q] \in Board
  BY <1>1, <1>2 DEF RoomBoards
<1>4. RoomBoards(one)
  BY <1>2, <1>3 DEF RoomBoards
<1>5. DOMAIN new = DOMAIN bs /\ new[id] = one /\ \A j \in DOMAIN bs \ {id} : new[j] = bs[j]
  BY <1>1
<1>6. QED
  BY <1>2, <1>4, <1>5 DEF BoardsSound

LEMMA WatchKeeps ==
    ASSUME LobbyInv, NEW p \in Player, Watch(p)
    PROVE  LobbyInv' /\ Outlasted
<1>1. uiRoom[p] \in RoomId /\ OnlyBoardsChange /\ boards' = ensurePlayerGameState(uiRoom[p], p)
  BY DEF Watch, LobbyInv, CopyInv
<1>2. BoardsSound(boards')
  BY <1>1, EnsureSound DEF LobbyInv
<1>3. QED
  BY <1>1, <1>2, BoardsKeep

LEMMA ShootKeeps ==
    ASSUME LobbyInv, NEW p \in Player, Shoot(p)
    PROVE  LobbyInv' /\ Outlasted
<1>1. PICK id, bs : /\ id = uiRoom[p] /\ bs = ensurePlayerGameState(id, p)
                    /\ boards' = IF bs[id][p].status = "playing"
                                 THEN [bs EXCEPT ![id][p].busy = TRUE] ELSE bs
  BY DEF Shoot
<1>2. id \in RoomId /\ OnlyBoardsChange
  BY <1>1 DEF Shoot, MayPlay, LobbyInv, CopyInv
<1>3. BoardsSound(bs) /\ id \in DOMAIN bs /\ p \in DOMAIN bs[id]
  BY <1>1, <1>2, EnsureSound DEF LobbyInv
<1>4. PICK b : b = [bs[id][p] EXCEPT !.busy = TRUE]
  OBVIOUS
<1>5. b \in Board
  BY <1>3, <1>4 DEF BoardsSound, RoomBoards, Board
<1>6. boards' = bs \/ boards' = [bs EXCEPT ![id] = [bs[id] EXCEPT ![p] = b]]
  BY <1>1, <1>4
<1>7. BoardsSound(boards')
  BY <1>3, <1>5, <1>6, BoardSet
<1>8. QED
  BY <1>2, <1>7, BoardsKeep

LEMMA LandingKeeps ==
    ASSUME LobbyInv, NEW p \in Player, NEW outcome \in Status, commitLanding(p, outcome)
    PROVE  LobbyInv' /\ Outlasted
<1>1. PICK id, bs, b : /\ id = uiRoom[p] /\ bs = ensurePlayerGameState(id, p)
                       /\ b = [status |-> outcome, busy |-> FALSE]
                       /\ boards' = bs \/ boards' = [bs EXCEPT ![id][p] = b]
  BY DEF commitLanding
<1>2. id \in RoomId /\ OnlyBoardsChange
  BY <1>1 DEF commitLanding, MayPlay, LobbyInv, CopyInv
<1>3. BoardsSound(bs) /\ id \in DOMAIN bs /\ p \in DOMAIN bs[id]
  BY <1>1, <1>2, EnsureSound DEF LobbyInv
<1>4. b \in Board
  BY <1>1 DEF Board
<1>5. boards' = bs \/ boards' = [bs EXCEPT ![id] = [bs[id] EXCEPT ![p] = b]]
  BY <1>1
<1>6. BoardsSound(boards')
  BY <1>3, <1>4, <1>5, BoardSet
<1>7. QED
  BY <1>2, <1>6, BoardsKeep

\* A frame ends a flight or leaves the board; a lost board stays lost.
LEMMA TickedSound ==
    ASSUME NEW bs, RoomBoards(bs), NEW ts \in TickedRoom(bs)
    PROVE  /\ RoomBoards(ts) /\ DOMAIN ts = DOMAIN bs
           /\ \A p \in DOMAIN bs :
                 /\ bs[p].status = "lose" => ts[p].status = "lose"
                 /\ ts[p].status = "lose" => bs[p].status = "lose" \/ bs[p].busy
<1>1. ts \in [DOMAIN bs -> Board] /\ \A p \in DOMAIN bs : ts[p] \in Ticked(bs[p])
  BY DEF TickedRoom
<1>2. RoomBoards(ts) /\ DOMAIN ts = DOMAIN bs
  BY <1>1 DEF RoomBoards
<1>3. ASSUME NEW p \in DOMAIN bs
      PROVE  /\ bs[p].status = "lose" => ts[p].status = "lose"
             /\ ts[p].status = "lose" => bs[p].status = "lose" \/ bs[p].busy
  BY <1>1, <1>3 DEF Ticked
<1>4. QED
  BY <1>2, <1>3

LEMMA SettledSound ==
    ASSUME NEW r, NEW bs, RoomBoards(bs)
    PROVE  RoomBoards(Settled(r, bs))
<1>1. PICK f : f = Settled(r, bs)
  OBVIOUS
<1>2. /\ DOMAIN f = DOMAIN bs /\ f = [p \in DOMAIN f |-> f[p]]
      /\ \A p \in DOMAIN f : f[p] \in Board
  BY <1>1 DEF Settled, Board, Status
<1>3. RoomBoards(f)
  BY <1>2 DEF RoomBoards
<1>4. QED
  BY <1>1, <1>3

LEMMA LayeredSound ==
    ASSUME NEW bs, RoomBoards(bs), NEW ls \in Layered(bs)
    PROVE  RoomBoards(ls)
<1>1. NewBoard \in Board /\ [status |-> "lose", busy |-> FALSE] \in Board
  BY DEF NewBoard, Board, Status
<1>2. QED
  BY <1>1 DEF Layered, RoomBoards

LEMMA StepKeeps ==
    ASSUME LobbyInv, NEW id \in DOMAIN item, StepRoom(id)
    PROVE  LobbyInv' /\ Outlasted
<1>1. PICK old : old = item[id]
  OBVIOUS
<1>2. /\ UNCHANGED rmvars /\ UNCHANGED <<issued, calls>> /\ excused' = excused
      /\ uiRoom' = uiRoom /\ tickets' = tickets /\ issued' = issued
      /\ nextAdd' = nextAdd \ {id} \/ nextAdd' = nextAdd \cup {id}
  BY DEF StepRoom
<1>3. id \in RoomId /\ ItemSound(old)
  BY <1>1 DEF LobbyInv, CopyInv
<1>4. RMInv' /\ ReadyInv' /\ \A j \in RoomId : Calm(j)
  BY <1>2, RoomsKept DEF LobbyInv
<1>5. /\ CallsInv' /\ SessionsInv'
      /\ \A j, d : /\ Starting(d, j)' <=> Starting(d, j)
                   /\ Starting(d, j) => calls'[d] = calls[d]
  BY <1>2, SessionsSame DEF LobbyInv
<1> DEFINE Ended(ts) == /\ old.state = "playing" /\ id \in DOMAIN boards
                        /\ ts \in TickedRoom(boards[id]) /\ Decided(old, ts)
                        /\ item' = [item EXCEPT ![id].state = "waiting",
                                                ![id].winner = Alive(old, ts)]
                        /\ boards' = [boards EXCEPT ![id] = Settled(old, ts)]
           Goes == /\ item' = item
                   /\ \/ boards' = boards
                      \/ /\ id \in DOMAIN boards
                         /\ \E bs \in TickedRoom(boards[id]) :
                               \/ boards' = [boards EXCEPT ![id] = bs]
                               \/ \E ls \in Layered(bs) : boards' = [boards EXCEPT ![id] = ls]
<1>6. Goes \/ \E ts : Ended(ts)
  BY <1>1 DEF StepRoom
<1>7. BoardsInv'
  <2>1. CASE boards' = boards
    BY <2>1 DEF LobbyInv, BoardsInv, RoomBoards
  <2>2. CASE boards' # boards
    <3>1. id \in DOMAIN boards /\ RoomBoards(boards[id])
      BY <1>6, <2>2 DEF LobbyInv, BoardsInv
    <3>2. \E bs : RoomBoards(bs) /\ boards' = [boards EXCEPT ![id] = bs]
      <4>1. ASSUME NEW ts, Ended(ts)
            PROVE  RoomBoards(Settled(old, ts))
        BY <3>1, <4>1, TickedSound, SettledSound
      <4>2. ASSUME NEW ts \in TickedRoom(boards[id])
            PROVE  RoomBoards(ts) /\ \A ls \in Layered(ts) : RoomBoards(ls)
        BY <3>1, <4>2, TickedSound, LayeredSound
      <4>3. QED
        BY <1>6, <2>2, <4>1, <4>2
    <3>3. PICK bs : RoomBoards(bs) /\ boards' = [boards EXCEPT ![id] = bs]
      BY <3>2
    <3>4. /\ DOMAIN boards' = DOMAIN boards \cup {id} /\ boards'[id] = bs
          /\ \A j \in DOMAIN boards \ {id} : boards'[j] = boards[j]
      BY <3>1, <3>3
    <3>5. BoardsInv
      BY DEF LobbyInv
    <3>6. QED
      BY ONLY <1>3, <3>3, <3>4, <3>5, BoardsPut
  <2>3. QED
    BY <2>1, <2>2
<1> DEFINE OneChanged ==
              /\ DOMAIN item' = DOMAIN item /\ item' = [j \in DOMAIN item' |-> item'[j]]
              /\ \A j \in DOMAIN item' : ItemSound(item'[j])
              /\ \A j \in DOMAIN item \ {id} : item'[j] = item[j]
              /\ old.state # "playing" => item' = item
<1> HIDE DEF Goes, Ended
<1>8. OneChanged /\ Outlasted
  <2>1. CASE Goes
    BY <2>1, NobodyWins DEF Goes, LobbyInv, CopyInv
  <2>2. ASSUME NEW ts, Ended(ts)
        PROVE  OneChanged /\ Outlasted
    <3>1. PICK w, i : /\ w = Alive(old, ts) /\ i = [old EXCEPT !.state = "waiting", !.winner = w]
                      /\ item' = [item EXCEPT ![id] = i]
      <4>1. item' = [item EXCEPT ![id].state = "waiting", ![id].winner = Alive(old, ts)]
        BY <2>2 DEF Ended
      <4>2. item' = [item EXCEPT ![id] =
                        [item[id] EXCEPT !.state = "waiting", !.winner = Alive(old, ts)]]
        BY ONLY <4>1
      <4>3. QED
        BY <1>1, <4>2
    <3>2. /\ old.state = "playing" /\ id \in DOMAIN boards
          /\ ts \in TickedRoom(boards[id]) /\ Decided(old, ts)
      BY <2>2 DEF Ended
    <3>3. old \in Item /\ w \subseteq old.members
      BY <1>3, <3>1 DEF ItemSound, Alive
    <3>4. /\ i \in Item /\ i.owner = old.owner /\ i.state = "waiting" /\ i.members = old.members
          /\ i.winner = w
      BY <3>1, <3>3 DEF Item
    <3>5. ItemSound(i)
      BY <1>3, <3>4 DEF ItemSound
    <3>6. /\ DOMAIN item' = DOMAIN item /\ item'[id] = i
          /\ \A j \in DOMAIN item \ {id} : item'[j] = item[j]
          /\ item' = [j \in DOMAIN item' |-> item'[j]]
          /\ \A j \in DOMAIN item' : ItemSound(item'[j])
      BY <3>1, <3>5, ItemChanged DEF LobbyInv
    <3>7. /\ DOMAIN ts = DOMAIN boards[id]
          /\ \A p \in DOMAIN ts :
                /\ boards[id][p].status = "lose" => ts[p].status = "lose"
                /\ ts[p].status = "lose" => boards[id][p].status = "lose" \/ boards[id][p].busy
      BY <3>2, TickedSound DEF LobbyInv, BoardsInv
    <3>8. \A p, q \in w : p = q
      <4>1. w \subseteq Player
        BY <3>3 DEF Item
      <4>2. IsFiniteSet(w) /\ Cardinality(w) = 1
        BY <3>1, <3>2, <4>1, PlayersFinite DEF Decided
      <4>3. QED
        BY <4>2, FS_Singleton
    <3>9. ASSUME NEW p \in w
          PROVE  /\ item[id].state = "playing" /\ p \in item'[id].members
                 /\ p \in DOMAIN boards[id] /\ boards[id][p].status # "lose"
                 /\ \A q \in item'[id].members \cap DOMAIN boards[id] :
                       q # p => boards[id][q].status = "lose" \/ boards[id][q].busy
      BY <1>1, <3>1, <3>2, <3>4, <3>6, <3>7, <3>8, <3>9 DEF Alive
    <3>10. Outlasted
      BY <3>4, <3>6, <3>9 DEF Outlasted
    <3>11. QED
      BY <3>2, <3>6, <3>10
  <2>3. QED
    BY <1>6, <2>1, <2>2
<1>9. CopyInv'
  <2>1. nextAdd' \subseteq DOMAIN item' /\ DOMAIN item' \subseteq RoomId
    BY <1>2, <1>8 DEF LobbyInv, CopyInv
  <2>2. QED
    BY <1>2, <1>8, <2>1 DEF LobbyInv, CopyInv, ItemSound
<1>10. ASSUME NEW j \in RoomId \ excused'
       PROVE  RaceInv(j)'
  <2>1. RaceInv(j) /\ Issued(j)' = Issued(j)
    BY <1>2 DEF LobbyInv, RacesInv, Issued
  <2>2. QED
    BY <1>2, <1>4, <1>5, <2>1, RaceKept
<1>11. QED
  BY <1>2, <1>4, <1>5, <1>7, <1>8, <1>9, <1>10 DEF LobbyInv, RacesInv

-----------------------------------------------------------------------------
(* The invariant holds, and what follows from it *)

LEMMA LobbyInvInit == LobbyInit => LobbyInv
<1> SUFFICES ASSUME LobbyInit
             PROVE  LobbyInv
  OBVIOUS
<1>1. RMInv
  BY NewManagerInv DEF LobbyInit
<1>2. /\ DOMAIN item = {} /\ DOMAIN uiRoom = {} /\ DOMAIN boards = {} /\ DOMAIN tickets = {}
      /\ DOMAIN issued = {} /\ DOMAIN calls = {} /\ DOMAIN rooms = {}
      /\ item = [x \in {} |-> item[x]] /\ uiRoom = [x \in {} |-> uiRoom[x]]
      /\ tickets = [x \in {} |-> tickets[x]] /\ issued = [x \in {} |-> issued[x]]
      /\ calls = [x \in {} |-> calls[x]]
      /\ nextAdd = {} /\ excused = {}
  BY DEF LobbyInit, NewManager, EmptyMap
<1>3. ReadyInv /\ CopyInv /\ BoardsInv /\ CallsInv
  BY <1>2 DEF ReadyInv, CopyInv, BoardsInv, CallsInv
<1>4. SessionsInv
  <2>1. \A id : Asking(id) = {} /\ Issued(id) = 0
    BY <1>2 DEF Asking, Issued
  <2>2. issued \in [DOMAIN issued -> 1 .. MaxSessions]
    BY <1>2
  <2>3. \A id : Issued(id) + Cardinality(Asking(id)) = 0
    BY <2>1, FS_EmptySet
  <2>4. QED
    BY <2>2, <2>3, LobbyBoundsAssumption DEF SessionsInv
<1>5. RacesInv
  BY <1>2 DEF RacesInv, RaceInv, Starting, Plays
<1>6. QED
  BY <1>1, <1>3, <1>4, <1>5 DEF LobbyInv

LEMMA StutterKeeps ==
    ASSUME LobbyInv, UNCHANGED lobbyvars
    PROVE  LobbyInv' /\ Outlasted
<1>1. OnlyBoardsChange /\ boards' = boards
  BY DEF lobbyvars, OnlyBoardsChange, rmvars
<1>2. BoardsSound(boards')
  BY <1>1 DEF LobbyInv, BoardsInv, BoardsSound
<1>3. QED
  BY <1>1, <1>2, BoardsKeep

LEMMA LobbyInvInductive == LobbyInv /\ [LobbyNext]_lobbyvars => LobbyInv' /\ Outlasted
<1> SUFFICES ASSUME LobbyInv, [LobbyNext]_lobbyvars
             PROVE  LobbyInv' /\ Outlasted
  OBVIOUS
<1>1. ASSUME NEW c \in Call, NEW p \in LobbyPlayer, NEW cap \in Capacities, createRoom(p, cap, c)
      PROVE  LobbyInv' /\ Outlasted
  BY <1>1, LobbyPlayersAssumption, CreateKeeps
<1>2. ASSUME NEW c \in Call, NEW p \in LobbyPlayer, NEW id \in DOMAIN rooms, handleJoinRoom(p, id, c)
      PROVE  LobbyInv' /\ Outlasted
  BY <1>2, LobbyPlayersAssumption, JoinKeeps
<1>3. ASSUME NEW c \in Call, NEW p \in LobbyPlayer, NEW id \in DOMAIN item, handleStartGame(p, id, c)
      PROVE  LobbyInv' /\ Outlasted
  BY <1>3, LobbyPlayersAssumption, StartRequestKeeps
<1>4. ASSUME NEW c \in Call, NEW p \in LobbyPlayer, handleLeaveRoom(p, c)
      PROVE  LobbyInv' /\ Outlasted
  BY <1>4, LobbyPlayersAssumption, LeaveRequestKeeps
<1>5. ASSUME NEW c \in Call, NEW id \in DOMAIN rooms, handleRoomDetail(id, c)
      PROVE  LobbyInv' /\ Outlasted
  BY <1>5, DetailKeeps
<1>6. ASSUME NEW c \in Call, Remote(c)
      PROVE  LobbyInv' /\ Outlasted
  <2>1. CASE CreateSession(c)
    BY <2>1, SessionKeeps
  <2>2. CASE StartRoom(c)
    BY <2>2, RoomStartKeeps
  <2>3. CASE syncRoomCacheFromRemote(c)
    BY <2>3, SyncKeeps
  <2>4. CASE FinishStart(c)
    BY <2>4, FinishKeeps
  <2>5. CASE LeaveCopy(c)
    BY <2>5, LeaveKeeps
  <2>6. CASE EndsEarly(c)
    BY <2>6, FailureKeeps
  <2>7. QED
    BY <1>6, <2>1, <2>2, <2>3, <2>4, <2>5, <2>6 DEF Remote
<1>7. ASSUME NEW p \in Player, Evicted(p)
      PROVE  LobbyInv' /\ Outlasted
  BY <1>7, EvictionKeeps
<1>8. ASSUME NEW p \in GatewayPlayer, GatewayRequest(p) \/ GatewayStart(p)
      PROVE  LobbyInv' /\ Outlasted
  BY <1>8, LobbyPlayersAssumption, GatewayRequestKeeps, GatewayStartKeeps
<1>9. ASSUME NEW p \in Player,
             Watch(p) \/ Shoot(p) \/ \E outcome \in Status : commitLanding(p, outcome)
      PROVE  LobbyInv' /\ Outlasted
  BY <1>9, WatchKeeps, ShootKeeps, LandingKeeps
<1>10. ASSUME NEW id \in DOMAIN item, StepRoom(id)
      PROVE  LobbyInv' /\ Outlasted
  BY <1>10, StepKeeps
<1>11. CASE UNCHANGED lobbyvars
  BY <1>11, StutterKeeps
<1>12. QED
  BY <1>1, LobbyPlayersAssumption, <1>2, <1>3, <1>4, <1>5, <1>6, <1>7, <1>8, <1>9, <1>10, <1>11 DEF LobbyNext

\* LobbyInv holds in every reachable state: the tables are in order, a reply
\* in flight carries a sound room, and a start that is not excused has a ticket
\* for everyone the room service starts the room with.
THEOREM LobbyInvHolds == LobbySafe => []LobbyInv
<1>1. LobbyInv /\ [LobbyNext]_lobbyvars => LobbyInv'
  BY LobbyInvInductive
<1>2. QED
  BY LobbyInvInit, <1>1, PTL DEF LobbySafe

\* The tables of the lobby keep their types, however many players, rooms and
\* calls in flight there are.
THEOREM LobbyTypeCorrect == LobbySafe => []LobbyTypeOK
<1>1. LobbyInv => LobbyTypeOK
  <2> SUFFICES ASSUME LobbyInv
               PROVE  LobbyTypeOK
    OBVIOUS
  <2>1. item \in [DOMAIN item -> Item] /\ DOMAIN item \subseteq RoomId
    BY DEF LobbyInv, CopyInv, ItemSound
  <2>2. /\ uiRoom \in [DOMAIN uiRoom -> RoomId] /\ DOMAIN uiRoom \subseteq Player
        /\ nextAdd \subseteq DOMAIN item /\ DOMAIN tickets \subseteq DOMAIN item
        /\ tickets \in [DOMAIN tickets -> [gen : 1 .. MaxSessions, players : SUBSET Player]]
    BY DEF LobbyInv, CopyInv
  <2>3. \A id \in DOMAIN boards :
           /\ id \in RoomId
           /\ boards[id] \in [DOMAIN boards[id] -> Board]
           /\ DOMAIN boards[id] \in (SUBSET Player) \ {{}}
    BY DEF LobbyInv, BoardsInv, RoomBoards
  <2>4. calls \in [DOMAIN calls -> CallRecord] /\ DOMAIN calls \subseteq Call
    <3>1. \A c \in DOMAIN calls : calls[c] \in CallRecord
      BY DEF LobbyInv, CallsInv, SyncCall, StartCall, LeaveCall, CallRecord
    <3>2. calls = [c \in DOMAIN calls |-> calls[c]] /\ DOMAIN calls \subseteq Call
      BY DEF LobbyInv, CallsInv
    <3>3. QED
      BY <3>1, <3>2
  <2>5. issued \in [DOMAIN issued -> 1 .. MaxSessions] /\ excused \subseteq RoomId
    BY DEF LobbyInv, SessionsInv, RacesInv
  <2>6. QED
    BY <2>1, <2>2, <2>3, <2>4, <2>5 DEF LobbyTypeOK
<1>2. QED
  BY LobbyInvHolds, <1>1, PTL

\* Every room of the copy has an owner among its members, whatever replies,
\* leaves and evictions overtake each other.
THEOREM CopiesTendedSafe == LobbySafe => []CopiesAreTended
<1>1. LobbyInv => CopiesAreTended
  BY DEF LobbyInv, CopyInv, ItemSound, CopiesAreTended
<1>2. QED
  BY LobbyInvHolds, <1>1, PTL

\* No room of the copy plays with fewer than two members.
THEOREM OpponentsSafe == LobbySafe => []PlayingRoomsHaveOpponents
<1>1. LobbyInv => PlayingRoomsHaveOpponents
  BY DEF LobbyInv, CopyInv, ItemSound, PlayingRoomsHaveOpponents
<1>2. QED
  BY LobbyInvHolds, <1>1, PTL

\* A room that plays has a ticket of its latest session for every member, but
\* for the five ways to go wrong that UnexcusedStartsCanBeEntered lists.
THEOREM EnterableSafe == LobbySafe => []UnexcusedStartsCanBeEntered
<1>1. LobbyInv => UnexcusedStartsCanBeEntered
  BY DEF LobbyInv, RacesInv, RaceInv, UnexcusedStartsCanBeEntered, Begun, InStart, Starting
<1>2. QED
  BY LobbyInvHolds, <1>1, PTL

\* A member becomes the winner only by a game in which its own board holds and
\* the board of everyone else who is still there is lost or about to be.
THEOREM LobbyWinnersSafe == LobbySafe => WinnersOutlast
<1>1. LobbyInv /\ [LobbyNext]_lobbyvars =>
        [\A id \in DOMAIN item \cap DOMAIN item' :
            \A p \in item'[id].winner \ item[id].winner :
               /\ item[id].state = "playing"
               /\ p \in item'[id].members
               /\ p \in DOMAIN boards[id] /\ boards[id][p].status # "lose"
               /\ \A q \in item'[id].members \cap DOMAIN boards[id] :
                     q # p => boards[id][q].status = "lose" \/ boards[id][q].busy]_lobbyvars
  BY LobbyInvInductive DEF Outlasted
<1>2. QED
  BY <1>1, LobbyInvHolds, PTL DEF LobbySafe, WinnersOutlast

-----------------------------------------------------------------------------
(* The room service behind the lobby *)

\* Whatever the lobby does to the rooms is a step of their directory.  The
\* lobby clamps the capacity it passes on, so its rooms may have capacities
\* nobody asks the manager for directly.
LEMMA LobbyStepsDirectory ==
    ASSUME LobbyInv, [LobbyNext]_lobbyvars
    PROVE  Directory!DirNext \/ UNCHANGED Directory!dvars
<1> DEFINE Created == \E p \in Player, cap \in Int : CreateRoom(p, cap)
<1>1. RMInv
  BY DEF LobbyInv
<1>2. ASSUME NEW c \in Call, NEW p \in LobbyPlayer, NEW cap \in Capacities, createRoom(p, cap, c)
      PROVE  Created
  <2> DEFINE clamped == IF cap < 2 THEN 2 ELSE IF cap > 8 THEN 8 ELSE cap
  <2>1. clamped \in Int
    BY CapacitiesAssumption
  <2>2. CreateRoom(p, clamped)
    BY <1>2 DEF createRoom
  <2>3. QED
    BY <2>1, <2>2, LobbyPlayersAssumption
<1>3. ASSUME NEW c \in Call, NEW p \in LobbyPlayer, NEW id \in DOMAIN rooms, handleJoinRoom(p, id, c)
      PROVE  RMNext
  BY <1>3, LobbyPlayersAssumption DEF handleJoinRoom, RMNext
<1>4. ASSUME NEW c \in Call, NEW p \in LobbyPlayer, NEW id \in DOMAIN item, handleStartGame(p, id, c)
      PROVE  UNCHANGED rmvars
  BY <1>4 DEF handleStartGame
<1>5. ASSUME NEW c \in Call, NEW p \in LobbyPlayer, handleLeaveRoom(p, c)
      PROVE  [RMNext]_rmvars
  BY <1>5, LobbyPlayersAssumption DEF handleLeaveRoom, RMNext
<1>6. ASSUME NEW c \in Call, NEW id \in DOMAIN rooms, handleRoomDetail(id, c)
      PROVE  UNCHANGED rmvars
  BY <1>6 DEF handleRoomDetail
<1>7. ASSUME NEW c \in Call, Remote(c)
      PROVE  [RMNext]_rmvars
  <2>1. ASSUME StartRoom(c) PROVE RMNext
    <3>1. StartGame(calls[c].by) /\ c \in DOMAIN calls /\ calls[c].op = "start"
      BY <2>1 DEF StartRoom
    <3>2. calls[c].by \in Player
      BY <3>1 DEF LobbyInv, CallsInv, SyncCall, StartCall, LeaveCall
    <3>3. QED
      BY <3>1, <3>2 DEF RMNext
  <2>2. ASSUME \/ CreateSession(c) \/ syncRoomCacheFromRemote(c) \/ FinishStart(c)
               \/ LeaveCopy(c) \/ EndsEarly(c)
        PROVE  UNCHANGED rmvars
    BY <2>2 DEF CreateSession, syncRoomCacheFromRemote, FinishStart, LeaveCopy, EndsEarly
  <2>3. QED
    BY <1>7, <2>1, <2>2 DEF Remote
<1>8. ASSUME NEW p \in Player, Evicted(p) PROVE RMNext
  BY <1>8 DEF Evicted, RMNext
<1>9. ASSUME NEW p \in GatewayPlayer, GatewayRequest(p) \/ GatewayStart(p) PROVE RMNext
  BY <1>9, LobbyPlayersAssumption DEF GatewayRequest, GatewayStart, RMNext
<1>10. ASSUME NEW p \in Player,
             Watch(p) \/ Shoot(p) \/ \E outcome \in Status : commitLanding(p, outcome)
      PROVE  UNCHANGED rmvars
  BY <1>10 DEF Watch, Shoot, commitLanding, OnlyBoardsChange
<1>11. ASSUME NEW id \in DOMAIN item, StepRoom(id) PROVE UNCHANGED rmvars
  BY <1>11 DEF StepRoom
<1>12. ASSUME UNCHANGED lobbyvars PROVE UNCHANGED rmvars
  BY <1>12 DEF lobbyvars, rmvars
<1>13. [RMNext]_rmvars \/ Created
  BY <1>2, <1>3, <1>4, <1>5, <1>6, <1>7, <1>8, <1>9, <1>10, <1>11, <1>12 DEF LobbyNext
<1>14. QED
  BY <1>1, <1>13, ManagerSteps

\* However the lobby's requests, its late replies, the gateway's requests and
\* the evictions behind the lobby's back interleave, the rooms stay a
\* directory: one room per player, hosts that are members, ids never reused.
THEOREM LobbyKeepsDirectory == LobbySafe => ImplementsDirectory
<1>1. LobbyInit => Directory!DirInit
  BY EmptyDirectory DEF LobbyInit
<1>2. LobbyInv /\ [LobbyNext]_lobbyvars => [Directory!DirNext]_(Directory!dvars)
  BY LobbyStepsDirectory
<1>3. QED
  BY <1>1, <1>2, LobbyInvHolds, PTL DEF LobbySafe, ImplementsDirectory, Directory!DirSpec
=============================================================================
