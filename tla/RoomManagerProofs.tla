-------------------------- MODULE RoomManagerProofs --------------------------
(***************************************************************************)
(* Proofs about RoomManager, for any set of players, any capacities, frame *)
(* length and log length.  The inductive invariant RMInv collects, for     *)
(* every room, what an operation on that room has to re-establish          *)
(* (RoomInv), and the agreement of the two tables.                         *)
(***************************************************************************)
EXTENDS RoomManager, Recursion, FiniteSetTheorems, SequenceTheorems, TLAPS

RosterInv(r) ==
    /\ r.owner \in r.players
    /\ r.ready \subseteq r.players
    /\ Cardinality(r.players) <= r.maxPlayers

StateInv(r) ==
    /\ r.state \in {"Idle", "Ready", "Playing"}
    /\ r.state = "Idle" <=> Cardinality(r.players) = 1
    /\ Cardinality(r.players) > 1 /\ r.players \subseteq r.ready => r.state = "Playing"

LogInv(r) ==
    /\ Len(r.commands) = IF r.cmdSeq <= LogCap THEN r.cmdSeq ELSE LogCap
    /\ \A i \in 1 .. Len(r.commands) :
          r.commands[i].seq = r.cmdSeq - Len(r.commands) + i

\* A room that is playing, or ever was, knows since when; no logged frame is
\* later than the frame of the present moment.
FrameInv(r, t) ==
    /\ r.since <= t
    /\ r.state = "Playing" \/ r.commands # <<>> => r.since # 0
    /\ \A i \in 1 .. Len(r.commands) :
          r.commands[i].frame <= (t - r.since) \div FrameTick
    /\ \A i \in 1 .. Len(r.commands) - 1 :
          r.commands[i].frame <= r.commands[i + 1].frame

RoomInv(r, t) ==
    /\ r \in Room
    /\ RosterInv(r)
    /\ StateInv(r)
    /\ LogInv(r)
    /\ FrameInv(r, t)

RMInv ==
    /\ RMTypeOK
    /\ MembershipAgrees
    /\ \A id \in DOMAIN rooms : RoomInv(rooms[id], now)

-----------------------------------------------------------------------------
(* Facts about numbers and maps *)

\* Frames do not run backwards as time passes.
LEMMA DivMonotone ==
    ASSUME NEW a \in Nat, NEW b \in Nat, NEW k \in Nat \ {0}, a <= b
    PROVE  a \div k \in Nat /\ b \div k \in Nat /\ a \div k <= b \div k
<1> DEFINE x == a \div k
           y == b \div k
<1>1. x \in Nat /\ y \in Nat
  OBVIOUS
<1>2. /\ a = k * x + (a % k)
      /\ b = k * y + (b % k)
      /\ a % k \in 0 .. k - 1
      /\ b % k \in 0 .. k - 1
  OBVIOUS
<1>3. ASSUME y + 1 <= x PROVE FALSE
  <2>1. k * (y + 1) <= k * x
    BY <1>1, <1>3
  <2>2. k * (y + 1) = k * y + k
    BY <1>1
  <2>3. QED
    BY <1>1, <1>2, <2>1, <2>2
<1>4. QED
  BY <1>1, <1>3

\* The entries of a log carry natural numbers.
LEMMA CommandFrames ==
    ASSUME NEW s \in Seq(Event)
    PROVE  \A i \in 1 .. Len(s) : s[i].frame \in Nat /\ s[i].seq \in Nat
<1> TAKE i \in 1 .. Len(s)
<1>1. s[i] \in Event
  BY ElementOfSeq
<1>2. QED
  BY <1>1 DEF Event

\* A set of players is finite, and is counted by a natural number.
LEMMA PlayersFinite ==
    ASSUME NEW S \in SUBSET Player
    PROVE  IsFiniteSet(S) /\ Cardinality(S) \in Nat
BY PlayerAssumption, FS_Subset, FS_CardinalityType

-----------------------------------------------------------------------------
(* Facts about rooms *)

\* CreateRoom builds a sound room whatever capacity it is asked for.
LEMMA NewRoomSound ==
    ASSUME NEW p \in Player, NEW cap \in Int, NEW t \in Nat
    PROVE  RoomInv(NewRoom(p, cap), t) /\ NewRoom(p, cap).players = {p}
<1> DEFINE r == NewRoom(p, cap)
<1>1. Cardinality({p}) = 1
  BY FS_Singleton
<1>2. r \in Room
  BY DEF NewRoom, Room, RoomState
<1>3. RosterInv(r) /\ StateInv(r)
  BY <1>1 DEF NewRoom, RosterInv, StateInv
<1>4. LogInv(r) /\ FrameInv(r, t)
  BY LogCapAssumption DEF NewRoom, LogInv, FrameInv
<1>5. QED
  BY <1>2, <1>3, <1>4 DEF RoomInv, NewRoom

\* Time passing does not unsettle a room.
LEMMA RoomInvLater ==
    ASSUME NEW r, NEW t \in Nat, NEW u \in Nat, t <= u, RoomInv(r, t)
    PROVE  RoomInv(r, u)
<1>1. r \in Room /\ FrameInv(r, t)
  BY DEF RoomInv
<1>2. r.since \in Nat /\ r.commands \in Seq(Event)
  BY <1>1 DEF Room
<1>3. (t - r.since) \div FrameTick <= (u - r.since) \div FrameTick
      /\ (t - r.since) \div FrameTick \in Nat /\ (u - r.since) \div FrameTick \in Nat
  <2>1. t - r.since \in Nat /\ u - r.since \in Nat /\ t - r.since <= u - r.since
    BY <1>1, <1>2 DEF FrameInv
  <2>2. QED
    BY <2>1, DivMonotone, FrameTickAssumption
<1>4. \A i \in 1 .. Len(r.commands) : r.commands[i].frame \in Nat
  BY <1>2, CommandFrames
<1>5. FrameInv(r, u)
  <2>1. \A i \in 1 .. Len(r.commands) : r.commands[i].frame <= (u - r.since) \div FrameTick
    BY <1>1, <1>3, <1>4 DEF FrameInv
  <2>2. QED
    BY <1>1, <1>2, <2>1 DEF FrameInv
<1>6. QED
  BY <1>5 DEF RoomInv

\* Starting a room of two or more leaves it sound.
LEMMA StartedSound ==
    ASSUME NEW r, NEW t \in Nat \ {0}, r \in Room, RosterInv(r), LogInv(r), FrameInv(r, t),
           Cardinality(r.players) > 1
    PROVE  /\ RoomInv(Started(r, t), t)
           /\ Started(r, t).players = r.players
           /\ Started(r, t).owner = r.owner
<1> DEFINE s == Started(r, t)
<1>1. /\ s \in Room
      /\ s.owner = r.owner /\ s.players = r.players /\ s.ready = r.ready
      /\ s.maxPlayers = r.maxPlayers /\ s.cmdSeq = r.cmdSeq /\ s.commands = r.commands
      /\ s.state = "Playing"
      /\ s.since = IF r.since = 0 THEN t ELSE r.since
  BY DEF Started, Room, RoomState
<1>2. RosterInv(s) /\ LogInv(s)
  BY <1>1 DEF RosterInv, LogInv
<1>3. StateInv(s)
  BY <1>1, PlayersFinite DEF StateInv, Room
<1>4. FrameInv(s, t)
  <2>1. CASE r.since = 0
    <3>1. r.commands = <<>> /\ Len(r.commands) = 0
      BY <2>1 DEF FrameInv
    <3>2. QED
      BY <1>1, <2>1, <3>1 DEF FrameInv
  <2>2. CASE r.since # 0
    BY <1>1, <2>2 DEF FrameInv
  <2>3. QED
    BY <2>1, <2>2
<1>5. QED
  BY <1>1, <1>2, <1>3, <1>4 DEF RoomInv

\* updateRoomStateLocked turns a room whose roster has just changed into a
\* sound one, and touches neither roster nor owner.
LEMMA UpdateSound ==
    ASSUME NEW r, NEW t \in Nat \ {0}, r \in Room, RosterInv(r), LogInv(r), FrameInv(r, t),
           r.state \in {"Idle", "Ready", "Playing"}
    PROVE  /\ RoomInv(updateRoomState(r, t), t)
           /\ updateRoomState(r, t).players = r.players
           /\ updateRoomState(r, t).owner = r.owner
<1> DEFINE n == Cardinality(r.players)
           allReady == r.players \subseteq r.ready
           idle == [r EXCEPT !.state = "Idle"]
           waiting == [r EXCEPT !.state = "Ready"]
<1>1. n \in Nat /\ n # 0 /\ r.players # {} /\ IsFiniteSet(r.players)
  BY PlayersFinite, FS_EmptySet DEF Room, RosterInv
<1>2. CASE n = 1
  <2>1. updateRoomState(r, t) = idle
    BY <1>1, <1>2 DEF updateRoomState
  <2>2. /\ idle \in Room
        /\ idle.owner = r.owner /\ idle.players = r.players /\ idle.ready = r.ready
        /\ idle.maxPlayers = r.maxPlayers /\ idle.cmdSeq = r.cmdSeq
        /\ idle.commands = r.commands /\ idle.since = r.since /\ idle.state = "Idle"
    BY DEF Room, RoomState
  <2>3. QED
    BY <1>2, <2>1, <2>2 DEF RoomInv, RosterInv, StateInv, LogInv, FrameInv
<1>3. CASE n > 1 /\ ~allReady
  <2>1. updateRoomState(r, t) = waiting
    BY <1>1, <1>3 DEF updateRoomState
  <2>2. /\ waiting \in Room
        /\ waiting.owner = r.owner /\ waiting.players = r.players /\ waiting.ready = r.ready
        /\ waiting.maxPlayers = r.maxPlayers /\ waiting.cmdSeq = r.cmdSeq
        /\ waiting.commands = r.commands /\ waiting.since = r.since /\ waiting.state = "Ready"
    BY DEF Room, RoomState
  <2>3. QED
    BY <1>3, <2>1, <2>2 DEF RoomInv, RosterInv, StateInv, LogInv, FrameInv
<1>4. CASE n > 1 /\ allReady /\ r.state # "Playing"
  <2>1. updateRoomState(r, t) = Started(r, t)
    BY <1>1, <1>4 DEF updateRoomState
  <2>2. QED
    BY <1>4, <2>1, StartedSound
<1>5. CASE n > 1 /\ allReady /\ r.state = "Playing"
  <2>1. updateRoomState(r, t) = r
    BY <1>1, <1>5 DEF updateRoomState
  <2>2. StateInv(r)
    BY <1>1, <1>5 DEF StateInv
  <2>3. QED
    BY <2>1, <2>2 DEF RoomInv
<1>6. QED
  BY <1>1, <1>2, <1>3, <1>4, <1>5

-----------------------------------------------------------------------------
(* Every operation preserves the invariant *)

\* An operation that replaces one room by a sound room with the same members.
LEMMA ReplaceRoom ==
    ASSUME RMInv, NEW id \in DOMAIN rooms, NEW x, RoomInv(x, now),
           x.players = rooms[id].players,
           rooms' = [rooms EXCEPT ![id] = x], UNCHANGED <<playerRoom, now>>
    PROVE  RMInv'
<1>1. DOMAIN rooms' = DOMAIN rooms /\ \A j \in DOMAIN rooms : rooms'[j] = IF j = id THEN x ELSE rooms[j]
  BY DEF RMInv, RMTypeOK
<1>2. RMTypeOK'
  <2>1. x \in Room
    BY DEF RoomInv
  <2>2. QED
    BY <1>1, <2>1 DEF RMInv, RMTypeOK
<1>3. MembershipAgrees'
  BY <1>1 DEF RMInv, MembershipAgrees
<1>4. \A j \in DOMAIN rooms' : RoomInv(rooms'[j], now')
  BY <1>1 DEF RMInv
<1>5. QED
  BY <1>2, <1>3, <1>4 DEF RMInv

\* The room of a player known to the manager is sound.
LEMMA PlayersRoom ==
    ASSUME RMInv, NEW p \in Player, mustGetPlayerRoom(p)
    PROVE  /\ playerRoom[p] \in DOMAIN rooms
           /\ RoomInv(rooms[playerRoom[p]], now)
           /\ p \in rooms[playerRoom[p]].players
           /\ now \in Nat \ {0}
BY BoundsAssumption DEF RMInv, RMTypeOK, MembershipAgrees, mustGetPlayerRoom

\* The manager starts empty.
LEMMA NewManagerInv == NewManager => RMInv
BY BoundsAssumption DEF NewManager, RMInv, RMTypeOK, MembershipAgrees, EmptyMap

\* CreateRoom adds a sound room under an id no room has.
LEMMA CreateRoomInv ==
    ASSUME RMInv, NEW p \in Player, NEW cap \in Int, CreateRoom(p, cap)
    PROVE  RMInv'
<1> DEFINE x == NewRoom(p, cap)
<1>1. now \in Nat \ {0} /\ now' = now + 1 /\ now' \in 1 .. MaxTime /\ now \notin DOMAIN rooms
  BY BoundsAssumption DEF RMInv, RMTypeOK, CreateRoom
<1>2. RoomInv(x, now') /\ x \in Room /\ x.players = {p}
  BY <1>1, NewRoomSound DEF RoomInv
<1>3. /\ DOMAIN rooms' = DOMAIN rooms \cup {now}
      /\ rooms'[now] = x
      /\ \A j \in DOMAIN rooms : rooms'[j] = rooms[j]
      /\ DOMAIN playerRoom' = DOMAIN playerRoom \cup {p}
      /\ playerRoom'[p] = now
      /\ \A q \in DOMAIN playerRoom : playerRoom'[q] = playerRoom[q]
      /\ rooms' = [j \in DOMAIN rooms' |-> rooms'[j]]
      /\ playerRoom' = [q \in DOMAIN playerRoom' |-> playerRoom'[q]]
      /\ p \notin DOMAIN playerRoom
  BY <1>1 DEF CreateRoom, Put
<1>4. RMTypeOK'
  <2>1. DOMAIN rooms' \subseteq 1 .. now' - 1
    BY <1>1, <1>3 DEF RMInv, RMTypeOK
  <2>2. rooms' \in [DOMAIN rooms' -> Room]
    BY <1>2, <1>3 DEF RMInv, RMTypeOK
  <2>3. playerRoom' \in [DOMAIN playerRoom' -> DOMAIN rooms'] /\ DOMAIN playerRoom' \subseteq Player
    BY <1>3 DEF RMInv, RMTypeOK
  <2>4. QED
    BY <1>1, <2>1, <2>2, <2>3 DEF RMTypeOK
<1>5. MembershipAgrees'
  <2> SUFFICES ASSUME NEW q \in Player, NEW j \in DOMAIN rooms'
               PROVE  q \in rooms'[j].players <=> q \in DOMAIN playerRoom' /\ playerRoom'[q] = j
    BY DEF MembershipAgrees
  <2>1. CASE j = now
    <3>1. q \in DOMAIN playerRoom => playerRoom[q] # now
      BY <1>1 DEF RMInv, RMTypeOK
    <3>2. QED
      BY <1>2, <1>3, <2>1, <3>1
  <2>2. CASE j # now
    BY <1>3, <2>2 DEF RMInv, MembershipAgrees
  <2>3. QED
    BY <2>1, <2>2
<1>6. \A j \in DOMAIN rooms' : RoomInv(rooms'[j], now')
  <2>1. \A j \in DOMAIN rooms : RoomInv(rooms[j], now')
    BY <1>1, RoomInvLater DEF RMInv
  <2>2. QED
    BY <1>2, <1>3, <2>1
<1>7. QED
  BY <1>4, <1>5, <1>6 DEF RMInv

\* JoinRoom adds the player to both tables or to none.
LEMMA JoinRoomInv ==
    ASSUME RMInv, NEW p \in Player, NEW id \in DOMAIN rooms, JoinRoom(p, id)
    PROVE  RMInv'
<1> DEFINE r == rooms[id]
           joined == [r EXCEPT !.players = @ \cup {p}]
           x == updateRoomState(joined, now)
<1>1. RoomInv(r, now) /\ r \in Room /\ now \in Nat \ {0} /\ now' = now
  BY BoundsAssumption DEF RMInv, RMTypeOK, RoomInv, JoinRoom
<1>2. /\ joined \in Room
      /\ joined.owner = r.owner /\ joined.players = r.players \cup {p} /\ joined.ready = r.ready
      /\ joined.maxPlayers = r.maxPlayers /\ joined.cmdSeq = r.cmdSeq
      /\ joined.commands = r.commands /\ joined.since = r.since /\ joined.state = r.state
  BY <1>1 DEF Room
<1>3. Cardinality(joined.players) <= joined.maxPlayers
  <2>1. /\ IsFiniteSet(r.players) /\ Cardinality(r.players) \in Nat
        /\ Cardinality(r.players) < r.maxPlayers /\ r.maxPlayers \in Nat
    BY <1>1, PlayersFinite DEF Room, JoinRoom
  <2>2. Cardinality(r.players \cup {p}) <= Cardinality(r.players) + 1
    BY <2>1, FS_AddElement, SMTT(30)
  <2>3. Cardinality(r.players \cup {p}) \in Nat
    BY <1>1, PlayersFinite DEF Room
  <2>4. QED
    BY <1>2, <2>1, <2>2, <2>3
<1>4. RosterInv(joined) /\ LogInv(joined) /\ FrameInv(joined, now)
  BY <1>1, <1>2, <1>3 DEF RoomInv, RosterInv, LogInv, FrameInv
<1>5. RoomInv(x, now) /\ x.players = r.players \cup {p} /\ x \in Room
  BY <1>1, <1>2, <1>4, UpdateSound, ZenonT(60) DEF RoomInv, StateInv
<1>6. /\ DOMAIN rooms' = DOMAIN rooms
      /\ rooms' = [j \in DOMAIN rooms |-> rooms'[j]]
      /\ \A j \in DOMAIN rooms : rooms'[j] = IF j = id THEN x ELSE rooms[j]
      /\ p \notin DOMAIN playerRoom
      /\ DOMAIN playerRoom' = DOMAIN playerRoom \cup {p}
      /\ playerRoom' = [q \in DOMAIN playerRoom' |-> playerRoom'[q]]
      /\ \A q \in DOMAIN playerRoom' : playerRoom'[q] = IF q = p THEN id ELSE playerRoom[q]
  BY DEF JoinRoom, Put, RMInv, RMTypeOK
<1>7. RMTypeOK'
  BY <1>1, <1>5, <1>6 DEF RMInv, RMTypeOK
<1>8. MembershipAgrees'
  <2> HIDE DEF x
  <2> SUFFICES ASSUME NEW q \in Player, NEW j \in DOMAIN rooms
               PROVE  q \in rooms'[j].players <=> q \in DOMAIN playerRoom' /\ playerRoom'[q] = j
    BY <1>6 DEF MembershipAgrees
  <2>1. q \in rooms[j].players <=> q \in DOMAIN playerRoom /\ playerRoom[q] = j
    BY DEF RMInv, MembershipAgrees
  <2>2. rooms'[j].players = IF j = id THEN rooms[j].players \cup {p} ELSE rooms[j].players
    BY <1>5, <1>6
  <2>3. QED
    BY <1>6, <2>1, <2>2
<1>9. \A j \in DOMAIN rooms' : RoomInv(rooms'[j], now')
  BY <1>1, <1>5, <1>6 DEF RMInv
<1>10. QED
  BY <1>7, <1>8, <1>9 DEF RMInv

\* SetReady touches one flag of one member.
LEMMA SetReadyInv ==
    ASSUME RMInv, NEW p \in Player, NEW flag \in BOOLEAN, SetReady(p, flag)
    PROVE  RMInv'
<1> DEFINE id == playerRoom[p]
           r == rooms[id]
           flags == IF flag THEN r.ready \cup {p} ELSE r.ready \ {p}
           s == [r EXCEPT !.ready = flags]
           x == updateRoomState(s, now)
<1>1. id \in DOMAIN rooms /\ RoomInv(r, now) /\ r \in Room /\ p \in r.players /\ now \in Nat \ {0}
  BY PlayersRoom DEF SetReady, RoomInv
<1>2. flags \subseteq r.players /\ flags \in SUBSET Player
  BY <1>1 DEF Room, RoomInv, RosterInv
<1>3. /\ s \in Room
      /\ s.owner = r.owner /\ s.players = r.players /\ s.ready = flags
      /\ s.maxPlayers = r.maxPlayers /\ s.cmdSeq = r.cmdSeq
      /\ s.commands = r.commands /\ s.since = r.since /\ s.state = r.state
  BY <1>1, <1>2 DEF Room
<1>4. RosterInv(s) /\ LogInv(s) /\ FrameInv(s, now)
  BY <1>1, <1>2, <1>3 DEF RoomInv, RosterInv, LogInv, FrameInv
<1>5. RoomInv(x, now) /\ x.players = r.players
  <2> HIDE DEF s, flags
  <2>1. s.state \in {"Idle", "Ready", "Playing"}
    BY <1>1, <1>3 DEF RoomInv, StateInv
  <2>2. QED
    BY <1>1, <1>3, <1>4, <2>1, UpdateSound
<1>6. rooms' = [rooms EXCEPT ![id] = x] /\ UNCHANGED <<playerRoom, now>>
  BY DEF SetReady
<1>7. QED
  BY <1>1, <1>5, <1>6, ReplaceRoom

\* StartGame needs two members, so it never contradicts the roster.
LEMMA StartGameInv ==
    ASSUME RMInv, NEW p \in Player, StartGame(p)
    PROVE  RMInv'
<1> DEFINE id == playerRoom[p]
           r == rooms[id]
<1>1. id \in DOMAIN rooms /\ RoomInv(r, now) /\ r \in Room /\ now \in Nat \ {0}
  BY PlayersRoom DEF StartGame, RoomInv
<1>2. Cardinality(r.players) > 1
  BY <1>1, PlayersFinite DEF StartGame, Room
<1>3. RoomInv(Started(r, now), now) /\ Started(r, now).players = r.players
  BY <1>1, <1>2, StartedSound DEF RoomInv
<1>4. rooms' = [rooms EXCEPT ![id] = Started(r, now)] /\ UNCHANGED <<playerRoom, now>>
  BY DEF StartGame
<1>5. QED
  BY <1>1, <1>3, <1>4, ReplaceRoom

\* LeaveRoom removes the player from both tables, closes an empty room and
\* hands over an owner's.
LEMMA LeaveRoomInv ==
    ASSUME RMInv, NEW p \in Player, LeaveRoom(p)
    PROVE  RMInv'
<1> DEFINE id == playerRoom[p]
           r == rooms[id]
           rest == r.players \ {p}
<1>1. id \in DOMAIN rooms /\ RoomInv(r, now) /\ r \in Room /\ p \in r.players
      /\ now \in Nat \ {0} /\ now' = now
  BY PlayersRoom DEF LeaveRoom, RoomInv
<1>2. /\ p \in DOMAIN playerRoom
      /\ DOMAIN playerRoom' = DOMAIN playerRoom \ {p}
      /\ playerRoom' = [q \in DOMAIN playerRoom' |-> playerRoom'[q]]
      /\ \A q \in DOMAIN playerRoom' : playerRoom'[q] = playerRoom[q]
  BY DEF LeaveRoom, Del, mustGetPlayerRoom
<1>3. CASE rest = {} /\ rooms' = Del(rooms, id)
  <2>1. /\ DOMAIN rooms' = DOMAIN rooms \ {id}
        /\ rooms' = [j \in DOMAIN rooms' |-> rooms'[j]]
        /\ \A j \in DOMAIN rooms' : rooms'[j] = rooms[j]
    BY <1>3 DEF Del
  <2>2. \A q \in DOMAIN playerRoom' : playerRoom[q] # id
    BY <1>1, <1>2, <1>3 DEF RMInv, RMTypeOK, MembershipAgrees
  <2>3. RMTypeOK'
    BY <1>1, <1>2, <2>1, <2>2 DEF RMInv, RMTypeOK
  <2>4. MembershipAgrees'
    BY <1>2, <2>1 DEF RMInv, MembershipAgrees
  <2>5. \A j \in DOMAIN rooms' : RoomInv(rooms'[j], now')
    BY <1>1, <2>1 DEF RMInv
  <2>6. QED
    BY <2>3, <2>4, <2>5 DEF RMInv
<1>4. ASSUME rest # {}, NEW o \in NextOwner(r, p),
             rooms' = [rooms EXCEPT ![id] = updateRoomState(Without(r, p, o), now)]
      PROVE  RMInv'
  <2> DEFINE s == Without(r, p, o)
             x == updateRoomState(s, now)
  <2>1. o \in rest
    BY <1>1, <1>4 DEF NextOwner, RoomInv, RosterInv
  <2>2. /\ s \in Room
        /\ s.owner = o /\ s.players = rest /\ s.ready = r.ready \ {p}
        /\ s.maxPlayers = r.maxPlayers /\ s.cmdSeq = r.cmdSeq
        /\ s.commands = r.commands /\ s.since = r.since /\ s.state = r.state
    BY <1>1, <2>1 DEF Without, Room
  <2>3. Cardinality(rest) <= r.maxPlayers
    <3>1. IsFiniteSet(r.players) /\ Cardinality(r.players) \in Nat /\ r.maxPlayers \in Nat
      BY <1>1, PlayersFinite DEF Room
    <3>2. Cardinality(rest) <= Cardinality(r.players)
      BY <3>1, FS_Subset
    <3>3. Cardinality(rest) \in Nat
      BY <1>1, PlayersFinite DEF Room
    <3>4. QED
      BY <1>1, <3>1, <3>2, <3>3 DEF RoomInv, RosterInv
  <2>4. RosterInv(s) /\ LogInv(s) /\ FrameInv(s, now)
    BY <1>1, <2>1, <2>2, <2>3 DEF RoomInv, RosterInv, LogInv, FrameInv
  <2>5. s.state \in {"Idle", "Ready", "Playing"}
    BY <1>1, <2>2 DEF RoomInv, StateInv
  <2> HIDE DEF s
  <2>6. RoomInv(x, now) /\ x.players = rest /\ x \in Room
    BY <1>1, <2>2, <2>4, <2>5, UpdateSound DEF RoomInv
  <2>7. /\ DOMAIN rooms' = DOMAIN rooms
        /\ rooms' = [j \in DOMAIN rooms |-> rooms'[j]]
        /\ \A j \in DOMAIN rooms : rooms'[j] = IF j = id THEN x ELSE rooms[j]
    BY <1>4 DEF RMInv, RMTypeOK, s
  <2> HIDE DEF x
  <2>8. RMTypeOK'
    BY <1>1, <1>2, <2>6, <2>7 DEF RMInv, RMTypeOK
  <2>9. MembershipAgrees'
    <3> SUFFICES ASSUME NEW q \in Player, NEW j \in DOMAIN rooms
                 PROVE  q \in rooms'[j].players <=> q \in DOMAIN playerRoom' /\ playerRoom'[q] = j
      BY <2>7 DEF MembershipAgrees
    <3>1. q \in rooms[j].players <=> q \in DOMAIN playerRoom /\ playerRoom[q] = j
      BY DEF RMInv, MembershipAgrees
    <3>2. rooms'[j].players = IF j = id THEN rooms[j].players \ {p} ELSE rooms[j].players
      BY <2>6, <2>7
    <3>3. QED
      BY <1>2, <3>1, <3>2
  <2>10. \A j \in DOMAIN rooms' : RoomInv(rooms'[j], now')
    BY <1>1, <2>6, <2>7 DEF RMInv
  <2>11. QED
    BY <2>8, <2>9, <2>10 DEF RMInv
<1>5. QED
  BY <1>3, <1>4 DEF LeaveRoom

\* Trimming keeps the end of a sequence: all of it, or its last LogCap items.
LEMMA TrimKeepsEnd ==
    ASSUME NEW S, NEW s \in Seq(S)
    PROVE  /\ Trim(s) \in Seq(S)
           /\ Len(Trim(s)) = IF Len(s) <= LogCap THEN Len(s) ELSE LogCap
           /\ \A i \in 1 .. Len(Trim(s)) : Trim(s)[i] = s[Len(s) - Len(Trim(s)) + i]
<1>1. Len(s) \in Nat
  BY LenProperties
<1>2. CASE Len(s) > LogCap
  <2> DEFINE m == Len(s) - LogCap + 1
  <2>1. m \in 1 .. Len(s) + 1 /\ Len(s) \in m - 1 .. Len(s)
    BY <1>1, <1>2, LogCapAssumption
  <2>2. /\ SubSeq(s, m, Len(s)) \in Seq(S)
        /\ Len(SubSeq(s, m, Len(s))) = Len(s) - m + 1
        /\ \A i \in 1 .. Len(s) - m + 1 : SubSeq(s, m, Len(s))[i] = s[m + i - 1]
    BY <1>1, <2>1, LogCapAssumption, SubSeqProperties
  <2>3. Trim(s) = SubSeq(s, m, Len(s))
    BY <1>2 DEF Trim
  <2>4. QED
    BY <1>1, <1>2, <2>2, <2>3, LogCapAssumption
<1>3. CASE ~(Len(s) > LogCap)
  BY <1>1, <1>3, LogCapAssumption DEF Trim
<1>4. QED
  BY <1>2, <1>3

\* SubmitInput extends the tail of the log by the next sequence number, at a
\* frame no earlier than any logged before.
LEMMA SubmitInputInv ==
    ASSUME RMInv, NEW p \in Player, SubmitInput(p)
    PROVE  RMInv'
<1> DEFINE id == playerRoom[p]
           r == rooms[id]
           f == (now - r.since) \div FrameTick
           ev == [seq |-> r.cmdSeq + 1, frame |-> f, player |-> p]
           long == Append(r.commands, ev)
           short == Trim(long)
           x == [r EXCEPT !.cmdSeq = @ + 1, !.commands = short]
<1>1. id \in DOMAIN rooms /\ RoomInv(r, now) /\ r \in Room /\ now \in Nat \ {0}
  BY PlayersRoom DEF SubmitInput, RoomInv
<1>2. /\ r.state = "Playing" /\ r.since # 0 /\ r.since \in Nat /\ r.since <= now
      /\ r.cmdSeq \in Nat /\ r.commands \in Seq(Event)
  BY <1>1 DEF SubmitInput, RoomInv, FrameInv, Room
<1>3. f \in Nat /\ currentFrame(r, now) = f
  <2>1. now - r.since \in Nat
    BY <1>1, <1>2
  <2>2. QED
    BY <1>2, <2>1, DivMonotone, FrameTickAssumption DEF currentFrame
<1>4. rooms' = [rooms EXCEPT ![id] = x] /\ UNCHANGED <<playerRoom, now>>
  BY <1>1, <1>3 DEF SubmitInput
<1>5. ev \in Event
  BY <1>2, <1>3 DEF Event
<1> HIDE DEF f
<1>6. /\ long \in Seq(Event) /\ Len(long) = Len(r.commands) + 1
      /\ \A i \in 1 .. Len(r.commands) : long[i] = r.commands[i]
      /\ long[Len(r.commands) + 1] = ev
      /\ Len(r.commands) \in Nat
  BY <1>2, <1>5, AppendProperties, LenProperties
<1>7. /\ short \in Seq(Event)
      /\ Len(short) = IF Len(long) <= LogCap THEN Len(long) ELSE LogCap
      /\ \A i \in 1 .. Len(short) : short[i] = long[Len(long) - Len(short) + i]
  BY <1>6, TrimKeepsEnd
<1>8. Len(short) \in Nat /\ Len(long) \in Nat /\ Len(short) <= Len(long) /\ Len(short) # 0
  BY <1>6, <1>7, LogCapAssumption
<1> HIDE DEF ev, long, short
<1>9. /\ x \in Room
      /\ x.owner = r.owner /\ x.players = r.players /\ x.ready = r.ready
      /\ x.maxPlayers = r.maxPlayers /\ x.cmdSeq = r.cmdSeq + 1
      /\ x.commands = short /\ x.since = r.since /\ x.state = r.state
  <2>1. r \in Room /\ r.cmdSeq + 1 \in Nat /\ short \in Seq(Event)
    BY <1>1, <1>2, <1>7
  <2> DEFINE n == r.cmdSeq + 1
  <2>2. x = [r EXCEPT !.cmdSeq = n, !.commands = short]
    OBVIOUS
  <2>3. n \in Nat
    BY <2>1
  <2> HIDE DEF r, x, n
  <2>4. /\ x \in Room
        /\ x.owner = r.owner /\ x.players = r.players /\ x.ready = r.ready
        /\ x.maxPlayers = r.maxPlayers /\ x.cmdSeq = n
        /\ x.commands = short /\ x.since = r.since /\ x.state = r.state
    BY <2>1, <2>2, <2>3 DEF Room
  <2>5. QED
    BY <2>4 DEF n
<1> HIDE DEF x
<1>10. RosterInv(x) /\ StateInv(x)
  BY <1>1, <1>9 DEF RoomInv, RosterInv, StateInv
<1>11. LogInv(x)
  <2>1. \A i \in 1 .. Len(long) : long[i].seq = r.cmdSeq + 1 - Len(long) + i
    <3> TAKE i \in 1 .. Len(long)
    <3>1. CASE i = Len(long)
      BY <1>2, <1>6, <3>1 DEF ev
    <3>2. CASE i # Len(long)
      <4>1. i \in 1 .. Len(r.commands) /\ long[i] = r.commands[i]
        BY <1>6, <3>2
      <4>2. r.commands[i].seq = r.cmdSeq - Len(r.commands) + i
        BY <1>1, <4>1 DEF RoomInv, LogInv
      <4>3. QED
        BY <1>2, <1>6, <4>1, <4>2
    <3>3. QED
      BY <3>1, <3>2
  <2>2. Len(r.commands) = IF r.cmdSeq <= LogCap THEN r.cmdSeq ELSE LogCap
    BY <1>1 DEF RoomInv, LogInv
  <2>3. Len(short) = IF r.cmdSeq + 1 <= LogCap THEN r.cmdSeq + 1 ELSE LogCap
    BY <1>2, <1>6, <1>7, <2>2, LogCapAssumption
  <2>4. \A i \in 1 .. Len(short) : short[i].seq = r.cmdSeq + 1 - Len(short) + i
    <3> TAKE i \in 1 .. Len(short)
    <3> DEFINE k == Len(long) - Len(short) + i
    <3>1. k \in 1 .. Len(long)
      BY <1>8
    <3>2. short[i] = long[k]
      BY <1>7
    <3>3. long[k].seq = r.cmdSeq + 1 - Len(long) + k
      BY <2>1, <3>1
    <3>4. r.cmdSeq + 1 - Len(long) + k = r.cmdSeq + 1 - Len(short) + i
      BY <1>2, <1>8
    <3>5. QED
      BY <3>2, <3>3, <3>4
  <2>5. QED
    <3>1. x.cmdSeq = r.cmdSeq + 1 /\ x.commands = short
      BY <1>9
    <3>2. Len(x.commands) = IF x.cmdSeq <= LogCap THEN x.cmdSeq ELSE LogCap
      BY <2>3, <3>1
    <3>3. \A i \in 1 .. Len(x.commands) : x.commands[i].seq = x.cmdSeq - Len(x.commands) + i
      BY <1>2, <1>8, <2>4, <3>1
    <3>4. QED
      BY <3>2, <3>3 DEF LogInv
<1>12. FrameInv(x, now)
  <2>1. \A i \in 1 .. Len(long) : long[i].frame <= f /\ long[i].frame \in Nat
    <3> TAKE i \in 1 .. Len(long)
    <3>1. CASE i = Len(long)
      BY <1>3, <1>6, <3>1 DEF ev
    <3>2. CASE i # Len(long)
      <4>1. i \in 1 .. Len(r.commands) /\ long[i] = r.commands[i]
        BY <1>6, <3>2
      <4>2. QED
        BY <1>1, <1>2, <4>1, CommandFrames DEF RoomInv, FrameInv, f
    <3>3. QED
      BY <3>1, <3>2
  <2>2. \A i \in 1 .. Len(long) - 1 : long[i].frame <= long[i + 1].frame
    <3> TAKE i \in 1 .. Len(long) - 1
    <3>1. i \in 1 .. Len(r.commands) /\ long[i] = r.commands[i]
      BY <1>6
    <3>2. CASE i = Len(r.commands)
      BY <1>6, <2>1, <3>1, <3>2 DEF ev
    <3>3. CASE i # Len(r.commands)
      <4>1. i \in 1 .. Len(r.commands) - 1 /\ i + 1 \in 1 .. Len(r.commands)
        BY <1>6, <3>1, <3>3
      <4>2. r.commands[i].frame <= r.commands[i + 1].frame
        BY <1>1, <4>1 DEF RoomInv, FrameInv
      <4>3. QED
        BY <1>6, <3>1, <4>1, <4>2
    <3>4. QED
      BY <3>2, <3>3
  <2>3. \A i \in 1 .. Len(short) : short[i].frame <= f
    <3> TAKE i \in 1 .. Len(short)
    <3>1. Len(long) - Len(short) + i \in 1 .. Len(long)
      BY <1>8
    <3>2. QED
      BY <1>7, <2>1, <3>1
  <2>4. \A i \in 1 .. Len(short) - 1 : short[i].frame <= short[i + 1].frame
    <3> TAKE i \in 1 .. Len(short) - 1
    <3> DEFINE k == Len(long) - Len(short) + i
    <3>1. k \in 1 .. Len(long) - 1 /\ k + 1 = Len(long) - Len(short) + (i + 1)
      BY <1>8
    <3>2. i \in 1 .. Len(short) /\ i + 1 \in 1 .. Len(short)
      BY <1>8
    <3>3. short[i] = long[k] /\ short[i + 1] = long[k + 1]
      BY <1>7, <3>1, <3>2
    <3>4. QED
      BY <2>2, <3>1, <3>3
  <2>5. QED
    BY <1>2, <1>9, <2>3, <2>4 DEF FrameInv, f
<1>13. QED
  BY <1>1, <1>4, <1>9, <1>10, <1>11, <1>12, ReplaceRoom DEF RoomInv

\* The clock moving on touches no table.
LEMMA TickInv == ASSUME RMInv, Tick PROVE RMInv'
<1>1. now \in Nat \ {0} /\ now' = now + 1 /\ now' \in 1 .. MaxTime
      /\ UNCHANGED <<rooms, playerRoom>>
  BY BoundsAssumption DEF Tick, RMInv, RMTypeOK
<1>2. RMTypeOK' /\ MembershipAgrees'
  BY <1>1 DEF RMInv, RMTypeOK, MembershipAgrees
<1>3. \A j \in DOMAIN rooms' : RoomInv(rooms'[j], now')
  BY <1>1, RoomInvLater DEF RMInv
<1>4. QED
  BY <1>2, <1>3 DEF RMInv

\* The invariant is inductive.
LEMMA RMInvInductive == RMInv /\ [RMNext]_rmvars => RMInv'
<1> SUFFICES ASSUME RMInv, [RMNext]_rmvars PROVE RMInv'
  OBVIOUS
<1>1. ASSUME NEW p \in Player, NEW cap \in Capacities, CreateRoom(p, cap) PROVE RMInv'
  BY <1>1, CreateRoomInv, CapacitiesAssumption
<1>2. ASSUME NEW p \in Player, NEW id \in DOMAIN rooms, JoinRoom(p, id) PROVE RMInv'
  BY <1>2, JoinRoomInv
<1>3. ASSUME NEW p \in Player, NEW flag \in BOOLEAN, SetReady(p, flag) PROVE RMInv'
  BY <1>3, SetReadyInv
<1>4. ASSUME NEW p \in Player, StartGame(p) PROVE RMInv'
  BY <1>4, StartGameInv
<1>5. ASSUME NEW p \in Player, LeaveRoom(p) PROVE RMInv'
  BY <1>5, LeaveRoomInv
<1>6. ASSUME NEW p \in Player, SubmitInput(p) PROVE RMInv'
  BY <1>6, SubmitInputInv
<1>7. CASE Tick
  BY <1>7, TickInv
<1>8. CASE UNCHANGED rmvars
  BY <1>8 DEF rmvars, RMInv, RMTypeOK, MembershipAgrees, RoomInv
<1>9. QED
  BY <1>1, <1>2, <1>3, <1>4, <1>5, <1>6, <1>7, <1>8 DEF RMNext

\* Every state the manager reaches is sound.
LEMMA RMInvAlways == RMSpec => []RMInv
<1>1. NewManager => RMInv
  BY NewManagerInv
<1>2. RMInv /\ [RMNext]_rmvars => RMInv'
  BY RMInvInductive
<1>3. QED
  BY <1>1, <1>2, PTL DEF RMSpec

-----------------------------------------------------------------------------
(* The properties *)

\* Types are kept, and ids are never reused (CreateRoom).
THEOREM TypeCorrect == RMSpec => []RMTypeOK
<1>1. RMInv => RMTypeOK
  BY DEF RMInv
<1>2. QED
  BY <1>1, RMInvAlways, PTL

\* rooms and playerRoom agree whatever players do in whatever order.
THEOREM MembershipSafe == RMSpec => []MembershipAgrees
<1>1. RMInv => MembershipAgrees
  BY DEF RMInv
<1>2. QED
  BY <1>1, RMInvAlways, PTL

\* No room is empty, overfull or owned by an outsider.
THEOREM TendedSafe == RMSpec => []RoomsAreTended
<1>1. RMInv => RoomsAreTended
  BY DEF RMInv, RoomInv, RosterInv, RoomsAreTended
<1>2. QED
  BY <1>1, RMInvAlways, PTL

\* The state of a room always matches its roster and its ready flags.
THEOREM StateSafe == RMSpec => []StateFollowsRoster
<1>1. RMInv => StateFollowsRoster
  BY DEF RMInv, RoomInv, StateInv, StateFollowsRoster
<1>2. QED
  BY <1>1, RMInvAlways, PTL

\* For every log length the log is the unbroken tail of the command sequence.
THEOREM LogSafe == RMSpec => []LogKeepsTail
<1>1. RMInv => LogKeepsTail
  BY DEF RMInv, RoomInv, LogInv, LogKeepsTail
<1>2. QED
  BY <1>1, RMInvAlways, PTL

\* The replies that PullInputs builds, after each command of the log.
Pulls(events, r, lastSeq) ==
    /\ events[0] = <<>>
    /\ \A n \in 1 .. Len(r.commands) :
          /\ events[n - 1] \in Seq(Event)
          /\ events[n] = IF r.commands[n].seq > lastSeq THEN Append(events[n - 1], r.commands[n])
                         ELSE events[n - 1]
    /\ events[Len(r.commands)] \in Seq(Event)
    /\ PullInputs(r, lastSeq) = events[Len(r.commands)]

LEMMA PullsExist ==
    ASSUME NEW r \in Room, NEW lastSeq \in Nat
    PROVE  \E events : Pulls(events, r, lastSeq)
<1>1. PICK log \in Seq(Event) : log = r.commands
  BY DEF Room
<1>2. PICK k \in Nat : k = Len(log)
  BY LenProperties
<1>3. PICK V : V = Seq(Event)
  OBVIOUS
<1> DEFINE Pull(reply, n) == IF log[n].seq > lastSeq THEN Append(reply, log[n]) ELSE reply
           events[n \in 0 .. k] == IF n = 0 THEN <<>> ELSE Pull(events[n - 1], n)
<1>4. PullInputs(r, lastSeq) = events[k]
  BY <1>1, <1>2 DEF PullInputs
<1>5. \A n \in 1 .. k, reply \in V : Pull(reply, n) \in V
  <2>1. TAKE n \in 1 .. k, reply \in V
  <2>2. log[n] \in Event
    BY <1>2, ElementOfSeq
  <2>3. Append(reply, log[n]) \in Seq(Event)
    BY <1>3, <2>2, AppendProperties
  <2>4. QED
    BY <1>3, <2>3
<1> HIDE DEF Pull
<1>6. PICK step : step = [n \in 1 .. k |-> [reply \in V |-> Pull(reply, n)]]
  OBVIOUS
<1>7. \A n \in 1 .. k : step[n] \in [V -> V] /\ \A reply \in V : step[n][reply] = Pull(reply, n)
  BY <1>5, <1>6
<1>8. step \in Steps(k, V)
  BY <1>6, <1>7 DEF Steps
<1>9. <<>> \in V
  BY <1>3, EmptySeq
<1>10. PICK f : Runs(f, k, V, <<>>, step)
  BY <1>8, <1>9, RecursionExists
<1>11. f = [n \in 0 .. k |-> IF n = 0 THEN <<>> ELSE Pull(f[n - 1], n)]
  <2>1. \A n \in 0 .. k : n # 0 => n \in 1 .. k /\ n - 1 \in 0 .. k
    OBVIOUS
  <2>2. \A n \in 0 .. k : f[n] = IF n = 0 THEN <<>> ELSE Pull(f[n - 1], n)
    BY <1>7, <1>10, <2>1 DEF Runs
  <2>3. QED
    BY <1>10, <2>2 DEF Runs
<1>12. events = [n \in 0 .. k |-> IF n = 0 THEN <<>> ELSE Pull(events[n - 1], n)]
  BY <1>11
<1> HIDE DEF events
<1>13. PICK g : g = events
  OBVIOUS
<1>14. \A n \in 0 .. k : g[n] = IF n = 0 THEN <<>> ELSE Pull(g[n - 1], n)
  BY <1>12, <1>13
<1>15. 0 \in 0 .. k /\ k \in 0 .. k /\ \A n \in 1 .. k : n \in 0 .. k /\ n # 0 /\ n - 1 \in 0 .. k
  OBVIOUS
<1>16. g[0] = <<>> /\ \A n \in 1 .. k : g[n - 1] \in V => g[n] = step[n][g[n - 1]]
  BY <1>7, <1>14, <1>15
<1>17. \A n \in 0 .. k : g[n] = f[n]
  BY <1>10, <1>16, RecursionUnique
<1>18. \A n \in 0 .. k : g[n] \in V
  BY <1>10, <1>17 DEF Runs
<1>19. \A n \in 1 .. k : g[n] = IF log[n].seq > lastSeq THEN Append(g[n - 1], log[n]) ELSE g[n - 1]
  BY <1>14, <1>15 DEF Pull
<1>20. Pulls(g, r, lastSeq)
  BY <1>1, <1>2, <1>3, <1>4, <1>13, <1>15, <1>16, <1>18, <1>19 DEF Pulls
<1>21. QED
  BY <1>20

\* What PullInputs returns is the end of the log from the command asked for.
LEMMA PullsTheRest ==
    ASSUME NEW r \in Room, LogInv(r), NEW last \in 0 .. r.cmdSeq, r.cmdSeq - last <= LogCap
    PROVE  LET got == PullInputs(r, last)
           IN  /\ Len(got) = r.cmdSeq - last
               /\ \A i \in 1 .. Len(got) : got[i].seq = last + i
<1>1. PICK log \in Seq(Event), top \in Nat : log = r.commands /\ top = r.cmdSeq
  BY DEF Room
<1>2. PICK k \in Nat : k = Len(log)
  BY LenProperties
<1>3. PICK skip \in 0 .. k : skip = last - (top - k) /\ top - last = k - skip
  <2>1. /\ last \in Nat /\ last <= top /\ top - last <= LogCap
        /\ k = IF top <= LogCap THEN top ELSE LogCap
    BY <1>1, <1>2 DEF LogInv
  <2>2. last - (top - k) \in 0 .. k /\ top - last = k - (last - (top - k))
    BY <2>1, LogCapAssumption
  <2>3. QED
    BY <2>2
<1>4. \A n \in 1 .. k : log[n].seq = last + (n - skip)
  BY <1>1, <1>2, <1>3, SMTT(30) DEF LogInv
<1>5. PICK events : Pulls(events, r, last)
  BY <1>1, PullsExist
<1>6. /\ events[0] = <<>>
      /\ \A n \in 1 .. k : /\ events[n - 1] \in Seq(Event)
                           /\ events[n] = IF log[n].seq > last THEN Append(events[n - 1], log[n])
                                          ELSE events[n - 1]
      /\ PullInputs(r, last) = events[k]
  BY <1>1, <1>2, <1>5 DEF Pulls
<1>7. PICK size : size = [n \in 0 .. k |-> IF n <= skip THEN 0 ELSE n - skip]
  OBVIOUS
<1>8. \A n \in 0 .. k : size[n] \in Nat /\ (n <= skip => size[n] = 0) /\ (skip <= n => size[n] = n - skip)
  BY <1>7
<1> DEFINE T == {n \in 0 .. k : /\ Len(events[n]) = size[n]
                                /\ \A i \in 1 .. size[n] : events[n][i].seq = last + i}
<1>9. 0 \in T
  <2>1. size[0] = 0 /\ Len(events[0]) = 0
    BY <1>6, <1>8, EmptySeq
  <2>2. QED
    BY <2>1
<1>10. ASSUME NEW n \in 0 .. k - 1, n \in T
      PROVE  n + 1 \in T
  <2>1. PICK m \in 1 .. k : m = n + 1 /\ m - 1 = n /\ m \in 0 .. k /\ n \in 0 .. k
    OBVIOUS
  <2>2. PICK before, after : before = events[n] /\ after = events[m]
    OBVIOUS
  <2>3. /\ before \in Seq(Event)
        /\ after = IF log[m].seq > last THEN Append(before, log[m]) ELSE before
        /\ log[m].seq = last + (m - skip)
    BY <1>4, <1>6, <2>1, <2>2
  <2>4. Len(before) = size[n] /\ \A i \in 1 .. size[n] : before[i].seq = last + i
    BY <1>10, <2>2
  <2>5. CASE m <= skip
    <3>1. after = before
      BY <1>1, <2>3, <2>5
    <3>2. size[n] = 0 /\ size[m] = 0
      BY <1>8, <2>1, <2>5
    <3>3. m \in T
      BY <2>1, <2>2, <2>4, <3>1, <3>2
    <3>4. QED
      BY <2>1, <3>3
  <2>6. CASE ~(m <= skip)
    <3>1. PICK j \in Nat : j = size[n] /\ size[m] = j + 1 /\ m - skip = j + 1
      <4>1. skip <= n /\ skip <= m /\ n - skip \in Nat
        BY <2>1, <2>6
      <4>2. size[n] = n - skip /\ size[m] = m - skip
        BY <1>8, <2>1, <4>1
      <4>3. QED
        BY <2>1, <4>1, <4>2
    <3>2. after = Append(before, log[m]) /\ log[m].seq = last + (j + 1)
      BY <1>1, <2>3, <3>1
    <3>3. Len(after) = j + 1 /\ after[j + 1] = log[m] /\ \A i \in 1 .. j : after[i] = before[i]
      <4>1. log[m] \in Event
        BY <1>2, ElementOfSeq
      <4>2. QED
        BY <2>3, <2>4, <3>1, <3>2, <4>1, AppendProperties
    <3>4. \A i \in 1 .. j + 1 : after[i].seq = last + i
      <4>1. TAKE i \in 1 .. j + 1
      <4>2. i \in 1 .. j \/ i = j + 1
        OBVIOUS
      <4>3. QED
        BY <2>4, <3>1, <3>2, <3>3, <4>2
    <3>5. m \in T
      BY <2>1, <2>2, <3>1, <3>3, <3>4
    <3>6. QED
      BY <2>1, <3>5
  <2>7. QED
    BY <2>5, <2>6
<1>11. 0 .. k \subseteq T
  BY <1>9, <1>10, Induction
<1>12. k \in T /\ size[k] = k - skip
  BY <1>11, <1>8
<1>13. QED
  BY <1>1, <1>3, <1>6, <1>12

\* For every log length, a client that is not too far behind is sent every
\* command it has not seen, once and in order (PullInputs, SubmitInput).
THEOREM PollsSafe == RMSpec => []PollsMissNothing
<1>1. RMInv => PollsMissNothing
  <2> SUFFICES ASSUME RMInv, NEW id \in DOMAIN rooms, NEW last \in 0 .. rooms[id].cmdSeq,
                      rooms[id].cmdSeq - last <= LogCap
               PROVE  LET got == PullInputs(rooms[id], last)
                      IN  /\ Len(got) = rooms[id].cmdSeq - last
                          /\ \A i \in 1 .. Len(got) : got[i].seq = last + i
    BY DEF PollsMissNothing
  <2>1. rooms[id] \in Room /\ LogInv(rooms[id])
    BY DEF RMInv, RoomInv
  <2>2. QED
    BY <2>1, PullsTheRest
<1>2. QED
  BY <1>1, RMInvAlways, PTL

\* For every frame length, frames grow along the log and never pass the
\* present frame.
THEOREM FramesSafe == RMSpec => []FramesFollowSeq
<1>1. RMInv => FramesFollowSeq
  <2> SUFFICES ASSUME RMInv, NEW id \in DOMAIN rooms
               PROVE  LET r == rooms[id]
                      IN  /\ \A i \in 1 .. Len(r.commands) - 1 :
                                r.commands[i].frame <= r.commands[i + 1].frame
                          /\ r.state = "Playing" =>
                                \A i \in 1 .. Len(r.commands) :
                                    r.commands[i].frame <= currentFrame(r, now)
    BY DEF FramesFollowSeq
  <2>1. FrameInv(rooms[id], now)
    BY DEF RMInv, RoomInv
  <2>2. QED
    BY <2>1 DEF FrameInv, currentFrame
<1>2. QED
  BY <1>1, RMInvAlways, PTL

-----------------------------------------------------------------------------
(* The manager implements the directory *)

\* Where the manager's tables place a player, and whom they name as host.
Place(p) == IF p \in DOMAIN playerRoom THEN playerRoom[p] ELSE Nowhere
WhereMap == [p \in Player |-> Place(p)]
HostMap == [id \in DOMAIN rooms |-> rooms[id].owner]

\* The directory's view of who is inside a room is the room's own roster.
LEMMA InsideIsRoster ==
    ASSUME RMInv, NEW id \in DOMAIN rooms
    PROVE  {p \in Player : WhereMap[p] = id} = rooms[id].players
<1>1. id # Nowhere /\ rooms[id].players \subseteq Player
  BY DEF RMInv, RMTypeOK, Nowhere, Room
<1>2. QED
  BY <1>1 DEF RMInv, MembershipAgrees, WhereMap, Place

\* Replacing a room by one with the same owner is invisible.
LEMMA SameOwnerStutters ==
    ASSUME RMInv, NEW id \in DOMAIN rooms, NEW x, x.owner = rooms[id].owner,
           rooms' = [rooms EXCEPT ![id] = x], UNCHANGED <<playerRoom, now>>
    PROVE  UNCHANGED <<WhereMap, HostMap, 1 .. now - 1>>
<1>1. HostMap' = HostMap
  BY DEF HostMap, RMInv, RMTypeOK
<1>2. WhereMap' = WhereMap
  BY DEF WhereMap, Place
<1>3. QED
  BY <1>1, <1>2

\* Opening a room.
LEMMA CreateRoomOpens ==
    ASSUME RMInv, NEW p \in Player, NEW cap \in Int, CreateRoom(p, cap),
           NEW id, id = now
    PROVE  Directory!Open(p, id)
<1>1. id \in 1 .. MaxTime /\ now' = id + 1 /\ id \notin DOMAIN rooms
      /\ p \notin DOMAIN playerRoom
  BY BoundsAssumption DEF RMInv, RMTypeOK, CreateRoom
<1>2. WhereMap[p] = Nowhere /\ WhereMap' = [WhereMap EXCEPT ![p] = id]
  BY <1>1 DEF WhereMap, Place, CreateRoom, Put
<1>3. HostMap' = Put(HostMap, id, p)
  <2>1. DOMAIN rooms' = DOMAIN rooms \cup {id}
    BY DEF CreateRoom, Put
  <2>2. \A j \in DOMAIN rooms' : rooms'[j].owner = IF j = id THEN p ELSE HostMap[j]
    BY <1>1 DEF CreateRoom, Put, NewRoom, HostMap
  <2>3. QED
    BY <2>1, <2>2 DEF HostMap, Put
<1>4. id \notin 1 .. now - 1 /\ (1 .. now - 1) \cup {id} \subseteq 1 .. now' - 1
  BY <1>1, BoundsAssumption
<1>5. QED
  BY <1>2, <1>3, <1>4 DEF Directory!Open, WhereMap, HostMap, Place, Put, Directory!Put

\* Entering one.
LEMMA JoinRoomEnters ==
    ASSUME RMInv, NEW p \in Player, NEW id \in DOMAIN rooms, JoinRoom(p, id)
    PROVE  Directory!Enter(p, id) /\ id \in 1 .. MaxTime
<1> DEFINE joined == [rooms[id] EXCEPT !.players = @ \cup {p}]
           x == updateRoomState(joined, now)
<1>1. p \notin DOMAIN playerRoom /\ now' = now /\ id \in 1 .. MaxTime /\ rooms[id] \in Room
  BY BoundsAssumption DEF RMInv, RMTypeOK, JoinRoom
<1>2. WhereMap[p] = Nowhere /\ WhereMap' = [WhereMap EXCEPT ![p] = id]
  BY <1>1 DEF WhereMap, Place, JoinRoom, Put
<1>3. x.owner = rooms[id].owner
  BY <1>1 DEF updateRoomState, Started, Room
<1>4. HostMap' = HostMap
  BY <1>3 DEF JoinRoom, HostMap, RMInv, RMTypeOK
<1>5. QED
  BY <1>1, <1>2, <1>4 DEF Directory!Enter, WhereMap, HostMap, Place

\* Leaving one, with its three outcomes for the host.
LEMMA LeaveRoomExits ==
    ASSUME RMInv, NEW p \in Player, LeaveRoom(p)
    PROVE  Directory!Exit(p)
<1> DEFINE id == playerRoom[p]
           r == rooms[id]
           rest == r.players \ {p}
<1>1. id \in DOMAIN rooms /\ r \in Room /\ p \in DOMAIN playerRoom /\ now' = now
      /\ id # Nowhere /\ WhereMap[p] = id
  BY BoundsAssumption DEF RMInv, RMTypeOK, LeaveRoom, mustGetPlayerRoom, Nowhere, WhereMap, Place
<1>2. WhereMap' = [WhereMap EXCEPT ![p] = Nowhere]
  BY <1>1 DEF WhereMap, Place, LeaveRoom, Del
<1>3. {q \in Player : WhereMap[q] = id} = r.players
  BY <1>1, InsideIsRoster
<1>4. HostMap[id] = r.owner
  BY <1>1 DEF HostMap
<1>5. \/ rest = {} /\ HostMap' = Del(HostMap, id)
      \/ rest # {} /\ r.owner = p /\ \E h \in rest : HostMap' = [HostMap EXCEPT ![id] = h]
      \/ rest # {} /\ r.owner # p /\ HostMap' = HostMap
  <2>1. CASE rest = {} /\ rooms' = Del(rooms, id)
    BY <2>1 DEF HostMap, Del
  <2>2. ASSUME rest # {}, NEW o \in NextOwner(r, p),
               rooms' = [rooms EXCEPT ![id] = updateRoomState(Without(r, p, o), now)]
        PROVE  \/ rest # {} /\ r.owner = p /\ \E h \in rest : HostMap' = [HostMap EXCEPT ![id] = h]
               \/ rest # {} /\ r.owner # p /\ HostMap' = HostMap
    <3> DEFINE s == Without(r, p, o)
               x == updateRoomState(s, now)
    <3>1. o \in Player
      BY <1>1 DEF NextOwner, Room
    <3>2. s \in Room /\ s.owner = o
      BY <1>1, <3>1 DEF Without, Room
    <3> HIDE DEF s
    <3>3. x.owner = o
      BY <3>2 DEF updateRoomState, Started, Room
    <3>4. rooms' = [rooms EXCEPT ![id] = x]
      BY <2>2 DEF s
    <3> HIDE DEF x
    <3>5. HostMap' = [HostMap EXCEPT ![id] = o]
      BY <1>1, <3>3, <3>4 DEF HostMap, RMInv, RMTypeOK
    <3>6. CASE r.owner = p
      BY <2>2, <3>5, <3>6 DEF NextOwner
    <3>7. CASE r.owner # p
      <4>1. o = r.owner
        BY <3>7 DEF NextOwner
      <4>2. HostMap' = HostMap
        BY <1>1, <3>5, <4>1 DEF HostMap
      <4>3. QED
        BY <2>2, <3>7, <4>2
    <3>8. QED
      BY <3>6, <3>7
  <2>3. QED
    BY <2>1, <2>2 DEF LeaveRoom
<1>6. QED
  BY <1>1, <1>2, <1>3, <1>4, <1>5
  DEF Directory!Exit, Directory!Inside, WhereMap, HostMap, Place, Del, Directory!Del

LEMMA EmptyDirectory == NewManager => Directory!DirInit
BY DEF NewManager, EmptyMap, Directory!DirInit, Directory!EmptyMap, Nowhere

\* Every step of the manager, whatever capacity is asked for, is a step of the
\* directory or leaves it alone.
LEMMA ManagerSteps ==
    ASSUME RMInv,
           [RMNext]_rmvars \/ \E p \in Player, cap \in Int : CreateRoom(p, cap)
    PROVE  Directory!DirNext \/ UNCHANGED Directory!dvars
<1>1. ASSUME NEW p \in Player, NEW cap \in Int, CreateRoom(p, cap)
      PROVE  Directory!DirNext
  <2>1. PICK id \in 1 .. MaxTime : id = now
    BY DEF RMInv, RMTypeOK
  <2>2. Directory!Open(p, id)
    BY <1>1, <2>1, CreateRoomOpens
  <2>3. QED
    BY <2>2 DEF Directory!DirNext
<1>2. ASSUME NEW p \in Player, NEW id \in DOMAIN rooms, JoinRoom(p, id)
      PROVE  Directory!DirNext
  BY <1>2, JoinRoomEnters DEF Directory!DirNext
<1>3. ASSUME NEW p \in Player, LeaveRoom(p) PROVE Directory!DirNext
  BY <1>3, LeaveRoomExits DEF Directory!DirNext
<1>4. ASSUME NEW p \in Player, mustGetPlayerRoom(p), NEW x,
             x.owner = rooms[playerRoom[p]].owner,
             rooms' = [rooms EXCEPT ![playerRoom[p]] = x], UNCHANGED <<playerRoom, now>>
      PROVE  UNCHANGED Directory!dvars
  BY <1>4, SameOwnerStutters
  DEF mustGetPlayerRoom, Directory!dvars, WhereMap, HostMap, Place
<1>5. ASSUME NEW p \in Player, NEW flag \in BOOLEAN, SetReady(p, flag)
      PROVE  UNCHANGED Directory!dvars
  <2> DEFINE r == rooms[playerRoom[p]]
             s == [r EXCEPT !.ready = IF flag THEN @ \cup {p} ELSE @ \ {p}]
             x == updateRoomState(s, now)
  <2>1. mustGetPlayerRoom(p) /\ rooms' = [rooms EXCEPT ![playerRoom[p]] = x]
        /\ UNCHANGED <<playerRoom, now>>
    BY <1>5 DEF SetReady
  <2>2. r \in Room
    BY <2>1, PlayersRoom DEF RoomInv
  <2>3. x.owner = r.owner
    BY <2>2 DEF updateRoomState, Started, Room
  <2>4. QED
    BY <1>4, <2>1, <2>3
<1>6. ASSUME NEW p \in Player, StartGame(p) PROVE UNCHANGED Directory!dvars
  <2> DEFINE r == rooms[playerRoom[p]]
  <2>1. mustGetPlayerRoom(p) /\ rooms' = [rooms EXCEPT ![playerRoom[p]] = Started(r, now)]
        /\ UNCHANGED <<playerRoom, now>>
    BY <1>6 DEF StartGame
  <2>2. Started(r, now).owner = r.owner
    BY <2>1, PlayersRoom DEF RoomInv, Room, Started
  <2>3. QED
    BY <1>4, <2>1, <2>2
<1>7. ASSUME NEW p \in Player, SubmitInput(p) PROVE UNCHANGED Directory!dvars
  <2> DEFINE r == rooms[playerRoom[p]]
             ev == [seq |-> r.cmdSeq + 1, frame |-> currentFrame(r, now), player |-> p]
             x == [r EXCEPT !.cmdSeq = @ + 1, !.commands = Trim(Append(@, ev))]
  <2>1. mustGetPlayerRoom(p) /\ UNCHANGED <<playerRoom, now>>
    BY <1>7 DEF SubmitInput
  <2>2. r \in Room /\ playerRoom[p] \in DOMAIN rooms
    BY <2>1, PlayersRoom DEF RoomInv
  <2>3. rooms' = [rooms EXCEPT ![playerRoom[p]] = x]
    BY <1>7, <2>2 DEF SubmitInput
  <2>4. x.owner = r.owner
    BY <2>2 DEF Room
  <2>5. QED
    BY <1>4, <2>1, <2>3, <2>4
<1>8. CASE Tick
  <2>1. 1 .. now - 1 \subseteq 1 .. now' - 1
    BY <1>8, BoundsAssumption DEF Tick, RMInv, RMTypeOK
  <2>2. QED
    BY <1>8, <2>1 DEF Tick, Directory!DirNext, Directory!Skip
<1>9. CASE UNCHANGED rmvars
  BY <1>9 DEF rmvars, Directory!dvars
<1>10. CASE RMNext
  BY <1>1, <1>2, <1>3, <1>5, <1>6, <1>7, <1>8, <1>10, CapacitiesAssumption DEF RMNext
<1>11. QED
  BY <1>1, <1>9, <1>10

\* Seen through its tables, the manager is a directory of rooms: the
\* refinement that the run of the same name checks on a small instance.
THEOREM Refinement == RMSpec => ImplementsDirectory
<1>1. RMInv /\ [RMNext]_rmvars => [Directory!DirNext]_(Directory!dvars)
  BY ManagerSteps
<1>2. QED
  BY EmptyDirectory, <1>1, RMInvAlways, PTL DEF RMSpec, ImplementsDirectory, Directory!DirSpec
=============================================================================
