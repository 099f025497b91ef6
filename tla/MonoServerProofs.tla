-------------------------- MODULE MonoServerProofs --------------------------
(***************************************************************************)
(* Proofs about MonoServer, for any players, sockets, capacities and       *)
(* bounds.  The four state invariants of the runs are inductive together:  *)
(* a leaver's socket is found through its seat (SocketsFollowMembers needs *)
(* SeatsAreMemberships), and a game stops or goes on by who is still in    *)
(* the room (GamesAreSetUp needs the seats as well).                       *)
(***************************************************************************)
EXTENDS MonoServer, FiniteSetTheorems, TLAPS

\* MonoTypeOK, by the tables it is about.
RoomsOK ==
    /\ made \in 0 .. MaxRooms
    /\ rooms \in [DOMAIN rooms -> Room] /\ DOMAIN rooms \subseteq 1 .. made
    /\ playerRoom \in [DOMAIN playerRoom -> RoomId] /\ DOMAIN playerRoom \subseteq Player
    /\ strayed \subseteq Player \X RoomId

GamesOK ==
    /\ \A id \in DOMAIN boards : boards[id] \in [DOMAIN boards[id] -> Board]
    /\ \A id \in DOMAIN tickets : tickets[id] \subseteq Player

SocksOK ==
    /\ socks \in [DOMAIN socks -> Sock] /\ DOMAIN socks \subseteq Conn
    /\ \A k \in DOMAIN roomConns :
          /\ roomConns[k] \in DOMAIN socks /\ socks[roomConns[k]].registered
          /\ k = <<socks[roomConns[k]].room, socks[roomConns[k]].player>>
    /\ loose \subseteq DOMAIN socks

BeatsOK == late \subseteq lastHB /\ lastHB \subseteq Player

MonoInv ==
    /\ RoomsOK /\ GamesOK /\ SocksOK /\ BeatsOK
    /\ GamesAreSetUp
    /\ SeatsAreMemberships
    /\ SocketsFollowMembers

\* What a step may not do to the winner of a game (the body of WinnersHeldOut).
HeldOut ==
    \A id \in DOMAIN rooms \cap DOMAIN rooms' :
        \A p \in rooms'[id].winner \ rooms[id].winner :
            /\ rooms[id].state = "playing"
            /\ p \in rooms'[id].players \cap DOMAIN boards[id]
            /\ boards[id][p].status # "lose"
            /\ \A q \in rooms'[id].players \cap DOMAIN boards[id] :
                  q # p => boards[id][q].status = "lose" \/ boards[id][q].pending

Playing(id) == id \in DOMAIN rooms /\ rooms[id].state = "playing"

-----------------------------------------------------------------------------
(* Facts about the data *)

LEMMA PlayersFinite ==
    ASSUME NEW S \in SUBSET Player
    PROVE  IsFiniteSet(S) /\ Cardinality(S) \in Nat
BY PlayerAssumption, FS_Subset, FS_CardinalityType

LEMMA RoomIds == RoomsOK => DOMAIN rooms \subseteq RoomId
BY MonoBoundsAssumption DEF RoomsOK, RoomId

\* A new room holds its owner, whatever capacity was asked for.
LEMMA NewRoomSound ==
    ASSUME NEW p \in Player, NEW cap \in Capacity
    PROVE  LET r == NewRoom(p, cap)
           IN  /\ r \in Room /\ r.state = "waiting" /\ r.owner = p /\ r.players = {p}
               /\ Cardinality(r.players) <= r.max
<1> DEFINE r == NewRoom(p, cap)
<1>1. Cardinality({p}) = 1
  BY FS_Singleton
<1>2. cap \in Nat
  BY MonoBoundsAssumption
<1>3. /\ r.state = "waiting" /\ r.owner = p /\ r.players = {p} /\ r.winner = {}
      /\ r.max \in Nat /\ r.max >= 2
  BY <1>2 DEF NewRoom
<1>4. r \in Room
  BY <1>2 DEF NewRoom, Room
<1>5. QED
  BY <1>1, <1>3, <1>4

\* Hanging up closes sockets and does nothing else to them.
LEMMA HungUp ==
    ASSUME SocksOK, NEW cs
    PROVE  /\ DOMAIN HangUp(cs) = DOMAIN socks
           /\ HangUp(cs) \in [DOMAIN socks -> Sock]
           /\ \A c \in DOMAIN socks :
                 /\ HangUp(cs)[c].room = socks[c].room /\ HangUp(cs)[c].player = socks[c].player
                 /\ HangUp(cs)[c].registered = socks[c].registered
                 /\ HangUp(cs)[c].open => socks[c].open /\ c \notin cs
<1>1. ASSUME NEW c \in DOMAIN socks
      PROVE  /\ HangUp(cs)[c] \in Sock
             /\ HangUp(cs)[c].room = socks[c].room /\ HangUp(cs)[c].player = socks[c].player
             /\ HangUp(cs)[c].registered = socks[c].registered
             /\ HangUp(cs)[c].open => socks[c].open /\ c \notin cs
  <2>1. socks[c] \in Sock /\ HangUp(cs)[c] = [socks[c] EXCEPT !.open = @ /\ c \notin cs]
    BY DEF SocksOK, HangUp
  <2>2. (socks[c].open /\ c \notin cs) \in BOOLEAN
    OBVIOUS
  <2>3. /\ HangUp(cs)[c].room = socks[c].room /\ HangUp(cs)[c].player = socks[c].player
        /\ HangUp(cs)[c].registered = socks[c].registered
        /\ HangUp(cs)[c].open = (socks[c].open /\ c \notin cs)
    BY <2>1 DEF Sock
  <2>4. HangUp(cs)[c] \in Sock
    BY <2>1, <2>2 DEF Sock
  <2>5. QED
    BY <2>3, <2>4
<1>2. DOMAIN HangUp(cs) = DOMAIN socks /\ HangUp(cs) = [c \in DOMAIN socks |-> HangUp(cs)[c]]
  BY DEF HangUp
<1>3. QED
  BY <1>1, <1>2

-----------------------------------------------------------------------------
(* Players leave: removePlayerLocked *)

\* What the rooms that stay open are like.
LEMMA RoomsLeft ==
    ASSUME RoomsOK, SeatsAreMemberships, NEW L \in SUBSET Player, NEW rs \in RoomsWithout(L)
    PROVE  /\ DOMAIN rs = DOMAIN rooms \ ClosedBy(L)
           /\ rs \in [DOMAIN rs -> Room]
           /\ \A id \in DOMAIN rs :
                 /\ rs[id].players = Left(id, L) /\ rs[id].owner \in Left(id, L)
                 /\ rs[id].max = rooms[id].max
                 /\ rs[id].state = IF id \in StoppedBy(L) THEN "waiting" ELSE rooms[id].state
                 /\ rs[id].winner = IF id \in StoppedBy(L) THEN Survivors(id, L) ELSE rooms[id].winner
<1> DEFINE open == DOMAIN rooms \ ClosedBy(L)
<1>1. PICK h \in [open -> Player] :
        /\ \A id \in open : h[id] \in Heirs(id, L)
        /\ rs = [id \in open |-> RoomWithout(id, L, h[id])]
  BY DEF RoomsWithout
<1>2. DOMAIN rs = open /\ rs = [id \in DOMAIN rs |-> rs[id]]
  BY <1>1
<1>3. ASSUME NEW id \in open
      PROVE  /\ rs[id] \in Room
             /\ rs[id].players = Left(id, L) /\ rs[id].owner \in Left(id, L)
             /\ rs[id].max = rooms[id].max
             /\ rs[id].state = IF id \in StoppedBy(L) THEN "waiting" ELSE rooms[id].state
             /\ rs[id].winner = IF id \in StoppedBy(L) THEN Survivors(id, L) ELSE rooms[id].winner
  <2> DEFINE r == rooms[id]
             state == IF id \in StoppedBy(L) THEN "waiting" ELSE r.state
             winner == IF id \in StoppedBy(L) THEN Survivors(id, L) ELSE r.winner
  <2>1. r \in Room
    BY DEF RoomsOK
  <2>2. Left(id, L) \subseteq r.players /\ r.players \subseteq Player
    BY <2>1 DEF Left, Room
  <2>3. h[id] \in Left(id, L)
    BY <1>1 DEF Heirs, SeatsAreMemberships, Left
  <2>4. Survivors(id, L) \subseteq Player
    BY <2>2 DEF Survivors
  <2>5. state \in {"waiting", "playing"} /\ winner \in SUBSET Player
    BY <2>1, <2>4 DEF Room
  <2>6. rs[id] = [r EXCEPT !.players = Left(id, L), !.owner = h[id], !.state = state, !.winner = winner]
    BY <1>1 DEF RoomWithout
  <2> HIDE DEF r, state, winner
  <2>7. /\ rs[id].players = Left(id, L) /\ rs[id].owner = h[id] /\ rs[id].max = r.max
        /\ rs[id].state = state /\ rs[id].winner = winner
    BY <2>1, <2>6 DEF Room
  <2>8. rs[id] \in Room
    BY <2>1, <2>2, <2>3, <2>5, <2>6 DEF Room
  <2>9. QED
    BY <2>3, <2>7, <2>8 DEF r, state, winner
<1>4. QED
  BY <1>2, <1>3

\* A game stops with its room, or with its last opponent.  (rooms' may hold
\* more than the rooms left open: createRoom adds one.)
LEMMA GamesLeft ==
    ASSUME MonoInv, NEW L \in SUBSET Player, NEW rs \in RoomsWithout(L),
           DOMAIN rs \subseteq DOMAIN rooms', \A id \in DOMAIN rs : rooms'[id] = rs[id],
           \A id \in DOMAIN rooms' \ DOMAIN rs : id \notin DOMAIN rooms /\ rooms'[id].state = "waiting",
           EndGames(ClosedBy(L) \cup StoppedBy(L))
    PROVE  GamesOK' /\ GamesAreSetUp'
<1> DEFINE over == ClosedBy(L) \cup StoppedBy(L)
<1>1. RoomsOK /\ SeatsAreMemberships /\ GamesOK /\ GamesAreSetUp
  BY DEF MonoInv
<1>2. /\ DOMAIN boards' = DOMAIN boards \ over /\ DOMAIN tickets' = DOMAIN tickets \ over
      /\ nextAdd' = nextAdd \ over
      /\ \A id \in DOMAIN boards' : boards'[id] = boards[id]
      /\ \A id \in DOMAIN tickets' : tickets'[id] = tickets[id]
  BY DEF EndGames, Minus
<1>3. GamesOK'
  BY <1>1, <1>2 DEF GamesOK
<1>4. /\ DOMAIN rs = DOMAIN rooms \ ClosedBy(L)
      /\ \A id \in DOMAIN rs :
            /\ rs[id].players = Left(id, L)
            /\ rs[id].state = IF id \in StoppedBy(L) THEN "waiting" ELSE rooms[id].state
  BY <1>1, RoomsLeft
<1>5. \A id \in DOMAIN rooms' : Playing(id)' => id \in DOMAIN rs
  BY DEF Playing
<1>6. \A id \in RoomId : Playing(id)' <=> Playing(id) /\ id \notin over
  BY <1>4, <1>5 DEF Playing, StoppedBy, ClosedBy
<1>7. ASSUME NEW id \in RoomId, Playing(id)'
      PROVE  Cardinality(rooms'[id].players) >= 2
  <2>1. id \in DOMAIN rs /\ Playing(id) /\ id \notin over
    BY <1>5, <1>6, <1>7 DEF Playing
  <2>2. rooms'[id].players = Left(id, L)
    BY <1>4, <2>1
  <2>3. Left(id, L) \subseteq rooms[id].players /\ rooms[id].players \subseteq Player
    BY <1>1, <2>1 DEF Left, RoomsOK, Room, Playing
  <2>4. IsFiniteSet(Left(id, L)) /\ Cardinality(Left(id, L)) \in Nat
    BY <2>3, PlayersFinite
  <2>5. CASE Gone(id, L) = {}
    <3>1. Left(id, L) = rooms[id].players
      BY <2>5 DEF Left
    <3>2. QED
      BY <1>1, <2>1, <2>2, <3>1 DEF GamesAreSetUp, Playing
  <2>6. CASE Gone(id, L) # {}
    <3>1. Cardinality(Left(id, L)) # 1 /\ Left(id, L) # {}
      BY <2>1, <2>6 DEF StoppedBy, ClosedBy, Playing
    <3>2. Cardinality(Left(id, L)) # 0
      BY <2>4, <3>1, FS_EmptySet
    <3>3. QED
      BY <2>2, <2>4, <3>1, <3>2
  <2>7. QED
    BY <2>5, <2>6
<1> HIDE DEF over
<1>8. GamesAreSetUp'
  <2> SUFFICES ASSUME NEW id \in RoomId
               PROVE  /\ Playing(id)' <=> id \in DOMAIN boards'
                      /\ Playing(id)' <=> id \in DOMAIN tickets'
                      /\ Playing(id)' <=> id \in nextAdd'
                      /\ Playing(id)' => Cardinality(rooms'[id].players) >= 2
    BY DEF GamesAreSetUp, Playing
  <2>1. /\ Playing(id) <=> id \in DOMAIN boards
        /\ Playing(id) <=> id \in DOMAIN tickets
        /\ Playing(id) <=> id \in nextAdd
    BY <1>1 DEF GamesAreSetUp, Playing
  <2>2. QED
    BY <1>2, <1>6, <1>7, <2>1
<1>9. QED
  BY <1>3, <1>8

\* Everybody else keeps seat and membership; a leaver keeps only memberships
\* of rooms it joined another from.
LEMMA SeatsLeft ==
    ASSUME MonoInv, NEW L \in SUBSET Player, NEW rs \in RoomsWithout(L),
           DOMAIN rs \subseteq DOMAIN rooms', \A id \in DOMAIN rs : rooms'[id] = rs[id],
           \A id \in DOMAIN rooms' \ DOMAIN rs :
               /\ rooms'[id].owner \in rooms'[id].players
               /\ Cardinality(rooms'[id].players) <= rooms'[id].max
               /\ \A q \in rooms'[id].players : Seated(q, id)',
           \A q \in DOMAIN playerRoom \ L : q \in DOMAIN playerRoom' /\ playerRoom'[q] = playerRoom[q],
           \A q \in DOMAIN playerRoom' :
               \/ q \in DOMAIN playerRoom \ L
               \/ playerRoom'[q] \in DOMAIN rooms' /\ q \in rooms'[playerRoom'[q]].players,
           UNCHANGED strayed
    PROVE  SeatsAreMemberships'
<1>1. RoomsOK /\ SeatsAreMemberships
  BY DEF MonoInv
<1>2. /\ DOMAIN rs = DOMAIN rooms \ ClosedBy(L)
      /\ \A id \in DOMAIN rs :
            /\ rs[id].players = Left(id, L) /\ rs[id].owner \in Left(id, L)
            /\ rs[id].max = rooms[id].max
  <2>1. L \in SUBSET Player /\ rs \in RoomsWithout(L)
    OBVIOUS
  <2>2. QED
    BY ONLY <1>1, <2>1, RoomsLeft
<1>3. ASSUME NEW q \in DOMAIN playerRoom'
      PROVE  playerRoom'[q] \in DOMAIN rooms' /\ q \in rooms'[playerRoom'[q]].players
  <2> SUFFICES ASSUME q \in DOMAIN playerRoom \ L
               PROVE  playerRoom[q] \in DOMAIN rooms' /\ q \in rooms'[playerRoom[q]].players
    BY <1>3
  <2>1. playerRoom[q] \in DOMAIN rooms /\ q \in rooms[playerRoom[q]].players
    BY <1>1 DEF SeatsAreMemberships
  <2>2. q \in Left(playerRoom[q], L)
    BY <2>1 DEF Left, Gone
  <2>3. playerRoom[q] \in DOMAIN rs
    BY <1>2, <2>1, <2>2 DEF ClosedBy
  <2>4. QED
    BY <1>2, <2>2, <2>3
<1>4. ASSUME NEW id \in DOMAIN rs
      PROVE  /\ rooms'[id].owner \in rooms'[id].players
             /\ Cardinality(rooms'[id].players) <= rooms'[id].max
             /\ \A q \in rooms'[id].players : Seated(q, id)' \/ <<q, id>> \in strayed'
  <2>1. rooms[id] \in Room /\ id \in DOMAIN rooms
    BY <1>1, <1>2 DEF RoomsOK
  <2>2. Left(id, L) \subseteq rooms[id].players /\ rooms[id].players \subseteq Player
        /\ rooms[id].max \in Nat
    BY <2>1 DEF Left, Room
  <2>3. Cardinality(Left(id, L)) <= Cardinality(rooms[id].players)
        /\ Cardinality(Left(id, L)) \in Nat /\ Cardinality(rooms[id].players) \in Nat
    BY <2>2, PlayersFinite, FS_Subset
  <2>4. Cardinality(rooms[id].players) <= rooms[id].max
    BY <1>1, <2>1 DEF SeatsAreMemberships
  <2>5. Cardinality(rooms'[id].players) <= rooms'[id].max
    BY <1>2, <2>2, <2>3, <2>4
  <2>6. ASSUME NEW q \in Left(id, L)
        PROVE  Seated(q, id)' \/ <<q, id>> \in strayed'
    <3>1. Seated(q, id) \/ <<q, id>> \in strayed
      BY <1>1, <2>1, <2>2 DEF SeatsAreMemberships
    <3>2. Seated(q, id) => q \notin L
      BY <2>6 DEF Left, Gone
    <3>3. QED
      BY <3>1, <3>2 DEF Seated
  <2>7. QED
    BY <1>2, <2>5, <2>6
<1>5. QED
  BY <1>3, <1>4 DEF SeatsAreMemberships

\* Leavers lose the socket they are registered with, the others keep theirs.
LEMMA SocksLeft ==
    ASSUME MonoInv, NEW L \in SUBSET Player, NEW rs \in RoomsWithout(L),
           DOMAIN rs \subseteq DOMAIN rooms', \A id \in DOMAIN rs : rooms'[id] = rs[id],
           SocketsWithout(L)
    PROVE  SocksOK' /\ SocketsFollowMembers'
<1> DEFINE cs == RegisteredAt(L)
<1>1. RoomsOK /\ SeatsAreMemberships /\ SocksOK /\ SocketsFollowMembers
  BY DEF MonoInv
<1>2. /\ DOMAIN rs = DOMAIN rooms \ ClosedBy(L)
      /\ \A id \in DOMAIN rs : rs[id].players = Left(id, L)
  BY <1>1, RoomsLeft
<1>3. /\ socks' = HangUp(cs) /\ loose' = loose
      /\ DOMAIN roomConns' = DOMAIN roomConns \ {k \in DOMAIN roomConns : k[1] \in ClosedBy(L)}
      /\ \A k \in DOMAIN roomConns' : roomConns'[k] = roomConns[k]
  BY DEF SocketsWithout, Minus
<1>4. \A k \in DOMAIN roomConns : k[2] \in Gone(k[1], L) => roomConns[k] \in cs
  BY DEF RegisteredAt
<1> HIDE DEF cs
<1>5. /\ DOMAIN socks' = DOMAIN socks /\ socks' \in [DOMAIN socks -> Sock]
      /\ \A c \in DOMAIN socks :
            /\ socks'[c].room = socks[c].room /\ socks'[c].player = socks[c].player
            /\ socks'[c].registered = socks[c].registered
            /\ socks'[c].open => socks[c].open /\ c \notin cs
  BY <1>1, <1>3, HungUp
<1>6. SocksOK'
  BY <1>1, <1>3, <1>5 DEF SocksOK
<1>7. ASSUME NEW c \in DOMAIN socks \ loose, socks'[c].registered, socks'[c].open
      PROVE  /\ <<socks[c].room, socks[c].player>> \in DOMAIN roomConns'
             /\ roomConns'[<<socks[c].room, socks[c].player>>] = c
             /\ socks[c].room \in DOMAIN rooms'
             /\ socks[c].player \in rooms'[socks[c].room].players
  <2> DEFINE id == socks[c].room
             p == socks[c].player
  <2>1. /\ <<id, p>> \in DOMAIN roomConns /\ roomConns[<<id, p>>] = c
        /\ id \in DOMAIN rooms /\ p \in rooms[id].players /\ c \notin cs
    BY <1>1, <1>5, <1>7 DEF SocketsFollowMembers
  <2> HIDE DEF id, p
  <2>2. p \in Left(id, L)
    BY <1>4, <2>1 DEF Left
  <2>3. id \in DOMAIN rs /\ id \notin ClosedBy(L)
    BY <1>2, <2>1, <2>2 DEF ClosedBy
  <2>4. QED
    BY <1>2, <1>3, <2>1, <2>2, <2>3 DEF id, p
<1>8. SocketsFollowMembers'
  BY <1>3, <1>5, <1>7 DEF SocketsFollowMembers
<1>9. QED
  BY <1>6, <1>8

\* Whoever is left when a game stops wins only with a board that held.
LEMMA HeldOutLeft ==
    ASSUME MonoInv, NEW L \in SUBSET Player, NEW rs \in RoomsWithout(L),
           \A id \in DOMAIN rs : rooms'[id] = rs[id],
           \A id \in DOMAIN rooms' \ DOMAIN rs : id \notin DOMAIN rooms
    PROVE  HeldOut
<1>1. RoomsOK /\ SeatsAreMemberships
  BY DEF MonoInv
<1>2. /\ DOMAIN rs = DOMAIN rooms \ ClosedBy(L)
      /\ \A id \in DOMAIN rs :
            /\ rs[id].players = Left(id, L)
            /\ rs[id].winner = IF id \in StoppedBy(L) THEN Survivors(id, L) ELSE rooms[id].winner
  BY <1>1, RoomsLeft, ZenonT(60)
<1> SUFFICES ASSUME NEW id \in DOMAIN rooms \cap DOMAIN rooms',
                    NEW p \in rooms'[id].winner \ rooms[id].winner
             PROVE  /\ rooms[id].state = "playing"
                    /\ p \in rooms'[id].players \cap DOMAIN boards[id]
                    /\ boards[id][p].status # "lose"
                    /\ \A q \in rooms'[id].players \cap DOMAIN boards[id] :
                          q # p => boards[id][q].status = "lose" \/ boards[id][q].pending
  BY DEF HeldOut
<1>3. id \in DOMAIN rs /\ rooms'[id].players = Left(id, L)
  BY <1>2
<1>4. id \in StoppedBy(L) /\ p \in Survivors(id, L)
  BY <1>2, <1>3
<1>5. /\ rooms[id].state = "playing" /\ Cardinality(Left(id, L)) = 1
      /\ p \in Left(id, L) \cap DOMAIN boards[id] /\ boards[id][p].status # "lose"
  BY <1>4 DEF StoppedBy, Survivors
<1>6. Left(id, L) \subseteq Player
  BY <1>1 DEF Left, RoomsOK, Room
<1>7. \A q \in Left(id, L) : q = p
  BY <1>5, <1>6, PlayersFinite, FS_Singleton
<1>8. QED
  BY <1>3, <1>5, <1>7

-----------------------------------------------------------------------------
(* What a step leaves alone *)

\* No winner is named.
LEMMA NobodyWins ==
    ASSUME \A id \in DOMAIN rooms \cap DOMAIN rooms' : rooms'[id].winner \subseteq rooms[id].winner
    PROVE  HeldOut
BY DEF HeldOut

LEMMA RoomsKept ==
    ASSUME MonoInv, UNCHANGED roomvars
    PROVE  RoomsOK' /\ GamesOK' /\ GamesAreSetUp' /\ SeatsAreMemberships' /\ HeldOut
<1>1. HeldOut
  BY DEF roomvars, HeldOut
<1>2. RoomsOK' /\ GamesOK'
  BY DEF MonoInv, roomvars, RoomsOK, GamesOK
<1>3. GamesAreSetUp' /\ SeatsAreMemberships'
  BY DEF MonoInv, roomvars, GamesAreSetUp, SeatsAreMemberships, Seated
<1>4. QED
  BY <1>1, <1>2, <1>3

\* Sockets stay in step with rooms that nobody leaves.
LEMMA SocksKept ==
    ASSUME MonoInv, UNCHANGED sockvars, DOMAIN rooms \subseteq DOMAIN rooms',
           \A id \in DOMAIN rooms : rooms[id].players \subseteq rooms'[id].players
    PROVE  SocksOK' /\ SocketsFollowMembers'
<1>1. socks' = socks /\ roomConns' = roomConns /\ loose' = loose
  BY DEF sockvars
<1>2. SocksOK'
  BY <1>1 DEF MonoInv, SocksOK
<1>3. SocketsFollowMembers'
  BY <1>1 DEF MonoInv, SocketsFollowMembers
<1>4. QED
  BY <1>2, <1>3

LEMMA BeatsKept ==
    ASSUME BeatsOK, UNCHANGED beatvars
    PROVE  BeatsOK'
BY DEF BeatsOK, beatvars

-----------------------------------------------------------------------------
(* Requests *)

LEMMA createRoomSound ==
    ASSUME MonoInv, NEW p \in Player, NEW cap \in Capacity, createRoom(p, cap)
    PROVE  MonoInv' /\ HeldOut
<1>1. PICK rs \in RoomsWithout({p}) : rooms' = Put(rs, made', NewRoom(p, cap))
  BY DEF createRoom
<1>2. /\ made < MaxRooms /\ made' = made + 1
      /\ playerRoom' = Put(playerRoom, p, made')
      /\ EndGames(ClosedBy({p}) \cup StoppedBy({p}))
      /\ SocketsWithout({p})
      /\ UNCHANGED beatvars /\ strayed' = strayed
  BY DEF createRoom
<1>3. RoomsOK /\ SeatsAreMemberships /\ BeatsOK /\ {p} \in SUBSET Player
  BY DEF MonoInv
<1>4. /\ DOMAIN rs = DOMAIN rooms \ ClosedBy({p}) /\ rs \in [DOMAIN rs -> Room]
  BY ONLY <1>1, <1>3, RoomsLeft
<1>5. /\ made \in Nat /\ made' \in 1 .. MaxRooms /\ made' \notin DOMAIN rooms
      /\ 1 .. made \subseteq 1 .. made'
  BY <1>2, <1>3, MonoBoundsAssumption DEF RoomsOK
<1> DEFINE new == NewRoom(p, cap)
<1>6. /\ new \in Room /\ new.state = "waiting" /\ new.owner = p /\ new.players = {p}
      /\ Cardinality(new.players) <= new.max
  BY NewRoomSound
<1> HIDE DEF new
<1>7. /\ DOMAIN rooms' = DOMAIN rs \cup {made'} /\ rooms'[made'] = new
      /\ \A id \in DOMAIN rs : rooms'[id] = rs[id]
      /\ rooms' = [id \in DOMAIN rooms' |-> rooms'[id]]
  BY <1>1, <1>4, <1>5 DEF Put, new
<1>8. /\ DOMAIN playerRoom' = DOMAIN playerRoom \cup {p} /\ playerRoom'[p] = made'
      /\ \A q \in DOMAIN playerRoom \ {p} : playerRoom'[q] = playerRoom[q]
      /\ playerRoom' = [q \in DOMAIN playerRoom' |-> playerRoom'[q]]
  BY <1>2 DEF Put
<1>9. RoomsOK'
  <2>1. rooms' \in [DOMAIN rooms' -> Room] /\ DOMAIN rooms' \subseteq 1 .. made'
    <3>1. \A id \in DOMAIN rooms' : rooms'[id] \in Room
      BY <1>4, <1>6, <1>7
    <3>2. DOMAIN rooms' \subseteq 1 .. made'
      BY <1>3, <1>4, <1>5, <1>7 DEF RoomsOK
    <3>3. QED
      BY <1>7, <3>1, <3>2
  <2>2. playerRoom' \in [DOMAIN playerRoom' -> RoomId] /\ DOMAIN playerRoom' \subseteq Player
    BY <1>3, <1>5, <1>8 DEF RoomsOK, RoomId
  <2>3. made' \in 0 .. MaxRooms
    BY <1>5, MonoBoundsAssumption
  <2>4. QED
    BY <1>2, <1>3, <2>1, <2>2, <2>3 DEF RoomsOK
<1>10. \A id \in DOMAIN rooms' \ DOMAIN rs : id = made'
  BY <1>7
<1>11. GamesOK' /\ GamesAreSetUp'
  <2>1. /\ DOMAIN rs \subseteq DOMAIN rooms' /\ \A id \in DOMAIN rs : rooms'[id] = rs[id]
        /\ \A id \in DOMAIN rooms' \ DOMAIN rs : id \notin DOMAIN rooms /\ rooms'[id].state = "waiting"
    BY <1>5, <1>6, <1>7
  <2>2. QED
    BY <1>1, <1>2, <1>3, <2>1, GamesLeft
<1>12. SeatsAreMemberships'
  <2>1. DOMAIN rs \subseteq DOMAIN rooms' /\ \A id \in DOMAIN rs : rooms'[id] = rs[id]
    BY <1>7
  <2>2. \A id \in DOMAIN rooms' \ DOMAIN rs :
               /\ rooms'[id].owner \in rooms'[id].players
               /\ Cardinality(rooms'[id].players) <= rooms'[id].max
               /\ \A q \in rooms'[id].players : Seated(q, id)'
    BY <1>6, <1>7, <1>8 DEF Seated
  <2>3. /\ \A q \in DOMAIN playerRoom \ {p} : q \in DOMAIN playerRoom' /\ playerRoom'[q] = playerRoom[q]
        /\ \A q \in DOMAIN playerRoom' :
               \/ q \in DOMAIN playerRoom \ {p}
               \/ playerRoom'[q] \in DOMAIN rooms' /\ q \in rooms'[playerRoom'[q]].players
    BY <1>6, <1>7, <1>8
  <2>4. QED
    BY <1>1, <1>2, <1>3, <2>1, <2>2, <2>3, SeatsLeft
<1>13. SocksOK' /\ SocketsFollowMembers'
  <2>1. DOMAIN rs \subseteq DOMAIN rooms' /\ \A id \in DOMAIN rs : rooms'[id] = rs[id]
    BY <1>7
  <2>2. QED
    BY <1>1, <1>2, <1>3, <2>1, SocksLeft
<1>14. HeldOut
  <2>1. /\ \A id \in DOMAIN rs : rooms'[id] = rs[id]
        /\ \A id \in DOMAIN rooms' \ DOMAIN rs : id \notin DOMAIN rooms
    BY <1>5, <1>7
  <2>2. QED
    BY <1>1, <1>3, <2>1, HeldOutLeft
<1>15. QED
  BY <1>2, <1>3, <1>9, <1>11, <1>12, <1>13, <1>14, BeatsKept DEF MonoInv

\* Leaving, by request or by the heartbeat loop.
LEMMA Departure ==
    ASSUME MonoInv, NEW L \in SUBSET Player, rooms' \in RoomsWithout(L),
           playerRoom' = Minus(playerRoom, L),
           EndGames(ClosedBy(L) \cup StoppedBy(L)), SocketsWithout(L),
           UNCHANGED <<made, strayed>>
    PROVE  /\ RoomsOK' /\ GamesOK' /\ SocksOK'
           /\ GamesAreSetUp' /\ SeatsAreMemberships' /\ SocketsFollowMembers'
           /\ HeldOut
<1>1. RoomsOK /\ SeatsAreMemberships
  BY DEF MonoInv
<1>2. DOMAIN rooms' = DOMAIN rooms \ ClosedBy(L) /\ rooms' \in [DOMAIN rooms' -> Room]
  <2>1. L \in SUBSET Player /\ rooms' \in RoomsWithout(L)
    OBVIOUS
  <2>2. QED
    BY ONLY <1>1, <2>1, RoomsLeft
<1>3. /\ DOMAIN playerRoom' = DOMAIN playerRoom \ L
      /\ \A q \in DOMAIN playerRoom \ L : playerRoom'[q] = playerRoom[q]
      /\ playerRoom' = [q \in DOMAIN playerRoom' |-> playerRoom'[q]]
  BY DEF Minus
<1>4. RoomsOK'
  BY <1>1, <1>2, <1>3 DEF RoomsOK
<1>5. GamesOK' /\ GamesAreSetUp'
  BY GamesLeft
<1>6. SeatsAreMemberships'
  BY <1>3, SeatsLeft
<1>7. SocksOK' /\ SocketsFollowMembers'
  BY SocksLeft
<1>8. HeldOut
  BY HeldOutLeft
<1>9. QED
  BY <1>4, <1>5, <1>6, <1>7, <1>8

LEMMA handleLeaveSound ==
    ASSUME MonoInv, NEW p \in Player, handleLeave(p)
    PROVE  MonoInv' /\ HeldOut
<1>1. Del(playerRoom, p) = Minus(playerRoom, {p})
  BY DEF Del, Minus
<1>2. BeatsOK'
  BY BeatsKept DEF handleLeave, MonoInv
<1>3. QED
  BY <1>1, <1>2, Departure DEF handleLeave, MonoInv

LEMMA heartbeatLoopSound ==
    ASSUME MonoInv, heartbeatLoop
    PROVE  MonoInv' /\ HeldOut
<1>1. late \in SUBSET Player
  BY DEF MonoInv, BeatsOK
<1>2. BeatsOK'
  BY DEF heartbeatLoop, MonoInv, BeatsOK
<1>3. QED
  BY <1>1, <1>2, Departure DEF heartbeatLoop, MonoInv

LEMMA handleJoinSound ==
    ASSUME MonoInv, NEW p \in Player, NEW id \in DOMAIN rooms, handleJoin(p, id)
    PROVE  MonoInv' /\ HeldOut
<1> DEFINE r == rooms[id]
           new == [r EXCEPT !.players = @ \cup {p}]
<1>1. RoomsOK /\ GamesOK /\ SocksOK /\ BeatsOK /\ GamesAreSetUp /\ SeatsAreMemberships
  BY DEF MonoInv
<1>2. r \in Room /\ id \in RoomId
  BY <1>1, RoomIds DEF RoomsOK
<1>3. /\ new \in Room /\ new.players = r.players \cup {p} /\ new.state = r.state
      /\ new.owner = r.owner /\ new.max = r.max /\ new.winner = r.winner
  BY <1>2 DEF Room
<1>4. p \notin r.players /\ Cardinality(r.players) < r.max
      /\ rooms' = [rooms EXCEPT ![id] = new]
      /\ UNCHANGED <<boards, tickets, nextAdd, made>> /\ UNCHANGED <<sockvars, beatvars>>
      /\ playerRoom' = Put(playerRoom, p, id)
      /\ strayed' = strayed \cup (IF p \in DOMAIN playerRoom THEN {<<p, playerRoom[p]>>} ELSE {})
  BY DEF handleJoin, HasSeat
<1>5. Cardinality(new.players) = Cardinality(r.players) + 1 /\ Cardinality(r.players) \in Nat
      /\ r.max \in Nat
  BY <1>2, <1>3, <1>4, PlayersFinite, FS_AddElement DEF Room
<1> HIDE DEF new, r
<1>6. /\ DOMAIN rooms' = DOMAIN rooms /\ rooms'[id] = new
      /\ \A i \in DOMAIN rooms \ {id} : rooms'[i] = rooms[i]
      /\ rooms' = [i \in DOMAIN rooms' |-> rooms'[i]]
  BY <1>4
<1>7. /\ DOMAIN playerRoom' = DOMAIN playerRoom \cup {p} /\ playerRoom'[p] = id
      /\ \A q \in DOMAIN playerRoom \ {p} : playerRoom'[q] = playerRoom[q]
      /\ playerRoom' = [q \in DOMAIN playerRoom' |-> playerRoom'[q]]
  BY <1>4 DEF Put
<1>8. RoomsOK'
  <2>1. rooms' \in [DOMAIN rooms' -> Room]
    BY <1>1, <1>3, <1>6 DEF RoomsOK
  <2>2. playerRoom' \in [DOMAIN playerRoom' -> RoomId] /\ DOMAIN playerRoom' \subseteq Player
    BY <1>1, <1>2, <1>7 DEF RoomsOK
  <2>3. strayed' \subseteq Player \X RoomId
    BY <1>1, <1>4 DEF RoomsOK
  <2>4. QED
    BY <1>1, <1>4, <1>6, <2>1, <2>2, <2>3 DEF RoomsOK
<1>9. GamesOK' /\ BeatsOK'
  BY <1>1, <1>4, BeatsKept DEF GamesOK
<1>10. GamesAreSetUp'
  <2>1. \A i \in RoomId : Playing(i)' <=> Playing(i)
    BY <1>3, <1>6 DEF Playing, r
  <2>2. ASSUME NEW i \in RoomId, Playing(i)'
        PROVE  Cardinality(rooms'[i].players) >= 2
    <3>1. i \in DOMAIN rooms /\ Cardinality(rooms[i].players) >= 2
      BY <1>1, <2>1, <2>2 DEF GamesAreSetUp, Playing
    <3>2. CASE i = id
      <4>1. Cardinality(new.players) >= 2
        BY <1>5, <3>1, <3>2 DEF r
      <4>2. QED
        BY <1>6, <3>2, <4>1
    <3>3. CASE i # id
      BY <1>6, <3>1, <3>3
    <3>4. QED
      BY <3>2, <3>3
  <2>3. QED
    BY <1>1, <1>4, <2>1, <2>2 DEF GamesAreSetUp, Playing
<1>11. SeatsAreMemberships'
  <2>1. \A q \in DOMAIN playerRoom' :
          playerRoom'[q] \in DOMAIN rooms' /\ q \in rooms'[playerRoom'[q]].players
    BY <1>1, <1>3, <1>6, <1>7 DEF SeatsAreMemberships, r
  <2>2. ASSUME NEW i \in DOMAIN rooms
        PROVE  /\ rooms'[i].owner \in rooms'[i].players
               /\ Cardinality(rooms'[i].players) <= rooms'[i].max
    <3>1. CASE i = id
      <4>1. Cardinality(new.players) <= new.max
        BY <1>3, <1>4, <1>5
      <4>2. new.owner \in new.players
        BY <1>1, <1>3 DEF SeatsAreMemberships, r
      <4>3. QED
        BY <1>6, <3>1, <4>1, <4>2
    <3>2. CASE i # id
      BY <1>1, <1>6, <3>2 DEF SeatsAreMemberships
    <3>3. QED
      BY <3>1, <3>2
  <2>3. ASSUME NEW i \in DOMAIN rooms, NEW q \in rooms'[i].players
        PROVE  Seated(q, i)' \/ <<q, i>> \in strayed'
    <3>1. CASE q = p /\ i = id
      BY <1>7, <3>1 DEF Seated
    <3>2. CASE ~(q = p /\ i = id)
      <4>1. q \in rooms[i].players
        BY <1>3, <1>6, <2>3, <3>2 DEF r
      <4>2. Seated(q, i) \/ <<q, i>> \in strayed
        BY <1>1, <4>1 DEF SeatsAreMemberships
      <4>3. QED
        BY <1>4, <1>7, <4>2 DEF Seated
    <3>3. QED
      BY <3>1, <3>2
  <2>4. QED
    BY <1>6, <2>1, <2>2, <2>3 DEF SeatsAreMemberships
<1>12. SocksOK' /\ SocketsFollowMembers'
  <2>1. DOMAIN rooms \subseteq DOMAIN rooms'
        /\ \A i \in DOMAIN rooms : rooms[i].players \subseteq rooms'[i].players
    BY <1>3, <1>6 DEF r
  <2>2. QED
    BY <1>4, <2>1, SocksKept
<1>13. HeldOut
  BY <1>3, <1>6, NobodyWins DEF r
<1>14. QED
  BY <1>8, <1>9, <1>10, <1>11, <1>12, <1>13 DEF MonoInv

\* A game starts with boards, tickets and a next layer, and no winner.
LEMMA handleStartSound ==
    ASSUME MonoInv, NEW id \in DOMAIN rooms, handleStart(id)
    PROVE  MonoInv' /\ HeldOut
<1> DEFINE r == rooms[id]
           new == [r EXCEPT !.state = "playing", !.winner = {}]
           bs == [p \in r.players |-> NewBoard]
<1>1. RoomsOK /\ GamesOK /\ SocksOK /\ BeatsOK /\ GamesAreSetUp /\ SeatsAreMemberships
  BY DEF MonoInv
<1>2. r \in Room /\ id \in RoomId
  BY <1>1, RoomIds DEF RoomsOK
<1>3. /\ new \in Room /\ new.players = r.players /\ new.state = "playing"
      /\ new.owner = r.owner /\ new.max = r.max /\ new.winner = {}
  BY <1>2 DEF Room
<1>4. /\ Cardinality(r.players) >= 2
      /\ rooms' = [rooms EXCEPT ![id] = new]
      /\ boards' = Put(boards, id, bs) /\ tickets' = Put(tickets, id, r.players)
      /\ nextAdd' = nextAdd \cup {id}
      /\ UNCHANGED <<playerRoom, made, strayed>> /\ UNCHANGED <<sockvars, beatvars>>
  BY DEF handleStart
<1>5. bs \in [DOMAIN bs -> Board] /\ r.players \subseteq Player
  BY <1>2 DEF NewBoard, Board, Status, Room
<1> HIDE DEF new, r, bs
<1>6. /\ DOMAIN rooms' = DOMAIN rooms /\ rooms'[id] = new
      /\ \A i \in DOMAIN rooms \ {id} : rooms'[i] = rooms[i]
      /\ rooms' = [i \in DOMAIN rooms' |-> rooms'[i]]
  BY <1>4
<1>7. /\ DOMAIN boards' = DOMAIN boards \cup {id} /\ boards'[id] = bs
      /\ \A i \in DOMAIN boards \ {id} : boards'[i] = boards[i]
      /\ DOMAIN tickets' = DOMAIN tickets \cup {id} /\ tickets'[id] = r.players
      /\ \A i \in DOMAIN tickets \ {id} : tickets'[i] = tickets[i]
  BY <1>4 DEF Put
<1>8. RoomsOK'
  BY <1>1, <1>3, <1>4, <1>6 DEF RoomsOK
<1>9. GamesOK' /\ BeatsOK'
  BY <1>1, <1>4, <1>5, <1>7, BeatsKept DEF GamesOK
<1>10. GamesAreSetUp'
  <2>1. \A i \in RoomId \ {id} : Playing(i)' <=> Playing(i)
    BY <1>6 DEF Playing
  <2>2. Playing(id)'
    BY <1>3, <1>6 DEF Playing
  <2>3. \A i \in RoomId : Playing(i)' => Cardinality(rooms'[i].players) >= 2
    BY <1>1, <1>3, <1>4, <1>6 DEF GamesAreSetUp, Playing, r
  <2>4. QED
    BY <1>1, <1>4, <1>7, <2>1, <2>2, <2>3 DEF GamesAreSetUp, Playing
<1>11. SeatsAreMemberships'
  <2>1. \A i \in DOMAIN rooms : /\ rooms'[i].players = rooms[i].players
                                /\ rooms'[i].owner = rooms[i].owner /\ rooms'[i].max = rooms[i].max
    BY <1>3, <1>6 DEF r
  <2>2. QED
    BY <1>1, <1>4, <1>6, <2>1 DEF SeatsAreMemberships, Seated
<1>12. SocksOK' /\ SocketsFollowMembers'
  <2>1. DOMAIN rooms \subseteq DOMAIN rooms'
        /\ \A i \in DOMAIN rooms : rooms[i].players \subseteq rooms'[i].players
    BY <1>3, <1>6 DEF r
  <2>2. QED
    BY <1>4, <2>1, SocksKept
<1>13. HeldOut
  BY <1>3, <1>6, NobodyWins
<1>14. QED
  BY <1>8, <1>9, <1>10, <1>11, <1>12, <1>13 DEF MonoInv

-----------------------------------------------------------------------------
(* Games *)

\* A game is settled in favour of the one player whose board holds, also when
\* the boards bs are those after a landing that was pending.
LEMMA SettleSound ==
    ASSUME MonoInv, NEW id \in DOMAIN rooms, NEW bs,
           DOMAIN bs = DOMAIN boards[id],
           \A q \in DOMAIN bs :
               /\ bs[q].status = "lose" => boards[id][q].status = "lose" \/ boards[id][q].pending
               /\ bs[q].status # "lose" => boards[id][q].status # "lose",
           Decided(id, bs), Settle(id, bs),
           UNCHANGED <<playerRoom, made, strayed>>, UNCHANGED sockvars
    PROVE  /\ RoomsOK' /\ GamesOK' /\ SocksOK'
           /\ GamesAreSetUp' /\ SeatsAreMemberships' /\ SocketsFollowMembers'
           /\ HeldOut
<1> DEFINE r == rooms[id]
           alive == Alive(id, bs)
           new == [r EXCEPT !.state = "waiting", !.winner = alive]
<1>1. RoomsOK /\ GamesOK /\ GamesAreSetUp /\ SeatsAreMemberships
  BY DEF MonoInv
<1>2. r \in Room /\ id \in RoomId
  BY <1>1, RoomIds DEF RoomsOK
<1>3. alive \subseteq r.players /\ r.players \subseteq Player
  BY <1>2 DEF Alive, Room
<1>4. /\ r.state = "playing" /\ Cardinality(alive) = 1
      /\ rooms' = [rooms EXCEPT ![id] = new] /\ EndGames({id})
  BY DEF Decided, Settle
<1>5. /\ \A p \in alive : p \in DOMAIN bs /\ bs[p].status # "lose"
      /\ \A q \in r.players \cap DOMAIN bs : q \notin alive => bs[q].status = "lose"
  BY DEF Alive
<1> HIDE DEF alive
<1>6. /\ new \in Room /\ new.players = r.players /\ new.state = "waiting"
      /\ new.owner = r.owner /\ new.max = r.max /\ new.winner = alive
  BY <1>2, <1>3 DEF Room
<1> HIDE DEF new, r
<1>7. /\ DOMAIN rooms' = DOMAIN rooms /\ rooms'[id] = new
      /\ \A i \in DOMAIN rooms \ {id} : rooms'[i] = rooms[i]
      /\ rooms' = [i \in DOMAIN rooms' |-> rooms'[i]]
  BY <1>4
<1>8. /\ DOMAIN boards' = DOMAIN boards \ {id} /\ DOMAIN tickets' = DOMAIN tickets \ {id}
      /\ nextAdd' = nextAdd \ {id}
      /\ \A i \in DOMAIN boards' : boards'[i] = boards[i]
      /\ \A i \in DOMAIN tickets' : tickets'[i] = tickets[i]
  BY <1>4 DEF EndGames, Minus
<1>9. RoomsOK' /\ GamesOK'
  <2>1. RoomsOK'
    BY <1>1, <1>6, <1>7 DEF RoomsOK
  <2>2. GamesOK'
    BY <1>1, <1>8 DEF GamesOK
  <2>3. QED
    BY <2>1, <2>2
<1>10. GamesAreSetUp'
  <2>1. /\ \A i \in RoomId \ {id} : Playing(i)' <=> Playing(i)
        /\ ~Playing(id)'
    BY <1>6, <1>7 DEF Playing
  <2>2. \A i \in RoomId : Playing(i)' => Cardinality(rooms'[i].players) >= 2
    BY <1>1, <1>7, <2>1 DEF GamesAreSetUp, Playing
  <2>3. QED
    BY <1>1, <1>8, <2>1, <2>2 DEF GamesAreSetUp, Playing
<1>11. \A i \in DOMAIN rooms : /\ rooms'[i].players = rooms[i].players
                               /\ rooms'[i].owner = rooms[i].owner /\ rooms'[i].max = rooms[i].max
  BY <1>6, <1>7 DEF r
<1>12. SeatsAreMemberships'
  BY <1>1, <1>7, <1>11 DEF SeatsAreMemberships, Seated
<1>13. SocksOK' /\ SocketsFollowMembers'
  BY <1>7, <1>11, SocksKept
<1>14. HeldOut
  <2> SUFFICES ASSUME NEW p \in alive
               PROVE  /\ r.state = "playing"
                      /\ p \in r.players \cap DOMAIN boards[id]
                      /\ boards[id][p].status # "lose"
                      /\ \A q \in r.players \cap DOMAIN boards[id] :
                            q # p => boards[id][q].status = "lose" \/ boards[id][q].pending
    <3>1. \A i \in DOMAIN rooms \ {id} : rooms'[i].winner \ rooms[i].winner = {}
      BY <1>7
    <3>2. rooms'[id].winner = alive /\ rooms'[id].players = r.players
      BY <1>6, <1>7
    <3>3. QED
      BY <3>1, <3>2 DEF HeldOut, r
  <2>1. \A q \in alive : q = p
    BY <1>3, <1>4, PlayersFinite, FS_Singleton
  <2>2. p \in r.players /\ p \in DOMAIN boards[id] /\ boards[id][p].status # "lose"
    BY <1>3, <1>5
  <2>3. \A q \in r.players \cap DOMAIN boards[id] :
           q # p => boards[id][q].status = "lose" \/ boards[id][q].pending
    BY <1>5, <2>1
  <2>4. QED
    BY <1>4, <2>2, <2>3
<1>15. QED
  BY <1>9, <1>10, <1>12, <1>13, <1>14

\* A game goes on with other boards.
LEMMA BoardsSound ==
    ASSUME MonoInv, UNCHANGED <<rooms, playerRoom, tickets, nextAdd, made, strayed>>,
           UNCHANGED sockvars,
           NEW id \in DOMAIN boards, NEW bs \in [DOMAIN boards[id] -> Board],
           boards' = [boards EXCEPT ![id] = bs]
    PROVE  /\ RoomsOK' /\ GamesOK' /\ SocksOK'
           /\ GamesAreSetUp' /\ SeatsAreMemberships' /\ SocketsFollowMembers'
           /\ HeldOut
<1>1. RoomsOK /\ GamesOK /\ GamesAreSetUp /\ SeatsAreMemberships
  BY DEF MonoInv
<1>2. /\ DOMAIN boards' = DOMAIN boards /\ boards'[id] = bs /\ DOMAIN bs = DOMAIN boards[id]
      /\ \A i \in DOMAIN boards \ {id} : boards'[i] = boards[i]
  OBVIOUS
<1>3. GamesOK'
  <2>1. \A i \in DOMAIN boards : boards'[i] \in [DOMAIN boards'[i] -> Board]
    BY <1>1, <1>2 DEF GamesOK
  <2>2. QED
    BY <1>1, <1>2, <2>1 DEF GamesOK
<1>4. RoomsOK' /\ GamesAreSetUp' /\ SeatsAreMemberships'
  BY <1>1, <1>2 DEF RoomsOK, GamesAreSetUp, SeatsAreMemberships, Seated
<1>5. SocksOK' /\ SocketsFollowMembers'
  BY SocksKept
<1>6. HeldOut
  BY NobodyWins
<1>7. QED
  BY <1>3, <1>4, <1>5, <1>6

\* The messages of a room socket: their player is heard of.
LEMMA ReceivesHeard ==
    ASSUME MonoInv, NEW c, Receives(c)
    PROVE  BeatsOK' /\ c \in DOMAIN socks /\ UNCHANGED sockvars
           /\ UNCHANGED <<playerRoom, made, strayed>> /\ socks[c] \in Sock
<1>1. c \in DOMAIN socks /\ UNCHANGED sockvars /\ UNCHANGED <<playerRoom, made, strayed>>
      /\ lastHB' = lastHB \cup {socks[c].player} /\ late' = late \ {socks[c].player}
  BY DEF Receives
<1>2. socks[c] \in Sock
  BY <1>1 DEF MonoInv, SocksOK
<1>3. socks[c].player \in Player
  BY <1>2 DEF Sock
<1>4. BeatsOK'
  BY <1>1, <1>3 DEF MonoInv, BeatsOK
<1>5. QED
  BY <1>1, <1>2, <1>4

LEMMA OtherSound ==
    ASSUME MonoInv, NEW c, Other(c)
    PROVE  MonoInv' /\ HeldOut
<1>1. Receives(c) /\ UNCHANGED <<rooms, boards, tickets, nextAdd>>
  BY DEF Other
<1>2. BeatsOK' /\ UNCHANGED sockvars /\ UNCHANGED <<playerRoom, made, strayed>>
  BY <1>1, ReceivesHeard
<1>3. UNCHANGED roomvars /\ rooms' = rooms
  BY <1>1, <1>2 DEF roomvars
<1>4. SocksOK' /\ SocketsFollowMembers'
  BY <1>2, <1>3, SocksKept
<1>5. QED
  BY <1>2, <1>3, <1>4, RoomsKept DEF MonoInv

LEMMA ShotSound ==
    ASSUME MonoInv, NEW c, Shot(c)
    PROVE  MonoInv' /\ HeldOut
<1> DEFINE id == socks[c].room
           p == socks[c].player
           shot == [boards[id] EXCEPT ![p].pending = TRUE]
<1>1. Receives(c) /\ HasBoard(c) /\ UNCHANGED <<rooms, tickets, nextAdd>>
      /\ boards' = [boards EXCEPT ![id] = shot]
  BY DEF Shot
<1>2. BeatsOK' /\ UNCHANGED sockvars /\ UNCHANGED <<playerRoom, made, strayed>>
  BY <1>1, ReceivesHeard
<1>3. id \in DOMAIN boards /\ boards[id] \in [DOMAIN boards[id] -> Board] /\ p \in DOMAIN boards[id]
  BY <1>1 DEF HasBoard, MonoInv, GamesOK
<1>4. shot \in [DOMAIN boards[id] -> Board]
  BY <1>3 DEF Board
<1> HIDE DEF id, p, shot
<1>5. QED
  BY <1>1, <1>2, <1>3, <1>4, BoardsSound DEF MonoInv

\* A game with boards is one in a room that plays.
LEMMA BoardsArePlayed ==
    ASSUME MonoInv, NEW id \in DOMAIN boards, id \in RoomId
    PROVE  id \in DOMAIN rooms /\ rooms[id].state = "playing" /\ id \in nextAdd
BY DEF MonoInv, GamesAreSetUp

LEMMA LandSound ==
    ASSUME MonoInv, NEW c, NEW outcome \in Status, Land(c, outcome)
    PROVE  MonoInv' /\ HeldOut
<1> DEFINE id == socks[c].room
           p == socks[c].player
           b == boards[id]
           landed == [b EXCEPT ![p] = [status |-> outcome, pending |-> FALSE]]
<1>1. Receives(c) /\ HasBoard(c)
  BY DEF Land
<1>2. PICK bs \in {b} \cup (IF b[p] = [NewBoard EXCEPT !.pending = TRUE] THEN {landed} ELSE {}) :
              \/ Decided(id, bs) /\ Settle(id, bs)
              \/ /\ ~Decided(id, bs)
                 /\ boards' = [boards EXCEPT ![id] = bs]
                 /\ UNCHANGED <<rooms, tickets, nextAdd>>
  BY DEF Land
<1>3. /\ BeatsOK' /\ UNCHANGED sockvars /\ UNCHANGED <<playerRoom, made, strayed>>
      /\ socks[c] \in Sock
  BY <1>1, ReceivesHeard
<1>4. id \in DOMAIN boards /\ p \in DOMAIN b /\ b \in [DOMAIN b -> Board] /\ id \in RoomId
  BY <1>1, <1>3 DEF HasBoard, MonoInv, GamesOK, Sock
<1>5. id \in DOMAIN rooms
  BY <1>4, BoardsArePlayed
<1> HIDE DEF id, p, b
<1>6. [status |-> outcome, pending |-> FALSE] \in Board
  BY DEF Board
<1>7. bs \in [DOMAIN b -> Board]
  BY <1>2, <1>4, <1>6
<1>8. \A q \in DOMAIN bs :
         /\ bs[q].status = "lose" => b[q].status = "lose" \/ b[q].pending
         /\ bs[q].status # "lose" => b[q].status # "lose"
  <2>1. CASE bs = b
    BY <2>1
  <2>2. CASE bs # b
    <3>1. bs = landed /\ b[p] = [NewBoard EXCEPT !.pending = TRUE]
      BY <1>2, <2>2
    <3>2. b[p].pending = TRUE /\ b[p].status = "playing"
      BY <3>1 DEF NewBoard
    <3>3. \A q \in DOMAIN bs \ {p} : bs[q] = b[q]
      BY <3>1
    <3>4. QED
      BY <3>2, <3>3
  <2>3. QED
    BY <2>1, <2>2
<1> HIDE DEF landed
<1>9. CASE Decided(id, bs) /\ Settle(id, bs)
  <2>1. DOMAIN bs = DOMAIN b
    BY <1>7
  <2>2. QED
    BY <1>3, <1>5, <1>8, <1>9, <2>1, SettleSound DEF MonoInv, b
<1>10. CASE /\ boards' = [boards EXCEPT ![id] = bs]
            /\ UNCHANGED <<rooms, tickets, nextAdd>>
  BY <1>3, <1>4, <1>7, <1>10, BoardsSound DEF MonoInv, b
<1>11. QED
  BY <1>2, <1>9, <1>10

LEMMA BuildStateSound ==
    ASSUME MonoInv, NEW c, BuildState(c)
    PROVE  MonoInv' /\ HeldOut
<1> DEFINE id == socks[c].room
           b == boards[id]
<1>1. /\ c \in DOMAIN socks /\ id \in DOMAIN rooms /\ id \in DOMAIN boards
      /\ UNCHANGED <<playerRoom, made, strayed>> /\ UNCHANGED sockvars /\ UNCHANGED beatvars
  BY DEF BuildState
<1>2. \/ Decided(id, b) /\ Settle(id, b)
      \/ /\ UNCHANGED boards \/ \E bs \in Layered(b) : boards' = [boards EXCEPT ![id] = bs]
         /\ nextAdd' = nextAdd \cup {id} /\ UNCHANGED <<rooms, tickets>>
  BY DEF BuildState
<1>3. BeatsOK'
  BY <1>1, BeatsKept DEF MonoInv
<1>4. id \in RoomId
  BY <1>1, RoomIds DEF MonoInv
<1>5. id \in nextAdd
  BY <1>1, <1>4, BoardsArePlayed
<1>6. b \in [DOMAIN b -> Board]
  BY <1>1 DEF MonoInv, GamesOK
<1> HIDE DEF id, b
<1>7. CASE Decided(id, b) /\ Settle(id, b)
  BY <1>1, <1>3, <1>7, SettleSound DEF MonoInv, b
<1>8. CASE UNCHANGED boards /\ nextAdd' = nextAdd \cup {id} /\ UNCHANGED <<rooms, tickets>>
  <2>1. UNCHANGED roomvars /\ rooms' = rooms
    BY <1>1, <1>5, <1>8 DEF roomvars
  <2>2. SocksOK' /\ SocketsFollowMembers'
    BY <1>1, <2>1, SocksKept
  <2>3. QED
    BY <1>3, <2>1, <2>2, RoomsKept DEF MonoInv
<1>9. ASSUME NEW bs \in Layered(b), boards' = [boards EXCEPT ![id] = bs],
             nextAdd' = nextAdd \cup {id}, UNCHANGED <<rooms, tickets>>
      PROVE  MonoInv' /\ HeldOut
  <2>1. {NewBoard, [status |-> "lose", pending |-> FALSE]} \subseteq Board
    BY DEF NewBoard, Board, Status
  <2>2. bs \in [DOMAIN b -> Board]
    BY <1>9, <2>1 DEF Layered
  <2>3. UNCHANGED <<rooms, playerRoom, tickets, nextAdd, made, strayed>>
    BY <1>1, <1>5, <1>9
  <2>4. QED
    BY <1>1, <1>3, <1>9, <2>2, <2>3, BoardsSound DEF MonoInv, b
<1>10. QED
  BY <1>2, <1>7, <1>8, <1>9

-----------------------------------------------------------------------------
(* Room sockets *)

LEMMA WSCheckSound ==
    ASSUME MonoInv, NEW c \in Conn, NEW p \in Player, NEW id \in RoomId, WSCheck(c, p, id)
    PROVE  MonoInv' /\ HeldOut
<1> DEFINE new == [room |-> id, player |-> p, registered |-> FALSE, open |-> TRUE]
<1>1. /\ c \notin DOMAIN socks /\ socks' = Put(socks, c, new)
      /\ roomConns' = roomConns /\ loose' = loose /\ UNCHANGED roomvars /\ UNCHANGED beatvars
      /\ rooms' = rooms
  BY DEF WSCheck, roomvars
<1>2. new \in Sock /\ ~new.registered
  BY MonoBoundsAssumption DEF Sock, RoomId
<1> HIDE DEF new
<1>3. /\ DOMAIN socks' = DOMAIN socks \cup {c} /\ socks'[c] = new
      /\ \A d \in DOMAIN socks : socks'[d] = socks[d]
      /\ socks' = [d \in DOMAIN socks' |-> socks'[d]]
  BY <1>1 DEF Put
<1>4. SocksOK'
  <2>1. \A d \in DOMAIN socks' : socks'[d] \in Sock
    BY <1>2, <1>3 DEF MonoInv, SocksOK
  <2>2. socks' \in [DOMAIN socks' -> Sock] /\ DOMAIN socks' \subseteq Conn
    BY <1>3, <2>1 DEF MonoInv, SocksOK
  <2>3. QED
    BY <1>1, <1>3, <2>2 DEF MonoInv, SocksOK
<1>5. SocketsFollowMembers'
  BY <1>1, <1>2, <1>3 DEF MonoInv, SocketsFollowMembers
<1>6. QED
  BY <1>1, <1>4, <1>5, RoomsKept, BeatsKept DEF MonoInv

\* Hanging up on sockets leaves the rest as it is.
LEMMA HangUpSound ==
    ASSUME MonoInv, NEW cs, socks' = HangUp(cs), UNCHANGED <<roomConns, loose, rooms>>
    PROVE  SocksOK' /\ SocketsFollowMembers'
<1>1. /\ DOMAIN socks' = DOMAIN socks /\ socks' \in [DOMAIN socks -> Sock]
      /\ \A c \in DOMAIN socks :
            /\ socks'[c].room = socks[c].room /\ socks'[c].player = socks[c].player
            /\ socks'[c].registered = socks[c].registered
            /\ socks'[c].open => socks[c].open /\ c \notin cs
  BY HungUp DEF MonoInv
<1>2. SocksOK'
  BY <1>1 DEF MonoInv, SocksOK
<1>3. SocketsFollowMembers'
  BY <1>1 DEF MonoInv, SocketsFollowMembers
<1>4. QED
  BY <1>2, <1>3

LEMMA DropSound ==
    ASSUME MonoInv, NEW c, Drop(c) \/ BuildStateGone(c)
    PROVE  MonoInv' /\ HeldOut
<1>1. socks' = HangUp({c}) /\ UNCHANGED <<roomConns, loose, rooms>>
      /\ UNCHANGED roomvars /\ UNCHANGED beatvars
  BY DEF Drop, BuildStateGone, roomvars
<1>2. QED
  BY <1>1, HangUpSound, RoomsKept, BeatsKept DEF MonoInv

\* A socket takes the entry of its player, whose earlier socket is closed; it
\* counts as loose when its player has left meanwhile.
LEMMA WSRegisterSound ==
    ASSUME MonoInv, NEW c, WSRegister(c)
    PROVE  MonoInv' /\ HeldOut
<1> DEFINE id == socks[c].room
           p == socks[c].player
           k == <<id, p>>
           old == IF k \in DOMAIN roomConns THEN {roomConns[k]} ELSE {}
<1>1. /\ c \in DOMAIN socks /\ ~socks[c].registered
      /\ socks' = [HangUp(old) EXCEPT ![c].registered = TRUE]
      /\ roomConns' = Put(roomConns, k, c)
      /\ loose' = IF Seated(p, id) THEN loose ELSE loose \cup {c}
      /\ lastHB' = lastHB \cup {p} /\ late' = late \ {p}
      /\ UNCHANGED roomvars /\ rooms' = rooms
  BY DEF WSRegister, roomvars
<1>2. SocksOK /\ SocketsFollowMembers /\ SeatsAreMemberships /\ BeatsOK
  BY DEF MonoInv
<1>3. socks[c] \in Sock /\ p \in Player
  BY <1>1, <1>2 DEF SocksOK, Sock
<1>4. k \in DOMAIN roomConns => old = {roomConns[k]}
  OBVIOUS
<1> HIDE DEF old, k
<1>5. /\ DOMAIN HangUp(old) = DOMAIN socks /\ HangUp(old) \in [DOMAIN socks -> Sock]
      /\ \A d \in DOMAIN socks :
            /\ HangUp(old)[d].room = socks[d].room /\ HangUp(old)[d].player = socks[d].player
            /\ HangUp(old)[d].registered = socks[d].registered
            /\ HangUp(old)[d].open => socks[d].open /\ d \notin old
  BY <1>2, HungUp
<1> DEFINE h == HangUp(old)
<1> HIDE DEF h
<1>6. /\ DOMAIN socks' = DOMAIN socks /\ socks' \in [DOMAIN socks -> Sock]
      /\ socks'[c] = [h[c] EXCEPT !.registered = TRUE]
      /\ \A d \in DOMAIN socks \ {c} : socks'[d] = h[d]
  <2> DEFINE x == [h[c] EXCEPT !.registered = TRUE]
  <2>1. h \in [DOMAIN socks -> Sock] /\ socks' = [h EXCEPT ![c] = x]
    BY <1>1, <1>5 DEF h
  <2>2. x \in Sock
    BY <1>1, <2>1, ZenonT(60) DEF Sock
  <2> HIDE DEF x
  <2>3. /\ DOMAIN socks' = DOMAIN socks /\ socks' \in [DOMAIN socks -> Sock]
        /\ socks'[c] = x /\ \A d \in DOMAIN socks \ {c} : socks'[d] = h[d]
    BY <1>1, <2>1, <2>2
  <2>4. QED
    BY <2>3 DEF x
<1>7. socks'[c].registered /\ socks'[c].room = id /\ socks'[c].player = p
  <2>1. h[c] \in Sock /\ h[c].room = id /\ h[c].player = p
    BY <1>1, <1>5 DEF h
  <2>2. QED
    BY <1>6, <2>1 DEF Sock
<1> HIDE DEF id, p
<1>8. \A d \in DOMAIN socks \ {c} :
         /\ socks'[d].room = socks[d].room /\ socks'[d].player = socks[d].player
         /\ socks'[d].registered = socks[d].registered
         /\ socks'[d].open => socks[d].open /\ d \notin old
  BY <1>5, <1>6 DEF h
<1>9. /\ DOMAIN roomConns' = DOMAIN roomConns \cup {k} /\ roomConns'[k] = c
      /\ \A j \in DOMAIN roomConns \ {k} : roomConns'[j] = roomConns[j]
  BY <1>1 DEF Put
<1>10. SocksOK'
  <2>1. ASSUME NEW j \in DOMAIN roomConns'
        PROVE  /\ roomConns'[j] \in DOMAIN socks' /\ socks'[roomConns'[j]].registered
               /\ j = <<socks'[roomConns'[j]].room, socks'[roomConns'[j]].player>>
    <3>1. CASE j = k
      BY <1>1, <1>6, <1>7, <1>9, <3>1 DEF k
    <3>2. CASE j # k
      <4>1. /\ roomConns'[j] = roomConns[j] /\ roomConns[j] \in DOMAIN socks
            /\ socks[roomConns[j]].registered
            /\ j = <<socks[roomConns[j]].room, socks[roomConns[j]].player>>
        BY <1>2, <1>9, <3>2 DEF SocksOK
      <4>2. roomConns[j] # c
        BY <1>1, <4>1
      <4>3. QED
        BY <1>6, <1>8, <4>1, <4>2
    <3>3. QED
      BY <3>1, <3>2
  <2>2. loose' \subseteq DOMAIN socks'
    BY <1>1, <1>2, <1>6 DEF SocksOK
  <2>3. QED
    BY <1>2, <1>6, <2>1, <2>2 DEF SocksOK
<1>11. SocketsFollowMembers'
  <2> SUFFICES ASSUME NEW d \in DOMAIN socks \ loose', socks'[d].registered, socks'[d].open
               PROVE  /\ <<socks'[d].room, socks'[d].player>> \in DOMAIN roomConns'
                      /\ roomConns'[<<socks'[d].room, socks'[d].player>>] = d
                      /\ socks'[d].room \in DOMAIN rooms
                      /\ socks'[d].player \in rooms[socks'[d].room].players
    BY <1>1, <1>6 DEF SocketsFollowMembers
  <2>1. CASE d = c
    <3>1. Seated(p, id)
      BY <1>1, <2>1
    <3>2. id \in DOMAIN rooms /\ p \in rooms[id].players
      BY <1>2, <3>1 DEF SeatsAreMemberships, Seated
    <3>3. QED
      BY <1>7, <1>9, <2>1, <3>2 DEF k
  <2>2. CASE d # c
    <3> DEFINE j == <<socks[d].room, socks[d].player>>
    <3>1. d \in DOMAIN socks \ loose /\ socks[d].registered /\ socks[d].open /\ d \notin old
      BY <1>1, <1>8, <2>2
    <3>2. /\ j \in DOMAIN roomConns /\ roomConns[j] = d /\ socks[d].room \in DOMAIN rooms
          /\ socks[d].player \in rooms[socks[d].room].players
      BY <1>2, <3>1 DEF SocketsFollowMembers
    <3> HIDE DEF j
    <3>3. j # k
      BY <1>4, <3>1, <3>2
    <3>4. j \in DOMAIN roomConns' /\ roomConns'[j] = d
      BY <1>9, <3>2, <3>3
    <3>5. QED
      BY <1>8, <2>2, <3>2, <3>4 DEF j
  <2>3. QED
    BY <2>1, <2>2
<1>12. BeatsOK'
  BY <1>1, <1>2, <1>3 DEF BeatsOK
<1>13. QED
  BY <1>1, <1>10, <1>11, <1>12, RoomsKept DEF MonoInv

\* The cleanup makes the socket it displaces loose.
LEMMA WSCleanupSound ==
    ASSUME MonoInv, NEW c, WSCleanup(c)
    PROVE  MonoInv' /\ HeldOut
<1> DEFINE k == <<socks[c].room, socks[c].player>>
<1>1. /\ c \in DOMAIN socks /\ roomConns' = Del(roomConns, k) /\ socks' = Del(socks, c)
      /\ loose' = (loose \ {c}) \cup (IF k \in DOMAIN roomConns THEN {roomConns[k]} \ {c} ELSE {})
      /\ UNCHANGED roomvars /\ UNCHANGED beatvars /\ rooms' = rooms
  BY DEF WSCleanup, roomvars
<1>2. SocksOK /\ SocketsFollowMembers
  BY DEF MonoInv
<1>3. /\ DOMAIN socks' = DOMAIN socks \ {c}
      /\ \A d \in DOMAIN socks \ {c} : socks'[d] = socks[d]
      /\ socks' = [d \in DOMAIN socks' |-> socks'[d]]
      /\ DOMAIN roomConns' = DOMAIN roomConns \ {k}
      /\ \A j \in DOMAIN roomConns \ {k} : roomConns'[j] = roomConns[j]
  BY <1>1 DEF Del
<1>4. \A j \in DOMAIN roomConns : roomConns[j] = c => j = k
  BY <1>2 DEF SocksOK
<1> HIDE DEF k
<1>5. SocksOK'
  <2>1. socks' \in [DOMAIN socks' -> Sock] /\ DOMAIN socks' \subseteq Conn
    BY <1>2, <1>3 DEF SocksOK
  <2>2. \A j \in DOMAIN roomConns' : roomConns'[j] = roomConns[j] /\ roomConns[j] \in DOMAIN socks'
    BY <1>2, <1>3, <1>4 DEF SocksOK
  <2>3. loose' \subseteq DOMAIN socks'
    BY <1>1, <1>2, <1>3 DEF SocksOK
  <2>4. QED
    BY <1>2, <1>3, <2>1, <2>2, <2>3 DEF SocksOK
<1>6. SocketsFollowMembers'
  <2> SUFFICES ASSUME NEW d \in DOMAIN socks \ {c}, d \notin loose', socks[d].registered, socks[d].open
               PROVE  /\ <<socks[d].room, socks[d].player>> \in DOMAIN roomConns'
                      /\ roomConns'[<<socks[d].room, socks[d].player>>] = d
                      /\ socks[d].room \in DOMAIN rooms
                      /\ socks[d].player \in rooms[socks[d].room].players
    BY <1>1, <1>3 DEF SocketsFollowMembers
  <2> DEFINE j == <<socks[d].room, socks[d].player>>
  <2>1. d \notin loose
    BY <1>1
  <2>2. /\ j \in DOMAIN roomConns /\ roomConns[j] = d /\ socks[d].room \in DOMAIN rooms
        /\ socks[d].player \in rooms[socks[d].room].players
    BY <1>2, <2>1 DEF SocketsFollowMembers
  <2> HIDE DEF j
  <2>3. j # k
    BY <1>1, <2>2
  <2>4. QED
    BY <1>3, <2>2, <2>3 DEF j
<1>7. QED
  BY <1>1, <1>5, <1>6, RoomsKept, BeatsKept DEF MonoInv

-----------------------------------------------------------------------------
(* The server *)

LEMMA MonoInitSound == MonoInit => MonoInv
<1> SUFFICES ASSUME MonoInit PROVE MonoInv
  OBVIOUS
<1>1. /\ DOMAIN rooms = {} /\ DOMAIN playerRoom = {} /\ DOMAIN boards = {}
      /\ DOMAIN tickets = {} /\ DOMAIN socks = {} /\ DOMAIN roomConns = {}
      /\ rooms = [id \in DOMAIN rooms |-> rooms[id]]
      /\ playerRoom = [q \in DOMAIN playerRoom |-> playerRoom[q]]
      /\ socks = [c \in DOMAIN socks |-> socks[c]]
      /\ made = 0 /\ nextAdd = {} /\ strayed = {} /\ loose = {} /\ late = {} /\ lastHB = {}
  BY DEF MonoInit, EmptyMap
<1>2. RoomsOK
  BY <1>1, MonoBoundsAssumption DEF RoomsOK
<1>3. GamesOK /\ SocksOK /\ BeatsOK
  BY <1>1 DEF GamesOK, SocksOK, BeatsOK
<1>4. GamesAreSetUp /\ SeatsAreMemberships /\ SocketsFollowMembers
  BY <1>1 DEF GamesAreSetUp, SeatsAreMemberships, SocketsFollowMembers
<1>5. QED
  BY <1>2, <1>3, <1>4 DEF MonoInv

LEMMA ExpireSound ==
    ASSUME MonoInv, NEW p \in Player, Expire(p)
    PROVE  MonoInv' /\ HeldOut
<1>1. UNCHANGED roomvars /\ UNCHANGED sockvars /\ rooms' = rooms
      /\ lastHB' = lastHB /\ late' = late \cup {p} /\ p \in lastHB
  BY DEF Expire, roomvars
<1>2. BeatsOK'
  BY <1>1 DEF MonoInv, BeatsOK
<1>3. SocksOK' /\ SocketsFollowMembers'
  BY <1>1, SocksKept
<1>4. QED
  BY <1>1, <1>2, <1>3, RoomsKept DEF MonoInv

LEMMA MonoInvInductive == MonoInv /\ [MonoNext]_monovars => MonoInv' /\ HeldOut
<1> SUFFICES ASSUME MonoInv, [MonoNext]_monovars PROVE MonoInv' /\ HeldOut
  OBVIOUS
<1>1. CASE UNCHANGED monovars
  <2>1. UNCHANGED roomvars /\ UNCHANGED sockvars /\ UNCHANGED beatvars /\ rooms' = rooms
    BY <1>1 DEF monovars, roomvars, sockvars, beatvars
  <2>2. SocksOK' /\ SocketsFollowMembers'
    BY <2>1, SocksKept
  <2>3. QED
    BY <2>1, <2>2, RoomsKept, BeatsKept DEF MonoInv
<1>2. CASE Request
  BY <1>2, createRoomSound, handleJoinSound, handleLeaveSound, handleStartSound DEF Request
<1>3. CASE Socket
  <2>1. PICK c \in Conn :
          \/ \E p \in Player, id \in RoomId : <<p, id>> \in Watched /\ WSCheck(c, p, id)
          \/ WSRegister(c) \/ WSCleanup(c) \/ Drop(c) \/ BuildStateGone(c)
          \/ Other(c) \/ Shot(c)
          \/ \E outcome \in Status : Land(c, outcome)
          \/ BuildState(c)
    BY <1>3 DEF Socket
  <2>2. CASE \/ \E p \in Player, id \in RoomId : <<p, id>> \in Watched /\ WSCheck(c, p, id)
             \/ WSRegister(c) \/ WSCleanup(c) \/ Drop(c) \/ BuildStateGone(c)
    BY <2>2, WSCheckSound, WSRegisterSound, WSCleanupSound, DropSound
  <2>3. CASE \/ Other(c) \/ Shot(c)
             \/ \E outcome \in Status : Land(c, outcome)
             \/ BuildState(c)
    BY <2>3, OtherSound, ShotSound, LandSound, BuildStateSound
  <2>4. QED
    BY <2>1, <2>2, <2>3
<1>4. CASE (\E p \in Player : Expire(p)) \/ heartbeatLoop
  BY <1>4, ExpireSound, heartbeatLoopSound
<1>5. QED
  BY <1>1, <1>2, <1>3, <1>4 DEF MonoNext

THEOREM MonoInvHolds == MonoSafe => []MonoInv
<1>1. MonoInv /\ [MonoNext]_monovars => MonoInv'
  BY MonoInvInductive
<1>2. QED
  BY <1>1, MonoInitSound, PTL DEF MonoSafe

-----------------------------------------------------------------------------
(* What the runs check *)

\* Types: every table names only rooms, sockets and players there are, and a
\* registered socket has a running handler for its room and player (roomConns).
THEOREM MonoTypeCorrect == MonoSafe => []MonoTypeOK
<1>1. MonoInv => MonoTypeOK
  BY DEF MonoInv, RoomsOK, GamesOK, SocksOK, BeatsOK, MonoTypeOK
<1>2. QED
  BY <1>1, MonoInvHolds, PTL

\* A game has all its tables exactly while its room plays, and two players
\* (handleStart, removePlayerLocked, resolveRoomOutcomeLocked).
THEOREM GamesSafe == MonoSafe => []GamesAreSetUp
<1>1. MonoInv => GamesAreSetUp
  BY DEF MonoInv
<1>2. QED
  BY <1>1, MonoInvHolds, PTL

\* Seats and memberships agree but for players who joined a second room
\* (playerRoom, handleJoin, removePlayerLocked).
THEOREM SeatsSafe == MonoSafe => []SeatsAreMemberships
<1>1. MonoInv => SeatsAreMemberships
  BY DEF MonoInv
<1>2. QED
  BY <1>1, MonoInvHolds, PTL

\* Nobody who left a room keeps an open socket to it, but for the sockets the
\* tables lost sight of (removePlayerLocked, the cleanup of handleWSRoom).
THEOREM SocketsSafe == MonoSafe => []SocketsFollowMembers
<1>1. MonoInv => SocketsFollowMembers
  BY DEF MonoInv
<1>2. QED
  BY <1>1, MonoInvHolds, PTL

\* Whoever becomes the winner held out in that game (removePlayerLocked,
\* resolveRoomOutcomeLocked).
THEOREM WinnersSafe == MonoSafe => WinnersHeldOut
<1>1. MonoInv /\ [MonoNext]_monovars =>
        [\A id \in DOMAIN rooms \cap DOMAIN rooms' :
            \A p \in rooms'[id].winner \ rooms[id].winner :
               /\ rooms[id].state = "playing"
               /\ p \in rooms'[id].players \cap DOMAIN boards[id]
               /\ boards[id][p].status # "lose"
               /\ \A q \in rooms'[id].players \cap DOMAIN boards[id] :
                     q # p => boards[id][q].status = "lose" \/ boards[id][q].pending]_monovars
  BY MonoInvInductive DEF HeldOut
<1>2. QED
  BY <1>1, MonoInvHolds, PTL DEF MonoSafe, WinnersHeldOut
=============================================================================
