-------------------------- MODULE GameServerProofs --------------------------
(***************************************************************************)
(* Proofs about GameServer, for any players, connections and bounds.  The  *)
(* inductive invariant GSInv says of every session what resolveOutcome has *)
(* to re-establish (SessionInv), and of the settlement in progress that it *)
(* is the one of a game with a winner.                                     *)
(***************************************************************************)
EXTENDS GameServer, RoomManagerProofs

\* A named winner is a player whom all the others have lost to.
WinnerInv(s) ==
    s.winner # NoOne =>
        /\ s.winner \in DOMAIN s.states
        /\ \A q \in DOMAIN s.states \ {s.winner} : s.states[q] = "lose"

\* A sole survivor has been named.
SurvivorInv(s) ==
    \A p, q \in DOMAIN s.states :
        /\ p # q /\ s.states[p] # "lose"
        /\ \A o \in DOMAIN s.states \ {p} : s.states[o] = "lose"
        => s.winner = p

SessionsInv ==
    /\ made \in 0 .. MaxSessions
    /\ sessions \in [DOMAIN sessions -> Session]
    /\ DOMAIN sessions \subseteq Nat \ {0}
    /\ \A id \in DOMAIN sessions :
          /\ WinnerInv(sessions[id])
          /\ SurvivorInv(sessions[id])
          /\ sessions[id].gen <= made

\* Server.mu is kept for a game that has a winner and is not settled, and every
\* other game that has one is settled.
SettlingInv ==
    /\ settling \in [room : Nat, todo : SUBSET Player]
    /\ settling # NotSettling =>
          /\ settling.room \in DOMAIN sessions
          /\ sessions[settling.room].winner # NoOne
          /\ ~sessions[settling.room].finalized
    /\ \A id \in DOMAIN sessions :
          /\ sessions[id].finalized => sessions[id].winner # NoOne
          /\ sessions[id].winner # NoOne => sessions[id].finalized \/ settling.room = id

\* Handlers and registrations belong to sessions that exist, and a registered
\* connection is one of the room and player it is registered for.
ConnsInv ==
    /\ DOMAIN conns \subseteq Conn
    /\ conns \in [DOMAIN conns -> [room : DOMAIN sessions, player : Player, open : BOOLEAN]]
    /\ wsConns \in [DOMAIN wsConns -> DOMAIN conns]
    /\ \A k \in DOMAIN wsConns : k = <<conns[wsConns[k]].room, conns[wsConns[k]].player>>

GSInv == RMInv /\ SessionsInv /\ SettlingInv /\ ConnsInv /\ crashed \in BOOLEAN

\* What a step may not do to the winner of a game (the body of WinnerIsFinal).
WinnersStay ==
    \A id \in DOMAIN sessions :
        sessions[id].winner # NoOne /\ sessions'[id].gen = sessions[id].gen
            => sessions'[id].winner = sessions[id].winner

\* A session t of the same game as s, which nobody re-enters.
SameGame(s, t) ==
    /\ t \in Session
    /\ t.gen = s.gen /\ t.finalized = s.finalized
    /\ DOMAIN t.states = DOMAIN s.states /\ Alive(t) \subseteq Alive(s)

\* What a landing or a tick stores in the place of s: the same game, with a
\* winner who stays or who has just been left alone.
GoesOn(s, u) ==
    /\ SameGame(s, u) /\ WinnerInv(u) /\ SurvivorInv(u)
    /\ s.winner # NoOne => u.winner = s.winner
    /\ HasOutcome(u) => u.winner # NoOne
    /\ ~HasOutcome(u) => u.winner = s.winner

-----------------------------------------------------------------------------
(* Facts about sessions *)

LEMMA StatesType ==
    \A f : f \in UNION {[S -> Status] : S \in SUBSET Player}
              <=> DOMAIN f \in SUBSET Player /\ f \in [DOMAIN f -> Status]
<1> TAKE f
<1>1. ASSUME f \in UNION {[S -> Status] : S \in SUBSET Player}
      PROVE  DOMAIN f \in SUBSET Player /\ f \in [DOMAIN f -> Status]
  <2>1. PICK S \in SUBSET Player : f \in [S -> Status]
    BY <1>1
  <2>2. DOMAIN f = S
    BY <2>1
  <2>3. QED
    BY <2>1, <2>2
<1>2. ASSUME DOMAIN f \in SUBSET Player /\ f \in [DOMAIN f -> Status]
      PROVE  f \in UNION {[S -> Status] : S \in SUBSET Player}
  BY <1>2
<1>3. QED
  BY <1>1, <1>2

\* The fields of a session, one by one.
LEMMA SessionFields ==
    ASSUME NEW s \in Session
    PROVE  /\ s.gen \in 1 .. MaxSessions
           /\ DOMAIN s.states \in SUBSET Player /\ s.states \in [DOMAIN s.states -> Status]
           /\ s.pending \in SUBSET Player /\ s.stale \in SUBSET Player
           /\ s.winner \in Player \cup {NoOne} /\ s.finalized \in BOOLEAN
<1>1. s.states \in UNION {[S -> Status] : S \in SUBSET Player}
  BY DEF Session
<1>2. QED
  BY <1>1, StatesType DEF Session

\* resolveOutcome names a sole survivor, and renames nobody.
LEMMA ResolveSound ==
    ASSUME NEW s \in Session, WinnerInv(s)
    PROVE  /\ resolveOutcome(s) \in Session
           /\ WinnerInv(resolveOutcome(s))
           /\ SurvivorInv(resolveOutcome(s))
           /\ resolveOutcome(s).gen = s.gen
           /\ resolveOutcome(s).states = s.states
           /\ resolveOutcome(s).finalized = s.finalized
           /\ s.winner # NoOne => resolveOutcome(s).winner = s.winner
           /\ HasOutcome(s) => resolveOutcome(s).winner # NoOne
           /\ ~HasOutcome(s) => resolveOutcome(s) = s
<1> DEFINE D == DOMAIN s.states
           A == Alive(s)
           t == resolveOutcome(s)
<1>1. D \in SUBSET Player /\ A \in SUBSET D
  BY SessionFields DEF Alive
<1>2. IsFiniteSet(D) /\ Cardinality(D) \in Nat /\ IsFiniteSet(A) /\ Cardinality(A) \in Nat
  BY <1>1, PlayersFinite
<1>3. CASE HasOutcome(s)
  <2>1. PICK p : A = {p}
    BY <1>2, <1>3, FS_Singleton DEF HasOutcome
  <2>2. p \in D /\ p \in Player /\ s.states[p] # "lose"
        /\ \A q \in D \ {p} : s.states[q] = "lose"
    BY <1>1, <2>1 DEF Alive
  <2>3. t = [s EXCEPT !.winner = p]
    <3>1. (CHOOSE q \in A : TRUE) = p
      BY <2>1
    <3>2. QED
      BY <1>3, <3>1 DEF resolveOutcome
  <2>4. /\ t \in Session
        /\ t.states = s.states /\ t.gen = s.gen /\ t.finalized = s.finalized /\ t.winner = p
    BY <2>2, <2>3 DEF Session
  <2>5. WinnerInv(t) /\ SurvivorInv(t)
    <3> HIDE DEF t, A
    <3>1. QED
      BY <2>2, <2>4 DEF WinnerInv, SurvivorInv
  <2>6. s.winner # NoOne => t.winner = s.winner
    BY <2>2, <2>4 DEF WinnerInv
  <2>7. t.winner # NoOne
    BY <2>2, <2>4, NoOneAssumption
  <2>8. QED
    BY <1>3, <2>4, <2>5, <2>6, <2>7
<1>4. CASE ~HasOutcome(s)
  <2>1. t = s
    BY <1>4 DEF resolveOutcome
  <2>2. SurvivorInv(s)
    <3> SUFFICES ASSUME NEW p \in D, NEW q \in D, p # q, s.states[p] # "lose",
                        \A o \in D \ {p} : s.states[o] = "lose"
                 PROVE  FALSE
      BY DEF SurvivorInv
    <3>1. A = {p}
      BY DEF Alive
    <3>2. Cardinality(A) = 1
      BY <3>1, FS_Singleton
    <3>3. Cardinality({p, q}) = 2 /\ {p, q} \in SUBSET D
      <4>1. {p, q} = {p} \cup {q} /\ q \notin {p}
        OBVIOUS
      <4>2. IsFiniteSet({p}) /\ Cardinality({p}) = 1
        BY FS_Singleton
      <4>3. QED
        BY <4>1, <4>2, FS_AddElement
    <3>4. Cardinality(D) >= 2
      BY <1>2, <3>3, FS_Subset
    <3>5. QED
      BY <1>4, <3>2, <3>4 DEF HasOutcome
  <2>3. QED
    BY <1>4, <2>1, <2>2
<1>5. QED
  BY <1>3, <1>4

\* Resolving what became of a game stores its outcome.
LEMMA ResolveGoesOn ==
    ASSUME NEW s, NEW t, SameGame(s, t), t.winner = s.winner, WinnerInv(t)
    PROVE  GoesOn(s, resolveOutcome(t))
<1> DEFINE u == resolveOutcome(t)
<1>1. t \in Session
  BY DEF SameGame
<1>2. /\ u \in Session /\ WinnerInv(u) /\ SurvivorInv(u) /\ u.gen = t.gen /\ u.states = t.states
      /\ u.finalized = t.finalized
      /\ t.winner # NoOne => u.winner = t.winner
      /\ HasOutcome(t) => u.winner # NoOne
      /\ ~HasOutcome(t) => u = t
  BY <1>1, ResolveSound
<1> HIDE DEF u
<1>3. (HasOutcome(u) <=> HasOutcome(t)) /\ Alive(u) = Alive(t)
  BY <1>2 DEF HasOutcome, Alive
<1>4. SameGame(s, u)
  BY <1>2, <1>3 DEF SameGame
<1>5. GoesOn(s, u)
  BY <1>2, <1>3, <1>4 DEF GoesOn
<1>6. QED
  BY <1>5 DEF u

-----------------------------------------------------------------------------
(* What a step does to one session *)

\* A session is replaced by a sound one of the same game, whose winner stays.
LEMMA ReplaceSession ==
    ASSUME SessionsInv, NEW id \in DOMAIN sessions, NEW s \in Session,
           WinnerInv(s), SurvivorInv(s), s.gen = sessions[id].gen,
           sessions[id].winner # NoOne => s.winner = sessions[id].winner,
           sessions' = [sessions EXCEPT ![id] = s], UNCHANGED made
    PROVE  /\ SessionsInv'
           /\ WinnersStay
           /\ DOMAIN sessions' = DOMAIN sessions
           /\ \A j \in DOMAIN sessions : sessions'[j] = IF j = id THEN s ELSE sessions[j]
<1>1. /\ DOMAIN sessions' = DOMAIN sessions
      /\ \A j \in DOMAIN sessions : sessions'[j] = IF j = id THEN s ELSE sessions[j]
      /\ sessions' \in [DOMAIN sessions' -> Session]
  BY DEF SessionsInv
<1>2. SessionsInv'
  BY <1>1 DEF SessionsInv
<1>3. WinnersStay
  BY <1>1 DEF WinnersStay
<1>4. QED
  BY <1>1, <1>2, <1>3

\* Messages and the clock change a session's heartbeats and pending shots.
LEMMA QuietSession ==
    ASSUME SessionsInv, SettlingInv, NEW id \in DOMAIN sessions,
           NEW P \in SUBSET Player, NEW T \in SUBSET Player,
           sessions' = [sessions EXCEPT ![id] = [sessions[id] EXCEPT !.pending = P, !.stale = T]],
           UNCHANGED <<settling, made>>
    PROVE  SessionsInv' /\ SettlingInv' /\ WinnersStay /\ DOMAIN sessions' = DOMAIN sessions
<1> DEFINE s == [sessions[id] EXCEPT !.pending = P, !.stale = T]
<1>1. sessions[id] \in Session /\ WinnerInv(sessions[id]) /\ SurvivorInv(sessions[id])
  BY DEF SessionsInv
<1>2. /\ s \in Session /\ s.states = sessions[id].states /\ s.gen = sessions[id].gen
      /\ s.winner = sessions[id].winner /\ s.finalized = sessions[id].finalized
  BY <1>1 DEF Session
<1>3. sessions' = [sessions EXCEPT ![id] = s]
  OBVIOUS
<1> HIDE DEF s
<1>4. WinnerInv(s) /\ SurvivorInv(s)
  BY <1>1, <1>2 DEF WinnerInv, SurvivorInv
<1>5. /\ SessionsInv' /\ WinnersStay /\ DOMAIN sessions' = DOMAIN sessions
      /\ \A j \in DOMAIN sessions : sessions'[j] = IF j = id THEN s ELSE sessions[j]
  BY <1>2, <1>3, <1>4, ReplaceSession
<1>6. SettlingInv'
  BY <1>2, <1>5 DEF SettlingInv
<1>7. QED
  BY <1>5, <1>6

\* A message refreshes its player's heartbeat.
LEMMA TouchSession ==
    ASSUME SessionsInv, SettlingInv, NEW id \in DOMAIN sessions, NEW p \in Player,
           sessions' = [sessions EXCEPT ![id] = Touch(@, p)],
           UNCHANGED <<settling, made>>
    PROVE  SessionsInv' /\ SettlingInv' /\ WinnersStay /\ DOMAIN sessions' = DOMAIN sessions
<1> DEFINE s == sessions[id]
<1>1. s \in Session
  BY DEF SessionsInv
<1>2. Touch(s, p) = [s EXCEPT !.pending = s.pending, !.stale = s.stale \ {p}]
  BY <1>1 DEF Touch, Session
<1>3. s.pending \in SUBSET Player /\ s.stale \ {p} \in SUBSET Player
  BY <1>1, SessionFields
<1>4. QED
  BY <1>2, <1>3, QuietSession

\* Storing the outcome of a landing or a tick takes the mutex for settling the
\* game exactly when the game has just been decided.
LEMMA StoreKeeps ==
    ASSUME SessionsInv, SettlingInv, settling = NotSettling,
           NEW id \in DOMAIN sessions, NEW s, GoesOn(sessions[id], s),
           Store(id, s), UNCHANGED made
    PROVE  SessionsInv' /\ SettlingInv' /\ WinnersStay /\ DOMAIN sessions' = DOMAIN sessions
<1>1. /\ SessionsInv' /\ WinnersStay /\ DOMAIN sessions' = DOMAIN sessions
      /\ \A j \in DOMAIN sessions : sessions'[j] = IF j = id THEN s ELSE sessions[j]
  BY ReplaceSession DEF Store, GoesOn, SameGame
<1>2. settling' = IF HasOutcome(s) /\ ~s.finalized
                  THEN [room |-> id, todo |-> DOMAIN s.states \ {s.winner}]
                  ELSE NotSettling
  BY DEF Store
<1>3. id \in Nat \ {0} /\ \A j \in DOMAIN sessions : j # 0
  BY DEF SessionsInv
<1>4. \A j \in DOMAIN sessions :
         /\ sessions[j].finalized => sessions[j].winner # NoOne
         /\ sessions[j].winner # NoOne => sessions[j].finalized
  BY <1>3 DEF SettlingInv, NotSettling
<1>5. CASE HasOutcome(s) /\ ~s.finalized
  <2>1. DOMAIN s.states \ {s.winner} \in SUBSET Player
    BY SessionFields DEF GoesOn, SameGame
  <2>2. settling'.room = id /\ settling' \in [room : Nat, todo : SUBSET Player]
    BY <1>2, <1>3, <1>5, <2>1
  <2>3. QED
    BY <1>1, <1>4, <1>5, <2>2 DEF SettlingInv, GoesOn, SameGame
<1>6. CASE ~(HasOutcome(s) /\ ~s.finalized)
  <2>1. settling' = NotSettling /\ NotSettling \in [room : Nat, todo : SUBSET Player]
    BY <1>2, <1>6 DEF NotSettling
  <2>2. /\ s.finalized => s.winner # NoOne
        /\ s.winner # NoOne => s.finalized
    BY <1>4, <1>6 DEF GoesOn, SameGame
  <2>3. QED
    BY <1>1, <1>4, <2>1, <2>2 DEF SettlingInv
<1>7. QED
  BY <1>1, <1>5, <1>6

-----------------------------------------------------------------------------
(* Every step preserves the invariant and the winners *)

LEMMA GSInitInv == GSInit => GSInv
<1> SUFFICES ASSUME GSInit PROVE GSInv
  OBVIOUS
<1>1. RMInv
  BY NewManagerInv DEF GSInit
<1>2. DOMAIN sessions = {} /\ DOMAIN conns = {} /\ DOMAIN wsConns = {}
  BY DEF GSInit, EmptyMap
<1>3. SessionsInv
  BY <1>2, MaxSessionsAssumption DEF GSInit, EmptyMap, SessionsInv
<1>4. SettlingInv
  BY <1>2 DEF GSInit, SettlingInv, NotSettling
<1>5. ConnsInv
  BY <1>2 DEF GSInit, EmptyMap, ConnsInv
<1>6. QED
  BY <1>1, <1>3, <1>4, <1>5 DEF GSInit, GSInv

LEMMA ManagerQuiet == ASSUME RMInv, UNCHANGED rmvars PROVE RMInv'
BY RMInvInductive

\* Steps of the room manager alone.
LEMMA GSRoomRequestInv == ASSUME GSInv, RoomRequest PROVE GSInv' /\ WinnersStay
<1>1. RMNext
  BY DEF RoomRequest, RMNext
<1>2. RMInv'
  BY <1>1, RMInvInductive DEF GSInv
<1>3. UNCHANGED gsvars
  BY DEF RoomRequest
<1>4. SessionsInv' /\ SettlingInv' /\ ConnsInv' /\ crashed' \in BOOLEAN /\ WinnersStay
  BY <1>3 DEF gsvars, GSInv, SessionsInv, SettlingInv, ConnsInv, WinnersStay
<1>5. QED
  BY <1>2, <1>4 DEF GSInv

\* The handlers' tables stay as they are while no session is removed.
LEMMA ConnsKeep ==
    ASSUME ConnsInv, UNCHANGED <<conns, wsConns>>, DOMAIN sessions \subseteq DOMAIN sessions'
    PROVE  ConnsInv'
BY DEF ConnsInv

\* A new session for the members of a room: everybody plays, nobody has won.
LEMMA CreateSessionInv ==
    ASSUME GSInv, NEW id \in DOMAIN rooms, CreateSession(id)
    PROVE  GSInv' /\ WinnersStay
<1> DEFINE P == rooms[id].players
           s == NewSession(P)
<1>1. RMInv'
  BY ManagerQuiet DEF CreateSession, GSInv
<1>2. P \in SUBSET Player /\ id \in Nat \ {0}
  BY DEF GSInv, RMInv, RMTypeOK, Room
<1>3. made + 1 \in 1 .. MaxSessions /\ made \in Nat
  BY MaxSessionsAssumption DEF CreateSession, GSInv, SessionsInv
<1>4. /\ s.states = [p \in P |-> "playing"] /\ s.winner = NoOne
      /\ s.finalized = FALSE /\ s.gen = made + 1
      /\ s.pending = {} /\ s.stale = {}
  BY DEF NewSession
<1>5. s \in Session
  <2>1. s.states \in UNION {[S -> Status] : S \in SUBSET Player}
    BY <1>2, <1>4 DEF Status
  <2>2. QED
    BY <1>3, <1>4, <2>1 DEF Session, NewSession
<1>6. WinnerInv(s)
  BY <1>4 DEF WinnerInv
<1>7. SurvivorInv(s)
  <2> SUFFICES ASSUME NEW p \in DOMAIN s.states, NEW q \in DOMAIN s.states, p # q,
                      \A o \in DOMAIN s.states \ {p} : s.states[o] = "lose"
               PROVE  FALSE
    BY DEF SurvivorInv
  <2>1. s.states[q] = "lose" /\ q \in P
    BY <1>4
  <2>2. QED
    BY <1>4, <2>1
<1>8. /\ DOMAIN sessions' = DOMAIN sessions \cup {id}
      /\ sessions' = [j \in DOMAIN sessions' |-> sessions'[j]]
      /\ sessions'[id] = s
      /\ \A j \in DOMAIN sessions : j # id => sessions'[j] = sessions[j]
      /\ made' = made + 1 /\ settling = NotSettling
      /\ UNCHANGED <<conns, wsConns, settling, crashed>>
  BY DEF CreateSession, Put, MutexFree
<1> HIDE DEF s
<1>9. SessionsInv'
  <2>1. sessions' \in [DOMAIN sessions' -> Session]
    BY <1>5, <1>8 DEF GSInv, SessionsInv
  <2>2. \A j \in DOMAIN sessions' :
           WinnerInv(sessions'[j]) /\ SurvivorInv(sessions'[j]) /\ sessions'[j].gen <= made'
    <3>1. \A j \in DOMAIN sessions : sessions[j].gen <= made /\ sessions[j].gen \in Int
      BY SessionFields DEF GSInv, SessionsInv
    <3>2. QED
      BY <1>3, <1>4, <1>6, <1>7, <1>8, <3>1 DEF GSInv, SessionsInv
  <2>3. made' \in 0 .. MaxSessions
    BY <1>3, <1>8, MaxSessionsAssumption
  <2>4. QED
    BY <1>2, <1>8, <2>1, <2>2, <2>3 DEF GSInv, SessionsInv
<1>10. SettlingInv'
  BY <1>4, <1>8 DEF GSInv, SettlingInv
<1>11. ConnsInv' /\ crashed' \in BOOLEAN
  BY <1>8, ConnsKeep DEF GSInv
<1>12. WinnersStay
  <2>1. id \in DOMAIN sessions => sessions[id].gen <= made /\ sessions[id].gen \in Int
    BY SessionFields DEF GSInv, SessionsInv
  <2>2. QED
    BY <1>3, <1>4, <1>8, <2>1 DEF WinnersStay
<1>13. QED
  BY <1>1, <1>9, <1>10, <1>11, <1>12 DEF GSInv

\* Hanging up a connection changes nothing but its flag.
LEMMA HangupKeeps ==
    ASSUME ConnsInv, NEW c, DOMAIN sessions \subseteq DOMAIN sessions',
           conns' = Hangup(conns, c), UNCHANGED wsConns
    PROVE  ConnsInv'
<1>1. /\ DOMAIN conns' = DOMAIN conns
      /\ conns' = [d \in DOMAIN conns' |-> conns'[d]]
      /\ \A d \in DOMAIN conns :
            /\ conns'[d] \in [room : DOMAIN sessions, player : Player, open : BOOLEAN]
            /\ conns'[d].room = conns[d].room /\ conns'[d].player = conns[d].player
  BY DEF ConnsInv, Hangup
<1>2. \A d \in DOMAIN conns' :
         conns'[d] \in [room : DOMAIN sessions', player : Player, open : BOOLEAN]
  BY <1>1
<1>3. QED
  BY <1>1, <1>2 DEF ConnsInv

\* A new game socket is the registered one of its room and player.
LEMMA ConnectInv ==
    ASSUME GSInv, NEW c \in Conn, NEW id \in DOMAIN sessions, NEW p \in Player, Connect(c, id, p)
    PROVE  GSInv' /\ WinnersStay
<1> DEFINE k == <<id, p>>
           old == IF k \in DOMAIN wsConns THEN Hangup(conns, wsConns[k]) ELSE conns
           Conns == [room : DOMAIN sessions, player : Player, open : BOOLEAN]
<1>1. RMInv'
  BY ManagerQuiet DEF Connect, GSInv
<1>2. SessionsInv' /\ SettlingInv' /\ WinnersStay /\ DOMAIN sessions' = DOMAIN sessions
  BY TouchSession DEF GSInv, Connect
<1>3. /\ DOMAIN old = DOMAIN conns
      /\ \A d \in DOMAIN conns :
            old[d] \in Conns /\ old[d].room = conns[d].room /\ old[d].player = conns[d].player
  BY DEF GSInv, ConnsInv, Hangup
<1>4. /\ c \notin DOMAIN conns
      /\ conns' = Put(old, c, [room |-> id, player |-> p, open |-> TRUE])
      /\ wsConns' = Put(wsConns, k, c)
  BY DEF Connect
<1> HIDE DEF old
<1>5. /\ DOMAIN conns' = DOMAIN conns \cup {c}
      /\ conns' = [d \in DOMAIN conns' |-> conns'[d]]
      /\ conns'[c] = [room |-> id, player |-> p, open |-> TRUE]
      /\ \A d \in DOMAIN conns : conns'[d] = old[d]
  BY <1>3, <1>4 DEF Put
<1>6. /\ DOMAIN wsConns' = DOMAIN wsConns \cup {k}
      /\ wsConns' = [j \in DOMAIN wsConns' |-> wsConns'[j]]
      /\ wsConns'[k] = c
      /\ \A j \in DOMAIN wsConns : j # k => wsConns'[j] = wsConns[j]
  BY <1>4 DEF Put
<1>7. ConnsInv'
  <2> [room |-> id, player |-> p, open |-> TRUE] \in Conns
    OBVIOUS
  <2>1. \A d \in DOMAIN conns' : conns'[d] \in Conns
    <3> HIDE DEF Conns
    <3>1. QED
      BY <1>3, <1>5
  <2>2. \A j \in DOMAIN wsConns :
           /\ wsConns[j] \in DOMAIN conns
           /\ j = <<conns[wsConns[j]].room, conns[wsConns[j]].player>>
    BY DEF GSInv, ConnsInv
  <2>3. ASSUME NEW j \in DOMAIN wsConns'
        PROVE  /\ wsConns'[j] \in DOMAIN conns'
               /\ j = <<conns'[wsConns'[j]].room, conns'[wsConns'[j]].player>>
    <3>1. CASE j = k
      BY <1>5, <1>6, <3>1
    <3>2. CASE j # k
      BY <1>3, <1>5, <1>6, <2>2, <3>2
    <3>3. QED
      BY <3>1, <3>2
  <2>4. DOMAIN conns' \subseteq Conn
    BY <1>5 DEF GSInv, ConnsInv
  <2>5. QED
    BY <1>2, <1>5, <1>6, <2>1, <2>3, <2>4 DEF ConnsInv
<1>8. QED
  BY <1>1, <1>2, <1>7 DEF GSInv, Connect

\* The session a handler works on exists.
LEMMA HandlersSession ==
    ASSUME GSInv, NEW c \in DOMAIN conns
    PROVE  /\ conns[c].room \in DOMAIN sessions /\ conns[c].player \in Player
           /\ sessions[conns[c].room] \in Session
BY DEF GSInv, ConnsInv, SessionsInv

LEMMA ShotInv == ASSUME GSInv, NEW c \in DOMAIN conns, Shot(c) PROVE GSInv' /\ WinnersStay
<1> DEFINE id == conns[c].room
           p == conns[c].player
           s == sessions[id]
           t == Touch(s, p)
           P == IF CanShoot(t, p) THEN s.pending \cup {p} ELSE s.pending
<1>1. RMInv'
  BY ManagerQuiet DEF Shot, GSInv
<1>2. id \in DOMAIN sessions /\ p \in Player /\ s \in Session
  BY HandlersSession
<1>3. P \in SUBSET Player /\ s.stale \ {p} \in SUBSET Player
  BY <1>2, SessionFields
<1>4. sessions' = [sessions EXCEPT ![id] = [sessions[id] EXCEPT !.pending = P, !.stale = s.stale \ {p}]]
  <2>1. t = [s EXCEPT !.stale = s.stale \ {p}] /\ t.pending = s.pending
    BY <1>2 DEF Touch, Session
  <2>2. (IF CanShoot(t, p) THEN [t EXCEPT !.pending = @ \cup {p}] ELSE t)
           = [s EXCEPT !.pending = P, !.stale = s.stale \ {p}]
    BY <1>2, <2>1 DEF Session
  <2>3. QED
    BY <2>2 DEF Shot
<1>5. SessionsInv' /\ SettlingInv' /\ WinnersStay /\ DOMAIN sessions' = DOMAIN sessions
  <2>1. SessionsInv /\ SettlingInv /\ UNCHANGED <<settling, made>>
    BY DEF Shot, GSInv
  <2> HIDE DEF P, id, p
  <2>2. QED
    BY <1>2, <1>3, <1>4, <2>1, QuietSession
<1>6. ConnsInv' /\ crashed' \in BOOLEAN
  BY <1>5, ConnsKeep DEF Shot, GSInv
<1>7. QED
  BY <1>1, <1>5, <1>6 DEF GSInv

LEMMA AimInv == ASSUME GSInv, NEW c \in DOMAIN conns, Aim(c) PROVE GSInv' /\ WinnersStay
<1>1. RMInv'
  BY ManagerQuiet DEF Aim, GSInv
<1>2. SessionsInv' /\ SettlingInv' /\ WinnersStay /\ DOMAIN sessions' = DOMAIN sessions
  BY HandlersSession, TouchSession DEF Aim, GSInv
<1>3. ConnsInv' /\ crashed' \in BOOLEAN
  BY <1>2, ConnsKeep DEF Aim, GSInv
<1>4. QED
  BY <1>1, <1>2, <1>3 DEF GSInv

LEMMA HeartbeatInv == ASSUME GSInv, NEW c \in DOMAIN conns, Heartbeat(c) PROVE GSInv' /\ WinnersStay
<1>1. RMInv'
  BY ManagerQuiet DEF Heartbeat, GSInv
<1>2. SessionsInv' /\ SettlingInv' /\ WinnersStay /\ DOMAIN sessions' = DOMAIN sessions
  BY HandlersSession, TouchSession DEF Heartbeat, GSInv
<1>3. ConnsInv' /\ crashed' \in BOOLEAN
  BY <1>2, ConnsKeep DEF Heartbeat, GSInv
<1>4. QED
  BY <1>1, <1>2, <1>3 DEF GSInv

LEMMA GSExpireInv ==
    ASSUME GSInv, NEW id \in DOMAIN sessions, NEW p \in Player, Expire(id, p)
    PROVE  GSInv' /\ WinnersStay
<1> DEFINE s == sessions[id]
<1>1. RMInv'
  BY ManagerQuiet DEF Expire, GSInv
<1>2. s \in Session
  BY DEF GSInv, SessionsInv
<1>3. s.pending \in SUBSET Player /\ s.stale \cup {p} \in SUBSET Player
  BY <1>2, SessionFields
<1>4. sessions' = [sessions EXCEPT ![id] = [sessions[id] EXCEPT !.pending = s.pending, !.stale = s.stale \cup {p}]]
  BY <1>2 DEF Expire, Session
<1>5. SessionsInv' /\ SettlingInv' /\ WinnersStay /\ DOMAIN sessions' = DOMAIN sessions
  BY <1>3, <1>4, QuietSession, ZenonT(60) DEF Expire, GSInv
<1>6. ConnsInv' /\ crashed' \in BOOLEAN
  BY <1>5, ConnsKeep DEF Expire, GSInv
<1>7. QED
  BY <1>1, <1>5, <1>6 DEF GSInv

\* A landing changes the status of a player who was still playing, and so of
\* nobody who lost to the winner.
LEMMA LandedSound ==
    ASSUME NEW s \in Session, WinnerInv(s), NEW p \in Player, NEW outcome \in Status,
           CanLand(s, p),
           NEW t, t = [s EXCEPT !.states[p] = outcome, !.pending = @ \ {p}]
    PROVE  SameGame(s, t) /\ t.winner = s.winner /\ WinnerInv(t)
<1> DEFINE f == [s.states EXCEPT ![p] = outcome]
<1>1. /\ DOMAIN s.states \in SUBSET Player /\ s.states \in [DOMAIN s.states -> Status]
      /\ s.pending \in SUBSET Player
  BY SessionFields
<1>2. f \in [DOMAIN s.states -> Status] /\ DOMAIN f = DOMAIN s.states
      /\ \A q \in DOMAIN f : q # p => f[q] = s.states[q]
  BY <1>1
<1>3. f \in UNION {[S -> Status] : S \in SUBSET Player}
  BY <1>1, <1>2, StatesType
<1>4. /\ t \in Session /\ t.states = f
      /\ t.gen = s.gen /\ t.winner = s.winner /\ t.finalized = s.finalized
  BY <1>1, <1>3 DEF Session
<1>5. p \in DOMAIN s.states /\ s.states[p] = "playing"
  BY DEF CanLand
<1> HIDE DEF f
<1>6. WinnerInv(t)
  BY <1>2, <1>4, <1>5 DEF WinnerInv
<1>7. Alive(t) \subseteq Alive(s)
  BY <1>2, <1>4, <1>5 DEF Alive
<1>8. QED
  BY <1>2, <1>4, <1>6, <1>7 DEF SameGame

\* Touching a session changes no status.
LEMMA TouchSound ==
    ASSUME NEW s \in Session, NEW p \in Player
    PROVE  /\ Touch(s, p) \in Session
           /\ Touch(s, p).states = s.states /\ Touch(s, p).winner = s.winner
           /\ Touch(s, p).gen = s.gen /\ Touch(s, p).finalized = s.finalized
BY DEF Touch, Session

LEMMA LandGoesOn ==
    ASSUME GSInv, NEW c \in DOMAIN conns, NEW outcome \in Status, Land(c, outcome)
    PROVE  \E u : GoesOn(sessions[conns[c].room], u) /\ Store(conns[c].room, u)
<1> DEFINE id == conns[c].room
           p == conns[c].player
           s == Touch(sessions[id], p)
           t == IF CanLand(s, p)
                THEN [s EXCEPT !.states[p] = outcome, !.pending = @ \ {p}]
                ELSE s
<1>1. id \in DOMAIN sessions /\ p \in Player /\ sessions[id] \in Session /\ WinnerInv(sessions[id])
  BY HandlersSession DEF GSInv, SessionsInv
<1>2. /\ s \in Session /\ s.states = sessions[id].states /\ s.winner = sessions[id].winner
      /\ s.gen = sessions[id].gen /\ s.finalized = sessions[id].finalized
  BY <1>1, TouchSound
<1>3. Store(id, resolveOutcome(t))
  BY DEF Land
<1>4. WinnerInv(s) /\ Alive(s) = Alive(sessions[id])
  BY <1>1, <1>2 DEF WinnerInv, Alive
<1>5. SameGame(s, t) /\ t.winner = s.winner /\ WinnerInv(t)
  <2> HIDE DEF s, p
  <2>1. CASE CanLand(s, p)
    <3>1. t = [s EXCEPT !.states[p] = outcome, !.pending = @ \ {p}]
      BY <2>1
    <3> HIDE DEF t
    <3>2. QED
      BY <1>1, <1>2, <1>4, <2>1, <3>1, LandedSound
  <2>2. CASE ~CanLand(s, p)
    BY <1>2, <1>4, <2>2 DEF SameGame
  <2>3. QED
    BY <2>1, <2>2
<1> HIDE DEF t, s
<1>6. SameGame(sessions[id], t)
  BY <1>2, <1>4, <1>5 DEF SameGame
<1>7. QED
  BY <1>2, <1>3, <1>5, <1>6, ResolveGoesOn

LEMMA LandInv ==
    ASSUME GSInv, NEW c \in DOMAIN conns, NEW outcome \in Status, Land(c, outcome)
    PROVE  GSInv' /\ WinnersStay
<1>1. RMInv'
  BY ManagerQuiet DEF Land, GSInv
<1>2. settling = NotSettling /\ UNCHANGED <<made, conns, wsConns, crashed>>
  BY DEF Land, Receives, MutexFree
<1>3. SessionsInv' /\ SettlingInv' /\ WinnersStay /\ DOMAIN sessions' = DOMAIN sessions
  BY <1>2, LandGoesOn, HandlersSession, StoreKeeps DEF GSInv
<1>4. ConnsInv' /\ crashed' \in BOOLEAN
  BY <1>2, <1>3, ConnsKeep DEF GSInv
<1>5. QED
  BY <1>1, <1>3, <1>4 DEF GSInv

\* Players who are overdue lose in a game that nobody has won.
LEMMA TimedOutSound ==
    ASSUME NEW s \in Session
    PROVE  SameGame(s, TimedOut(s)) /\ TimedOut(s).winner = s.winner
<1> DEFINE f == [p \in DOMAIN s.states |-> IF p \in s.stale THEN "lose" ELSE s.states[p]]
<1>1. DOMAIN s.states \in SUBSET Player /\ s.states \in [DOMAIN s.states -> Status]
  BY SessionFields
<1>2. f \in UNION {[S -> Status] : S \in SUBSET Player}
  <2>1. f \in [DOMAIN f -> Status] /\ DOMAIN f \in SUBSET Player
    BY <1>1 DEF Status
  <2>2. QED
    BY <2>1, StatesType
<1>3. TimedOut(s) = [s EXCEPT !.states = f]
  BY DEF TimedOut, Session
<1>4. DOMAIN f = DOMAIN s.states /\ \A p \in DOMAIN f : f[p] # "lose" => s.states[p] # "lose"
  OBVIOUS
<1> HIDE DEF f
<1>5. /\ TimedOut(s) \in Session /\ TimedOut(s).states = f
      /\ TimedOut(s).gen = s.gen /\ TimedOut(s).winner = s.winner
      /\ TimedOut(s).finalized = s.finalized
  BY <1>2, <1>3 DEF Session
<1>6. Alive(TimedOut(s)) \subseteq Alive(s)
  BY <1>4, <1>5 DEF Alive
<1>7. QED
  BY <1>4, <1>5, <1>6 DEF SameGame

LEMMA TickGoesOn ==
    ASSUME GSInv, NEW c \in DOMAIN conns, BuildState(c)
    PROVE  \E u : GoesOn(sessions[conns[c].room], u) /\ Store(conns[c].room, u)
<1> DEFINE id == conns[c].room
           s == sessions[id]
           u == applyHeartbeatTimeouts(s)
           t == TimedOut(s)
<1>1. id \in DOMAIN sessions /\ s \in Session /\ WinnerInv(s) /\ SurvivorInv(s)
  BY HandlersSession DEF GSInv, SessionsInv
<1>2. Store(id, u)
  BY DEF BuildState
<1>3. CASE s.winner # NoOne
  <2>1. u = s
    BY <1>3 DEF applyHeartbeatTimeouts
  <2> HIDE DEF u, s
  <2>2. GoesOn(s, s)
    BY <1>1, <1>3 DEF GoesOn, SameGame
  <2>3. QED
    BY <1>2, <2>1, <2>2 DEF s
<1>4. CASE s.winner = NoOne
  <2>1. u = resolveOutcome(t)
    BY <1>4 DEF applyHeartbeatTimeouts
  <2>2. SameGame(s, t) /\ t.winner = s.winner
    BY <1>1, TimedOutSound
  <2> HIDE DEF t, u
  <2>3. WinnerInv(t)
    BY <1>4, <2>2 DEF WinnerInv
  <2>4. QED
    BY <1>2, <2>1, <2>2, <2>3, ResolveGoesOn
<1>5. QED
  BY <1>3, <1>4

LEMMA BuildStateInv == ASSUME GSInv, NEW c \in DOMAIN conns, BuildState(c) PROVE GSInv' /\ WinnersStay
<1>1. RMInv'
  BY ManagerQuiet DEF BuildState, GSInv
<1>2. /\ settling = NotSettling /\ UNCHANGED <<made, wsConns, crashed>>
      /\ conns' = conns \/ conns' = Hangup(conns, c)
  BY DEF BuildState, MutexFree
<1>3. SessionsInv' /\ SettlingInv' /\ WinnersStay /\ DOMAIN sessions' = DOMAIN sessions
  BY <1>2, TickGoesOn, HandlersSession, StoreKeeps DEF GSInv
<1>4. ConnsInv'
  BY <1>2, <1>3, ConnsKeep, HangupKeeps DEF GSInv
<1>5. QED
  BY <1>1, <1>2, <1>3, <1>4 DEF GSInv

LEMMA DropInv == ASSUME GSInv, NEW c \in DOMAIN conns, Drop(c) PROVE GSInv' /\ WinnersStay
<1>1. RMInv'
  BY ManagerQuiet DEF Drop, GSInv
<1>2. SessionsInv' /\ SettlingInv' /\ WinnersStay
  BY DEF Drop, GSInv, SessionsInv, SettlingInv, WinnersStay
<1>3. ConnsInv' /\ crashed' \in BOOLEAN
  BY HangupKeeps DEF Drop, GSInv
<1>4. QED
  BY <1>1, <1>2, <1>3 DEF GSInv

\* The cleanup of a handler may unregister another one's connection, but
\* leaves no registration of its own behind.
LEMMA UnregisterInv == ASSUME GSInv, NEW c \in DOMAIN conns, Unregister(c) PROVE GSInv' /\ WinnersStay
<1> DEFINE k == <<conns[c].room, conns[c].player>>
<1>1. RMInv'
  BY ManagerQuiet DEF Unregister, GSInv
<1>2. SessionsInv' /\ SettlingInv' /\ WinnersStay
  BY DEF Unregister, GSInv, SessionsInv, SettlingInv, WinnersStay
<1>3. /\ DOMAIN conns' = DOMAIN conns \ {c}
      /\ conns' = [d \in DOMAIN conns' |-> conns[d]]
      /\ DOMAIN wsConns' = DOMAIN wsConns \ {k}
      /\ wsConns' = [j \in DOMAIN wsConns' |-> wsConns[j]]
      /\ UNCHANGED <<sessions, crashed>>
  BY DEF Unregister, Del
<1>4. ASSUME NEW j \in DOMAIN wsConns'
      PROVE  /\ wsConns'[j] = wsConns[j] /\ wsConns[j] \in DOMAIN conns'
             /\ conns'[wsConns[j]] = conns[wsConns[j]]
             /\ j = <<conns[wsConns[j]].room, conns[wsConns[j]].player>>
  <2>1. j \in DOMAIN wsConns /\ j # k
    BY <1>3
  <2>2. wsConns[j] \in DOMAIN conns /\ j = <<conns[wsConns[j]].room, conns[wsConns[j]].player>>
    BY <2>1 DEF GSInv, ConnsInv
  <2>3. wsConns[j] # c
    BY <2>1, <2>2
  <2>4. QED
    BY <1>3, <2>2, <2>3
<1>5. ConnsInv'
  <2>1. wsConns' \in [DOMAIN wsConns' -> DOMAIN conns']
    BY <1>3, <1>4
  <2>2. \A j \in DOMAIN wsConns' : j = <<conns'[wsConns'[j]].room, conns'[wsConns'[j]].player>>
    BY <1>4
  <2>3. conns' \in [DOMAIN conns' -> [room : DOMAIN sessions', player : Player, open : BOOLEAN]]
        /\ DOMAIN conns' \subseteq Conn
    BY <1>3 DEF GSInv, ConnsInv
  <2>4. QED
    BY <2>1, <2>2, <2>3 DEF ConnsInv
<1>6. QED
  BY <1>1, <1>2, <1>3, <1>5 DEF GSInv

LEMMA EvictInv == ASSUME GSInv, NEW p \in settling.todo, Evict(p) PROVE GSInv' /\ WinnersStay
<1>1. settling \in [room : Nat, todo : SUBSET Player] /\ p \in Player
  BY DEF GSInv, SettlingInv
<1>2. RMInv'
  <2>1. CASE LeaveRoom(p)
    BY <1>1, <2>1, RMInvInductive DEF RMNext, GSInv
  <2>2. CASE UNCHANGED rmvars
    BY <2>2, ManagerQuiet DEF GSInv
  <2>3. QED
    BY <2>1, <2>2 DEF Evict
<1>3. /\ settling'.room = settling.room
      /\ settling' \in [room : Nat, todo : SUBSET Player]
      /\ settling # NotSettling
      /\ UNCHANGED <<sessions, conns, wsConns, crashed, made>>
  BY <1>1 DEF Evict, NotSettling
<1>4. SettlingInv'
  BY <1>3 DEF GSInv, SettlingInv
<1>5. SessionsInv' /\ ConnsInv' /\ WinnersStay
  BY <1>3 DEF GSInv, SessionsInv, ConnsInv, WinnersStay
<1>6. QED
  BY <1>2, <1>3, <1>4, <1>5 DEF GSInv

\* The settlement ends with the game it was of settled.
LEMMA SettledInv == ASSUME GSInv, Settled PROVE GSInv' /\ WinnersStay
<1> DEFINE id == settling.room
           s == [sessions[id] EXCEPT !.finalized = TRUE]
<1>1. RMInv'
  BY ManagerQuiet DEF Settled, GSInv
<1>2. /\ id \in DOMAIN sessions /\ sessions[id].winner # NoOne
      /\ sessions[id] \in Session /\ WinnerInv(sessions[id]) /\ SurvivorInv(sessions[id])
  BY DEF Settled, GSInv, SettlingInv, SessionsInv
<1>3. /\ s \in Session /\ s.gen = sessions[id].gen /\ s.winner = sessions[id].winner
      /\ s.states = sessions[id].states /\ s.finalized = TRUE
  BY <1>2 DEF Session
<1>4. /\ sessions' = [sessions EXCEPT ![id] = s]
      /\ settling' = NotSettling
      /\ UNCHANGED <<conns, wsConns, crashed, made>>
  BY DEF Settled
<1> HIDE DEF s
<1>5. WinnerInv(s) /\ SurvivorInv(s)
  BY <1>2, <1>3 DEF WinnerInv, SurvivorInv
<1>6. /\ SessionsInv' /\ WinnersStay /\ DOMAIN sessions' = DOMAIN sessions
      /\ \A j \in DOMAIN sessions : sessions'[j] = IF j = id THEN s ELSE sessions[j]
  BY <1>2, <1>3, <1>4, <1>5, ReplaceSession DEF GSInv
<1>7. SettlingInv'
  <2>1. NotSettling \in [room : Nat, todo : SUBSET Player]
    BY DEF NotSettling
  <2>2. QED
    BY <1>2, <1>3, <1>4, <1>6, <2>1 DEF GSInv, SettlingInv
<1>8. ConnsInv'
  BY <1>4, <1>6, ConnsKeep DEF GSInv
<1>9. QED
  BY <1>1, <1>4, <1>6, <1>7, <1>8 DEF GSInv

-----------------------------------------------------------------------------
(* The theorems *)

LEMMA GSInvInductive == GSInv /\ [GSNext]_allvars => GSInv' /\ (WinnersStay \/ UNCHANGED allvars)
<1> SUFFICES ASSUME GSInv, [GSNext]_allvars PROVE GSInv' /\ (WinnersStay \/ UNCHANGED allvars)
  OBVIOUS
<1>1. CASE RoomRequest
  BY <1>1, GSRoomRequestInv
<1>2. ASSUME NEW id \in DOMAIN rooms, CreateSession(id) PROVE GSInv' /\ WinnersStay
  BY <1>2, CreateSessionInv
<1>3. ASSUME NEW c \in Conn, NEW id \in DOMAIN sessions, NEW p \in Player, Connect(c, id, p)
      PROVE  GSInv' /\ WinnersStay
  BY <1>3, ConnectInv
<1>4. ASSUME NEW c \in DOMAIN conns,
             Shot(c) \/ Aim(c) \/ Heartbeat(c) \/ Drop(c) \/ BuildState(c) \/ Unregister(c)
      PROVE  GSInv' /\ WinnersStay
  BY <1>4, ShotInv, AimInv, HeartbeatInv, DropInv, BuildStateInv, UnregisterInv
<1>5. ASSUME NEW c \in DOMAIN conns, NEW o \in Status, Land(c, o) PROVE GSInv' /\ WinnersStay
  BY <1>5, LandInv
<1>6. ASSUME NEW id \in DOMAIN sessions, NEW p \in Player, Expire(id, p)
      PROVE  GSInv' /\ WinnersStay
  BY <1>6, GSExpireInv
<1>7. ASSUME NEW p \in settling.todo, Evict(p) PROVE GSInv' /\ WinnersStay
  BY <1>7, EvictInv
<1>8. CASE Settled
  BY <1>8, SettledInv
<1>9. CASE UNCHANGED allvars
  <2>1. RMInv'
    BY <1>9, ManagerQuiet DEF allvars, rmvars, GSInv
  <2>2. SessionsInv' /\ SettlingInv' /\ ConnsInv' /\ crashed' \in BOOLEAN
    BY <1>9 DEF allvars, GSInv, SessionsInv, SettlingInv, ConnsInv
  <2>3. QED
    BY <1>9, <2>1, <2>2 DEF GSInv
<1>10. QED
  BY <1>1, <1>2, <1>3, <1>4, <1>5, <1>6, <1>7, <1>8, <1>9 DEF GSNext

LEMMA GSInvAlways == GSSafe => []GSInv
<1>1. GSInit => GSInv
  BY GSInitInv
<1>2. GSInv /\ [GSNext]_allvars => GSInv'
  BY GSInvInductive
<1>3. QED
  BY <1>1, <1>2, PTL DEF GSSafe

\* Handlers and registrations always belong to sessions that exist, and every
\* table keeps its type.
THEOREM GSTypeCorrect == GSSafe => []GSTypeOK
<1>1. GSInv => GSTypeOK
  BY DEF GSInv, RMInv, SessionsInv, SettlingInv, ConnsInv, GSTypeOK
<1>2. QED
  BY <1>1, GSInvAlways, PTL

\* For any number of players: the winner outlasted all the others, whatever
\* landings, timeouts and late messages came in which order.
THEOREM WinnerSafe == GSSafe => []WinnerOutlastedAll
<1>1. GSInv => WinnerOutlastedAll
  BY DEF GSInv, SessionsInv, WinnerInv, WinnerOutlastedAll
<1>2. QED
  BY <1>1, GSInvAlways, PTL

\* A game with a sole survivor has a winner at once, and the games with a
\* winner are the settled one and the one being settled.
THEOREM DecidedSafe == GSSafe => []DecidedMeansSettled
<1>1. GSInv => DecidedMeansSettled
  BY DEF GSInv, SessionsInv, SurvivorInv, SettlingInv, DecidedMeansSettled
<1>2. QED
  BY <1>1, GSInvAlways, PTL

\* WinnerID never changes once it is set.
THEOREM WinnerFinal == GSSafe => WinnerIsFinal
<1>1. GSInv /\ [GSNext]_allvars =>
         [\A id \in DOMAIN sessions :
             sessions[id].winner # NoOne /\ sessions'[id].gen = sessions[id].gen
                => sessions'[id].winner = sessions[id].winner]_allvars
  BY GSInvInductive DEF WinnersStay
<1>2. QED
  BY <1>1, GSInvAlways, PTL DEF GSSafe, WinnerIsFinal

-----------------------------------------------------------------------------
(* The service implements the elimination game *)

LEMMA PlayedGames ==
    /\ DOMAIN GamesPlayed = DOMAIN sessions
    /\ \A id \in DOMAIN sessions : GamesPlayed[id] = GameOf(sessions[id])
    /\ GamesPlayed = [id \in DOMAIN GamesPlayed |-> GamesPlayed[id]]
BY DEF GamesPlayed

\* While Server.mu is free, every win is settled.
LEMMA FreeMeansSettled ==
    ASSUME GSInv, settling = NotSettling
    PROVE  Games!AllSettled
<1>1. \A id \in DOMAIN sessions : id # 0
  BY DEF GSInv, SessionsInv
<1>2. \A id \in DOMAIN sessions : sessions[id].winner # NoOne => sessions[id].finalized
  BY <1>1 DEF GSInv, SettlingInv, NotSettling
<1>3. \A id \in DOMAIN sessions : ~Games!Unsettled(GameOf(sessions[id]))
  BY <1>2 DEF GameOf, Games!Unsettled
<1>4. QED
  BY <1>3, PlayedGames DEF Games!AllSettled

\* A change of heartbeats, shots or handlers is invisible.
LEMMA SameOutcomeStutters ==
    ASSUME GSInv, NEW id \in DOMAIN sessions, NEW s,
           s.states = sessions[id].states, s.winner = sessions[id].winner,
           s.finalized = sessions[id].finalized,
           sessions' = [sessions EXCEPT ![id] = s]
    PROVE  UNCHANGED GamesPlayed
<1>1. GameOf(s) = GameOf(sessions[id])
  BY DEF GameOf, Alive
<1>2. /\ DOMAIN sessions' = DOMAIN sessions
      /\ \A j \in DOMAIN sessions : sessions'[j] = IF j = id THEN s ELSE sessions[j]
  BY DEF GSInv, SessionsInv
<1>3. \A j \in DOMAIN sessions : GameOf(sessions'[j]) = GameOf(sessions[j])
  BY <1>1, <1>2
<1>4. QED
  BY <1>2, <1>3 DEF GamesPlayed

\* A game that has a sole survivor has more than one player.
LEMMA OutcomeOfTwo ==
    ASSUME NEW s \in Session
    PROVE  HasOutcome(s) <=> \E p, q \in DOMAIN s.states : p # q /\ Alive(s) = {p}
<1> DEFINE D == DOMAIN s.states
           A == Alive(s)
<1>1. IsFiniteSet(D) /\ Cardinality(D) \in Nat /\ A \in SUBSET D /\ IsFiniteSet(A)
  BY SessionFields, PlayersFinite, FS_Subset DEF Alive
<1>2. ASSUME HasOutcome(s) PROVE \E p, q \in D : p # q /\ A = {p}
  <2>1. PICK p : A = {p}
    BY <1>1, <1>2, FS_Singleton DEF HasOutcome
  <2>2. D # {p}
    <3>1. Cardinality({p}) = 1
      BY FS_Singleton
    <3>2. Cardinality(D) >= 2
      BY <1>2 DEF HasOutcome
    <3>3. QED
      BY <3>1, <3>2
  <2>3. QED
    BY <1>1, <2>1, <2>2
<1>3. ASSUME NEW p \in D, NEW q \in D, p # q, A = {p} PROVE HasOutcome(s)
  <2>1. Cardinality(A) = 1
    BY <1>3, FS_Singleton
  <2>2. Cardinality({p} \cup {q}) = 2 /\ {p} \cup {q} \in SUBSET D
    <3>1. IsFiniteSet({p}) /\ Cardinality({p}) = 1
      BY FS_Singleton
    <3>2. q \notin {p} /\ {p} \cup {q} \in SUBSET D
      BY <1>3
    <3>3. Cardinality({p} \cup {q}) = 1 + 1
      BY <3>1, <3>2, FS_AddElement
    <3>4. QED
      BY <3>2, <3>3
  <2>3. Cardinality(D) >= 2
    BY <1>1, <2>2, FS_Subset
  <2>4. QED
    BY <2>1, <2>3 DEF HasOutcome
<1>4. QED
  BY <1>2, <1>3

\* A landing or a tick lets players drop out, and the last one left has won;
\* or nobody drops out, and then nobody wins anew.
LEMMA GoesOnFalls ==
    ASSUME GSInv, settling = NotSettling, NEW id \in DOMAIN sessions, NEW u,
           GoesOn(sessions[id], u), sessions' = [sessions EXCEPT ![id] = u]
    PROVE  Games!ElimNext \/ UNCHANGED GamesPlayed
<1> DEFINE s == sessions[id]
           fallen == Alive(s) \ Alive(u)
<1>1. s \in Session /\ SurvivorInv(s) /\ u \in Session /\ DOMAIN u.states = DOMAIN s.states
      /\ u.finalized = s.finalized /\ Alive(u) \subseteq Alive(s) /\ WinnerInv(u)
  BY DEF GSInv, SessionsInv, GoesOn, SameGame
<1>2. /\ DOMAIN sessions' = DOMAIN sessions
      /\ \A j \in DOMAIN sessions : sessions'[j] = IF j = id THEN u ELSE sessions[j]
  BY DEF GSInv, SessionsInv
<1>3. Alive(s) \subseteq DOMAIN s.states /\ Alive(u) \subseteq DOMAIN u.states
  BY DEF Alive
<1>4. CASE fallen = {}
  <2>1. Alive(u) = Alive(s)
    BY <1>1, <1>4
  <2>2. HasOutcome(u) => s.winner # NoOne
    <3> SUFFICES ASSUME HasOutcome(u) PROVE s.winner # NoOne
      OBVIOUS
    <3>1. PICK p \in DOMAIN u.states, q \in DOMAIN u.states : p # q /\ Alive(u) = {p}
      BY <1>1, OutcomeOfTwo
    <3>2. p \in DOMAIN s.states /\ q \in DOMAIN s.states /\ p \in Player
          /\ \A o \in DOMAIN s.states : s.states[o] # "lose" <=> o = p
      BY <1>1, <2>1, <3>1, SessionFields DEF Alive
    <3>3. s.winner = p
      BY <1>1, <3>1, <3>2 DEF SurvivorInv
    <3>4. QED
      BY <3>2, <3>3, NoOneAssumption
  <2>3. u.winner = s.winner
    BY <2>2 DEF GoesOn
  <2>4. GameOf(u) = GameOf(s)
    BY <1>1, <2>1, <2>3 DEF GameOf
  <2>5. \A j \in DOMAIN sessions : GameOf(sessions'[j]) = GameOf(sessions[j])
    BY <1>2, <2>4
  <2>6. QED
    BY <1>2, <2>5 DEF GamesPlayed
<1>5. CASE fallen # {}
  <2> DEFINE g == GameOf(s)
             left == g.alive \ fallen
             w == Games!Winner(g, left)
  <2>1. g.alive = Alive(s) /\ g.winner = {s.winner} \ {NoOne} /\ left = Alive(u)
    BY <1>1 DEF GameOf
  <2>2. w = {u.winner} \ {NoOne}
    <3>1. CASE s.winner # NoOne
      BY <2>1, <3>1 DEF GoesOn, Games!Winner
    <3>2. CASE s.winner = NoOne /\ HasOutcome(u)
      <4>1. PICK p \in DOMAIN u.states : Alive(u) = {p}
        BY <1>1, <3>2, OutcomeOfTwo
      <4>2. u.winner # NoOne
        BY <3>2 DEF GoesOn
      <4>3. u.winner = p
        BY <1>1, <4>1, <4>2 DEF WinnerInv, Alive
      <4>4. QED
        BY <2>1, <3>2, <4>1, <4>2, <4>3 DEF Games!Winner
    <3>3. CASE s.winner = NoOne /\ ~HasOutcome(u)
      <4>1. u.winner = NoOne
        BY <3>3 DEF GoesOn
      <4>2. ASSUME NEW p \in left, left = {p} PROVE FALSE
        <5>1. PICK q \in fallen : TRUE
          BY <1>5
        <5>2. p \in DOMAIN u.states /\ q \in DOMAIN u.states /\ p # q /\ Alive(u) = {p}
          BY <1>1, <1>3, <2>1, <4>2, <5>1
        <5>3. QED
          BY <1>1, <3>3, <5>2, OutcomeOfTwo
      <4>3. QED
        BY <2>1, <3>3, <4>1, <4>2 DEF Games!Winner
    <3>4. QED
      BY <3>1, <3>2, <3>3
  <2>3. GameOf(u) = [g EXCEPT !.alive = left, !.winner = w]
    <3>1. g = [players |-> DOMAIN s.states, alive |-> Alive(s),
               winner |-> {s.winner} \ {NoOne}, settled |-> s.finalized]
      BY DEF GameOf
    <3> HIDE DEF g, left, w, s
    <3> DEFINE h == [g EXCEPT !.alive = left, !.winner = w]
    <3>2. /\ h = [f \in {"players", "alive", "winner", "settled"} |-> h[f]]
          /\ h.players = DOMAIN s.states /\ h.alive = left
          /\ h.winner = w /\ h.settled = s.finalized
      BY <3>1
    <3> HIDE DEF h
    <3>3. GameOf(u) = h
      BY <1>1, <2>1, <2>2, <3>2 DEF GameOf
    <3>4. QED
      BY <3>3 DEF h
  <2>4. GamesPlayed' = [GamesPlayed EXCEPT ![id] = [@ EXCEPT !.alive = left, !.winner = w]]
    <3> HIDE DEF w, left, g
    <3>1. GamesPlayed' = [GamesPlayed EXCEPT ![id] = GameOf(u)]
      BY <1>2 DEF GamesPlayed
    <3>2. GamesPlayed[id] = g
      BY DEF GamesPlayed, g
    <3>3. QED
      BY <2>3, <3>1, <3>2
  <2>5. Games!AllSettled
    BY FreeMeansSettled
  <2>6. Games!Fall(id, fallen)
    <3> HIDE DEF fallen
    <3>1. GamesPlayed[id] = g
      BY DEF GamesPlayed
    <3>2. QED
      BY <2>4, <2>5, <3>1 DEF Games!Fall
  <2>7. fallen \in (SUBSET GamesPlayed[id].alive) \ {{}} /\ id \in DOMAIN GamesPlayed
    BY <1>5, <2>1 DEF GamesPlayed
  <2>8. QED
    BY <2>6, <2>7 DEF Games!ElimNext
<1>6. QED
  BY <1>4, <1>5

\* A session for the members of a room begins a game.
LEMMA CreateSessionBegins ==
    ASSUME GSInv, NEW id \in DOMAIN rooms, CreateSession(id)
    PROVE  Games!ElimNext
<1> DEFINE P == rooms[id].players
           s == NewSession(P)
           new == [players |-> P, alive |-> P, winner |-> {}, settled |-> FALSE]
<1>1. P \in SUBSET Player /\ id \in 1 .. MaxTime
  BY BoundsAssumption DEF GSInv, RMInv, RMTypeOK, Room
<1>2. \E p, q \in P : p # q
  <2>1. IsFiniteSet(P) /\ Cardinality(P) >= 2
    BY <1>1, PlayersFinite DEF CreateSession
  <2>2. P # {} /\ \A p : P # {p}
    BY <2>1, FS_EmptySet, FS_Singleton
  <2>3. QED
    BY <2>2
<1>3. GameOf(s) = new
  BY DEF GameOf, NewSession, Alive
<1>4. /\ DOMAIN sessions' = DOMAIN sessions \cup {id}
      /\ \A j \in DOMAIN sessions' : sessions'[j] = IF j = id THEN s ELSE sessions[j]
  BY DEF CreateSession, Put
<1> HIDE DEF s
<1>5. GamesPlayed' = Games!Put(GamesPlayed, id, new)
  BY <1>3, <1>4 DEF GamesPlayed, Games!Put
<1>6. Games!AllSettled
  BY FreeMeansSettled DEF CreateSession, MutexFree
<1>7. Games!Begin(id, P)
  BY <1>2, <1>5, <1>6 DEF Games!Begin
<1>8. QED
  BY <1>1, <1>7 DEF Games!ElimNext

\* The end of a settlement settles the game it was of.
LEMMA SettledSettles == ASSUME GSInv, Settled PROVE Games!ElimNext
<1> DEFINE id == settling.room
           s == sessions[id]
           t == [s EXCEPT !.finalized = TRUE]
           g == GameOf(s)
<1>1. id \in DOMAIN sessions /\ s.winner # NoOne /\ s \in Session
  BY DEF Settled, GSInv, SettlingInv, SessionsInv
<1>2. ~s.finalized
  BY DEF Settled, GSInv, SettlingInv
<1>3. Games!Unsettled(g)
  BY <1>1, <1>2 DEF GameOf, Games!Unsettled
<1>4. GameOf(t) = [g EXCEPT !.settled = TRUE]
  <2>1. t.states = s.states /\ t.winner = s.winner /\ t.finalized = TRUE
    BY <1>1 DEF Session
  <2>2. g = [players |-> DOMAIN s.states, alive |-> Alive(s),
             winner |-> {s.winner} \ {NoOne}, settled |-> s.finalized]
    BY DEF GameOf
  <2> HIDE DEF t, g, s
  <2> DEFINE h == [g EXCEPT !.settled = TRUE]
  <2>3. /\ h = [f \in {"players", "alive", "winner", "settled"} |-> h[f]]
        /\ h.players = DOMAIN s.states /\ h.alive = Alive(s)
        /\ h.winner = {s.winner} \ {NoOne} /\ h.settled = TRUE
    BY <2>2
  <2>4. Alive(t) = Alive(s)
    BY <2>1 DEF Alive
  <2> HIDE DEF h
  <2>5. GameOf(t) = h
    BY <2>1, <2>3, <2>4 DEF GameOf
  <2>6. QED
    BY <2>5 DEF h
<1>5. /\ DOMAIN sessions' = DOMAIN sessions
      /\ \A j \in DOMAIN sessions : sessions'[j] = IF j = id THEN t ELSE sessions[j]
  BY DEF Settled, GSInv, SessionsInv
<1> HIDE DEF t, g
<1>6. GamesPlayed[id] = g
  BY <1>1 DEF GamesPlayed, g
<1>7. GamesPlayed' = [GamesPlayed EXCEPT ![id].settled = TRUE]
  <2>1. GamesPlayed' = [GamesPlayed EXCEPT ![id] = GameOf(t)]
    BY <1>5 DEF GamesPlayed
  <2>2. QED
    BY <1>4, <1>6, <2>1
<1>8. Games!Settle(id)
  BY <1>3, <1>6, <1>7 DEF Games!Settle
<1>9. QED
  BY <1>1, <1>8, PlayedGames DEF Games!ElimNext

\* Messages that land nothing refresh heartbeats and begin shots.
LEMMA MessagesStutter ==
    ASSUME GSInv, NEW c \in DOMAIN conns, Shot(c) \/ Aim(c) \/ Heartbeat(c)
    PROVE  UNCHANGED GamesPlayed
<1> DEFINE id == conns[c].room
           p == conns[c].player
           s == Touch(sessions[id], p)
<1>1. id \in DOMAIN sessions /\ p \in Player /\ sessions[id] \in Session
  BY HandlersSession
<1>2. /\ s \in Session /\ s.states = sessions[id].states /\ s.winner = sessions[id].winner
      /\ s.finalized = sessions[id].finalized
  BY <1>1, TouchSound
<1>3. PICK t : /\ sessions' = [sessions EXCEPT ![id] = t]
               /\ t = s \/ t = [s EXCEPT !.pending = @ \cup {p}]
  BY DEF Shot, Aim, Heartbeat
<1> HIDE DEF s
<1>4. t.states = s.states /\ t.winner = s.winner /\ t.finalized = s.finalized
  BY <1>2, <1>3 DEF Session
<1>5. QED
  BY <1>1, <1>2, <1>3, <1>4, SameOutcomeStutters

LEMMA ConnectStutters ==
    ASSUME GSInv, NEW c \in Conn, NEW id \in DOMAIN sessions, NEW p \in Player, Connect(c, id, p)
    PROVE  UNCHANGED GamesPlayed
<1>1. sessions[id] \in Session
  BY DEF GSInv, SessionsInv
<1>2. sessions' = [sessions EXCEPT ![id] = Touch(sessions[id], p)]
  BY DEF Connect
<1>3. QED
  BY <1>1, <1>2, TouchSound, SameOutcomeStutters

LEMMA ExpireStutters ==
    ASSUME GSInv, NEW id \in DOMAIN sessions, NEW p \in Player, Expire(id, p)
    PROVE  UNCHANGED GamesPlayed
<1> DEFINE s == sessions[id]
           t == [s EXCEPT !.stale = @ \cup {p}]
<1>1. s \in Session
  BY DEF GSInv, SessionsInv
<1>2. t.states = s.states /\ t.winner = s.winner /\ t.finalized = s.finalized
  BY <1>1 DEF Session
<1>3. sessions' = [sessions EXCEPT ![id] = t]
  BY DEF Expire
<1> HIDE DEF t
<1>4. QED
  BY <1>2, <1>3, SameOutcomeStutters

LEMMA StepsEliminate ==
    ASSUME GSInv, [GSNext]_allvars
    PROVE  Games!ElimNext \/ UNCHANGED GamesPlayed
<1>1. ASSUME UNCHANGED sessions PROVE UNCHANGED GamesPlayed
  BY <1>1 DEF GamesPlayed
<1>2. CASE RoomRequest
  BY <1>1, <1>2 DEF RoomRequest, gsvars
<1>3. ASSUME NEW id \in DOMAIN rooms, CreateSession(id) PROVE Games!ElimNext
  BY <1>3, CreateSessionBegins
<1>4. ASSUME NEW c \in Conn, NEW id \in DOMAIN sessions, NEW p \in Player, Connect(c, id, p)
      PROVE  UNCHANGED GamesPlayed
  BY <1>4, ConnectStutters
<1>5. ASSUME NEW c \in DOMAIN conns, Shot(c) \/ Aim(c) \/ Heartbeat(c)
      PROVE  UNCHANGED GamesPlayed
  BY <1>5, MessagesStutter
<1>6. ASSUME NEW c \in DOMAIN conns, Drop(c) \/ Unregister(c) PROVE UNCHANGED GamesPlayed
  BY <1>1, <1>6 DEF Drop, Unregister
<1>7. ASSUME NEW c \in DOMAIN conns, NEW o \in Status, Land(c, o)
      PROVE  Games!ElimNext \/ UNCHANGED GamesPlayed
  <2>1. conns[c].room \in DOMAIN sessions
    BY HandlersSession
  <2>2. settling = NotSettling
    BY <1>7 DEF Land, Receives, MutexFree
  <2>3. QED
    BY <1>7, <2>1, <2>2, LandGoesOn, GoesOnFalls DEF Store
<1>8. ASSUME NEW c \in DOMAIN conns, BuildState(c)
      PROVE  Games!ElimNext \/ UNCHANGED GamesPlayed
  <2>1. conns[c].room \in DOMAIN sessions
    BY HandlersSession
  <2>2. settling = NotSettling
    BY <1>8 DEF BuildState, MutexFree
  <2>3. QED
    BY <1>8, <2>1, <2>2, TickGoesOn, GoesOnFalls DEF Store
<1>9. ASSUME NEW id \in DOMAIN sessions, NEW p \in Player, Expire(id, p)
      PROVE  UNCHANGED GamesPlayed
  BY <1>9, ExpireStutters
<1>10. ASSUME NEW p \in settling.todo, Evict(p) PROVE UNCHANGED GamesPlayed
  BY <1>1, <1>10 DEF Evict
<1>11. CASE Settled
  BY <1>11, SettledSettles
<1>12. CASE UNCHANGED allvars
  BY <1>1, <1>12 DEF allvars
<1>13. QED
  BY <1>2, <1>3, <1>4, <1>5, <1>6, <1>7, <1>8, <1>9, <1>10, <1>11, <1>12 DEF GSNext

\* Seen through its sessions the service is an elimination game, for any
\* players, rooms and connections: whatever landings, heartbeats, timeouts and
\* new sessions come in which order, players only drop out, the last one wins,
\* at once and once, and every win is settled before anything else happens.
THEOREM GamesEliminate == GSSafe => ImplementsElimination
<1>1. GSInit => Games!ElimInit
  BY DEF GSInit, GamesPlayed, EmptyMap, Games!ElimInit, Games!EmptyMap
<1>2. GSInv /\ [GSNext]_allvars => [Games!ElimNext]_GamesPlayed
  BY StepsEliminate
<1>3. QED
  BY <1>1, <1>2, GSInvAlways, PTL DEF GSSafe, ImplementsElimination, Games!ElimSpec

-----------------------------------------------------------------------------
(* The room manager inside *)

\* No step of the service changes the rooms but by an operation of the manager.
LEMMA OnlyManagerMovesRooms ==
    ASSUME GSInv, [GSNext]_allvars
    PROVE  RMNext \/ UNCHANGED rmvars
<1>1. CASE RoomRequest
  BY <1>1 DEF RoomRequest, RMNext
<1>2. ASSUME NEW id \in DOMAIN rooms, CreateSession(id) PROVE UNCHANGED rmvars
  BY <1>2 DEF CreateSession
<1>3. ASSUME NEW c \in Conn, NEW id \in DOMAIN sessions, NEW p \in Player, Connect(c, id, p)
      PROVE  UNCHANGED rmvars
  BY <1>3 DEF Connect
<1>4. ASSUME NEW c \in DOMAIN conns,
             Shot(c) \/ Aim(c) \/ Heartbeat(c) \/ Drop(c) \/ BuildState(c) \/ Unregister(c)
      PROVE  UNCHANGED rmvars
  BY <1>4 DEF Shot, Aim, Heartbeat, Drop, BuildState, Unregister
<1>5. ASSUME NEW c \in DOMAIN conns, NEW o \in Status, Land(c, o) PROVE UNCHANGED rmvars
  BY <1>5 DEF Land
<1>6. ASSUME NEW id \in DOMAIN sessions, NEW p \in Player, Expire(id, p)
      PROVE  UNCHANGED rmvars
  BY <1>6 DEF Expire
<1>7. ASSUME NEW p \in settling.todo, Evict(p) PROVE RMNext \/ UNCHANGED rmvars
  <2>1. p \in Player
    BY DEF GSInv, SettlingInv
  <2>2. QED
    BY <1>7, <2>1 DEF Evict, RMNext
<1>8. CASE Settled
  BY <1>8 DEF Settled
<1>9. CASE UNCHANGED allvars
  BY <1>9 DEF allvars, rmvars
<1>10. QED
  BY <1>1, <1>2, <1>3, <1>4, <1>5, <1>6, <1>7, <1>8, <1>9 DEF GSNext

\* The game service runs the room manager as it is: what evictions do to the
\* rooms, and when, is nothing a client of the manager could not have done, so
\* every theorem about RMSpec holds inside the service.
THEOREM GamesRunManager == GSSafe => RMSpec
<1>1. GSInit => NewManager
  BY DEF GSInit
<1>2. GSInv /\ [GSNext]_allvars => [RMNext]_rmvars
  BY OnlyManagerMovesRooms
<1>3. QED
  BY <1>1, <1>2, GSInvAlways, PTL DEF GSSafe, RMSpec

\* One room per player, hosts that are members and ids never reused, also
\* while finished games put their losers out of the rooms.
THEOREM GamesKeepDirectory == GSSafe => ImplementsDirectory
BY GamesRunManager, Refinement
=============================================================================
