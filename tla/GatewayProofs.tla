---------------------------- MODULE GatewayProofs ----------------------------
(***************************************************************************)
(* Proofs about Gateway, for any players, connections and pushers.         *)
(*                                                                         *)
(* Why a player has one session unless two of them raced: a session that   *)
(* is served and did not race is the registered one (ServedInv).  This     *)
(* survives the two steps that act on an earlier Load.  The Store of a     *)
(* binding session replaces an entry it has kicked, or one that raced      *)
(* (BindingInv); the Delete of a leaving session removes its own entry, or *)
(* one that raced (DeletingInv).                                           *)
(***************************************************************************)
EXTENDS Gateway, TLAPS

SessionRecord ==
    [at : {"reading", "verifying", "binding", "leaving", "deleting", "gone"},
     open : BOOLEAN, player : Player \cup {None}, kick : SUBSET Session]

TcpTypeInv ==
    /\ playerIndex \in [DOMAIN playerIndex -> DOMAIN sess] /\ DOMAIN playerIndex \subseteq Player
    /\ sess \in [DOMAIN sess -> SessionRecord] /\ DOMAIN sess \subseteq Session
    /\ \A s \in DOMAIN sess :
          /\ sess[s].kick \subseteq DOMAIN sess
          /\ sess[s].at \in {"binding", "deleting"} => sess[s].player # None

\* An entry of a session that is gone is of a player it was before.
GoneInv ==
    \A p \in DOMAIN playerIndex :
        sess[playerIndex[p]].at = "gone" => sess[playerIndex[p]].player # p

ServedInv ==
    \A s \in DOMAIN sess : Serving(s) /\ s \notin raced => Registered(s)

BindingInv ==
    \A s, r \in DOMAIN sess :
        /\ sess[s].at = "binding" /\ r # s
        /\ sess[r].player = sess[s].player /\ Registered(r) /\ sess[r].open
        => r \in sess[s].kick \cup raced

DeletingInv ==
    \A s, r \in DOMAIN sess :
        /\ sess[s].at = "deleting" /\ r # s
        /\ sess[r].player = sess[s].player /\ Registered(r)
        => r \in raced

TcpInv ==
    /\ TcpTypeInv
    /\ GoneInv
    /\ ServedInv
    /\ BindingInv
    /\ DeletingInv
    /\ Racing \subseteq raced

SocketRecord == [at : {"verified", "reading", "gone"}, open : BOOLEAN, player : Player]

WsTypeInv ==
    /\ wsByPlayer \in [DOMAIN wsByPlayer -> DOMAIN socks] /\ DOMAIN wsByPlayer \subseteq Player
    /\ socks \in [DOMAIN socks -> SocketRecord] /\ DOMAIN socks \subseteq Socket

WsEntryInv ==
    \A p \in DOMAIN wsByPlayer :
        socks[wsByPlayer[p]].at = "reading" /\ socks[wsByPlayer[p]].player = p

WsInv == WsTypeInv /\ WsEntryInv /\ OpenSocketsGetPushes

PushRecord == [todo : SUBSET (Player \X DOMAIN socks), drop : SUBSET (Player \X DOMAIN socks)]

\* A socket whose entry a push is about to drop is closed.
PushInv ==
    /\ pushes \in [Pusher -> PushRecord]
    /\ \A k \in Pusher : \A t \in pushes[k].drop : ~socks[t[2]].open

GwInv == TcpInv /\ WsInv /\ PushInv

-----------------------------------------------------------------------------
(* TCP sessions *)

\* A step that moves one session on, without closing others or touching
\* playerIndex.  What is left to show of it is stated in terms of the session.
LEMMA SessionMoves ==
    ASSUME TcpInv, raced' = raced \cup Racing', UNCHANGED playerIndex,
           NEW s \in DOMAIN sess, NEW x \in SessionRecord, sess' = [sess EXCEPT ![s] = x],
           x.kick \subseteq DOMAIN sess,
           x.at \in {"binding", "deleting"} => x.player # None,
           x.open => sess[s].open,
           x.at = "gone" => x.player = sess[s].player /\ ~Registered(s),
           x.at \in {"reading", "verifying"} =>
               x.player = sess[s].player /\ sess[s].at \in {"reading", "verifying"},
           x.at \notin {"reading", "verifying", "gone"} =>
               \/ x.at = "binding" /\ \A r \in DOMAIN sess \ {s} :
                     x.player \in DOMAIN playerIndex /\ playerIndex[x.player] = r => r \in x.kick
               \/ x.at = "deleting" /\ x.player = sess[s].player /\ Registered(s)
               \/ x.at = "leaving" /\ x.player = sess[s].player
    PROVE  TcpInv'
<1>1. /\ DOMAIN sess' = DOMAIN sess /\ sess'[s] = x
      /\ \A r \in DOMAIN sess : r # s => sess'[r] = sess[r]
      /\ sess' = [r \in DOMAIN sess' |-> sess'[r]]
  BY DEF TcpInv, TcpTypeInv
<1>2. raced \subseteq raced' /\ Racing' \subseteq raced'
  OBVIOUS
<1>3. TcpTypeInv'
  BY <1>1 DEF TcpInv, TcpTypeInv
<1>4. GoneInv'
  BY <1>1 DEF TcpInv, TcpTypeInv, GoneInv, Registered
<1>5. ServedInv'
  <2> SUFFICES ASSUME NEW r \in DOMAIN sess, Serving(r)', r \notin raced'
               PROVE  Registered(r)'
    BY <1>1 DEF ServedInv
  <2>1. Serving(r) /\ sess'[r].player = sess[r].player
    BY <1>1 DEF Serving
  <2>2. QED
    BY <1>2, <2>1 DEF TcpInv, ServedInv, Registered
<1>6. ASSUME NEW a \in DOMAIN sess, NEW r \in DOMAIN sess, r # a,
             sess'[a].at \in {"binding", "deleting"}, sess'[r].player = sess'[a].player,
             r = s, sess'[r].player # sess[r].player
      PROVE  r \in raced'
  <2>1. sess'[r].at = "binding"
    BY <1>1, <1>6
  <2>2. r \in Racing'
    BY <1>1, <1>6, <2>1 DEF Racing
  <2>3. QED
    BY <1>2, <2>2
<1>7. BindingInv'
  <2> SUFFICES ASSUME NEW a \in DOMAIN sess, NEW r \in DOMAIN sess,
                      sess'[a].at = "binding", r # a, sess'[r].player = sess'[a].player,
                      Registered(r)', sess'[r].open, r \notin raced'
               PROVE  r \in sess'[a].kick
    BY <1>1 DEF BindingInv
  <2>1. CASE a = s
    BY <1>1, <2>1 DEF Registered
  <2>2. CASE a # s
    <3>1. sess'[r].player = sess[r].player
      BY <1>1, <1>6, <2>2
    <3>2. sess[r].open /\ Registered(r) /\ r \notin raced
      BY <1>1, <1>2, <3>1 DEF Registered
    <3>3. QED
      BY <1>1, <2>2, <3>1, <3>2 DEF TcpInv, BindingInv
  <2>3. QED
    BY <2>1, <2>2
<1>8. DeletingInv'
  <2> SUFFICES ASSUME NEW a \in DOMAIN sess, NEW r \in DOMAIN sess,
                      sess'[a].at = "deleting", r # a, sess'[r].player = sess'[a].player,
                      Registered(r)', r \notin raced'
               PROVE  FALSE
    BY <1>1 DEF DeletingInv
  <2>1. CASE a = s
    BY <1>1, <2>1 DEF Registered
  <2>2. CASE a # s
    <3>1. sess'[r].player = sess[r].player
      BY <1>1, <1>6, <2>2
    <3>2. Registered(r) /\ r \notin raced
      BY <1>1, <1>2, <3>1 DEF Registered
    <3>3. QED
      BY <1>1, <2>2, <3>1, <3>2 DEF TcpInv, DeletingInv
  <2>3. QED
    BY <2>1, <2>2
<1>9. QED
  BY <1>2, <1>3, <1>4, <1>5, <1>7, <1>8 DEF TcpInv

\* A new connection is nobody's yet, so no entry can be its.
LEMMA ConnectSound ==
    ASSUME TcpInv, raced' = raced \cup Racing', NEW s \in Session, Connect(s)
    PROVE  TcpInv'
<1> DEFINE new == [at |-> "reading", open |-> TRUE, player |-> None, kick |-> {}]
<1>1. new \in SessionRecord
  BY DEF SessionRecord
<1>2. /\ DOMAIN sess' = DOMAIN sess \cup {s} /\ s \notin DOMAIN sess
      /\ sess'[s] = new /\ \A r \in DOMAIN sess : sess'[r] = sess[r]
      /\ sess' = [r \in DOMAIN sess' |-> sess'[r]]
      /\ playerIndex' = playerIndex
  BY DEF Connect, Put
<1>3. raced \subseteq raced' /\ Racing' \subseteq raced'
  OBVIOUS
<1>4. TcpTypeInv'
  <2>0. new.kick = {}
    OBVIOUS
  <2>1. \A r \in DOMAIN sess' : sess'[r] \in SessionRecord /\ sess'[r].kick \subseteq DOMAIN sess
    <3> HIDE DEF new
    <3>1. QED
      BY <1>1, <1>2, <2>0 DEF TcpInv, TcpTypeInv
  <2>2. \A r \in DOMAIN sess' : sess'[r].at \in {"binding", "deleting"} => sess'[r].player # None
    BY <1>2 DEF TcpInv, TcpTypeInv
  <2> HIDE DEF new
  <2>3. playerIndex' \in [DOMAIN playerIndex' -> DOMAIN sess'] /\ DOMAIN playerIndex' \subseteq Player
    BY <1>2 DEF TcpInv, TcpTypeInv
  <2>4. sess' \in [DOMAIN sess' -> SessionRecord] /\ DOMAIN sess' \subseteq Session
    BY <1>2, <2>1 DEF TcpInv, TcpTypeInv
  <2>5. QED
    BY <1>2, <2>1, <2>2, <2>3, <2>4 DEF TcpTypeInv
<1>5. ~Serving(s)' /\ ~Registered(s)' /\ sess'[s].at \notin {"binding", "deleting"}
  BY <1>2, NoneAssumption DEF Serving, Registered, TcpInv, TcpTypeInv
<1> HIDE DEF new
<1>6. GoneInv'
  BY <1>2 DEF TcpInv, TcpTypeInv, GoneInv
<1>7. ServedInv'
  BY <1>2, <1>3, <1>5 DEF TcpInv, ServedInv, Serving, Registered
<1>8. BindingInv'
  BY <1>2, <1>3, <1>5 DEF TcpInv, BindingInv, Registered
<1>9. DeletingInv'
  BY <1>2, <1>3, <1>5 DEF TcpInv, DeletingInv, Registered
<1>10. QED
  BY <1>3, <1>4, <1>6, <1>7, <1>8, <1>9 DEF TcpInv

\* An authentication asked for or refused, a failed read, and the Load of a
\* leaving session move their own session only.
LEMMA HandlerMoves ==
    ASSUME TcpInv, raced' = raced \cup Racing', NEW s \in DOMAIN sess,
           AuthRequest(s) \/ AuthRefused(s) \/ ReadFails(s) \/ UnbindLoad(s)
    PROVE  TcpInv'
<1>0. sess[s] \in SessionRecord /\ sess[s].kick \subseteq DOMAIN sess
  BY DEF TcpInv, TcpTypeInv
<1> DEFINE at(a) == [sess[s] EXCEPT !.at = a]
           gone == [sess[s] EXCEPT !.at = "gone", !.open = FALSE]
<1>1. CASE AuthRequest(s)
  <2>1. /\ at("verifying") \in SessionRecord /\ at("verifying").at = "verifying"
        /\ at("verifying").open = sess[s].open /\ at("verifying").player = sess[s].player
        /\ at("verifying").kick = sess[s].kick
    BY <1>0 DEF SessionRecord
  <2>2. sess' = [sess EXCEPT ![s] = at("verifying")] /\ UNCHANGED playerIndex
        /\ sess[s].at = "reading"
    BY <1>1 DEF AuthRequest
  <2> HIDE DEF at
  <2>3. QED
    BY <1>0, <2>1, <2>2, SessionMoves
<1>2. CASE AuthRefused(s)
  <2>1. /\ at("reading") \in SessionRecord /\ at("reading").at = "reading"
        /\ at("reading").open = sess[s].open /\ at("reading").player = sess[s].player
        /\ at("reading").kick = sess[s].kick
    BY <1>0 DEF SessionRecord
  <2>2. sess' = [sess EXCEPT ![s] = at("reading")] /\ UNCHANGED playerIndex
        /\ sess[s].at = "verifying"
    BY <1>2 DEF AuthRefused
  <2> HIDE DEF at
  <2>3. QED
    BY <1>0, <2>1, <2>2, SessionMoves
<1>3. CASE ReadFails(s)
  <2>1. /\ at("leaving") \in SessionRecord /\ at("leaving").at = "leaving"
        /\ at("leaving").open = sess[s].open /\ at("leaving").player = sess[s].player
        /\ at("leaving").kick = sess[s].kick
    BY <1>0 DEF SessionRecord
  <2>2. sess' = [sess EXCEPT ![s] = at("leaving")] /\ UNCHANGED playerIndex
    BY <1>3 DEF ReadFails
  <2> HIDE DEF at
  <2>3. QED
    BY <1>0, <2>1, <2>2, SessionMoves
<1>4. CASE UnbindLoad(s) /\ Registered(s)
  <2>1. /\ at("deleting") \in SessionRecord /\ at("deleting").at = "deleting"
        /\ at("deleting").open = sess[s].open /\ at("deleting").player = sess[s].player
        /\ at("deleting").kick = sess[s].kick
    BY <1>0 DEF SessionRecord
  <2>2. sess' = [sess EXCEPT ![s] = at("deleting")] /\ UNCHANGED playerIndex
    BY <1>4 DEF UnbindLoad
  <2>3. sess[s].player # None
    BY <1>4, NoneAssumption DEF Registered, TcpInv, TcpTypeInv
  <2> HIDE DEF at
  <2>4. QED
    BY <1>0, <1>4, <2>1, <2>2, <2>3, SessionMoves
<1>5. CASE UnbindLoad(s) /\ ~Registered(s)
  <2>1. /\ gone \in SessionRecord /\ gone.at = "gone" /\ gone.open = FALSE
        /\ gone.player = sess[s].player /\ gone.kick = sess[s].kick
    BY <1>0 DEF SessionRecord
  <2>2. sess' = [sess EXCEPT ![s] = gone] /\ UNCHANGED playerIndex
    BY <1>5 DEF UnbindLoad
  <2> HIDE DEF gone
  <2>3. QED
    BY <1>0, <1>5, <2>1, <2>2, SessionMoves
<1>6. QED
  BY <1>1, <1>2, <1>3, <1>4, <1>5

\* The Load of a new login sees the session registered for its player.
LEMMA AuthAcceptedSound ==
    ASSUME TcpInv, raced' = raced \cup Racing', NEW s \in DOMAIN sess, NEW p \in Player,
           AuthAccepted(s, p)
    PROVE  TcpInv'
<1> DEFINE K == {r \in {playerIndex[q] : q \in {p} \cap DOMAIN playerIndex} : r # s}
           x == [sess[s] EXCEPT !.at = "binding", !.player = p, !.kick = K]
<1>0. sess[s] \in SessionRecord
  BY DEF TcpInv, TcpTypeInv
<1>1. K \subseteq DOMAIN sess /\ K \subseteq Session
  BY DEF TcpInv, TcpTypeInv
<1>2. \A r \in DOMAIN sess \ {s} : p \in DOMAIN playerIndex /\ playerIndex[p] = r => r \in K
  OBVIOUS
<1>3. sess' = [sess EXCEPT ![s] = x] /\ UNCHANGED playerIndex
  BY DEF AuthAccepted
<1> HIDE DEF K
<1>4. /\ x \in SessionRecord /\ x.at = "binding" /\ x.player = p /\ x.kick = K
      /\ x.open = sess[s].open
  BY <1>0, <1>1 DEF SessionRecord
<1> HIDE DEF x
<1>5. p # None
  BY NoneAssumption
<1>6. QED
  BY <1>1, <1>2, <1>3, <1>4, <1>5, SessionMoves

\* Closing the sessions that were seen.
LEMMA KickSound ==
    ASSUME TcpInv, raced' = raced \cup Racing', NEW s \in DOMAIN sess, Kick(s)
    PROVE  TcpInv'
<1>1. /\ DOMAIN sess' = DOMAIN sess /\ playerIndex' = playerIndex
      /\ sess' = [r \in DOMAIN sess' |-> sess'[r]]
      /\ sess'[s] = [sess[s] EXCEPT !.kick = {}]
      /\ \A r \in DOMAIN sess \ {s} :
            sess'[r] = [sess[r] EXCEPT !.open = @ /\ r \notin sess[s].kick]
  BY DEF Kick
<1>2. \A r \in DOMAIN sess : sess[r] \in SessionRecord
  BY DEF TcpInv, TcpTypeInv
<1>3. /\ sess'[s] \in SessionRecord /\ sess'[s].kick = {} /\ sess'[s].open = sess[s].open
      /\ sess'[s].at = sess[s].at /\ sess'[s].player = sess[s].player
  <2>1. sess[s] \in SessionRecord
    BY <1>2
  <2>2. QED
    BY <1>1, <2>1 DEF SessionRecord
<1>4. ASSUME NEW r \in DOMAIN sess
      PROVE  /\ sess'[r] \in SessionRecord
             /\ sess'[r].at = sess[r].at /\ sess'[r].player = sess[r].player
             /\ sess'[r].open => sess[r].open /\ (r # s => r \notin sess[s].kick)
             /\ r # s => sess'[r].kick = sess[r].kick
  <2>1. CASE r = s
    BY <1>3, <2>1
  <2>2. CASE r # s
    <3>1. sess[r] \in SessionRecord /\ sess'[r] = [sess[r] EXCEPT !.open = @ /\ r \notin sess[s].kick]
      BY <1>1, <1>2, <2>2
    <3>2. /\ sess'[r].at = sess[r].at /\ sess'[r].player = sess[r].player
          /\ sess'[r].kick = sess[r].kick
          /\ sess'[r].open = (sess[r].open /\ r \notin sess[s].kick)
      BY <3>1 DEF SessionRecord
    <3>3. (sess[r].open /\ r \notin sess[s].kick) \in BOOLEAN
      OBVIOUS
    <3>4. sess'[r] \in SessionRecord
      BY <3>1, <3>3 DEF SessionRecord
    <3>5. QED
      BY <2>2, <3>2, <3>4
  <2>3. QED
    BY <2>1, <2>2
<1>5. raced \subseteq raced' /\ Racing' \subseteq raced'
  OBVIOUS
<1>6. TcpTypeInv'
  <2>1. sess' \in [DOMAIN sess' -> SessionRecord] /\ DOMAIN sess' \subseteq Session
    BY <1>1, <1>4 DEF TcpInv, TcpTypeInv
  <2>2. \A r \in DOMAIN sess : sess'[r].kick \subseteq DOMAIN sess
    BY <1>3, <1>4 DEF TcpInv, TcpTypeInv
  <2>3. \A r \in DOMAIN sess : sess'[r].at \in {"binding", "deleting"} => sess'[r].player # None
    BY <1>4 DEF TcpInv, TcpTypeInv
  <2>4. QED
    BY <1>1, <2>1, <2>2, <2>3 DEF TcpInv, TcpTypeInv
<1>7. GoneInv'
  BY <1>1, <1>4 DEF TcpInv, TcpTypeInv, GoneInv
<1>8. ServedInv'
  BY <1>1, <1>4, <1>5 DEF TcpInv, ServedInv, Serving, Registered
<1>9. BindingInv'
  BY <1>1, <1>3, <1>4, <1>5 DEF TcpInv, BindingInv, Registered
<1>10. DeletingInv'
  BY <1>1, <1>4, <1>5 DEF TcpInv, DeletingInv, Registered
<1>11. QED
  BY <1>5, <1>6, <1>7, <1>8, <1>9, <1>10 DEF TcpInv

\* The Store: whoever it displaces was kicked, or raced.
LEMMA BindSound ==
    ASSUME TcpInv, raced' = raced \cup Racing', NEW s \in DOMAIN sess, Bind(s)
    PROVE  TcpInv'
<1> DEFINE p == sess[s].player
<1>0. sess[s] \in SessionRecord /\ p \in Player /\ sess[s].at = "binding" /\ sess[s].kick = {}
  BY DEF Bind, TcpInv, TcpTypeInv, SessionRecord
<1>1. /\ DOMAIN sess' = DOMAIN sess /\ sess' = [r \in DOMAIN sess' |-> sess'[r]]
      /\ sess'[s] = [sess[s] EXCEPT !.at = "reading"]
      /\ \A r \in DOMAIN sess \ {s} : sess'[r] = sess[r]
  BY DEF Bind
<1>2. /\ sess'[s] \in SessionRecord /\ sess'[s].at = "reading" /\ sess'[s].player = p
      /\ sess'[s].open = sess[s].open /\ sess'[s].kick = sess[s].kick
  BY <1>0, <1>1 DEF SessionRecord
<1>3. /\ DOMAIN playerIndex' = DOMAIN playerIndex \cup {p} /\ playerIndex'[p] = s
      /\ \A q \in DOMAIN playerIndex \ {p} : playerIndex'[q] = playerIndex[q]
      /\ playerIndex' = [q \in DOMAIN playerIndex' |-> playerIndex'[q]]
  BY DEF Bind, Put
<1>4. raced \subseteq raced' /\ Racing' \subseteq raced'
  OBVIOUS
<1> HIDE DEF p
<1>5. /\ \A r \in DOMAIN sess : sess'[r].player = sess[r].player
      /\ sess[s].player = p
  BY <1>1, <1>2 DEF p
<1>5a. /\ \A r \in DOMAIN sess : Registered(r)' /\ r # s => Registered(r) /\ sess[r].player # p
       /\ \A r \in DOMAIN sess : Registered(r) /\ sess[r].player # p => Registered(r)'
  BY <1>3, <1>5 DEF Registered
<1>6. Registered(s)'
  BY <1>2, <1>3 DEF Registered
<1>7. TcpTypeInv'
  <2>1. sess' \in [DOMAIN sess' -> SessionRecord] /\ DOMAIN sess' \subseteq Session
    BY <1>1, <1>2 DEF TcpInv, TcpTypeInv
  <2>2. playerIndex' \in [DOMAIN playerIndex' -> DOMAIN sess'] /\ DOMAIN playerIndex' \subseteq Player
    BY <1>0, <1>1, <1>3 DEF TcpInv, TcpTypeInv
  <2>3. \A r \in DOMAIN sess' :
          /\ sess'[r].kick \subseteq DOMAIN sess'
          /\ sess'[r].at \in {"binding", "deleting"} => sess'[r].player # None
    BY <1>1, <1>2 DEF TcpInv, TcpTypeInv
  <2>4. QED
    BY <2>1, <2>2, <2>3 DEF TcpTypeInv
<1>8. GoneInv'
  <2> SUFFICES ASSUME NEW q \in DOMAIN playerIndex', sess'[playerIndex'[q]].at = "gone"
               PROVE  sess'[playerIndex'[q]].player # q
    BY DEF GoneInv
  <2>1. q # p /\ q \in DOMAIN playerIndex /\ playerIndex'[q] = playerIndex[q]
    BY <1>2, <1>3
  <2>2. playerIndex[q] \in DOMAIN sess /\ playerIndex[q] # s
    BY <1>2, <2>1 DEF TcpInv, TcpTypeInv
  <2>3. QED
    BY <1>1, <2>1, <2>2 DEF TcpInv, GoneInv
<1>9. ServedInv'
  <2> SUFFICES ASSUME NEW r \in DOMAIN sess, Serving(r)', r \notin raced', r # s
               PROVE  Registered(r)'
    BY <1>1, <1>6 DEF ServedInv
  <2>1. Serving(r) /\ Registered(r) /\ r \notin raced /\ sess[r].open
    BY <1>1, <1>4 DEF TcpInv, ServedInv, Serving
  <2>2. sess[r].player # p
    BY <1>0, <1>5, <2>1 DEF TcpInv, BindingInv
  <2>3. QED
    BY <1>5a, <2>1, <2>2
<1>10. ASSUME NEW a \in DOMAIN sess, a # s, sess'[a].at \in {"binding", "deleting"},
              sess'[a].player = p
       PROVE  s \in raced'
  <2>1. s \in Racing
    BY <1>0, <1>1, <1>5, <1>10 DEF Racing
  <2>2. QED
    BY <1>4, <2>1 DEF TcpInv
<1>11. BindingInv'
  <2> SUFFICES ASSUME NEW a \in DOMAIN sess, NEW r \in DOMAIN sess,
                      sess'[a].at = "binding", r # a, sess'[r].player = sess'[a].player,
                      Registered(r)', sess'[r].open, r \notin raced', r # s
               PROVE  r \in sess'[a].kick
    BY <1>1, <1>2, <1>5, <1>10 DEF BindingInv
  <2>1. a # s
    BY <1>2
  <2>2. sess'[a] = sess[a] /\ sess'[r] = sess[r] /\ Registered(r) /\ r \notin raced
    BY <1>1, <1>4, <1>5a, <2>1
  <2>3. QED
    BY <2>1, <2>2 DEF TcpInv, BindingInv
<1>12. DeletingInv'
  <2> SUFFICES ASSUME NEW a \in DOMAIN sess, NEW r \in DOMAIN sess,
                      sess'[a].at = "deleting", r # a, sess'[r].player = sess'[a].player,
                      Registered(r)', r \notin raced', r # s
               PROVE  FALSE
    BY <1>1, <1>2, <1>5, <1>10 DEF DeletingInv
  <2>1. a # s
    BY <1>2
  <2>2. sess'[a] = sess[a] /\ sess'[r] = sess[r] /\ Registered(r) /\ r \notin raced
    BY <1>1, <1>4, <1>5a, <2>1
  <2>3. QED
    BY <2>1, <2>2 DEF TcpInv, DeletingInv
<1>13. QED
  BY <1>4, <1>7, <1>8, <1>9, <1>11, <1>12 DEF TcpInv

\* The Delete: whoever else's entry it takes away raced.
LEMMA UnbindDeleteSound ==
    ASSUME TcpInv, raced' = raced \cup Racing', NEW s \in DOMAIN sess, UnbindDelete(s)
    PROVE  TcpInv'
<1> DEFINE p == sess[s].player
<1>0. sess[s] \in SessionRecord /\ p \in Player /\ sess[s].at = "deleting"
  BY DEF UnbindDelete, TcpInv, TcpTypeInv, SessionRecord
<1>1. /\ DOMAIN sess' = DOMAIN sess /\ sess' = [r \in DOMAIN sess' |-> sess'[r]]
      /\ sess'[s] = [sess[s] EXCEPT !.at = "gone", !.open = FALSE]
      /\ \A r \in DOMAIN sess \ {s} : sess'[r] = sess[r]
  BY DEF UnbindDelete
<1>2. /\ sess'[s] \in SessionRecord /\ sess'[s].at = "gone" /\ sess'[s].player = p
      /\ sess'[s].open = FALSE /\ sess'[s].kick = sess[s].kick
  BY <1>0, <1>1 DEF SessionRecord
<1>3. /\ DOMAIN playerIndex' = DOMAIN playerIndex \ {p}
      /\ \A q \in DOMAIN playerIndex \ {p} : playerIndex'[q] = playerIndex[q]
      /\ playerIndex' = [q \in DOMAIN playerIndex' |-> playerIndex'[q]]
  BY DEF UnbindDelete, Del
<1>4. raced \subseteq raced' /\ Racing' \subseteq raced'
  OBVIOUS
<1> HIDE DEF p
<1>5. /\ \A r \in DOMAIN sess : sess'[r].player = sess[r].player
      /\ sess[s].player = p
      /\ \A r \in DOMAIN sess : Registered(r)' <=> Registered(r) /\ sess[r].player # p
  BY <1>1, <1>2, <1>3, ZenonT(60) DEF Registered, p
<1>6. TcpTypeInv'
  <2>1. sess' \in [DOMAIN sess' -> SessionRecord] /\ DOMAIN sess' \subseteq Session
    BY <1>1, <1>2 DEF TcpInv, TcpTypeInv
  <2>2. playerIndex' \in [DOMAIN playerIndex' -> DOMAIN sess'] /\ DOMAIN playerIndex' \subseteq Player
    BY <1>0, <1>1, <1>3 DEF TcpInv, TcpTypeInv
  <2>3. \A r \in DOMAIN sess' :
          /\ sess'[r].kick \subseteq DOMAIN sess'
          /\ sess'[r].at \in {"binding", "deleting"} => sess'[r].player # None
    BY <1>1, <1>2 DEF TcpInv, TcpTypeInv
  <2>4. QED
    BY <2>1, <2>2, <2>3 DEF TcpTypeInv
<1>7. GoneInv'
  BY <1>1, <1>2, <1>3, ZenonT(60) DEF TcpInv, TcpTypeInv, GoneInv
<1>8. ServedInv'
  <2> SUFFICES ASSUME NEW r \in DOMAIN sess, Serving(r)', r \notin raced'
               PROVE  Registered(r)'
    BY <1>1 DEF ServedInv
  <2>1. r # s
    BY <1>2 DEF Serving
  <2>2. Serving(r) /\ Registered(r) /\ r \notin raced
    BY <1>1, <1>4, <2>1 DEF TcpInv, ServedInv, Serving
  <2>3. sess[r].player # p
    BY <1>0, <1>5, <2>1, <2>2 DEF TcpInv, DeletingInv
  <2>4. QED
    BY <1>5, <2>2, <2>3
<1>9. BindingInv'
  BY <1>1, <1>2, <1>4, <1>5 DEF TcpInv, BindingInv
<1>10. DeletingInv'
  BY <1>1, <1>2, <1>4, <1>5 DEF TcpInv, DeletingInv
<1>11. QED
  BY <1>4, <1>6, <1>7, <1>8, <1>9, <1>10 DEF TcpInv

-----------------------------------------------------------------------------
(* Lobby sockets and pushes *)

\* A table of pushes stays one of accepted sockets, and of closed ones, as more
\* are accepted and none is opened again.
LEMMA PushesKept ==
    ASSUME PushInv, UNCHANGED pushes, DOMAIN socks \subseteq DOMAIN socks',
           \A v \in DOMAIN socks : socks'[v].open => socks[v].open
    PROVE  PushInv'
<1>1. \A k \in Pusher : \A t \in pushes[k].drop : t[2] \in DOMAIN socks
  BY DEF PushInv, PushRecord
<1>2. QED
  BY <1>1 DEF PushInv, PushRecord

\* Steps of TCP sessions do not touch the sockets.
LEMMA WsUntouched ==
    ASSUME WsInv, PushInv, UNCHANGED <<wsVars, pushVars>>
    PROVE  WsInv' /\ PushInv'
BY DEF WsInv, WsTypeInv, WsEntryInv, OpenSocketsGetPushes, PushInv, PushRecord, wsVars, pushVars

\* Steps of sockets and pushes do not touch the TCP sessions.
LEMMA TcpUntouched ==
    ASSUME TcpInv, raced' = raced \cup Racing', UNCHANGED tcpVars
    PROVE  TcpInv'
<1>1. playerIndex' = playerIndex /\ sess' = sess
  BY DEF tcpVars
<1>2. Racing' = Racing
  BY <1>1 DEF Racing
<1>3. raced' = raced
  BY <1>2 DEF TcpInv
<1>4. QED
  BY <1>1, <1>2, <1>3 DEF TcpInv, TcpTypeInv, GoneInv, ServedInv, BindingInv, DeletingInv,
                          Serving, Registered

LEMMA WsConnectSound ==
    ASSUME WsInv, PushInv, NEW w \in Socket, NEW p \in Player, WsConnect(w, p)
    PROVE  WsInv' /\ PushInv'
<1> DEFINE new == [at |-> "verified", open |-> TRUE, player |-> p]
<1>1. new \in SocketRecord /\ new.at = "verified"
  BY DEF SocketRecord
<1>2. /\ DOMAIN socks' = DOMAIN socks \cup {w} /\ w \notin DOMAIN socks
      /\ socks'[w] = new /\ \A v \in DOMAIN socks : socks'[v] = socks[v]
      /\ socks' = [v \in DOMAIN socks' |-> socks'[v]]
      /\ wsByPlayer' = wsByPlayer /\ pushes' = pushes /\ dropped' = dropped
  BY DEF WsConnect, Put, pushVars
<1> HIDE DEF new
<1>3. WsTypeInv'
  <2>1. \A v \in DOMAIN socks' : socks'[v] \in SocketRecord
    BY <1>1, <1>2 DEF WsInv, WsTypeInv
  <2>2. QED
    BY <1>2, <2>1 DEF WsInv, WsTypeInv
<1>4. WsEntryInv'
  BY <1>2 DEF WsInv, WsTypeInv, WsEntryInv
<1>5. OpenSocketsGetPushes'
  BY <1>1, <1>2 DEF WsInv, OpenSocketsGetPushes
<1>6. QED
  BY <1>2, <1>3, <1>4, <1>5, PushesKept DEF WsInv

\* A socket that takes the entry of its player closes the one that had it.
LEMMA WsRegisterSound ==
    ASSUME WsInv, PushInv, NEW w \in DOMAIN socks, WsRegister(w)
    PROVE  WsInv' /\ PushInv'
<1> DEFINE p == socks[w].player
           had(v) == p \in DOMAIN wsByPlayer /\ wsByPlayer[p] = v
<1>1. /\ DOMAIN socks' = DOMAIN socks /\ socks' = [v \in DOMAIN socks' |-> socks'[v]]
      /\ socks'[w] = [socks[w] EXCEPT !.at = "reading"]
      /\ \A v \in DOMAIN socks \ {w} : socks'[v] = [socks[v] EXCEPT !.open = @ /\ ~had(v)]
      /\ wsByPlayer' = Put(wsByPlayer, p, w)
      /\ pushes' = pushes /\ dropped' = dropped /\ socks[w].at = "verified"
  BY DEF WsRegister, pushVars
<1>2. \A v \in DOMAIN socks : socks[v] \in SocketRecord /\ (~had(v)) \in BOOLEAN
  BY DEF WsInv, WsTypeInv
<1>3. /\ DOMAIN wsByPlayer' = DOMAIN wsByPlayer \cup {p} /\ wsByPlayer'[p] = w
      /\ \A q \in DOMAIN wsByPlayer \ {p} : wsByPlayer'[q] = wsByPlayer[q]
      /\ wsByPlayer' = [q \in DOMAIN wsByPlayer' |-> wsByPlayer'[q]]
  BY <1>1 DEF Put
<1>4. /\ socks'[w] \in SocketRecord /\ socks'[w].at = "reading" /\ socks'[w].player = p /\ p \in Player
  <2>1. socks[w] \in SocketRecord
    BY <1>2
  <2>2. QED
    BY <1>1, <2>1 DEF SocketRecord
<1>5. ASSUME NEW v \in DOMAIN socks \ {w}
      PROVE  /\ socks'[v] \in SocketRecord
             /\ socks'[v].at = socks[v].at /\ socks'[v].player = socks[v].player
             /\ socks'[v].open => socks[v].open /\ ~had(v)
  <2>1. socks[v] \in SocketRecord /\ socks'[v] = [socks[v] EXCEPT !.open = @ /\ ~had(v)]
    BY <1>1, <1>2
  <2>2. (socks[v].open /\ ~had(v)) \in BOOLEAN
    BY <1>2
  <2> HIDE DEF had
  <2>3. /\ socks'[v].at = socks[v].at /\ socks'[v].player = socks[v].player
        /\ socks'[v].open = (socks[v].open /\ ~had(v))
    BY <2>1 DEF SocketRecord
  <2>4. socks'[v] \in SocketRecord
    BY <2>1, <2>2 DEF SocketRecord
  <2>5. QED
    BY <2>3, <2>4
<1>6. WsTypeInv'
  <2>1. \A v \in DOMAIN socks' : socks'[v] \in SocketRecord
    BY <1>1, <1>4, <1>5
  <2> HIDE DEF p, had
  <2>2. socks' \in [DOMAIN socks' -> SocketRecord] /\ DOMAIN socks' \subseteq Socket
    BY <1>1, <2>1 DEF WsInv, WsTypeInv
  <2>3. wsByPlayer' \in [DOMAIN wsByPlayer' -> DOMAIN socks'] /\ DOMAIN wsByPlayer' \subseteq Player
    BY <1>1, <1>3, <1>4 DEF WsInv, WsTypeInv
  <2>4. QED
    BY <2>2, <2>3 DEF WsTypeInv
<1>7. \A q \in DOMAIN wsByPlayer : wsByPlayer[q] \in DOMAIN socks \ {w}
  BY <1>1 DEF WsInv, WsTypeInv, WsEntryInv
<1>8. WsEntryInv'
  <2> SUFFICES ASSUME NEW q \in DOMAIN wsByPlayer'
               PROVE  socks'[wsByPlayer'[q]].at = "reading" /\ socks'[wsByPlayer'[q]].player = q
    BY DEF WsEntryInv
  <2> HIDE DEF p, had
  <2>1. CASE q = p
    BY <1>3, <1>4, <2>1
  <2>2. CASE q # p
    BY <1>3, <1>5, <1>7, <2>2 DEF WsInv, WsEntryInv
  <2>3. QED
    BY <2>1, <2>2
<1>9. OpenSocketsGetPushes'
  <2> SUFFICES ASSUME NEW v \in DOMAIN socks', socks'[v].at = "reading", socks'[v].open,
                      v \notin dropped', v # w
               PROVE  socks'[v].player \in DOMAIN wsByPlayer' /\ wsByPlayer'[socks'[v].player] = v
    <3>1. socks'[w].player \in DOMAIN wsByPlayer' /\ wsByPlayer'[socks'[w].player] = w
      BY <1>3, <1>4
    <3> HIDE DEF p, had
    <3>2. QED
      BY <3>1 DEF OpenSocketsGetPushes
  <2>0. v \in DOMAIN socks
    BY <1>1
  <2>1. socks[v].player \in DOMAIN wsByPlayer /\ wsByPlayer[socks[v].player] = v /\ ~had(v)
    BY <1>1, <1>5, <2>0 DEF WsInv, OpenSocketsGetPushes
  <2>2. socks[v].player # p /\ socks'[v].player = socks[v].player
    BY <1>5, <2>0, <2>1
  <2> HIDE DEF p, had
  <2>3. QED
    BY <1>3, <2>1, <2>2
<1>10. \A v \in DOMAIN socks : socks'[v].open => socks[v].open
  <2>1. socks'[w].open = socks[w].open
    BY <1>1, <1>2 DEF SocketRecord
  <2>2. QED
    BY <1>5, <2>1
<1>11. QED
  BY <1>1, <1>6, <1>8, <1>9, <1>10, PushesKept DEF WsInv

\* The cleanup of a socket takes away its own entry or none.
LEMMA WsEndSound ==
    ASSUME WsInv, PushInv, NEW w \in DOMAIN socks, WsEnd(w)
    PROVE  WsInv' /\ PushInv'
<1> DEFINE p == socks[w].player
           mine == p \in DOMAIN wsByPlayer /\ wsByPlayer[p] = w
<1>1. /\ DOMAIN socks' = DOMAIN socks /\ socks' = [v \in DOMAIN socks' |-> socks'[v]]
      /\ socks'[w] = [socks[w] EXCEPT !.at = "gone", !.open = FALSE]
      /\ \A v \in DOMAIN socks \ {w} : socks'[v] = socks[v]
      /\ pushes' = pushes /\ dropped' = dropped
  BY DEF WsEnd, pushVars
<1>2. socks'[w] \in SocketRecord /\ socks'[w].at = "gone" /\ ~socks'[w].open
  <2>1. socks[w] \in SocketRecord
    BY DEF WsInv, WsTypeInv
  <2>2. QED
    BY <1>1, <2>1 DEF SocketRecord
<1>3. /\ DOMAIN wsByPlayer' \subseteq DOMAIN wsByPlayer
      /\ \A q \in DOMAIN wsByPlayer' : wsByPlayer'[q] = wsByPlayer[q] /\ wsByPlayer[q] # w
      /\ wsByPlayer' \in [DOMAIN wsByPlayer' -> DOMAIN socks]
      /\ \A q \in DOMAIN wsByPlayer : wsByPlayer[q] # w => q \in DOMAIN wsByPlayer'
  <2>1. \A q \in DOMAIN wsByPlayer : wsByPlayer[q] = w => q = p
    BY DEF WsInv, WsEntryInv
  <2>2. CASE mine
    <3>1. /\ DOMAIN wsByPlayer' = DOMAIN wsByPlayer \ {p}
          /\ \A q \in DOMAIN wsByPlayer' : wsByPlayer'[q] = wsByPlayer[q]
          /\ wsByPlayer' = [q \in DOMAIN wsByPlayer' |-> wsByPlayer'[q]]
      BY <2>2 DEF WsEnd, Del
    <3>2. QED
      BY <2>1, <2>2, <3>1 DEF WsInv, WsTypeInv
  <2>3. CASE ~mine
    <3>1. wsByPlayer' = wsByPlayer
      BY <2>3 DEF WsEnd
    <3>2. QED
      BY <2>1, <2>3, <3>1 DEF WsInv, WsTypeInv
  <2>4. QED
    BY <2>2, <2>3
<1> HIDE DEF p, mine
<1>4. WsTypeInv'
  BY <1>1, <1>2, <1>3 DEF WsInv, WsTypeInv
<1>5. WsEntryInv'
  BY <1>1, <1>3 DEF WsInv, WsTypeInv, WsEntryInv
<1>6. OpenSocketsGetPushes'
  <2> SUFFICES ASSUME NEW v \in DOMAIN socks', socks'[v].at = "reading", socks'[v].open,
                      v \notin dropped'
               PROVE  socks'[v].player \in DOMAIN wsByPlayer' /\ wsByPlayer'[socks'[v].player] = v
    BY DEF OpenSocketsGetPushes
  <2>1. v # w /\ v \in DOMAIN socks /\ socks'[v] = socks[v]
    BY <1>1, <1>2
  <2>2. socks[v].player \in DOMAIN wsByPlayer /\ wsByPlayer[socks[v].player] = v
    BY <1>1, <2>1 DEF WsInv, OpenSocketsGetPushes
  <2>3. QED
    BY <1>3, <2>1, <2>2
<1>7. QED
  BY <1>1, <1>2, <1>4, <1>5, <1>6, PushesKept DEF WsInv

\* A push names sockets of wsByPlayer.  It closes one before it drops the
\* entry of its player, so an open socket loses its entry only to a push that
\* failed on another.
LEMMA PushSound ==
    ASSUME WsInv, PushInv, NEW k \in Pusher,
           \/ \E players \in SUBSET Player : PushStart(k, players)
           \/ \E t \in pushes[k].todo : PushWritten(k, t) \/ PushFailed(k, t)
           \/ \E t \in pushes[k].drop : PushDrop(k, t)
    PROVE  WsInv' /\ PushInv'
<1>0. pushes[k] \in PushRecord
  BY DEF PushInv
<1>1. ASSUME NEW players \in SUBSET Player, PushStart(k, players)
      PROVE  WsInv' /\ PushInv'
  <2>1. Targets(players) \subseteq Player \X DOMAIN socks
    BY DEF Targets, WsInv, WsTypeInv
  <2>2. [pushes[k] EXCEPT !.todo = Targets(players)] \in PushRecord
    BY <1>0, <2>1 DEF PushRecord
  <2>3. /\ pushes' = [pushes EXCEPT ![k] = [pushes[k] EXCEPT !.todo = Targets(players)]]
        /\ UNCHANGED <<wsByPlayer, socks, dropped>>
    BY <1>1 DEF PushStart, wsVars
  <2>4. pushes' \in [Pusher -> PushRecord] /\ PushRecord' = PushRecord
    BY <2>2, <2>3 DEF PushInv, PushRecord
  <2>5. \A j \in Pusher : pushes'[j].drop = pushes[j].drop
    BY <1>0, <2>3 DEF PushInv, PushRecord
  <2>6. QED
    BY <2>3, <2>4, <2>5 DEF PushInv, WsInv, WsTypeInv, WsEntryInv, OpenSocketsGetPushes
<1>2. ASSUME NEW t \in pushes[k].todo, PushWritten(k, t)
      PROVE  WsInv' /\ PushInv'
  <2>1. [pushes[k] EXCEPT !.todo = pushes[k].todo \ {t}] \in PushRecord
    BY <1>0 DEF PushRecord
  <2>2. /\ pushes' = [pushes EXCEPT ![k] = [pushes[k] EXCEPT !.todo = pushes[k].todo \ {t}]]
        /\ UNCHANGED <<wsByPlayer, socks, dropped>>
    BY <1>2 DEF PushWritten, wsVars
  <2>3. pushes' \in [Pusher -> PushRecord] /\ PushRecord' = PushRecord
    BY <2>1, <2>2 DEF PushInv, PushRecord
  <2>4. \A j \in Pusher : pushes'[j].drop = pushes[j].drop
    BY <1>0, <2>2 DEF PushInv, PushRecord
  <2>5. QED
    BY <2>2, <2>3, <2>4 DEF PushInv, WsInv, WsTypeInv, WsEntryInv, OpenSocketsGetPushes
<1>3. ASSUME NEW t \in pushes[k].todo, PushFailed(k, t)
      PROVE  WsInv' /\ PushInv'
  <2>1. t[2] \in DOMAIN socks
    BY <1>0 DEF PushRecord
  <2>2. [todo |-> pushes[k].todo \ {t}, drop |-> {t}] \in PushRecord
    BY <1>0 DEF PushRecord
  <2>3. /\ pushes' = [pushes EXCEPT ![k] = [todo |-> pushes[k].todo \ {t}, drop |-> {t}]]
        /\ socks' = [socks EXCEPT ![t[2]] = [socks[t[2]] EXCEPT !.open = FALSE]]
        /\ UNCHANGED <<wsByPlayer, dropped>>
    BY <1>3 DEF PushFailed
  <2>4. socks[t[2]] \in SocketRecord
    BY <2>1 DEF WsInv, WsTypeInv
  <2> DEFINE shut == [socks[t[2]] EXCEPT !.open = FALSE]
  <2>5. /\ shut \in SocketRecord /\ shut.at = socks[t[2]].at
        /\ shut.player = socks[t[2]].player /\ shut.open = FALSE
    BY <2>4 DEF SocketRecord
  <2> HIDE DEF shut
  <2>6. /\ DOMAIN socks' = DOMAIN socks /\ socks' = [v \in DOMAIN socks' |-> socks'[v]]
        /\ \A v \in DOMAIN socks :
              /\ socks'[v] \in SocketRecord /\ socks'[v].at = socks[v].at
              /\ socks'[v].player = socks[v].player /\ (socks'[v].open => socks[v].open)
    BY <2>1, <2>3, <2>5 DEF WsInv, WsTypeInv, shut
  <2>7. pushes' \in [Pusher -> PushRecord] /\ PushRecord' = PushRecord
    BY <2>2, <2>3, <2>6 DEF PushInv, PushRecord
  <2>8. WsTypeInv' /\ WsEntryInv'
    BY <2>3, <2>6, ZenonT(60) DEF WsInv, WsTypeInv, WsEntryInv
  <2>9. OpenSocketsGetPushes'
    BY <2>3, <2>6 DEF WsInv, OpenSocketsGetPushes
  <2>10. \A j \in Pusher : \A u \in pushes'[j].drop : ~socks'[u[2]].open
    <3>1. ~socks'[t[2]].open
      BY <2>1, <2>3, <2>5 DEF shut
    <3>2. ASSUME NEW j \in Pusher, NEW u \in pushes'[j].drop
          PROVE  u = t \/ u \in pushes[j].drop
      BY <2>3 DEF PushInv
    <3>3. \A j \in Pusher : \A u \in pushes[j].drop : u[2] \in DOMAIN socks /\ ~socks[u[2]].open
      BY DEF PushInv, PushRecord
    <3>4. QED
      BY <2>6, <3>1, <3>2, <3>3
  <2>11. QED
    BY <2>7, <2>8, <2>9, <2>10 DEF PushInv, WsInv
<1>4. ASSUME NEW t \in pushes[k].drop, PushDrop(k, t)
      PROVE  WsInv' /\ PushInv'
  <2>1. [pushes[k] EXCEPT !.drop = {}] \in PushRecord
    BY <1>0 DEF PushRecord
  <2>2. /\ pushes' = [pushes EXCEPT ![k] = [pushes[k] EXCEPT !.drop = {}]]
        /\ socks' = socks
        /\ dropped' = dropped \cup ({wsByPlayer[p] : p \in {t[1]} \cap DOMAIN wsByPlayer} \ {t[2]})
    BY <1>4 DEF PushDrop
  <2>3. /\ DOMAIN wsByPlayer' = DOMAIN wsByPlayer \ {t[1]}
        /\ wsByPlayer' = [q \in DOMAIN wsByPlayer' |-> wsByPlayer'[q]]
        /\ \A q \in DOMAIN wsByPlayer' : wsByPlayer'[q] = wsByPlayer[q]
    BY <1>4 DEF PushDrop, Del
  <2>4. pushes' \in [Pusher -> PushRecord] /\ PushRecord' = PushRecord
    BY <2>1, <2>2 DEF PushInv, PushRecord
  <2>5. WsTypeInv' /\ WsEntryInv'
    BY <2>2, <2>3 DEF WsInv, WsTypeInv, WsEntryInv
  <2>6. OpenSocketsGetPushes'
    <3>1. ~socks[t[2]].open
      BY DEF PushInv
    <3> SUFFICES ASSUME NEW v \in DOMAIN socks, socks[v].at = "reading", socks[v].open,
                        v \notin dropped'
                 PROVE  socks[v].player \in DOMAIN wsByPlayer' /\ wsByPlayer'[socks[v].player] = v
      BY <2>2 DEF OpenSocketsGetPushes
    <3>2. socks[v].player \in DOMAIN wsByPlayer /\ wsByPlayer[socks[v].player] = v
      BY <2>2 DEF WsInv, OpenSocketsGetPushes
    <3>3. socks[v].player # t[1]
      BY <2>2, <3>1, <3>2
    <3>4. QED
      BY <2>3, <3>2, <3>3
  <2>7. \A j \in Pusher : pushes'[j].drop \subseteq pushes[j].drop
    BY <1>0, <2>2 DEF PushInv, PushRecord
  <2>8. QED
    BY <2>2, <2>4, <2>5, <2>6, <2>7 DEF PushInv, WsInv
<1>5. QED
  BY <1>1, <1>2, <1>3, <1>4

-----------------------------------------------------------------------------
(* The gateway *)

LEMMA GwInitSound == GwInit => GwInv
<1> SUFFICES ASSUME GwInit PROVE GwInv
  OBVIOUS
<1>1. /\ DOMAIN playerIndex = {} /\ DOMAIN sess = {}
      /\ DOMAIN wsByPlayer = {} /\ DOMAIN socks = {}
      /\ playerIndex = [q \in DOMAIN playerIndex |-> playerIndex[q]]
      /\ sess = [r \in DOMAIN sess |-> sess[r]]
      /\ wsByPlayer = [q \in DOMAIN wsByPlayer |-> wsByPlayer[q]]
      /\ socks = [v \in DOMAIN socks |-> socks[v]]
  BY DEF GwInit, EmptyMap
<1>2. TcpInv
  BY <1>1 DEF TcpInv, TcpTypeInv, GoneInv, ServedInv, BindingInv, DeletingInv, Racing
<1>3. WsInv
  BY <1>1 DEF WsInv, WsTypeInv, WsEntryInv, OpenSocketsGetPushes
<1>4. PushInv
  <2>1. [todo |-> {}, drop |-> {}] \in PushRecord
    BY DEF PushRecord
  <2>2. QED
    BY <2>1 DEF GwInit, PushInv
<1>5. QED
  BY <1>2, <1>3, <1>4 DEF GwInv

LEMMA GwInvInductive == GwInv /\ [GwNext]_gwvars => GwInv'
<1> SUFFICES ASSUME GwInv, [GwNext]_gwvars PROVE GwInv'
  OBVIOUS
<1> USE DEF GwInv
<1>1. CASE UNCHANGED gwvars
  <2>1. UNCHANGED <<wsVars, pushVars>> /\ UNCHANGED <<playerIndex, sess, raced>>
    BY <1>1 DEF gwvars, wsVars, pushVars
  <2>2. Racing' = Racing
    BY <2>1 DEF Racing
  <2>3. raced' = raced \cup Racing' /\ UNCHANGED tcpVars
    BY <2>1, <2>2 DEF TcpInv, tcpVars
  <2>4. QED
    BY <2>1, <2>3, TcpUntouched, WsUntouched
<1>2. CASE GwNext
  <2>0. Step /\ raced' = raced \cup Racing'
    BY <1>2 DEF GwNext
  <2>1. ASSUME NEW s \in Session, Connect(s)
        PROVE  GwInv'
    <3>1. UNCHANGED <<wsVars, pushVars>>
      BY <2>1 DEF Connect
    <3>2. QED
      BY <2>0, <2>1, <3>1, ConnectSound, WsUntouched
  <2>2. ASSUME NEW s \in DOMAIN sess,
               AuthRequest(s) \/ AuthRefused(s) \/ ReadFails(s) \/ UnbindLoad(s)
        PROVE  GwInv'
    <3>1. UNCHANGED <<wsVars, pushVars>>
      BY <2>2 DEF AuthRequest, AuthRefused, ReadFails, UnbindLoad
    <3>2. QED
      BY <2>0, <2>2, <3>1, HandlerMoves, WsUntouched
  <2>3. ASSUME NEW s \in DOMAIN sess, NEW p \in Player, AuthAccepted(s, p)
        PROVE  GwInv'
    <3>1. UNCHANGED <<wsVars, pushVars>>
      BY <2>3 DEF AuthAccepted
    <3>2. QED
      BY <2>0, <2>3, <3>1, AuthAcceptedSound, WsUntouched
  <2>4. ASSUME NEW s \in DOMAIN sess, Kick(s)
        PROVE  GwInv'
    <3>1. UNCHANGED <<wsVars, pushVars>>
      BY <2>4 DEF Kick
    <3>2. QED
      BY <2>0, <2>4, <3>1, KickSound, WsUntouched
  <2>5. ASSUME NEW s \in DOMAIN sess, Bind(s)
        PROVE  GwInv'
    <3>1. UNCHANGED <<wsVars, pushVars>>
      BY <2>5 DEF Bind
    <3>2. QED
      BY <2>0, <2>5, <3>1, BindSound, WsUntouched
  <2>6. ASSUME NEW s \in DOMAIN sess, UnbindDelete(s)
        PROVE  GwInv'
    <3>1. UNCHANGED <<wsVars, pushVars>>
      BY <2>6 DEF UnbindDelete
    <3>2. QED
      BY <2>0, <2>6, <3>1, UnbindDeleteSound, WsUntouched
  <2>7. ASSUME NEW w \in Socket, NEW p \in Player, WsConnect(w, p)
        PROVE  GwInv'
    <3>1. UNCHANGED tcpVars
      BY <2>7 DEF WsConnect
    <3>2. QED
      BY <2>0, <2>7, <3>1, WsConnectSound, TcpUntouched
  <2>8. ASSUME NEW w \in DOMAIN socks, WsRegister(w) \/ WsEnd(w)
        PROVE  GwInv'
    <3>1. UNCHANGED tcpVars
      BY <2>8 DEF WsRegister, WsEnd
    <3>2. QED
      BY <2>0, <2>8, <3>1, WsRegisterSound, WsEndSound, TcpUntouched
  <2>9. ASSUME NEW k \in Pusher,
               \/ \E players \in {{p} : p \in Player} \cup {Player} : PushStart(k, players)
               \/ \E t \in pushes[k].todo : PushWritten(k, t) \/ PushFailed(k, t)
               \/ \E t \in pushes[k].drop : PushDrop(k, t)
        PROVE  GwInv'
    <3>1. UNCHANGED tcpVars
      BY <2>9 DEF PushStart, PushWritten, PushFailed, PushDrop
    <3>2. {{p} : p \in Player} \cup {Player} \subseteq SUBSET Player
      OBVIOUS
    <3>3. WsInv' /\ PushInv'
      BY <2>9, <3>2, PushSound
    <3>4. QED
      BY <2>0, <3>1, <3>3, TcpUntouched
  <2>10. QED
    BY <2>0, <2>1, <2>2, <2>3, <2>4, <2>5, <2>6, <2>7, <2>8, <2>9 DEF Step, AuthAnswer
<1>3. QED
  BY <1>1, <1>2

THEOREM GwInvHolds == GwSpec => []GwInv
BY GwInitSound, GwInvInductive, PTL DEF GwSpec

-----------------------------------------------------------------------------
(* What the runs check *)

\* Types: the tables name only connections that were accepted (playerIndex,
\* wsByPlayer), however many there are.
THEOREM GwTypeCorrect == GwSpec => []GwTypeOK
<1>1. GwInv => GwTypeOK
  BY DEF GwInv, TcpInv, TcpTypeInv, SessionRecord, WsInv, WsTypeInv, SocketRecord, PushInv,
         PushRecord, GwTypeOK
<1>2. QED
  BY <1>1, GwInvHolds, PTL

\* An entry outlives its handler only if the session authenticated as another
\* player since (unbindPlayerSession, the cleanup of handleLobbyWS).
THEOREM EntriesSafe == GwSpec => []EntriesAreOfRunningHandlers
<1>1. GwInv => EntriesAreOfRunningHandlers
  BY DEF GwInv, TcpInv, GoneInv, WsInv, WsEntryInv, EntriesAreOfRunningHandlers
<1>2. QED
  BY <1>1, GwInvHolds, PTL

\* A player has one session being served unless two of them raced
\* (bindUniquePlayerSession).
THEOREM OneSessionSafe == GwSpec => []OneSessionUnlessRaced
<1>1. GwInv => OneSessionUnlessRaced
  <2> SUFFICES ASSUME GwInv, NEW r \in DOMAIN sess, NEW s \in DOMAIN sess, r # s,
                      Serving(r), Serving(s), sess[r].player = sess[s].player,
                      r \notin raced, s \notin raced
               PROVE  FALSE
    BY DEF OneSessionUnlessRaced
  <2>1. Registered(r) /\ Registered(s)
    BY DEF GwInv, TcpInv, ServedInv
  <2>2. QED
    BY <2>1 DEF Registered
<1>2. QED
  BY <1>1, GwInvHolds, PTL

\* An open lobby socket is the one its player's pushes go to, whatever was
\* replaced or failed before, unless a push that failed on another socket
\* deleted its own entry (PushToPlayer, handleLobbyWS).
THEOREM PushesReachSafe == GwSpec => []OpenSocketsGetPushes
<1>1. GwInv => OpenSocketsGetPushes
  BY DEF GwInv, WsInv
<1>2. QED
  BY <1>1, GwInvHolds, PTL
=============================================================================
