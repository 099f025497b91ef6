------------------------------- MODULE Gateway -------------------------------
(***************************************************************************)
(* The gateway's connections (internal/gateway/tcp_gateway.go): TCP        *)
(* sessions, which log in with a token and displace the player's earlier   *)
(* session, lobby WebSockets, which do the same, and pushes to both.       *)
(*                                                                         *)
(* playerIndex is a sync.Map: each Load, Store and Delete is a step of its *)
(* own.  wsByPlayer is guarded by wsMu, so a section under it is one step; *)
(* PushToPlayer and PushToAll write outside it.  wsToken changes with      *)
(* wsByPlayer, is never read, and is left out.                             *)
(*                                                                         *)
(* The user service is external: it may accept a token as any player's, or *)
(* refuse it, at any time.  What has no effect on the tables is left out:  *)
(* heartbeats that are accepted, game messages, pushes over TCP.  A read   *)
(* fails for any of the reasons handleConn ends for: the peer is gone, a   *)
(* timeout, a heartbeat refused, a reply that cannot be written.           *)
(***************************************************************************)
EXTENDS GoMap, Naturals, FiniteSets

CONSTANTS Player,
          Session,         \* TCP connections, numbered by seq: none is used twice
          Socket,          \* lobby WebSocket connections
          Pusher,          \* concurrent push calls
          None,            \* the empty player id
          MaxConnections   \* bound: connections of both kinds in a behaviour

ASSUME NoneAssumption == None \notin Player

VARIABLES playerIndex,  \* player -> session
          sess,         \* session -> where its handler is, open?, player, sessions to kick
          wsByPlayer,   \* player -> lobby socket
          socks,        \* lobby socket -> where its handler is, open?, player
          pushes,       \* push call -> sockets to write to, socket to drop
          raced,        \* history: sessions whose bind overlapped another's bind or unbind
          dropped       \* history: lobby sockets whose entry went when the push to
                        \* another socket failed

tcpVars == <<playerIndex, sess>>
wsVars == <<wsByPlayer, socks>>
pushVars == <<pushes, dropped>>
gwvars == <<playerIndex, sess, wsByPlayer, socks, pushes, raced, dropped>>

GwInit ==
    /\ playerIndex = EmptyMap /\ sess = EmptyMap
    /\ wsByPlayer = EmptyMap /\ socks = EmptyMap
    /\ pushes = [k \in Pusher |-> [todo |-> {}, drop |-> {}]]
    /\ raced = {} /\ dropped = {}

MayConnect == Cardinality(DOMAIN sess) + Cardinality(DOMAIN socks) < MaxConnections

-----------------------------------------------------------------------------
(* A TCP session: handleConn and what it calls *)

Connect(s) ==
    /\ MayConnect /\ s \notin DOMAIN sess
    /\ sess' = Put(sess, s, [at |-> "reading", open |-> TRUE, player |-> None, kick |-> {}])
    /\ UNCHANGED <<playerIndex, wsVars, pushVars>>

\* A session may ask to be authenticated again.
AuthRequest(s) ==
    /\ sess[s].at = "reading" /\ sess[s].open
    /\ sess' = [sess EXCEPT ![s].at = "verifying"]
    /\ UNCHANGED <<playerIndex, wsVars, pushVars>>

AuthRefused(s) ==
    /\ sess[s].at = "verifying"
    /\ sess' = [sess EXCEPT ![s].at = "reading"]
    /\ UNCHANGED <<playerIndex, wsVars, pushVars>>

\* The token is player p's; bindUniquePlayerSession loads p's present session.
AuthAccepted(s, p) ==
    /\ sess[s].at = "verifying"
    /\ sess' = [sess EXCEPT ![s].at = "binding", ![s].player = p,
                            ![s].kick = {r \in {playerIndex[q] : q \in {p} \cap DOMAIN playerIndex} : r # s}]
    /\ UNCHANGED <<playerIndex, wsVars, pushVars>>

\* Mutant: the old session is told, and left open.
KickPolitely(s) ==
    /\ sess[s].at = "binding" /\ sess[s].kick # {}
    /\ sess' = [sess EXCEPT ![s].kick = {}]
    /\ UNCHANGED <<playerIndex, wsVars, pushVars>>

\* Close the old session's connection; its own handler will notice.
Kick(s) ==
    /\ sess[s].at = "binding" /\ sess[s].kick # {}
    /\ sess' = [r \in DOMAIN sess |->
                  IF r = s THEN [sess[r] EXCEPT !.kick = {}]
                  ELSE [sess[r] EXCEPT !.open = @ /\ r \notin sess[s].kick]]
    /\ UNCHANGED <<playerIndex, wsVars, pushVars>>

Bind(s) ==
    /\ sess[s].at = "binding" /\ sess[s].kick = {}
    /\ playerIndex' = Put(playerIndex, sess[s].player, s)
    /\ sess' = [sess EXCEPT ![s].at = "reading"]
    /\ UNCHANGED <<wsVars, pushVars>>

\* The handler returns, which takes the session out of sessions.
ReadFails(s) ==
    /\ sess[s].at = "reading"
    /\ sess' = [sess EXCEPT ![s].at = "leaving"]
    /\ UNCHANGED <<playerIndex, wsVars, pushVars>>

Registered(s) ==
    sess[s].player \in DOMAIN playerIndex /\ playerIndex[sess[s].player] = s

\* Mutant: whoever is registered for the player is unbound.
UnbindLoadAny(s) ==
    /\ sess[s].at = "leaving"
    /\ sess' = IF sess[s].player \in DOMAIN playerIndex
               THEN [sess EXCEPT ![s].at = "deleting"]
               ELSE [sess EXCEPT ![s].at = "gone", ![s].open = FALSE]
    /\ UNCHANGED <<playerIndex, wsVars, pushVars>>

\* Mutant: a session that never authenticated is unbound all the same.
UnbindLoadUnchecked(s) ==
    /\ sess[s].at = "leaving"
    /\ sess' = [sess EXCEPT ![s].at = "deleting"]
    /\ UNCHANGED <<playerIndex, wsVars, pushVars>>

\* unbindPlayerSession loads the player's session; only its own is deleted.
UnbindLoad(s) ==
    /\ sess[s].at = "leaving"
    /\ sess' = IF Registered(s) THEN [sess EXCEPT ![s].at = "deleting"]
               ELSE [sess EXCEPT ![s].at = "gone", ![s].open = FALSE]
    /\ UNCHANGED <<playerIndex, wsVars, pushVars>>

\* Mutant: the entry stays behind.
UnbindNothing(s) ==
    /\ sess[s].at = "deleting"
    /\ sess' = [sess EXCEPT ![s].at = "gone", ![s].open = FALSE]
    /\ UNCHANGED <<playerIndex, wsVars, pushVars>>

\* The entry goes, whosever it is by now.
UnbindDelete(s) ==
    /\ sess[s].at = "deleting"
    /\ playerIndex' = Del(playerIndex, sess[s].player)
    /\ sess' = [sess EXCEPT ![s].at = "gone", ![s].open = FALSE]
    /\ UNCHANGED <<wsVars, pushVars>>

-----------------------------------------------------------------------------
(* A lobby WebSocket: handleLobbyWS *)

\* The token was verified as p's and the connection upgraded.
WsConnect(w, p) ==
    /\ MayConnect /\ w \notin DOMAIN socks
    /\ socks' = Put(socks, w, [at |-> "verified", open |-> TRUE, player |-> p])
    /\ UNCHANGED <<wsByPlayer, tcpVars, pushVars>>

WsRegister(w) ==
    /\ socks[w].at = "verified"
    /\ \E p \in {socks[w].player} :
          /\ socks' = [v \in DOMAIN socks |->
                         IF v = w THEN [socks[v] EXCEPT !.at = "reading"]
                         ELSE [socks[v] EXCEPT
                                 !.open = @ /\ ~(p \in DOMAIN wsByPlayer /\ wsByPlayer[p] = v)]]
          /\ wsByPlayer' = Put(wsByPlayer, p, w)
    /\ UNCHANGED <<tcpVars, pushVars>>

\* Mutant: the cleanup does not ask whose entry it deletes.
WsEndAny(w) ==
    /\ socks[w].at = "reading"
    /\ wsByPlayer' = Del(wsByPlayer, socks[w].player)
    /\ socks' = [socks EXCEPT ![w].at = "gone", ![w].open = FALSE]
    /\ UNCHANGED <<tcpVars, pushVars>>

\* A read failed or a heartbeat was refused: the deferred cleanup.
WsEnd(w) ==
    /\ socks[w].at = "reading"
    /\ wsByPlayer' =
          IF socks[w].player \in DOMAIN wsByPlayer /\ wsByPlayer[socks[w].player] = w
          THEN Del(wsByPlayer, socks[w].player) ELSE wsByPlayer
    /\ socks' = [socks EXCEPT ![w].at = "gone", ![w].open = FALSE]
    /\ UNCHANGED <<tcpVars, pushVars>>

-----------------------------------------------------------------------------
(* Pushes to lobby sockets *)

Targets(players) == {<<p, wsByPlayer[p]>> : p \in players \cap DOMAIN wsByPlayer}

\* PushToPlayer (players = {p}) and PushToAll read their targets under wsMu.
PushStart(k, players) ==
    /\ pushes[k] = [todo |-> {}, drop |-> {}]
    /\ pushes' = [pushes EXCEPT ![k].todo = Targets(players)]
    /\ UNCHANGED <<tcpVars, wsVars, dropped>>

PushWritten(k, t) ==
    /\ pushes[k].drop = {} /\ t \in pushes[k].todo
    /\ socks[t[2]].open
    /\ pushes' = [pushes EXCEPT ![k].todo = @ \ {t}]
    /\ UNCHANGED <<tcpVars, wsVars, dropped>>

\* The write failed: the socket is closed, its entry will be dropped.
PushFailed(k, t) ==
    /\ pushes[k].drop = {} /\ t \in pushes[k].todo
    /\ pushes' = [pushes EXCEPT ![k] = [todo |-> @.todo \ {t}, drop |-> {t}]]
    /\ socks' = [socks EXCEPT ![t[2]].open = FALSE]
    /\ UNCHANGED <<tcpVars, wsByPlayer, dropped>>

\* The player's entry goes, whichever socket it names by now.
PushDrop(k, t) ==
    /\ t \in pushes[k].drop
    /\ wsByPlayer' = Del(wsByPlayer, t[1])
    /\ pushes' = [pushes EXCEPT ![k].drop = {}]
    /\ dropped' = dropped \cup ({wsByPlayer[p] : p \in {t[1]} \cap DOMAIN wsByPlayer} \ {t[2]})
    /\ UNCHANGED <<tcpVars, socks>>

-----------------------------------------------------------------------------
(* The gateway *)

AuthAnswer(s) == AuthRefused(s) \/ \E p \in Player : AuthAccepted(s, p)

\* What a session's handler does without a word from its peer.
Unprompted(s) ==
    /\ s \in DOMAIN sess
    /\ \/ AuthAnswer(s) \/ Kick(s) \/ Bind(s)
       \/ ~sess[s].open /\ ReadFails(s)
       \/ UnbindLoad(s) \/ UnbindDelete(s)

Step ==
    \/ \E s \in Session : Connect(s)
    \/ \E s \in DOMAIN sess : \/ AuthRequest(s) \/ AuthAnswer(s) \/ Kick(s) \/ Bind(s)
                              \/ ReadFails(s) \/ UnbindLoad(s) \/ UnbindDelete(s)
    \/ \E w \in Socket, p \in Player : WsConnect(w, p)
    \/ \E w \in DOMAIN socks : WsRegister(w) \/ WsEnd(w)
    \/ \E k \in Pusher :
          \/ \E players \in {{p} : p \in Player} \cup {Player} : PushStart(k, players)
          \/ \E t \in pushes[k].todo : PushWritten(k, t) \/ PushFailed(k, t)
          \/ \E t \in pushes[k].drop : PushDrop(k, t)

\* Sessions of one player that are both between a Load and the Store or Delete after it.
Racing ==
    {s \in DOMAIN sess : \E r \in DOMAIN sess \ {s} :
        /\ sess[r].player = sess[s].player
        /\ {sess[r].at, sess[s].at} \subseteq {"binding", "deleting"}}

GwNext == Step /\ raced' = raced \cup Racing'

GwSpec == /\ GwInit /\ [][GwNext]_gwvars
          /\ \A s \in Session : WF_gwvars(Unprompted(s) /\ raced' = raced \cup Racing')

-----------------------------------------------------------------------------
(* Properties *)

\* The tables keep their types, and name only connections that were accepted
\* (playerIndex, wsByPlayer).
GwTypeOK ==
    /\ DOMAIN playerIndex \subseteq Player
    /\ \A p \in DOMAIN playerIndex : playerIndex[p] \in DOMAIN sess
    /\ DOMAIN sess \subseteq Session
    /\ \A s \in DOMAIN sess :
          /\ sess[s].at \in {"reading", "verifying", "binding", "leaving", "deleting", "gone"}
          /\ sess[s].open \in BOOLEAN
          /\ sess[s].player \in Player \cup {None}
          /\ sess[s].kick \subseteq DOMAIN sess
          /\ sess[s].at \in {"binding", "deleting"} => sess[s].player # None
    /\ DOMAIN wsByPlayer \subseteq Player
    /\ \A p \in DOMAIN wsByPlayer : wsByPlayer[p] \in DOMAIN socks
    /\ DOMAIN socks \subseteq Socket
    /\ \A w \in DOMAIN socks : socks[w] \in [at : {"verified", "reading", "gone"},
                                             open : BOOLEAN, player : Player]
    /\ \A k \in Pusher : /\ pushes[k].todo \subseteq Player \X DOMAIN socks
                         /\ pushes[k].drop \subseteq Player \X DOMAIN socks

\* An entry of either table outlives its connection's handler in no case but
\* one: a session that authenticated again as another player leaves the entry
\* of the first behind (unbindPlayerSession, the cleanup of handleLobbyWS).
EntriesAreOfRunningHandlers ==
    /\ \A p \in DOMAIN playerIndex :
          sess[playerIndex[p]].at = "gone" => sess[playerIndex[p]].player # p
    /\ \A p \in DOMAIN wsByPlayer :
          socks[wsByPlayer[p]].at = "reading" /\ socks[wsByPlayer[p]].player = p

Serving(s) == sess[s].at \in {"reading", "verifying"} /\ sess[s].open /\ sess[s].player # None

\* "kicked_by_new_login": a player has one session being served, unless one of
\* two was bound while another session of that player was binding or unbinding
\* (bindUniquePlayerSession: Load and Store are separate steps).
OneSessionUnlessRaced ==
    \A r, s \in DOMAIN sess :
        r # s /\ Serving(r) /\ Serving(s) /\ sess[r].player = sess[s].player
            => {r, s} \cap raced # {}

\* A lobby socket that is being read and is open gets the pushes to its player,
\* also when it replaced another one or a push to its player failed before,
\* unless its own entry was deleted by a push that had failed on another socket
\* of the player (handleLobbyWS, PushToPlayer).
OpenSocketsGetPushes ==
    \A w \in DOMAIN socks :
        socks[w].at = "reading" /\ socks[w].open /\ w \notin dropped
            => socks[w].player \in DOMAIN wsByPlayer /\ wsByPlayer[socks[w].player] = w

\* A session that a new login displaces ends, and is out of the tables of the
\* player it was (Conn.Close in bindUniquePlayerSession wakes handleConn).
DisplacedSessionsEnd ==
    \A r \in Session :
        (\E s \in DOMAIN sess : r \in sess[s].kick) ~> (r \in DOMAIN sess /\ sess[r].at = "gone")
=============================================================================
