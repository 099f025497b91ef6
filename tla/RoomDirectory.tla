---------------------------- MODULE RoomDirectory ----------------------------
(***************************************************************************)
(* What the room service promises to the rest of the system, without       *)
(* saying how it keeps its tables: every player is in at most one room, a  *)
(* room is open exactly while somebody is in it, its host is one of its    *)
(* members and changes only when the host leaves, and the identifier of a  *)
(* closed room is never given to another room.                             *)
(***************************************************************************)
EXTENDS GoMap

CONSTANTS Player, RoomId, Nowhere

VARIABLES where,  \* the room each player is in, or Nowhere
          host,   \* the host of every open room
          used    \* the identifiers that can no longer name a new room

dvars == <<where, host, used>>

Inside(r) == {p \in Player : where[p] = r}

DirInit ==
    /\ where = [p \in Player |-> Nowhere]
    /\ host = EmptyMap
    /\ used = {}

\* p opens a room under an identifier no room ever had.
Open(p, r) ==
    /\ where[p] = Nowhere
    /\ r \notin used
    /\ where' = [where EXCEPT ![p] = r]
    /\ host' = Put(host, r, p)
    /\ used \cup {r} \subseteq used'

\* p enters an open room.
Enter(p, r) ==
    /\ where[p] = Nowhere
    /\ r \in DOMAIN host
    /\ where' = [where EXCEPT ![p] = r]
    /\ UNCHANGED <<host, used>>

\* p leaves: the room closes behind the last member, and a departing host
\* is succeeded by one of the members who stay.
Exit(p) ==
    LET r == where[p]
        rest == Inside(r) \ {p}
    IN  /\ r # Nowhere
        /\ where' = [where EXCEPT ![p] = Nowhere]
        /\ \/ /\ rest = {}
              /\ host' = Del(host, r)
           \/ /\ rest # {}
              /\ host[r] = p
              /\ \E h \in rest : host' = [host EXCEPT ![r] = h]
           \/ /\ rest # {}
              /\ host[r] # p
              /\ UNCHANGED host
        /\ UNCHANGED used

\* Identifiers may be skipped.
Skip ==
    /\ used \subseteq used'
    /\ UNCHANGED <<where, host>>

DirNext ==
    \/ \E p \in Player, r \in RoomId : Open(p, r) \/ Enter(p, r)
    \/ \E p \in Player : Exit(p)
    \/ Skip

DirSpec == DirInit /\ [][DirNext]_dvars
=============================================================================
