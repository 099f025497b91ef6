---------------------------- MODULE MCGameServer ----------------------------
(* Three players and two sockets, or two players and two sessions.         *)
EXTENDS GameServer, TLC

CONSTANTS p1, p2, p3, c1, c2

MCPlayer == {p1, p2, p3}
MCTwoPlayers == {p1, p2}
MCConn == {c1, c2}
MCOneConn == {c1}
MCCapacities == {3}

Symmetric == Permutations(MCPlayer) \cup Permutations(MCConn)
=============================================================================
