---------------------------- MODULE MCLobbyServer ----------------------------
(* Players who share a room, and calls that overtake each other.           *)
EXTENDS LobbyServer, TLC

CONSTANTS p1, p2, p3, r1, r2

MCPlayer == {p1, p2, p3}
MCTwoPlayers == {p1, p2}
MCOneShooter == {p1}
MCGatewayPlayer == {p3}
MCCall == {r1, r2}
MCCapacities == {3}

Symmetric == Permutations(MCTwoPlayers) \cup Permutations(MCCall)
=============================================================================
