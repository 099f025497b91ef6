---------------------------- MODULE MCRoomManager ----------------------------
(* A small instance of RoomManager: three players, so that a room of three  *)
(* loses its owner and goes on, and one nonsensical capacity request.       *)
EXTENDS RoomManager, TLC

CONSTANTS p1, p2, p3

MCPlayer == {p1, p2, p3}
MCCapacities == {-1, 3}

PlayerSymmetry == Permutations(MCPlayer)
=============================================================================
