---------------------------- MODULE MCRoomMonitor ----------------------------
(* Two players, two rooms, two room sockets and enough goroutines for both. *)
EXTENDS RoomMonitor, TLC

CONSTANTS p1, p2, c1, c2, g1, g2

MCPlayer == {p1, p2}
MCSock == {c1, c2}
MCGoroutine == {g1, g2}
MCOnePlayer == {p1}
MCCapacities == {2}

Symmetric == Permutations(MCPlayer) \cup Permutations(MCSock) \cup Permutations(MCGoroutine)
=============================================================================
