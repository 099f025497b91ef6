------------------------------ MODULE MCGateway ------------------------------
(* Three connections of a player, one push at a time.                      *)
EXTENDS Gateway

CONSTANTS p1, s1, s2, s3, w1, w2, w3, k1

MCPlayer == {p1}
MCSession == {s1, s2, s3}
MCSocket == {w1, w2, w3}
MCPusher == {k1}
=============================================================================
