---------------------------- MODULE MCMonoServer ----------------------------
(* Players who may sit in one room while they are listed in another.       *)
EXTENDS MonoServer, TLC

CONSTANTS p1, p2, p3, c1, c2

MCPlayer == {p1, p2, p3}
MCTwoPlayers == {p1, p2}
MCConn == {c1, c2}
MCOneConn == {c1}

MCOneWatched == {p1} \X {1}
MCAllWatched == Player \X {1}

SymmetricPlayers == Permutations(MCPlayer)
SymmetricConns == Permutations(MCConn)
=============================================================================
