----------------------------- MODULE Elimination -----------------------------
(***************************************************************************)
(* What a game service promises to the players, without saying how it      *)
(* hears from them: a game is played by at least two, players drop out and *)
(* never return, whoever is left alone when the others are gone has won,   *)
(* at once and for good, nobody wins when the last ones drop out together, *)
(* and a win is settled once, before anything else happens in any game.    *)
(***************************************************************************)
EXTENDS GoMap

CONSTANTS Player, RoomId

VARIABLE game  \* room id -> its latest game: players, those still in, {} or
               \* the set of its winner, and whether the win is settled

Unsettled(g) == g.winner # {} /\ ~g.settled

\* No win waits to be settled.
AllSettled == \A id \in DOMAIN game : ~Unsettled(game[id])

ElimInit == game = EmptyMap

\* A game starts in a room; it takes the place of the room's last one.
Begin(id, players) ==
    /\ AllSettled
    /\ \E p, q \in players : p # q
    /\ game' = Put(game, id, [players |-> players, alive |-> players,
                              winner |-> {}, settled |-> FALSE])

\* The survivors `left' of a game win it if that is one player and nobody has yet.
Winner(g, left) ==
    IF g.winner = {} /\ (\E p \in left : left = {p}) THEN left ELSE g.winner

\* Some of those still in the game drop out, together.
Fall(id, fallen) ==
    /\ AllSettled
    /\ LET left == game[id].alive \ fallen
       IN  game' = [game EXCEPT ![id] = [@ EXCEPT !.alive = left,
                                                    !.winner = Winner(game[id], left)]]

Settle(id) ==
    /\ Unsettled(game[id])
    /\ game' = [game EXCEPT ![id].settled = TRUE]

ElimNext ==
    \/ \E id \in RoomId, players \in SUBSET Player : Begin(id, players)
    \/ \E id \in DOMAIN game : \/ \E fallen \in (SUBSET game[id].alive) \ {{}} : Fall(id, fallen)
                               \/ Settle(id)

ElimSpec == ElimInit /\ [][ElimNext]_game
=============================================================================
