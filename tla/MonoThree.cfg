CONSTANTS
    p1 = p1
    p2 = p2
    p3 = p3
    c1 = c1
    c2 = c2
    Player <- MCPlayer
    Conn <- MCOneConn
    Capacity = {3}
    MaxRooms = 1
    Watched <- MCAllWatched
SPECIFICATION MonoSafe
SYMMETRY SymmetricPlayers
PROPERTIES
    WinnersHeldOut
CHECK_DEADLOCK FALSE
