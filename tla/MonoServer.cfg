CONSTANTS
    p1 = p1
    p2 = p2
    p3 = p3
    c1 = c1
    c2 = c2
    Player <- MCTwoPlayers
    Conn <- MCConn
    Capacity = {1}
    MaxRooms = 2
    Watched <- MCOneWatched
SPECIFICATION MonoSafe
SYMMETRY SymmetricConns
INVARIANTS
    MonoTypeOK
    GamesAreSetUp
    SeatsAreMemberships
    SocketsFollowMembers
CHECK_DEADLOCK FALSE
