CONSTANTS
    p1 = p1
    p2 = p2
    p3 = p3
    c1 = c1
    c2 = c2
    NoOne = NoOne
    Player <- MCTwoPlayers
    Conn <- MCOneConn
    Capacities <- MCCapacities
    FrameTick = 1
    LogCap = 1
    MaxTime = 2
    MaxSeq = 0
    MaxSessions = 2
SPECIFICATION GSSpec
PROPERTIES
    ImplementsElimination
    SettlementEnds
    OverduePlayersLose
CHECK_DEADLOCK FALSE
