CONSTANTS
    p1 = p1
    p2 = p2
    p3 = p3
    c1 = c1
    c2 = c2
    NoOne = NoOne
    Player <- MCPlayer
    Conn <- MCConn
    Capacities <- MCCapacities
    FrameTick = 1
    LogCap = 1
    MaxTime = 2
    MaxSeq = 0
    MaxSessions = 1
SPECIFICATION GSSafe
SYMMETRY Symmetric
INVARIANTS
    GSTypeOK
    WinnerOutlastedAll
    DecidedMeansSettled
CHECK_DEADLOCK FALSE
