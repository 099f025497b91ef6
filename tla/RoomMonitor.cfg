CONSTANTS
    p1 = p1
    p2 = p2
    c1 = c1
    c2 = c2
    g1 = g1
    g2 = g2
    Player <- MCPlayer
    Sock <- MCSock
    Goroutine <- MCGoroutine
    Capacities <- MCCapacities
    FrameTick = 1
    LogCap = 1
    MaxTime = 2
    MaxSeq = 0
SPECIFICATION MonSafe
SYMMETRY Symmetric
INVARIANTS
    MonTypeOK
    OneMonitorPerRoom
    OpenSocketsAreRegistered
    TrackedAreWatched
CHECK_DEADLOCK FALSE
