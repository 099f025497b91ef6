CONSTANTS
    p1 = p1
    p2 = p2
    p3 = p3
    r1 = r1
    r2 = r2
    Player <- MCTwoPlayers
    Shooter = {}
    LobbyPlayer <- MCTwoPlayers
    GatewayPlayer = {}
    Call <- MCCall
    Capacities <- MCCapacities
    FrameTick = 1
    LogCap = 1
    MaxTime = 2
    MaxSeq = 0
    MaxSessions = 2
    CallsMayFail = FALSE
SPECIFICATION LobbySafe
INVARIANTS
    StartedGamesCanBeEntered
CHECK_DEADLOCK FALSE
