CONSTANTS
    p1 = p1
    p2 = p2
    p3 = p3
    Player <- MCPlayer
    Capacities <- MCCapacities
    FrameTick = 1
    LogCap = 2
    MaxTime = 3
    MaxSeq = 3
SPECIFICATION RMSpec
SYMMETRY PlayerSymmetry
INVARIANTS
    RMTypeOK
    MembershipAgrees
    RoomsAreTended
    StateFollowsRoster
    LogKeepsTail
    PollsMissNothing
    FramesFollowSeq
PROPERTIES
    ImplementsDirectory
CHECK_DEADLOCK FALSE
