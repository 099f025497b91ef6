CONSTANTS
    p1 = p1
    s1 = s1
    s2 = s2
    s3 = s3
    w1 = w1
    w2 = w2
    w3 = w3
    k1 = k1
    None = None
    Player <- MCPlayer
    Session <- MCSession
    Socket <- MCSocket
    Pusher <- MCPusher
    MaxConnections = 3
SPECIFICATION GwSpec
INVARIANTS
    GwTypeOK
    EntriesAreOfRunningHandlers
    OneSessionUnlessRaced
    OpenSocketsGetPushes
PROPERTIES
    DisplacedSessionsEnd
CHECK_DEADLOCK FALSE
