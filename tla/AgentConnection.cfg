SPECIFICATION FairSpec
CONSTANTS
    r1 = r1
    r2 = r2
    c1 = c1
    c2 = c2
    c3 = c3
    Monitor = Monitor
    Free = Free
    NoConn = NoConn
    Requests <- TwoRequests
    Conns <- ThreeConns
    AgentCrashes = TRUE
    WebRestarts = TRUE
INVARIANTS
    TypeOK
    OwnResponse
    AtMostOnce
PROPERTIES
    ImplementsCalls
    RequestsFinish
    Reconnected
