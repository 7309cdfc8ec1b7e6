SPECIFICATION Spec
CONSTANTS
    t1 = t1
    t2 = t2
    p1 = p1
    p2 = p2
    p3 = p3
    NoProcess = NoProcess
    Free = Free
    Pool = Pool
    Threads <- OneThread
    Pids <- ThreePids
    Ops <- Operations
    ManualLaunches = TRUE
    ScanFaults = TRUE
    AgentRestarts = TRUE
SYMMETRY Symmetry
INVARIANTS
    TypeOK
    WatchedExactly
    CrashNoticed
PROPERTIES
    ManagedNotAbandoned
    StopHolds
    ImplementsSupervisor
