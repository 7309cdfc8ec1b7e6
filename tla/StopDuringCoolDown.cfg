SPECIFICATION Spec
CONSTANTS
    t1 = t1
    t2 = t2
    p1 = p1
    p2 = p2
    p3 = p3
    NoProcess = NoProcess
    Free = Free
    Pool = Pool
    Threads <- OneThread
    Pids <- TwoPids
    Ops <- StartStop
    ManualLaunches = FALSE
    ScanFaults = FALSE
    AgentRestarts = TRUE
PROPERTIES
    StopDuringCoolDownHolds
