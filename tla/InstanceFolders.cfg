SPECIFICATION Spec
CONSTANTS
    t1 = t1
    t2 = t2
    t3 = t3
    Threads <- ThreeThreads
    Ops <- Commands
    N = 3
    Exe = 2
    IOFaults = TRUE
    AgentCrashes = TRUE
SYMMETRY Symmetry
INVARIANTS
    TypeOK
    OneCreateSucceeds
    QuietComplete
