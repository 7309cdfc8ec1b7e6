SPECIFICATION Spec
CONSTANTS
    t1 = t1
    d1 = d1
    d2 = d2
    s1 = s1
    s2 = s2
    p1 = p1
    p2 = p2
    p3 = p3
    Booter = Booter
    NoDef = NoDef
    NoScope = NoScope
    NoProcess = NoProcess
    Threads <- OneThread
    Ops <- Commands
    Defs <- TwoDefs
    Scopes <- TwoScopes
    Pids <- TwoPids
    HasDefault = TRUE
    AgentRestarts = TRUE
SYMMETRY Symmetry
INVARIANTS
    TypeOK
    OneSupervisor
    OneProcess
    ScopeFollowsRegistration
