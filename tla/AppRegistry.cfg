SPECIFICATION Spec
CONSTANTS
    a1 = a1
    a2 = a2
    a3 = a3
    d1 = d1
    d2 = d2
    NoDef = NoDef
    NoFile = NoFile
    Torn = Torn
    AppIds <- ThreeApps
    Defs <- TwoDefs
SYMMETRY Symmetry
INVARIANTS
    TypeOK
    Persisted
PROPERTIES
    SavesAtOnce
    Recovered
