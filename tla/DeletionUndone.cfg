SPECIFICATION Spec
CONSTANTS
    r1 = r1
    r2 = r2
    ann = ann
    bob = bob
    h1 = h1
    h2 = h2
    Requests <- TwoRequests
    Users <- TwoUsers
    Hashes <- OneHash
    Shipped <- AnyWithAdministrator
    NoHash = NoHash
    Absent = Absent
    Cut = Cut
    Garbled = Garbled
    Nothing = Nothing
    Faults = FALSE
    Crashes = FALSE
    Prompt = TRUE
INVARIANTS
    DeletedStaysDeleted
SYMMETRY Symmetry
