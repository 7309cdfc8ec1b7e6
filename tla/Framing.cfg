SPECIFICATION FairSpec
CONSTANTS
    Messages <- Bodies
    MaxMessageBytes = 5
    MaxSent = 3
INVARIANTS
    TypeOK
    RefusesOnlyOversized
    NothingWithheld
PROPERTIES
    AllReturned
    ImplementsChannel
CHECK_DEADLOCK FALSE
