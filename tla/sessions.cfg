SPECIFICATION FairSpec
CONSTANTS
    Receiver = {r1, r2}
    MaxTries = 2
    MaxStops = 1
    MaxFires = 2
    Nothing = Nothing
INVARIANTS
    TypeOK
    LiveIsKnown
    ListExact
    ToldWillBeDropped
PROPERTIES
    CutsExplained
    GoneDoNotStay
CHECK_DEADLOCK FALSE
