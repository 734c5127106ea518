SPECIFICATION FairSpec
CONSTANTS
    Caller = {w1, w2}
    N = 2
    Digest = Digest
    Version = {v1, v2}
    MaxRetries = 1
    Buffered = 0
    MaxEvents = 1
    Nothing = Nothing
INVARIANTS
    TypeOK
PROPERTIES
    FetchSpec
    CallsEnd
CHECK_DEADLOCK FALSE
