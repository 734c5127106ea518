SPECIFICATION RetrySpec
CONSTANTS
    v1 = v1
    v2 = v2
    v3 = v3
    Version = {v1}
    N = 2
    ChunkCount <- SameSize
    Slot = {d1}
    Concurrency = 1
    Overlap = FALSE
    Budget <- OneCrash
    Absent = Absent
    Hole = Hole
    Torn = Torn
    Eof = Eof
PROPERTIES
    RetrySucceeds
