SPECIFICATION RetrySpec
CONSTANTS
    v1 = v1
    v2 = v2
    v3 = v3
    Version = {v1, v2, v3}
    N = 2
    ChunkCount <- Empties
    Slot = {d1}
    Concurrency = 1
    Overlap = FALSE
    Budget <- SomeOfEach
    Absent = Absent
    Hole = Hole
    Torn = Torn
    Eof = Eof
INVARIANTS
    TargetIsAVersionResized
PROPERTIES
    VerifiedSpec
    RetrySucceedsUnlessStuck
