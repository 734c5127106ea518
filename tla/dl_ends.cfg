SPECIFICATION FairSpec
CONSTANTS
    v1 = v1
    v2 = v2
    v3 = v3
    Version = {v1}
    N = 2
    ChunkCount <- SameSize
    Slot = {d1, d2}
    Concurrency = 2
    Overlap = TRUE
    Budget <- JustCancel
    Absent = Absent
    Hole = Hole
    Torn = Torn
    Eof = Eof
PROPERTIES
    AttemptsEnd
