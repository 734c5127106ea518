SPECIFICATION Spec
CONSTANTS
    v1 = v1
    v2 = v2
    v3 = v3
    Version = {v1, v2}
    N = 2
    ChunkCount <- Shrinks
    Slot = {d1}
    Concurrency = 1
    Overlap = FALSE
    Budget <- OneChange
    Absent = Absent
    Hole = Hole
    Torn = Torn
    Eof = Eof
INVARIANTS
    TargetIsAVersion
