SPECIFICATION Spec
CONSTANTS
    v1 = v1
    v2 = v2
    v3 = v3
    Version = {v1, v2}
    N = 2
    ChunkCount <- SameSize
    Slot = {d1}
    Concurrency = 2
    Overlap = FALSE
    Budget <- SomeOfEach
    Absent = Absent
    Hole = Hole
    Torn = Torn
    Eof = Eof
INVARIANTS
    TypeOK
    TargetIsAVersion
    ResumeSafe
    VerifiedUndisturbed
PROPERTIES
    KeepsProgress
    VerifiedSpec
