SPECIFICATION LoginSpec
CONSTANTS
    Key = {k1, k2}
    MaxAttempts = 2
    Window = 2
    Lockout = 3
    MaxTime = 5
    Credential = {c1, c2}
    Table = {{c1}, {c2}}
    Mtime = {1, 2}
    Absent = Absent
    Torn = Torn
    Nothing = Nothing
SYMMETRY Symmetry
INVARIANTS
    LoginTypeOK
    GuessesBounded
    LockJustified
PROPERTIES
    LockHolds
    VerdictsFollowFile
