SPECIFICATION Spec
CONSTANTS
    Receiver = {r1, r2}
    MaxTries = 2
    MaxStops = 1
    MaxFires = 2
    Nothing = Nothing
SYMMETRY Symmetry
INVARIANTS
    KeepsListening
CHECK_DEADLOCK FALSE
