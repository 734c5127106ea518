SPECIFICATION Spec
CONSTANTS
    Conn = {c1, c2}
    Account = {alice, bob}
    MaxShares = 0
    MaxRequests = 3
    None = None
    NoEntry = NoEntry
    Everyone = Everyone
SYMMETRY Symmetry
INVARIANTS
    OnlineMeansConnected
CHECK_DEADLOCK FALSE
