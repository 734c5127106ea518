SPECIFICATION FairSpec
CONSTANTS
    Conn = {c1, c2}
    Account = {alice, bob}
    MaxShares = 2
    MaxRequests = 5
    None = None
    NoEntry = NoEntry
    Everyone = Everyone
INVARIANTS
    TypeOK
    IndexExact
    SharesHaveOwners
    ReadyAfterRequest
    NoUnannouncedSignal
PROPERTIES
    ChangesAreHeard
    DeadSharesVanish
CHECK_DEADLOCK FALSE
