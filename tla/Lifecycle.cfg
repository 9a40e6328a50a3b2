CONSTANTS
    Addrs = {a1}
    Tasks = {t1, t2}
    None = None
SPECIFICATION FairSpec
INVARIANTS
    TypeOK
    OneTaskPerAddress
    EntriesAreLive
    HandledIsListed
    NothingLeftRunning
PROPERTIES
    AlwaysRetries
    LostConnectionsRetried
    ShutdownEnds
CHECK_DEADLOCK FALSE
