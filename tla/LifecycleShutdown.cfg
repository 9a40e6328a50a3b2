CONSTANTS
    Addrs = {a1}
    Tasks = {t1, t2}
    None = None
SPECIFICATION FairSpec
PROPERTY ListenerSeesShutdown
CHECK_DEADLOCK FALSE
