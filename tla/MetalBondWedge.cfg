CONSTANTS
    a = a
    b = b
    v1 = v1
    r1 = r1
    n1 = n1
    Local = Local
    NoUpdate = NoUpdate
    Peers = {a}
    Vnis = {v1}
    Routes = {r1}
    VniOf <- AllInV1
    NatRoutes = {}
    IsServer = TRUE
    Servers = {}
    Announces <- NoPeer
    Subscribes <- VniForA
    LocalRoutes = {}
    LocalVnis = {}
    QueueCap = 1
    TxCap = 2
    Reconnects = FALSE
    AnyMessage = FALSE
    OsMayFail = FALSE
SPECIFICATION FairSpec
PROPERTIES
    ClosedPeersLeave
CHECK_DEADLOCK FALSE
