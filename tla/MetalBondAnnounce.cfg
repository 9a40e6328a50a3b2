CONSTANTS
    a = a
    b = b
    v1 = v1
    r1 = r1
    n1 = n1
    Local = Local
    NoUpdate = NoUpdate
    Peers = {a}
    Vnis = {v1}
    Routes = {r1}
    VniOf <- AllInV1
    NatRoutes = {}
    IsServer = FALSE
    Servers = {}
    Announces <- NoPeer
    Subscribes <- NoPeer
    LocalRoutes = {r1}
    LocalVnis = {}
    QueueCap = 1
    TxCap = 2
    Reconnects = FALSE
    AnyMessage = FALSE
    OsMayFail = FALSE
SPECIFICATION Spec
INVARIANTS
    AnnouncementsReachServers
CHECK_DEADLOCK FALSE
