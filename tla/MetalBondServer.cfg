CONSTANTS
    a = a
    b = b
    v1 = v1
    r1 = r1
    n1 = n1
    Local = Local
    NoUpdate = NoUpdate
    Peers = {a, b}
    Vnis = {v1}
    Routes = {r1}
    VniOf <- AllInV1
    NatRoutes = {}
    IsServer = TRUE
    Servers = {}
    Announces <- RouteOfA
    Subscribes <- VniForBoth
    LocalRoutes = {}
    LocalVnis = {}
    QueueCap = 1
    TxCap = 2
    Reconnects = FALSE
    AnyMessage = TRUE
    OsMayFail = FALSE
SPECIFICATION Spec
INVARIANTS
    TypeOK
    NoLostRoute
PROPERTIES
    ClosedIsFinal
CHECK_DEADLOCK FALSE
