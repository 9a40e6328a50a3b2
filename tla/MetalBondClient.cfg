CONSTANTS
    a = a
    b = b
    v1 = v1
    r1 = r1
    n1 = n1
    Local = Local
    NoUpdate = NoUpdate
    Peers = {a}
    Vnis = {v1}
    Routes = {r1}
    VniOf <- AllInV1
    NatRoutes = {}
    IsServer = FALSE
    Servers = {}
    Announces <- RouteOfA
    Subscribes <- VniForA
    LocalRoutes = {r1}
    LocalVnis = {v1}
    QueueCap = 1
    TxCap = 2
    Reconnects = TRUE
    AnyMessage = TRUE
    OsMayFail = TRUE
SPECIFICATION Spec
INVARIANTS
    NoPhantomRoute
    GuardsExclude
    NoLostSubscription
CHECK_DEADLOCK FALSE
