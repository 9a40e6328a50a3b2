CONSTANTS
    a = a
    b = b
    v1 = v1
    r1 = r1
    n1 = n1
    Local = Local
    NoUpdate = NoUpdate
    Peers = {a}
    Vnis = {v1}
    Routes = {r1, n1}
    VniOf <- AllInV1
    NatRoutes = {n1}
    IsServer = TRUE
    Servers = {a}
    Announces <- BothRoutesOfA
    Subscribes <- VniForA
    LocalRoutes = {}
    LocalVnis = {}
    QueueCap = 2
    TxCap = 2
    Reconnects = TRUE
    AnyMessage = TRUE
    OsMayFail = FALSE
SPECIFICATION Spec
INVARIANTS
    NatNeverReflected
PROPERTIES
    StaysInstalled
CHECK_DEADLOCK FALSE
