CONSTANTS
    v1 = v1
    v2 = v2
    r1 = r1
    r2 = r2
    r3 = r3
    r4 = r4
    r5 = r5
    n4 = n4
    n6 = n6
    g = g
    h = h
    None = None
    Vnis = {v1, v2}
    Routes = {r1, r2, r3, r4, r5}
    VniOf <- RouteVni
    NetOf <- RouteNet
    IsV4 <- RouteIsV4
    IsStandard <- RouteStandard
    GatewayOf <- RouteGateway
    Configs <- AllConfigs
    Foreign <- OtherEntries
SPECIFICATION Spec
INVARIANTS
    TypeOK
PROPERTIES
    ForeignUntouched
    ImplementsOsClient
    WithdrawalsAreExact
CHECK_DEADLOCK FALSE
