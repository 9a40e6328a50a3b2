CONSTANTS
    TxCap = 2
    SockCap = 1
    GreeterSets <- AtMostOne
    NoMsg = NoMsg
SPECIFICATION FairSpec
INVARIANTS
    TypeOK
    EstablishedAgree
    NobodyGreetsFirst
PROPERTIES
    UpdatesFindEstablished
    ImplementsLink
    SignalsEndConnections
    HandshakeCompletes
CHECK_DEADLOCK FALSE
