CONSTANTS
    Vnis = {v1, v2}
    Dests = {d1, d2}
    Hops = {h1, h2}
    Peers = {p1}
    Local = Local
SYMMETRY Symmetry
SPECIFICATION Spec
INVARIANTS
    NoEmptyMaps
    QueriesAgree
PROPERTIES
    ImplementsStore
