\* A plain client with a SOCKS client or with standard input, one or two flow ids, queues of one.
CONSTANTS
    Clients = {"app", "socks"}
    SocksUdp = {"socks"}
    Ids = {i1, i2}
    QCap = 1
    Scenarios <- AllScenarios
SPECIFICATION Spec
INVARIANTS MapsInverse RepliesGoHome OneLossPerForwarder
SYMMETRY IdSymmetry
CHECK_DEADLOCK FALSE
