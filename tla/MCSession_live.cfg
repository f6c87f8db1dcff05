CONSTANTS
    Calls = {c1, c2}
    Closers = {k1}
    NoCall = NoCall
    IdModulus = 3
    MaxInFlight = 1
    QueueCap = 1
    WireCap = 1
    InboundCap = 1
    PeerWindow = 2
    MaxFaults = 1
    PeerFaults = {}
    NetFaults = {"eof", "down"}
SPECIFICATION FairSpec
INVARIANTS TypeOK InFlightAccounted OwnAnswer
PROPERTIES CallsResolve CloseReturns DropEndsDriver
