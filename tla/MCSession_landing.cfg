CONSTANTS
    Calls = {c1}
    Closers = {k1}
    NoCall = NoCall
    IdModulus = 4
    MaxInFlight = 1
    QueueCap = 1
    WireCap = 1
    InboundCap = 1
    PeerWindow = 1
    MaxFaults = 1
    PeerFaults = {"garbage"}
    NetFaults = {"down"}
SPECIFICATION FairSpec
PROPERTY CloseLandsAsDocumented
