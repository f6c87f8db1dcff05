CONSTANTS
    Calls = {c1, c2}
    Closers = {k1}
    NoCall = NoCall
    IdModulus = 4
    MaxInFlight = 2
    QueueCap = 1
    WireCap = 1
    InboundCap = 1
    PeerWindow = 1
    MaxFaults = 1
    PeerFaults = {"garbage"}
    NetFaults = {}
SPECIFICATION Spec
INVARIANT UnambiguousMeansNotExecuted
