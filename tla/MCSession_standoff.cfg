CONSTANTS
    Calls = {c1, c2, c3, c4}
    Closers = {}
    NoCall = NoCall
    IdModulus = 5
    MaxInFlight = 1
    QueueCap = 1
    WireCap = 1
    InboundCap = 1
    PeerWindow = 1
    MaxFaults = 1
    PeerFaults = {}
    NetFaults = {}
SYMMETRY Symmetry
SPECIFICATION Spec
INVARIANT SerializesWithoutDeadlock
