CONSTANTS
    Calls = {c1, c2}
    Closers = {k1, k2}
    NoCall = NoCall
    IdModulus = 2
    MaxInFlight = 1
    QueueCap = 1
    WireCap = 1
    InboundCap = 2
    PeerWindow = 2
    MaxFaults = 1
    PeerFaults = {"badMeta", "garbage", "answer", "fatalError"}
    NetFaults = {"eof", "down"}
SYMMETRY Symmetry
SPECIFICATION Spec
INVARIANTS PermitsConserved OneHolder OwnAnswer RegistryMatches
    EndedBeforeLost FailureReported
PROPERTY FirstOutcomeKept
