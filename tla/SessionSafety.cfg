SPECIFICATION Spec
CONSTANTS
    c1 = c1
    c2 = c2
    c3 = c3
    p1 = p1
    b1 = b1
    b2 = b2
    s1 = s1
    s2 = s2
    None = None
    Conns = {c1, c2, c3}
    Peers = {p1}
    BusIDs = {b1, b2}
    Callers = {s1, s2}
    PeerOf <- RacePeerOf
    BusOf <- RaceBusOf
    MaxSessions = 0
    MaxSessionsPerPeer = 1
    MaxRebinds = 1
SYMMETRY RaceSymmetry
ACTION_CONSTRAINTS
    StoriesApart
    RebindsAreSettled
INVARIANTS
    TypeOK
    ShutdownNilReleases
    ExportIsAccountedFor
    EndReasonTruthful
    WatchersSeeEveryEnd
    CleanupExactlyOnce
    HandshakeTimerQuiet
    RegistryConsistent
PROPERTIES
    DisconnectHitsOwnExport
