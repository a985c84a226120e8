SPECIFICATION Spec
CONSTANTS
    c1 = c1
    c2 = c2
    c3 = c3
    p1 = p1
    b1 = b1
    b2 = b2
    s1 = s1
    s2 = s2
    None = None
    Conns = {c1}
    Peers = {p1}
    BusIDs = {b1}
    Callers = {s1}
    PeerOf <- OnePeerOf
    BusOf <- OneBusOf
    MaxSessions = 0
    MaxSessionsPerPeer = 0
    MaxRebinds = 1
INVARIANTS
    ExportIsAccountedFor
