SPECIFICATION FairSpec
CONSTANTS
    Serves = {v1, v2}
    Handlers = {h1}
    Callers = {s1, s2}
    None = None
INVARIANTS
    TypeOK
    DrainIsComplete
    NoAcceptAfterShutdown
    ReservationIsExclusive
PROPERTIES
    ServeEnds
