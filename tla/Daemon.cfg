SPECIFICATION MCSpec
CONSTANTS
    Daemons = {d1, d2}
    Conns = {c1}
    Clients = {k1}
    MaxFaults = 1
    None = None
INVARIANTS
    TypeOK
    ExitIsClean
PROPERTIES
    GoneMeansShutdown
    LosersSpareTheIncumbent
    DrainEndsDaemon
CHECK_DEADLOCK FALSE
