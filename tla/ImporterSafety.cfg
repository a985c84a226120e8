SPECIFICATION Spec
CONSTANTS
    Attaches = {a1, a2}
    Detaches = {d1, d2}
    Ports = {0, 1}
    Keys = {k1}
    AutoReconnect = {TRUE}
    Unbounded = FALSE
    Free = Free
    Foreign = Foreign
    Inherited = {0}
    None = None
SYMMETRY ImporterSymmetry
INVARIANTS
    TypeOK
    PortsAreTracked
    OneDetachPerHandle
    DetachNilReleases
    CloseIsFinal
