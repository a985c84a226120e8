SPECIFICATION Spec
CONSTANTS
    Attaches = {a1, a2, a3}
    Detaches = {d1}
    Ports = {0, 1}
    Keys = {k1}
    AutoReconnect = {TRUE}
    Unbounded = TRUE
    Free = Free
    Foreign = Foreign
    Inherited = {0}
    None = None
SYMMETRY ImporterSymmetry
PROPERTIES
    DetachSparesNewOwner
