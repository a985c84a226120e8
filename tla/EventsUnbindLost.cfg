SPECIFICATION Spec
CONSTANTS
    Subs = {s1}
    BusIDs = {b1}
    BufSize = 1
    MaxDials = 1
    MaxUevents = 1
PROPERTIES
    UnbindReachesSubscribers
