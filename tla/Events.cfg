SPECIFICATION FairSpec
CONSTANTS
    Subs = {s1, s2}
    BusIDs = {b1}
    BufSize = 1
    MaxDials = 2
    MaxUevents = 2
INVARIANTS
    TypeOK
    UnboundIsTrue
    RegisteredIsOpen
    NobodyJoinsTornDown
PROPERTIES
    SubscriptionsEnd
