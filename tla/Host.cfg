SPECIFICATION HostSpec
CONSTANTS
    Watchers = {w1}
    Publishers = {p1, p2}
    StreamBuf = 1
    MaxEvents = 2
    Devices = {b1, h1}
    Untouchable = {h1}
    BindCalls = {c1, c2}
    RetryAttempts = 2
    Free = Free
    Hosts = {n1, n2, n3}
    Recorders = {p1, p2}
    HistoryCap = 2
    Nobody = Nobody
    ModuleCalls = {s1, s2}
    TTL = 2
    MaxTime = 4
    Requests = {r1, r2, r3}
    ProbeConcurrency = 1
    Shapes <- MCShapes
    Buses = {1, 2, 3, 4}
    Targets = {0, 2}
    RawStatus = {4, 5}
    MaxMoves = 1
    MaxLoads = 1
    BusIDs = {d1, d2}
    DeviceKinds = {"plain", "unconfigured", "badiface"}
    MaxEnumChanges = 1
    FieldSize = 3
    MaxDevlist = 2
    DeviceLists <- MCDeviceLists
    MaxUrbs = 1
INVARIANTS
    HostTypeOK
    StatusIsTimely
    PortsAreTrue
    OfferIsExact
    ExchangeIsFaithful
PROPERTIES
    StreamsImplement
    BindIsSafe
    HistoryIsKept
    HostCallsReturn
CHECK_DEADLOCK FALSE
