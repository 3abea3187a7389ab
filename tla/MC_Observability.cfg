SPECIFICATION Spec
CONSTANTS
    Limit = 5
    Capacity <- MC_Capacity
    RecentCapacity = 1
    SamplerCapacity = 1
    Ttl = 2
    MaxSeries = 5
    MaxCumulative = 3
    k1 = k1
    k2 = k2
    TlsKeys = {k1, k2}
    w1 = w1
    w2 = w2
    Workers = {w1, w2}
    HandoffCapacity = 1
    HeaderReads = 2
    MaxConnections = 2
    MaxEvents = 3
    MaxClock = 2
INVARIANTS
    EventsAccounted
    OperatorIsToldTruth
PROPERTIES
    ListenerStops
CHECK_DEADLOCK FALSE
