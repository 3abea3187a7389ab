SPECIFICATION FairSpec
CONSTANTS
    c1 = c1
    c2 = c2
    u1 = u1
    u2 = u2
    u3 = u3
    none = none
    NoUpstream = none
    Owners <- OneClient
    Upstreams <- ThreeUpstreams
    TlsUpstreams <- ThirdTls
    Limit = 8
    WireUnits = 2
    MaxResponseBuffer = 2
    MaxConnections = 1
    MaxRequest = 1
    MaxBatch = 2
    MayDrain = TRUE
INVARIANTS
    DeadlineArmed
    ResponseExactlyCharged
    OneUpstreamPerRequest
PROPERTIES
    DrainEnds
