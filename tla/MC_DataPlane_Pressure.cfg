SPECIFICATION Spec
CONSTANTS
    c1 = c1
    c2 = c2
    u1 = u1
    u2 = u2
    u3 = u3
    none = none
    NoUpstream = none
    Owners <- TwoClients
    Upstreams <- OneUpstream
    TlsUpstreams <- NoTls
    Limit = 5
    WireUnits = 1
    MaxResponseBuffer = 2
    MaxConnections = 2
    MaxRequest = 0
    MaxBatch = 2
    MayDrain = FALSE
SYMMETRY ClientSymmetry
INVARIANTS
    PayloadIsControlled
    LeasesMatchConnections
