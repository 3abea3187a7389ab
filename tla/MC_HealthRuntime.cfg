SPECIFICATION FairSpec
CONSTANTS
    u1 = u1
    r1 = r1
    r2 = r2
    w1 = w1
    HealthyThreshold = 1
    UnhealthyThreshold = 1
    FailureThreshold = 1
    Upstreams = {u1}
    Revisions = {r1, r2}
    FirstRevision = r1
    Target <- TwoRevisions
    Capacity = 1
    Workers = {w1}
    MaxTickWork = 2
    IdSpace = 1
    Generations = {1, 2, 3}
    ChannelCapacity = 2
    ObservationCapacity = 1
    MaxDrain = 1
INVARIANTS
    ProbesAccounted
    RoutingFollowsHealth
    UpstreamsAreWatched
PROPERTIES
    ApplyEnds
    ShutdownEnds
