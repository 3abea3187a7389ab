SPECIFICATION DrainSpec
CONSTANTS
    c1 = c1
    c2 = c2
    k1 = k1
    k2 = k2
    NoReference = NoReference
    Keys <- MCKeys
    Clients <- MCConnections
    Revisions <- MCRevisions
    ConfigOf <- MCConfigOf
    FirstRevision = "both"
    MaxGeneration = 4
    MaxLeases = 4
    MaxHealth = 1
SYMMETRY ConnectionSymmetry
INVARIANTS
    DrainIsExact
    StatusCountsExact
