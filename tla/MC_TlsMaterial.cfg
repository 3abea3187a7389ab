SPECIFICATION Spec
CONSTANTS
    a = a
    b = b
    h1 = h1
    h2 = h2
    m1 = m1
    m2 = m2
    t = t
    v1 = v1
    v2 = v2
    NoMaterial = NoMaterial
    Refs = {a, b}
    Hosts = {h1, h2}
    Materials = {m1, m2}
    Names <- TwoNames
    Bundles = {t}
    Revisions = {v1, v2}
    CertsOf <- TwoUses
    TrustOf <- OneTrust
    FirstRevision = v1
    FirstFiles <- OneStored
    MaxRequests = 5
    MaxFaults = 2
    MaxCrashes = 1
INVARIANTS
    RestartServesTheSame
    MaterialIsInOrder
PROPERTIES
    RollbackFindsTrust
