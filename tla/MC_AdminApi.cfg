CONSTANTS
    SeedText <- MCSeed
    Sources <- MCSources
    HostRequests <- MCHostRequests
    RawRequests <- MCRawRequests
    Requests <- MCRequests
    Passwords = {right, wrong}
    MaxFailedAttempts = 1
    MaxRevisionId = 4
    MaxMutations = 2
    MaxLogins = 2
    MaxRestarts = 1
    MaxFaults = 1
SPECIFICATION Spec
SYMMETRY PasswordSymmetry
INVARIANTS
    StoredIsUsable
    EditTouchesOnlyItsHost
    EchoKeepsRouting
    StatusTellsRuntime
    ChecksAgree
CHECK_DEADLOCK FALSE
