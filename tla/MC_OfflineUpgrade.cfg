SPECIFICATION Spec
CONSTANTS
    Upgrades = {u1, u2}
    Recovers = {c1, c2}
    Installed = v0
    Nothing = Nothing
    MaxKills = 2
    MaxErrors = 2
SYMMETRY Permuted
INVARIANTS
    PreviousIsKept
PROPERTIES
    OutcomeIsServed
    FailureRestoresService
CHECK_DEADLOCK FALSE
