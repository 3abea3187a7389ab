SPECIFICATION Spec
CONSTANTS
    Replaces = {r1, r2}
    NewTargets = {n1}
    Recoveries = {c1}
    Serves = {s1}
    Backups = {b1}
    NoOne = NoOne
    MaxCrashes = 2
    MaxErrors = 1
SYMMETRY Permuted
CONSTRAINT BeforeUpset
INVARIANTS
    CutOffIsDecided
    BackupsAreUsable
PROPERTIES
    DataSurvives
    CommandTellsTruth
CHECK_DEADLOCK FALSE
