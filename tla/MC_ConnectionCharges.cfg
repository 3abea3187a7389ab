CONSTANTS
    Limit = 5
    Owners = {c1, c2}
    Classes <- AllClasses
    MaxRequest = 3
    IdMax = 5
SPECIFICATION ChargesSpec
SYMMETRY OwnerSymmetry
INVARIANTS
    ChargesAreExact
PROPERTIES
    ImplementsBudget
