CONSTANTS
    Users = {a, b}
    Nobody = Nobody
    MaxKeys = 3
    MaxOpen = 2
    Damageable = {a, b}
SPECIFICATION Spec
SYMMETRY Symmetry
INVARIANTS
    NothingNamesRetiredKey
    DepartedMarked
PROPERTIES
    GivenOnlyToRoles
CHECK_DEADLOCK FALSE
