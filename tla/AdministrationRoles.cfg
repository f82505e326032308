CONSTANTS
    Users = {a, b, c}
    Nobody = Nobody
    MaxKeys = 2
    MaxOpen = 0
    Damageable = {}
SPECIFICATION Spec
SYMMETRY Symmetry
INVARIANTS
    RolesFilled
    ProtectedStayAdmins
CHECK_DEADLOCK FALSE
