CONSTANTS
    Accounts = {a, b}
    Admins = {a}
    Coded = {a}
    Flat = {b}
    Nobody = Nobody
    Calls = {c1, c2}
    MaxEpoch = 2
    MaxDeletions = 1
SPECIFICATION Spec
INVARIANTS
    KeyFitsFolder
    SessionCoherent
    DeletionsRecorded
PROPERTIES
    LateCallsPublishNothing
