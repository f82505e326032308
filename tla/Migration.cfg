CONSTANTS
    Calls = {c1}
    MaxRunning = 1
    Files = {f1, f2, f3}
    NoFile = NoFile
SPECIFICATION Spec
PROPERTIES
    
    EncryptsAtomically
CHECK_DEADLOCK FALSE
