CONSTANTS
    Parts = {"host", "job", "update", "signing", "close"}
    Two = {x, y}
    NoConn = NoConn
    Jobs <- LiveJobs
    QueueCap = 2
    Chunks = 2
    MaxEvents = 2
    Window = 1
    Bundles <- MCBundles
    Selected <- MCSelected
    Callers = {1, 2}
    Names = {"x"}
    MaxJobs = 2
    MaxChanges = 2
    Worker = "w"
    Strangers = {"s"}
    Kids = {"k1", "k2"}
    Platforms <- LivePlatforms
    MaxDials = 3
    Own = {"o1", "o2", "o3"}
    Foreign = {"f"}
    Transports <- MCTransports
    FaultSets <- MCFaultSets
    RunFaultSets <- MCRunFaultSets
    Contents = {"d1"}
    Endpoints = {"none", "https", "http"}
    Policy = "P"
    MaxBundle = 1
    MaxReply = 1
    MaxTokens = 2
    Versions = {1, 2}
    Current = 1
    Digests = {"d1", "d2"}
    MaxReleased = 2
    MaxEdits = 3
    MaxCloses = 3
SPECIFICATION FairSpec
PROPERTIES
    
    CallsEnd
CHECK_DEADLOCK FALSE
