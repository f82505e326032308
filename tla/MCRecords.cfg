CONSTANTS
    Parts = {"chain", "records", "scenarios", "costs", "wbs", "project row",
             "settings", "sigma", "board", "catalog", "notices"}
    Peers = {x, y}
    Contents = {"a", "b"}
    MaxAudit = 4
    MaxDamage = 2
    Files = {"a", "b"}
    Clones = {"p", "clone"}
    Threads = {"t1"}
    Days = {1, 2}
    Written = {0, 1, 2, 11, 12, 99}
    Currencies = {"USD", "EUR"}
    Countries = {"US", "CA"}
    MaxEdits = 3
    MaxCalls = 3
    Asked <- MCAsked
    Fonts = {"f1", "f2"}
    BuiltIn = {"todo", "done"}
    Added = {"c1"}
    Sprints = {"s1"}
    MaxTime = 3
    VendorIds = {"v1"}
    Vendors = {"a", "b", "blank"}
    Blank = {"blank"}
    MaxVersion = 4
    MaxNotices = 5
    Docs = {"d1"}
    RecordCharts = {"c1", "c2"}
    Schedule = "c1"
    Bodies = {"b1"}
    MaxRecords = 5
    Baselines = {"b1"}
    Copies = {"k1"}
    MaxChartEdits = 2
    MaxScenarioEvents = 3
SPECIFICATION Spec
SYMMETRY Symmetry
INVARIANTS
    ChainTellsDamage
    HistoryReplays
    LedgersReconcile
    
PROPERTY NoStepStrands
CHECK_DEADLOCK FALSE
