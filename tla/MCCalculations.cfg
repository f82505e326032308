CONSTANTS
    Parts = {"network", "cycles", "levelling", "dates", "earned value", "delivery",
             "portfolio", "budget", "pdf"}
    Deploys = {d1, d2}
    Bases <- MCBases
    People <- MCPeople
    Items <- MCItems
    LinkSets <- MCLinkSets
    Staffing <- MCStaffing
    Plans <- MCPlans
    Given <- MCGiven
    Constraints <- MCConstraints
SPECIFICATION Spec
SYMMETRY Symmetry
INVARIANTS
    SchedulesSound
    
    UpdatesKeepPdf
CHECK_DEADLOCK FALSE
