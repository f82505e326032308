CONSTANTS
    Parts = {"repair", "archives", "folder", "exports", "export command", "commands",
             "schema", "legacy root"}
    Calls = {c1, c2}
    None = None
    Trees <- MCTrees
    AllNames <- MCNames
    Aliases <- MCAliases
    Pairs <- MCPairs
    MaxVersion = 3
    MaxHandles = 4
    MaxEdits = 1
    MaxCerts = 2
    MaxCrashes = 1
    Mangled = {"x1", "x2"}
    Replaced = "w"
    Makers = {"c", "d"}
    MaxSaves = 1
    NewNames <- MCNewNames
    Bases = {"b1"}
    Jobs = {"certified", "gpg", "pades", "evidence"}
    Amounts = {0, 5}
    MaxStops = 3
    LegacyRoots <- MCLegacyRoots
    MaxEnds = 2
    Endings = {"", "-wal"}
    Flags = {{"export"}}
    Counted = {"charts"}
    Shapes = {"absent", "partial", "whole"}
    MaxFiles = 5
SPECIFICATION Spec
SYMMETRY Symmetry
INVARIANTS
    
    
    
    ExportsWhole
    CommandsHonest
    
 
CHECK_DEADLOCK FALSE
