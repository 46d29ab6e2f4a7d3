SPECIFICATION Spec
CONSTANTS
    file = file
    dir = dir
    inner = inner
    Root = Root
    None = None
    Paths <- MCPaths
    ParentOf <- MCParentOf
    Inodes = {i1, i2, i3}
    RootInodes = {r1, r2}
    Sizes = {1, 2}
    Events <- MCEvents
    Window <- MCWindow
    MaxEntries = 2
    MaxChanges = 4
SYMMETRY Symmetry
INVARIANTS TypeOK
PROPERTIES DiffExact  StrongestEvidence UntouchedIsPresent
CHECK_DEADLOCK FALSE
