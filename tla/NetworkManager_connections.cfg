SPECIFICATION Spec
CONSTANTS
    Connections = {c1}
    Interfaces = {"wifi", "cellular"}
    None = None
    Options <- MCOptions
    MaxUpdates = 2
INVARIANTS
    OnCloseOnce
    NothingLeft
    HalfCloseKeepsOther
    CloseMissesOnlyUntracked
    ConnectionsUseDefault
PROPERTIES
    CutConnectionsEnd
CHECK_DEADLOCK FALSE
