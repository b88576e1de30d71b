SPECIFICATION Spec
CONSTANTS
    Outbounds <- MCOutbounds
    RealTag <- MCRealTag
    Supports <- MCSupports
    Delays = {1, 3, 7}
    Tolerance = 1
    Width = 3
    Loops = {"loop1", "loop2"}
    Conns = {c1}
    None = None
INVARIANTS
    OneLoopPerTicker
    SelectWithinTolerance
PROPERTIES
    ChangeInterrupts
    UsedIsTested
    UnusedStops
CHECK_DEADLOCK FALSE
