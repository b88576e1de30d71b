SPECIFICATION SelectorSpec
CONSTANTS
    SelectorTags = {a, b}
    First = a
    Default = b
    OtherTags = {gone}
    Callers = {t1, t2}
    Conns = {c1, c2}
    InterruptExternal = FALSE
    None = None
SYMMETRY Symmetry
INVARIANTS CacheFollowsSelection
PROPERTY SelectInterrupts
