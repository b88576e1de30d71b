SPECIFICATION SelectorSpec
CONSTANTS
    SelectorTags = {a, b}
    First = a
    Default = None
    OtherTags = {gone}
    Callers = {t1}
    Conns = {c1}
    InterruptExternal = TRUE
    None = None
PROPERTY InboundInterrupted
