SPECIFICATION Spec
CONSTANTS
    Creators = {c1, c2}
    Domains = {d1, d2}
    Families = {"inet4", "inet6"}
    Offsets = {2, 3}
    Ranges <- MCRanges
    Writers = {w1, w2}
    MaxCalls = 3
    MaxStarts = 2
    None = None
SYMMETRY Symmetry
INVARIANTS ResolvesBackOnceWritten HandedOutResolves AnswersInRange
PROPERTIES ImplementsBook CursorSurvivesCleanStop
CHECK_DEADLOCK FALSE
