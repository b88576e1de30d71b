SPECIFICATION MemorySpec
CONSTANTS
    Creators = {c1, c2}
    Domains = {d1, d2, d3, d4}
    Families = {"inet4", "inet6"}
    Offsets = {2, 3, 4}
    Ranges <- MCRanges
    None = None
SYMMETRY Symmetry
INVARIANT AnsweredResolves
PROPERTY ReuseOnlyWhenExhausted
