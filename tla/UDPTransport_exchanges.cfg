SPECIFICATION DNSSpec
CONSTANTS
    Callers = {c1, c2}
    Conns = {k1, k2}
    Streams = {s1, s2}
    IdSpace = 3
    MaxCalls = 2
    None = None
INVARIANTS AnswersAreOwn NothingStranded
PROPERTIES FailsOnlyWhenFresh ExchangesReturn
