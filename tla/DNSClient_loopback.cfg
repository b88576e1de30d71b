SPECIFICATION FairSpec
CONSTANTS
    t1 = t1
    t2 = t2
    q1 = q1
    q2 = q2
    None = None
    Goroutines = {g1}
    Questions = {q1, q2}
    Transports = {t1, t2}
    Untimed = {}
    Answers = {"a", "c"}
    Bare = {"c"}
    Requests <- SelfRequests
    Resolver <- SelfResolved
    Independent = FALSE
    MaxDepth = 3
    MaxCalls = 2
PROPERTY ExchangeReturns
