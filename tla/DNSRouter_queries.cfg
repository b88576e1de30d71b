SPECIFICATION MCSpec
CONSTANTS
    t1 = t1
    t2 = t2
    q1 = q1
    q2 = q2
    None = None
    Goroutines = {g1, g2}
    Questions = {q1, q2}
    Transports = {t1, t2}
    Untimed = {t2}
    Answers = {"a", "c"}
    Bare = {"c"}
    Requests <- MCRequests
    Resolver <- Chained
    Independent = TRUE
    MaxDepth = 2
    MaxCalls = 3
    RuleLists <- MCRuleLists
    Servers = {"remote", "slow", "fake"}
    FakeServers = {"fake"}
    DefaultServer = "slow"
    UntimedServers = {"slow"}
    Addresses = {"a", "b"}
    FakeAddresses = {"f"}
    Nil = Nil
INVARIANTS WaitsForHolder FilterHolds AnswersByFirstRule FilterDecides
PROPERTY CallsReturn
