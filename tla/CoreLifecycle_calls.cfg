SPECIFICATION FairSpec
CONSTANTS
    Callers = {t1}
    Handlers = {h1}
    Instances = {i1, i2, i3}
    Servers = {s1, s2, s3}
    Nil = Nil
    Scenarios <- MCScenarios
INVARIANTS StoppedMeansNothingRuns NoOrphanedInstance
    NoOrphanedListener
PROPERTIES StatusIsHonest StartingResolves
