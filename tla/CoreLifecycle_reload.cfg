SPECIFICATION Spec
CONSTANTS
    Callers = {t1}
    Handlers = {h1}
    Instances = {i1, i2, i3}
    Servers = {s1, s2, s3}
    Nil = Nil
    Scenarios <- Faultless
INVARIANT ReloadSucceeds
