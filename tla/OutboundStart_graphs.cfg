SPECIFICATION MCSpec
CONSTANTS
    a = a
    b = b
    c = c
    direct = direct
    None = None
    Configurations <- MCConfigurations
    Tags = {a, b, c, direct}
    DefaultTags = {None, b, c}
    FallbackTag = direct
    MayFail = TRUE
    Members <- MCMembers
INVARIANTS StartOutcome DiagnosisIsTrue EachUnitOnce AcceptsWhenServed UsedSetKeepsRules
PROPERTY Terminates
