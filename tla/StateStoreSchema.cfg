CONSTANTS
    s1 = s1
    s2 = s2
    old = old
    new = new
    NoSession = NoSession
    Sessions <- MCSessions
    Expressions <- MCExpressions
    Tables = 4
    TTL = 0
    LastDay = 1
    MaxFaults = 1
SPECIFICATION Spec
CHECK_DEADLOCK FALSE
PROPERTY NextRunOpens
