CONSTANTS
    s1 = s1
    s2 = s2
    old = old
    new = new
    NoSession = NoSession
    Sessions <- MCSessions
    Expressions <- MCExpressions
    Tables = 2
    TTL = 0
    LastDay = 1
    MaxFaults = 1
SPECIFICATION FairSpec
CHECK_DEADLOCK FALSE
INVARIANTS
    TypeOK
    EveryRowHasOutcome
    PlaysComeWithTheirRun
    StampMeansComplete
    HashIsOfTheLastRun
PROPERTIES
    CommittedStays
    SessionsEnd
    ImplementsRunLog
