CONSTANTS
    HourLen = 4
    DayLen = 12
    NanosPerMicro = 2
    NanosPerMilli = 4
    StubNanos = 4
    BreakTarget = 3
    Collections <- MCCollections
    Kinds <- MCKinds
    Plans <- MCPlans
SPECIFICATION Spec
CHECK_DEADLOCK FALSE
INVARIANT NoBlockOverruns
