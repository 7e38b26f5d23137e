CONSTANTS
    HourLen = 4
    DayLen = 12
    NanosPerMicro = 2
    NanosPerMilli = 4
    StubNanos = 4
    BreakTarget = 3
    Collections <- MCCollections
    Kinds <- MCKinds
    Plans <- MCPlans
SPECIFICATION Spec
CHECK_DEADLOCK FALSE
INVARIANTS
    TypeOK
    FillStaysInside
    FillLandsOnTarget
    NothingCrossesMidnight
    DefaultStaysInside
    MediaAirsWhole
    OverlapNeedsOverrun
    BreaksKeepTheAnchor
    GuideMatchesAir
PROPERTY
    Terminates
