CONSTANTS
    r1 = r1
    r2 = r2
    c1 = c1
    c2 = c2
    NoRun = NoRun
    Runs <- MCRuns
    Channels <- MCOneChannel
    Commands <- MCFromFirstDay
    Names <- MCNames
    WindowDays = 2
    TicksPerDay = 2
    Behind = 1
    Parallel = 2
    LastTick = 2
SPECIFICATION Spec
SYMMETRY MCSymmetry
CHECK_DEADLOCK FALSE
INVARIANTS
    TypeOK
    ForcedRunRewrites
    GuideHasFile
    StoreNeverAhead
PROPERTY
    FreshDayUntouched
