CONSTANTS
    r1 = r1
    r2 = r2
    c1 = c1
    c2 = c2
    NoRun = NoRun
    Runs <- MCRuns
    Channels <- MCChannels
    Commands <- MCCatchUp
    Names <- MCOneName
    WindowDays = 1
    TicksPerDay = 2
    Behind = 2
    Parallel = 1
    LastTick = 0
SPECIFICATION FairSpec
CHECK_DEADLOCK FALSE
INVARIANTS
    ListedIsPublished
    MarkerIsComplete
PROPERTIES
    EveryRunEnds
    LocksAreFreed
