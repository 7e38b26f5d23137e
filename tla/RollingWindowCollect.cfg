CONSTANTS
    r1 = r1
    r2 = r2
    c1 = c1
    c2 = c2
    NoRun = NoRun
    Runs <- MCRuns
    Channels <- MCOneChannel
    Commands <- MCCommands
    Names <- MCOneName
    WindowDays = 2
    TicksPerDay = 2
    Behind = 2
    Parallel = 2
    LastTick = 3
SPECIFICATION Spec
CHECK_DEADLOCK FALSE
PROPERTY CollectsNothingOnAir
