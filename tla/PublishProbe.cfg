CONSTANTS
    p1 = p1
    p2 = p2
    c1 = c1
    c2 = c2
    Procs = {p1, p2}
    Channels = {c1, c2}
    Covers <- MCCovers
    Forced = {p2}
    Nobody = Nobody
SPECIFICATION Spec
INVARIANT RefusedMeansUnwritable
CHECK_DEADLOCK FALSE
