CONSTANTS
    a = a
    b = b
    c = c
    NoList = NoList
    Texts <- MCTexts
    Items <- MCItems
    Atoms <- MCAtoms
    NotWords <- MCNotWords
    VariantNames <- MCVariantNames
    Starts <- MCStarts
    PageSize = 1
    MaxChanges = 2
    WindowDays = 3
SPECIFICATION FairSpec
CHECK_DEADLOCK FALSE
INVARIANTS
    TypeOK
    PoolsFollowTheText
    NothingTwice
    SameQuerySamePool
    TablesNameVariants
    SplitSlotsAirOnce
    FailuresHaveAReason
PROPERTIES
    ChannelEnds
