CONSTANTS
    a = a
    b = b
    c = c
    NoList = NoList
    Texts <- MCTexts
    Items <- MCItems
    Atoms <- MCAtoms
    NotWords <- MCNotWords
    VariantNames <- MCVariantNames
    Starts <- MCStarts
    PageSize = 1
    MaxChanges = 1
    WindowDays = 3
SPECIFICATION Spec
CHECK_DEADLOCK FALSE
INVARIANT BoundAnywhereSuffices
