SPECIFICATION FairSpec
CONSTANTS
    Words = 2
    Byte = 2
    Nibble = 2
    MaxCount = 2
    MaxReads = 2
CHECK_DEADLOCK FALSE
INVARIANTS ReadsExact StopsOnReadError
PROPERTIES ReadEnds
