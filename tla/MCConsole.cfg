SPECIFICATION FairSpec
CONSTANTS
    Thread = {t1, t2}
    Letter = {"a"}
    KMSG_BUFSIZE = 2
    Columns = 2
    Rows = 2
    FIFO = 2
    MaxChars = 7
    MaxMixed = 3
CHECK_DEADLOCK FALSE
INVARIANTS CharactersKept ScreenShowsLines
PROPERTIES SendReturns
