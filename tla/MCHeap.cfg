SPECIFICATION FairSpec
CONSTANTS
    NFRAMES = 4
    BITS = 8
    PAGE = 32
    PAGE_COUNT = 1
    MAJOR = 3
    MINOR = 3
    ALIGNMENT = 2
    ALIGN_INFO = 2
    Requests = {4, 25}
    RESERVED = {0}
INVARIANT HeapSound
PROPERTIES ImplementsAlloc MallocEnds OnlyReleaseDamages
