SPECIFICATION FairSpec
CONSTANTS
    PAGE = 2
    LOW = 2
    SLACK = 3
    GAP = 14
    TABLE = 8
    KHEAP_START = 24
    KHEAP_END = 56
    DIR = 3
    WORD = 4
    KernelEnds <- MCKernelEnds
    RamSizes <- MCRamSizes
    Reserved <- MCReserved
INVARIANTS KernelKept TablesComplete
PROPERTIES BootEnds
