SPECIFICATION FairSpec
CONSTANTS
    THREAD_QUEUE_SIZE = 5
    MAX_PROC_TIME = 2
    MAX_PIDS = 6
INVARIANTS NeverSpins SlotAccounting IInv
PROPERTIES RoundRobin StarvationFree AddCompletes
