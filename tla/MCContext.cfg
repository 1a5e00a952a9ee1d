SPECIFICATION Spec
CONSTANTS
    Main = Main
    idle = idle
    init = init
    worker = worker
    Thread <- MCThread
    Version = {0}
    MaxDepth = 2
INVARIANTS MagicFound
PROPERTIES ImplementsThreads
