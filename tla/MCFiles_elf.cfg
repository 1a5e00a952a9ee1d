SPECIFICATION Spec
CONSTANTS
    NULL = NULL
    Dir <- MCDir
    Inodes <- MCInodes
    Paths <- MCPaths
    TestPaths <- MCTestPaths
    Size <- MCSize
    Elf <- MCElf
    Word <- MCWord
    BS = 1024
    NFILES = 5
    MaxCommands = 3
CHECK_DEADLOCK FALSE
INVARIANT HeaderOfFile
