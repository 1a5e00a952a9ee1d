SPECIFICATION Spec
CONSTANTS
    NULL = NULL
    Names <- MCNames
    StartsWith <- MCStartsWith
    Inodes <- MCInodes
    Dirs <- MCDirs
    Entries <- MCEntries
    Paths <- MCPaths
    Counts <- MCCounts
    BS = 3
    NDIRECT = 3
    NPTRS = 4
    MAX_POS = 16
INVARIANTS CleanLookup LookupIsFind ReadDelivers
