SPECIFICATION TtyFairSpec
CONSTANTS
    boot = boot
    other = other
    Printer <- MCPrinter
    Letter = {"a"}
    Numerals <- MCNumerals
    TTY_OUT_BUFSIZE = 1
    MaxChars = 4
    MaxMixed = 3
CHECK_DEADLOCK FALSE
INVARIANTS IndexInBuffer AloneInOrder
PROPERTIES SystemCallWhole PrintsEnd
