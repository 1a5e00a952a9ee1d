SPECIFICATION KbdFairSpec
CONSTANTS
    Letters <- MCLetters
    Digits <- MCDigits
    BUFSIZE = 3
    AVAIL_MOD = 3
    MAX_KEYS = 4
INVARIANTS CountersSound ShiftNotStuck
PROPERTIES InOrder KeysDrain
