CONSTANTS
    f1 = f1
    f2 = f2
    w1 = w1
    w2 = w2
    None = None
    Info <- MCInfo
    Write <- MCWrite
    Inode <- MCInode
    Fails <- OnlyFlush
    Overlap <- ReadersOnly
    Opens <- PlainOpens
    Retries = TRUE
    Unflushed = 2
SPECIFICATION Spec
PROPERTY SuccessIsReal
CHECK_DEADLOCK FALSE
