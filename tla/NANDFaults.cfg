CONSTANTS
    f1 = f1
    f2 = f2
    w1 = w1
    w2 = w2
    None = None
    Info <- MCInfo
    Write <- MCWrite
    Inode <- MCInode
    Fails <- EveryFailure
    Overlap <- ReadersOnly
    Opens <- BothOpens
    Retries = TRUE
    Unflushed = 2
SPECIFICATION Spec
INVARIANTS TypeOK SavedIsDurable
PROPERTY AllOrNothing
SYMMETRY Alike
VIEW UsedView
CHECK_DEADLOCK FALSE
