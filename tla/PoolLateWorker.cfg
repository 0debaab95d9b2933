CONSTANTS
    w1 = w1
    w2 = w2
    d = d
    Worker = {w1, w2}
    Dispatcher = d
    Chunk = 2
    MaxCount = 5
    MaxRuns = 2
SPECIFICATION Spec
INVARIANT EveryIndexOnce
