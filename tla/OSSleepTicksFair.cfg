CONSTANTS
    t1 = t1  t2 = t2  t3 = t3  m1 = m1  m2 = m2  vi = vi  ev = ev
    Thread = {t1, t2}
    Main = t1
    Event = {vi}
    Mutex = {}
    LowestPrio = 0
    None = None
    Idle = Idle
    Retrace = vi
    Calls = {"create", "start", "ticks", "sleep", "poll"}
    MaxSuspend = 0
    MaxCount = 1
SPECIFICATION FairSpec
INVARIANT SleeperHasWakeup
PROPERTIES RetraceNotStarved SleeperWakes
