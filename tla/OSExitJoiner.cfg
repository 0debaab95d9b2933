CONSTANTS
    t1 = t1  t2 = t2  t3 = t3  m1 = m1  m2 = m2  vi = vi  ev = ev
    Thread = {t1, t2, t3}
    Main = t1
    Event = {vi}
    Mutex = {m1}
    LowestPrio = 1
    None = None
    Idle = Idle
    Retrace = vi
    Calls = {"create", "resume", "exit", "join", "mutex"}
    MaxSuspend = 0
    MaxCount = 1
SPECIFICATION Spec
INVARIANT TerminationComplete
