CONSTANTS
    t1 = t1  t2 = t2  t3 = t3  m1 = m1  m2 = m2  vi = vi  ev = ev
    Thread = {t1, t2}
    Main = t1
    Event = {vi}
    Mutex = {}
    LowestPrio = 1
    None = None
    Idle = Idle
    Retrace = vi
    Calls = {"create", "resume", "suspend", "sleep", "wake", "yield", "exit", "cancel", "join", "detach", "poll", "defer", "ticks"}
    MaxSuspend = 2
    MaxCount = 1
SPECIFICATION Spec
INVARIANTS TypeOK PendingExact InRunQueueArray LinkedOnce NoLostThread GuestRunsAsRunning JoinersReleased
PROPERTIES BestThreadRuns NoOvertaking
CONSTRAINT ParksApart
