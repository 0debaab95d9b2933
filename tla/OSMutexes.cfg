CONSTANTS
    t1 = t1  t2 = t2  t3 = t3  m1 = m1  m2 = m2  vi = vi  ev = ev
    Thread = {t1, t2, t3}
    Main = t1
    Event = {vi}
    Mutex = {m1, m2}
    LowestPrio = 1
    None = None
    Idle = Idle
    Retrace = vi
    Calls = {"create", "resume", "suspend", "mutex", "exit", "cancel"}
    MaxSuspend = 1
    MaxCount = 2
SPECIFICATION Spec
INVARIANTS NoInversion MutexOwnership NoForgottenWaiter
SYMMETRY CreatedThreads
CONSTRAINT OneHardship
