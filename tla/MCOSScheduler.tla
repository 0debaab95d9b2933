--------------------------- MODULE MCOSScheduler ---------------------------
(* Instances of OSScheduler for TLC.  The threads the game creates are      *)
(* interchangeable; the default thread is not.                              *)
EXTENDS OSScheduler, TLC

CONSTANTS t1, t2, t3, m1, m2, vi, ev

CreatedThreads == Permutations(Thread \ {Main})

\* Bound: OSSleepTicks races with suspensions, resumptions, wakeups and
\* cancellations, but not with a join, a detachment, a disabled scheduler or the
\* callbacks of a retrace.
ParksApart ==
    \/ /\ timer = {} /\ outstanding = {} /\ seen = {}
       /\ \A t \in Thread : \A i \in DOMAIN stack[t] : stack[t][i] # Parked
    \/ /\ \A t \in Thread : ~detached[t] /\ queue[JoinQ(t)] = <<>> /\ state[t] # "MORIBUND"
       /\ disable = 0 /\ ~inRetrace

\* Bound: at most one thread has ended, and a started thread is suspended only
\* where none has ended and no mutex is locked twice.
OneHardship ==
    /\ \A t, u \in Thread : state[t] = "MORIBUND" /\ state[u] = "MORIBUND" => t = u
    /\ \/ \A t \in Thread :
             suspend[t] = 0 \/ NotStarted(t) \/ state[t] \in Terminated \cup {None}
       \/ /\ \A t \in Thread : state[t] \notin Terminated
          /\ \A m \in Mutex : count[m] <= 1
=============================================================================
