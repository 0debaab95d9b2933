--------------------------- MODULE OSThreadQueue ---------------------------
(* The thread queues of the guest operating system: the run queue of every  *)
(* priority, the wait queues the game sleeps on, the join queue inside      *)
(* every OSThread and the wait queue inside every OSMutex.  The code keeps  *)
(* each of them as an intrusive doubly linked list with a head and a tail   *)
(* word; here a queue is the sequence of the threads linked on it.          *)
EXTENDS Integers, Sequences

CONSTANTS
    Thread,       \* the OSThread structures of the guest program
    Main,         \* the default thread, which the console starts
    Event,        \* the wait queues guest code sleeps on and wakes
    Mutex,        \* the OSMutex structures
    LowestPrio,   \* the worst priority of a thread; 31 in the code
    None          \* the null pointer

ASSUME MainAssumption == Main \in Thread
ASSUME PrioAssumption == LowestPrio \in Nat
ASSUME NoneAssumption == None \notin Thread \cup Mutex

Prio == 0 .. LowestPrio

(* kSuspendedWaitPriority: below every real priority.                       *)
SuspendedWaitPriority == LowestPrio + 1
AnyPrio == 0 .. SuspendedWaitPriority

RunQ(p)   == <<"run", p>>
EventQ(e) == <<"event", e>>
JoinQ(t)  == <<"join", t>>
MutexQ(m) == <<"mutex", m>>

(* The array of run queues has the entries of Prio; the one after them is   *)
(* memory behind the array, which OSScheduler!InRunQueueArray says is left  *)
(* alone.                                                                   *)
RunQueue  == {RunQ(p) : p \in AnyPrio}
WaitQueue == {EventQ(e) : e \in Event} \cup {JoinQ(t) : t \in Thread}
                                       \cup {MutexQ(m) : m \in Mutex}
Queue == RunQueue \cup WaitQueue

\* The null pointer is the address of no queue.
ASSUME QueueAssumption == None \notin Queue

IsQueued(s, t) == \E i \in DOMAIN s : s[i] = t

Position(s, t) == CHOOSE i \in DOMAIN s : s[i] = t

(* UnlinkGuestListNode on a list that holds the node.                       *)
Unlinked(s, t) ==
    IF IsQueued(s, t)
    THEN SubSeq(s, 1, Position(s, t) - 1) \o SubSeq(s, Position(s, t) + 1, Len(s))
    ELSE s

(* The first linked thread whose priority is worse than p, or the end: the  *)
(* place InsertThreadIntoQueueByPriority links a thread of priority p at.   *)
InsertBeforeEquals(s, p, prio) ==      \* mutant: < for <=
    CHOOSE i \in 1 .. Len(s) + 1 :
        /\ \A j \in 1 .. i - 1 : prio[s[j]] < p
        /\ i <= Len(s) => prio[s[i]] >= p

InsertPoint(s, p, prio) ==
    CHOOSE i \in 1 .. Len(s) + 1 :
        /\ \A j \in 1 .. i - 1 : prio[s[j]] <= p
        /\ i <= Len(s) => prio[s[i]] > p

InsertedByPriority(s, t, p, prio) ==
    LET i == InsertPoint(s, p, prio)
    IN  SubSeq(s, 1, i - 1) \o <<t>> \o SubSeq(s, i, Len(s))

(* The best of a non-empty set of priorities: the number of leading zeros   *)
(* of the pending mask, whose bit 0 is the leftmost.                        *)
Worst(P) == CHOOSE p \in P : \A r \in P : p >= r    \* mutant: counts from the right

Best(P) == CHOOSE p \in P : \A r \in P : p <= r
=============================================================================
