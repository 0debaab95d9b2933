--------------------- MODULE OSSchedulerThreads_proofs ---------------------
(* No thread is lost: where every thread is linked, which thread executes,  *)
(* and why a call that is half done always comes back to SelectThread.      *)
EXTENDS OSScheduler_proofs

(* A program that joins no threads or locks no mutexes.  For the others an  *)
(* exit that is switched away while it frees its mutexes leaves its joiners *)
(* asleep (the run exit_joiner).                                            *)
Separate == "mutex" \notin Calls \/ "join" \notin Calls

-----------------------------------------------------------------------------
(* The inductive invariant.                                                 *)

(* The queues, among those of Q, that t is linked on.                       *)
Holds(Q, t) == {q \in Queue : t \in Range(Q[q])}

(* A thread that is linked on the queues H and has these fields has its     *)
(* seat: a WAITING one on the wait queue its pointer names, a READY one     *)
(* that nobody suspended on the run queue of its priority, all others       *)
(* nowhere.  Priorities below the run queues belong to suspended threads.   *)
Seat(H, st, su, pr, qo) ==
    /\ H \subseteq {qo}
    /\ \A q \in H : q \in WaitQueue => st = "WAITING"
    /\ \A q \in H : q \in RunQueue => st = "READY" /\ su = 0 /\ q = RunQ(pr)
    /\ \A t \in Thread : st = "WAITING" /\ qo = JoinQ(t) => "join" \in Calls
    /\ st = "READY" /\ su = 0 => RunQ(pr) \in H
    /\ st = "WAITING" => qo \in WaitQueue
    /\ st = "WAITING" /\ qo \notin H => ~Separate /\ \E t \in Thread : qo = JoinQ(t)
    /\ st \notin Terminated /\ su = 0 => pr \in Prio

Seated ==
    /\ \A q \in Queue : IsInjective(queue[q])
    /\ \A t \in Thread :
          Seat(Holds(queue, t), state[t], suspend[t], prio[t], queueOf[t])

(* The calls only the thread itself makes, which are under way only below   *)
(* each other; the runtime's own calls, which callbacks cause; and the two  *)
(* places where SelectThread itself waits.                                  *)
OwnCalls == {"sleep", "slept", "lock", "join", "suspend", "parked", "promote"}
Served   == {"wakeup", "select", "body", "timers", "heal", "resume", "resched", "propagate"}
Looping  == {"dispatch", "idle"}

Frames(t) == Range(stack[t])

IsJoinSleep(f) == f.op = "sleep" /\ \E t \in Thread : f.q = JoinQ(t)

(* Frame g may be below frame f: SelectThread does not wait inside itself,  *)
(* and the choice of a thread and the sleep of a joiner are never deferred. *)
Above(f, g) ==
    /\ f.op \in OwnCalls => g.op \in OwnCalls
    /\ f.op \in Looping => g.op # "idle"
    /\ g.op # "dispatch" /\ ~IsJoinSleep(g)

Ordered(s) == \A i, j \in DOMAIN s : i < j => Above(s[i], s[j])

(* Frame f may be on the fiber of t.                                        *)
Fits(t, f) ==
    /\ f.op = "slept" => f.t = t
    /\ f.op = "promote" => f.p \in Prio
    /\ f.op = "lock" => "mutex" \in Calls
    /\ f.op \in Looping => t = exec
    /\ f.op = "dispatch" => pending # {} /\ state[exec] # "RUNNING"
    /\ f.op = "idle" => running = None
    /\ IsJoinSleep(f) =>
          /\ t = exec /\ "join" \in Calls
          /\ \A u \in Thread : f.q = JoinQ(u) => state[u] \notin Terminated

Fibers == \A t \in Thread : Ordered(stack[t]) /\ \A f \in Frames(t) : Fits(t, f)

(* A frame that brings the fiber to SelectThread.                           *)
Switches(f) ==
    \/ f.op \in {"select", "body", "dispatch", "idle", "exited"}
    \/ f.op = "resched" /\ resched

(* The context words name the executing thread, unless SelectThread waits   *)
(* for one; a thread that lost the processor is on its way to SelectThread; *)
(* and scheduling is disabled only under a callback in guest code.          *)
Hands ==
    /\ \/ running = exec /\ current = exec
       \/ running = None /\ current = Idle /\ state[exec] # "RUNNING"
    /\ \A t \in Thread : state[t] = "RUNNING" => t = exec /\ suspend[t] = 0
    /\ state[exec] # "RUNNING" => \E f \in Frames(exec) : Switches(f)
    /\ running = None => \E f \in Frames(exec) : f.op \in Looping
    /\ \/ disable = 0
       \/ /\ disable = 1 /\ state[exec] = "RUNNING"
          /\ \E f \in Frames(exec) : f.op = "callback"
          /\ \A f \in Frames(exec) :
                f.op \in Served \/ (f.op = "callback" /\ f.deferred)

(* The joiners of t are about to be woken.                                  *)
Releasing(t) ==
    \/ At("wakeup") /\ Top.q = JoinQ(t)
    \/ At("unlockAll") /\ Rest # <<>> /\ Head(Rest).op = "wakeup" /\ Head(Rest).q = JoinQ(t)

Joins ==
    /\ "mutex" \notin Calls => \A t \in Thread : owned[t] = {}
    /\ Separate => \A t \in Thread :
          state[t] \in Terminated /\ queue[JoinQ(t)] # <<>> => Releasing(t)

IInv == Inv /\ Seated /\ Fibers /\ Hands /\ Joins

-----------------------------------------------------------------------------
(* Queues.                                                                  *)

Simple(Q) == Q \in Queues /\ \A q \in Queue : IsInjective(Q[q])

(* From the queues Q to R the thread t alone has moved, to the queues H.    *)
Moves(Q, R, t, H) ==
    /\ Simple(R)
    /\ \A u \in Thread : u # t => Holds(R, u) = Holds(Q, u)
    /\ Holds(R, t) = H

Moved(R, t, H) == Moves(queue, R, t, H)

LEMMA QueueKinds ==
    /\ \A q \in Queue : q \in RunQueue \/ q \in WaitQueue
    /\ \A q \in WaitQueue : q \in Queue /\ q \notin RunQueue
    /\ \A p \in AnyPrio : RunQ(p) \in Queue /\ RunQ(p) \in RunQueue /\ RunQ(p) \notin WaitQueue
    /\ \A p, r \in AnyPrio : RunQ(p) = RunQ(r) => p = r
    /\ \A t \in Thread : JoinQ(t) \in WaitQueue /\ JoinQ(t) \in Queue
    /\ \A p, t : RunQ(p) # JoinQ(t)
    /\ \A m, t : MutexQ(m) # JoinQ(t)
    /\ \A e, t : EventQ(e) # JoinQ(t)
    /\ \A u, t : JoinQ(u) = JoinQ(t) => u = t
    /\ \A p \in Prio : p \in AnyPrio /\ p \in Nat /\ p <= LowestPrio
BY QueueNames, PrioAssumption
   DEF Queue, RunQueue, WaitQueue, RunQ, JoinQ, MutexQ, EventQ, AnyPrio, Prio,
       SuspendedWaitPriority

(* One thread leaves or enters one queue.                                   *)
LEMMA QueueLeft ==
    ASSUME NEW Q, Simple(Q), NEW q \in Queue, NEW t \in Thread,
           NEW s \in Seq(Thread), IsInjective(s), Range(s) = Range(Q[q]) \ {t}
    PROVE  Moves(Q, [Q EXCEPT ![q] = s], t, Holds(Q, t) \ {q})
BY DEF Simple, Queues, Holds, Moves

LEMMA QueueEntered ==
    ASSUME NEW Q, Simple(Q), NEW q \in Queue, NEW t \in Thread,
           NEW s \in Seq(Thread), IsInjective(s), Range(s) = Range(Q[q]) \cup {t}
    PROVE  Moves(Q, [Q EXCEPT ![q] = s], t, Holds(Q, t) \cup {q})
BY DEF Simple, Queues, Holds, Moves

LEMMA SimpleNow ==
    ASSUME Inv, Seated
    PROVE  /\ Simple(queue)
           /\ \A t \in Thread, q \in Queue : q \in Holds(queue, t) <=> t \in Range(queue[q])
BY QueuesNow DEF Seated, Simple, Holds

LEMMA SeatNow ==
    ASSUME Seated, NEW t \in Thread
    PROVE  Seat(Holds(queue, t), state[t], suspend[t], prio[t], queueOf[t])
BY DEF Seated

(* RemoveThreadFromQueue takes the thread off the only queue it is on.      *)
LEMMA Unlinking ==
    ASSUME Inv, Seated, NEW t \in Thread
    PROVE  Moved(QueueWithout(t), t, {})
<1>1. Simple(queue) /\ Holds(queue, t) \subseteq {queueOf[t]} /\ Holds(queue, t) \subseteq Queue
  BY SimpleNow, SeatNow DEF Seat, Holds
<1>2. CASE queueOf[t] = None
  <2>1. QueueWithout(t) = queue
    BY <1>2 DEF QueueWithout
  <2>2. None \notin Queue
    BY QueueAssumption
  <2> QED
    BY <1>1, <1>2, <2>1, <2>2 DEF Moved, Moves
<1>3. CASE queueOf[t] # None
  <2> DEFINE q == queueOf[t]
             s == Unlinked(queue[q], t)
  <2>1. q \in Queue /\ queue[q] \in Seq(Thread) /\ IsInjective(queue[q])
    BY <1>1, <1>3 DEF Inv, TypeOK, ThreadTypes, QueueTypes, Simple
  <2>2. s \in Seq(Thread) /\ IsInjective(s) /\ Range(s) = Range(queue[q]) \ {t}
    BY <2>1, UnlinkedType, UnlinkedThreads
  <2>3. QueueWithout(t) = [queue EXCEPT ![q] = s]
    BY <1>3 DEF QueueWithout
  <2> HIDE DEF s
  <2>4. Moved([queue EXCEPT ![q] = s], t, Holds(queue, t) \ {q})
    BY <1>1, <2>1, <2>2, QueueLeft DEF Moved
  <2> QED
    BY <1>1, <2>3, <2>4
<1> QED
  BY <1>2, <1>3

(* A thread that is on no queue of Q enters q, by its priority or at the    *)
(* tail.                                                                    *)
LEMMA Linking ==
    ASSUME Inv, NEW Q, NEW t \in Thread, Moved(Q, t, {}), NEW q \in Queue,
           NEW p \in Nat, NEW pr \in [Thread -> Nat]
    PROVE  /\ Moved([Q EXCEPT ![q] = InsertedByPriority(@, t, p, pr)], t, {q})
           /\ Moved([Q EXCEPT ![q] = Append(@, t)], t, {q})
<1>1. Simple(Q) /\ Q[q] \in Seq(Thread) /\ IsInjective(Q[q]) /\ t \notin Range(Q[q])
  BY DEF Moved, Moves, Simple, Queues, Holds
<1>2. ASSUME NEW s \in Seq(Thread), IsInjective(s), Range(s) = Range(Q[q]) \cup {t}
      PROVE  Moved([Q EXCEPT ![q] = s], t, {q})
  <2>1. Moves(Q, [Q EXCEPT ![q] = s], t, Holds(Q, t) \cup {q})
    BY <1>1, <1>2, QueueEntered
  <2> QED
    BY <2>1 DEF Moved, Moves
<1>3. Moved([Q EXCEPT ![q] = InsertedByPriority(Q[q], t, p, pr)], t, {q})
  BY <1>1, <1>2, InsertedType, InsertedThreads
<1>4. Moved([Q EXCEPT ![q] = Append(Q[q], t)], t, {q})
  BY ZenonT(60), <1>1, <1>2, Appended
<1> QED
  BY <1>3, <1>4

(* A thread moves to q by its priority.                                     *)
LEMMA Relinking ==
    ASSUME Inv, Seated, NEW t \in Thread, NEW q \in Queue, NEW p \in AnyPrio
    PROVE  Moved(Requeued(t, q, p), t, {q})
<1>1. Moved(QueueWithout(t), t, {}) /\ p \in Nat /\ prio \in [Thread -> Nat]
  BY Unlinking, QueueNames DEF Inv, TypeOK, ThreadTypes
<1> QED
  BY <1>1, Linking DEF Requeued

(* The head of a queue leaves it.                                           *)
LEMMA TakingHead ==
    ASSUME Inv, Seated, NEW q \in Queue, queue[q] # <<>>
    PROVE  LET t == Head(queue[q])
           IN  /\ t \in Thread /\ q \in Holds(queue, t) /\ queueOf[t] = q
               /\ Moved([queue EXCEPT ![q] = Tail(queue[q])], t, {})
<1> DEFINE t == Head(queue[q])
           s == Tail(queue[q])
<1>1. Simple(queue) /\ queue[q] \in Seq(Thread) /\ IsInjective(queue[q])
  BY SimpleNow DEF Simple, Queues
<1>2. /\ t \in Thread /\ t \in Range(queue[q])
      /\ s \in Seq(Thread) /\ IsInjective(s) /\ Range(s) = Range(queue[q]) \ {t}
  BY <1>1, TailTaken
<1> HIDE DEF t, s
<1>3. q \in Holds(queue, t) /\ Holds(queue, t) \subseteq {queueOf[t]}
  BY <1>2, SimpleNow, SeatNow DEF Seat
<1>4. Moved([queue EXCEPT ![q] = s], t, Holds(queue, t) \ {q})
  BY <1>1, <1>2, QueueLeft DEF Moved
<1>5. Moved([queue EXCEPT ![q] = s], t, {})
  BY <1>3, <1>4
<1> QED
  BY <1>2, <1>3, <1>5 DEF t, s

(* A thread that is neither waiting nor ready to run is on no queue.        *)
LEMMA OnNoQueue ==
    ASSUME Inv, Seated, NEW t \in Thread,
           state[t] # "WAITING", state[t] # "READY" \/ suspend[t] # 0
    PROVE  Holds(queue, t) = {} /\ Moved(queue, t, {})
<1>1. Holds(queue, t) = {}
  BY SeatNow, QueueKinds DEF Seat, Holds
<1> QED
  BY <1>1, SimpleNow DEF Moved, Moves

(* A step changes these fields of t only.                                   *)
OnlyOf(t) ==
    \A u \in Thread : u # t =>
        /\ state'[u] = state[u] /\ suspend'[u] = suspend[u]
        /\ prio'[u] = prio[u] /\ queueOf'[u] = queueOf[u]

(* After a step of one thread everybody has a seat if that thread has.      *)
LEMMA Reseated ==
    ASSUME Seated, NEW t \in Thread, NEW H, Moved(queue', t, H), OnlyOf(t),
           Seat(H, state'[t], suspend'[t], prio'[t], queueOf'[t])
    PROVE  Seated'
BY DEF Seated, Moved, Moves, Simple, OnlyOf

LEMMA SeatsUntouched ==
    ASSUME Seated, UNCHANGED <<queue, state, suspend, prio, queueOf>>
    PROVE  Seated'
BY DEF Seated, Holds

-----------------------------------------------------------------------------
(* Every operation leaves every thread in its seat.                         *)

LEMMA Fields ==
    ASSUME Inv
    PROVE  /\ state \in [Thread -> State] /\ suspend \in [Thread -> Nat]
           /\ prio \in [Thread -> AnyPrio] /\ prio \in [Thread -> Nat]
           /\ queueOf \in [Thread -> Queue \cup {None}]
           /\ running \in Thread \cup {None} /\ exec \in Thread
           /\ queue \in Queues /\ pending = {p \in AnyPrio : queue[RunQ(p)] # <<>>}
BY QueuesNow, QueueNames
   DEF Inv, TypeOK, ThreadTypes, GlobalTypes, HostTypes, PendingExact

(* The priority computed for a thread is one of a run queue.                *)
LEMMA EffectivePriorityRuns ==
    ASSUME Inv, NEW t \in Thread, NEW ms \in SUBSET Mutex
    PROVE  EffectivePriority(t, ms) \in Prio
<1> DEFINE P == {base[t]} \cup {prio[Head(queue[MutexQ(m)])] :
                                   m \in {n \in ms : queue[MutexQ(n)] # <<>>}}
<1>1. base[t] \in Prio
  BY DEF Inv, TypeOK, ThreadTypes
<1>2. ASSUME NEW m \in ms, queue[MutexQ(m)] # <<>>
      PROVE  prio[Head(queue[MutexQ(m)])] \in Nat
  <2>1. queue[MutexQ(m)] \in Seq(Thread)
    BY QueueNames DEF Inv, TypeOK, QueueTypes
  <2>2. Head(queue[MutexQ(m)]) \in Thread
    BY <1>2, <2>1, HeadTailProperties
  <2> QED
    BY <2>2, Fields
<1>3. P \in SUBSET Nat /\ base[t] \in P
  BY <1>1, <1>2, QueueKinds
<1>4. Best(P) \in Nat /\ Best(P) <= base[t]
  BY <1>3, BestIsLeast
<1> QED
  BY <1>1, <1>4, PrioAssumption DEF EffectivePriority, Prio

(* SelectThread puts the running thread at the tail of its run queue.       *)
LEMMA SelectSeats ==
    ASSUME Inv, Seated, Hands, NEW force, NEW k, SelectBody(force, k),
           UNCHANGED <<suspend, prio>>
    PROVE  Seated'
<1>1. CASE UNCHANGED <<state, queueOf, queue>>
  BY <1>1, SeatsUntouched
<1>2. CASE /\ running # None /\ state[running] = "RUNNING"
           /\ state' = [state EXCEPT ![running] = "READY"]
           /\ queue' = [queue EXCEPT ![RunQ(prio[running])] = Append(@, running)]
           /\ queueOf' = [queueOf EXCEPT ![running] = RunQ(prio[running])]
  <2> DEFINE t == running
             q == RunQ(prio[t])
  <2>1. /\ t \in Thread /\ suspend[t] = 0 /\ state[t] = "RUNNING"
        /\ prio[t] \in AnyPrio /\ prio[t] \in Nat /\ q \in Queue /\ q \in RunQueue
    BY <1>2, Fields, QueueKinds DEF Hands
  <2>2. prio[t] \in Prio
    BY <2>1, SeatNow DEF Seat, Terminated
  <2>3. Moved(queue, t, {})
    BY <2>1, OnNoQueue
  <2>4. Moved(queue', t, {q})
    BY <1>2, <2>1, <2>3, Fields, Linking
  <2>5. OnlyOf(t)
    BY <1>2, Fields DEF OnlyOf
  <2>6. Seat({q}, state'[t], suspend'[t], prio'[t], queueOf'[t])
    BY <1>2, <2>1, <2>2, Fields, QueueKinds DEF Seat
  <2> QED
    BY <2>1, <2>4, <2>5, <2>6, Reseated
<1> QED
  BY <1>1, <1>2 DEF SelectBody

(* The thread that is chosen is READY and leaves its run queue.             *)
LEMMA DispatchChooses ==
    ASSUME Inv, Seated, Fibers, DispatchThread
    PROVE  LET p == Best(pending)
               t == Head(queue[RunQ(p)])
           IN  /\ p \in Prio /\ p \in pending /\ queue[RunQ(p)] # <<>>
               /\ t \in Thread /\ state[t] = "READY" /\ suspend[t] = 0 /\ prio[t] = p
               /\ Moved([queue EXCEPT ![RunQ(p)] = Tail(queue[RunQ(p)])], t, {})
               /\ resched' = FALSE
               /\ queue' = [queue EXCEPT ![RunQ(p)] = Tail(@)]
               /\ queueOf' = [queueOf EXCEPT ![t] = None]
               /\ state' = [state EXCEPT ![t] = "RUNNING"]
               /\ running' = t /\ current' = t /\ exec' = t
               /\ Become(<<>>, Rest)
               /\ UNCHANGED <<suspend, prio, disable>>
<1> DEFINE p == Best(pending)
           q == RunQ(p)
           t == Head(queue[q])
<1>1. pending # {}
  <2>1. Top \in Frames(exec) /\ Top.op = "dispatch"
    BY OwnSets, InRange DEF DispatchThread, At, Top, Frames, Stack
  <2> QED
    BY <2>1, Fields DEF Fibers, Fits
<1>2. p \in pending /\ p \in AnyPrio /\ q \in Queue /\ q \in RunQueue /\ queue[q] # <<>>
  BY <1>1, Fields, BestIsLeast, QueueKinds, QueueNames DEF Inv, TypeOK, QueueTypes
<1>3. /\ t \in Thread /\ q \in Holds(queue, t)
      /\ Moved([queue EXCEPT ![q] = Tail(queue[q])], t, {})
  BY <1>2, TakingHead
<1>4. state[t] = "READY" /\ suspend[t] = 0 /\ q = RunQ(prio[t])
  BY <1>2, <1>3, SeatNow DEF Seat
<1>5. prio[t] = p /\ p \in Prio
  <2>1. prio[t] \in AnyPrio /\ RunQ(p) = RunQ(prio[t])
    BY <1>3, <1>4, Fields
  <2>2. prio[t] \in Prio
    BY <1>3, <1>4, SeatNow DEF Seat, Terminated
  <2> HIDE DEF p, t
  <2> QED
    BY <1>2, <2>1, <2>2, QueueKinds
<1>6. ~(state[t] \in Terminated)
  BY <1>4 DEF Terminated
<1> QED
  BY <1>1, <1>2, <1>3, <1>4, <1>5, <1>6 DEF DispatchThread

LEMMA DispatchSeats ==
    ASSUME Inv, Seated, Fibers, DispatchThread
    PROVE  Seated'
<1> DEFINE p == Best(pending)
           t == Head(queue[RunQ(p)])
<1>1. /\ p \in Prio /\ t \in Thread /\ suspend[t] = 0 /\ prio[t] = p
      /\ Moved(queue', t, {})
      /\ queueOf' = [queueOf EXCEPT ![t] = None]
      /\ state' = [state EXCEPT ![t] = "RUNNING"]
      /\ UNCHANGED <<suspend, prio>>
  BY DispatchChooses
<1> HIDE DEF p, t
<1>2. OnlyOf(t)
  BY <1>1, Fields DEF OnlyOf
<1>3. Seat({}, state'[t], suspend'[t], prio'[t], queueOf'[t])
  BY <1>1, Fields DEF Seat
<1> QED
  BY <1>1, <1>2, <1>3, Reseated

(* The frame on top is one of the executing fiber's.                        *)
LEMMA TopFits ==
    ASSUME Inv, Fibers, NEW op, At(op)
    PROVE  Top \in Frames(exec) /\ Fits(exec, Top) /\ Top.op = op
<1>1. stack[exec] \in Stack /\ stack[exec] # <<>> /\ exec \in Thread /\ Top.op = op
  BY OwnSets DEF At, Top
<1>2. 1 \in 1 .. Len(stack[exec]) /\ Top = stack[exec][1]
  BY <1>1, EmptySeq, InRange DEF Top, Stack
<1>3. Top \in Frames(exec)
  BY <1>1, <1>2, InRange DEF Frames, Stack
<1> QED
  BY <1>1, <1>3 DEF Fibers

(* The running thread falls asleep on q.                                    *)
LEMMA SleepSeats ==
    ASSUME Inv, Seated, state[exec] = "RUNNING", suspend[exec] = 0,
           running = exec, disable = 0, NEW q \in WaitQueue, NEW k,
           \A t \in Thread : q = JoinQ(t) => "join" \in Calls,
           OSSleepThread(q, k)
    PROVE  Seated'
<1>0. exec # None
  BY Fields, NoneAssumption
<1>1. /\ state' = [state EXCEPT ![exec] = "WAITING"]
      /\ queueOf' = [queueOf EXCEPT ![exec] = q]
      /\ queue' = [queue EXCEPT ![q] = InsertedByPriority(@, exec, prio[exec], prio)]
      /\ UNCHANGED <<suspend, prio>>
  BY <1>0 DEF OSSleepThread
<1>2. exec \in Thread /\ prio[exec] \in Nat /\ q \in Queue /\ q \notin RunQueue
  BY Fields, QueueKinds
<1>3. Moved(queue', exec, {q})
  BY <1>1, <1>2, OnNoQueue, Fields, Linking
<1>4. OnlyOf(exec)
  BY <1>1, Fields DEF OnlyOf
<1>5. prio[exec] \in Prio
  BY <1>2, SeatNow DEF Seat, Terminated
<1>6. Seat({q}, state'[exec], suspend'[exec], prio'[exec], queueOf'[exec])
  BY <1>1, <1>2, <1>5, Fields DEF Seat
<1> QED
  BY <1>2, <1>3, <1>4, <1>6, Reseated

(* The head of a wait queue is WAITING; unless it is suspended, it moves to *)
(* the run queue of its priority, which is one of the array.                *)
LEMMA WakeMoves ==
    ASSUME Inv, Seated, WakeHead
    PROVE  LET t == Head(queue[Top.q])
               left == [queue EXCEPT ![Top.q] = Tail(@)]
           IN  /\ Top.q \in WaitQueue /\ t \in Thread /\ state[t] = "WAITING"
               /\ Moved(left, t, {})
               /\ state' = [state EXCEPT ![t] = "READY"]
               /\ UNCHANGED <<suspend, prio>>
               /\ \/ /\ suspend[t] = 0 /\ prio[t] \in Prio
                     /\ queue' = [left EXCEPT ![RunQ(prio[t])] = Append(@, t)]
                     /\ queueOf' = [queueOf EXCEPT ![t] = RunQ(prio[t])]
                     /\ resched' = TRUE
                     /\ Become(<<Wakeup(Top.q, TRUE)>>, Rest)
                  \/ /\ suspend[t] # 0 /\ queue' = left
                     /\ UNCHANGED <<queueOf, resched, stack>>
<1> DEFINE q == Top.q
           t == Head(queue[q])
<1>1. q \in WaitQueue /\ q \in Queue /\ queue[q] # <<>>
  BY StackTop, FrameFields, QueueKinds DEF WakeHead
<1>2. /\ t \in Thread /\ q \in Holds(queue, t)
      /\ Moved([queue EXCEPT ![q] = Tail(queue[q])], t, {})
  BY <1>1, TakingHead
<1>3. state[t] = "WAITING" /\ suspend[t] \in Nat
  BY <1>1, <1>2, SeatNow, Fields DEF Seat
<1>4. suspend[t] = 0 => prio[t] \in Prio /\ prio[t] <= LowestPrio /\ prio[t] \in Nat
  BY <1>2, <1>3, SeatNow, QueueKinds DEF Seat, Terminated
<1>5. CASE suspend[t] = 0
  <2>1. RunsWhenWoken(t) /\ ~(prio[t] > LowestPrio) /\ ~(state[t] \in Terminated)
    BY <1>3, <1>4, <1>5, PrioAssumption DEF RunsWhenWoken, Terminated
  <2> QED
    BY <1>1, <1>2, <1>3, <1>4, <1>5, <2>1 DEF WakeHead
<1>6. CASE suspend[t] # 0
  <2>1. ~RunsWhenWoken(t) /\ ~(state[t] \in Terminated)
    BY <1>3, <1>6 DEF RunsWhenWoken, Terminated
  <2> QED
    BY <1>1, <1>2, <1>3, <1>6, <2>1 DEF WakeHead
<1> QED
  BY <1>5, <1>6

LEMMA WakeSeats ==
    ASSUME Inv, Seated, WakeHead
    PROVE  Seated'
<1> DEFINE t == Head(queue[Top.q])
           left == [queue EXCEPT ![Top.q] = Tail(@)]
           q == RunQ(prio[t])
<1>1. /\ t \in Thread /\ state[t] = "WAITING" /\ Moved(left, t, {})
      /\ state' = [state EXCEPT ![t] = "READY"]
      /\ UNCHANGED <<suspend, prio>>
      /\ \/ /\ suspend[t] = 0 /\ prio[t] \in Prio
            /\ queue' = [left EXCEPT ![q] = Append(@, t)]
            /\ queueOf' = [queueOf EXCEPT ![t] = q]
         \/ /\ suspend[t] # 0 /\ queue' = left
            /\ UNCHANGED queueOf
  BY WakeMoves
<1> HIDE DEF left, t
<1>2. OnlyOf(t)
  BY <1>1, Fields DEF OnlyOf
<1>3. CASE suspend[t] = 0
  <2>1. q \in Queue /\ q \in RunQueue /\ q \notin WaitQueue /\ prio[t] \in Nat
    BY <1>1, <1>3, QueueKinds
  <2>2. Moved(queue', t, {q})
    <3> HIDE DEF q
    <3>1. Moved([left EXCEPT ![q] = Append(@, t)], t, {q})
      BY <1>1, <2>1, Fields, Linking
    <3> QED
      BY <1>1, <1>3, <3>1
  <2>3. Seat({q}, state'[t], suspend'[t], prio'[t], queueOf'[t])
    BY <1>1, <1>3, <2>1, Fields, QueueKinds DEF Seat
  <2> QED
    BY <1>1, <1>2, <2>2, <2>3, Reseated
<1>4. CASE suspend[t] # 0
  <2>1. Seat({}, state'[t], suspend'[t], prio'[t], queueOf'[t])
    BY <1>1, <1>4, Fields DEF Seat
  <2> QED
    BY <1>1, <1>2, <1>4, <2>1, Reseated
<1> QED
  BY <1>3, <1>4

(* A structure that is used again is on no queue, and nobody who joined the *)
(* old thread is still asleep.                                              *)
LEMMA CreateSeats ==
    ASSUME Inv, Seated, NEW t \in Thread, state[t] = "NONE", NEW p \in Prio, NEW d,
           Separate => queue[JoinQ(t)] = <<>>, OSCreateThread(t, p, d)
    PROVE  Seated'
<1>1. /\ state' = [state EXCEPT ![t] = "READY"] /\ suspend' = [suspend EXCEPT ![t] = 1]
      /\ prio' = [prio EXCEPT ![t] = p] /\ UNCHANGED queueOf
      /\ queue' = [queue EXCEPT ![JoinQ(t)] = <<>>]
  BY DEF OSCreateThread
<1>2. JoinQ(t) \in Queue /\ JoinQ(t) \in WaitQueue /\ IsInjective(<<>>) /\ Range(<<>>) = {}
  BY QueueKinds DEF IsInjective, Range
<1>3. /\ \A q \in Queue : IsInjective(queue'[q])
      /\ \A u \in Thread : Holds(queue', u) = Holds(queue, u) \ {JoinQ(t)}
  BY <1>1, <1>2, SimpleNow DEF Simple, Queues, Holds
<1>4. Separate => \A u \in Thread : Holds(queue', u) = Holds(queue, u)
  BY <1>2, <1>3 DEF Holds
<1>5. ASSUME NEW u \in Thread, u # t
      PROVE  Seat(Holds(queue', u), state'[u], suspend'[u], prio'[u], queueOf'[u])
  <2>1. /\ state'[u] = state[u] /\ suspend'[u] = suspend[u]
        /\ prio'[u] = prio[u] /\ queueOf'[u] = queueOf[u]
    BY <1>1, <1>5, Fields
  <2>2. JoinQ(t) # RunQ(prio[u])
    BY QueueKinds
  <2>3. Seat(Holds(queue, u) \ {JoinQ(t)}, state[u], suspend[u], prio[u], queueOf[u])
        \/ Separate
    BY <2>2, SeatNow DEF Seat
  <2> QED
    BY <1>3, <1>4, <2>1, <2>3, SeatNow
<1>6. Seat(Holds(queue', t), state'[t], suspend'[t], prio'[t], queueOf'[t])
  <2>1. Holds(queue, t) = {}
    BY OnNoQueue
  <2>2. Holds(queue', t) = {}
    BY <1>3, <2>1
  <2>3. state'[t] = "READY" /\ suspend'[t] = 1 /\ prio'[t] \in Prio
    BY <1>1, Fields
  <2> QED
    BY <2>2, <2>3 DEF Seat
<1> QED
  BY <1>3, <1>5, <1>6 DEF Seated

(* A resumed thread gets a priority of a run queue: one that waits moves    *)
(* within its queue, one that is READY is linked.                           *)
LEMMA ResumeSeats ==
    ASSUME Inv, Seated, Hands, NEW t \in Thread, NEW k, OSResumeThread(t, k)
    PROVE  Seated'
<1> DEFINE p == EffectivePriority(t, owned[t])
<1>1. p \in Prio /\ p \in AnyPrio /\ p \in Nat
  BY EffectivePriorityRuns, QueueKinds, OwnSets
<1> HIDE DEF p
<1>2. /\ suspend' = [suspend EXCEPT ![t] = Resumed(@)]
      /\ suspend'[t] \in Nat /\ (suspend[t] = 1 => suspend'[t] = 0)
      /\ (suspend[t] # 1 => (suspend'[t] = 0 <=> suspend[t] = 0))
  <2>1. suspend' = [suspend EXCEPT ![t] = Resumed(suspend[t])]
    BY DEF OSResumeThread
  <2> QED
    BY <2>1, Fields DEF Resumed
<1>3. CASE UNCHANGED <<state, prio, queueOf, queue>> /\ (suspend[t] # 1 \/ state[t] \in Terminated)
  <2>1. OnlyOf(t) /\ Moved(queue, t, Holds(queue, t))
    BY <1>2, <1>3, Fields, SimpleNow DEF OnlyOf, Moved, Moves
  <2>2. Seat(Holds(queue, t), state[t], suspend'[t], prio[t], queueOf[t])
    BY <1>2, <1>3, SeatNow DEF Seat, Terminated
  <2> QED
    BY <1>3, <2>1, <2>2, Reseated
<1>4. CASE suspend[t] = 1 /\ state[t] = "WAITING"
  <2>1. queueOf[t] \in WaitQueue /\ queueOf[t] \in Queue /\ queueOf[t] # None
    BY <1>4, SeatNow, QueueKinds, QueueAssumption DEF Seat
  <2>2. /\ prio' = [prio EXCEPT ![t] = p] /\ queue' = Requeued(t, queueOf[t], p)
        /\ UNCHANGED <<state, queueOf>>
    BY <1>4, <2>1 DEF OSResumeThread, p
  <2>3. OnlyOf(t) /\ Moved(queue', t, {queueOf[t]})
    BY <1>1, <1>2, <2>1, <2>2, Fields, Relinking DEF OnlyOf
  <2>4. \A u \in Thread : queueOf[t] = JoinQ(u) => "join" \in Calls
    BY <1>4, SeatNow DEF Seat
  <2>5. Seat({queueOf[t]}, state'[t], suspend'[t], prio'[t], queueOf'[t])
    BY <1>1, <1>2, <1>4, <2>1, <2>2, <2>4, Fields, QueueKinds DEF Seat
  <2> QED
    BY <2>3, <2>5, Reseated
<1>5. CASE suspend[t] = 1 /\ state[t] = "READY"
  <2>1. /\ prio' = [prio EXCEPT ![t] = p] /\ state' = [state EXCEPT ![t] = "READY"]
        /\ queue' = [queue EXCEPT ![RunQ(p)] = InsertedByPriority(@, t, p, prio)]
        /\ queueOf' = [queueOf EXCEPT ![t] = RunQ(p)]
    BY <1>5 DEF OSResumeThread, MadeReady, p
  <2>2. RunQ(p) \in Queue /\ RunQ(p) \in RunQueue /\ RunQ(p) \notin WaitQueue
    BY <1>1, QueueKinds
  <2>3. Moved(queue, t, {})
    BY <1>5, OnNoQueue
  <2>4. OnlyOf(t)
    BY <1>2, <2>1, Fields DEF OnlyOf
  <2>5. Moved(queue', t, {RunQ(p)})
    BY <1>1, <2>1, <2>2, <2>3, Fields, Linking
  <2>6. Seat({RunQ(p)}, state'[t], suspend'[t], prio'[t], queueOf'[t])
    BY <1>1, <1>2, <1>5, <2>1, <2>2, Fields, QueueKinds DEF Seat
  <2> QED
    BY <2>4, <2>5, <2>6, Reseated
<1>6. state[t] # "RUNNING" \/ suspend[t] = 0
  BY DEF Hands
<1> QED
  BY <1>3, <1>4, <1>5, <1>6, Fields DEF OSResumeThread, State, Terminated

(* A suspended thread leaves its run queue, or moves behind all that wait   *)
(* where it waits.                                                          *)
LEMMA SuspendSeats ==
    ASSUME Inv, Seated, NEW t \in Thread, NEW k, OSSuspendThread(t, k)
    PROVE  Seated'
<1> DEFINE p == SuspendedWaitPriority
<1>1. p \in AnyPrio /\ p \in Nat
  BY QueueNames
<1> HIDE DEF p
<1>2. /\ suspend' = [suspend EXCEPT ![t] = @ + 1]
      /\ suspend'[t] \in Nat /\ suspend'[t] # 0
  BY Fields DEF OSSuspendThread
<1>3. CASE UNCHANGED <<state, prio, queueOf, queue>> /\ (suspend[t] # 0 \/ state[t] \in Terminated)
  <2>1. OnlyOf(t) /\ Moved(queue, t, Holds(queue, t))
    BY <1>2, <1>3, Fields, SimpleNow DEF OnlyOf, Moved, Moves
  <2>2. Seat(Holds(queue, t), state[t], suspend'[t], prio[t], queueOf[t])
    BY <1>2, <1>3, SeatNow DEF Seat, Terminated
  <2> QED
    BY <1>3, <2>1, <2>2, Reseated
<1>4. CASE suspend[t] = 0 /\ state[t] = "READY"
  <2>1. /\ queue' = QueueWithout(t) /\ queueOf' = [queueOf EXCEPT ![t] = None]
        /\ UNCHANGED <<state, prio>>
    BY <1>4 DEF OSSuspendThread, Removed
  <2>2. OnlyOf(t) /\ Moved(queue', t, {})
    BY <1>2, <2>1, Fields, Unlinking DEF OnlyOf
  <2>3. Seat({}, state'[t], suspend'[t], prio'[t], queueOf'[t])
    BY <1>2, <1>4, <2>1 DEF Seat
  <2> QED
    BY <2>2, <2>3, Reseated
<1>5. CASE suspend[t] = 0 /\ state[t] = "RUNNING"
  <2>1. state' = [state EXCEPT ![t] = "READY"] /\ UNCHANGED <<prio, queueOf, queue>>
    BY <1>5 DEF OSSuspendThread
  <2>2. OnlyOf(t) /\ Moved(queue', t, {})
    BY <1>2, <1>5, <2>1, Fields, OnNoQueue DEF OnlyOf
  <2>3. Seat({}, state'[t], suspend'[t], prio'[t], queueOf'[t])
    BY <1>2, <2>1, Fields DEF Seat
  <2> QED
    BY <2>2, <2>3, Reseated
<1>6. CASE suspend[t] = 0 /\ state[t] = "WAITING"
  <2>1. queueOf[t] \in WaitQueue /\ queueOf[t] \in Queue /\ queueOf[t] # None
    BY <1>6, SeatNow, QueueKinds, QueueAssumption DEF Seat
  <2>2. /\ prio' = [prio EXCEPT ![t] = p] /\ queue' = Requeued(t, queueOf[t], p)
        /\ UNCHANGED <<state, queueOf>>
    BY <1>6, <2>1 DEF OSSuspendThread, p
  <2>3. OnlyOf(t) /\ Moved(queue', t, {queueOf[t]})
    BY <1>1, <1>2, <2>1, <2>2, Fields, Relinking DEF OnlyOf
  <2>4. \A u \in Thread : queueOf[t] = JoinQ(u) => "join" \in Calls
    BY <1>6, SeatNow DEF Seat
  <2>5. Seat({queueOf[t]}, state'[t], suspend'[t], prio'[t], queueOf'[t])
    BY <1>1, <1>2, <1>6, <2>1, <2>2, <2>4, Fields, QueueKinds DEF Seat
  <2> QED
    BY <2>3, <2>5, Reseated
<1> QED
  BY <1>3, <1>4, <1>5, <1>6, Fields DEF OSSuspendThread, State, Terminated

(* A thread that ends is unlinked if it was linked.                         *)
LEMMA CancelSeats ==
    ASSUME Inv, Seated, NEW t \in Thread, NEW k, OSCancelThread(t, k)
    PROVE  Seated'
<1>1. /\ state'[t] \in Terminated /\ (\A u \in Thread : u # t => state'[u] = state[u])
      /\ UNCHANGED <<suspend, prio>>
  BY Fields DEF OSCancelThread, Terminate, Terminated
<1>2. CASE CancelUnlinks(t)
  <2>1. queue' = QueueWithout(t) /\ queueOf' = [queueOf EXCEPT ![t] = None]
    BY <1>2 DEF OSCancelThread, Removed
  <2>2. OnlyOf(t) /\ Moved(queue', t, {})
    BY <1>1, <2>1, Fields, Unlinking DEF OnlyOf
  <2>3. Seat({}, state'[t], suspend'[t], prio'[t], queueOf'[t])
    BY <1>1 DEF Seat, Terminated
  <2> QED
    BY <2>2, <2>3, Reseated
<1>3. CASE ~CancelUnlinks(t)
  <2>1. UNCHANGED <<queue, queueOf>>
    BY <1>3 DEF OSCancelThread
  <2>2. state[t] # "WAITING" /\ (state[t] # "READY" \/ suspend[t] # 0)
    BY <1>3, Fields DEF CancelUnlinks
  <2>3. OnlyOf(t) /\ Moved(queue', t, {})
    BY <1>1, <2>1, <2>2, OnNoQueue DEF OnlyOf
  <2>4. Seat({}, state'[t], suspend'[t], prio'[t], queueOf'[t])
    BY <1>1 DEF Seat, Terminated
  <2> QED
    BY <2>3, <2>4, Reseated
<1> QED
  BY <1>2, <1>3

LEMMA ExitSeats ==
    ASSUME Inv, Seated, running \in Thread, state[running] = "RUNNING", NEW k, OSExitThread(k)
    PROVE  Seated'
<1> DEFINE t == running
<1>1. /\ state'[t] \in Terminated /\ (\A u \in Thread : u # t => state'[u] = state[u])
      /\ UNCHANGED <<suspend, prio, queueOf, queue>>
  BY Fields DEF OSExitThread, Terminate, Terminated, schedVars
<1>2. OnlyOf(t) /\ Moved(queue', t, {})
  BY <1>1, OnNoQueue DEF OnlyOf
<1>3. Seat({}, state'[t], suspend'[t], prio'[t], queueOf'[t])
  BY <1>1 DEF Seat, Terminated
<1> QED
  BY <1>2, <1>3, Reseated

(* Reaping a MORIBUND thread moves nobody.                                  *)
LEMMA ReapSeats ==
    ASSUME Inv, Seated, NEW t \in Thread, Reaped(t),
           UNCHANGED <<suspend, prio, queueOf, queue>>
    PROVE  Seated'
<1>1. CASE state[t] = "MORIBUND"
  <2>1. state' = [state EXCEPT ![t] = "NONE"]
    BY <1>1 DEF Reaped
  <2>2. OnlyOf(t) /\ Moved(queue', t, {})
    BY <1>1, <2>1, Fields, OnNoQueue DEF OnlyOf
  <2>3. Seat({}, state'[t], suspend'[t], prio'[t], queueOf'[t])
    BY <2>1, Fields DEF Seat, Terminated
  <2> QED
    BY <2>2, <2>3, Reseated
<1>2. CASE state[t] # "MORIBUND"
  BY <1>2, SeatsUntouched DEF Reaped
<1> QED
  BY <1>1, <1>2

(* A thread nobody suspended that changes its priority stays in its queue,  *)
(* or in the run queues.                                                    *)
LEMMA PrioritySeats ==
    ASSUME Inv, Seated, NEW t \in Thread, suspend[t] = 0, NEW p \in Prio,
           SetThreadEffectivePriority(t, p), UNCHANGED <<state, suspend>>
    PROVE  Seated'
<1>0. p \in AnyPrio /\ p \in Nat
  BY QueueKinds
<1>1. CASE state[t] = "READY"
  <2>1. /\ queue' = Requeued(t, RunQ(p), p) /\ prio' = [prio EXCEPT ![t] = p]
        /\ queueOf' = [queueOf EXCEPT ![t] = RunQ(p)]
    BY <1>1 DEF SetThreadEffectivePriority
  <2>2. RunQ(p) \in Queue /\ RunQ(p) \in RunQueue /\ RunQ(p) \notin WaitQueue
    BY <1>0, QueueKinds
  <2>3. OnlyOf(t) /\ Moved(queue', t, {RunQ(p)})
    BY <1>0, <2>1, <2>2, Fields, Relinking DEF OnlyOf
  <2>4. Seat({RunQ(p)}, state'[t], suspend'[t], prio'[t], queueOf'[t])
    BY <1>1, <2>1, <2>2, Fields, QueueKinds DEF Seat
  <2> QED
    BY <2>3, <2>4, Reseated
<1>2. CASE state[t] = "WAITING"
  <2>1. queueOf[t] \in WaitQueue /\ queueOf[t] \in Queue /\ queueOf[t] # None
    BY <1>2, SeatNow, QueueKinds, QueueAssumption DEF Seat
  <2>2. /\ prio' = [prio EXCEPT ![t] = p] /\ queue' = Requeued(t, queueOf[t], p)
        /\ UNCHANGED queueOf
    BY <1>2, <2>1 DEF SetThreadEffectivePriority
  <2>3. OnlyOf(t) /\ Moved(queue', t, {queueOf[t]})
    BY <1>0, <2>1, <2>2, Fields, Relinking DEF OnlyOf
  <2>4. \A u \in Thread : queueOf[t] = JoinQ(u) => "join" \in Calls
    BY <1>2, SeatNow DEF Seat
  <2>5. Seat({queueOf[t]}, state'[t], suspend'[t], prio'[t], queueOf'[t])
    BY <1>2, <2>1, <2>2, <2>4, Fields, QueueKinds DEF Seat
  <2> QED
    BY <2>3, <2>5, Reseated
<1>3. CASE state[t] = "RUNNING"
  <2>1. prio' = [prio EXCEPT ![t] = p] /\ UNCHANGED <<queue, queueOf>>
    BY <1>3 DEF SetThreadEffectivePriority
  <2>2. OnlyOf(t) /\ Moved(queue', t, {})
    BY <1>3, <2>1, Fields, OnNoQueue DEF OnlyOf
  <2>3. Seat({}, state'[t], suspend'[t], prio'[t], queueOf'[t])
    BY <1>3, <2>1, Fields DEF Seat
  <2> QED
    BY <2>2, <2>3, Reseated
<1>4. CASE state[t] \notin {"READY", "RUNNING", "WAITING"}
  BY <1>4, SeatsUntouched DEF SetThreadEffectivePriority
<1> QED
  BY <1>1, <1>2, <1>3, <1>4

(* The running thread gives up an inherited priority.                       *)
LEMMA UnlockSeats ==
    ASSUME Inv, Seated, running = exec, state[exec] = "RUNNING", NEW m \in Mutex,
           NEW k, OSUnlockMutex(m, k)
    PROVE  Seated'
<1>1. UNCHANGED <<state, suspend, queueOf, queue>>
  BY DEF OSUnlockMutex, schedVars
<1>2. CASE UNCHANGED prio
  BY <1>1, <1>2, SeatsUntouched
<1>3. CASE prio' = [prio EXCEPT ![exec] = EffectivePriority(exec, owned[exec] \ {m})]
  <2>1. exec \in Thread /\ EffectivePriority(exec, owned[exec] \ {m}) \in Prio
    BY Fields, OwnSets, EffectivePriorityRuns
  <2>2. OnlyOf(exec) /\ prio'[exec] \in Prio
    BY <1>1, <1>3, <2>1, Fields DEF OnlyOf
  <2>3. Moved(queue', exec, {})
    BY <1>1, <2>1, OnNoQueue
  <2>4. Seat({}, state'[exec], suspend'[exec], prio'[exec], queueOf'[exec])
    BY <1>1, <2>2 DEF Seat
  <2> QED
    BY <2>1, <2>2, <2>3, <2>4, Reseated
<1> QED
  BY <1>2, <1>3 DEF OSUnlockMutex

-----------------------------------------------------------------------------
(* Frames.                                                                  *)

(* The runtime's own calls and those of a thread's end: they may be made    *)
(* over any frames.                                                         *)
Plain == Served \cup {"callback", "unlockAll", "exited"}

LEMMA ShortRanges ==
    /\ Range(<<>>) = {}
    /\ \A f : Range(<<f>>) = {f}
    /\ \A f, g : Range(<<f, g>>) = {f, g}
    /\ \A f, g, h : Range(<<f, g, h>>) = {f, g, h}
<1>1. Range(<<>>) = {}
  BY DEF Range
<1>2. ASSUME NEW f PROVE Range(<<f>>) = {f}
  BY DEF Range
<1>3. ASSUME NEW f, NEW g PROVE Range(<<f, g>>) = {f, g}
  <2>1. DOMAIN <<f, g>> = {1, 2} /\ <<f, g>>[1] = f /\ <<f, g>>[2] = g
    OBVIOUS
  <2> QED
    BY <2>1 DEF Range
<1>4. ASSUME NEW f, NEW g, NEW h PROVE Range(<<f, g, h>>) = {f, g, h}
  <2>1. /\ DOMAIN <<f, g, h>> = {1, 2, 3} /\ <<f, g, h>>[1] = f /\ <<f, g, h>>[2] = g
        /\ <<f, g, h>>[3] = h
    OBVIOUS
  <2> QED
    BY <2>1 DEF Range
<1> QED
  BY <1>1, <1>2, <1>3, <1>4

LEMMA ShortOrders ==
    /\ Ordered(<<>>)
    /\ \A f : Ordered(<<f>>)
    /\ \A f, g : Above(f, g) => Ordered(<<f, g>>)
    /\ \A f, g, h : Above(f, g) /\ Above(f, h) /\ Above(g, h) => Ordered(<<f, g, h>>)
<1>1. Ordered(<<>>)
  BY DEF Ordered
<1>2. ASSUME NEW f PROVE Ordered(<<f>>)
  BY DEF Ordered
<1>3. ASSUME NEW f, NEW g, Above(f, g) PROVE Ordered(<<f, g>>)
  <2>1. DOMAIN <<f, g>> = {1, 2} /\ <<f, g>>[1] = f /\ <<f, g>>[2] = g
    OBVIOUS
  <2> QED
    BY <1>3, <2>1 DEF Ordered
<1>4. ASSUME NEW f, NEW g, NEW h, Above(f, g), Above(f, h), Above(g, h)
      PROVE  Ordered(<<f, g, h>>)
  <2>1. /\ DOMAIN <<f, g, h>> = {1, 2, 3} /\ <<f, g, h>>[1] = f /\ <<f, g, h>>[2] = g
        /\ <<f, g, h>>[3] = h
    OBVIOUS
  <2> QED
    BY <1>4, <2>1 DEF Ordered
<1> QED
  BY <1>1, <1>2, <1>3, <1>4

LEMMA PairAndOne ==
    ASSUME NEW f, NEW g, NEW h
    PROVE  <<f, g>> \o <<h>> = <<f, g, h>> /\ <<f>> \o <<g>> = <<f, g>>
<1> DEFINE S == {f, g, h}
<1>1. /\ <<f>> \in Seq(S) /\ <<g>> \in Seq(S) /\ <<h>> \in Seq(S)
      /\ <<f, g>> \in Seq(S) /\ <<f, g, h>> \in Seq(S)
  OBVIOUS
<1>2. /\ Len(<<f>>) = 1 /\ Len(<<g>>) = 1 /\ Len(<<h>>) = 1
      /\ Len(<<f, g>>) = 2 /\ Len(<<f, g, h>>) = 3
      /\ <<f>>[1] = f /\ <<g>>[1] = g /\ <<h>>[1] = h
      /\ <<f, g>>[1] = f /\ <<f, g>>[2] = g
      /\ <<f, g, h>>[1] = f /\ <<f, g, h>>[2] = g /\ <<f, g, h>>[3] = h
  OBVIOUS
<1> HIDE DEF S
<1>3. <<f, g>> \o <<h>> = <<f, g, h>>
  <2> DEFINE a == <<f, g>>
             b == <<h>>
             c == <<f, g, h>>
  <2>1. a \o b \in Seq(S) /\ Len(a \o b) = 3
    BY <1>1, <1>2, ConcatProperties
  <2>2. (a \o b)[1] = f /\ (a \o b)[2] = g /\ (a \o b)[3] = h
    BY <1>1, <1>2, ConcatProperties
  <2>3. c \in Seq(S) /\ Len(c) = 3 /\ c[1] = f /\ c[2] = g /\ c[3] = h
    BY <1>1, <1>2
  <2> HIDE DEF a, b, c
  <2>4. \A i \in 1 .. Len(a \o b) : i = 1 \/ i = 2 \/ i = 3
    BY <2>1
  <2>5. \A i \in 1 .. Len(a \o b) : (a \o b)[i] = c[i]
    BY <2>2, <2>3, <2>4
  <2>6. a \o b = c
    BY <2>1, <2>3, <2>5, SeqEqual
  <2> QED
    BY <2>6 DEF a, b, c
<1>4. <<f>> \o <<g>> = <<f, g>>
  <2> DEFINE a == <<f>>
             b == <<g>>
             c == <<f, g>>
  <2>1. a \o b \in Seq(S) /\ Len(a \o b) = 2
    BY <1>1, <1>2, ConcatProperties
  <2>2. (a \o b)[1] = f /\ (a \o b)[2] = g
    BY <1>1, <1>2, ConcatProperties
  <2>3. c \in Seq(S) /\ Len(c) = 2 /\ c[1] = f /\ c[2] = g
    BY <1>1, <1>2
  <2> HIDE DEF a, b, c
  <2>4. \A i \in 1 .. Len(a \o b) : i = 1 \/ i = 2
    BY <2>1
  <2>5. \A i \in 1 .. Len(a \o b) : (a \o b)[i] = c[i]
    BY <2>2, <2>3, <2>4
  <2>6. a \o b = c
    BY <2>1, <2>3, <2>5, SeqEqual
  <2> QED
    BY <2>6 DEF a, b, c
<1> QED
  BY <1>3, <1>4

(* The frame on top and the one below it after a step has pushed fs on k.   *)
LEMMA NewTop ==
    ASSUME NEW s \in Stack, s # <<>>
    PROVE  /\ Head(s) = s[1] /\ Tail(s) \in Stack
           /\ Len(s) # 1 => Tail(s) # <<>> /\ Head(Tail(s)) = s[2]
<1>1. PICK n \in Nat \ {0} : n = Len(s)
  BY LenProperties, EmptySeq DEF Stack
<1>2. Head(s) = s[1] /\ Tail(s) \in Stack /\ Len(Tail(s)) = n - 1
      /\ \A i \in 1 .. n - 1 : Tail(s)[i] = s[i + 1]
  BY <1>1, HeadTailProperties DEF Stack
<1>3. CASE n = 1
  BY <1>1, <1>2, <1>3
<1>4. CASE n # 1
  <2>1. n - 1 \in Nat \ {0} /\ 1 \in 1 .. n - 1
    BY <1>4
  <2>2. Tail(s) # <<>> /\ Tail(s)[1] = s[2]
    BY <1>2, <2>1, EmptySeq
  <2>3. Head(Tail(s)) = Tail(s)[1]
    BY <1>2, <2>2, HeadTailProperties DEF Stack
  <2> QED
    BY <1>2, <2>2, <2>3
<1> QED
  BY <1>3, <1>4

LEMMA PlainOrder ==
    ASSUME NEW fs \in Stack, \A f \in Range(fs) : f.op \in Plain
    PROVE  Ordered(fs)
<1>1. \A i \in DOMAIN fs : fs[i].op \in Plain
  BY InRange DEF Stack
<1>2. \A f, g : f.op \in Plain /\ g.op \in Plain => Above(f, g)
  BY DEF Plain, Served, Above, OwnCalls, Looping, IsJoinSleep
<1> QED
  BY <1>1, <1>2 DEF Ordered

(* Frames pushed on frames that may be below them.                          *)
LEMMA PushedOrder ==
    ASSUME NEW fs \in Stack, NEW k \in Stack, Ordered(fs), Ordered(k),
           \A f \in Range(fs), g \in Range(k) : Above(f, g)
    PROVE  Ordered(fs \o k) /\ Range(fs \o k) = Range(fs) \cup Range(k)
<1>1. Range(fs \o k) = Range(fs) \cup Range(k)
  BY RangeConcatenation DEF Stack
<1>2. PICK m \in Nat, n \in Nat : m = Len(fs) /\ n = Len(k)
  BY LenProperties DEF Stack
<1>3. /\ DOMAIN fs = 1 .. m /\ DOMAIN k = 1 .. n /\ DOMAIN (fs \o k) = 1 .. m + n
      /\ \A i \in 1 .. m + n : (fs \o k)[i] = IF i <= m THEN fs[i] ELSE k[i - m]
  BY <1>2, ConcatProperties, LenProperties DEF Stack
<1>4. (\A i \in 1 .. m : fs[i] \in Range(fs)) /\ (\A i \in 1 .. n : k[i] \in Range(k))
  BY <1>2, InRange DEF Stack
<1>5. ASSUME NEW i \in 1 .. m + n, NEW j \in 1 .. m + n, i < j
      PROVE  Above((fs \o k)[i], (fs \o k)[j])
  <2>1. CASE j <= m
    <3>1. i \in 1 .. m /\ j \in 1 .. m /\ i <= m
      BY <1>5, <2>1
    <3> QED
      BY <1>3, <1>5, <2>1, <3>1 DEF Ordered
  <2>2. CASE i <= m /\ ~(j <= m)
    <3>1. i \in 1 .. m /\ j - m \in 1 .. n
      BY <1>5, <2>2
    <3> QED
      BY <1>3, <1>4, <1>5, <2>2, <3>1
  <2>3. CASE ~(i <= m)
    <3>1. i - m \in 1 .. n /\ j - m \in 1 .. n /\ i - m < j - m /\ ~(j <= m)
      BY <1>5, <2>3
    <3> QED
      BY <1>3, <1>5, <2>3, <3>1 DEF Ordered
  <2> QED
    BY <2>1, <2>2, <2>3
<1> QED
  BY <1>1, <1>3, <1>5 DEF Ordered

(* The frames below the top one.                                            *)
LEMMA RestFrames ==
    ASSUME Inv, Fibers, stack[exec] # <<>>
    PROVE  /\ Rest \in Stack /\ Ordered(Rest)
           /\ Frames(exec) = {Top} \cup Range(Rest)
           /\ \A g \in Range(Rest) : Above(Top, g)
<1> DEFINE s == stack[exec]
<1>1. s \in Stack /\ exec \in Thread /\ Ordered(s)
  BY OwnSets DEF Fibers
<1>2. PICK n \in Nat \ {0} : n = Len(s)
  BY <1>1, LenProperties, EmptySeq DEF Stack
<1>3. /\ DOMAIN s = 1 .. n /\ Rest \in Stack /\ Top = s[1]
      /\ DOMAIN Rest = 1 .. n - 1 /\ Len(Rest) = n - 1
      /\ \A i \in 1 .. n - 1 : Rest[i] = s[i + 1]
  <2>1. DOMAIN s = 1 .. n /\ Top = s[1]
    BY <1>1, <1>2, LenProperties DEF Stack, Top
  <2>2. /\ Rest \in Stack /\ Len(Rest) = n - 1
        /\ \A i \in 1 .. n - 1 : Rest[i] = s[i + 1]
    BY <1>1, <1>2, HeadTailProperties DEF Stack, Rest
  <2> QED
    BY <2>1, <2>2, LenProperties DEF Stack
<1>4. /\ Range(s) = {s[i] : i \in 1 .. n}
      /\ Range(Rest) = {Rest[i] : i \in 1 .. n - 1}
  BY ZenonT(60), <1>1, <1>2, <1>3, InRange DEF Stack
<1>5. \A i, j \in 1 .. n : i < j => Above(s[i], s[j])
  BY <1>1, <1>3 DEF Ordered
<1> HIDE DEF s
<1>6. Ordered(Rest)
  <2>1. ASSUME NEW i \in 1 .. n - 1, NEW j \in 1 .. n - 1, i < j PROVE Above(Rest[i], Rest[j])
    <3>1. i + 1 \in 1 .. n /\ j + 1 \in 1 .. n /\ i + 1 < j + 1
      BY <2>1
    <3> QED
      BY <1>3, <1>5, <3>1
  <2> QED
    BY <1>3, <2>1 DEF Ordered
<1>7. \A i \in 1 .. n - 1 : Above(Top, Rest[i])
  <2>1. \A i \in 1 .. n - 1 : 1 \in 1 .. n /\ i + 1 \in 1 .. n /\ 1 < i + 1
    OBVIOUS
  <2> QED
    BY <1>3, <1>5, <2>1
<1>8. Range(s) = {Top} \cup Range(Rest)
  <2>1. ASSUME NEW i \in 1 .. n PROVE s[i] = Top \/ \E j \in 1 .. n - 1 : s[i] = Rest[j]
    <3>1. CASE i = 1
      BY <1>3, <3>1
    <3>2. CASE i # 1
      <4>1. i - 1 \in 1 .. n - 1 /\ (i - 1) + 1 = i
        BY <3>2
      <4> QED
        BY <1>3, <4>1
    <3> QED
      BY <3>1, <3>2
  <2>2. 1 \in 1 .. n /\ \A i \in 1 .. n - 1 : i + 1 \in 1 .. n
    OBVIOUS
  <2> QED
    BY <1>3, <1>4, <2>1, <2>2
<1> QED
  BY <1>3, <1>4, <1>6, <1>7, <1>8 DEF s, Frames

(* What is left of the executing fiber's frames, under those a step pushes. *)
Base(k) ==
    /\ k \in Stack /\ Ordered(k) /\ Range(k) \subseteq Frames(exec)
    /\ \A g \in Range(k) : g.op # "dispatch" /\ ~IsJoinSleep(g)

LEMMA Bases ==
    ASSUME Inv, Fibers
    PROVE  /\ Base(<<>>)
           /\ stack[exec] # <<>> => Base(Rest)
           /\ CallbackCode => Base(stack[exec])
<1>1. Base(<<>>)
  BY ShortRanges, ShortOrders, ShortStacks DEF Base
<1>2. ASSUME stack[exec] # <<>> PROVE Base(Rest)
  BY <1>2, RestFrames DEF Base, Above
<1>3. ASSUME CallbackCode PROVE Base(stack[exec])
  <2>1. Top.op = "callback" /\ stack[exec] # <<>> /\ exec \in Thread
    BY <1>3, Fields DEF CallbackCode, At, Top
  <2>2. Top.op # "dispatch" /\ ~IsJoinSleep(Top)
    BY <2>1 DEF IsJoinSleep
  <2>3. \A g \in Frames(exec) : g.op # "dispatch" /\ ~IsJoinSleep(g)
    BY <2>1, <2>2, RestFrames DEF Above
  <2> QED
    BY <2>1, <2>3, OwnSets DEF Base, Fibers, Frames
<1> QED
  BY <1>1, <1>2, <1>3

(* The frames after a step that pushes fs on k.                             *)
LEMMA FramesPushed ==
    ASSUME Inv, NEW fs \in Stack, NEW k \in Stack, Become(fs, k), exec' = exec
    PROVE  /\ stack'[exec] = fs \o k
           /\ Frames(exec)' = Range(fs) \cup Range(k)
           /\ \A t \in Thread : t # exec => stack'[t] = stack[t] /\ Frames(t)' = Frames(t)
<1>1. stack' = [stack EXCEPT ![exec] = fs \o k] /\ stack \in [Thread -> Stack] /\ exec \in Thread
  BY DEF Become, Inv, TypeOK, HostTypes, Stack
<1>2. Range(fs \o k) = Range(fs) \cup Range(k)
  BY RangeConcatenation DEF Stack
<1> QED
  BY <1>1, <1>2 DEF Frames

LEMMA FibersPushed ==
    ASSUME Inv, Fibers, NEW fs \in Stack, NEW k, Base(k), Become(fs, k), exec' = exec,
           running' = running \/ \A g \in Range(k) : g.op # "idle",
           Ordered(fs), \A f \in Range(fs), g \in Range(k) : Above(f, g),
           \A f \in Range(fs) : Fits(exec, f)'
    PROVE  Fibers'
<1>1. /\ k \in Stack /\ Ordered(k) /\ Range(k) \subseteq Frames(exec) /\ exec \in Thread
      /\ \A g \in Range(k) : g.op # "dispatch" /\ ~IsJoinSleep(g)
  BY Fields DEF Base
<1>2. /\ stack'[exec] = fs \o k /\ Frames(exec)' = Range(fs) \cup Range(k)
      /\ \A t \in Thread : t # exec => stack'[t] = stack[t] /\ Frames(t)' = Frames(t)
  BY <1>1, FramesPushed
<1>3. Ordered(stack'[exec])
  BY <1>1, <1>2, PushedOrder
<1>4. \A g \in Range(k) : Fits(exec, g)'
  BY <1>1 DEF Fibers, Fits
<1>5. \A t \in Thread : t # exec => \A f \in Frames(t) : Fits(t, f)'
  BY DEF Fibers, Fits, Looping
<1>6. \A t \in Thread : Ordered(stack'[t]) /\ \A f \in Frames(t)' : Fits(t, f)'
  BY <1>2, <1>3, <1>4, <1>5 DEF Fibers
<1> QED
  BY <1>6 DEF Fibers

(* Frames pushed by the runtime's own calls.                                *)
LEMMA PlainPushed ==
    ASSUME Inv, Fibers, NEW fs \in Stack, NEW k, Base(k), Become(fs, k), exec' = exec,
           running' = running \/ \A g \in Range(k) : g.op # "idle",
           \A f \in Range(fs) : f.op \in Plain
    PROVE  Fibers'
<1>1. Ordered(fs)
  BY PlainOrder
<1>2. \A f \in Range(fs), g \in Range(k) : Above(f, g)
  BY DEF Base, Above, Plain, Served, OwnCalls, Looping
<1>3. \A f \in Range(fs) : Fits(exec, f)'
  BY DEF Fits, Plain, Served, Looping, IsJoinSleep
<1> QED
  BY <1>1, <1>2, <1>3, FibersPushed

(* A step of the runtime: whoever lost the processor stays on the way to    *)
(* SelectThread.                                                            *)
LEMMA HandsPushed ==
    ASSUME Inv, Hands, NEW fs \in Stack, NEW k \in Stack, Become(fs, k),
           UNCHANGED <<exec, running, current, disable>>, resched => resched',
           state'[exec] = "RUNNING" <=> state[exec] = "RUNNING",
           \A t \in Thread : state'[t] = "RUNNING" => state[t] = "RUNNING" /\ suspend'[t] = 0,
           state[exec] # "RUNNING" => \E f \in Range(fs) \cup Range(k) : Switches(f)',
           running = None => \E f \in Range(fs) \cup Range(k) : f.op \in Looping,
           disable = 0 \/ /\ \E f \in Range(k) : f.op = "callback"
                          /\ \A f \in Range(fs) : f.op \in Served
                          /\ Range(k) \subseteq Frames(exec)
    PROVE  Hands'
<1>1. Frames(exec)' = Range(fs) \cup Range(k)
  BY FramesPushed
<1>2. disable = 0 \/ /\ disable = 1 /\ state'[exec] = "RUNNING"
                     /\ \E f \in Range(fs) \cup Range(k) : f.op = "callback"
                     /\ \A f \in Range(fs) \cup Range(k) :
                           f.op \in Served \/ (f.op = "callback" /\ f.deferred)
  BY DEF Hands
<1> QED
  BY <1>1, <1>2 DEF Hands

(* What the frames k still show when the top frame is gone.                 *)
Way(k)  == state[exec] # "RUNNING" => \E f \in Range(k) : Switches(f)
Held(k) ==
    /\ running = None => \E f \in Range(k) : f.op \in Looping
    /\ disable = 0 \/ \E f \in Range(k) : f.op = "callback"

(* Guest code, or a call of its own, goes on with k.                        *)
Own(k) ==
    \/ GuestCode /\ k = <<>>
    \/ \E op \in OwnCalls : At(op) /\ k = Rest

(* Guest code and a thread's own calls execute as the running thread.       *)
LEMMA OwnContext ==
    ASSUME Inv, Fibers, Hands, NEW k, Own(k)
    PROVE  /\ exec \in Thread /\ exec # None /\ running = exec /\ current = exec
           /\ state[exec] = "RUNNING" /\ suspend[exec] = 0 /\ disable = 0
           /\ Base(k) /\ k \in Stack /\ \A g \in Range(k) : g.op \in OwnCalls
<1>1. exec \in Thread /\ exec # None
  BY Fields, NoneAssumption
<1>2. Base(k) /\ (\A g \in Range(k) : g.op \in OwnCalls)
      /\ \A f \in Frames(exec) : f.op \in OwnCalls
  <2>1. CASE GuestCode /\ k = <<>>
    <3>1. Frames(exec) = {}
      BY <2>1, ShortRanges DEF GuestCode, Frames
    <3> QED
      BY <2>1, <3>1, Bases, ShortRanges
  <2>2. CASE \E op \in OwnCalls : At(op) /\ k = Rest
    <3>1. Top.op \in OwnCalls /\ stack[exec] # <<>> /\ k = Rest
      BY <2>2 DEF At, Top
    <3>2. Base(k)
      BY <3>1, Bases
    <3>3. Frames(exec) = {Top} \cup Range(Rest) /\ \A g \in Range(Rest) : Above(Top, g)
      BY <3>1, RestFrames
    <3> QED
      BY <3>1, <3>2, <3>3 DEF Above
  <2> QED
    BY <2>1, <2>2 DEF Own
<1>3. \A f \in Frames(exec) : ~Switches(f) /\ f.op \notin Looping /\ f.op # "callback"
  BY <1>2 DEF Switches, OwnCalls, Looping
<1> QED
  BY <1>1, <1>2, <1>3 DEF Hands, Base

LEMMA OwnPushed ==
    ASSUME Inv, Fibers, Hands, NEW k, Own(k), NEW fs \in Stack, Become(fs, k),
           UNCHANGED <<exec, running, current, disable>>, Ordered(fs),
           \A f \in Range(fs) : f.op \notin Looping /\ Fits(exec, f)',
           \A t \in Thread : state'[t] = "RUNNING" => t = exec /\ suspend'[t] = 0,
           state'[exec] # "RUNNING" => \E f \in Range(fs) : Switches(f)'
    PROVE  Fibers' /\ Hands'
<1>1. /\ exec \in Thread /\ exec # None /\ running = exec /\ current = exec /\ disable = 0
      /\ Base(k) /\ k \in Stack /\ \A g \in Range(k) : g.op \in OwnCalls
  BY OwnContext
<1>2. \A f \in Range(fs), g \in Range(k) : Above(f, g)
  BY <1>1 DEF Base, Above, OwnCalls
<1>3. Fibers'
  BY <1>1, <1>2, FibersPushed
<1>4. Frames(exec)' = Range(fs) \cup Range(k)
  BY <1>1, FramesPushed
<1>5. Hands'
  BY <1>1, <1>4 DEF Hands
<1> QED
  BY <1>3, <1>5

LEMMA OwnPlain ==
    ASSUME Inv, Fibers, Hands, NEW k, Own(k), NEW fs \in Stack, Become(fs, k),
           UNCHANGED <<exec, running, current, disable>>,
           \A f \in Range(fs) : f.op \in Plain,
           \A t \in Thread : state'[t] = "RUNNING" => t = exec /\ suspend'[t] = 0,
           state'[exec] # "RUNNING" => \E f \in Range(fs) : Switches(f)'
    PROVE  Fibers' /\ Hands'
<1>1. Ordered(fs)
  BY PlainOrder
<1>2. \A f \in Range(fs) : f.op \notin Looping /\ Fits(exec, f)'
  BY DEF Fits, Plain, Served, Looping, IsJoinSleep
<1> QED
  BY <1>1, <1>2, OwnPushed

LEMMA WhatRemains ==
    ASSUME Inv, Fibers, Hands
    PROVE  /\ stack[exec] # <<>> /\ Top.op \in Plain \ {"callback"} =>
                 /\ Held(Rest) /\ (disable = 0 \/ Top.op \in Served)
                 /\ ~Switches(Top) => Way(Rest)
           /\ CallbackCode => Held(stack[exec]) /\ Way(stack[exec])
           /\ \A k : Own(k) => Held(k) /\ Way(k)
<1>1. ASSUME stack[exec] # <<>>, Top.op \in Plain \ {"callback"}
      PROVE  /\ Held(Rest) /\ (disable = 0 \/ Top.op \in Served)
             /\ ~Switches(Top) => Way(Rest)
  <2>1. Frames(exec) = {Top} \cup Range(Rest)
    BY <1>1, RestFrames
  <2>2. Top.op \notin Looping /\ Top.op # "callback"
    BY <1>1 DEF Plain, Served, Looping
  <2> QED
    BY <2>1, <2>2 DEF Hands, Held, Way
<1>2. CallbackCode => Held(stack[exec]) /\ Way(stack[exec])
  BY DEF Hands, Held, Way, Frames
<1>3. ASSUME NEW k, Own(k) PROVE Held(k) /\ Way(k)
  BY <1>3, OwnContext DEF Held, Way
<1> QED
  BY <1>1, <1>2, <1>3

LEMMA KernelPushed ==
    ASSUME Inv, Fibers, Hands, NEW fs \in Stack, NEW k, Base(k), Held(k), Become(fs, k),
           UNCHANGED <<exec, running, current, disable>>, resched => resched',
           state'[exec] = "RUNNING" <=> state[exec] = "RUNNING",
           \A t \in Thread : state'[t] = "RUNNING" => state[t] = "RUNNING" /\ suspend'[t] = 0,
           Way(k) \/ \E f \in Range(fs) : Switches(f)',
           \A f \in Range(fs) : f.op \in Plain /\ (disable = 0 \/ f.op \in Served)
    PROVE  Fibers' /\ Hands'
<1>1. Fibers'
  BY PlainPushed
<1>2. k \in Stack /\ Range(k) \subseteq Frames(exec)
  BY DEF Base
<1>3. state[exec] # "RUNNING" => \E f \in Range(fs) \cup Range(k) : Switches(f)'
  BY DEF Way, Switches
<1>4. Hands'
  BY <1>2, <1>3, HandsPushed DEF Held
<1> QED
  BY <1>1, <1>4

-----------------------------------------------------------------------------
(* Joiners.                                                                 *)

(* Nobody falls asleep in this step.                                        *)
NobodySleeps ==
    \A t \in Thread :
        state'[t] = "WAITING" => state[t] = "WAITING" /\ queueOf'[t] = queueOf[t]

(* Then no queue of joiners gets a first thread, and without joins none has *)
(* one.                                                                     *)
LEMMA JoinersOnly ==
    ASSUME Inv, Seated, NEW u \in Thread, queue[JoinQ(u)] # <<>>
    PROVE  /\ "join" \in Calls
           /\ \E t \in Thread : state[t] = "WAITING" /\ queueOf[t] = JoinQ(u)
<1>1. JoinQ(u) \in Queue /\ JoinQ(u) \in WaitQueue /\ queue[JoinQ(u)] \in Seq(Thread)
  BY QueueKinds, SimpleNow DEF Simple, Queues
<1>2. PICK t \in Thread : t \in Range(queue[JoinQ(u)])
  BY <1>1, InRange
<1>3. JoinQ(u) \in Holds(queue, t)
  BY <1>1, <1>2 DEF Holds
<1>4. state[t] = "WAITING" /\ queueOf[t] = JoinQ(u)
  BY <1>1, <1>3, SeatNow DEF Seat
<1> QED
  BY <1>4, SeatNow DEF Seat

LEMMA JoinersAsleep ==
    ASSUME Inv, Seated, Separate, NEW u \in Thread, NEW t \in Thread,
           state[t] = "WAITING", queueOf[t] = JoinQ(u)
    PROVE  queue[JoinQ(u)] # <<>>
<1>1. JoinQ(u) \in Holds(queue, t)
  BY SeatNow DEF Seat
<1> QED
  BY <1>1, ShortRanges DEF Holds

LEMMA JoinersNext ==
    ASSUME Inv', Seated', NEW u \in Thread, queue'[JoinQ(u)] # <<>>
    PROVE  /\ "join" \in Calls
           /\ \E t \in Thread : state'[t] = "WAITING" /\ queueOf'[t] = JoinQ(u)
<1>1. JoinQ(u) \in Queue /\ JoinQ(u) \in WaitQueue /\ queue'[JoinQ(u)] \in Seq(Thread)
  BY QueueKinds DEF Inv, TypeOK, QueueTypes
<1>2. PICK t \in Thread : t \in Range(queue'[JoinQ(u)])
  BY <1>1, InRange
<1>3. JoinQ(u) \in Holds(queue', t)
  BY <1>1, <1>2 DEF Holds
<1>4. Seat(Holds(queue', t), state'[t], suspend'[t], prio'[t], queueOf'[t])
  BY DEF Seated
<1>5. state'[t] = "WAITING" /\ queueOf'[t] = JoinQ(u)
  BY <1>1, <1>3, <1>4 DEF Seat
<1> QED
  BY <1>4, <1>5 DEF Seat

LEMMA NoFirstJoiner ==
    ASSUME Inv, Inv', Seated, Seated', Separate, NobodySleeps, NEW u \in Thread,
           queue'[JoinQ(u)] # <<>>
    PROVE  queue[JoinQ(u)] # <<>> /\ "join" \in Calls
BY JoinersNext, JoinersAsleep DEF NobodySleeps

(* Outside a release, a step in which nobody falls asleep and nobody ends   *)
(* leaves no joiner behind.                                                 *)
LEMMA JoinsKept ==
    ASSUME Inv, Inv', Seated, Seated', Joins, NobodySleeps,
           ~At("wakeup"), ~At("unlockAll"),
           \A t \in Thread : state'[t] \in Terminated => state[t] \in Terminated,
           "mutex" \notin Calls => \A t \in Thread : owned'[t] = {}
    PROVE  Joins'
<1>1. \A u \in Thread : ~Releasing(u)
  BY DEF Releasing
<1>2. ASSUME Separate, NEW u \in Thread, state'[u] \in Terminated, queue'[JoinQ(u)] # <<>>
      PROVE  FALSE
  BY <1>1, <1>2, NoFirstJoiner DEF Joins
<1> QED
  BY <1>2 DEF Joins

(* The steps that change frames and timers only.                            *)
LEMMA OnlyFrames ==
    ASSUME IInv, Inv', UNCHANGED <<threadVars, mutexVars, queue>>
    PROVE  /\ Seated'
           /\ ~At("wakeup") /\ ~At("unlockAll") => Joins'
<1>1. Seated'
  BY SeatsUntouched DEF IInv, threadVars
<1>2. ASSUME ~At("wakeup"), ~At("unlockAll") PROVE Joins'
  <2>1. NobodySleeps
    BY DEF NobodySleeps, threadVars
  <2>2. \A t \in Thread : state'[t] \in Terminated => state[t] \in Terminated
    BY DEF threadVars
  <2>3. "mutex" \notin Calls => \A t \in Thread : owned'[t] = {}
    BY DEF IInv, Joins, mutexVars
  <2> QED
    BY <1>1, <1>2, <2>1, <2>2, <2>3, JoinsKept DEF IInv
<1> QED
  BY <1>1, <1>2

-----------------------------------------------------------------------------
(* The invariant is kept by every operation.                                *)

Good == Seated /\ Fibers /\ Hands /\ Joins

LEMMA KernelFrames ==
    ASSUME IInv, Inv', NEW fs \in Stack, NEW k, Base(k), Held(k), Become(fs, k),
           UNCHANGED <<threadVars, mutexVars, queue, exec, running, current, disable>>,
           resched => resched', ~At("wakeup"), ~At("unlockAll"),
           Way(k) \/ \E f \in Range(fs) : Switches(f)',
           \A f \in Range(fs) : f.op \in Plain /\ (disable = 0 \/ f.op \in Served)
    PROVE  Good'
<1>1. Seated' /\ Joins'
  BY OnlyFrames
<1>2. \A t \in Thread : state'[t] = "RUNNING" => state[t] = "RUNNING" /\ suspend'[t] = 0
  BY DEF IInv, Hands, threadVars
<1>3. Fibers' /\ Hands'
  BY <1>2, KernelPushed DEF IInv, threadVars
<1> QED
  BY <1>1, <1>3 DEF Good

(* The call on top of the executing fiber's frames is one the runtime makes.*)
LEMMA KernelTop ==
    ASSUME IInv, NEW op \in Plain \ {"callback"}, At(op)
    PROVE  /\ Base(Rest) /\ Held(Rest) /\ Rest \in Stack /\ Top.op = op /\ Top \in Frame
           /\ disable = 0 \/ op \in Served
           /\ ~Switches(Top) => Way(Rest)
           /\ \A other : At(other) => other = op
<1>1. stack[exec] # <<>> /\ Top.op = op
  BY DEF At, Top
<1>2. Base(Rest)
  BY <1>1, Bases DEF IInv
<1>3. Held(Rest) /\ (disable = 0 \/ op \in Served) /\ (~Switches(Top) => Way(Rest))
  BY <1>1, WhatRemains DEF IInv
<1> QED
  BY <1>1, <1>2, <1>3, StackTop DEF Base, At, Top, IInv

LEMMA GoodFirstTimers ==
    ASSUME IInv, Inv', SelectThreadFirstTimers
    PROVE  Good'
<1>1. At("select") /\ "select" \in Plain \ {"callback"}
  BY DEF SelectThreadFirstTimers, Plain, Served
<1>2. /\ Base(Rest) /\ Held(Rest) /\ Top \in Frame /\ Top.op = "select"
      /\ ~At("wakeup") /\ ~At("unlockAll")
  BY <1>1, KernelTop
<1>3. PICK D \in SUBSET timer, scan \in BOOLEAN :
         Become(<<Timers(D, scan), Body(Top.force)>>, Rest)
  BY DEF SelectThreadFirstTimers
<1> DEFINE fs == <<Timers(D, scan), Body(Top.force)>>
<1>4. fs \in Stack
  <2>1. Top.force \in BOOLEAN /\ D \in SUBSET Thread
    BY <1>2, FrameFields, OwnSets DEF IInv
  <2> QED
    BY <2>1, FramesBuilt, ShortStacks
<1>5. Range(fs) = {Timers(D, scan), Body(Top.force)}
  BY ShortRanges
<1>6. \A f \in Range(fs) : f.op \in Plain /\ f.op \in Served
  BY <1>5 DEF Timers, Body, Plain, Served
<1>7. \E f \in Range(fs) : Switches(f)'
  BY <1>5 DEF Switches, Body
<1> HIDE DEF fs
<1> QED
  BY <1>2, <1>3, <1>4, <1>6, <1>7, KernelFrames DEF SelectThreadFirstTimers, schedVars, fs

(* The timers and the reconciler.                                           *)
LEMMA GoodTimers ==
    ASSUME IInv, Inv', TimerFires \/ TimersDone \/ Reconcile \/ HealSleeper
    PROVE  Good'
<1>1. \E op \in {"timers", "heal"} : At(op)
  BY DEF TimerFires, TimersDone, Reconcile, HealSleeper
<1>2. /\ Base(Rest) /\ Held(Rest) /\ Way(Rest) /\ Top \in Frame
      /\ ~At("wakeup") /\ ~At("unlockAll")
      /\ Top.op = "timers" \/ Top.op = "heal"
  BY <1>1, KernelTop DEF Plain, Served, Switches
<1>3. PICK fs \in Stack : Become(fs, Rest) /\ \A f \in Range(fs) : f.op \in Served
  <2>1. CASE TimerFires
    <3>1. PICK t \in Top.due :
             Become(IF state[t] # "RUNNING" /\ LooksParked(t)
                    THEN <<Resume(t), Timers(Top.due \ {t}, Top.scan)>>
                    ELSE <<Timers(Top.due \ {t}, Top.scan)>>, Rest)
      BY <2>1 DEF TimerFires
    <3>2. Top.op = "timers"
      BY <2>1 DEF TimerFires, At, Top
    <3>3. Top.due \in SUBSET Thread /\ Top.scan \in BOOLEAN
      BY <1>2, <3>2, FrameFields
    <3>4. Timers(Top.due \ {t}, Top.scan) \in Frame /\ Resume(t) \in Frame
      BY <3>3, FramesBuilt
    <3>5. /\ <<Resume(t), Timers(Top.due \ {t}, Top.scan)>> \in Stack
          /\ <<Timers(Top.due \ {t}, Top.scan)>> \in Stack
      BY <3>4, ShortStacks
    <3>6. Resume(t).op \in Served /\ Timers(Top.due \ {t}, Top.scan).op \in Served
      BY DEF Resume, Timers, Served
    <3> QED
      BY <3>1, <3>5, <3>6, ShortRanges
  <2>2. CASE TimersDone
    BY <2>2, ShortStacks, ShortRanges DEF TimersDone
  <2>3. CASE Reconcile
    <3>1. PICK H \in SUBSET (Stranded \cap seen) : Become(<<Heal(H)>>, Rest)
      BY <2>3 DEF Reconcile
    <3>2. H \in SUBSET Thread
      BY OwnSets DEF IInv
    <3>3. <<Heal(H)>> \in Stack /\ Heal(H).op \in Served
      BY <3>2, FramesBuilt, ShortStacks DEF Heal, Served
    <3> QED
      BY <3>1, <3>3, ShortRanges
  <2>4. CASE HealSleeper
    <3>1. Top.op = "heal"
      BY <2>4 DEF HealSleeper, At, Top
    <3>2. Top.lost \in SUBSET Thread
      BY <1>2, <3>1, FrameFields
    <3>3. CASE Top.lost = {}
      BY <2>4, <3>3, ShortStacks, ShortRanges DEF HealSleeper
    <3>4. CASE Top.lost # {}
      <4>1. PICK t \in Top.lost : Become(<<Resume(t), Heal(Top.lost \ {t})>>, Rest)
        BY <2>4, <3>4 DEF HealSleeper
      <4>2. <<Resume(t), Heal(Top.lost \ {t})>> \in Stack
        BY <3>2, FramesBuilt, ShortStacks
      <4>3. Resume(t).op \in Served /\ Heal(Top.lost \ {t}).op \in Served
        BY DEF Resume, Heal, Served
      <4> QED
        BY <4>1, <4>2, <4>3, ShortRanges
    <3> QED
      BY <3>3, <3>4
  <2> QED
    BY <2>1, <2>2, <2>3, <2>4
<1>4. UNCHANGED <<threadVars, mutexVars, queue, exec, running, current, disable, resched>>
  BY DEF TimerFires, TimersDone, Reconcile, HealSleeper, schedVars
<1>5. \A f \in Range(fs) : f.op \in Plain
  BY <1>3 DEF Plain
<1> QED
  BY <1>2, <1>3, <1>4, <1>5, KernelFrames

(* A pass of the idle loop.                                                 *)
LEMMA IdleFrames ==
    ASSUME IInv, Inv', At("idle"), NEW fs \in Stack, Become(fs, Rest), Ordered(fs),
           \A f \in Range(fs) : f.op \in Plain \cup Looping,
           \E f \in Range(fs) : f.op \in Looping,
           (\E f \in Range(fs) : f.op = "dispatch") => pending # {},
           UNCHANGED <<threadVars, mutexVars, schedVars, exec>>
    PROVE  Good'
<1>1. /\ exec \in Thread /\ stack[exec] # <<>> /\ Top.op = "idle"
      /\ ~At("wakeup") /\ ~At("unlockAll")
  BY Fields DEF IInv, At, Top
<1>2. running = None /\ exec # None
  BY <1>1, TopFits, NoneAssumption DEF Fits, IInv
<1>3. current = Idle /\ state[exec] # "RUNNING" /\ disable = 0
  BY <1>2 DEF IInv, Hands
<1>4. Base(Rest) /\ Rest \in Stack /\ \A g \in Range(Rest) : g.op # "idle"
  BY <1>1, Bases, RestFrames DEF IInv, Base, Above, Looping
<1>5. \A f \in Range(fs), g \in Range(Rest) : Above(f, g)
  BY <1>4 DEF Base, Above, Plain, Served, OwnCalls, Looping
<1>6. \A f \in Range(fs) : Fits(exec, f)'
  BY <1>2, <1>3 DEF Fits, Plain, Served, Looping, IsJoinSleep, threadVars, schedVars
<1>7. Fibers'
  BY <1>4, <1>5, <1>6, FibersPushed DEF IInv, schedVars
<1>8. Seated' /\ Joins'
  BY <1>1, OnlyFrames DEF schedVars
<1>9. Hands'
  <2>1. Frames(exec)' = Range(fs) \cup Range(Rest)
    BY <1>4, FramesPushed DEF IInv
  <2>2. \E f \in Range(fs) : Switches(f)'
    BY DEF Switches, Looping
  <2>3. Hands
    BY DEF IInv
  <2>4. UNCHANGED <<state, suspend, running, current, disable, exec>>
    BY DEF threadVars, schedVars
  <2> QED
    BY <1>2, <1>3, <2>1, <2>2, <2>3, <2>4 DEF Hands
<1> QED
  BY <1>7, <1>8, <1>9 DEF Good

LEMMA GoodIdle ==
    ASSUME IInv, Inv', IdlePass
    PROVE  Good'
<1>1. At("idle") /\ UNCHANGED <<threadVars, mutexVars, schedVars, exec>>
  BY DEF IdlePass, IdleTimers, IdleAudio, IdleRetrace, IdleNoRetrace, IdleCheck
<1>2. \A a \in {"timers", "audio", "retrace", "check"} :
         /\ IdleLoop(a) \in Frame /\ IdleLoop(a).op = "idle" /\ IdleLoop(a).op \in Looping
         /\ \A f : f.op \in Plain => Above(f, IdleLoop(a))
  BY FramesBuilt DEF IdleLoop, Looping, Above, Plain, Served, OwnCalls, IsJoinSleep
<1>3. ASSUME NEW a \in {"timers", "audio", "retrace", "check"}, Become(<<IdleLoop(a)>>, Rest)
      PROVE  Good'
  BY <1>1, <1>2, <1>3, ShortStacks, ShortRanges, ShortOrders, IdleFrames
<1>4. ASSUME NEW a \in {"timers", "audio", "retrace", "check"}, NEW f \in Frame,
             f.op \in Plain, Become(<<f, IdleLoop(a)>>, Rest)
      PROVE  Good'
  <2>1. <<f, IdleLoop(a)>> \in Stack /\ Range(<<f, IdleLoop(a)>>) = {f, IdleLoop(a)}
        /\ Ordered(<<f, IdleLoop(a)>>)
    BY <1>2, <1>4, ShortStacks, ShortRanges, ShortOrders
  <2> QED
    BY <1>1, <1>2, <1>4, <2>1, IdleFrames DEF Plain, Served
<1>5. CASE IdleTimers
  <2>1. PICK D \in SUBSET timer, scan \in BOOLEAN :
           Become(IF D = {} /\ ~scan THEN <<IdleLoop("audio")>>
                  ELSE <<Timers(D, scan), IdleLoop("audio")>>, Rest)
    BY <1>5 DEF IdleTimers
  <2>2. Timers(D, scan) \in Frame /\ Timers(D, scan).op \in Plain
    BY FramesBuilt, OwnSets DEF IInv, Timers, Plain, Served
  <2> QED
    BY <1>3, <1>4, <2>1, <2>2
<1>6. CASE IdleAudio
  <2>1. Callback(FALSE, FALSE) \in Frame /\ Callback(FALSE, FALSE).op \in Plain
    BY FramesBuilt DEF Callback, Plain
  <2> QED
    BY <1>3, <1>4, <1>6, <2>1 DEF IdleAudio
<1>7. CASE IdleRetrace
  <2> DEFINE f == Wakeup(EventQ(Retrace), FALSE)
             g == Callback(TRUE, FALSE)
             h == IdleLoop("check")
  <2>1. f \in Frame /\ f.op \in Plain /\ g \in Frame /\ g.op \in Plain /\ h \in Frame
        /\ h.op = "idle"
    BY <1>2, FramesBuilt, QueueNames, RetraceAssumption DEF Wakeup, Callback, Plain, Served
  <2>2. Above(f, g) /\ Above(f, h) /\ Above(g, h)
    BY <1>2, <2>1 DEF Above, Plain, Served, OwnCalls, Looping, IsJoinSleep
  <2>3. RetraceFrames \o <<h>> = <<f, g, h>>
    BY PairAndOne DEF RetraceFrames
  <2>4. /\ <<f, g, h>> \in Stack /\ Range(<<f, g, h>>) = {f, g, h} /\ Ordered(<<f, g, h>>)
    BY <2>1, <2>2, ShortStacks, ShortRanges, ShortOrders
  <2>5. Become(<<f, g, h>>, Rest)
    BY <1>7, <2>3 DEF IdleRetrace
  <2> HIDE DEF f, g, h
  <2> QED
    BY <1>1, <2>1, <2>4, <2>5, IdleFrames DEF Plain, Served, Looping
<1>8. CASE IdleNoRetrace
  BY <1>3, <1>8 DEF IdleNoRetrace
<1>9. CASE IdleCheck
  <2>1. CASE pending = {}
    BY <1>3, <1>9, <2>1 DEF IdleCheck
  <2>2. CASE pending # {}
    <3>1. Become(<<Dispatch>>, Rest) /\ <<Dispatch>> \in Stack /\ Dispatch.op \in Looping
      BY <1>9, <2>2, FramesBuilt, ShortStacks DEF IdleCheck, Dispatch, Looping
    <3> QED
      BY <1>1, <2>2, <3>1, ShortRanges, ShortOrders, IdleFrames
  <2> QED
    BY <2>1, <2>2
<1> QED
  BY <1>5, <1>6, <1>7, <1>8, <1>9 DEF IdlePass

(* SelectThread returns, or goes on to the choice of a thread or to the     *)
(* idle loop.                                                               *)
LEMMA GoodSelect ==
    ASSUME IInv, Inv', SelectThread
    PROVE  Good'
<1>1. /\ SelectBody(Top.force, Rest)
      /\ UNCHANGED <<suspend, prio, base, detached, wants, listed, mutexVars,
                     disable, timerVars, exec, inRetrace>>
  BY DEF SelectThread
<1>2. \E op \in {"select", "body"} : At(op)
  BY DEF SelectThread
<1>3. /\ Base(Rest) /\ Held(Rest) /\ ~At("wakeup") /\ ~At("unlockAll")
      /\ stack[exec] # <<>>
  BY <1>2, KernelTop DEF Plain, Served, At
<1>4. exec \in Thread /\ exec # None /\ Inv /\ Fibers /\ Hands /\ state \in [Thread -> State]
  BY Fields, NoneAssumption DEF IInv
<1>5. Seated'
  BY <1>1, SelectSeats DEF IInv
<1>6. CASE MayNotSwitch \/ KeepsRunning(Top.force)
  <2>1. /\ Become(<<>>, Rest)
        /\ UNCHANGED <<state, queueOf, queue, pending, resched, running, current>>
    BY <1>1, <1>6 DEF SelectBody
  <2>2. Way(Rest)
    <3>1. CASE disable >= 1
      BY <3>1 DEF IInv, Hands, Way
    <3>2. CASE running = None
      BY <1>3, <3>2 DEF Held, Way, Switches, Looping
    <3>3. CASE KeepsRunning(Top.force)
      BY <3>3, <1>4, Fields DEF KeepsRunning, Hands, Way
    <3>4. CASE MayNotSwitch /\ ~(disable >= 1) /\ running # None
      BY <1>4, <3>4, IdleAssumption DEF MayNotSwitch, Hands
    <3> QED
      BY <1>6, <3>1, <3>2, <3>3, <3>4
  <2>3. <<>> \in Stack /\ \A f \in Range(<<>>) : FALSE
    BY ShortStacks, ShortRanges
  <2> QED
    BY <1>1, <1>3, <2>1, <2>2, <2>3, KernelFrames DEF threadVars
<1>7. CASE ~MayNotSwitch /\ ~KeepsRunning(Top.force)
  <2>1. running = exec /\ current = exec /\ disable = 0
    BY <1>4, <1>7 DEF MayNotSwitch, Hands
  <2>2. \A g \in Range(Rest) : g.op # "idle"
    BY <1>3, <1>4, <2>1 DEF Base, Fibers, Fits
  <2>3. PICK f \in {Dispatch, IdleLoop("timers")} :
           /\ Become(<<f>>, Rest)
           /\ f = Dispatch => pending' # {} /\ UNCHANGED <<running, current>>
           /\ f = IdleLoop("timers") => running' = None /\ current' = Idle
           /\ state'[exec] # "RUNNING"
           /\ UNCHANGED state \/ state' = [state EXCEPT ![exec] = "READY"]
           /\ \A t \in Thread : t # exec => queueOf'[t] = queueOf[t]
           /\ UNCHANGED state => UNCHANGED queueOf
    <3>1. CASE state[exec] = "RUNNING"
      <4>1. /\ state' = [state EXCEPT ![exec] = "READY"]
            /\ queueOf' = [queueOf EXCEPT ![exec] = RunQ(prio[exec])]
            /\ pending' = PendingWith(prio[exec])
            /\ Become(<<Dispatch>>, Rest)
            /\ UNCHANGED <<running, current>>
        BY <1>1, <1>4, <1>7, <2>1, <3>1 DEF SelectBody
      <4>2. Dispatch # IdleLoop("timers") /\ pending' # {}
        BY <4>1 DEF Dispatch, IdleLoop, PendingWith
      <4>3. \A t \in Thread : t # exec => queueOf'[t] = queueOf[t]
        BY <1>4, <4>1, Fields
      <4>4. state'[exec] = "READY"
        BY <1>4, <4>1
      <4>5. state' # state
        BY <3>1, <4>4
      <4> QED
        BY <4>1, <4>2, <4>3, <4>4, <4>5
    <3>2. CASE state[exec] # "RUNNING" /\ pending # {}
      BY <1>1, <1>7, <2>1, <3>2 DEF SelectBody, Dispatch, IdleLoop
    <3>3. CASE state[exec] # "RUNNING" /\ pending = {}
      BY <1>1, <1>7, <2>1, <3>3 DEF SelectBody, Dispatch, IdleLoop
    <3> QED
      BY <3>1, <3>2, <3>3
  <2>4. f \in Frame /\ f.op \in Looping /\ (f.op = "dispatch" => f = Dispatch)
        /\ (f.op = "idle" => f = IdleLoop("timers"))
    BY FramesBuilt DEF Dispatch, IdleLoop, Looping
  <2>5. <<f>> \in Stack /\ Range(<<f>>) = {f} /\ Ordered(<<f>>)
    BY <2>4, ShortStacks, ShortRanges, ShortOrders
  <2>6. \A g \in Range(Rest) : Above(f, g)
    BY <1>3, <2>2, <2>4 DEF Base, Above, Looping, OwnCalls
  <2>7. Fits(exec, f)'
    BY <1>1, <2>3, <2>4 DEF Fits, Looping, IsJoinSleep
  <2>8. Fibers'
    BY <1>1, <1>3, <1>4, <2>2, <2>3, <2>5, <2>6, <2>7, FibersPushed
  <2>9. Hands'
    <3>1. f \in Frames(exec)'
      BY <1>3, <1>1, <1>4, <2>3, <2>5, FramesPushed DEF Base
    <3>2. Switches(f)'
      BY <2>4 DEF Switches, Looping
    <3>3. \A t \in Thread : state'[t] = "RUNNING" => t = exec /\ suspend'[t] = 0
      BY <1>1, <1>4, <2>3 DEF Hands
    <3> QED
      BY <1>1, <2>1, <2>3, <2>4, <3>1, <3>2, <3>3 DEF Hands, Looping
  <2>10. Joins'
    <3>1. NobodySleeps
      BY <1>4, <2>3 DEF NobodySleeps
    <3>2. \A t \in Thread : state'[t] \in Terminated => state[t] \in Terminated
      BY <1>4, <2>3 DEF Terminated
    <3>3. "mutex" \notin Calls => \A t \in Thread : owned'[t] = {}
      BY <1>1 DEF IInv, Joins, mutexVars
    <3> QED
      BY <1>3, <1>5, <3>1, <3>2, <3>3, JoinsKept DEF IInv
  <2> QED
    BY <1>5, <2>8, <2>9, <2>10 DEF Good
<1> QED
  BY <1>6, <1>7

(* The chosen thread's fiber takes over.                                    *)
LEMMA GoodDispatch ==
    ASSUME IInv, Inv', DispatchThread
    PROVE  Good'
<1>1. At("dispatch") /\ stack[exec] # <<>> /\ Top.op = "dispatch"
  BY DEF DispatchThread, At, Top
<1>2. /\ exec \in Thread /\ Inv /\ Seated /\ Fibers /\ Hands /\ Joins
      /\ state \in [Thread -> State]
  BY Fields DEF IInv
<1>3. state[exec] # "RUNNING"
  BY <1>1, <1>2, TopFits DEF Fits
<1>4. Seated'
  BY <1>2, DispatchSeats
<1>5. PICK t \in Thread :
         /\ suspend[t] = 0 /\ state' = [state EXCEPT ![t] = "RUNNING"]
         /\ queueOf' = [queueOf EXCEPT ![t] = None]
         /\ running' = t /\ current' = t /\ exec' = t
         /\ Become(<<>>, Rest)
         /\ UNCHANGED <<suspend, prio, disable>>
  BY <1>2, DispatchChooses
<1>6. /\ Rest \in Stack /\ Ordered(Rest) /\ Frames(exec) = {Top} \cup Range(Rest)
      /\ \A g \in Range(Rest) : g.op \notin Looping /\ ~IsJoinSleep(g)
  BY <1>1, <1>2, RestFrames DEF Above, Looping
<1>7. Fibers'
  <2>1. stack \in [Thread -> Stack]
    BY <1>2 DEF Inv, TypeOK, HostTypes, Stack
  <2>2. <<>> \o Rest = Rest
    BY <1>6, ConcatEmptySeq DEF Stack
  <2>3. stack' = [stack EXCEPT ![exec] = Rest]
    BY <1>5, <2>2 DEF Become
  <2>4. ASSUME NEW u \in Thread, u # exec
        PROVE  stack'[u] = stack[u] /\ Ordered(stack[u])
               /\ \A f \in Frames(u) : Fits(u, f) /\ f.op \notin Looping /\ ~IsJoinSleep(f)
    BY <1>2, <2>1, <2>3, <2>4 DEF Fibers, Fits
  <2>5. stack'[exec] = Rest
    BY <1>2, <2>1, <2>3
  <2>6. \A u \in Thread : Ordered(stack'[u])
    BY <1>6, <2>4, <2>5
  <2>7. \A u \in Thread : \A f \in Frames(u)' :
           Fits(u, f) /\ f.op \notin Looping /\ ~IsJoinSleep(f)
    BY <1>2, <1>6, <2>4, <2>5 DEF Frames, Fibers
  <2>8. \A u \in Thread : \A f \in Frames(u)' : Fits(u, f)'
    BY <2>7 DEF Fits, Looping, IsJoinSleep
  <2> QED
    BY <2>6, <2>8 DEF Fibers
<1>8. Hands'
  <2>1. \A u \in Thread : state'[u] = "RUNNING" => u = t
    BY <1>2, <1>3, <1>5 DEF Hands
  <2>2. disable = 0
    BY <1>2, <1>3 DEF Hands
  <2>3. t # None /\ state'[t] = "RUNNING"
    BY <1>2, <1>5, NoneAssumption
  <2> QED
    BY <1>5, <2>1, <2>2, <2>3 DEF Hands
<1>9. Joins'
  <2>1. NobodySleeps
    BY <1>2, <1>5, Fields DEF NobodySleeps
  <2>2. \A u \in Thread : state'[u] \in Terminated => state[u] \in Terminated
    BY <1>2, <1>5 DEF Terminated
  <2>3. "mutex" \notin Calls => \A u \in Thread : owned'[u] = {}
    BY <1>2 DEF DispatchThread, Joins, mutexVars
  <2>4. ~At("wakeup") /\ ~At("unlockAll")
    BY <1>1 DEF At, Top
  <2> QED
    BY <1>2, <1>4, <2>1, <2>2, <2>3, <2>4, JoinsKept
<1> QED
  BY <1>4, <1>7, <1>8, <1>9 DEF Good

(* The frames on top after a step has pushed some.                          *)
LEMMA PushedTop ==
    ASSUME Inv, NEW fs \in Stack, fs # <<>>, NEW k \in Stack, Become(fs, k), exec' = exec
    PROVE  /\ stack'[exec] # <<>> /\ Head(stack'[exec]) = fs[1]
           /\ Len(fs) # 1 => /\ Tail(stack'[exec]) # <<>>
                             /\ Head(Tail(stack'[exec])) = fs[2]
<1>1. stack'[exec] = fs \o k
  BY FramesPushed
<1>2. PICK m \in Nat \ {0}, n \in Nat : m = Len(fs) /\ n = Len(k)
  BY LenProperties, EmptySeq DEF Stack
<1>3. /\ fs \o k \in Stack /\ Len(fs \o k) = m + n
      /\ \A i \in 1 .. m + n : (fs \o k)[i] = IF i <= m THEN fs[i] ELSE k[i - m]
  BY <1>2, ConcatProperties DEF Stack
<1>4. 1 \in 1 .. m + n /\ 1 <= m /\ (m # 1 => 2 \in 1 .. m + n /\ 2 <= m /\ m + n # 1)
      /\ m + n # 0
  OBVIOUS
<1>5. (fs \o k)[1] = fs[1] /\ (m # 1 => (fs \o k)[2] = fs[2])
  BY <1>3, <1>4
<1>6. fs \o k # <<>>
  BY <1>3, <1>4, EmptySeq
<1>7. /\ Head(fs \o k) = (fs \o k)[1]
      /\ m + n # 1 => /\ Tail(fs \o k) # <<>> /\ Head(Tail(fs \o k)) = (fs \o k)[2]
  BY <1>3, <1>6, NewTop
<1> QED
  BY <1>1, <1>2, <1>4, <1>5, <1>6, <1>7

(* A step that leaves the frames alone pushes the top one back.             *)
LEMMA SameFrames ==
    ASSUME Inv, stack[exec] # <<>>, UNCHANGED stack
    PROVE  Become(<<Top>>, Rest)
<1> DEFINE s == stack[exec]
<1>1. s \in Stack /\ stack \in [Thread -> Stack] /\ exec \in Thread
  BY OwnSets DEF Inv, TypeOK, HostTypes, Stack
<1>2. PICK n \in Nat \ {0} : n = Len(s)
  BY <1>1, LenProperties, EmptySeq DEF Stack
<1>3. /\ Top = s[1] /\ Top \in Frame /\ Rest \in Stack /\ Len(Rest) = n - 1
      /\ \A i \in 1 .. n - 1 : Rest[i] = s[i + 1]
  BY <1>1, <1>2, HeadTailProperties DEF Stack, Top, Rest
<1>4. <<Top>> \in Stack /\ Len(<<Top>>) = 1 /\ <<Top>>[1] = Top
  BY <1>3, ShortStacks
<1> HIDE DEF s
<1>5. /\ <<Top>> \o Rest \in Stack /\ Len(<<Top>> \o Rest) = n
      /\ \A i \in 1 .. n : (<<Top>> \o Rest)[i] = IF i <= 1 THEN <<Top>>[i] ELSE Rest[i - 1]
  <2>1. 1 + (n - 1) = n
    OBVIOUS
  <2> QED
    BY <1>3, <1>4, <2>1, ConcatProperties DEF Stack
<1>6. \A i \in 1 .. n : (<<Top>> \o Rest)[i] = s[i]
  <2>1. ASSUME NEW i \in 1 .. n, ~(i <= 1) PROVE Rest[i - 1] = s[i]
    <3>1. i - 1 \in 1 .. n - 1 /\ (i - 1) + 1 = i
      BY <2>1
    <3> QED
      BY <1>3, <3>1
  <2>2. ASSUME NEW i \in 1 .. n, i <= 1 PROVE i = 1
    BY <2>2
  <2> QED
    BY <1>3, <1>4, <1>5, <2>1, <2>2
<1>7. <<Top>> \o Rest = s
  BY <1>1, <1>2, <1>5, <1>6, SeqEqual DEF Stack
<1> QED
  BY <1>1, <1>7 DEF Become, s

(* Waking the head of a queue, or finding the queue empty.                  *)
LEMMA GoodWakeHead ==
    ASSUME IInv, Inv', WakeHead
    PROVE  Good'
<1>1. At("wakeup") /\ stack[exec] # <<>> /\ Top.op = "wakeup"
  BY DEF WakeHead, At, Top
<1>2. /\ exec \in Thread /\ Inv /\ Seated /\ Fibers /\ Hands /\ Joins
      /\ state \in [Thread -> State]
  BY Fields DEF IInv
<1>3. /\ Base(Rest) /\ Held(Rest) /\ Way(Rest) /\ Rest \in Stack /\ Top \in Frame
  BY <1>1, KernelTop DEF Plain, Served, Switches
<1>4. Seated'
  BY <1>2, WakeSeats
<1>5. PICK t \in Thread :
         /\ state[t] = "WAITING" /\ state' = [state EXCEPT ![t] = "READY"]
         /\ UNCHANGED <<suspend, prio>>
         /\ \/ resched' = TRUE /\ Become(<<Wakeup(Top.q, TRUE)>>, Rest)
               /\ \A u \in Thread : u # t => queueOf'[u] = queueOf[u]
            \/ UNCHANGED <<resched, stack, queueOf>>
  <2> DEFINE t == Head(queue[Top.q])
  <2>1. /\ t \in Thread /\ state[t] = "WAITING" /\ state' = [state EXCEPT ![t] = "READY"]
        /\ UNCHANGED <<suspend, prio>>
        /\ \/ /\ resched' = TRUE /\ Become(<<Wakeup(Top.q, TRUE)>>, Rest)
              /\ queueOf' = [queueOf EXCEPT ![t] = RunQ(prio[t])]
           \/ UNCHANGED <<resched, stack, queueOf>>
    BY <1>2, WakeMoves
  <2> HIDE DEF t
  <2>2. queueOf' = [queueOf EXCEPT ![t] = RunQ(prio[t])] =>
           \A u \in Thread : u # t => queueOf'[u] = queueOf[u]
    BY <1>2, Fields
  <2> QED
    BY <2>1, <2>2
<1>6. Top.q \in WaitQueue /\ Wakeup(Top.q, TRUE) \in Frame
  BY <1>1, <1>3, FrameFields, FramesBuilt
<1>7. PICK f \in Frame : Become(<<f>>, Rest) /\ f.op = "wakeup" /\ f.q = Top.q
  BY <1>1, <1>2, <1>3, <1>5, <1>6, SameFrames DEF Wakeup
<1>8. <<f>> \in Stack /\ Range(<<f>>) = {f} /\ <<f>>[1] = f /\ <<f>> # <<>>
  BY ShortStacks, ShortRanges
<1>9. UNCHANGED <<exec, running, current, disable, mutexVars>>
  BY DEF WakeHead
<1>10. Fibers' /\ Hands'
  <2>1. state'[exec] = "RUNNING" <=> state[exec] = "RUNNING"
    BY <1>2, <1>5
  <2>2. \A u \in Thread : state'[u] = "RUNNING" => state[u] = "RUNNING" /\ suspend'[u] = 0
    BY <1>2, <1>5 DEF Hands
  <2>3. resched => resched'
    BY <1>5
  <2> QED
    BY <1>2, <1>3, <1>7, <1>8, <1>9, <2>1, <2>2, <2>3, KernelPushed DEF Plain, Served
<1>11. Joins'
  <2>1. NobodySleeps
    BY <1>2, <1>5 DEF NobodySleeps
  <2>2. \A u \in Thread : state'[u] \in Terminated => state[u] \in Terminated
    BY <1>2, <1>5 DEF Terminated
  <2>3. At("wakeup")' /\ Top' = f
    BY <1>2, <1>3, <1>7, <1>8, <1>9, PushedTop DEF At, Top
  <2>4. ASSUME Separate, NEW u \in Thread, state'[u] \in Terminated, queue'[JoinQ(u)] # <<>>
        PROVE  Releasing(u)'
    <3>1. Releasing(u)
      BY <1>2, <1>4, <2>1, <2>2, <2>4, NoFirstJoiner DEF Joins
    <3>2. Top.q = JoinQ(u)
      BY <1>1, <3>1 DEF Releasing, At, Top
    <3> QED
      BY <1>7, <2>3, <3>2 DEF Releasing
  <2>5. "mutex" \notin Calls => \A u \in Thread : owned'[u] = {}
    BY <1>2, <1>9 DEF Joins, mutexVars
  <2> QED
    BY <2>4, <2>5 DEF Joins
<1> QED
  BY <1>4, <1>10, <1>11 DEF Good

LEMMA GoodWakeDone ==
    ASSUME IInv, Inv', WakeDone
    PROVE  Good'
<1>1. At("wakeup") /\ stack[exec] # <<>> /\ Top.op = "wakeup" /\ queue[Top.q] = <<>>
  BY DEF WakeDone, At, Top
<1>2. /\ exec \in Thread /\ Inv /\ Seated /\ Fibers /\ Hands /\ Joins
  BY Fields DEF IInv
<1>3. /\ Base(Rest) /\ Held(Rest) /\ Way(Rest) /\ Rest \in Stack
  BY <1>1, KernelTop DEF Plain, Served, Switches
<1>4. UNCHANGED <<threadVars, mutexVars, schedVars, timerVars, exec, inRetrace>>
  BY DEF WakeDone
<1>5. PICK fs \in {<<>>, <<Select(FALSE)>>} : Become(fs, Rest)
  BY DEF WakeDone
<1>6. fs \in Stack /\ \A f \in Range(fs) : f.op \in Served /\ f.op \in Plain
  <2>1. Select(FALSE) \in Frame /\ Select(FALSE).op \in Served /\ Select(FALSE).op \in Plain
    BY FramesBuilt DEF Select, Served, Plain
  <2>2. Range(<<>>) = {} /\ Range(<<Select(FALSE)>>) = {Select(FALSE)}
    BY ShortRanges
  <2>3. <<>> \in Stack /\ <<Select(FALSE)>> \in Stack
    BY <2>1, ShortStacks
  <2>4. CASE fs = <<>>
    BY <2>2, <2>3, <2>4
  <2>5. CASE fs = <<Select(FALSE)>>
    BY <2>1, <2>2, <2>3, <2>5
  <2> QED
    BY <2>4, <2>5
<1>7. Fibers' /\ Hands'
  <2>1. \A u \in Thread : state'[u] = "RUNNING" => state[u] = "RUNNING" /\ suspend'[u] = 0
    BY <1>2, <1>4 DEF Hands, threadVars
  <2> QED
    BY <1>2, <1>3, <1>4, <1>5, <1>6, <2>1, KernelPushed DEF threadVars, schedVars
<1>8. Seated'
  BY <1>4, OnlyFrames DEF schedVars
<1>9. Joins'
  <2>1. \A u \in Thread : Releasing(u) => queue[JoinQ(u)] = <<>>
    BY <1>1 DEF Releasing, At, Top
  <2> QED
    BY <1>2, <1>4, <2>1 DEF Joins, threadVars, mutexVars, schedVars
<1> QED
  BY <1>7, <1>8, <1>9 DEF Good

(* A thread that ends frees its mutexes before it wakes its joiners.        *)
LEMMA GoodUnlockAll ==
    ASSUME IInv, Inv', UnlockAllMutexes
    PROVE  Good'
<1>1. At("unlockAll") /\ stack[exec] # <<>> /\ Top.op = "unlockAll"
  BY DEF UnlockAllMutexes, At, Top
<1>2. /\ exec \in Thread /\ Inv /\ Seated /\ Fibers /\ Hands /\ Joins
  BY Fields DEF IInv
<1>3. /\ Base(Rest) /\ Held(Rest) /\ Way(Rest) /\ Rest \in Stack /\ Top \in Frame
      /\ disable = 0
  BY <1>1, KernelTop DEF Plain, Served, Switches
<1>4. UNCHANGED <<threadVars, schedVars, timerVars, exec, inRetrace>>
  BY DEF UnlockAllMutexes
<1>5. Top.t \in Thread
  BY <1>1, <1>3, FrameFields
<1>6. ASSUME NEW fs \in Stack, Become(fs, Rest), \A f \in Range(fs) : f.op \in Plain
      PROVE  Fibers' /\ Hands'
  <2>1. \A u \in Thread : state'[u] = "RUNNING" => state[u] = "RUNNING" /\ suspend'[u] = 0
    BY <1>2, <1>4 DEF Hands, threadVars
  <2> QED
    BY <1>2, <1>3, <1>4, <1>6, <2>1, KernelPushed DEF threadVars, schedVars
<1>7. Seated'
  BY <1>2, <1>4, SeatsUntouched DEF schedVars, threadVars
<1>8. CASE owned[Top.t] = {}
  <2>1. Become(<<>>, Rest) /\ UNCHANGED mutexVars
    BY <1>8 DEF UnlockAllMutexes
  <2>2. Fibers' /\ Hands'
    BY <1>6, <2>1, ShortStacks, ShortRanges
  <2>3. stack'[exec] = Rest
    BY <1>2, <1>3, <1>4, <2>1, FramesPushed, ShortStacks, ConcatEmptySeq DEF Stack
  <2>4. ASSUME NEW u \in Thread, Releasing(u) PROVE Releasing(u)'
    <3>1. Rest # <<>> /\ Head(Rest).op = "wakeup" /\ Head(Rest).q = JoinQ(u)
      BY <1>1, <2>4 DEF Releasing, At, Top
    <3> QED
      BY <1>4, <2>3, <3>1 DEF Releasing, At, Top
  <2>5. Joins'
    BY <1>2, <1>4, <2>1, <2>4 DEF Joins, threadVars, mutexVars, schedVars
  <2> QED
    BY <1>7, <2>2, <2>5 DEF Good
<1>9. CASE owned[Top.t] # {}
  <2>1. PICK m \in owned[Top.t] : Become(WakeWaiters(m) \o <<Top>>, Rest)
    BY <1>9 DEF UnlockAllMutexes
  <2>2. m \in Mutex
    BY <1>2, <1>5, OwnSets
  <2> DEFINE w == Wakeup(MutexQ(m), FALSE)
  <2>3. w \in Frame /\ w.op = "wakeup"
    BY <2>2, FramesBuilt, QueueNames DEF Wakeup
  <2>4. WakeWaiters(m) \o <<Top>> = <<w, Top>>
    BY PairAndOne DEF WakeWaiters
  <2> HIDE DEF w
  <2>5. <<w, Top>> \in Stack /\ Range(<<w, Top>>) = {w, Top}
    BY <1>3, <2>3, ShortStacks, ShortRanges
  <2>6. Fibers' /\ Hands'
    BY <1>1, <1>6, <2>1, <2>3, <2>4, <2>5 DEF Plain, Served
  <2>7. "mutex" \in Calls
    BY <1>2, <1>5, <1>9 DEF Joins
  <2>8. NobodySleeps
    BY <1>4 DEF NobodySleeps, threadVars
  <2>9. Joins'
    BY <1>2, <1>7, <2>7, <2>8, NoFirstJoiner DEF Joins, Separate
  <2> QED
    BY <1>7, <2>6, <2>9 DEF Good
<1> QED
  BY <1>8, <1>9

(* The ends of calls that go on to SelectThread.                            *)
LEMMA GoodReschedule ==
    ASSUME IInv, Inv', Reschedule \/ ExitReschedules
    PROVE  Good'
<1>1. CASE Reschedule
  <2>1. At("resched") /\ UNCHANGED <<threadVars, mutexVars, schedVars, exec>>
    BY <1>1 DEF Reschedule
  <2>2. /\ Base(Rest) /\ Held(Rest) /\ Rest \in Stack /\ ~At("wakeup") /\ ~At("unlockAll")
        /\ ~resched => Way(Rest)
    BY <2>1, KernelTop DEF Plain, Served, Switches
  <2>3. CASE resched
    <3>1. Become(<<Select(FALSE)>>, Rest) /\ <<Select(FALSE)>> \in Stack
      BY <1>1, <2>3, FramesBuilt, ShortStacks DEF Reschedule
    <3> QED
      BY <2>1, <2>2, <3>1, ShortRanges, KernelFrames
      DEF schedVars, Select, Switches, Plain, Served
  <2>4. CASE ~resched
    <3>1. Become(<<>>, Rest) /\ <<>> \in Stack
      BY <1>1, <2>4, ShortStacks DEF Reschedule
    <3> QED
      BY <2>1, <2>2, <2>4, <3>1, ShortRanges, KernelFrames DEF schedVars
  <2> QED
    BY <2>3, <2>4
<1>2. CASE ExitReschedules
  <2>1. /\ At("exited")
        /\ UNCHANGED <<threadVars, mutexVars, queue, exec, running, current, disable>>
        /\ resched' = TRUE /\ Become(<<Select(FALSE)>>, Rest)
    BY <1>2 DEF ExitReschedules
  <2>2. /\ Base(Rest) /\ Held(Rest) /\ Rest \in Stack /\ ~At("wakeup") /\ ~At("unlockAll")
    BY <2>1, KernelTop DEF Plain, Served
  <2>3. <<Select(FALSE)>> \in Stack /\ Range(<<Select(FALSE)>>) = {Select(FALSE)}
    BY FramesBuilt, ShortStacks, ShortRanges
  <2> QED
    BY <2>1, <2>2, <2>3, KernelFrames DEF Select, Switches, Plain, Served
<1> QED
  BY <1>1, <1>2

(* OSResumeThread, called by the guest, by a callback or by the runtime.    *)
LEMMA ResumesGood ==
    ASSUME IInv, Inv', NEW t \in Thread, NEW k, Base(k), Held(k), Way(k),
           ~At("wakeup"), ~At("unlockAll"), OSResumeThread(t, k)
    PROVE  Good'
<1>1. /\ exec \in Thread /\ Inv /\ Seated /\ Fibers /\ Hands /\ Joins
      /\ state \in [Thread -> State] /\ suspend \in [Thread -> Nat]
      /\ queueOf \in [Thread -> Queue \cup {None}]
  BY Fields DEF IInv
<1>2. Seated'
  BY <1>1, ResumeSeats
<1>3. UNCHANGED <<mutexVars, exec, running, current, disable>>
  BY DEF OSResumeThread
<1>4. /\ \A u \in Thread : state'[u] = state[u]
      /\ \A u \in Thread : state'[u] = "WAITING" => queueOf'[u] = queueOf[u]
      /\ resched => resched'
  <2>1. CASE UNCHANGED <<state, queueOf, resched>>
    BY <2>1
  <2>2. CASE /\ suspend[t] = 1 /\ state[t] \in {"READY", "RUNNING"}
             /\ MadeReady(t, EffectivePriority(t, owned[t]))
    <3>1. state[t] = "READY"
      BY <1>1, <2>2 DEF Hands
    <3> QED
      BY <1>1, <2>2, <3>1 DEF MadeReady
  <2> QED
    BY <2>1, <2>2 DEF OSResumeThread
<1>5. \A u \in Thread : suspend[u] = 0 => suspend'[u] = 0
  BY <1>1 DEF OSResumeThread, Resumed
<1>6. PICK fs \in Stack : Become(fs, k) /\ \A f \in Range(fs) : f.op \in Served
  <2> DEFINE f == Propagate(OwnerOf(wants[t]))
  <2>1. OwnerOf(wants[t]) \in Thread \cup {None}
    BY <1>1 DEF OwnerOf, Inv, TypeOK, ThreadTypes, MutexTypes
  <2>2. f \in Frame /\ f.op \in Served /\ Resched \in Frame /\ Resched.op \in Served
    BY <2>1, FramesBuilt DEF Propagate, Resched, Served
  <2>3. Become(<<>>, k) \/ Become(<<Resched>>, k) \/ Become(<<f, Resched>>, k)
    BY DEF OSResumeThread
  <2> HIDE DEF f
  <2>4. <<>> \in Stack /\ <<Resched>> \in Stack /\ <<f, Resched>> \in Stack
    BY <2>2, ShortStacks
  <2>5. /\ Range(<<>>) = {} /\ Range(<<Resched>>) = {Resched}
        /\ Range(<<f, Resched>>) = {f, Resched}
    BY ShortRanges
  <2>6. CASE Become(<<>>, k)
    BY <2>4, <2>5, <2>6
  <2>7. CASE Become(<<Resched>>, k)
    BY <2>2, <2>4, <2>5, <2>7
  <2>8. CASE Become(<<f, Resched>>, k)
    BY <2>2, <2>4, <2>5, <2>8
  <2> QED
    BY <2>3, <2>6, <2>7, <2>8
<1>7. Fibers' /\ Hands'
  <2>1. state'[exec] = "RUNNING" <=> state[exec] = "RUNNING"
    BY <1>1, <1>4
  <2>2. \A u \in Thread : state'[u] = "RUNNING" => state[u] = "RUNNING" /\ suspend'[u] = 0
    BY <1>1, <1>4, <1>5 DEF Hands
  <2>3. \A f \in Range(fs) : f.op \in Plain
    BY <1>6 DEF Plain
  <2> QED
    BY <1>1, <1>3, <1>4, <1>6, <2>1, <2>2, <2>3, KernelPushed
<1>8. Joins'
  <2>1. NobodySleeps
    BY <1>4 DEF NobodySleeps
  <2>2. \A u \in Thread : state'[u] \in Terminated => state[u] \in Terminated
    BY <1>4
  <2>3. "mutex" \notin Calls => \A u \in Thread : owned'[u] = {}
    BY <1>1, <1>3 DEF Joins, mutexVars
  <2> QED
    BY <1>1, <1>2, <2>1, <2>2, <2>3, JoinsKept
<1> QED
  BY <1>2, <1>7, <1>8 DEF Good

LEMMA GoodResume ==
    ASSUME IInv, Inv', ResumeCall \/ CallbackResumes \/ GuestResumes
    PROVE  Good'
<1>1. CASE ResumeCall
  <2>1. At("resume") /\ OSResumeThread(Top.t, Rest)
    BY <1>1 DEF ResumeCall
  <2>2. /\ Base(Rest) /\ Held(Rest) /\ Way(Rest) /\ Top \in Frame /\ Top.op = "resume"
        /\ ~At("wakeup") /\ ~At("unlockAll")
    BY <2>1, KernelTop DEF Plain, Served, Switches
  <2>3. Top.t \in Thread
    BY <2>2, FrameFields
  <2> QED
    BY <2>1, <2>2, <2>3, ResumesGood
<1>2. CASE CallbackResumes
  <2>1. PICK t \in Alive : OSResumeThread(t, stack[exec])
    BY <1>2 DEF CallbackResumes
  <2>2. CallbackCode /\ t \in Thread
    BY <1>2 DEF CallbackResumes, Alive
  <2>3. /\ Base(stack[exec]) /\ Held(stack[exec]) /\ Way(stack[exec])
        /\ ~At("wakeup") /\ ~At("unlockAll")
    BY <2>2, Bases, WhatRemains DEF IInv, CallbackCode, At
  <2> QED
    BY <2>1, <2>2, <2>3, ResumesGood
<1>3. CASE GuestResumes
  <2>1. PICK t \in Alive : OSResumeThread(t, <<>>)
    BY <1>3 DEF GuestResumes
  <2>2. GuestCode /\ t \in Thread
    BY <1>3 DEF GuestResumes, Alive
  <2>3. /\ Base(<<>>) /\ Held(<<>>) /\ Way(<<>>) /\ ~At("wakeup") /\ ~At("unlockAll")
    BY <2>2, Bases, WhatRemains DEF IInv, GuestCode, At, Own
  <2> QED
    BY <2>1, <2>2, <2>3, ResumesGood
<1> QED
  BY <1>1, <1>2, <1>3

(* A new priority changes no state and wakes or puts to sleep nobody.       *)
LEMMA PriorityOnly ==
    ASSUME Inv, NEW t \in Thread, NEW p, SetThreadEffectivePriority(t, p)
    PROVE  /\ \A u \in Thread : state[u] = "WAITING" => queueOf'[u] = queueOf[u]
           /\ resched => resched'
<1>1. CASE state[t] = "READY"
  <2>1. queueOf' = [queueOf EXCEPT ![t] = RunQ(p)] /\ resched' = TRUE
    BY <1>1 DEF SetThreadEffectivePriority
  <2> QED
    BY <1>1, <2>1, Fields
<1>2. CASE state[t] # "READY"
  <2>1. UNCHANGED queueOf /\ (resched' = TRUE \/ UNCHANGED resched)
    BY <1>2 DEF SetThreadEffectivePriority
  <2> QED
    BY <2>1
<1> QED
  BY <1>1, <1>2

LEMMA GoodPropagate ==
    ASSUME IInv, Inv', PropagateStep
    PROVE  Good'
<1>1. At("propagate")
  BY DEF PropagateStep
<1>2. /\ Base(Rest) /\ Held(Rest) /\ Way(Rest) /\ Top \in Frame /\ Top.op = "propagate"
      /\ ~At("wakeup") /\ ~At("unlockAll")
  BY <1>1, KernelTop DEF Plain, Served, Switches
<1>3. /\ Top.o \in Thread \cup {None} /\ exec \in Thread
      /\ Inv /\ Seated /\ Fibers /\ Hands /\ Joins /\ suspend \in [Thread -> Nat]
  BY <1>2, FrameFields, Fields DEF IInv
<1> DEFINE o == Top.o
           p == EffectivePriority(o, owned[o])
<1>4. UNCHANGED <<state, suspend, base, detached, wants, listed, mutexVars,
                  running, current, disable, timerVars, exec, inRetrace>>
  BY DEF PropagateStep
<1>5. CASE o = None \/ suspend[o] >= 1 \/ prio[o] = p
  <2>1. Become(<<>>, Rest) /\ UNCHANGED <<queue, pending, queueOf, prio, resched>>
    BY <1>5 DEF PropagateStep
  <2>2. <<>> \in Stack /\ Range(<<>>) = {}
    BY ShortStacks, ShortRanges
  <2> QED
    BY <1>2, <1>4, <2>1, <2>2, KernelFrames DEF threadVars
<1>6. CASE ~(o = None \/ suspend[o] >= 1 \/ prio[o] = p)
  <2>1. /\ SetThreadEffectivePriority(o, p)
        /\ Become(<<Propagate(NextOwner(o))>>, Rest)
    BY <1>6 DEF PropagateStep
  <2>2. o \in Thread /\ suspend[o] = 0
    BY <1>3, <1>6
  <2>3. p \in Prio
    BY <1>3, <2>2, EffectivePriorityRuns, OwnSets
  <2> DEFINE f == Propagate(NextOwner(o))
  <2>4. f \in Frame /\ f.op = "propagate"
    BY <1>3, <2>2, NextOwnerType, FramesBuilt DEF Propagate
  <2> HIDE DEF f, p, o
  <2>5. <<f>> \in Stack /\ Range(<<f>>) = {f}
    BY <2>4, ShortStacks, ShortRanges
  <2>6. Seated'
    BY <1>3, <1>4, <2>1, <2>2, <2>3, PrioritySeats
  <2>7. /\ \A u \in Thread : state[u] = "WAITING" => queueOf'[u] = queueOf[u]
        /\ resched => resched'
    BY <1>3, <2>1, <2>2, PriorityOnly
  <2>8. Fibers' /\ Hands'
    <3>1. \A u \in Thread : state'[u] = "RUNNING" => state[u] = "RUNNING" /\ suspend'[u] = 0
      BY <1>3, <1>4 DEF Hands
    <3>2. Become(<<f>>, Rest)
      BY <2>1 DEF f
    <3> QED
      BY <1>2, <1>3, <1>4, <2>4, <2>5, <2>7, <3>1, <3>2, KernelPushed DEF Plain, Served
  <2>9. Joins'
    <3>1. NobodySleeps
      BY <1>4, <2>7 DEF NobodySleeps
    <3>2. "mutex" \notin Calls => \A u \in Thread : owned'[u] = {}
      BY <1>3, <1>4 DEF Joins, mutexVars
    <3> QED
      BY <1>2, <1>3, <1>4, <2>6, <3>1, <3>2, JoinsKept
  <2> QED
    BY <2>6, <2>8, <2>9 DEF Good
<1> QED
  BY <1>5, <1>6

(* Callbacks.                                                               *)
LEMMA GoodCallback ==
    ASSUME IInv, Inv', CallbackWakes \/ CallbackReturns
    PROVE  Good'
<1>1. CallbackCode /\ stack[exec] # <<>> /\ Top.op = "callback"
      /\ ~At("wakeup") /\ ~At("unlockAll")
  BY DEF CallbackWakes, CallbackReturns, CallbackCode, At, Top
<1>2. /\ exec \in Thread /\ Inv /\ Seated /\ Fibers /\ Hands /\ Joins
  BY Fields DEF IInv
<1>3. CASE CallbackWakes
  <2>1. PICK e \in Event : Become(<<Wakeup(EventQ(e), FALSE)>>, stack[exec])
    BY <1>3 DEF CallbackWakes
  <2> DEFINE f == Wakeup(EventQ(e), FALSE)
  <2>2. f \in Frame /\ f.op = "wakeup"
    BY FramesBuilt, QueueNames DEF Wakeup
  <2> HIDE DEF f
  <2>3. <<f>> \in Stack /\ Range(<<f>>) = {f}
    BY <2>2, ShortStacks, ShortRanges
  <2>4. Base(stack[exec]) /\ Held(stack[exec]) /\ Way(stack[exec])
    BY <1>1, <1>2, Bases, WhatRemains
  <2>5. UNCHANGED <<threadVars, mutexVars, schedVars, exec>>
    BY <1>3 DEF CallbackWakes
  <2>6. Become(<<f>>, stack[exec])
    BY <2>1 DEF f
  <2> QED
    BY <1>1, <2>2, <2>3, <2>4, <2>5, <2>6, KernelFrames DEF schedVars, Plain, Served
<1>4. CASE CallbackReturns
  <2>1. /\ disable' = IF Top.deferred /\ disable > 0 THEN disable - 1 ELSE disable
        /\ Become(<<>>, Rest)
        /\ UNCHANGED <<threadVars, mutexVars, queue, pending, resched, running, current, exec>>
    BY <1>4 DEF CallbackReturns
  <2>2. Base(Rest) /\ Rest \in Stack /\ Frames(exec) = {Top} \cup Range(Rest)
    BY <1>1, <1>2, Bases, RestFrames
  <2>3. <<>> \in Stack /\ Range(<<>>) = {}
    BY ShortStacks, ShortRanges
  <2>4. Fibers'
    BY <1>2, <2>1, <2>2, <2>3, PlainPushed
  <2>5. Frames(exec)' = Range(Rest)
    BY <1>2, <2>1, <2>2, <2>3, FramesPushed
  <2>6. disable' = 0
    <3>1. CASE disable = 0
      BY <2>1, <3>1
    <3>2. CASE disable # 0
      <4>1. disable = 1 /\ Top.deferred
        BY <1>1, <1>2, <2>2, <3>2 DEF Hands, Served
      <4> QED
        BY <2>1, <4>1
    <3> QED
      BY <3>1, <3>2
  <2>7. ~Switches(Top) /\ Top.op \notin Looping
    BY <1>1 DEF Switches, Looping
  <2>8. Hands'
    <3>1. UNCHANGED <<state, suspend, running, current, exec, resched>>
      BY <2>1 DEF threadVars
    <3>2. \A f : Switches(f)' <=> Switches(f)
      BY <3>1 DEF Switches
    <3> QED
      BY <1>2, <2>2, <2>5, <2>6, <2>7, <3>1, <3>2 DEF Hands
  <2>9. Seated' /\ Joins'
    BY <1>1, <2>1, OnlyFrames
  <2> QED
    BY <2>4, <2>8, <2>9 DEF Good
<1> QED
  BY <1>3, <1>4

(* Guest code, or a call of its own, changes frames only.                   *)
LEMMA OwnNow ==
    ASSUME IInv, NEW k, Own(k)
    PROVE  /\ exec \in Thread /\ exec # None /\ running = exec /\ current = exec
           /\ state[exec] = "RUNNING" /\ suspend[exec] = 0 /\ disable = 0
           /\ k \in Stack /\ ~At("wakeup") /\ ~At("unlockAll")
           /\ \A u \in Thread : ~Releasing(u)
           /\ Inv /\ Seated /\ Fibers /\ Hands /\ Joins
<1>1. Inv /\ Seated /\ Fibers /\ Hands /\ Joins
  BY DEF IInv
<1>2. ~At("wakeup") /\ ~At("unlockAll")
  BY DEF Own, GuestCode, At, OwnCalls
<1> QED
  BY <1>1, <1>2, OwnContext DEF Releasing

LEMMA OwnFrames ==
    ASSUME IInv, Inv', NEW k, Own(k), NEW fs \in Stack, Become(fs, k), Ordered(fs),
           UNCHANGED <<threadVars, mutexVars, queue, exec, running, current, disable>>,
           \A f \in Range(fs) : f.op \notin Looping /\ Fits(exec, f)'
    PROVE  Good'
<1>1. /\ exec \in Thread /\ state[exec] = "RUNNING" /\ ~At("wakeup") /\ ~At("unlockAll")
      /\ Inv /\ Fibers /\ Hands
  BY OwnNow
<1>2. Seated' /\ Joins'
  BY <1>1, OnlyFrames
<1>3. UNCHANGED <<state, suspend>>
  BY DEF threadVars
<1>4. \A u \in Thread : state'[u] = "RUNNING" => u = exec /\ suspend'[u] = 0
  BY <1>1, <1>3 DEF Hands
<1>5. Fibers' /\ Hands'
  BY <1>1, <1>3, <1>4, OwnPushed
<1> QED
  BY <1>2, <1>5 DEF Good

LEMMA OwnPlainFrames ==
    ASSUME IInv, Inv', NEW k, Own(k), NEW fs \in Stack, Become(fs, k),
           UNCHANGED <<threadVars, mutexVars, queue, exec, running, current, disable>>,
           \A f \in Range(fs) : f.op \in Plain
    PROVE  Good'
<1>1. Ordered(fs)
  BY PlainOrder
<1>2. \A f \in Range(fs) : f.op \notin Looping /\ Fits(exec, f)'
  BY DEF Fits, Plain, Served, Looping, IsJoinSleep
<1> QED
  BY <1>1, <1>2, OwnFrames

(* OSSleepThread.  A joiner falls asleep only while the thread it joins     *)
(* lives.                                                                   *)
LEMMA SleepsGood ==
    ASSUME IInv, Inv', NEW k, Own(k), NEW q \in WaitQueue, OSSleepThread(q, k),
           \A t \in Thread : q = JoinQ(t) => "join" \in Calls /\ state[t] \notin Terminated
    PROVE  Good'
<1>1. /\ exec \in Thread /\ exec # None /\ running = exec /\ current = exec
      /\ state[exec] = "RUNNING" /\ suspend[exec] = 0 /\ disable = 0 /\ k \in Stack
      /\ Inv /\ Seated /\ Fibers /\ Hands /\ Joins
      /\ \A u \in Thread : ~Releasing(u)
  BY OwnNow
<1>2. /\ state' = [state EXCEPT ![exec] = "WAITING"]
      /\ queueOf' = [queueOf EXCEPT ![exec] = q]
      /\ Become(<<Select(FALSE), Slept(q, exec)>>, k)
      /\ UNCHANGED <<running, current, exec, disable, suspend, mutexVars>>
  BY <1>1 DEF OSSleepThread
<1>3. Seated'
  BY <1>1, SleepSeats
<1>4. state \in [Thread -> State] /\ queueOf \in [Thread -> Queue \cup {None}]
  BY <1>1, Fields
<1> DEFINE f == Select(FALSE)
           g == Slept(q, exec)
<1>5. /\ f \in Frame /\ g \in Frame /\ f.op = "select" /\ g.op = "slept" /\ g.t = exec
  BY <1>1, FramesBuilt DEF Select, Slept
<1> HIDE DEF f, g
<1>6. /\ <<f, g>> \in Stack /\ Range(<<f, g>>) = {f, g} /\ Ordered(<<f, g>>)
  <2>1. Above(f, g)
    BY <1>5 DEF Above, OwnCalls, Looping, IsJoinSleep
  <2> QED
    BY <1>5, <2>1, ShortStacks, ShortRanges, ShortOrders
<1>7. Fibers' /\ Hands'
  <2>1. Become(<<f, g>>, k)
    BY <1>2 DEF f, g
  <2>2. \A h \in Range(<<f, g>>) : h.op \notin Looping /\ Fits(exec, h)'
    BY <1>2, <1>5, <1>6 DEF Fits, Looping, IsJoinSleep
  <2>3. \A u \in Thread : state'[u] = "RUNNING" => u = exec /\ suspend'[u] = 0
    BY <1>1, <1>2, <1>4 DEF Hands
  <2>4. \E h \in Range(<<f, g>>) : Switches(h)'
    BY <1>5, <1>6 DEF Switches
  <2> QED
    BY <1>1, <1>2, <1>6, <2>1, <2>2, <2>3, <2>4, OwnPushed
<1>8. Joins'
  <2>1. ASSUME Separate, NEW u \in Thread, state'[u] \in Terminated, queue'[JoinQ(u)] # <<>>
        PROVE  FALSE
    <3>1. PICK t \in Thread : state'[t] = "WAITING" /\ queueOf'[t] = JoinQ(u)
      BY <1>3, <2>1, JoinersNext
    <3>2. u # exec /\ state[u] \in Terminated
      BY <1>1, <1>2, <1>4, <2>1 DEF Terminated
    <3>3. t # exec
      BY <1>1, <1>2, <1>4, <3>1, <3>2
    <3>4. state[t] = "WAITING" /\ queueOf[t] = JoinQ(u)
      BY <1>2, <1>4, <3>1, <3>3
    <3>5. queue[JoinQ(u)] # <<>>
      BY <1>1, <2>1, <3>4, JoinersAsleep
    <3> QED
      BY <1>1, <2>1, <3>2, <3>5 DEF Joins
  <2> QED
    BY <1>1, <1>2, <2>1 DEF Joins, mutexVars
<1> QED
  BY <1>3, <1>7, <1>8 DEF Good

LEMMA GoodSleep ==
    ASSUME IInv, Inv', SleepCall \/ GuestSleeps
    PROVE  Good'
<1>1. CASE SleepCall
  <2>1. At("sleep") /\ OSSleepThread(Top.q, Rest)
    BY <1>1 DEF SleepCall
  <2>2. Own(Rest)
    BY <2>1 DEF Own, OwnCalls
  <2>3. Top \in Frame /\ Top.op = "sleep" /\ Fits(exec, Top)
    BY <2>1, StackTop, TopFits DEF IInv
  <2>4. Top.q \in WaitQueue
    BY <2>3, FrameFields
  <2>5. \A t \in Thread : Top.q = JoinQ(t) => "join" \in Calls /\ state[t] \notin Terminated
    BY <2>3 DEF Fits, IsJoinSleep
  <2> QED
    BY <2>1, <2>2, <2>4, <2>5, SleepsGood
<1>2. CASE GuestSleeps
  <2>1. PICK e \in Event : OSSleepThread(EventQ(e), <<>>)
    BY <1>2 DEF GuestSleeps
  <2>2. Own(<<>>)
    BY <1>2 DEF Own, GuestSleeps
  <2>3. EventQ(e) \in WaitQueue /\ \A t \in Thread : EventQ(e) # JoinQ(t)
    BY QueueNames, QueueKinds
  <2> QED
    BY <2>1, <2>2, <2>3, SleepsGood
<1> QED
  BY <1>1, <1>2

(* A thread that comes back from OSSleepThread or OSSleepTicks is RUNNING:  *)
(* there is nothing to undo.                                                *)
LEMMA GoodReturns ==
    ASSUME IInv, Inv', SleepReturns \/ ParkReturns
    PROVE  Good'
<1>1. Own(Rest)
  BY DEF SleepReturns, ParkReturns, Own, OwnCalls
<1>2. /\ exec \in Thread /\ state[exec] = "RUNNING" /\ suspend[exec] = 0
      /\ Inv /\ Fibers
  BY <1>1, OwnNow
<1>3. <<>> \in Stack /\ Range(<<>>) = {}
  BY ShortStacks, ShortRanges
<1>4. /\ Become(<<>>, Rest)
      /\ UNCHANGED <<threadVars, mutexVars, queue, exec, running, current, disable>>
  <2>1. CASE SleepReturns
    <3>1. At("slept")
      BY <2>1 DEF SleepReturns
    <3>2. Top.t = exec
      BY <1>2, <3>1, TopFits DEF Fits
    <3> QED
      BY <1>2, <2>1, <3>2 DEF SleepReturns, threadVars
  <2>2. CASE ParkReturns
    BY <1>2, <2>2 DEF ParkReturns, threadVars, schedVars
  <2> QED
    BY <2>1, <2>2
<1> QED
  BY <1>1, <1>3, <1>4, OwnPlainFrames

(* OSSuspendThread: a thread that suspends itself is on its way out.        *)
LEMMA SuspendsGood ==
    ASSUME IInv, Inv', NEW k, Own(k), NEW t \in Thread, OSSuspendThread(t, k)
    PROVE  Good'
<1>1. /\ exec \in Thread /\ state[exec] = "RUNNING" /\ k \in Stack
      /\ ~At("wakeup") /\ ~At("unlockAll")
      /\ Inv /\ Seated /\ Fibers /\ Hands /\ Joins
  BY OwnNow
<1>2. /\ state \in [Thread -> State] /\ suspend \in [Thread -> Nat]
      /\ queueOf \in [Thread -> Queue \cup {None}]
  BY <1>1, Fields
<1>3. Seated'
  BY <1>1, SuspendSeats
<1>4. /\ suspend' = [suspend EXCEPT ![t] = @ + 1]
      /\ UNCHANGED <<exec, running, current, disable, mutexVars>>
  BY DEF OSSuspendThread
<1>5. \A u \in Thread : u # t => suspend'[u] = suspend[u]
  BY <1>2, <1>4
<1>6. /\ \A u \in Thread : u # t => state'[u] = state[u]
      /\ state'[t] = IF state[t] = "RUNNING" THEN "READY" ELSE state[t]
      /\ \A u \in Thread : state'[u] = "WAITING" => queueOf'[u] = queueOf[u]
  <2>1. CASE UNCHANGED <<state, queueOf>> /\ state[t] # "RUNNING"
    BY <2>1
  <2>2. CASE state[t] = "READY" /\ UNCHANGED state /\ Removed(t)
    BY <1>2, <2>2 DEF Removed
  <2>3. CASE state[t] = "RUNNING" /\ state' = [state EXCEPT ![t] = "READY"] /\ UNCHANGED queueOf
    BY <1>2, <2>3
  <2>4. state[t] = "RUNNING" => suspend[t] = 0
    BY <1>1 DEF Hands
  <2> QED
    BY <2>1, <2>2, <2>3, <2>4 DEF OSSuspendThread
<1>7. PICK fs \in Stack :
         /\ Become(fs, k) /\ \A f \in Range(fs) : f.op \in Served
         /\ state[t] = "RUNNING" => Resched \in Range(fs) /\ resched' = TRUE
  <2> DEFINE f == Propagate(OwnerOf(wants[t]))
  <2>1. OwnerOf(wants[t]) \in Thread \cup {None}
    BY <1>1 DEF OwnerOf, Inv, TypeOK, ThreadTypes, MutexTypes
  <2>2. f \in Frame /\ f.op \in Served /\ Resched \in Frame /\ Resched.op \in Served
    BY <2>1, FramesBuilt DEF Propagate, Resched, Served
  <2>3. \/ state[t] # "RUNNING" /\ (Become(<<>>, k) \/ Become(<<f, Resched>>, k))
        \/ Become(<<Resched>>, k) /\ (state[t] = "RUNNING" => resched' = TRUE)
    <3>1. state[t] = "RUNNING" => suspend[t] = 0
      BY <1>1 DEF Hands
    <3> QED
      BY <3>1 DEF OSSuspendThread
  <2> HIDE DEF f
  <2>4. <<>> \in Stack /\ <<Resched>> \in Stack /\ <<f, Resched>> \in Stack
    BY <2>2, ShortStacks
  <2>5. /\ Range(<<>>) = {} /\ Range(<<Resched>>) = {Resched}
        /\ Range(<<f, Resched>>) = {f, Resched}
    BY ShortRanges
  <2>6. CASE state[t] # "RUNNING" /\ Become(<<>>, k)
    BY <2>4, <2>5, <2>6
  <2>7. CASE Become(<<Resched>>, k) /\ (state[t] = "RUNNING" => resched' = TRUE)
    BY <2>2, <2>4, <2>5, <2>7
  <2>8. CASE state[t] # "RUNNING" /\ Become(<<f, Resched>>, k)
    BY <2>2, <2>4, <2>5, <2>8
  <2> QED
    BY <2>3, <2>6, <2>7, <2>8
<1>8. Fibers' /\ Hands'
  <2>1. \A u \in Thread : state'[u] = "RUNNING" => u = exec /\ suspend'[u] = 0
    BY <1>1, <1>5, <1>6 DEF Hands
  <2>2. state'[exec] # "RUNNING" => \E f \in Range(fs) : Switches(f)'
    <3>1. state'[exec] # "RUNNING" => state[t] = "RUNNING"
      BY <1>1, <1>6
    <3>2. Resched.op = "resched"
      BY DEF Resched
    <3> QED
      BY <1>7, <3>1, <3>2 DEF Switches
  <2>3. \A f \in Range(fs) : f.op \in Plain
    BY <1>7 DEF Plain
  <2> QED
    BY <1>1, <1>4, <1>7, <2>1, <2>2, <2>3, OwnPlain
<1>9. Joins'
  <2>1. NobodySleeps
    BY <1>6 DEF NobodySleeps
  <2>2. \A u \in Thread : state'[u] \in Terminated => state[u] \in Terminated
    BY <1>6 DEF Terminated
  <2>3. "mutex" \notin Calls => \A u \in Thread : owned'[u] = {}
    BY <1>1, <1>4 DEF Joins, mutexVars
  <2> QED
    BY <1>1, <1>3, <2>1, <2>2, <2>3, JoinsKept
<1> QED
  BY <1>3, <1>8, <1>9 DEF Good

LEMMA GoodSuspend ==
    ASSUME IInv, Inv', SuspendCall \/ GuestSuspends
    PROVE  Good'
<1>1. CASE SuspendCall
  <2>1. At("suspend") /\ OSSuspendThread(Top.t, Rest)
    BY <1>1 DEF SuspendCall
  <2>2. Own(Rest)
    BY <2>1 DEF Own, OwnCalls
  <2>3. Top.t \in Thread
    BY <2>1, StackTop, FrameFields DEF IInv
  <2> QED
    BY <2>1, <2>2, <2>3, SuspendsGood
<1>2. CASE GuestSuspends
  BY <1>2, SuspendsGood DEF GuestSuspends, Own, Alive
<1> QED
  BY <1>1, <1>2

(* A step of the running thread that ends nobody and puts nobody to sleep.  *)
LEMMA OwnStep ==
    ASSUME IInv, Inv', NEW k, Own(k), NEW fs \in Stack, Become(fs, k), Ordered(fs),
           Seated', UNCHANGED <<suspend, exec, running, current, disable>>,
           \A f \in Range(fs) : f.op \notin Looping /\ Fits(exec, f)',
           \A u \in Thread : state'[u] = state[u] \/ {state'[u], state[u]} \subseteq Terminated,
           \A u \in Thread : state[u] = "WAITING" => queueOf'[u] = queueOf[u],
           "mutex" \notin Calls => UNCHANGED mutexVars
    PROVE  Good'
<1>1. /\ exec \in Thread /\ state[exec] = "RUNNING" /\ ~At("wakeup") /\ ~At("unlockAll")
      /\ Inv /\ Seated /\ Fibers /\ Hands /\ Joins
  BY OwnNow
<1>2. \A u \in Thread : state'[u] = "RUNNING" => u = exec /\ suspend'[u] = 0
  BY <1>1 DEF Hands, Terminated
<1>3. state'[exec] = "RUNNING"
  BY <1>1 DEF Terminated
<1>4. Fibers' /\ Hands'
  BY <1>1, <1>2, <1>3, OwnPushed
<1>5. NobodySleeps
  BY DEF NobodySleeps, Terminated
<1>6. \A u \in Thread : state'[u] \in Terminated => state[u] \in Terminated
  OBVIOUS
<1>7. "mutex" \notin Calls => \A u \in Thread : owned'[u] = {}
  BY <1>1 DEF Joins, mutexVars
<1>8. Joins'
  BY <1>1, <1>5, <1>6, <1>7, JoinsKept
<1> QED
  BY <1>4, <1>8 DEF Good

LEMMA OwnPlainStep ==
    ASSUME IInv, Inv', NEW k, Own(k), NEW fs \in Stack, Become(fs, k),
           Seated', UNCHANGED <<suspend, exec, running, current, disable>>,
           \A f \in Range(fs) : f.op \in Plain,
           \A u \in Thread : state'[u] = state[u] \/ {state'[u], state[u]} \subseteq Terminated,
           \A u \in Thread : state[u] = "WAITING" => queueOf'[u] = queueOf[u],
           "mutex" \notin Calls => UNCHANGED mutexVars
    PROVE  Good'
<1>1. Ordered(fs)
  BY PlainOrder
<1>2. \A f \in Range(fs) : f.op \notin Looping /\ Fits(exec, f)'
  BY DEF Fits, Plain, Served, Looping, IsJoinSleep
<1> QED
  BY <1>1, <1>2, OwnStep

(* OSLockMutex.                                                             *)
LEMMA LocksGood ==
    ASSUME IInv, Inv', NEW k, Own(k), NEW m \in Mutex, "mutex" \in Calls, OSLockMutex(m, k)
    PROVE  Good'
<1>1. /\ exec \in Thread /\ exec # None /\ running = exec /\ state[exec] = "RUNNING"
      /\ suspend[exec] = 0 /\ Inv /\ Seated
  BY OwnNow
<1>2. UNCHANGED <<state, suspend, prio, queueOf, queue, exec, running, current, disable>>
  BY DEF OSLockMutex, schedVars
<1>3. Seated'
  BY <1>1, <1>2, SeatsUntouched
<1>4. CASE Become(<<>>, k)
  <2>1. <<>> \in Stack /\ Range(<<>>) = {}
    BY ShortStacks, ShortRanges
  <2> QED
    BY <1>2, <1>3, <1>4, <2>1, OwnPlainStep
<1>5. CASE Become(<<Promote(owner[m], prio[exec]), Sleep(MutexQ(m)), Lock(m)>>, k)
  <2> DEFINE f == Promote(owner[m], prio[exec])
             g == Sleep(MutexQ(m))
             h == Lock(m)
  <2>1. prio[exec] \in Prio /\ prio[exec] \in AnyPrio
    BY <1>1, SeatNow, QueueKinds DEF Seat, Terminated
  <2>2. owner[m] \in Thread \cup {None}
    BY <1>1 DEF Inv, TypeOK, MutexTypes
  <2>3. /\ f \in Frame /\ f.op = "promote" /\ f.p \in Prio
        /\ g \in Frame /\ g.op = "sleep" /\ g.q = MutexQ(m)
        /\ h \in Frame /\ h.op = "lock"
    BY <2>1, <2>2, FramesBuilt, QueueNames DEF Promote, Sleep, Lock
  <2>4. Become(<<f, g, h>>, k)
    BY <1>5
  <2> HIDE DEF f, g, h
  <2>5. ~IsJoinSleep(f) /\ ~IsJoinSleep(g) /\ ~IsJoinSleep(h)
    BY <2>3, QueueKinds DEF IsJoinSleep
  <2>6. Above(f, g) /\ Above(f, h) /\ Above(g, h)
    BY <2>3, <2>5 DEF Above, OwnCalls, Looping
  <2>7. <<f, g, h>> \in Stack /\ Range(<<f, g, h>>) = {f, g, h} /\ Ordered(<<f, g, h>>)
    BY <2>3, <2>6, ShortStacks, ShortRanges, ShortOrders
  <2>8. \A e \in Range(<<f, g, h>>) : e.op \notin Looping /\ Fits(exec, e)'
    BY <2>3, <2>5, <2>7 DEF Fits, Looping, IsJoinSleep
  <2> QED
    BY <1>2, <1>3, <2>4, <2>7, <2>8, OwnStep
<1> QED
  BY <1>1, <1>4, <1>5 DEF OSLockMutex

LEMMA GoodLock ==
    ASSUME IInv, Inv', LockRetry \/ GuestLocks
    PROVE  Good'
<1>1. CASE LockRetry
  <2>1. At("lock") /\ OSLockMutex(Top.m, Rest)
    BY <1>1 DEF LockRetry
  <2>2. Own(Rest)
    BY <2>1 DEF Own, OwnCalls
  <2>3. Top.m \in Mutex /\ "mutex" \in Calls
    BY <2>1, StackTop, TopFits, FrameFields DEF IInv, Fits
  <2> QED
    BY <2>1, <2>2, <2>3, LocksGood
<1>2. CASE GuestLocks
  BY <1>2, LocksGood DEF GuestLocks, Own
<1> QED
  BY <1>1, <1>2

(* OSUnlockMutex.                                                           *)
LEMMA GoodUnlock ==
    ASSUME IInv, Inv', GuestUnlocks
    PROVE  Good'
<1>1. PICK m \in Mutex : OSUnlockMutex(m, <<>>)
  BY DEF GuestUnlocks
<1>2. Own(<<>>) /\ "mutex" \in Calls
  BY DEF GuestUnlocks, Own
<1>3. /\ exec \in Thread /\ running = exec /\ state[exec] = "RUNNING" /\ Inv /\ Seated
  BY <1>2, OwnNow
<1>4. Seated'
  BY <1>1, <1>3, UnlockSeats
<1>5. UNCHANGED <<state, suspend, queueOf, exec, running, current, disable>>
  BY <1>1 DEF OSUnlockMutex, schedVars
<1>6. CASE Become(<<>>, <<>>)
  <2>1. <<>> \in Stack /\ Range(<<>>) = {}
    BY ShortStacks, ShortRanges
  <2> QED
    BY <1>2, <1>4, <1>5, <1>6, <2>1, OwnPlainStep
<1>7. CASE Become(<<Wakeup(MutexQ(m), FALSE)>>, <<>>)
  <2> DEFINE f == Wakeup(MutexQ(m), FALSE)
  <2>1. f \in Frame /\ f.op \in Plain
    BY FramesBuilt, QueueNames DEF Wakeup, Plain, Served
  <2>2. Become(<<f>>, <<>>)
    BY <1>7
  <2> HIDE DEF f
  <2>3. <<f>> \in Stack /\ Range(<<f>>) = {f}
    BY <2>1, ShortStacks, ShortRanges
  <2> QED
    BY <1>2, <1>4, <1>5, <2>1, <2>2, <2>3, OwnPlainStep
<1> QED
  BY <1>1, <1>6, <1>7 DEF OSUnlockMutex, WakeWaiters

(* PromoteThreadPriority hands on a priority of a run queue.                *)
LEMMA GoodPromote ==
    ASSUME IInv, Inv', PromoteStep
    PROVE  Good'
<1>1. At("promote") /\ Own(Rest)
  BY DEF PromoteStep, Own, OwnCalls
<1>2. /\ exec \in Thread /\ Inv /\ Seated /\ Fibers /\ suspend \in [Thread -> Nat]
  BY <1>1, OwnNow, Fields
<1>3. /\ Top.o \in Thread \cup {None} /\ Top.p \in Prio /\ Top.p \in AnyPrio
  BY <1>1, <1>2, StackTop, TopFits, FrameFields, QueueKinds DEF Fits
<1> DEFINE o == Top.o
           p == Top.p
<1>4. UNCHANGED <<state, suspend, mutexVars, running, current, disable, exec>>
  BY DEF PromoteStep
<1>5. CASE o = None \/ suspend[o] > 0 \/ prio[o] <= p
  <2>1. Become(<<>>, Rest) /\ UNCHANGED <<queue, queueOf, prio>>
    BY <1>5 DEF PromoteStep
  <2>2. <<>> \in Stack /\ Range(<<>>) = {}
    BY ShortStacks, ShortRanges
  <2>3. Seated'
    BY <1>2, <1>4, <2>1, SeatsUntouched
  <2> QED
    BY <1>1, <1>4, <2>1, <2>2, <2>3, OwnPlainStep
<1>6. CASE ~(o = None \/ suspend[o] > 0 \/ prio[o] <= p)
  <2>1. /\ SetThreadEffectivePriority(o, p)
        /\ Become(<<Promote(NextOwner(o), p)>>, Rest)
    BY <1>6 DEF PromoteStep
  <2>2. o \in Thread /\ suspend[o] = 0
    BY <1>2, <1>3, <1>6
  <2> DEFINE f == Promote(NextOwner(o), p)
  <2>3. f \in Frame /\ f.op = "promote" /\ f.p = p
    BY <1>2, <1>3, <2>2, NextOwnerType, FramesBuilt DEF Promote
  <2>4. Become(<<f>>, Rest) /\ p \in Prio
    BY <1>3, <2>1
  <2> HIDE DEF f, p, o
  <2>5. <<f>> \in Stack /\ Range(<<f>>) = {f} /\ Ordered(<<f>>)
    BY <2>3, ShortStacks, ShortRanges, ShortOrders
  <2>6. Seated'
    BY <1>2, <1>4, <2>1, <2>2, <2>4, PrioritySeats
  <2>7. \A u \in Thread : state[u] = "WAITING" => queueOf'[u] = queueOf[u]
    BY <1>2, <2>1, <2>2, PriorityOnly
  <2>8. \A e \in Range(<<f>>) : e.op \notin Looping /\ Fits(exec, e)'
    BY <2>3, <2>4, <2>5 DEF Fits, Looping, IsJoinSleep
  <2> QED
    BY <1>1, <1>4, <2>4, <2>5, <2>6, <2>7, <2>8, OwnStep
<1> QED
  BY <1>5, <1>6

(* Calls of guest code that only push frames.                               *)
LEMMA GoodGuestCalls ==
    ASSUME IInv, Inv', GuestWakes \/ GuestYields \/ GuestPollsRetrace \/ GuestSleepsTicks
    PROVE  Good'
<1>1. Own(<<>>)
  BY DEF GuestWakes, GuestYields, GuestPollsRetrace, GuestSleepsTicks, Own
<1>2. exec \in Thread /\ running = exec
  BY <1>1, OwnNow
<1>3. UNCHANGED <<threadVars, mutexVars, queue, exec, running, current, disable>>
  BY DEF GuestWakes, GuestYields, GuestPollsRetrace, GuestSleepsTicks, OSSleepTicks, schedVars
<1>4. ASSUME NEW f \in Frame, f.op \in Plain, Become(<<f>>, <<>>)
      PROVE  Good'
  <2>1. <<f>> \in Stack /\ Range(<<f>>) = {f}
    BY ShortStacks, ShortRanges
  <2> QED
    BY <1>1, <1>3, <1>4, <2>1, OwnPlainFrames
<1>5. CASE GuestWakes
  <2>1. PICK e \in Event : Become(<<Wakeup(EventQ(e), FALSE)>>, <<>>)
    BY <1>5 DEF GuestWakes
  <2>2. Wakeup(EventQ(e), FALSE) \in Frame /\ Wakeup(EventQ(e), FALSE).op \in Plain
    BY FramesBuilt, QueueNames DEF Wakeup, Plain, Served
  <2> QED
    BY <1>4, <2>1, <2>2
<1>6. CASE GuestYields
  <2>1. Select(TRUE) \in Frame /\ Select(TRUE).op \in Plain
    BY FramesBuilt DEF Select, Plain, Served
  <2> QED
    BY <1>4, <1>6, <2>1 DEF GuestYields
<1>7. CASE GuestPollsRetrace
  <2> DEFINE f == Wakeup(EventQ(Retrace), FALSE)
             g == Callback(TRUE, FALSE)
  <2>1. f \in Frame /\ f.op \in Plain /\ g \in Frame /\ g.op \in Plain
    BY FramesBuilt, QueueNames, RetraceAssumption DEF Wakeup, Callback, Plain, Served
  <2>2. Become(<<f, g>>, <<>>)
    BY <1>7 DEF GuestPollsRetrace, RetraceFrames
  <2> HIDE DEF f, g
  <2>3. <<f, g>> \in Stack /\ Range(<<f, g>>) = {f, g}
    BY <2>1, ShortStacks, ShortRanges
  <2> QED
    BY <1>1, <1>3, <2>1, <2>2, <2>3, OwnPlainFrames
<1>8. CASE GuestSleepsTicks
  <2> DEFINE f == Suspend(running)
             g == Parked
  <2>1. /\ f \in Frame /\ f.op = "suspend" /\ g \in Frame /\ g.op = "parked"
    BY <1>2, FramesBuilt DEF Suspend, Parked
  <2>2. Become(<<f, g>>, <<>>) \/ Become(<<>>, <<>>)
    BY <1>8 DEF GuestSleepsTicks, OSSleepTicks
  <2> HIDE DEF f, g
  <2>3. Above(f, g)
    BY <2>1 DEF Above, OwnCalls, Looping, IsJoinSleep
  <2>4. /\ <<f, g>> \in Stack /\ Range(<<f, g>>) = {f, g} /\ Ordered(<<f, g>>)
        /\ <<>> \in Stack /\ Range(<<>>) = {}
    BY <2>1, <2>3, ShortStacks, ShortRanges, ShortOrders
  <2>5. \A e \in Range(<<f, g>>) : e.op \notin Looping /\ Fits(exec, e)'
    BY <2>1, <2>4 DEF Fits, Looping, IsJoinSleep
  <2>6. CASE Become(<<f, g>>, <<>>)
    BY <1>1, <1>3, <2>4, <2>5, <2>6, OwnFrames
  <2>7. CASE Become(<<>>, <<>>)
    BY <1>1, <1>3, <2>4, <2>7, OwnPlainFrames
  <2> QED
    BY <2>2, <2>6, <2>7
<1> QED
  BY <1>5, <1>6, <1>7, <1>8

(* A thread ends: its mutexes are freed and its joiners woken first.        *)
LEMMA EndsGood ==
    ASSUME IInv, Inv', GuestCode, NEW t \in Thread, Terminate(t), NEW f \in Frame,
           f.op \in {"exited", "resched"}, Become(TerminateCalls(t) \o <<f>>, <<>>),
           Seated', UNCHANGED <<suspend, mutexVars, exec, running, current, disable>>,
           \A u \in Thread : u # t => queueOf'[u] = queueOf[u],
           t = exec /\ f.op = "resched" => resched' = TRUE
    PROVE  Good'
<1>1. Own(<<>>)
  BY DEF Own
<1>2. /\ exec \in Thread /\ state[exec] = "RUNNING" /\ <<>> \in Stack
      /\ \A u \in Thread : ~Releasing(u)
      /\ Inv /\ Seated /\ Fibers /\ Hands /\ Joins
  BY <1>1, OwnNow
<1>3. /\ state'[t] \in Terminated /\ \A u \in Thread : u # t => state'[u] = state[u]
  BY <1>2, Fields DEF Terminate, Terminated
<1> DEFINE a == UnlockAll(t)
           w == Wakeup(JoinQ(t), FALSE)
           fs == <<a, w, f>>
<1>4. /\ a \in Frame /\ a.op = "unlockAll" /\ w \in Frame /\ w.op = "wakeup" /\ w.q = JoinQ(t)
  BY FramesBuilt, QueueNames DEF UnlockAll, Wakeup
<1>5. TerminateCalls(t) \o <<f>> = fs
  BY PairAndOne DEF TerminateCalls
<1> HIDE DEF a, w
<1>6. fs \in Stack /\ Range(fs) = {a, w, f} /\ fs # <<>> /\ Len(fs) = 3 /\ fs[1] = a /\ fs[2] = w
  BY <1>4, ShortStacks, ShortRanges
<1> HIDE DEF fs
<1>7. Become(fs, <<>>)
  BY <1>5
<1>8. Fibers' /\ Hands'
  <2>1. \A u \in Thread : state'[u] = "RUNNING" => u = exec /\ suspend'[u] = 0
    BY <1>2, <1>3 DEF Hands, Terminated
  <2>2. state'[exec] # "RUNNING" => \E e \in Range(fs) : Switches(e)'
    <3>1. state'[exec] # "RUNNING" => t = exec
      BY <1>2, <1>3
    <3> QED
      BY <1>6, <3>1 DEF Switches
  <2>3. \A e \in Range(fs) : e.op \in Plain
    BY <1>4, <1>6 DEF Plain, Served
  <2> QED
    BY <1>1, <1>2, <1>6, <1>7, <2>1, <2>2, <2>3, OwnPlain
<1>9. Joins'
  <2>1. /\ stack'[exec] # <<>> /\ Head(stack'[exec]) = a
        /\ Tail(stack'[exec]) # <<>> /\ Head(Tail(stack'[exec])) = w
    BY <1>2, <1>6, <1>7, PushedTop
  <2>2. ASSUME Separate, NEW u \in Thread, state'[u] \in Terminated, queue'[JoinQ(u)] # <<>>
        PROVE  Releasing(u)'
    <3>1. CASE u = t
      <4>1. At("unlockAll")'
        BY <1>4, <2>1 DEF At
      <4>2. Rest' # <<>> /\ Head(Rest').op = "wakeup" /\ Head(Rest').q = JoinQ(t)
        BY <1>4, <2>1 DEF Rest
      <4> QED
        BY <3>1, <4>1, <4>2 DEF Releasing
    <3>2. CASE u # t
      <4>1. NobodySleeps
        BY <1>3 DEF NobodySleeps, Terminated
      <4>2. queue[JoinQ(u)] # <<>>
        BY <1>2, <2>2, <4>1, NoFirstJoiner
      <4> QED
        BY <1>2, <1>3, <2>2, <3>2, <4>2 DEF Joins
    <3> QED
      BY <3>1, <3>2
  <2> QED
    BY <1>2, <2>2 DEF Joins, mutexVars
<1> QED
  BY <1>8, <1>9 DEF Good

LEMMA GoodExits ==
    ASSUME IInv, Inv', GuestExits \/ GuestCancels
    PROVE  Good'
<1>1. GuestCode /\ Own(<<>>)
  BY DEF GuestExits, GuestCancels, Own
<1>2. /\ exec \in Thread /\ running = exec /\ state[exec] = "RUNNING" /\ Inv /\ Seated
  BY <1>1, OwnNow
<1>3. CASE GuestExits
  <2>1. OSExitThread(<<>>)
    BY <1>3 DEF GuestExits
  <2>2. Seated'
    BY <1>2, <2>1, ExitSeats
  <2>3. Exited \in Frame /\ Exited.op = "exited"
    BY FramesBuilt DEF Exited
  <2>4. /\ Terminate(exec) /\ Become(TerminateCalls(exec) \o <<Exited>>, <<>>)
        /\ UNCHANGED <<suspend, mutexVars, exec, running, current, disable, queueOf>>
    BY <1>2, <2>1 DEF OSExitThread, schedVars
  <2> QED
    BY <1>1, <1>2, <2>2, <2>3, <2>4, EndsGood
<1>4. CASE GuestCancels
  <2>1. PICK t \in Thread : OSCancelThread(t, <<>>)
    BY <1>4 DEF GuestCancels
  <2>2. Seated'
    BY <1>2, <2>1, CancelSeats
  <2>3. Resched \in Frame /\ Resched.op = "resched"
    BY FramesBuilt DEF Resched
  <2>4. /\ Terminate(t) /\ Become(TerminateCalls(t) \o <<Resched>>, <<>>)
        /\ UNCHANGED <<suspend, mutexVars, exec, running, current, disable>>
    BY <2>1 DEF OSCancelThread
  <2>5. \A u \in Thread : u # t => queueOf'[u] = queueOf[u]
    BY <1>2, <2>1, Fields DEF OSCancelThread, Removed
  <2>6. t = exec => resched' = TRUE
    BY <1>2, <2>1 DEF OSCancelThread
  <2> QED
    BY <1>1, <2>2, <2>3, <2>4, <2>5, <2>6, EndsGood
<1> QED
  BY <1>3, <1>4

(* Joining, detaching and reaping.                                          *)
LEMMA ReapedStates ==
    ASSUME Inv, NEW t \in Thread, Reaped(t)
    PROVE  \A u \in Thread : state'[u] = state[u] \/ {state'[u], state[u]} \subseteq Terminated
<1>1. CASE state[t] = "MORIBUND"
  <2>1. state' = [state EXCEPT ![t] = "NONE"]
    BY <1>1 DEF Reaped
  <2> QED
    BY <1>1, <2>1, Fields DEF Terminated
<1>2. CASE state[t] # "MORIBUND"
  BY <1>2 DEF Reaped
<1> QED
  BY <1>1, <1>2

LEMMA GoodJoin ==
    ASSUME IInv, Inv', JoinReturns \/ GuestJoins \/ GuestDetaches
    PROVE  Good'
<1>1. Inv /\ Seated /\ <<>> \in Stack /\ Range(<<>>) = {}
  BY ShortStacks, ShortRanges DEF IInv
<1>2. ASSUME NEW k, Own(k), NEW t \in Thread, Reaped(t), NEW fs \in Stack, Become(fs, k),
             \A f \in Range(fs) : f.op \in Plain,
             UNCHANGED <<suspend, prio, queueOf, queue, exec, running, current, disable,
                         mutexVars>>
      PROVE  Good'
  <2>1. Seated'
    BY <1>1, <1>2, ReapSeats
  <2>2. \A u \in Thread : state'[u] = state[u] \/ {state'[u], state[u]} \subseteq Terminated
    BY <1>1, <1>2, ReapedStates
  <2> QED
    BY <1>2, <2>1, <2>2, OwnPlainStep
<1>3. CASE JoinReturns
  <2>1. At("join") /\ Own(Rest)
    BY <1>3 DEF JoinReturns, Own, OwnCalls
  <2>2. Top.t \in Thread
    BY <1>1, <2>1, StackTop, FrameFields
  <2>3. /\ Reaped(Top.t) /\ Become(<<>>, Rest)
        /\ UNCHANGED <<suspend, prio, queueOf, queue, exec, running, current, disable,
                       mutexVars>>
    BY <1>3 DEF JoinReturns, schedVars
  <2> QED
    BY <1>1, <1>2, <2>1, <2>2, <2>3
<1>4. CASE GuestDetaches
  <2>1. PICK t \in Alive : OSDetachThread(t, <<>>)
    BY <1>4 DEF GuestDetaches
  <2>2. t \in Thread /\ Own(<<>>)
    BY <1>4 DEF GuestDetaches, Alive, Own
  <2> DEFINE f == Wakeup(JoinQ(t), FALSE)
  <2>3. f \in Frame /\ f.op \in Plain
    BY <2>2, FramesBuilt, QueueNames DEF Wakeup, Plain, Served
  <2>4. /\ Reaped(t) /\ Become(<<f>>, <<>>)
        /\ UNCHANGED <<suspend, prio, queueOf, queue, exec, running, current, disable,
                       mutexVars>>
    BY <2>1 DEF OSDetachThread, schedVars
  <2> HIDE DEF f
  <2>5. <<f>> \in Stack /\ Range(<<f>>) = {f}
    BY <2>3, ShortStacks, ShortRanges
  <2> QED
    BY <1>2, <2>2, <2>3, <2>4, <2>5
<1>5. CASE GuestJoins
  <2>1. PICK t \in Alive \ {exec} : OSJoinThread(t, <<>>)
    BY <1>5 DEF GuestJoins
  <2>2. t \in Thread /\ state[t] # "NONE" /\ Own(<<>>) /\ "join" \in Calls
    BY <1>5 DEF GuestJoins, Alive, Own
  <2>3. UNCHANGED <<suspend, prio, base, detached, queueOf, wants, queue, exec, running,
                    current, disable, mutexVars>>
    BY <2>1 DEF OSJoinThread, schedVars
  <2>4. CASE Become(<<>>, <<>>) /\ Reaped(t)
    BY <1>1, <1>2, <2>2, <2>3, <2>4
  <2>5. CASE /\ state[t] # "MORIBUND" /\ UNCHANGED <<listed, state>>
             /\ Become(<<Sleep(JoinQ(t)), Joined(t)>>, <<>>)
    <3> DEFINE f == Sleep(JoinQ(t))
               g == Joined(t)
    <3>1. /\ f \in Frame /\ f.op = "sleep" /\ f.q = JoinQ(t)
          /\ g \in Frame /\ g.op = "join"
      BY <2>2, FramesBuilt, QueueNames DEF Sleep, Joined
    <3>2. Become(<<f, g>>, <<>>)
      BY <2>5
    <3> HIDE DEF f, g
    <3>3. Above(f, g)
      BY <3>1 DEF Above, OwnCalls, Looping, IsJoinSleep
    <3>4. <<f, g>> \in Stack /\ Range(<<f, g>>) = {f, g} /\ Ordered(<<f, g>>)
      BY <3>1, <3>3, ShortStacks, ShortRanges, ShortOrders
    <3>5. \A u \in Thread : JoinQ(t) = JoinQ(u) => state'[u] \notin Terminated
      BY <2>2, <2>5, QueueKinds DEF Terminated
    <3>6. exec' = exec
      BY <2>3
    <3>7. \A e \in Range(<<f, g>>) : e.op \notin Looping /\ Fits(exec, e)'
      BY <2>2, <3>1, <3>4, <3>5, <3>6 DEF Fits, Looping, IsJoinSleep
    <3> QED
      BY <2>2, <2>3, <2>5, <3>2, <3>4, <3>7, OwnFrames DEF threadVars
  <2> QED
    BY <2>1, <2>4, <2>5 DEF OSJoinThread
<1> QED
  BY <1>3, <1>4, <1>5

(* A structure is used again.                                               *)
LEMMA GoodCreates ==
    ASSUME IInv, Inv', GuestCreates
    PROVE  Good'
<1>1. GuestCode /\ Own(<<>>)
  BY DEF GuestCreates, Own
<1>2. /\ exec \in Thread /\ exec # None /\ running = exec /\ current = exec
      /\ state[exec] = "RUNNING" /\ suspend[exec] = 0 /\ disable = 0
      /\ ~At("wakeup") /\ ~At("unlockAll") /\ \A u \in Thread : ~Releasing(u)
      /\ Inv /\ Seated /\ Fibers /\ Hands /\ Joins
  BY <1>1, OwnNow
<1>3. PICK t \in Thread \ Alive, p \in Prio, d \in BOOLEAN : OSCreateThread(t, p, d)
  BY DEF GuestCreates
<1>4. t \in Thread /\ state[t] = "NONE" /\ t # exec
  BY <1>2, <1>3 DEF Alive
<1>5. Separate => queue[JoinQ(t)] = <<>>
  BY <1>2, <1>4 DEF Joins, Terminated
<1>6. Seated'
  BY <1>2, <1>3, <1>4, <1>5, CreateSeats
<1>7. /\ state' = [state EXCEPT ![t] = "READY"] /\ suspend' = [suspend EXCEPT ![t] = 1]
      /\ owned' = [owned EXCEPT ![t] = {}] /\ stack' = [stack EXCEPT ![t] = <<>>]
      /\ UNCHANGED <<queueOf, running, current, disable, exec>>
  BY <1>3 DEF OSCreateThread
<1>8. /\ state \in [Thread -> State] /\ suspend \in [Thread -> Nat]
      /\ stack \in [Thread -> Stack] /\ owned \in [Thread -> SUBSET Mutex]
  BY <1>2, Fields, OwnSets DEF Inv, TypeOK, HostTypes, Stack
<1>9. Fibers'
  <2>1. stack'[t] = <<>> /\ stack'[exec] = <<>>
    BY <1>1, <1>2, <1>4, <1>7, <1>8 DEF GuestCode
  <2>2. ASSUME NEW u \in Thread
        PROVE  Ordered(stack'[u]) /\ \A f \in Frames(u)' : Fits(u, f)'
    <3>1. CASE u \in {t, exec}
      BY <2>1, <3>1, ShortRanges, ShortOrders DEF Frames
    <3>2. CASE u \notin {t, exec}
      <4>1. stack'[u] = stack[u]
        BY <1>7, <1>8, <3>2
      <4>2. Ordered(stack[u]) /\ \A f \in Frames(u) : Fits(u, f)
        BY <1>2 DEF Fibers
      <4>3. \A f \in Frames(u) : Fits(u, f)'
        BY <3>2, <4>2 DEF Fits, Looping, IsJoinSleep
      <4> QED
        BY <4>1, <4>2, <4>3 DEF Frames
    <3> QED
      BY <3>1, <3>2
  <2> QED
    BY <2>2 DEF Fibers
<1>10. Hands'
  <2>1. \A u \in Thread : state'[u] = "RUNNING" => u = exec /\ suspend'[u] = 0
    BY <1>2, <1>4, <1>7, <1>8 DEF Hands
  <2>2. state'[exec] = "RUNNING"
    BY <1>2, <1>4, <1>7, <1>8
  <2> QED
    BY <1>2, <1>7, <2>1, <2>2 DEF Hands
<1>11. Joins'
  <2>1. NobodySleeps
    BY <1>7, <1>8 DEF NobodySleeps
  <2>2. \A u \in Thread : state'[u] \in Terminated => state[u] \in Terminated
    BY <1>7, <1>8 DEF Terminated
  <2>3. "mutex" \notin Calls => \A u \in Thread : owned'[u] = {}
    BY <1>2, <1>7, <1>8 DEF Joins
  <2> QED
    BY <1>2, <1>6, <2>1, <2>2, <2>3, JoinsKept
<1> QED
  BY <1>6, <1>9, <1>10, <1>11 DEF Good

(* Callbacks that are delivered with the scheduler disabled.                *)
LEMMA GoodDeferred ==
    ASSUME IInv, Inv', DeferredRetrace \/ DeferredAudio
    PROVE  Good'
<1>1. GuestCode /\ Own(<<>>)
  BY DEF DeferredRetrace, DeferredAudio, Own
<1>2. /\ exec \in Thread /\ exec # None /\ running = exec /\ current = exec
      /\ state[exec] = "RUNNING" /\ disable = 0 /\ ~At("wakeup") /\ ~At("unlockAll")
      /\ Inv /\ Fibers /\ Hands /\ Base(<<>>)
  BY <1>1, OwnNow, Bases
<1>3. /\ disable' = disable + 1
      /\ UNCHANGED <<threadVars, mutexVars, queue, running, current, exec>>
  BY DEF DeferredRetrace, DeferredAudio
<1>4. PICK fs \in Stack :
         /\ Become(fs, <<>>)
         /\ \E f \in Range(fs) : f.op = "callback"
         /\ \A f \in Range(fs) : f.op \in Served \/ (f.op = "callback" /\ f.deferred)
  <2> DEFINE w == Wakeup(EventQ(Retrace), FALSE)
             c == Callback(TRUE, TRUE)
             b == Callback(FALSE, TRUE)
  <2>1. /\ w \in Frame /\ w.op \in Served /\ c \in Frame /\ c.op = "callback" /\ c.deferred
        /\ b \in Frame /\ b.op = "callback" /\ b.deferred
    BY FramesBuilt, QueueNames, RetraceAssumption DEF Wakeup, Callback, Served
  <2>2. Become(<<w, c>>, <<>>) \/ Become(<<b>>, <<>>)
    BY DEF DeferredRetrace, DeferredAudio
  <2> HIDE DEF w, c, b
  <2>3. /\ <<w, c>> \in Stack /\ Range(<<w, c>>) = {w, c}
        /\ <<b>> \in Stack /\ Range(<<b>>) = {b}
    BY <2>1, ShortStacks, ShortRanges
  <2>4. CASE Become(<<w, c>>, <<>>)
    BY <2>1, <2>3, <2>4
  <2>5. CASE Become(<<b>>, <<>>)
    BY <2>1, <2>3, <2>5
  <2> QED
    BY <2>2, <2>4, <2>5
<1>5. Fibers'
  BY <1>2, <1>3, <1>4, PlainPushed DEF Plain
<1>6. Frames(exec)' = Range(fs)
  BY <1>2, <1>3, <1>4, FramesPushed, ShortRanges DEF Base
<1>7. Hands'
  <2>1. UNCHANGED <<state, suspend>>
    BY <1>3 DEF threadVars
  <2>2. \A u \in Thread : state'[u] = "RUNNING" => u = exec /\ suspend'[u] = 0
    BY <1>2, <2>1 DEF Hands
  <2> QED
    BY <1>2, <1>3, <1>4, <1>6, <2>1, <2>2 DEF Hands
<1>8. Seated' /\ Joins'
  BY <1>2, <1>3, OnlyFrames
<1> QED
  BY <1>5, <1>7, <1>8 DEF Good

LEMMA GoodStutter ==
    ASSUME IInv, UNCHANGED vars
    PROVE  Good'
<1>1. /\ Seated /\ Fibers /\ Hands /\ Joins
      /\ UNCHANGED <<state, suspend, prio, queueOf, queue, pending, resched, running, current,
                     disable, exec, stack, owned>>
  BY DEF IInv, vars, threadVars, mutexVars, schedVars, hostVars
<1>2. Seated' /\ Fibers' /\ Hands'
  BY <1>1 DEF Seated, Holds, Fibers, Frames, Fits, Hands, Switches
<1>3. Joins'
  BY <1>1 DEF Joins, Releasing, At, Top, Rest
<1> QED
  BY <1>2, <1>3 DEF Good

LEMMA NextGood == IInv /\ Inv' /\ [Next]_vars => Good'
<1> SUFFICES ASSUME IInv, Inv', [Next]_vars PROVE Good'
  OBVIOUS
<1>1. CASE Continue
  BY <1>1, GoodSelect, GoodFirstTimers, GoodDispatch, GoodTimers, GoodSleep, GoodReturns,
     GoodWakeHead, GoodWakeDone, GoodReschedule, GoodResume, GoodSuspend, GoodUnlockAll,
     GoodJoin, GoodLock, GoodPromote, GoodPropagate DEF Continue
<1>2. CASE IdlePass
  BY <1>2, GoodIdle
<1>3. CASE CallbackStep
  BY <1>3, GoodCallback, GoodResume DEF CallbackStep
<1>4. CASE GuestStep
  BY <1>4, GoodCreates, GoodResume, GoodSuspend, GoodSleep, GoodGuestCalls, GoodLock,
     GoodUnlock, GoodExits, GoodJoin, GoodDeferred DEF GuestStep
<1>5. CASE UNCHANGED vars
  BY <1>5, GoodStutter
<1> QED
  BY <1>1, <1>2, <1>3, <1>4, <1>5 DEF Next

LEMMA InitGood == Init => Good
<1> SUFFICES ASSUME Init PROVE Good
  OBVIOUS
<1>1. Main \in Thread /\ Main # None
  BY MainAssumption, NoneAssumption
<1>2. /\ state = [t \in Thread |-> IF t = Main THEN "RUNNING" ELSE "NONE"]
      /\ suspend = [t \in Thread |-> 0] /\ queue = [q \in Queue |-> <<>>]
      /\ stack = [t \in Thread |-> <<>>] /\ owned = [t \in Thread |-> {}]
      /\ running = Main /\ current = Main /\ exec = Main /\ disable = 0
      /\ prio[Main] \in Prio
  BY <1>1 DEF Init
<1>3. Seated
  <2>1. \A q \in Queue : IsInjective(queue[q]) /\ Range(queue[q]) = {}
    BY <1>2, ShortRanges DEF IsInjective
  <2>2. \A t \in Thread : Holds(queue, t) = {}
    BY <2>1 DEF Holds
  <2>3. \A t \in Thread : t # Main => state[t] \in Terminated
    BY <1>2 DEF Terminated
  <2>4. \A t \in Thread : state[t] # "WAITING" /\ state[t] # "READY"
    BY <1>2
  <2>5. ASSUME NEW t \in Thread
        PROVE  Seat({}, state[t], suspend[t], prio[t], queueOf[t])
    BY <1>2, <2>3, <2>4 DEF Seat
  <2> QED
    BY <2>1, <2>2, <2>5 DEF Seated
<1>4. Fibers
  BY <1>2, ShortRanges, ShortOrders DEF Fibers, Frames
<1>5. Hands
  BY <1>1, <1>2 DEF Hands
<1>6. Joins
  BY <1>2, QueueKinds DEF Joins
<1> QED
  BY <1>3, <1>4, <1>5, <1>6 DEF Good

-----------------------------------------------------------------------------
(* The theorems.                                                            *)

LEMMA StrongInvariant == Spec => []IInv
<1>1. Init => IInv
  BY InitInv, InitGood DEF IInv, Good
<1>2. IInv /\ [Next]_vars => IInv'
  <2>1. IInv => Inv
    BY DEF IInv
  <2>2. Inv' /\ Good' => IInv'
    BY DEF IInv, Good
  <2> QED
    BY <2>1, <2>2, NextInv, NextGood
<1> QED
  BY <1>1, <1>2, PTL DEF Spec

(* RemoveThreadFromQueue trusts the queue pointer of a thread, which is     *)
(* right to: whatever calls are interleaved, a linked thread is linked once *)
(* and on the queue its pointer names.                                      *)
THEOREM ThreadsLinkedOnce == Spec => []LinkedOnce
<1>1. ASSUME IInv PROVE LinkedOnce
  <2>1. Inv /\ Seated
    BY <1>1 DEF IInv
  <2>2. ASSUME NEW q \in Queue, NEW i \in DOMAIN queue[q], NEW j \in DOMAIN queue[q]
        PROVE  queueOf[queue[q][i]] = q /\ (queue[q][i] = queue[q][j] => i = j)
    <3>1. queue[q] \in Seq(Thread) /\ IsInjective(queue[q])
      BY <2>1, SimpleNow DEF Simple, Queues
    <3>2. queue[q][i] \in Range(queue[q]) /\ queue[q][i] \in Thread
      BY <3>1, InRange
    <3>3. q \in Holds(queue, queue[q][i])
      BY <3>2 DEF Holds
    <3>4. queueOf[queue[q][i]] = q
      BY <2>1, <3>2, <3>3, SeatNow DEF Seat
    <3> QED
      BY <3>1, <3>4 DEF IsInjective
  <2> QED
    BY <2>2 DEF LinkedOnce
<1>2. IInv => LinkedOnce
  BY <1>1
<1> QED
  BY <1>2, StrongInvariant, PTL

(* A suspended waiter has the priority behind the last run queue; none of   *)
(* the operations that link a thread by its priority (the wakeup, the       *)
(* resume, the inheritance of a priority and the preemption in              *)
(* SelectThread) ever indexes the array of run queues with it.              *)
THEOREM RunQueueArrayBounds == Spec => []InRunQueueArray
<1>1. ASSUME IInv PROVE InRunQueueArray
  <2>1. Inv /\ Seated
    BY <1>1 DEF IInv
  <2> DEFINE p == SuspendedWaitPriority
             q == RunQ(p)
  <2>2. p \in AnyPrio /\ p \notin Prio /\ q \in Queue /\ q \in RunQueue
    BY QueueNames, QueueKinds, PrioAssumption DEF Prio, SuspendedWaitPriority
  <2>3. AnyPrio \subseteq Prio \cup {p}
    BY PrioAssumption DEF AnyPrio, Prio, SuspendedWaitPriority
  <2> HIDE DEF p
  <2>4. ASSUME NEW t \in Thread, q \in Holds(queue, t) PROVE FALSE
    <3>1. state[t] = "READY" /\ suspend[t] = 0 /\ q = RunQ(prio[t])
      BY <2>1, <2>2, <2>4, SeatNow DEF Seat
    <3>2. prio[t] \in Prio
      BY <2>1, <3>1, SeatNow DEF Seat, Terminated
    <3>3. prio[t] = p
      BY <2>2, <3>1, <3>2, QueueKinds
    <3> QED
      BY <2>2, <3>2, <3>3
  <2>5. queue[q] = <<>>
    <3>1. queue[q] \in Seq(Thread)
      BY <2>1, <2>2, SimpleNow DEF Simple, Queues
    <3>2. Range(queue[q]) = {}
      BY <2>2, <2>4, <3>1, InRange DEF Holds
    <3> QED
      BY <3>1, <3>2, InRange
  <2>6. pending \subseteq Prio
    BY <2>1, <2>3, <2>5, Fields
  <2> QED
    BY <2>5, <2>6 DEF InRunQueueArray, p
<1>2. IInv => InRunQueueArray
  BY <1>1
<1> QED
  BY <1>2, StrongInvariant, PTL

(* Guest code executes as the one RUNNING thread: however the calls, the    *)
(* callbacks, the preemptions and the idle loop are interleaved, the fiber  *)
(* that comes back to guest code is the one running and current name, and   *)
(* nobody has suspended it.                                                 *)
THEOREM GuestCodeRunsAsRunning == Spec => []GuestRunsAsRunning
<1>1. ASSUME IInv PROVE GuestRunsAsRunning
  <2>1. \A t \in Thread : state[t] = "RUNNING" => t = exec
    BY <1>1 DEF IInv, Hands
  <2>2. GuestCode => /\ running = exec /\ current = exec
                     /\ state[exec] = "RUNNING" /\ suspend[exec] = 0
    BY <1>1, OwnNow DEF Own
  <2> QED
    BY <2>1, <2>2 DEF GuestRunsAsRunning
<1>2. IInv => GuestRunsAsRunning
  BY <1>1
<1> QED
  BY <1>2, StrongInvariant, PTL

(* No thread is lost: a thread that may run is on the run queue of its      *)
(* priority and a waiting one on the queue it sleeps on, through every      *)
(* wakeup, suspension, change of priority, timer and termination.           *)
THEOREM NoThreadLost ==
    ASSUME Separate
    PROVE  Spec => []NoLostThread
<1>1. ASSUME IInv PROVE NoLostThread
  <2>1. Inv /\ Seated
    BY <1>1 DEF IInv
  <2>2. \A q \in Queue : Linked(q) = Range(queue[q])
    BY DEF Linked, Range
  <2>3. \A t \in Thread, q \in Queue : q \in Holds(queue, t) <=> t \in Linked(q)
    BY <2>1, <2>2, SimpleNow
  <2>4. ASSUME NEW t \in Thread
        PROVE  /\ state[t] = "READY" /\ suspend[t] = 0 => t \in Linked(RunQ(prio[t]))
               /\ state[t] = "WAITING" =>
                     queueOf[t] \in Queue \ RunQueue /\ t \in Linked(queueOf[t])
    <3>1. Seat(Holds(queue, t), state[t], suspend[t], prio[t], queueOf[t])
      BY <2>1, SeatNow
    <3>2. \A q \in Holds(queue, t) : q \in Queue
      BY DEF Holds
    <3> QED
      BY <2>3, <3>1, <3>2, QueueKinds DEF Seat
  <2>5. ASSUME NEW p \in Prio, NEW t \in Linked(RunQ(p))
        PROVE  state[t] = "READY" /\ suspend[t] = 0 /\ prio[t] = p
    <3>1. RunQ(p) \in Queue /\ RunQ(p) \in RunQueue /\ p \in AnyPrio
      BY QueueKinds
    <3>2. t \in Thread
      BY <2>1, <2>2, <3>1, InRange, SimpleNow DEF Simple, Queues
    <3>3. RunQ(p) \in Holds(queue, t)
      BY <2>3, <3>1, <3>2
    <3>4. state[t] = "READY" /\ suspend[t] = 0 /\ RunQ(p) = RunQ(prio[t])
      BY <2>1, <3>1, <3>2, <3>3, SeatNow DEF Seat
    <3>5. prio[t] \in AnyPrio
      BY <2>1, <3>2, Fields
    <3> QED
      BY <3>1, <3>4, <3>5, QueueKinds
  <2> QED
    BY <2>4, <2>5 DEF NoLostThread
<1>2. IInv => NoLostThread
  BY <1>1
<1> QED
  BY <1>2, StrongInvariant, PTL

(* Whichever of exit, cancellation and detachment races a join, nobody is   *)
(* left asleep on the join queue of a thread that has ended.                *)
THEOREM NoJoinerLeft ==
    ASSUME Separate
    PROVE  Spec => []JoinersReleased
<1>1. ASSUME IInv PROVE JoinersReleased
  <2>1. ASSUME Settled, NEW t \in Thread PROVE ~Releasing(t)
    BY <2>1 DEF Settled, GuestCode, CallbackCode, At, Releasing
  <2> QED
    BY <1>1, <2>1 DEF JoinersReleased, IInv, Joins
<1>2. IInv => JoinersReleased
  BY <1>1
<1> QED
  BY <1>2, StrongInvariant, PTL

-----------------------------------------------------------------------------
(* Who is chosen, and the order of the run queues.                          *)

(* Only three steps make a thread RUNNING: the choice of SelectThread, and  *)
(* a sleep and a park that return without having switched.                  *)
LEMMA BecomesRunning ==
    ASSUME Inv, Next, NEW t \in Thread, state[t] # "RUNNING", state'[t] = "RUNNING"
    PROVE  DispatchThread \/ At("parked") \/ (At("slept") /\ state[t] = "WAITING")
<1>0. state \in [Thread -> State]
  BY Fields
<1>1. ASSUME NEW u, \/ state' = state
                    \/ \E s \in State \ {"RUNNING"} : state' = [state EXCEPT ![u] = s]
      PROVE  FALSE
  BY <1>0, <1>1
<1>2. ASSUME NEW u, Reaped(u) PROVE FALSE
  BY <1>1, <1>2 DEF Reaped, State
<1>3. ASSUME NEW u, Terminate(u) PROVE FALSE
  BY <1>1, <1>3 DEF Terminate, State
<1>4. ASSUME NEW u, NEW k, OSResumeThread(u, k) \/ OSSuspendThread(u, k) PROVE FALSE
  BY <1>1, <1>4 DEF OSResumeThread, OSSuspendThread, MadeReady, State
<1>5. ASSUME NEW q, NEW k, OSSleepThread(q, k) PROVE FALSE
  BY <1>1, <1>5 DEF OSSleepThread, State
<1>6. ASSUME NEW m, NEW k, OSLockMutex(m, k) \/ OSUnlockMutex(m, k) PROVE FALSE
  BY <1>1, <1>6 DEF OSLockMutex, OSUnlockMutex
<1>7. CASE Continue
  <2>1. SelectThread \/ SelectThreadFirstTimers => FALSE
    BY <1>1 DEF SelectThread, SelectThreadFirstTimers, SelectBody, threadVars, State
  <2>2. TimerFires \/ TimersDone \/ Reconcile \/ HealSleeper => FALSE
    BY <1>1 DEF TimerFires, TimersDone, Reconcile, HealSleeper, threadVars
  <2>3. SleepCall \/ ResumeCall \/ SuspendCall \/ LockRetry => FALSE
    BY <1>4, <1>5, <1>6 DEF SleepCall, ResumeCall, SuspendCall, LockRetry
  <2>4. SleepReturns => At("slept") /\ state[t] = "WAITING"
    BY <1>0 DEF SleepReturns
  <2>5. WakeHead \/ WakeDone \/ Reschedule \/ ExitReschedules \/ UnlockAllMutexes => FALSE
    BY <1>1 DEF WakeHead, WakeDone, Reschedule, ExitReschedules, UnlockAllMutexes, threadVars, State
  <2>6. JoinReturns => FALSE
    BY <1>2 DEF JoinReturns
  <2>7. ParkReturns => At("parked")
    BY DEF ParkReturns
  <2>8. PromoteStep \/ PropagateStep => FALSE
    BY <1>1 DEF PromoteStep, PropagateStep
  <2> QED
    BY <1>7, <2>1, <2>2, <2>3, <2>4, <2>5, <2>6, <2>7, <2>8 DEF Continue
<1>8. ~IdlePass
  BY <1>1 DEF IdlePass, IdleTimers, IdleAudio, IdleRetrace, IdleNoRetrace, IdleCheck, threadVars
<1>9. ~CallbackStep
  BY <1>1, <1>4 DEF CallbackStep, CallbackWakes, CallbackResumes, CallbackReturns, threadVars
<1>10. ~GuestStep
  <2>1. ASSUME GuestCreates PROVE FALSE
    <3>1. PICK u \in Thread : state' = [state EXCEPT ![u] = "READY"]
      BY <2>1 DEF GuestCreates, OSCreateThread
    <3> QED
      BY <1>1, <3>1 DEF State
  <2>2. ~GuestResumes /\ ~GuestSuspends /\ ~GuestSleeps
    BY <1>4, <1>5 DEF GuestResumes, GuestSuspends, GuestSleeps
  <2>3. ~GuestWakes /\ ~GuestYields /\ ~GuestPollsRetrace /\ ~DeferredRetrace /\ ~DeferredAudio
    BY <1>1 DEF GuestWakes, GuestYields, GuestPollsRetrace, DeferredRetrace, DeferredAudio, threadVars
  <2>4. ~GuestLocks /\ ~GuestUnlocks
    BY <1>6 DEF GuestLocks, GuestUnlocks
  <2>5. ~GuestExits /\ ~GuestCancels
    BY <1>3 DEF GuestExits, GuestCancels, OSExitThread, OSCancelThread
  <2>6. ~GuestJoins
    BY <1>1, <1>2 DEF GuestJoins, OSJoinThread
  <2>7. ~GuestDetaches
    BY <1>2 DEF GuestDetaches, OSDetachThread
  <2>8. ~GuestSleepsTicks
    BY <1>1 DEF GuestSleepsTicks, OSSleepTicks, threadVars
  <2> QED
    BY <2>1, <2>2, <2>3, <2>4, <2>5, <2>6, <2>7, <2>8 DEF GuestStep
<1> QED
  BY <1>7, <1>8, <1>9, <1>10 DEF Next

(* The thread SelectThread gives the processor to is the best of all that   *)
(* are linked on a run queue.  The pending mask is exact, so the best bit   *)
(* of it names the best run queue that is not empty; the head of that queue *)
(* has the queue's priority.                                                *)
THEOREM ChoiceIsBest == Spec => BestThreadRuns
<1> DEFINE A(t) == state[t] = "READY" /\ state'[t] = "RUNNING" /\ ~At("parked")
                   => \A p \in Prio : p < prio[t] => queue[RunQ(p)] = <<>>
<1>1. ASSUME IInv, Next, NEW t \in Thread PROVE A(t)
  <2> SUFFICES ASSUME state[t] = "READY", state'[t] = "RUNNING", ~At("parked"),
                      NEW p \in Prio, p < prio[t]
               PROVE  queue[RunQ(p)] = <<>>
    OBVIOUS
  <2> DEFINE b == Best(pending)
             u == Head(queue[RunQ(b)])
  <2>0. Inv /\ Seated /\ Fibers
    BY <1>1 DEF IInv
  <2>1. DispatchThread
    BY <1>1, <2>0, BecomesRunning
  <2>2. b \in pending /\ u \in Thread /\ prio[u] = b /\ state' = [state EXCEPT ![u] = "RUNNING"]
    BY <2>0, <2>1, DispatchChooses
  <2>3. pending \in SUBSET Nat /\ b \in Nat
    BY <2>0, <2>2, Fields, QueueNames
  <2>4. \A r \in pending : b <= r
    BY <2>2, <2>3, BestIsLeast
  <2> HIDE DEF b, u
  <2>5. t = u
    BY <2>0, <2>2, Fields
  <2>6. p \in Nat /\ p \notin pending
    BY <2>2, <2>3, <2>4, <2>5, QueueKinds
  <2> QED
    BY <2>0, <2>6, Fields, QueueKinds
<1>2. ASSUME UNCHANGED vars, NEW t \in Thread PROVE A(t)
  BY <1>2 DEF vars, threadVars
<1>3. IInv /\ [Next]_vars => [\A t \in Thread : A(t)]_vars
  BY <1>1, <1>2
<1> QED
  BY <1>3, StrongInvariant, PTL DEF Spec, BestThreadRuns

(* In the queues R nobody stands on a run queue before a thread that is     *)
(* linked there now and before which it does not stand now.                 *)
Turns(R) == \A p \in Prio : KeepsOrder(queue[RunQ(p)], R[RunQ(p)])

LEMMA OnRunQueue ==
    ASSUME Inv, Seated, NEW p \in AnyPrio, NEW t \in Range(queue[RunQ(p)])
    PROVE  t \in Thread /\ state[t] = "READY" /\ suspend[t] = 0 /\ prio[t] = p
<1>1. RunQ(p) \in Queue /\ RunQ(p) \in RunQueue /\ queue[RunQ(p)] \in Seq(Thread)
  BY QueueKinds, SimpleNow DEF Simple, Queues
<1>2. t \in Thread /\ RunQ(p) \in Holds(queue, t)
  BY <1>1, InRange DEF Holds
<1>3. state[t] = "READY" /\ suspend[t] = 0 /\ RunQ(p) = RunQ(prio[t]) /\ prio[t] \in AnyPrio
  BY <1>1, <1>2, SeatNow, Fields DEF Seat
<1> QED
  BY <1>2, <1>3, QueueKinds

LEMMA TurnsOff ==
    ASSUME NEW R, \A p \in Prio : R[RunQ(p)] = queue[RunQ(p)]
    PROVE  Turns(R)
BY DEF Turns, KeepsOrder

(* A thread leaves the queue it is linked on.                               *)
LEMMA TurnsLeft ==
    ASSUME Inv, Seated, NEW t \in Thread
    PROVE  /\ Turns(QueueWithout(t))
           /\ QueueWithout(t) \in Queues
           /\ \A q \in Queue : t \notin Range(queue[q]) => QueueWithout(t)[q] = queue[q]
<1>1. queue \in Queues /\ QueueWithout(t) \in Queues
  BY Unlinking, Fields DEF Moved, Moves, Simple
<1>2. \A q \in Queue : t \in Range(queue[q]) => q = queueOf[t]
  BY SimpleNow, SeatNow DEF Seat
<1>3. \A q \in Queue : QueueWithout(t)[q] = queue[q] \/ QueueWithout(t)[q] = Unlinked(queue[q], t)
  BY <1>1 DEF QueueWithout, Queues
<1>4. ASSUME NEW q \in Queue, t \notin Range(queue[q]) PROVE QueueWithout(t)[q] = queue[q]
  <2>1. queue[q] \in Seq(Thread)
    BY <1>1 DEF Queues
  <2>2. ~IsQueued(queue[q], t)
    BY <1>4, <2>1, InRange DEF IsQueued
  <2> QED
    BY <1>3, <2>2 DEF Unlinked
<1>5. ASSUME NEW p \in Prio PROVE KeepsOrder(queue[RunQ(p)], QueueWithout(t)[RunQ(p)])
  <2>1. RunQ(p) \in Queue /\ queue[RunQ(p)] \in Seq(Thread)
    BY <1>1, QueueKinds DEF Queues
  <2>2. KeepsOrder(queue[RunQ(p)], Unlinked(queue[RunQ(p)], t))
    BY <2>1, OrderUnlinked
  <2>3. KeepsOrder(queue[RunQ(p)], queue[RunQ(p)])
    BY DEF KeepsOrder
  <2> QED
    BY <1>3, <2>1, <2>2, <2>3
<1> QED
  BY <1>1, <1>4, <1>5 DEF Turns

(* A thread that is not linked there enters a wait queue, or a run queue as *)
(* a thread of that queue's priority: behind all that are linked.           *)
LEMMA TurnsEntered ==
    ASSUME Inv, Seated, NEW Q \in Queues, Turns(Q), NEW t \in Thread, NEW q \in Queue, NEW r
    PROVE  /\ q \in WaitQueue => Turns([Q EXCEPT ![q] = r])
           /\ \A p \in Prio :
                 /\ q = RunQ(p) /\ Q[q] = queue[q] /\ t \notin Range(queue[q])
                 /\ r \in {Append(Q[q], t), InsertedByPriority(Q[q], t, p, prio)}
                 => Turns([Q EXCEPT ![q] = r])
<1>1. \A p \in Prio : RunQ(p) \in Queue /\ RunQ(p) \notin WaitQueue
  BY QueueKinds
<1>2. \A x \in Queue : x # q => [Q EXCEPT ![q] = r][x] = Q[x]
  BY DEF Queues
<1>3. [Q EXCEPT ![q] = r][q] = r
  BY DEF Queues
<1>4. q \in WaitQueue => Turns([Q EXCEPT ![q] = r])
  BY <1>1, <1>2 DEF Turns
<1>5. ASSUME NEW p \in Prio, q = RunQ(p), Q[q] = queue[q], t \notin Range(queue[q]),
             r \in {Append(Q[q], t), InsertedByPriority(Q[q], t, p, prio)}
      PROVE  Turns([Q EXCEPT ![q] = r])
  <2>1. queue[q] \in Seq(Thread) /\ p \in AnyPrio /\ p \in Nat /\ prio \in [Thread -> Nat]
    BY <1>5, Fields, QueueKinds DEF Queues
  <2>2. \A u \in Range(queue[q]) : prio[u] <= p
    BY <1>5, <2>1, OnRunQueue
  <2>3. r = Append(queue[q], t)
    BY <1>5, <2>1, <2>2, InsertedBehind
  <2>4. KeepsOrder(queue[q], r)
    BY <1>5, <2>1, <2>3, OrderAppended
  <2>5. \A x \in Prio : x # p => RunQ(x) # q
    BY <1>5, QueueKinds
  <2> QED
    BY <1>1, <1>2, <1>3, <1>5, <2>4, <2>5 DEF Turns
<1> QED
  BY <1>4, <1>5

(* A thread moves behind those of a wait queue or of another run queue.     *)
LEMMA TurnsMoved ==
    ASSUME Inv, Seated, NEW t \in Thread, NEW q \in Queue, NEW p \in AnyPrio,
           q \in WaitQueue \/ (p \in Prio /\ q = RunQ(p) /\ t \notin Range(queue[q]))
    PROVE  Turns(Requeued(t, q, p))
<1> DEFINE Q == QueueWithout(t)
<1>1. /\ Q \in Queues /\ Turns(Q)
      /\ t \notin Range(queue[q]) => Q[q] = queue[q]
  BY TurnsLeft
<1> HIDE DEF Q
<1>2. Turns([Q EXCEPT ![q] = InsertedByPriority(Q[q], t, p, prio)])
  BY <1>1, TurnsEntered
<1> QED
  BY <1>2 DEF Requeued, Q

LEMMA ResumeTurns ==
    ASSUME Inv, Seated, NEW t \in Thread, NEW k, OSResumeThread(t, k)
    PROVE  Turns(queue')
<1> DEFINE p == EffectivePriority(t, owned[t])
<1>1. p \in Prio /\ p \in AnyPrio
  BY EffectivePriorityRuns, QueueKinds, OwnSets
<1> HIDE DEF p
<1>2. CASE UNCHANGED queue
  BY <1>2, TurnsOff
<1>3. CASE state[t] = "WAITING" /\ queueOf[t] # None /\ queue' = Requeued(t, queueOf[t], p)
  BY <1>1, <1>3, SeatNow, QueueKinds, TurnsMoved DEF Seat
<1>4. CASE suspend[t] = 1 /\ queue' = [queue EXCEPT ![RunQ(p)] = InsertedByPriority(@, t, p, prio)]
  <2>1. t \notin Range(queue[RunQ(p)])
    BY <1>1, <1>4, OnRunQueue
  <2>2. queue \in Queues /\ Turns(queue) /\ RunQ(p) \in Queue
    BY <1>1, Fields, QueueKinds, TurnsOff
  <2> QED
    BY <1>1, <1>4, <2>1, <2>2, TurnsEntered
<1> QED
  BY <1>2, <1>3, <1>4 DEF OSResumeThread, MadeReady, p

LEMMA SuspendTurns ==
    ASSUME Inv, Seated, NEW t \in Thread, NEW k, OSSuspendThread(t, k)
    PROVE  Turns(queue')
<1>1. CASE UNCHANGED queue
  BY <1>1, TurnsOff
<1>2. CASE queue' = QueueWithout(t)
  BY <1>2, TurnsLeft
<1>3. CASE /\ state[t] = "WAITING" /\ queueOf[t] # None
           /\ queue' = Requeued(t, queueOf[t], SuspendedWaitPriority)
  BY <1>3, SeatNow, QueueNames, QueueKinds, TurnsMoved DEF Seat
<1> QED
  BY <1>1, <1>2, <1>3 DEF OSSuspendThread, Removed

(* A thread whose priority changes enters another run queue than its own.   *)
LEMMA PriorityTurns ==
    ASSUME Inv, Seated, NEW t \in Thread, NEW p \in Prio, prio[t] # p,
           SetThreadEffectivePriority(t, p)
    PROVE  Turns(queue')
<1>1. p \in AnyPrio /\ RunQ(p) \in Queue /\ t \notin Range(queue[RunQ(p)])
  BY QueueKinds, OnRunQueue
<1>2. CASE UNCHANGED queue
  BY <1>2, TurnsOff
<1>3. CASE queue' = Requeued(t, RunQ(p), p)
  BY <1>1, <1>3, TurnsMoved
<1>4. CASE state[t] = "WAITING" /\ queueOf[t] # None /\ queue' = Requeued(t, queueOf[t], p)
  BY <1>1, <1>4, SeatNow, QueueKinds, TurnsMoved DEF Seat
<1> QED
  BY <1>2, <1>3, <1>4 DEF SetThreadEffectivePriority

LEMMA WakeTurns ==
    ASSUME Inv, Seated, WakeHead
    PROVE  Turns(queue')
<1> DEFINE t == Head(queue[Top.q])
           left == [queue EXCEPT ![Top.q] = Tail(@)]
<1>1. /\ Top.q \in WaitQueue /\ t \in Thread /\ state[t] = "WAITING" /\ Moved(left, t, {})
      /\ \/ /\ prio[t] \in Prio
            /\ queue' = [left EXCEPT ![RunQ(prio[t])] = Append(@, t)]
         \/ queue' = left
  BY WakeMoves
<1>2. Top.q \in Queue /\ queue \in Queues /\ Turns(queue)
  BY <1>1, Fields, QueueKinds, TurnsOff
<1>3. Turns(left) /\ left \in Queues
  BY <1>1, <1>2, TurnsEntered DEF Moved, Moves, Simple
<1>4. \A p \in Prio : left[RunQ(p)] = queue[RunQ(p)] /\ RunQ(p) \in Queue
  BY <1>1, <1>2, QueueKinds DEF Queues
<1>5. \A p \in Prio : t \notin Range(queue[RunQ(p)])
  BY <1>1, OnRunQueue, QueueKinds
<1> HIDE DEF t, left
<1>6. CASE /\ prio[t] \in Prio
           /\ queue' = [left EXCEPT ![RunQ(prio[t])] = Append(@, t)]
  <2> DEFINE q == RunQ(prio[t])
             r == Append(left[q], t)
  <2>1. q \in Queue /\ left[q] = queue[q] /\ t \notin Range(queue[q])
    BY <1>4, <1>5, <1>6
  <2>2. queue' = [left EXCEPT ![q] = r]
    BY <1>6
  <2>3. q = RunQ(prio[t]) /\ r \in {Append(left[q], t), InsertedByPriority(left[q], t, prio[t], prio)}
    OBVIOUS
  <2> HIDE DEF q, r
  <2>4. Turns([left EXCEPT ![q] = r])
    BY <1>1, <1>3, <1>6, <2>1, <2>3, TurnsEntered
  <2> QED
    BY <2>2, <2>4
<1> QED
  BY <1>1, <1>3, <1>6

LEMMA SelectTurns ==
    ASSUME Inv, Seated, NEW force, NEW k, SelectBody(force, k)
    PROVE  Turns(queue')
<1>1. CASE UNCHANGED queue
  BY <1>1, TurnsOff
<1>2. CASE /\ running # None /\ state[running] = "RUNNING"
           /\ queue' = [queue EXCEPT ![RunQ(prio[running])] = Append(@, running)]
  <2> DEFINE p == prio[running]
  <2>1. running \in Thread /\ p \in AnyPrio
    BY <1>2, Fields
  <2>2. RunQ(p) \in Queue /\ running \notin Range(queue[RunQ(p)])
    BY <1>2, <2>1, QueueKinds, OnRunQueue
  <2>3. queue \in Queues /\ Turns(queue)
    BY Fields, TurnsOff
  <2>4. CASE p \in Prio
    BY <1>2, <2>1, <2>2, <2>3, <2>4, TurnsEntered
  <2>5. CASE p \notin Prio
    <3>1. \A r \in Prio : queue'[RunQ(r)] = queue[RunQ(r)]
      BY <1>2, <2>1, <2>3, <2>5, QueueKinds DEF Queues
    <3> QED
      BY <3>1, TurnsOff
  <2> QED
    BY <2>4, <2>5
<1> QED
  BY <1>1, <1>2 DEF SelectBody

LEMMA DispatchTurns ==
    ASSUME Inv, Seated, Fibers, DispatchThread
    PROVE  Turns(queue')
<1> DEFINE b == Best(pending)
<1>1. /\ b \in Prio /\ queue[RunQ(b)] # <<>>
      /\ queue' = [queue EXCEPT ![RunQ(b)] = Tail(@)]
  BY DispatchChooses
<1> HIDE DEF b
<1>2. RunQ(b) \in Queue /\ queue \in Queues /\ queue[RunQ(b)] \in Seq(Thread)
  BY <1>1, Fields, QueueKinds DEF Queues
<1>3. KeepsOrder(queue[RunQ(b)], Tail(queue[RunQ(b)]))
  BY <1>1, <1>2, OrderTail
<1>4. ASSUME NEW p \in Prio PROVE KeepsOrder(queue[RunQ(p)], queue'[RunQ(p)])
  <2>1. CASE p = b
    BY <1>1, <1>2, <1>3, <2>1 DEF Queues
  <2>2. CASE p # b
    <3>1. queue'[RunQ(p)] = queue[RunQ(p)]
      BY <1>1, <1>2, <2>2, QueueKinds DEF Queues
    <3> QED
      BY <3>1 DEF KeepsOrder
  <2> QED
    BY <2>1, <2>2
<1> QED
  BY <1>4 DEF Turns

(* A call that changes one wait queue only.                                 *)
LEMMA WaitTurns ==
    ASSUME Inv, Seated, NEW q \in WaitQueue, NEW s, queue' = [queue EXCEPT ![q] = s]
    PROVE  Turns(queue')
<1>1. queue \in Queues /\ Turns(queue) /\ q \in Queue
  BY Fields, QueueKinds, TurnsOff
<1>2. \A p \in Prio : RunQ(p) \in Queue /\ RunQ(p) # q
  BY QueueKinds
<1>3. \A p \in Prio : queue'[RunQ(p)] = queue[RunQ(p)]
  BY <1>1, <1>2 DEF Queues
<1> QED
  BY <1>3, TurnsOff

LEMMA SleepTurns ==
    ASSUME Inv, Seated, NEW q \in WaitQueue, NEW k, OSSleepThread(q, k)
    PROVE  Turns(queue')
BY WaitTurns, TurnsOff DEF OSSleepThread

LEMMA EveryTurn ==
    ASSUME IInv, Next
    PROVE  Turns(queue')
<1>0. Inv /\ Seated /\ Fibers
  BY DEF IInv
<1>1. UNCHANGED queue => Turns(queue')
  BY TurnsOff
<1>2. ASSUME NEW op, At(op) PROVE Top \in Frame /\ Top.op = op
  BY <1>0, <1>2, StackTop
<1>3. CASE Continue
  <2>1. SelectThread \/ SelectThreadFirstTimers => Turns(queue')
    BY <1>0, <1>1, SelectTurns DEF SelectThread, SelectThreadFirstTimers, schedVars
  <2>2. DispatchThread => Turns(queue')
    BY <1>0, DispatchTurns
  <2>3. TimerFires \/ TimersDone \/ Reconcile \/ HealSleeper => Turns(queue')
    BY <1>1 DEF TimerFires, TimersDone, Reconcile, HealSleeper, schedVars
  <2>4. ASSUME SleepCall PROVE Turns(queue')
    BY <1>0, <1>2, <2>4, FrameFields, SleepTurns DEF SleepCall
  <2>5. ASSUME SleepReturns PROVE Turns(queue')
    BY <1>0, <1>1, <1>2, <2>5, FrameFields, WaitTurns DEF SleepReturns
  <2>6. WakeHead \/ WakeDone \/ Reschedule \/ ExitReschedules \/ UnlockAllMutexes => Turns(queue')
    BY <1>0, <1>1, WakeTurns DEF WakeDone, Reschedule, ExitReschedules, UnlockAllMutexes, schedVars
  <2>7. ASSUME ResumeCall \/ SuspendCall PROVE Turns(queue')
    BY <1>0, <1>2, <2>7, FrameFields, ResumeTurns, SuspendTurns DEF ResumeCall, SuspendCall
  <2>8. JoinReturns \/ ParkReturns \/ LockRetry => Turns(queue')
    BY <1>1 DEF JoinReturns, ParkReturns, LockRetry, OSLockMutex, schedVars
  <2>9. ASSUME PromoteStep PROVE Turns(queue')
    <3>1. CASE UNCHANGED queue
      BY <1>1, <3>1
    <3>2. CASE /\ Top.o # None /\ ~(prio[Top.o] <= Top.p)
               /\ SetThreadEffectivePriority(Top.o, Top.p)
      <4>1. Top.o \in Thread /\ Top.p \in Prio
        BY <1>0, <1>2, <2>9, <3>2, FrameFields, TopFits DEF PromoteStep, Fits
      <4>2. prio[Top.o] # Top.p
        BY <1>0, <3>2, <4>1, Fields, QueueKinds
      <4> QED
        BY <1>0, <3>2, <4>1, <4>2, PriorityTurns
    <3> QED
      BY <2>9, <3>1, <3>2 DEF PromoteStep
  <2>10. ASSUME PropagateStep PROVE Turns(queue')
    <3> DEFINE p == EffectivePriority(Top.o, owned[Top.o])
    <3>1. CASE UNCHANGED queue
      BY <1>1, <3>1
    <3>2. CASE Top.o # None /\ prio[Top.o] # p /\ SetThreadEffectivePriority(Top.o, p)
      <4>1. Top.o \in Thread
        BY <1>2, <2>10, <3>2, FrameFields DEF PropagateStep
      <4>2. p \in Prio
        BY <1>0, <4>1, OwnSets, EffectivePriorityRuns
      <4> HIDE DEF p
      <4> QED
        BY <1>0, <3>2, <4>1, <4>2, PriorityTurns
    <3> QED
      BY <2>10, <3>1, <3>2 DEF PropagateStep
  <2> QED
    BY <1>3, <2>1, <2>2, <2>3, <2>4, <2>5, <2>6, <2>7, <2>8, <2>9, <2>10 DEF Continue
<1>4. IdlePass => Turns(queue')
  BY <1>1 DEF IdlePass, IdleTimers, IdleAudio, IdleRetrace, IdleNoRetrace, IdleCheck, schedVars
<1>5. CallbackStep => Turns(queue')
  BY <1>0, <1>1, ResumeTurns
     DEF CallbackStep, CallbackWakes, CallbackResumes, CallbackReturns, Alive, schedVars
<1>6. CASE GuestStep
  <2>1. ASSUME GuestCreates PROVE Turns(queue')
    BY <1>0, <2>1, WaitTurns, QueueKinds DEF GuestCreates, OSCreateThread
  <2>2. GuestResumes \/ GuestSuspends => Turns(queue')
    BY <1>0, ResumeTurns, SuspendTurns DEF GuestResumes, GuestSuspends, Alive
  <2>3. ASSUME GuestSleeps PROVE Turns(queue')
    BY <1>0, <2>3, SleepTurns DEF GuestSleeps, WaitQueue
  <2>4. GuestWakes \/ GuestYields \/ GuestPollsRetrace \/ DeferredRetrace \/ DeferredAudio
        => Turns(queue')
    BY <1>1 DEF GuestWakes, GuestYields, GuestPollsRetrace, DeferredRetrace, DeferredAudio, schedVars
  <2>5. GuestLocks \/ GuestUnlocks => Turns(queue')
    BY <1>1 DEF GuestLocks, GuestUnlocks, OSLockMutex, OSUnlockMutex, schedVars
  <2>6. GuestExits => Turns(queue')
    BY <1>1 DEF GuestExits, OSExitThread, schedVars
  <2>7. GuestCancels => Turns(queue')
    BY <1>0, <1>1, TurnsLeft DEF GuestCancels, OSCancelThread, Removed
  <2>8. GuestJoins \/ GuestDetaches \/ GuestSleepsTicks => Turns(queue')
    BY <1>1 DEF GuestJoins, GuestDetaches, GuestSleepsTicks, OSJoinThread, OSDetachThread,
                OSSleepTicks, schedVars
  <2> QED
    BY <1>6, <2>1, <2>2, <2>3, <2>4, <2>5, <2>6, <2>7, <2>8 DEF GuestStep
<1> QED
  BY <1>3, <1>4, <1>5, <1>6 DEF Next

(* Threads of one priority take turns: whatever a thread goes through, it   *)
(* never gets ahead of one that was linked on the run queue before it.  A   *)
(* run queue only holds threads of its own priority, so that a resumed or   *)
(* promoted thread is inserted behind them all, and a change of priority    *)
(* never inserts a thread into the run queue it is on.                      *)
THEOREM TurnsAreKept == Spec => NoOvertaking
<1> DEFINE A == \A p \in Prio : \A a, b \in Thread :
                   /\ IsQueued(queue[RunQ(p)], b)
                   /\ Ahead(queue'[RunQ(p)], a, b)
                   => Ahead(queue[RunQ(p)], a, b)
<1>1. Turns(queue') => A
  BY DEF Turns, KeepsOrder, IsQueued, Ahead, Range
<1>2. UNCHANGED vars => A
  BY DEF vars, schedVars
<1>3. IInv /\ [Next]_vars => [A]_vars
  BY <1>1, <1>2, EveryTurn
<1> QED
  BY <1>3, StrongInvariant, PTL DEF Spec, NoOvertaking

-----------------------------------------------------------------------------
(* Sleepers.                                                                *)

(* A program that suspends no threads and ends none.  A suspension that is  *)
(* taken back after the park is over looks like a park; and a thread that   *)
(* ends while it resumes stranded sleepers, when a sleeper better than      *)
(* itself has taken the processor, leaves the others asleep.                *)
Undisturbed == Calls \cap {"suspend", "exit", "cancel"} = {}

Heals(t) ==
    \E u \in Thread : \E f \in Frames(u) : f.op = "heal" /\ t \in f.lost

(* Somebody looks after t: its park is outstanding, it is on the list of a  *)
(* thread that heals sleepers, or it is being resumed.                      *)
Covered(t) == t \in outstanding \/ Heals(t) \/ (At("resume") /\ Top.t = t)

(* No thread ends, and frames are those of threads that have been created.  *)
Live ==
    /\ state[exec] # "NONE"
    /\ \A t \in Thread : state[t] # "MORIBUND" /\ (state[t] = "NONE" => stack[t] = <<>>)

(* Only a thread that has not started or is parked is suspended, once.      *)
Single ==
    \A t \in Thread : suspend[t] <= 1 /\ (suspend[t] # 0 => state[t] = "READY")

(* A thread suspends itself right after it has made its park outstanding.   *)
Parking ==
    \A t \in Thread : \A f \in Frames(t) : f.op = "suspend" =>
        /\ t = exec /\ At("suspend") /\ Top.t = exec /\ Rest = <<Parked>>
        /\ exec \in outstanding

Watched == \A t \in Thread : suspend[t] # 0 /\ Parked \in Frames(t) => Covered(t)

Parks == Live /\ Single /\ Parking /\ Watched

(* The frames of a step that pushes at most three of them.                  *)
LEMMA RangesPushed ==
    ASSUME NEW k \in Stack
    PROVE  /\ Range(<<>> \o k) = Range(k)
           /\ \A f : Range(<<f>> \o k) = {f} \cup Range(k)
           /\ \A f, g : Range(<<f, g>> \o k) = {f, g} \cup Range(k)
           /\ \A f, g, h : Range(<<f, g, h>> \o k) = {f, g, h} \cup Range(k)
<1>1. ASSUME NEW S, NEW s \in Seq(S)
      PROVE  Range(s \o k) = Range(s) \cup Range(k)
  <2>1. s \in Seq(S \cup Frame) /\ k \in Seq(S \cup Frame)
    BY <1>1 DEF Stack
  <2> QED
    BY <2>1, RangeConcatenation
<1>2. Range(<<>> \o k) = Range(k)
  BY <1>1, ShortRanges
<1>3. ASSUME NEW f PROVE Range(<<f>> \o k) = {f} \cup Range(k)
  <2>1. <<f>> \in Seq({f})
    OBVIOUS
  <2> QED
    BY <1>1, <2>1, ShortRanges
<1>4. ASSUME NEW f, NEW g PROVE Range(<<f, g>> \o k) = {f, g} \cup Range(k)
  <2> DEFINE s == <<f, g>>
             F == {f, g}
  <2>1. s \in Seq(F) /\ Range(s) = F
    BY ShortRanges
  <2> HIDE DEF s, F
  <2>2. Range(s \o k) = F \cup Range(k)
    BY <1>1, <2>1
  <2> QED
    BY <2>2 DEF s, F
<1>5. ASSUME NEW f, NEW g, NEW h PROVE Range(<<f, g, h>> \o k) = {f, g, h} \cup Range(k)
  <2> DEFINE s == <<f, g, h>>
             F == {f, g, h}
  <2>1. s \in Seq(F) /\ Range(s) = F
    BY ShortRanges
  <2> HIDE DEF s, F
  <2>2. Range(s \o k) = F \cup Range(k)
    BY <1>1, <2>1
  <2> QED
    BY <2>2 DEF s, F
<1> QED
  BY <1>2, <1>3, <1>4, <1>5

(* The executing fiber goes on with k under frames that park nobody.        *)
Harmless(f) == f.op # "suspend" /\ f # Parked

Continues(k) ==
    /\ \A u \in Thread : u # exec => stack'[u] = stack[u]
    /\ Range(k) \subseteq Range(stack'[exec])
    /\ \A f \in Range(stack'[exec]) : f \in Range(k) \/ Harmless(f)

LEMMA Continuing ==
    ASSUME Inv, NEW k \in Stack
    PROVE  /\ Become(<<>>, k) => Continues(k)
           /\ \A f : Harmless(f) /\ Become(<<f>>, k) => Continues(k)
           /\ \A f, g : Harmless(f) /\ Harmless(g) /\ Become(<<f, g>>, k) => Continues(k)
           /\ \A f, g, h : /\ Harmless(f) /\ Harmless(g) /\ Harmless(h)
                           /\ Become(<<f, g, h>>, k)
                           => Continues(k)
<1>1. stack \in [Thread -> Stack] /\ exec \in Thread
  BY DEF Inv, TypeOK, HostTypes, Stack
<1>2. ASSUME NEW fs, Become(fs, k)
      PROVE  /\ stack'[exec] = fs \o k
             /\ \A u \in Thread : u # exec => stack'[u] = stack[u]
  BY <1>1, <1>2 DEF Become
<1>3. ASSUME NEW fs, Become(fs, k), NEW F, Range(fs \o k) = F \cup Range(k),
             \A f \in F : Harmless(f)
      PROVE  Continues(k)
  BY <1>2, <1>3 DEF Continues
<1>4. Become(<<>>, k) => Continues(k)
  <2>1. Range(<<>> \o k) = Range(k)
    BY RangesPushed
  <2> QED
    BY <1>2, <2>1 DEF Continues
<1>5. ASSUME NEW f, Harmless(f), Become(<<f>>, k) PROVE Continues(k)
  <2>1. Range(<<f>> \o k) = {f} \cup Range(k)
    BY RangesPushed
  <2> QED
    BY <1>3, <1>5, <2>1
<1>6. ASSUME NEW f, NEW g, Harmless(f), Harmless(g), Become(<<f, g>>, k) PROVE Continues(k)
  <2>1. Range(<<f, g>> \o k) = {f, g} \cup Range(k)
    BY RangesPushed
  <2> QED
    BY <1>3, <1>6, <2>1
<1>7. ASSUME NEW f, NEW g, NEW h, Harmless(f), Harmless(g), Harmless(h),
             Become(<<f, g, h>>, k)
      PROVE  Continues(k)
  <2>1. Range(<<f, g, h>> \o k) = {f, g, h} \cup Range(k)
    BY RangesPushed
  <2> QED
    BY <1>3, <1>7, <2>1
<1> QED
  BY <1>4, <1>5, <1>6, <1>7

(* What a step may do to threads that are suspended or not yet created.     *)
Gentle ==
    /\ state'[exec'] # "NONE"
    /\ \A t \in Thread :
          /\ state'[t] # "MORIBUND" /\ (state'[t] = "NONE" => state[t] = "NONE")
          /\ suspend'[t] # 0 => suspend'[t] = suspend[t] /\ state'[t] = state[t]

(* The parks are kept by a step that pushes such frames over frames of the  *)
(* fiber that do not suspend it, and that leaves nobody uncovered.          *)
LEMMA ParksKept ==
    ASSUME Inv, Parks, NEW k \in Stack, Continues(k), Range(k) \subseteq Frames(exec),
           \A f \in Range(k) : f.op # "suspend", \A f \in Frames(exec) : f.op # "suspend",
           Gentle, \A t \in Thread : suspend'[t] # 0 /\ Covered(t) => Covered(t)'
    PROVE  Parks'
<1>1. exec \in Thread
  BY Fields
<1>2. \A t \in Thread : t # exec => Frames(t)' = Frames(t) /\ stack'[t] = stack[t]
  BY DEF Continues, Frames
<1>3. \A f \in Range(stack'[exec]) : f \in Frames(exec) \/ Harmless(f)
  BY DEF Continues
<1>4. \A t \in Thread : Frames(t)' = Range(stack'[t])
  BY DEF Frames
<1>5. Live'
  BY <1>1, <1>2 DEF Live, Gentle, Parks
<1>6. Single'
  BY DEF Single, Gentle, Parks
<1>7. ASSUME NEW t \in Thread, NEW f \in Frames(t)', f.op = "suspend" PROVE FALSE
  BY <1>2, <1>3, <1>4, <1>7 DEF Parks, Parking, Harmless
<1>8. \A t \in Thread : Parked \in Frames(t)' => Parked \in Frames(t)
  BY <1>2, <1>3, <1>4 DEF Harmless
<1>9. Watched'
  BY <1>8 DEF Watched, Gentle, Parks
<1> QED
  BY <1>5, <1>6, <1>7, <1>9 DEF Parks, Parking

(* Guest code goes on with no frames, a callback with its own, and a call   *)
(* with the frames below it.                                                *)
Goes(k) ==
    \/ GuestCode /\ k = <<>>
    \/ CallbackCode /\ k = stack[exec]
    \/ stack[exec] # <<>> /\ ~At("suspend") /\ k = Rest

LEMMA GoesOn ==
    ASSUME IInv, Parks, NEW k, Goes(k)
    PROVE  /\ k \in Stack /\ Range(k) \subseteq Frames(exec) /\ exec \in Thread
           /\ \A f \in Range(k) : f.op # "suspend"
           /\ \A f \in Frames(exec) : f.op # "suspend"
           /\ ~At("heal") => \A f \in Frames(exec) : f.op = "heal" => f \in Range(k)
<1>1. exec \in Thread /\ stack[exec] \in Stack
  BY OwnSets DEF IInv
<1>2. ~At("suspend")
  BY DEF Goes, GuestCode, CallbackCode, At
<1>3. \A f \in Frames(exec) : f.op # "suspend"
  BY <1>1, <1>2 DEF Parks, Parking
<1>4. CASE GuestCode /\ k = <<>>
  <2>1. Frames(exec) = {} /\ Range(k) = {}
    BY <1>4, ShortRanges DEF GuestCode, Frames
  <2> QED
    BY <1>1, <1>4, <2>1, ShortStacks
<1>5. CASE CallbackCode /\ k = stack[exec]
  BY <1>1, <1>3, <1>5 DEF Frames
<1>6. CASE stack[exec] # <<>> /\ k = Rest
  <2>1. Rest \in Stack /\ Frames(exec) = {Top} \cup Range(Rest)
    BY <1>6, RestFrames DEF IInv
  <2>2. ~At("heal") => Top.op # "heal"
    BY <1>6 DEF At, Top
  <2> QED
    BY <1>1, <1>3, <1>6, <2>1, <2>2
<1> QED
  BY <1>4, <1>5, <1>6 DEF Goes

LEMMA CoversKept ==
    ASSUME IInv, Parks, NEW k, Goes(k), Continues(k), ~At("heal"), NEW t \in Thread,
           ~(At("resume") /\ Top.t = t), t \in outstanding => t \in outstanding', Covered(t)
    PROVE  Covered(t)'
<1>1. ASSUME Heals(t) PROVE Heals(t)'
  <2>1. PICK u \in Thread : \E f \in Frames(u) : f.op = "heal" /\ t \in f.lost
    BY <1>1 DEF Heals
  <2>2. PICK f \in Frames(u) : f.op = "heal" /\ t \in f.lost
    BY <2>1
  <2>3. f \in Range(stack'[u])
    BY <2>2, GoesOn DEF Continues, Frames
  <2> QED
    BY <2>2, <2>3 DEF Heals, Frames
<1> QED
  BY <1>1 DEF Covered

(* A step that leaves the suspensions and the parks alone.                  *)
LEMMA LeavesParks ==
    ASSUME IInv, Parks, NEW k, Goes(k), Continues(k), ~At("heal"), ~At("resume"),
           UNCHANGED <<suspend, outstanding>>, Gentle
    PROVE  Parks'
<1>1. \A t \in Thread : Covered(t) => Covered(t)'
  BY CoversKept
<1>2. /\ k \in Stack /\ Range(k) \subseteq Frames(exec)
      /\ \A f \in Range(k) : f.op # "suspend"
      /\ \A f \in Frames(exec) : f.op # "suspend"
  BY GoesOn
<1> QED
  BY <1>1, <1>2, ParksKept DEF IInv

LEMMA GentleNow ==
    ASSUME IInv, Parks, UNCHANGED <<exec, state, suspend>>
    PROVE  Gentle
BY DEF Gentle, Parks, Live

(* A step of frames only.                                                   *)
LEMMA FramesParks ==
    ASSUME IInv, Parks, NEW k, Goes(k), Continues(k), ~At("heal"), ~At("resume"),
           UNCHANGED <<exec, state, suspend, outstanding>>
    PROVE  Parks'
BY GentleNow, LeavesParks

(* A step that changes the state of one thread that is not suspended.       *)
LEMMA GentleMove ==
    ASSUME IInv, Parks, UNCHANGED <<exec, suspend>>, NEW t \in Thread, suspend[t] = 0,
           NEW s \in {"READY", "RUNNING", "WAITING"}, state' = [state EXCEPT ![t] = s]
    PROVE  Gentle
BY Fields DEF Gentle, Parks, Live, IInv

LEMMA StateParks ==
    ASSUME IInv, Parks, NEW k, Goes(k), Continues(k), ~At("heal"), ~At("resume"),
           UNCHANGED <<exec, suspend, outstanding>>, NEW t \in Thread, suspend[t] = 0,
           NEW s \in {"READY", "RUNNING", "WAITING"}, state' = [state EXCEPT ![t] = s]
    PROVE  Parks'
<1>1. Gentle
  BY GentleMove
<1> QED
  BY <1>1, LeavesParks

(* SelectThread.                                                            *)
LEMMA ParksSelect ==
    ASSUME IInv, Parks, SelectThread
    PROVE  Parks'
<1>1. Goes(Rest) /\ ~At("heal") /\ ~At("resume") /\ Rest \in Stack
  BY GoesOn DEF SelectThread, Goes, At
<1>2. Harmless(Dispatch) /\ Harmless(IdleLoop("timers"))
  BY DEF Harmless, Dispatch, IdleLoop, Parked
<1>3. Continues(Rest)
  BY <1>1, <1>2, Continuing DEF SelectThread, SelectBody, IInv
<1>4. UNCHANGED <<exec, suspend, outstanding>>
  BY DEF SelectThread, timerVars
<1>5. CASE UNCHANGED state
  BY <1>1, <1>3, <1>4, <1>5, FramesParks
<1>6. CASE running # None /\ state[running] = "RUNNING" /\ state' = [state EXCEPT ![running] = "READY"]
  <2>1. running \in Thread /\ suspend[running] = 0
    BY <1>6, Fields DEF IInv, Hands
  <2> QED
    BY <1>1, <1>3, <1>4, <1>6, <2>1, StateParks
<1> QED
  BY <1>5, <1>6 DEF SelectThread, SelectBody

LEMMA ParksDispatch ==
    ASSUME IInv, Parks, DispatchThread
    PROVE  Parks'
<1> DEFINE t == Head(queue[RunQ(Best(pending))])
<1>1. /\ t \in Thread /\ suspend[t] = 0 /\ state' = [state EXCEPT ![t] = "RUNNING"]
      /\ exec' = t /\ Become(<<>>, Rest) /\ UNCHANGED suspend
  BY DispatchChooses DEF IInv
<1> HIDE DEF t
<1>2. Goes(Rest) /\ ~At("heal") /\ ~At("resume") /\ Rest \in Stack
  BY GoesOn DEF DispatchThread, Goes, At
<1>3. Continues(Rest)
  BY <1>1, <1>2, Continuing DEF IInv
<1>4. UNCHANGED outstanding
  BY DEF DispatchThread, timerVars
<1>5. Gentle
  BY <1>1, Fields DEF Gentle, Parks, Live, IInv
<1> QED
  BY <1>1, <1>2, <1>3, <1>4, <1>5, LeavesParks

(* The executing fiber goes on with two frames: the first is on top, and    *)
(* both are on its stack.                                                   *)
LEMMA TwoPushed ==
    ASSUME Inv, NEW f \in Frame, NEW g \in Frame, NEW k \in Stack, Become(<<f, g>>, k),
           exec' = exec
    PROVE  /\ stack'[exec] # <<>> /\ Head(stack'[exec]) = f
           /\ f \in Range(stack'[exec]) /\ g \in Range(stack'[exec])
<1> DEFINE fs == <<f, g>>
<1>1. fs \in Stack /\ fs # <<>> /\ fs[1] = f /\ Range(fs) = {f, g}
  BY ShortStacks, ShortRanges
<1> HIDE DEF fs
<1>2. stack'[exec] # <<>> /\ Head(stack'[exec]) = fs[1]
  BY <1>1, PushedTop DEF fs
<1>3. Frames(exec)' = Range(fs) \cup Range(k)
  BY <1>1, FramesPushed DEF fs
<1> QED
  BY <1>1, <1>2, <1>3 DEF Frames

(* A due timer resumes a parked thread; for other shapes it is dropped.     *)
LEMMA ParksTimer ==
    ASSUME IInv, Parks, TimerFires
    PROVE  Parks'
<1>1. /\ At("timers") /\ Top \in Frame /\ Top.op = "timers" /\ Goes(Rest) /\ Rest \in Stack
      /\ ~At("heal") /\ ~At("resume") /\ Inv /\ exec \in Thread
  BY StackTop, Fields DEF TimerFires, Goes, At, IInv
<1>2. PICK t \in Top.due :
         IF state[t] = "RUNNING"
         THEN outstanding' = outstanding /\ Become(<<Timers(Top.due \ {t}, Top.scan)>>, Rest)
         ELSE /\ outstanding' = outstanding \ {t}
              /\ Become(IF LooksParked(t)
                        THEN <<Resume(t), Timers(Top.due \ {t}, Top.scan)>>
                        ELSE <<Timers(Top.due \ {t}, Top.scan)>>, Rest)
  BY DEF TimerFires
<1> DEFINE more == Timers(Top.due \ {t}, Top.scan)
<1>3. t \in Thread /\ more \in Frame /\ Resume(t) \in Frame
  <2>1. Top.due \in SUBSET Thread /\ Top.scan \in BOOLEAN
    BY <1>1, FrameFields
  <2> QED
    BY <2>1, FramesBuilt
<1>4. Harmless(more) /\ Harmless(Resume(t)) /\ Resume(t).op = "resume" /\ Resume(t).t = t
  BY DEF Harmless, Timers, Resume, Parked
<1> HIDE DEF more
<1>5. UNCHANGED <<exec, state, suspend>>
  BY DEF TimerFires, threadVars
<1>6. Gentle
  BY <1>5, GentleNow
<1>7. Continues(Rest)
  BY <1>1, <1>2, <1>4, Continuing DEF more
<1>8. CASE state[t] = "RUNNING"
  BY <1>1, <1>2, <1>5, <1>7, <1>8, FramesParks
<1>9. CASE state[t] # "RUNNING"
  <2>1. outstanding' = outstanding \ {t}
    BY <1>2, <1>9
  <2>2. ASSUME NEW u \in Thread, suspend'[u] # 0, Covered(u) PROVE Covered(u)'
    <3>1. CASE u # t
      BY <1>1, <1>7, <2>1, <2>2, <3>1, CoversKept
    <3>2. CASE u = t
      <4>1. LooksParked(t)
        <5>1. state[t] = "READY" /\ suspend[t] # 0 /\ suspend[t] \in Nat
          BY <1>1, <1>3, <1>5, <2>2, <3>2, Fields DEF Parks, Single
        <5> QED
          BY <5>1 DEF LooksParked
      <4>2. Become(<<Resume(t), more>>, Rest)
        BY <1>2, <1>9, <4>1 DEF more
      <4>3. stack'[exec] # <<>> /\ Head(stack'[exec]) = Resume(t)
        BY <1>1, <1>3, <1>5, <4>2, TwoPushed
      <4> QED
        BY <1>4, <1>5, <3>2, <4>3 DEF Covered, At, Top
    <3> QED
      BY <3>1, <3>2
  <2> QED
    BY <1>1, <1>6, <1>7, <2>2, GoesOn, ParksKept
<1> QED
  BY <1>8, <1>9

(* The reconciler puts the stranded sleepers it takes off on its list.      *)
LEMMA ParksReconcile ==
    ASSUME IInv, Parks, Reconcile
    PROVE  Parks'
<1>1. /\ Goes(Rest) /\ Rest \in Stack /\ ~At("heal") /\ ~At("resume") /\ Inv /\ exec \in Thread
  BY StackTop, Fields DEF Reconcile, Goes, At, IInv
<1>2. PICK H \in SUBSET (Stranded \cap seen) :
         outstanding' = outstanding \ (NotParked \cup H) /\ Become(<<Heal(H)>>, Rest)
  BY DEF Reconcile
<1>3. Harmless(Heal(H)) /\ Heal(H).op = "heal" /\ Heal(H).lost = H
  BY DEF Harmless, Heal, Parked
<1>4. UNCHANGED <<exec, state, suspend>>
  BY DEF Reconcile, threadVars
<1>5. Continues(Rest)
  BY <1>1, <1>2, <1>3, Continuing
<1>6. Gentle
  BY <1>4, GentleNow
<1>7. Heal(H) \in Range(stack'[exec])
  <2>1. stack'[exec] = <<Heal(H)>> \o Rest
    BY <1>1, <1>2 DEF Become, Inv, TypeOK, HostTypes
  <2> QED
    BY <1>1, <2>1, RangesPushed
<1>8. ASSUME NEW u \in Thread, suspend'[u] # 0, Covered(u) PROVE Covered(u)'
  <2>1. u \notin NotParked
    <3>1. state[u] = "READY" /\ suspend[u] # 0 /\ suspend[u] \in Nat
      BY <1>1, <1>4, <1>8, Fields DEF Parks, Single
    <3>2. LooksParked(u)
      BY <3>1 DEF LooksParked
    <3> QED
      BY <3>2 DEF NotParked, Stranded
  <2>2. CASE u \in H
    BY <1>1, <1>3, <1>4, <1>7, <2>2 DEF Covered, Heals, Frames
  <2>3. CASE u \notin H
    BY <1>1, <1>2, <1>5, <1>8, <2>1, <2>3, CoversKept
  <2> QED
    BY <2>2, <2>3
<1> QED
  BY <1>1, <1>5, <1>6, <1>8, GoesOn, ParksKept

LEMMA ParksHeal ==
    ASSUME IInv, Parks, HealSleeper
    PROVE  Parks'
<1>1. /\ At("heal") /\ stack[exec] # <<>> /\ Top \in Frame /\ Top.op = "heal"
      /\ Goes(Rest) /\ Rest \in Stack /\ ~At("resume") /\ Inv /\ exec \in Thread
  BY StackTop, Fields DEF HealSleeper, Goes, At, IInv
<1>2. UNCHANGED <<exec, state, suspend, outstanding>>
  BY DEF HealSleeper, threadVars, timerVars
<1>3. Gentle
  BY <1>2, GentleNow
<1>4. Frames(exec) = {Top} \cup Range(Rest)
  BY <1>1, RestFrames DEF IInv
(* Whoever is on another list stays on it.                                  *)
<1>5. ASSUME Continues(Rest), NEW u \in Thread, Covered(u), u \notin Top.lost PROVE Covered(u)'
  <2>1. CASE u \in outstanding
    BY <1>2, <2>1 DEF Covered
  <2>2. CASE Heals(u)
    <3>1. PICK v \in Thread : \E f \in Frames(v) : f.op = "heal" /\ u \in f.lost
      BY <2>2 DEF Heals
    <3>2. PICK f \in Frames(v) : f.op = "heal" /\ u \in f.lost
      BY <3>1
    <3>3. f \in Range(stack'[v])
      BY <1>4, <1>5, <3>2 DEF Continues, Frames
    <3> QED
      BY <3>2, <3>3 DEF Covered, Heals, Frames
  <2> QED
    BY <1>1, <1>5, <2>1, <2>2 DEF Covered
<1>6. CASE Top.lost = {}
  <2>1. Continues(Rest)
    BY <1>1, <1>6, Continuing DEF HealSleeper
  <2>2. \A u \in Thread : Covered(u) => Covered(u)'
    BY <1>5, <1>6, <2>1
  <2> QED
    BY <1>1, <1>3, <2>1, <2>2, GoesOn, ParksKept
<1>7. CASE Top.lost # {}
  <2>1. PICK t \in Top.lost : Become(<<Resume(t), Heal(Top.lost \ {t})>>, Rest)
    BY <1>7 DEF HealSleeper
  <2> DEFINE left == Heal(Top.lost \ {t})
  <2>2. t \in Thread /\ left \in Frame /\ Resume(t) \in Frame
    <3>1. Top.lost \in SUBSET Thread
      BY <1>1, FrameFields
    <3> QED
      BY <3>1, FramesBuilt
  <2>3. /\ Harmless(left) /\ Harmless(Resume(t)) /\ Resume(t).op = "resume" /\ Resume(t).t = t
        /\ left.op = "heal" /\ left.lost = Top.lost \ {t}
    BY DEF Harmless, Heal, Resume, Parked
  <2>4. Become(<<Resume(t), left>>, Rest)
    BY <2>1
  <2> HIDE DEF left
  <2>5. Continues(Rest)
    BY <1>1, <2>3, <2>4, Continuing
  <2>6. /\ stack'[exec] # <<>> /\ Head(stack'[exec]) = Resume(t)
        /\ left \in Range(stack'[exec])
    BY <1>1, <1>2, <2>2, <2>4, TwoPushed
  <2>7. ASSUME NEW u \in Thread, Covered(u) PROVE Covered(u)'
    <3>1. CASE u = t
      BY <1>2, <2>3, <2>6, <3>1 DEF Covered, At, Top
    <3>2. CASE u \in Top.lost /\ u # t
      BY <1>1, <2>3, <2>6, <3>2 DEF Covered, Heals, Frames
    <3>3. CASE u \notin Top.lost
      BY <1>5, <2>5, <2>7, <3>3
    <3> QED
      BY <3>1, <3>2, <3>3
  <2> QED
    BY <1>1, <1>3, <2>5, <2>7, GoesOn, ParksKept
<1> QED
  BY <1>6, <1>7

(* A resume takes a thread out of its park.                                 *)
LEMMA ParksResumed ==
    ASSUME IInv, Parks, NEW k, Goes(k), ~At("heal"), NEW t \in Thread,
           At("resume") => Top.t = t, OSResumeThread(t, k)
    PROVE  Parks'
<1>1. k \in Stack /\ Inv
  BY GoesOn DEF IInv
<1>2. Harmless(Resched) /\ \A o : Harmless(Propagate(o))
  BY DEF Harmless, Resched, Propagate, Parked
<1>3. Continues(k)
  BY <1>1, <1>2, Continuing DEF OSResumeThread
<1>4. suspend[t] \in Nat /\ suspend[t] <= 1 /\ suspend \in [Thread -> Nat] /\ state \in [Thread -> State]
  BY <1>1, Fields DEF Parks, Single
<1>5. suspend'[t] = 0 /\ \A u \in Thread : u # t => suspend'[u] = suspend[u]
  BY <1>4 DEF OSResumeThread, Resumed
<1>6. exec' = exec /\ (state' = state \/ state' = [state EXCEPT ![t] = "READY"])
  BY DEF OSResumeThread, MadeReady
<1>7. Gentle
  <2>1. exec \in Thread /\ state[exec] # "NONE"
    BY <1>1, Fields DEF Parks, Live
  <2>2. \A u \in Thread : state'[u] = state[u] \/ (u = t /\ state'[u] = "READY")
    BY <1>4, <1>6
  <2>3. state'[exec'] # "NONE"
    BY <1>6, <2>1, <2>2
  <2>4. \A u \in Thread : state[u] # "MORIBUND"
    BY DEF Parks, Live
  <2>5. \A u \in Thread : suspend'[u] # 0 => u # t
    BY <1>5
  <2> QED
    BY <1>5, <2>2, <2>3, <2>4, <2>5 DEF Gentle
<1>8. \A u \in outstanding : u # t => u \in outstanding'
  BY DEF OSResumeThread
<1>9. ASSUME NEW u \in Thread, suspend'[u] # 0, Covered(u) PROVE Covered(u)'
  BY <1>3, <1>5, <1>8, <1>9, CoversKept
<1> QED
  BY <1>1, <1>3, <1>7, <1>9, GoesOn, ParksKept

LEMMA ParksResume ==
    ASSUME IInv, Parks, ResumeCall \/ GuestResumes \/ CallbackResumes
    PROVE  Parks'
<1>1. CASE ResumeCall
  <2>1. At("resume") /\ OSResumeThread(Top.t, Rest)
    BY <1>1 DEF ResumeCall
  <2>2. Goes(Rest) /\ ~At("heal") /\ Top.t \in Thread
    BY <2>1, StackTop, FrameFields DEF Goes, At, IInv
  <2> QED
    BY <2>1, <2>2, ParksResumed
<1>2. CASE GuestResumes
  <2>1. Goes(<<>>) /\ ~At("heal") /\ ~At("resume")
    BY <1>2 DEF GuestResumes, Goes, GuestCode, At
  <2>2. PICK t \in Thread : OSResumeThread(t, <<>>)
    BY <1>2 DEF GuestResumes, Alive
  <2> QED
    BY <2>1, <2>2, ParksResumed
<1>3. CASE CallbackResumes
  <2>1. Goes(stack[exec]) /\ ~At("heal") /\ ~At("resume")
    BY <1>3 DEF CallbackResumes, Goes, CallbackCode, At
  <2>2. PICK t \in Thread : OSResumeThread(t, stack[exec])
    BY <1>3 DEF CallbackResumes, Alive
  <2> QED
    BY <2>1, <2>2, ParksResumed
<1> QED
  BY <1>1, <1>2, <1>3

(* OSSuspendThread is called by OSSleepTicks only.                          *)
LEMMA ParksSuspend ==
    ASSUME IInv, Parks, SuspendCall
    PROVE  Parks'
<1>1. At("suspend") /\ OSSuspendThread(Top.t, Rest) /\ Own(Rest)
  BY DEF SuspendCall, Own, OwnCalls
<1>2. /\ exec \in Thread /\ state[exec] = "RUNNING" /\ suspend[exec] = 0 /\ Inv
      /\ state \in [Thread -> State] /\ suspend \in [Thread -> Nat]
  BY <1>1, OwnNow, Fields
<1>3. stack[exec] # <<>> /\ Top.op = "suspend"
  BY <1>1 DEF At, Top
<1>4. Frames(exec) = {Top} \cup Range(Rest) /\ Rest \in Stack
  BY <1>3, RestFrames DEF IInv
<1>5. Top.t = exec /\ Rest = <<Parked>> /\ exec \in outstanding
  BY <1>2, <1>3, <1>4 DEF Parks, Parking
<1>6. Range(Rest) = {Parked} /\ Parked.op = "parked"
  BY <1>5, ShortRanges DEF Parked
<1>7. /\ state' = [state EXCEPT ![exec] = "READY"] /\ Become(<<Resched>>, Rest)
      /\ suspend' = [suspend EXCEPT ![exec] = 1]
      /\ UNCHANGED <<exec, outstanding>>
  <2>1. suspend[exec] + 1 = 1
    BY <1>2
  <2> QED
    BY <1>1, <1>2, <1>5, <2>1 DEF OSSuspendThread, timerVars
<1>8. Harmless(Resched) /\ Resched.op = "resched"
  BY DEF Harmless, Resched, Parked
<1>9. Continues(Rest)
  BY <1>2, <1>4, <1>7, <1>8, Continuing
<1>10. \A t \in Thread : t # exec => Frames(t)' = Frames(t) /\ stack'[t] = stack[t]
  BY <1>9 DEF Continues, Frames
<1>11. \A f \in Range(stack'[exec]) : f.op # "suspend"
  BY <1>6, <1>9 DEF Continues, Harmless
<1>12. Live'
  BY <1>2, <1>7, <1>10 DEF Live, Parks
<1>13. Single'
  BY <1>2, <1>7 DEF Single, Parks
<1>14. ASSUME NEW t \in Thread, NEW f \in Range(stack'[t]), f.op = "suspend" PROVE FALSE
  BY <1>10, <1>11, <1>14 DEF Parks, Parking, Frames
<1>15. Parking'
  BY <1>14 DEF Parking, Frames
<1>16. ASSUME NEW t \in Thread, Covered(t) PROVE Covered(t)'
  <2>1. CASE Heals(t)
    <3>1. PICK u \in Thread : \E f \in Frames(u) : f.op = "heal" /\ t \in f.lost
      BY <2>1 DEF Heals
    <3>2. u # exec
      BY <1>3, <1>4, <1>6, <3>1
    <3> QED
      BY <1>10, <3>1, <3>2 DEF Covered, Heals
  <2> QED
    BY <1>1, <1>3, <1>7, <1>16, <2>1 DEF Covered, At, Top
<1>17. Watched'
  <2>1. ASSUME NEW t \in Thread, suspend'[t] # 0, Parked \in Frames(t)' PROVE Covered(t)'
    <3>1. CASE t = exec
      BY <1>5, <1>7, <3>1 DEF Covered
    <3>2. CASE t # exec
      BY <1>2, <1>7, <1>10, <1>16, <2>1, <3>2 DEF Parks, Watched
    <3> QED
      BY <3>1, <3>2
  <2> QED
    BY <2>1 DEF Watched
<1> QED
  BY <1>12, <1>13, <1>15, <1>17 DEF Parks

(* OSSleepTicks makes its park outstanding before it suspends the thread.   *)
LEMMA ParksSleepTicks ==
    ASSUME IInv, Parks, GuestSleepsTicks
    PROVE  Parks'
<1>1. GuestCode /\ Own(<<>>) /\ Goes(<<>>) /\ ~At("heal") /\ ~At("resume")
  BY DEF GuestSleepsTicks, GuestCode, Own, Goes, At
<1>2. /\ exec \in Thread /\ running = exec /\ suspend[exec] = 0 /\ Inv
      /\ stack \in [Thread -> Stack] /\ <<>> \in Stack
  BY <1>1, OwnNow, ShortStacks DEF Inv, TypeOK, HostTypes, Stack
<1>3. UNCHANGED <<exec, state, suspend>>
  BY DEF GuestSleepsTicks, OSSleepTicks, threadVars
<1>4. CASE Become(<<>>, <<>>) /\ outstanding' = outstanding
  <2>1. Continues(<<>>)
    BY <1>2, <1>4, Continuing
  <2> QED
    BY <1>1, <1>3, <1>4, <2>1, FramesParks
<1>5. CASE Become(<<Suspend(exec), Parked>>, <<>>) /\ outstanding' = outstanding \cup {exec}
  <2> DEFINE s == <<Suspend(exec), Parked>>
  <2>1. /\ s \in Stack /\ Range(s) = {Suspend(exec), Parked} /\ Head(s) = Suspend(exec)
        /\ Tail(s) = <<Parked>> /\ s # <<>>
    BY <1>2, FramesBuilt, ShortStacks, ShortRanges
  <2>2. s \o <<>> = s
    BY <2>1, ConcatProperties DEF Stack
  <2>3. stack'[exec] = s /\ \A t \in Thread : t # exec => stack'[t] = stack[t]
    BY <1>2, <1>5, <2>2 DEF Become
  <2> HIDE DEF s
  <2>4. /\ Suspend(exec).op = "suspend" /\ Suspend(exec).t = exec /\ Parked.op = "parked"
        /\ Suspend(exec) # Parked
    BY DEF Suspend, Parked
  <2>5. At("suspend")' /\ Top' = Suspend(exec) /\ Rest' = <<Parked>>
    BY <1>3, <2>1, <2>3, <2>4 DEF At, Top, Rest
  <2>6. \A t \in Thread : t # exec => Frames(t)' = Frames(t)
    BY <2>3 DEF Frames
  <2>7. Live'
    BY <1>3, <2>3 DEF Parks, Live
  <2>8. Single'
    BY <1>3 DEF Parks, Single
  <2>9. ASSUME NEW t \in Thread, NEW f \in Frames(t)', f.op = "suspend"
        PROVE  t = exec
    BY <1>1, <2>6, <2>9 DEF Parks, Parking, GuestCode, At
  <2>10. Parking'
    BY <1>3, <1>5, <2>4, <2>5, <2>9 DEF Parking
  <2>11. Frames(exec) = {}
    BY <1>1, ShortRanges DEF GuestCode, Frames
  <2>12. ASSUME NEW t \in Thread, Covered(t) PROVE Covered(t)'
    BY <1>1, <1>5, <2>6, <2>11, <2>12 DEF Covered, Heals
  <2>13. Watched'
    BY <1>2, <1>3, <2>6, <2>12 DEF Parks, Watched
  <2> QED
    BY <2>7, <2>8, <2>10, <2>13 DEF Parks
<1> QED
  BY <1>2, <1>4, <1>5 DEF GuestSleepsTicks, OSSleepTicks

(* A structure that is used for a new thread had no frames.                 *)
LEMMA ParksCreate ==
    ASSUME IInv, Parks, GuestCreates
    PROVE  Parks'
<1>1. PICK t \in Thread, p \in Prio, d \in BOOLEAN :
         state[t] = "NONE" /\ OSCreateThread(t, p, d)
  BY DEF GuestCreates, Alive
<1>2. /\ state \in [Thread -> State] /\ suspend \in [Thread -> Nat]
      /\ stack \in [Thread -> Stack] /\ exec \in Thread
  BY Fields DEF IInv, Inv, TypeOK, HostTypes, Stack
<1>3. t # exec /\ stack[t] = <<>> /\ Frames(t) = {}
  BY <1>1, ShortRanges DEF Parks, Live, Frames
<1>4. stack' = stack
  BY <1>1, <1>2, <1>3 DEF OSCreateThread
<1>5. /\ state' = [state EXCEPT ![t] = "READY"] /\ suspend' = [suspend EXCEPT ![t] = 1]
      /\ UNCHANGED <<exec, outstanding>>
  BY <1>1 DEF OSCreateThread, timerVars
<1>6. Live' /\ Single'
  BY <1>2, <1>3, <1>4, <1>5 DEF Parks, Live, Single
<1>7. Parking'
  BY <1>4, <1>5 DEF Parks, Parking, Frames, At, Top, Rest
<1>8. Watched'
  BY <1>2, <1>3, <1>4, <1>5 DEF Parks, Watched, Covered, Heals, Frames, At, Top
<1> QED
  BY <1>6, <1>7, <1>8 DEF Parks

(* Falling asleep on a queue.                                               *)
LEMMA ParksSleeps ==
    ASSUME IInv, Parks, NEW k, Own(k), Goes(k), ~At("heal"), ~At("resume"),
           NEW q, OSSleepThread(q, k)
    PROVE  Parks'
<1>1. exec \in Thread /\ exec # None /\ running = exec /\ suspend[exec] = 0 /\ k \in Stack /\ Inv
  BY OwnNow
<1>2. Harmless(Select(FALSE)) /\ \A t : Harmless(Slept(q, t))
  BY DEF Harmless, Select, Slept, Parked
<1>3. Continues(k)
  BY <1>1, <1>2, Continuing DEF OSSleepThread
<1>4. UNCHANGED <<exec, suspend, outstanding>>
  BY DEF OSSleepThread, timerVars
<1>5. state' = state \/ state' = [state EXCEPT ![exec] = "WAITING"]
  BY <1>1 DEF OSSleepThread
<1> QED
  BY <1>1, <1>3, <1>4, <1>5, FramesParks, StateParks

LEMMA ParksSleep ==
    ASSUME IInv, Parks, SleepCall \/ GuestSleeps
    PROVE  Parks'
<1>1. CASE SleepCall
  <2>1. Own(Rest) /\ Goes(Rest) /\ ~At("heal") /\ ~At("resume")
    BY <1>1 DEF SleepCall, Own, OwnCalls, Goes, At
  <2> QED
    BY <1>1, <2>1, ParksSleeps DEF SleepCall
<1>2. CASE GuestSleeps
  <2>1. Own(<<>>) /\ Goes(<<>>) /\ ~At("heal") /\ ~At("resume")
    BY <1>2 DEF GuestSleeps, Own, Goes, GuestCode, At
  <2> QED
    BY <1>2, <2>1, ParksSleeps DEF GuestSleeps
<1> QED
  BY <1>1, <1>2

(* A thread that comes back from its own call is RUNNING: nothing is undone.*)
LEMMA ParksReturns ==
    ASSUME IInv, Parks, SleepReturns \/ ParkReturns
    PROVE  Parks'
<1>1. Own(Rest) /\ Goes(Rest) /\ ~At("heal") /\ ~At("resume")
  BY DEF SleepReturns, ParkReturns, Own, OwnCalls, Goes, At
<1>2. exec \in Thread /\ state[exec] = "RUNNING" /\ suspend[exec] = 0 /\ Rest \in Stack /\ Inv
  BY <1>1, OwnNow
<1>3. Continues(Rest)
  BY <1>2, Continuing DEF SleepReturns, ParkReturns
<1>4. UNCHANGED <<exec, state, suspend, outstanding>>
  <2>1. CASE SleepReturns
    <3>1. Top.t = exec
      BY <2>1, TopFits DEF SleepReturns, Fits, IInv
    <3> QED
      BY <1>2, <2>1, <3>1 DEF SleepReturns, timerVars
  <2>2. CASE ParkReturns
    BY <1>2, <2>2 DEF ParkReturns
  <2> QED
    BY <2>1, <2>2
<1> QED
  BY <1>1, <1>3, <1>4, FramesParks

(* The head of a wait queue is not suspended.                               *)
LEMMA ParksWake ==
    ASSUME IInv, Parks, WakeHead
    PROVE  Parks'
<1>1. /\ At("wakeup") /\ Top \in Frame /\ Top.op = "wakeup" /\ Rest \in Stack
      /\ Goes(Rest) /\ ~At("heal") /\ ~At("resume") /\ queue[Top.q] # <<>>
  BY StackTop DEF WakeHead, Goes, At, IInv
<1>2. Top.q \in WaitQueue /\ Top.q \in Queue
  BY <1>1, FrameFields, QueueKinds
<1> DEFINE t == Head(queue[Top.q])
<1>3. t \in Thread /\ Top.q \in Holds(queue, t)
  BY <1>1, <1>2, TakingHead DEF IInv
<1>4. state[t] = "WAITING"
  BY <1>2, <1>3, SeatNow DEF Seat, IInv
<1>5. suspend[t] = 0
  BY <1>3, <1>4 DEF Parks, Single
<1>6. t \in Thread /\ state[t] \notin Terminated /\ RunsWhenWoken(t)
  BY <1>3, <1>4, <1>5 DEF Terminated, RunsWhenWoken
<1>7. /\ state' = [state EXCEPT ![t] = "READY"] /\ Become(<<Wakeup(Top.q, TRUE)>>, Rest)
      /\ UNCHANGED <<exec, suspend, outstanding>>
  BY <1>6 DEF WakeHead, timerVars
<1> HIDE DEF t
<1>8. Harmless(Wakeup(Top.q, TRUE))
  BY DEF Harmless, Wakeup, Parked
<1>9. Continues(Rest)
  BY <1>1, <1>7, <1>8, Continuing DEF IInv
<1> QED
  BY <1>1, <1>5, <1>6, <1>7, <1>9, StateParks

(* The other calls push frames that park nobody.                            *)
LEMMA HarmlessFrames ==
    /\ \A b : Harmless(Select(b)) /\ Harmless(Body(b))
    /\ Harmless(Dispatch) /\ Harmless(Exited)
    /\ \A a : Harmless(IdleLoop(a))
    /\ \A D, sc : Harmless(Timers(D, sc))
    /\ \A t : Harmless(Joined(t)) /\ Harmless(UnlockAll(t))
    /\ \A q, w : Harmless(Wakeup(q, w)) /\ Harmless(Sleep(q))
    /\ \A m : Harmless(Lock(m))
    /\ \A o, p : Harmless(Promote(o, p)) /\ Harmless(Propagate(o))
    /\ \A r, d : Harmless(Callback(r, d))
BY DEF Harmless, Parked, Select, Body, Dispatch, Exited, IdleLoop, Timers, Joined, UnlockAll,
       Wakeup, Sleep, Lock, Promote, Propagate, Callback

(* Inside a call of the runtime.                                            *)
LEMMA ParksInCalls ==
    ASSUME IInv, Parks,
           \/ SelectThreadFirstTimers \/ TimersDone \/ WakeDone \/ Reschedule
           \/ ExitReschedules \/ UnlockAllMutexes \/ JoinReturns \/ LockRetry
           \/ PromoteStep \/ PropagateStep \/ IdlePass \/ CallbackReturns
    PROVE  Parks'
<1>1. \E op \in {"select", "timers", "wakeup", "resched", "exited", "unlockAll", "join", "lock",
                 "promote", "propagate", "idle", "callback"} : At(op)
  BY DEF SelectThreadFirstTimers, TimersDone, WakeDone, Reschedule, ExitReschedules,
         UnlockAllMutexes, JoinReturns, LockRetry, PromoteStep, PropagateStep, IdlePass,
         IdleTimers, IdleAudio, IdleRetrace, IdleNoRetrace, IdleCheck, CallbackReturns,
         CallbackCode
<1>2. /\ stack[exec] # <<>> /\ Goes(Rest) /\ ~At("heal") /\ ~At("resume") /\ Inv
      /\ \A op : At(op) => Top.op = op
  BY <1>1 DEF Goes, At, Top, IInv
<1>3. Rest \in Stack
  BY <1>2, GoesOn
<1>4. ASSUME NEW t, Reaped(t), t \in Thread PROVE UNCHANGED state
  BY <1>4 DEF Reaped, Parks, Live
<1>5. UNCHANGED <<exec, state, suspend, outstanding>>
  <2>1. CASE JoinReturns
    <3>1. Top.t \in Thread
      BY <2>1, <1>2, StackTop, FrameFields DEF JoinReturns
    <3> QED
      BY <1>4, <2>1, <3>1 DEF JoinReturns, timerVars
  <2>2. CASE ~JoinReturns
    BY <2>2 DEF SelectThreadFirstTimers, TimersDone, WakeDone, Reschedule, ExitReschedules,
         UnlockAllMutexes, LockRetry, OSLockMutex, PromoteStep, PropagateStep, IdlePass,
         IdleTimers, IdleAudio, IdleRetrace, IdleNoRetrace, IdleCheck, CallbackReturns,
         threadVars, timerVars
  <2> QED
    BY <2>1, <2>2
<1>6. Continues(Rest)
  <2>1. SelectThreadFirstTimers \/ TimersDone \/ WakeDone \/ Reschedule \/ ExitReschedules
        => Continues(Rest)
    BY <1>2, <1>3, HarmlessFrames, Continuing
       DEF SelectThreadFirstTimers, TimersDone, WakeDone, Reschedule, ExitReschedules
  <2>2. ASSUME UnlockAllMutexes PROVE Continues(Rest)
    <3>1. Harmless(Top)
      BY <1>2, <2>2 DEF UnlockAllMutexes, Harmless, Parked
    <3>2. ASSUME NEW m, Become(WakeWaiters(m) \o <<Top>>, Rest) PROVE Continues(Rest)
      <4>1. WakeWaiters(m) \o <<Top>> = <<Wakeup(MutexQ(m), FALSE), Top>>
        BY PairAndOne DEF WakeWaiters
      <4> QED
        BY <1>2, <1>3, <3>1, <3>2, <4>1, HarmlessFrames, Continuing
    <3> QED
      BY <1>2, <1>3, <2>2, <3>2, Continuing DEF UnlockAllMutexes
  <2>3. JoinReturns \/ LockRetry \/ PromoteStep \/ PropagateStep \/ CallbackReturns
        => Continues(Rest)
    BY <1>2, <1>3, HarmlessFrames, Continuing
       DEF JoinReturns, LockRetry, OSLockMutex, PromoteStep, PropagateStep, CallbackReturns
  <2>4. ASSUME IdleRetrace PROVE Continues(Rest)
    <3>1. RetraceFrames \o <<IdleLoop("check")>> =
             <<Wakeup(EventQ(Retrace), FALSE), Callback(TRUE, FALSE), IdleLoop("check")>>
      BY PairAndOne DEF RetraceFrames
    <3> QED
      BY <1>2, <1>3, <2>4, <3>1, HarmlessFrames, Continuing DEF IdleRetrace
  <2>5. IdleTimers \/ IdleAudio \/ IdleNoRetrace \/ IdleCheck => Continues(Rest)
    BY <1>2, <1>3, HarmlessFrames, Continuing DEF IdleTimers, IdleAudio, IdleNoRetrace, IdleCheck
  <2> QED
    BY <2>1, <2>2, <2>3, <2>4, <2>5 DEF IdlePass
<1> QED
  BY <1>2, <1>5, <1>6, FramesParks

(* Calls of guest code and of callbacks.                                    *)
LEMMA ParksGuest ==
    ASSUME IInv, Parks,
           \/ GuestWakes \/ GuestYields \/ GuestLocks \/ GuestUnlocks \/ GuestJoins
           \/ GuestDetaches \/ GuestPollsRetrace \/ DeferredRetrace \/ DeferredAudio
    PROVE  Parks'
<1>1. GuestCode
  BY DEF GuestWakes, GuestYields, GuestLocks, GuestUnlocks, GuestJoins, GuestDetaches,
         GuestPollsRetrace, DeferredRetrace, DeferredAudio
<1>2. Goes(<<>>) /\ ~At("heal") /\ ~At("resume") /\ Inv /\ <<>> \in Stack
  BY <1>1, ShortStacks DEF Goes, GuestCode, At, IInv
<1>3. ASSUME NEW t \in Thread, Reaped(t) PROVE UNCHANGED state
  BY <1>3 DEF Reaped, Parks, Live
<1>4. UNCHANGED <<exec, state, suspend, outstanding>>
  <2>1. CASE GuestJoins \/ GuestDetaches
    BY <1>3, <2>1 DEF GuestJoins, GuestDetaches, OSJoinThread, OSDetachThread, Alive, timerVars
  <2>2. CASE ~(GuestJoins \/ GuestDetaches)
    BY <2>2 DEF GuestWakes, GuestYields, GuestLocks, GuestUnlocks, OSLockMutex, OSUnlockMutex,
         GuestPollsRetrace, DeferredRetrace, DeferredAudio, threadVars, timerVars
  <2> QED
    BY <2>1, <2>2
<1>5. Continues(<<>>)
  <2>1. GuestWakes \/ GuestYields => Continues(<<>>)
    BY <1>2, HarmlessFrames, Continuing DEF GuestWakes, GuestYields
  <2>2. GuestLocks \/ GuestUnlocks => Continues(<<>>)
    BY <1>2, HarmlessFrames, Continuing
       DEF GuestLocks, GuestUnlocks, OSLockMutex, OSUnlockMutex, WakeWaiters
  <2>3. GuestJoins \/ GuestDetaches => Continues(<<>>)
    BY <1>2, HarmlessFrames, Continuing DEF GuestJoins, GuestDetaches, OSJoinThread, OSDetachThread
  <2>4. GuestPollsRetrace \/ DeferredRetrace \/ DeferredAudio => Continues(<<>>)
    BY <1>2, HarmlessFrames, Continuing
       DEF GuestPollsRetrace, RetraceFrames, DeferredRetrace, DeferredAudio
  <2> QED
    BY <2>1, <2>2, <2>3, <2>4
<1> QED
  BY <1>2, <1>4, <1>5, FramesParks

LEMMA ParksCallback ==
    ASSUME IInv, Parks, CallbackWakes
    PROVE  Parks'
<1>1. Goes(stack[exec]) /\ ~At("heal") /\ ~At("resume") /\ Inv
  BY DEF CallbackWakes, Goes, CallbackCode, At, IInv
<1>2. stack[exec] \in Stack
  BY <1>1, OwnSets
<1>3. Continues(stack[exec])
  BY <1>1, <1>2, HarmlessFrames, Continuing DEF CallbackWakes
<1>4. UNCHANGED <<exec, state, suspend, outstanding>>
  BY DEF CallbackWakes, threadVars, timerVars
<1> QED
  BY <1>1, <1>3, <1>4, FramesParks

LEMMA NextParks ==
    ASSUME Undisturbed, IInv, Parks, [Next]_vars
    PROVE  Parks'
<1>1. CASE Continue
  BY <1>1, ParksSelect, ParksDispatch, ParksTimer, ParksReconcile, ParksHeal, ParksResume,
     ParksSuspend, ParksSleep, ParksReturns, ParksWake, ParksInCalls DEF Continue
<1>2. CASE IdlePass
  BY <1>2, ParksInCalls
<1>3. CASE CallbackStep
  BY <1>3, ParksCallback, ParksResume, ParksInCalls DEF CallbackStep
<1>4. CASE GuestStep
  <2>1. ~GuestSuspends /\ ~GuestExits /\ ~GuestCancels
    BY DEF Undisturbed, GuestSuspends, GuestExits, GuestCancels
  <2> QED
    BY <1>4, <2>1, ParksCreate, ParksResume, ParksSleep, ParksSleepTicks, ParksGuest DEF GuestStep
<1>5. CASE UNCHANGED vars
  <2>1. UNCHANGED <<state, suspend, outstanding, exec, stack>>
    BY <1>5 DEF vars, threadVars, timerVars, hostVars
  <2> QED
    BY <2>1 DEF Parks, Live, Single, Parking, Watched, Covered, Heals, Frames, At, Top, Rest
<1> QED
  BY <1>1, <1>2, <1>3, <1>4, <1>5 DEF Next

LEMMA InitParks == Init => Parks
<1> SUFFICES ASSUME Init PROVE Parks
  OBVIOUS
<1>1. /\ state = [t \in Thread |-> IF t = Main THEN "RUNNING" ELSE "NONE"]
      /\ suspend = [t \in Thread |-> 0] /\ stack = [t \in Thread |-> <<>>] /\ exec = Main
      /\ Main \in Thread
  BY MainAssumption DEF Init
<1>2. \A t \in Thread : Frames(t) = {}
  BY <1>1, ShortRanges DEF Frames
<1> QED
  BY <1>1, <1>2 DEF Parks, Live, Single, Parking, Watched

(* A thread asleep in OSSleepTicks always has a wakeup coming: an armed     *)
(* timer, an outstanding park the reconciler looks at, or a thread in the   *)
(* middle of resuming it, whichever timer fires before the thread has       *)
(* suspended itself, while another is served, or for another sleeper.       *)
THEOREM SleepersAreWoken ==
    ASSUME Undisturbed
    PROVE  Spec => []SleeperHasWakeup
<1>1. Init => IInv /\ Parks
  BY InitInv, InitGood, InitParks DEF IInv, Good
<1>2. IInv /\ Parks /\ [Next]_vars => Parks'
  BY NextParks
<1>3. ASSUME IInv, Parks PROVE SleeperHasWakeup
  <2>1. ASSUME Settled, NEW t \in Thread, suspend[t] = 1,
               NEW i \in DOMAIN stack[t], stack[t][i] = Parked
        PROVE  t \in timer \cup outstanding \/ BeingHealed(t)
    <3>1. stack \in [Thread -> Stack]
      BY <1>3 DEF IInv, Inv, TypeOK, HostTypes, Stack
    <3>2. Parked \in Frames(t)
      BY <2>1 DEF Frames, Range
    <3>3. ~At("resume")
      BY <2>1 DEF Settled, GuestCode, CallbackCode, At
    <3>4. t \in outstanding \/ Heals(t)
      BY <1>3, <2>1, <3>2, <3>3 DEF Parks, Watched, Covered
    <3>5. ASSUME Heals(t) PROVE BeingHealed(t)
      <4>1. PICK u \in Thread : \E f \in Frames(u) : f.op = "heal" /\ t \in f.lost
        BY <3>5 DEF Heals
      <4>2. PICK j \in DOMAIN stack[u] : stack[u][j].op = "heal" /\ t \in stack[u][j].lost
        BY <4>1 DEF Frames, Range
      <4>3. stack[u] # <<>>
        BY <4>2
      <4>4. state[u] \notin Terminated
        BY <1>3, <4>3 DEF Parks, Live, Terminated
      <4> QED
        BY <4>2, <4>4 DEF BeingHealed
    <3> QED
      BY <3>4, <3>5
  <2> QED
    BY <2>1 DEF SleeperHasWakeup
<1>4. IInv /\ Parks => SleeperHasWakeup
  BY <1>3
<1>5. Spec => []Parks
  BY <1>1, <1>2, StrongInvariant, PTL DEF Spec
<1> QED
  BY <1>4, <1>5, StrongInvariant, PTL
=============================================================================
