-------------------------- MODULE OSMutexes_proofs ---------------------------
(* Mutexes: who owns one, who sleeps on it, and the priority its owner has. *)
EXTENDS OSSchedulerThreads_proofs

(* A program in which no thread structure is used twice: a thread that ends *)
(* is MORIBUND until it is joined or detached.  Where a structure is used   *)
(* again, the new thread starts with an empty list of mutexes, whatever the *)
(* old one, switched away in the middle of its end, still owned.            *)
Once == "join" \notin Calls /\ "detach" \notin Calls

-----------------------------------------------------------------------------
(* The inductive invariant.                                                 *)

Waiters(m) == Range(queue[MutexQ(m)])

(* The queues of mutexes are ordered by priority.                           *)
Sorted(s, pr) == \A i, j \in DOMAIN s : i < j => pr[s[i]] <= pr[s[j]]

Lines == \A m \in Mutex : Sorted(queue[MutexQ(m)], prio)

(* The executing fiber is about to sleep on q: the owner of a mutex gets    *)
(* the priority of the thread, then the thread falls asleep.                *)
FallsAsleep(q) ==
    \/ At("sleep") /\ Top.q = q
    \/ At("promote") /\ Head(Rest).q = q

Lacks(s, O) == \A f \in Range(s) : f.op \notin O
Calm(s) == Lacks(s, {"sleep", "promote"})

(* A fiber is never switched away between the decision to sleep and the     *)
(* sleep.                                                                   *)
Awake(t) ==
    \/ Calm(stack[t])
    \/ t = exec /\ At("sleep") /\ Calm(Rest)
    \/ /\ t = exec /\ At("promote")
       /\ Rest # <<>> /\ Head(Rest).op = "sleep" /\ Calm(Tail(Rest))
       /\ \E m \in Mutex : Head(Rest).q = MutexQ(m)

(* A thread sleeps on a mutex that has an owner and that it wants; where a  *)
(* mutex without an owner has waiters, they are being woken.                *)
Sleepers ==
    /\ \A t \in Thread : Awake(t)
    /\ \A m \in Mutex :
          /\ FallsAsleep(MutexQ(m)) => owner[m] # None /\ wants[exec] = m
          /\ \A t \in Waiters(m) : wants[t] = m
          /\ owner[m] = None /\ queue[MutexQ(m)] # <<>> => At("wakeup") /\ Top.q = MutexQ(m)

(* A structure that has not been used owns nothing, and an owned mutex is   *)
(* on the list of its owner.                                                *)
Owners ==
    /\ \A t \in Thread : ~detached[t] /\ Lacks(stack[t], {"join"})
    /\ \A m \in Mutex :
          owner[m] # None => state[owner[m]] # "NONE" /\ m \in owned[owner[m]]

(* The thread o, whose mutex a thread of priority p waits for, is as urgent *)
(* or is no thread that could run: suspended, ended or none at all.         *)
Urgent(o, p) ==
    o = None \/ suspend[o] # 0 \/ state[o] \in Terminated \/ prio[o] <= p

(* The executing fiber is about to give o the priority p or a better one.   *)
Raises(o, p) ==
    \/ At("promote") /\ Top.o = o /\ Top.p <= p
    \/ At("propagate") /\ Top.o = o

Met(m, t) == Urgent(owner[m], prio[t]) \/ Raises(owner[m], prio[t])

Inherited ==
    \A m \in Mutex :
        /\ \A t \in Waiters(m) : Met(m, t)
        /\ FallsAsleep(MutexQ(m)) =>
              /\ Urgent(owner[m], prio[exec]) \/ (At("promote") /\ Top.o = owner[m])
              /\ At("promote") => Top.p = prio[exec]

MInv == IInv /\ Lines /\ Sleepers
OInv == MInv /\ Owners
PInv == OInv /\ Inherited

-----------------------------------------------------------------------------
(* Frames.                                                                  *)

LEMMA FrameOps ==
    /\ \A b : Select(b).op = "select" /\ Body(b).op = "body"
    /\ Dispatch.op = "dispatch" /\ Resched.op = "resched"
    /\ Exited.op = "exited" /\ Parked.op = "parked"
    /\ \A a : IdleLoop(a).op = "idle"
    /\ \A D, sc : Timers(D, sc).op = "timers"
    /\ \A H : Heal(H).op = "heal"
    /\ \A t : Resume(t).op = "resume" /\ Suspend(t).op = "suspend"
    /\ \A t : Joined(t).op = "join" /\ UnlockAll(t).op = "unlockAll"
    /\ \A q, w : Wakeup(q, w).op = "wakeup" /\ Wakeup(q, w).q = q
    /\ \A q : Sleep(q).op = "sleep" /\ Sleep(q).q = q
    /\ \A q, t : Slept(q, t).op = "slept"
    /\ \A m : Lock(m).op = "lock"
    /\ \A o, p : Promote(o, p).op = "promote" /\ Promote(o, p).o = o /\ Promote(o, p).p = p
    /\ \A o : Propagate(o).op = "propagate" /\ Propagate(o).o = o
    /\ \A r, d : Callback(r, d).op = "callback"
BY DEF Select, Body, Dispatch, Resched, Exited, Parked, IdleLoop, Timers, Heal, Resume,
       Suspend, Joined, UnlockAll, Wakeup, Sleep, Slept, Lock, Promote, Propagate, Callback

LEMMA LacksPushed ==
    ASSUME NEW k \in Stack, NEW O, Lacks(k, O)
    PROVE  /\ Lacks(<<>> \o k, O)
           /\ \A f : f.op \notin O => Lacks(<<f>> \o k, O)
           /\ \A f, g : f.op \notin O /\ g.op \notin O => Lacks(<<f, g>> \o k, O)
           /\ \A f, g, h : f.op \notin O /\ g.op \notin O /\ h.op \notin O
                           => Lacks(<<f, g, h>> \o k, O)
<1>1. ASSUME NEW S, NEW fs \in Seq(S), \A e \in Range(fs) : e.op \notin O
      PROVE  Lacks(fs \o k, O)
  <2> DEFINE T == S \cup Range(k)
  <2>1. Range(k) \subseteq T /\ k \in Seq(Range(k))
    BY DEF Stack, Range
  <2>2. fs \in Seq(T) /\ k \in Seq(T)
    BY <2>1
  <2> HIDE DEF T
  <2>3. Range(fs \o k) = Range(fs) \cup Range(k)
    BY <2>2, RangeConcatenation
  <2> QED
    BY <1>1, <2>3 DEF Lacks
<1>2. /\ Range(<<>>) = {} /\ \A f : Range(<<f>>) = {f}
      /\ \A f, g : Range(<<f, g>>) = {f, g}
      /\ \A f, g, h : Range(<<f, g, h>>) = {f, g, h}
  BY ShortRanges
<1>3. Lacks(<<>> \o k, O)
  BY <1>1, <1>2
<1>4. ASSUME NEW f, f.op \notin O PROVE Lacks(<<f>> \o k, O)
  <2>1. <<f>> \in Seq({f}) /\ Range(<<f>>) = {f}
    BY <1>2
  <2> QED
    BY <1>1, <1>4, <2>1
<1>5. ASSUME NEW f, NEW g, f.op \notin O, g.op \notin O PROVE Lacks(<<f, g>> \o k, O)
  <2>1. <<f, g>> \in Seq({f, g}) /\ Range(<<f, g>>) = {f, g}
    BY <1>2
  <2> QED
    BY <1>1, <1>5, <2>1
<1>6. ASSUME NEW f, NEW g, NEW h, f.op \notin O, g.op \notin O, h.op \notin O
      PROVE  Lacks(<<f, g, h>> \o k, O)
  <2>1. <<f, g, h>> \in Seq({f, g, h}) /\ Range(<<f, g, h>>) = {f, g, h}
    BY <1>2
  <2> QED
    BY <1>1, <1>6, <2>1
<1> QED
  BY <1>3, <1>4, <1>5, <1>6

(* A step pushes frames on those of the executing fiber, and takes all from *)
(* a fiber that starts anew.  Only a lock that is taken and a join push the *)
(* frames of a sleep.                                                       *)
LEMMA StacksMove ==
    ASSUME IInv, Next, NEW O, Lacks(stack[exec], O), ~GuestJoins,
           \/ O = {"join"}
           \/ O = {"sleep", "promote"} /\ ~LockRetry /\ ~GuestLocks
    PROVE  /\ Lacks(stack'[exec], O)
           /\ \A t \in Thread : t # exec => stack'[t] \in {stack[t], <<>>}
<1> DEFINE G == /\ Lacks(stack'[exec], O)
                /\ \A t \in Thread : t # exec => stack'[t] \in {stack[t], <<>>}
           Kept(k) == k \in Stack /\ Lacks(k, O)
<1>0. stack \in [Thread -> Stack] /\ exec \in Thread
  BY DEF IInv, Inv, TypeOK, HostTypes, Stack
<1>1. Kept(<<>>) /\ Kept(stack[exec])
  BY <1>0, ShortStacks, ShortRanges DEF Lacks
<1>2. ASSUME stack[exec] # <<>> PROVE Kept(Rest) /\ Top.op \notin O
  <2>1. Rest \in Stack /\ Range(Rest) \subseteq Range(stack[exec]) /\ Top \in Range(stack[exec])
    BY <1>2, RestFrames DEF IInv, Frames
  <2> QED
    BY <2>1 DEF Lacks
<1>3. ASSUME NEW fs, NEW k, Become(fs, k), Lacks(fs \o k, O) PROVE G
  BY <1>0, <1>3 DEF Become
<1>4. /\ \A k : Kept(k) /\ Become(<<>>, k) => G
      /\ \A k, f : Kept(k) /\ f.op \notin O /\ Become(<<f>>, k) => G
      /\ \A k, f, g : Kept(k) /\ f.op \notin O /\ g.op \notin O /\ Become(<<f, g>>, k) => G
  <2>1. ASSUME NEW k, Kept(k)
        PROVE  /\ Lacks(<<>> \o k, O)
               /\ \A f : f.op \notin O => Lacks(<<f>> \o k, O)
               /\ \A f, g : f.op \notin O /\ g.op \notin O => Lacks(<<f, g>> \o k, O)
    BY <2>1, LacksPushed
  <2> HIDE DEF G, Kept
  <2>2. \A k : Kept(k) /\ Become(<<>>, k) => G
    BY <1>3, <2>1
  <2>3. \A k, f : Kept(k) /\ f.op \notin O /\ Become(<<f>>, k) => G
    BY <1>3, <2>1
  <2>4. \A k, f, g : Kept(k) /\ f.op \notin O /\ g.op \notin O /\ Become(<<f, g>>, k) => G
    BY <1>3, <2>1
  <2> QED
    BY <2>2, <2>3, <2>4
<1>three. ASSUME NEW k, NEW f, NEW g, NEW h, Kept(k), f.op \notin O, g.op \notin O,
                 h.op \notin O, Become(<<f, g, h>>, k)
          PROVE  G
  <2>1. Lacks(<<f, g, h>> \o k, O)
    BY <1>three, LacksPushed
  <2> QED
    BY <1>3, <1>three, <2>1
<1>5. UNCHANGED stack => G
  BY <1>1
<1>6. ASSUME NEW op, At(op) PROVE Kept(Rest) /\ op \notin O
  BY <1>2, <1>6 DEF At, Top
<1>7. O \in {{"join"}, {"sleep", "promote"}}
  OBVIOUS
<1>served. /\ \A q, w : Wakeup(q, w).op \notin O
           /\ \A r, d : Callback(r, d).op \notin O
           /\ \A b : Select(b).op \notin O
  BY <1>7, FrameOps
<1> HIDE DEF G, Kept
<1>8. ASSUME NEW k, Kept(k), NEW t, OSResumeThread(t, k) \/ OSSuspendThread(t, k) PROVE G
  BY <1>4, <1>7, <1>8, FrameOps DEF OSResumeThread, OSSuspendThread
<1>9. ASSUME NEW k, Kept(k), NEW q, OSSleepThread(q, k) PROVE G
  BY <1>4, <1>7, <1>9, FrameOps DEF OSSleepThread
<1>10. ASSUME NEW k, Kept(k), NEW m, OSUnlockMutex(m, k) PROVE G
  BY <1>4, <1>7, <1>10, FrameOps DEF OSUnlockMutex, WakeWaiters
<1>11. ASSUME NEW k, Kept(k), NEW m, OSLockMutex(m, k), O = {"join"} PROVE G
  BY <1>4, <1>three, <1>11, FrameOps DEF OSLockMutex
<1>12. ASSUME NEW k, Kept(k), NEW t, NEW f, f.op \notin O, Become(TerminateCalls(t) \o <<f>>, k)
       PROVE  G
  <2> DEFINE a == UnlockAll(t)
             b == Wakeup(JoinQ(t), FALSE)
  <2>1. a.op \notin O /\ b.op \notin O
    BY <1>7, FrameOps
  <2>2. Become(<<a, b, f>>, k)
    BY <1>12, PairAndOne DEF TerminateCalls
  <2> HIDE DEF a, b
  <2> QED
    BY <1>three, <1>12, <2>1, <2>2
<1>13. ASSUME Continue PROVE G
  <2>1. SelectThread \/ SelectThreadFirstTimers => G
    BY <1>4, <1>6, <1>7, FrameOps DEF SelectThread, SelectThreadFirstTimers, SelectBody
  <2>2. DispatchThread => G
    BY <1>4, <1>5, <1>6, <1>7, FrameOps DEF DispatchThread
  <2>3. TimerFires => G
    BY <1>4, <1>6, <1>7, FrameOps DEF TimerFires
  <2>4. TimersDone \/ Reconcile \/ HealSleeper => G
    BY <1>4, <1>6, <1>7, FrameOps DEF TimersDone, Reconcile, HealSleeper
  <2>5. SleepCall \/ SleepReturns => G
    BY <1>4, <1>6, <1>7, <1>9, FrameOps DEF SleepCall, SleepReturns
  <2>6. WakeHead \/ WakeDone \/ Reschedule \/ ExitReschedules => G
    BY <1>4, <1>5, <1>6, <1>7, FrameOps DEF WakeHead, WakeDone, Reschedule, ExitReschedules
  <2>7. UnlockAllMutexes => G
    <3>1. \A f, g, k : Become(<<f>> \o <<g>>, k) => Become(<<f, g>>, k)
      BY PairAndOne DEF Become
    <3>2. At("unlockAll") => Top.op = "unlockAll"
      BY DEF At, Top
    <3> QED
      BY <1>4, <1>6, <1>7, <3>1, <3>2, FrameOps DEF UnlockAllMutexes, WakeWaiters
  <2>8. ResumeCall \/ SuspendCall => G
    BY <1>6, <1>8 DEF ResumeCall, SuspendCall
  <2>9. JoinReturns \/ ParkReturns => G
    BY <1>4, <1>6 DEF JoinReturns, ParkReturns
  <2>10. LockRetry => G
    BY <1>6, <1>11 DEF LockRetry
  <2>11. PromoteStep \/ PropagateStep => G
    BY <1>4, <1>6, <1>7, FrameOps DEF PromoteStep, PropagateStep
  <2> QED
    BY <1>13, <2>1, <2>2, <2>3, <2>4, <2>5, <2>6, <2>7, <2>8, <2>9, <2>10, <2>11 DEF Continue
<1>14. ASSUME IdlePass PROVE G
  <2>1. IdleTimers => G
    BY <1>4, <1>6, <1>7, FrameOps DEF IdleTimers
  <2>2. IdleAudio => G
    BY <1>4, <1>6, <1>7, FrameOps DEF IdleAudio
  <2>3. IdleRetrace => G
    <3> DEFINE a == Wakeup(EventQ(Retrace), FALSE)
               b == Callback(TRUE, FALSE)
               c == IdleLoop("check")
    <3>1. RetraceFrames \o <<c>> = <<a, b, c>>
      BY PairAndOne DEF RetraceFrames
    <3>2. a.op \notin O /\ b.op \notin O /\ c.op \notin O
      BY <1>7, FrameOps
    <3>3. IdleRetrace => Kept(Rest) /\ Become(<<a, b, c>>, Rest)
      BY <1>6, <3>1 DEF IdleRetrace
    <3> HIDE DEF a, b, c
    <3> QED
      BY <1>three, <3>2, <3>3
  <2>4. IdleNoRetrace \/ IdleCheck => G
    BY <1>4, <1>6, <1>7, FrameOps DEF IdleNoRetrace, IdleCheck
  <2> QED
    BY <1>14, <2>1, <2>2, <2>3, <2>4 DEF IdlePass
<1>15. ASSUME CallbackStep PROVE G
  <2>1. CallbackWakes => G
    BY <1>1, <1>4, <1>served DEF CallbackWakes
  <2>2. CallbackReturns => G
    BY <1>4, <1>6 DEF CallbackReturns, CallbackCode
  <2>3. CallbackResumes => G
    BY <1>1, <1>8 DEF CallbackResumes
  <2> QED
    BY <1>15, <2>1, <2>2, <2>3 DEF CallbackStep
<1>16. ASSUME GuestStep PROVE G
  <2>1. GuestCreates => G
    <3>1. ASSUME NEW t \in Thread, stack' = [stack EXCEPT ![t] = <<>>] PROVE G
      BY <1>0, <1>1, <3>1, ShortRanges DEF G, Kept, Lacks
    <3> QED
      BY <3>1 DEF GuestCreates, OSCreateThread
  <2>2. GuestResumes \/ GuestSuspends \/ GuestSleeps => G
    BY <1>1, <1>8, <1>9 DEF GuestResumes, GuestSuspends, GuestSleeps
  <2>3. GuestWakes \/ GuestYields \/ GuestPollsRetrace => G
    <3>1. GuestWakes => G
      BY <1>1, <1>4, <1>served DEF GuestWakes
    <3>2. GuestYields => G
      BY <1>1, <1>4, <1>served DEF GuestYields
    <3>3. GuestPollsRetrace => G
      BY <1>1, <1>4, <1>served DEF GuestPollsRetrace, RetraceFrames
    <3> QED
      BY <3>1, <3>2, <3>3
  <2>4. DeferredRetrace \/ DeferredAudio => G
    <3>1. DeferredRetrace => G
      BY <1>1, <1>4, <1>served DEF DeferredRetrace
    <3>2. DeferredAudio => G
      BY <1>1, <1>4, <1>served DEF DeferredAudio
    <3> QED
      BY <3>1, <3>2
  <2>5. GuestLocks \/ GuestUnlocks => G
    BY <1>1, <1>10, <1>11 DEF GuestLocks, GuestUnlocks
  <2>6. GuestExits \/ GuestCancels => G
    BY <1>1, <1>7, <1>12, FrameOps DEF GuestExits, GuestCancels, OSExitThread, OSCancelThread
  <2>7. GuestDetaches \/ GuestSleepsTicks => G
    BY <1>1, <1>4, <1>7, FrameOps DEF GuestDetaches, GuestSleepsTicks, OSDetachThread, OSSleepTicks
  <2> QED
    BY <1>16, <2>1, <2>2, <2>3, <2>4, <2>5, <2>6, <2>7 DEF GuestStep
<1>17. G
  BY <1>13, <1>14, <1>15, <1>16 DEF Next
<1> QED
  BY <1>17 DEF G

-----------------------------------------------------------------------------
(* The queues of mutexes.                                                   *)

LEMMA MutexQueues ==
    /\ \A m \in Mutex : MutexQ(m) \in WaitQueue /\ MutexQ(m) \in Queue /\ MutexQ(m) \notin RunQueue
    /\ \A m \in Mutex, p \in AnyPrio : MutexQ(m) # RunQ(p)
    /\ \A m, e : MutexQ(m) # EventQ(e)
    /\ \A m, t : MutexQ(m) # JoinQ(t)
    /\ \A m, n \in Mutex : MutexQ(m) = MutexQ(n) => m = n
BY QueueNames, QueueKinds DEF MutexQ, EventQ, JoinQ

LEMMA WaitersNow ==
    ASSUME Inv, Seated, NEW m \in Mutex
    PROVE  /\ queue[MutexQ(m)] \in Seq(Thread) /\ IsInjective(queue[MutexQ(m)])
           /\ Waiters(m) \subseteq Thread /\ (Waiters(m) = {} <=> queue[MutexQ(m)] = <<>>)
           /\ \A t \in Waiters(m) : state[t] = "WAITING" /\ queueOf[t] = MutexQ(m)
<1>1. queue[MutexQ(m)] \in Seq(Thread) /\ IsInjective(queue[MutexQ(m)])
  BY MutexQueues, SimpleNow DEF Simple, Queues
<1>2. Waiters(m) \subseteq Thread /\ (Waiters(m) = {} <=> queue[MutexQ(m)] = <<>>)
  BY <1>1, InRange DEF Waiters
<1>3. ASSUME NEW t \in Waiters(m) PROVE state[t] = "WAITING" /\ queueOf[t] = MutexQ(m)
  <2>1. t \in Thread /\ MutexQ(m) \in Holds(queue, t) /\ MutexQ(m) \in WaitQueue
    BY <1>2, MutexQueues DEF Waiters, Holds
  <2> QED
    BY <2>1, SeatNow DEF Seat
<1> QED
  BY <1>1, <1>2, <1>3

(* In the queues R nobody has entered the queue of a mutex, and nobody has  *)
(* moved on one.                                                            *)
Trims(R) ==
    \A m \in Mutex : /\ R[MutexQ(m)] \in Seq(Thread)
                     /\ Range(R[MutexQ(m)]) \subseteq Waiters(m)
                     /\ KeepsOrder(queue[MutexQ(m)], R[MutexQ(m)])

LEMMA TrimsNothing ==
    ASSUME Inv, Seated, NEW R, \A m \in Mutex : R[MutexQ(m)] = queue[MutexQ(m)]
    PROVE  Trims(R)
BY WaitersNow DEF Trims, Waiters, KeepsOrder

LEMMA TrimsElsewhere ==
    ASSUME Inv, Seated, NEW q \in Queue, \A m \in Mutex : q # MutexQ(m), NEW Q \in Queues,
           Trims(Q), NEW s
    PROVE  Trims([Q EXCEPT ![q] = s])
BY MutexQueues DEF Trims, Queues

LEMMA TrimsTail ==
    ASSUME Inv, Seated, NEW q \in Queue, queue[q] # <<>>
    PROVE  Trims([queue EXCEPT ![q] = Tail(@)])
<1>1. queue \in Queues /\ queue[q] \in Seq(Thread) /\ IsInjective(queue[q])
  BY SimpleNow DEF Simple, Queues
<1>2. /\ Tail(queue[q]) \in Seq(Thread) /\ Range(Tail(queue[q])) \subseteq Range(queue[q])
      /\ KeepsOrder(queue[q], Tail(queue[q]))
  BY <1>1, TailTaken, OrderTail
<1>3. Trims(queue)
  BY TrimsNothing
<1> QED
  BY <1>1, <1>2, <1>3, MutexQueues DEF Trims, Queues, Waiters

LEMMA TrimsUnlinked ==
    ASSUME Inv, Seated, NEW q \in Queue, NEW t
    PROVE  Trims([queue EXCEPT ![q] = Unlinked(@, t)])
<1>1. queue \in Queues /\ queue[q] \in Seq(Thread) /\ IsInjective(queue[q])
  BY SimpleNow DEF Simple, Queues
<1>2. /\ Unlinked(queue[q], t) \in Seq(Thread) /\ Range(Unlinked(queue[q], t)) \subseteq Range(queue[q])
      /\ KeepsOrder(queue[q], Unlinked(queue[q], t))
  BY <1>1, UnlinkedType, UnlinkedThreads, OrderUnlinked
<1>3. Trims(queue)
  BY TrimsNothing
<1> QED
  BY <1>1, <1>2, <1>3, MutexQueues DEF Trims, Queues, Waiters

LEMMA TrimsWithout ==
    ASSUME Inv, Seated, NEW t \in Thread
    PROVE  Trims(QueueWithout(t)) /\ QueueWithout(t) \in Queues
<1>1. QueueWithout(t) \in Queues
  BY Removing
<1>2. CASE queueOf[t] = None
  BY <1>1, <1>2, TrimsNothing DEF QueueWithout
<1>3. CASE queueOf[t] # None
  BY <1>1, <1>3, Fields, TrimsUnlinked DEF QueueWithout
<1> QED
  BY <1>2, <1>3

(* Sorted queues.                                                           *)
LEMMA SortedKept ==
    ASSUME NEW s \in Seq(Thread), NEW r \in Seq(Thread), Range(r) \subseteq Range(s),
           KeepsOrder(s, r), NEW pr, Sorted(s, pr)
    PROVE  Sorted(r, pr)
<1> SUFFICES ASSUME NEW i \in DOMAIN r, NEW j \in DOMAIN r, i < j
             PROVE  pr[r[i]] <= pr[r[j]]
  BY DEF Sorted
<1>1. r[j] \in Range(s)
  BY DEF Range
<1>2. PICK x, y \in DOMAIN s : x < y /\ s[x] = r[i] /\ s[y] = r[j]
  <2> DEFINE a == r[i]
             b == r[j]
  <2>1. b \in Range(s) /\ \E x, y \in DOMAIN r : x < y /\ r[x] = a /\ r[y] = b
    BY <1>1
  <2> HIDE DEF a, b
  <2>2. \E x, y \in DOMAIN s : x < y /\ s[x] = a /\ s[y] = b
    BY <2>1 DEF KeepsOrder
  <2> QED
    BY <2>2 DEF a, b
<1> QED
  BY <1>2 DEF Sorted

LEMMA SortedInserted ==
    ASSUME NEW s \in Seq(Thread), NEW t \in Thread, NEW p \in Nat, NEW pr \in [Thread -> Nat],
           NEW pn \in [Thread -> Nat], Sorted(s, pr), pn[t] = p,
           \A u \in Range(s) : pn[u] = pr[u]
    PROVE  Sorted(InsertedByPriority(s, t, p, pr), pn)
<1> DEFINE r == InsertedByPriority(s, t, p, pr)
           i == InsertPoint(s, p, pr)
           n == Len(s)
<1>1. /\ i \in 1 .. n + 1 /\ n \in Nat
      /\ \A j \in 1 .. i - 1 : pr[s[j]] <= p
      /\ i <= n => pr[s[i]] > p
  BY InsertPlace, LenProperties
<1>2. r \in Seq(Thread) /\ Len(r) = n + 1
  BY InsertedEntries
<1>3. ASSUME NEW j \in 1 .. n + 1
      PROVE  r[j] = IF j < i THEN s[j] ELSE IF j = i THEN t ELSE s[j - 1]
  BY InsertedEntries
<1>4. /\ DOMAIN s = 1 .. n /\ \A j \in 1 .. n : s[j] \in Thread /\ s[j] \in Range(s)
      /\ DOMAIN r = 1 .. n + 1
  BY <1>2, InRange
<1>5. \A j \in 1 .. n : pn[s[j]] = pr[s[j]] /\ pr[s[j]] \in Nat
  BY <1>4
<1>6. \A x, y \in 1 .. n : x < y => pr[s[x]] <= pr[s[y]]
  BY <1>4 DEF Sorted
<1> HIDE DEF r, i, n
<1>7. \A y \in 1 .. n : y >= i => pr[s[y]] > p
  BY <1>1, <1>5, <1>6
<1> SUFFICES ASSUME NEW a \in 1 .. n + 1, NEW b \in 1 .. n + 1, a < b
             PROVE  pn[r[a]] <= pn[r[b]]
  BY <1>4 DEF Sorted, r
<1>8. CASE b < i
  <2>1. a \in 1 .. n /\ b \in 1 .. n /\ a < i
    BY <1>1, <1>8
  <2>2. r[a] = s[a] /\ r[b] = s[b]
    BY <1>3, <1>8, <2>1
  <2> QED
    BY <1>5, <1>6, <2>1, <2>2
<1>9. CASE b = i
  BY <1>1, <1>3, <1>5, <1>9
<1>10. CASE b > i
  <2>1. r[b] = s[b - 1] /\ b - 1 \in 1 .. n /\ b - 1 >= i
    BY <1>1, <1>3, <1>10
  <2>2. CASE a < i
    <3>0. a \in 1 .. n /\ a < b - 1
      BY <1>1, <1>10, <2>2
    <3>1. r[a] = s[a] /\ a \in 1 .. n /\ a < b - 1
      BY <1>3, <2>2, <3>0
    <3> QED
      BY <1>5, <1>6, <2>1, <3>1
  <2>3. CASE a = i
    BY <1>1, <1>3, <1>5, <1>7, <2>1, <2>3
  <2>4. CASE a > i
    <3>0. a - 1 \in 1 .. n /\ a - 1 < b - 1 /\ ~(a < i) /\ a # i
      BY <1>1, <2>4
    <3>1. r[a] = s[a - 1] /\ a - 1 \in 1 .. n /\ a - 1 < b - 1
      BY <1>3, <3>0
    <3> QED
      BY <1>5, <1>6, <2>1, <3>1
  <2> QED
    BY <1>1, <2>2, <2>3, <2>4
<1> QED
  BY <1>1, <1>8, <1>9, <1>10

-----------------------------------------------------------------------------
(* What a step does to the queues of the mutexes.                           *)

(* A thread that has ended is not revived, and a structure is given back by *)
(* a join or where the thread is detached only.                             *)
Ends ==
    /\ \A t \in Thread : state[t] \in Terminated => state'[t] \in Terminated
    /\ \A t \in Thread : state'[t] = "NONE" =>
                            state[t] = "NONE" \/ detached[t] \/ At("join") \/ ~Once
    /\ Once => UNCHANGED detached

(* Most steps change no priority and let nobody enter these queues.         *)
Quiet ==
    /\ UNCHANGED <<prio, suspend, wants, mutexVars>>
    /\ Trims(queue')
    /\ Ends

LEMMA QuietTrims ==
    ASSUME Inv, Seated, UNCHANGED <<threadVars, mutexVars, queue>>
    PROVE  Quiet
BY TrimsNothing DEF Quiet, Ends, threadVars

LEMMA QuietSelect ==
    ASSUME IInv, SelectThread
    PROVE  Quiet
<1>0. Inv /\ Seated
  BY DEF IInv
<1>1. Trims(queue')
  <2>1. CASE UNCHANGED queue
    BY <1>0, <2>1, TrimsNothing
  <2>2. CASE /\ running # None
             /\ queue' = [queue EXCEPT ![RunQ(prio[running])] = Append(@, running)]
    <3>1. RunQ(prio[running]) \in Queue /\ queue \in Queues
          /\ \A m \in Mutex : RunQ(prio[running]) # MutexQ(m)
      BY <1>0, <2>2, Fields, QueueKinds, MutexQueues
    <3>2. Trims(queue)
      BY <1>0, TrimsNothing
    <3> QED
      BY <1>0, <2>2, <3>1, <3>2, TrimsElsewhere
  <2> QED
    BY <2>1, <2>2 DEF SelectThread, SelectBody
<1>2. Ends
  BY <1>0, Fields DEF SelectThread, SelectBody, Terminated, Ends
<1> QED
  BY <1>1, <1>2 DEF SelectThread, Quiet

LEMMA QuietDispatch ==
    ASSUME IInv, DispatchThread
    PROVE  Quiet
<1>0. Inv /\ Seated /\ Fibers
  BY DEF IInv
<1> DEFINE p == Best(pending)
           t == Head(queue[RunQ(p)])
<1>1. /\ p \in Prio /\ queue[RunQ(p)] # <<>> /\ t \in Thread /\ state[t] = "READY"
      /\ queue' = [queue EXCEPT ![RunQ(p)] = Tail(@)]
      /\ state' = [state EXCEPT ![t] = "RUNNING"]
  BY <1>0, DispatchChooses
<1> HIDE DEF p, t
<1>2. RunQ(p) \in Queue
  BY <1>1, QueueKinds
<1>3. Trims(queue')
  BY <1>0, <1>1, <1>2, TrimsTail
<1>4. Ends
  BY <1>0, <1>1, Fields DEF Terminated, DispatchThread, Ends
<1> QED
  BY <1>3, <1>4 DEF DispatchThread, Quiet

LEMMA QuietWakeHead ==
    ASSUME IInv, WakeHead
    PROVE  Quiet
<1>0. Inv /\ Seated
  BY DEF IInv
<1> DEFINE t == Head(queue[Top.q])
           left == [queue EXCEPT ![Top.q] = Tail(@)]
<1>1. /\ Top.q \in WaitQueue /\ t \in Thread /\ state[t] = "WAITING"
      /\ Moved(left, t, {})
      /\ state' = [state EXCEPT ![t] = "READY"]
      /\ \/ prio[t] \in Prio /\ queue' = [left EXCEPT ![RunQ(prio[t])] = Append(@, t)]
         \/ queue' = left
  BY <1>0, WakeMoves
<1>2. Top.q \in Queue /\ queue[Top.q] # <<>>
  BY <1>1, QueueKinds DEF WakeHead
<1>3. Trims(left) /\ left \in Queues
  BY <1>0, <1>1, <1>2, TrimsTail DEF Moved, Moves, Simple
<1>4. prio[t] \in Prio => RunQ(prio[t]) \in Queue /\ \A m \in Mutex : RunQ(prio[t]) # MutexQ(m)
  BY QueueKinds, MutexQueues
<1> HIDE DEF t, left
<1>5. Trims(queue')
  BY <1>0, <1>1, <1>3, <1>4, TrimsElsewhere
<1>6. Ends
  BY <1>0, <1>1, Fields DEF Terminated, WakeHead, Ends
<1> QED
  BY <1>5, <1>6 DEF WakeHead, Quiet

LEMMA QuietSleeps ==
    ASSUME IInv, GuestSleeps
    PROVE  Quiet
<1>0. Inv /\ Seated
  BY DEF IInv
<1>1. PICK e \in Event : OSSleepThread(EventQ(e), <<>>)
  BY DEF GuestSleeps
<1>2. running = exec /\ state[exec] = "RUNNING" /\ disable = 0 /\ exec \in Thread /\ exec # None
  BY OwnNow DEF GuestSleeps, Own
<1>3. PICK s : queue' = [queue EXCEPT ![EventQ(e)] = s]
  BY <1>1, <1>2 DEF OSSleepThread
<1>4. EventQ(e) \in Queue /\ \A m \in Mutex : EventQ(e) # MutexQ(m)
  BY QueueNames, MutexQueues
<1>5. queue \in Queues /\ Trims(queue)
  BY <1>0, Fields, TrimsNothing
<1>6. Trims(queue')
  BY <1>0, <1>3, <1>4, <1>5, TrimsElsewhere
<1>7. Ends
  BY <1>0, <1>1, <1>2, Fields DEF OSSleepThread, Terminated, Ends
<1> QED
  BY <1>1, <1>6, <1>7 DEF OSSleepThread, Quiet

LEMMA QuietReturns ==
    ASSUME IInv, SleepReturns \/ ParkReturns
    PROVE  Quiet
<1>0. Inv /\ Seated /\ Fibers
  BY DEF IInv
<1>1. ASSUME SleepReturns PROVE Quiet
  <2>1. Top.q \in Queue /\ Top.t \in Thread
    BY <1>0, <1>1, StackTop, FrameFields, QueueKinds DEF SleepReturns
  <2>2. Trims(queue')
    <3>1. CASE queue' = [queue EXCEPT ![Top.q] = Unlinked(@, Top.t)]
      BY <1>0, <2>1, <3>1, TrimsUnlinked
    <3>2. CASE UNCHANGED queue
      BY <1>0, <3>2, TrimsNothing
    <3> QED
      BY <1>1, <3>1, <3>2 DEF SleepReturns
  <2>3. Ends
    BY <1>0, <1>1, <2>1, Fields DEF SleepReturns, Terminated, Ends
  <2> QED
    BY <1>1, <2>2, <2>3 DEF SleepReturns, Quiet
<1>2. ASSUME ParkReturns PROVE Quiet
  <2>1. Own(Rest)
    BY <1>2 DEF ParkReturns, Own, OwnCalls
  <2>2. suspend[exec] = 0
    BY <2>1, OwnNow
  <2>3. UNCHANGED <<suspend, state>>
    BY <1>2, <2>2 DEF ParkReturns
  <2>4. Trims(queue')
    BY <1>0, <1>2, TrimsNothing DEF ParkReturns, schedVars
  <2>5. Ends
    BY <1>2, <2>3 DEF ParkReturns, Ends
  <2> QED
    BY <1>2, <2>3, <2>4, <2>5 DEF ParkReturns, Quiet
<1> QED
  BY <1>1, <1>2

LEMMA QuietEnds ==
    ASSUME IInv, GuestExits \/ GuestCancels
    PROVE  Quiet
<1>0. Inv /\ Seated
  BY DEF IInv
<1>1. ASSUME NEW t, Terminate(t), UNCHANGED detached
      PROVE  Ends
  BY <1>0, <1>1, Fields DEF Terminate, Terminated, Ends
<1>2. ASSUME GuestExits PROVE Quiet
  <2>1. Trims(queue')
    BY <1>0, <1>2, TrimsNothing DEF GuestExits, OSExitThread, schedVars
  <2> QED
    BY <1>1, <1>2, <2>1 DEF GuestExits, OSExitThread, Quiet
<1>3. ASSUME GuestCancels PROVE Quiet
  <2>1. PICK t \in Thread : OSCancelThread(t, <<>>)
    BY <1>3 DEF GuestCancels
  <2>2. Trims(queue')
    BY <1>0, <2>1, TrimsNothing, TrimsWithout DEF OSCancelThread, Removed
  <2> QED
    BY <1>1, <2>1, <2>2 DEF OSCancelThread, Quiet
<1> QED
  BY <1>2, <1>3

LEMMA QuietJoins ==
    ASSUME IInv, JoinReturns \/ GuestJoins \/ GuestDetaches
    PROVE  Quiet
<1>0. Inv /\ Seated
  BY DEF IInv
<1>1. UNCHANGED <<prio, suspend, wants, mutexVars, queue>>
  BY DEF JoinReturns, GuestJoins, GuestDetaches, OSJoinThread, OSDetachThread, schedVars
<1>2. ASSUME NEW t, Reaped(t), Once => UNCHANGED detached, At("join") \/ ~Once
      PROVE  Ends
  BY <1>0, <1>2, Fields DEF Reaped, Terminated, Ends
<1>3. Ends
  <2>1. CASE JoinReturns
    BY <1>2, <2>1 DEF JoinReturns
  <2>2. CASE GuestJoins
    <3>1. ~Once
      BY <2>2 DEF GuestJoins, Once
    <3>2. CASE UNCHANGED state
      BY <3>1, <3>2 DEF Ends
    <3> QED
      BY <1>2, <2>2, <3>1, <3>2 DEF GuestJoins, OSJoinThread
  <2>3. CASE GuestDetaches
    BY <1>2, <2>3 DEF GuestDetaches, OSDetachThread, Once
  <2> QED
    BY <2>1, <2>2, <2>3
<1> QED
  BY <1>0, <1>1, <1>3, TrimsNothing DEF Quiet

Resumes  == ResumeCall \/ GuestResumes \/ CallbackResumes
Suspends == SuspendCall \/ GuestSuspends
Locks    == LockRetry \/ GuestLocks
Unlocks  == GuestUnlocks \/ UnlockAllMutexes
Reprices == PromoteStep \/ PropagateStep

LEMMA StepKinds ==
    ASSUME IInv, Next
    PROVE  Quiet \/ SleepCall \/ Locks \/ Unlocks \/ GuestCreates \/ Resumes \/ Suspends \/ Reprices
<1>0. Inv /\ Seated
  BY DEF IInv
<1>1. UNCHANGED <<threadVars, mutexVars, queue>> => Quiet
  BY <1>0, QuietTrims
<1>2. ASSUME Continue PROVE Quiet \/ SleepCall \/ Locks \/ Unlocks \/ Resumes \/ Suspends \/ Reprices
  <2>1. SelectThreadFirstTimers \/ TimerFires \/ TimersDone \/ Reconcile \/ HealSleeper
        \/ WakeDone \/ Reschedule \/ ExitReschedules => Quiet
    BY <1>1 DEF SelectThreadFirstTimers, TimerFires, TimersDone, Reconcile, HealSleeper,
                WakeDone, Reschedule, ExitReschedules, schedVars
  <2>2. SelectThread \/ DispatchThread \/ WakeHead => Quiet
    BY QuietSelect, QuietDispatch, QuietWakeHead
  <2>3. SleepReturns \/ ParkReturns \/ JoinReturns => Quiet
    BY QuietReturns, QuietJoins
  <2> QED
    BY <1>2, <2>1, <2>2, <2>3 DEF Continue, Locks, Unlocks, Resumes, Suspends, Reprices
<1>3. IdlePass => Quiet
  BY <1>1 DEF IdlePass, IdleTimers, IdleAudio, IdleRetrace, IdleNoRetrace, IdleCheck, schedVars
<1>4. CallbackStep => Quiet \/ Resumes
  BY <1>1 DEF CallbackStep, CallbackWakes, CallbackReturns, Resumes, schedVars
<1>5. ASSUME GuestStep PROVE Quiet \/ Locks \/ Unlocks \/ GuestCreates \/ Resumes \/ Suspends
  <2>1. GuestWakes \/ GuestYields \/ GuestSleepsTicks \/ GuestPollsRetrace
        \/ DeferredRetrace \/ DeferredAudio => Quiet
    BY <1>1 DEF GuestWakes, GuestYields, GuestSleepsTicks, OSSleepTicks, GuestPollsRetrace,
                DeferredRetrace, DeferredAudio, schedVars
  <2>2. GuestSleeps \/ GuestExits \/ GuestCancels \/ GuestJoins \/ GuestDetaches => Quiet
    BY QuietSleeps, QuietEnds, QuietJoins
  <2> QED
    BY <1>5, <2>1, <2>2 DEF GuestStep, Locks, Unlocks, Resumes, Suspends
<1> QED
  BY <1>2, <1>3, <1>4, <1>5 DEF Next

-----------------------------------------------------------------------------
(* The queues of the mutexes stay ordered by priority.                      *)

(* The queues R line up by the priorities pn, and nobody has entered one.   *)
LinedUp(R, pn) ==
    \A m \in Mutex : Range(R[MutexQ(m)]) \subseteq Waiters(m) /\ Sorted(R[MutexQ(m)], pn)

LEMMA SortedSame ==
    ASSUME NEW s \in Seq(Thread), NEW pr, NEW pn, Sorted(s, pr),
           \A u \in Range(s) : pn[u] = pr[u]
    PROVE  Sorted(s, pn)
<1>1. \A i \in DOMAIN s : pn[s[i]] = pr[s[i]]
  BY DEF Range
<1> QED
  BY <1>1 DEF Sorted

(* Nobody enters, and the threads on the queues keep their priorities.      *)
LEMMA LinedTrims ==
    ASSUME Inv, Seated, Lines, NEW R, Trims(R), NEW pn,
           \A m \in Mutex : \A u \in Range(R[MutexQ(m)]) : pn[u] = prio[u]
    PROVE  LinedUp(R, pn)
<1> SUFFICES ASSUME NEW m \in Mutex
             PROVE  Range(R[MutexQ(m)]) \subseteq Waiters(m) /\ Sorted(R[MutexQ(m)], pn)
  BY DEF LinedUp
<1>1. queue[MutexQ(m)] \in Seq(Thread) /\ Sorted(queue[MutexQ(m)], prio)
  BY WaitersNow DEF Lines
<1>2. /\ R[MutexQ(m)] \in Seq(Thread) /\ Range(R[MutexQ(m)]) \subseteq Range(queue[MutexQ(m)])
      /\ KeepsOrder(queue[MutexQ(m)], R[MutexQ(m)])
  BY DEF Trims, Waiters
<1>3. Sorted(R[MutexQ(m)], prio)
  BY <1>1, <1>2, SortedKept
<1> QED
  BY <1>2, <1>3, SortedSame DEF Waiters

(* A thread that waits for no mutex gets another priority.                  *)
LEMMA LinedAway ==
    ASSUME Inv, Seated, Lines, NEW R, Trims(R), NEW t \in Thread, NEW p,
           \A m \in Mutex : t \notin Range(R[MutexQ(m)])
    PROVE  LinedUp(R, [prio EXCEPT ![t] = p])
<1>1. \A m \in Mutex : \A u \in Range(R[MutexQ(m)]) :
         u \in Thread /\ u # t /\ [prio EXCEPT ![t] = p][u] = prio[u]
  BY WaitersNow, Fields DEF Trims
<1> QED
  BY <1>1, LinedTrims

(* A thread moves to its place in a queue, as a thread of another priority. *)
LEMMA LinedRequeued ==
    ASSUME Inv, Seated, Lines, NEW t \in Thread, NEW q \in Queue, NEW p \in AnyPrio,
           \A m \in Mutex : q = MutexQ(m) => t \in Waiters(m)
    PROVE  LinedUp(Requeued(t, q, p), [prio EXCEPT ![t] = p])
<1> DEFINE Q  == QueueWithout(t)
           pn == [prio EXCEPT ![t] = p]
           s  == InsertedByPriority(Q[q], t, p, prio)
<1>1. /\ Trims(Q) /\ Q \in Queues /\ \A m \in Mutex : t \notin Range(Q[MutexQ(m)])
      /\ Requeued(t, q, p) = [Q EXCEPT ![q] = s]
  BY TrimsWithout, Unlinking, MutexQueues DEF Moved, Moves, Holds, Requeued
<1>2. prio \in [Thread -> Nat] /\ p \in Nat /\ pn \in [Thread -> Nat] /\ pn[t] = p
      /\ \A u \in Thread : u # t => pn[u] = prio[u]
  BY Fields, QueueNames
<1>3. LinedUp(Q, pn)
  BY <1>1, LinedAway
<1> HIDE DEF Q, pn
<1>4. ASSUME NEW m \in Mutex
      PROVE  /\ Range(Requeued(t, q, p)[MutexQ(m)]) \subseteq Waiters(m)
             /\ Sorted(Requeued(t, q, p)[MutexQ(m)], pn)
  <2>1. CASE q # MutexQ(m)
    <3>1. Requeued(t, q, p)[MutexQ(m)] = Q[MutexQ(m)]
      BY <1>1, <2>1, MutexQueues DEF Queues
    <3> QED
      BY <1>3, <3>1 DEF LinedUp
  <2>2. CASE q = MutexQ(m)
    <3>1. Q[q] \in Seq(Thread) /\ Requeued(t, q, p)[MutexQ(m)] = s /\ t \notin Range(Q[q])
          /\ Range(Q[q]) \subseteq Waiters(m) /\ Range(Q[q]) \subseteq Thread
      BY <1>1, <1>3, <2>2, InRange DEF Queues, LinedUp
    <3>2. Trims(Q) /\ IsInjective(Q[q])
      BY <1>1, Unlinking DEF Q, Moved, Moves, Simple
    <3>3. Range(s) = Range(Q[q]) \cup {t}
      BY <1>2, <3>1, <3>2, InsertedThreads
    <3>4. Sorted(Q[q], prio)
      <4>1. Sorted(Q[q], pn)
        BY <1>3, <2>2 DEF LinedUp
      <4>2. \A u \in Range(Q[q]) : prio[u] = pn[u]
        BY <1>2, <3>1
      <4> QED
        BY <3>1, <4>1, <4>2, SortedSame
    <3>5. \A u \in Range(Q[q]) : pn[u] = prio[u]
      BY <1>2, <3>1
    <3>6. Sorted(s, pn)
      BY <1>2, <3>1, <3>4, <3>5, SortedInserted
    <3> QED
      BY <2>2, <3>1, <3>3, <3>6
  <2> QED
    BY <2>1, <2>2
<1> QED
  BY <1>4 DEF LinedUp, pn

LEMMA LinedSame ==
    ASSUME Inv, Seated, Lines
    PROVE  LinedUp(queue, prio)
BY LinedTrims, TrimsNothing, WaitersNow DEF LinedUp, Lines, Waiters

(* A WAITING thread is on the queue of the mutex its pointer names.         *)
LEMMA WaitsThere ==
    ASSUME Inv, Seated, NEW t \in Thread, state[t] = "WAITING"
    PROVE  /\ queueOf[t] \in Queue /\ queueOf[t] # None
           /\ \A m \in Mutex : queueOf[t] = MutexQ(m) => t \in Waiters(m)
<1>1. /\ queueOf[t] \in WaitQueue
      /\ queueOf[t] \notin Holds(queue, t) => \E u \in Thread : queueOf[t] = JoinQ(u)
  BY SeatNow DEF Seat
<1>2. queueOf[t] \in Queue
  BY <1>1, QueueKinds
<1>3. \A m \in Mutex : queueOf[t] = MutexQ(m) => MutexQ(m) \in Holds(queue, t)
  BY <1>1, MutexQueues
<1> QED
  BY <1>2, <1>3, QueueAssumption DEF Holds, Waiters

(* Only a WAITING thread is on a mutex's queue.                             *)
LEMMA WaitsNowhere ==
    ASSUME Inv, Seated, NEW t \in Thread, state[t] # "WAITING"
    PROVE  \A m \in Mutex : t \notin Waiters(m)
BY WaitersNow

LEMMA LinedResume ==
    ASSUME Inv, Seated, Lines, NEW t \in Thread, NEW k, OSResumeThread(t, k)
    PROVE  LinedUp(queue', prio')
<1> DEFINE p == EffectivePriority(t, owned[t])
<1>1. p \in Prio /\ p \in AnyPrio
  BY EffectivePriorityRuns, QueueKinds, OwnSets
<1> HIDE DEF p
<1>2. CASE UNCHANGED <<queue, prio>>
  BY <1>2, LinedSame
<1>3. CASE /\ state[t] = "WAITING" /\ queueOf[t] # None
           /\ queue' = Requeued(t, queueOf[t], p) /\ prio' = [prio EXCEPT ![t] = p]
  BY <1>1, <1>3, WaitsThere, LinedRequeued
<1>4. CASE state[t] \in {"READY", "RUNNING"} /\ MadeReady(t, p)
  <2>1. RunQ(p) \in Queue /\ queue \in Queues /\ Trims(queue) /\ \A m \in Mutex : RunQ(p) # MutexQ(m)
    BY <1>1, Fields, QueueKinds, MutexQueues, TrimsNothing
  <2>2. Trims(queue') /\ \A m \in Mutex : queue'[MutexQ(m)] = queue[MutexQ(m)]
    BY <1>4, <2>1, TrimsElsewhere, MutexQueues DEF MadeReady, Queues
  <2>3. \A m \in Mutex : t \notin Range(queue'[MutexQ(m)])
    BY <1>4, <2>2, WaitsNowhere DEF Waiters
  <2>4. prio' = [prio EXCEPT ![t] = p]
    BY <1>4 DEF MadeReady
  <2> QED
    BY <2>2, <2>3, <2>4, LinedAway
<1>5. state[t] = "WAITING" => queueOf[t] # None
  BY WaitsThere
<1> QED
  BY <1>2, <1>3, <1>4, <1>5 DEF OSResumeThread, p

LEMMA LinedSuspend ==
    ASSUME Inv, Seated, Lines, NEW t \in Thread, NEW k, OSSuspendThread(t, k)
    PROVE  LinedUp(queue', prio')
<1>1. CASE UNCHANGED <<queue, prio>>
  BY <1>1, LinedSame
<1>2. CASE queue' = QueueWithout(t) /\ prio' = prio
  BY <1>2, TrimsWithout, LinedTrims
<1>3. CASE /\ state[t] = "WAITING" /\ queueOf[t] # None
           /\ queue' = Requeued(t, queueOf[t], SuspendedWaitPriority)
           /\ prio' = [prio EXCEPT ![t] = SuspendedWaitPriority]
  BY <1>3, QueueNames, WaitsThere, LinedRequeued
<1>4. state[t] = "WAITING" => queueOf[t] # None
  BY WaitsThere
<1> QED
  BY <1>1, <1>2, <1>3, <1>4 DEF OSSuspendThread, Removed

LEMMA LinedPriority ==
    ASSUME Inv, Seated, Lines, NEW t \in Thread, NEW p \in Prio, SetThreadEffectivePriority(t, p)
    PROVE  LinedUp(queue', prio')
<1>1. p \in AnyPrio /\ RunQ(p) \in Queue /\ \A m \in Mutex : RunQ(p) # MutexQ(m)
  BY QueueKinds, MutexQueues
<1>2. CASE UNCHANGED <<queue, prio>>
  BY <1>2, LinedSame
<1>3. CASE queue' = Requeued(t, RunQ(p), p) /\ prio' = [prio EXCEPT ![t] = p]
  BY <1>1, <1>3, LinedRequeued
<1>4. CASE /\ state[t] = "WAITING" /\ queueOf[t] # None
           /\ queue' = Requeued(t, queueOf[t], p) /\ prio' = [prio EXCEPT ![t] = p]
  BY <1>1, <1>4, WaitsThere, LinedRequeued
<1>5. CASE state[t] = "RUNNING" /\ UNCHANGED queue /\ prio' = [prio EXCEPT ![t] = p]
  BY <1>5, WaitsNowhere, TrimsNothing, LinedAway DEF Waiters
<1>6. state[t] = "WAITING" => queueOf[t] # None
  BY WaitsThere
<1> QED
  BY <1>2, <1>3, <1>4, <1>5, <1>6 DEF SetThreadEffectivePriority

LEMMA LinedReprices ==
    ASSUME IInv, Lines, Reprices
    PROVE  LinedUp(queue', prio')
<1>0. Inv /\ Seated /\ Fibers
  BY DEF IInv
<1>1. UNCHANGED <<queue, prio>> => LinedUp(queue', prio')
  BY <1>0, LinedSame
<1>2. ASSUME PromoteStep PROVE LinedUp(queue', prio')
  <2>1. CASE Top.o # None /\ SetThreadEffectivePriority(Top.o, Top.p)
    <3>1. Top.o \in Thread /\ Top.p \in Prio
      BY <1>0, <1>2, <2>1, StackTop, FrameFields, TopFits DEF PromoteStep, Fits
    <3> QED
      BY <1>0, <2>1, <3>1, LinedPriority
  <2> QED
    BY <1>1, <1>2, <2>1 DEF PromoteStep
<1>3. ASSUME PropagateStep PROVE LinedUp(queue', prio')
  <2> DEFINE p == EffectivePriority(Top.o, owned[Top.o])
  <2>1. CASE Top.o # None /\ SetThreadEffectivePriority(Top.o, p)
    <3>1. Top.o \in Thread
      BY <1>0, <1>3, <2>1, StackTop, FrameFields DEF PropagateStep
    <3>2. p \in Prio
      BY <1>0, <3>1, OwnSets, EffectivePriorityRuns
    <3> HIDE DEF p
    <3> QED
      BY <1>0, <2>1, <3>1, <3>2, LinedPriority
  <2> QED
    BY <1>1, <1>3, <2>1 DEF PropagateStep
<1> QED
  BY <1>2, <1>3 DEF Reprices

LEMMA LinedUnlocks ==
    ASSUME IInv, Lines, Unlocks \/ Locks
    PROVE  LinedUp(queue', prio')
<1>0. Inv /\ Seated
  BY DEF IInv
<1>1. UNCHANGED <<queue, prio>> => LinedUp(queue', prio')
  BY <1>0, LinedSame
<1>2. ASSUME GuestUnlocks, prio' # prio PROVE LinedUp(queue', prio')
  <2>1. PICK m \in Mutex : OSUnlockMutex(m, <<>>)
    BY <1>2 DEF GuestUnlocks
  <2>2. running \in Thread /\ state[running] = "RUNNING" /\ Own(<<>>)
    BY <1>2, OwnNow DEF GuestUnlocks, Own
  <2>3. PICK p : UNCHANGED queue /\ prio' = [prio EXCEPT ![running] = p]
    BY <1>2, <2>1 DEF OSUnlockMutex, schedVars
  <2>4. Trims(queue') /\ \A n \in Mutex : running \notin Range(queue'[MutexQ(n)])
    BY <1>0, <2>2, <2>3, WaitsNowhere, TrimsNothing DEF Waiters
  <2> QED
    BY <1>0, <2>2, <2>3, <2>4, LinedAway
<1>3. GuestUnlocks => UNCHANGED queue
  BY DEF GuestUnlocks, OSUnlockMutex, schedVars
<1>4. UnlockAllMutexes \/ Locks => UNCHANGED <<queue, prio>>
  BY DEF UnlockAllMutexes, Locks, LockRetry, GuestLocks, OSLockMutex, threadVars, schedVars
<1> QED
  BY <1>1, <1>2, <1>3, <1>4 DEF Unlocks

LEMMA LinedCreates ==
    ASSUME IInv, Lines, GuestCreates
    PROVE  LinedUp(queue', prio')
<1>0. Inv /\ Seated
  BY DEF IInv
<1>1. PICK t \in Thread \ Alive, p \in Prio, d \in BOOLEAN : OSCreateThread(t, p, d)
  BY DEF GuestCreates
<1>2. /\ state[t] = "NONE" /\ queue' = [queue EXCEPT ![JoinQ(t)] = <<>>]
      /\ prio' = [prio EXCEPT ![t] = p]
  BY <1>1 DEF OSCreateThread, Alive
<1>3. JoinQ(t) \in Queue /\ queue \in Queues /\ Trims(queue) /\ \A m \in Mutex : JoinQ(t) # MutexQ(m)
  BY <1>0, Fields, QueueKinds, MutexQueues, TrimsNothing
<1>4. Trims(queue') /\ \A m \in Mutex : queue'[MutexQ(m)] = queue[MutexQ(m)]
  BY <1>0, <1>2, <1>3, TrimsElsewhere, MutexQueues DEF Queues
<1>5. \A m \in Mutex : t \notin Range(queue'[MutexQ(m)])
  BY <1>0, <1>2, <1>4, WaitsNowhere DEF Waiters
<1> QED
  BY <1>0, <1>2, <1>4, <1>5, LinedAway

(* Nobody enters the queue of a mutex but by going to sleep on it.          *)
LEMMA EveryLine ==
    ASSUME IInv, Lines, Next
    PROVE  LinedUp(queue', prio') \/ SleepCall
<1>0. Inv /\ Seated /\ Fibers
  BY DEF IInv
<1>1. Quiet => LinedUp(queue', prio')
  BY <1>0, LinedTrims DEF Quiet
<1>2. Resumes => LinedUp(queue', prio')
  <2>1. Resumes => \E t \in Thread : \E k : OSResumeThread(t, k)
    BY <1>0, StackTop, FrameFields DEF Resumes, ResumeCall, GuestResumes, CallbackResumes, Alive
  <2> QED
    BY <1>0, <2>1, LinedResume
<1>3. Suspends => LinedUp(queue', prio')
  <2>1. Suspends => \E t \in Thread : \E k : OSSuspendThread(t, k)
    BY <1>0, StackTop, FrameFields DEF Suspends, SuspendCall, GuestSuspends, Alive
  <2> QED
    BY <1>0, <2>1, LinedSuspend
<1> QED
  BY <1>1, <1>2, <1>3, LinedReprices, LinedUnlocks, LinedCreates, StepKinds

(* The executing thread falls asleep.                                       *)
LEMMA SleepNow ==
    ASSUME IInv, SleepCall
    PROVE  LET s == InsertedByPriority(queue[Top.q], exec, prio[exec], prio)
           IN  /\ Top.q \in Queue /\ queue' = [queue EXCEPT ![Top.q] = s]
               /\ \A m \in Mutex : exec \notin Waiters(m)
               /\ exec \in Thread /\ exec # None /\ running = exec /\ Own(Rest)
               /\ state' = [state EXCEPT ![exec] = "WAITING"] /\ state[exec] = "RUNNING"
               /\ Become(<<Select(FALSE), Slept(Top.q, exec)>>, Rest)
               /\ UNCHANGED <<suspend, prio, wants, mutexVars, exec>>
<1>0. Inv /\ Seated
  BY DEF IInv
<1>1. Own(Rest)
  BY DEF SleepCall, Own, OwnCalls
<1>2. /\ exec \in Thread /\ exec # None /\ running = exec /\ disable = 0
      /\ state[exec] = "RUNNING"
  BY <1>1, OwnNow
<1>3. Top.q \in Queue
  BY <1>0, StackTop, FrameFields, QueueKinds DEF SleepCall
<1>4. \A m \in Mutex : exec \notin Waiters(m)
  BY <1>0, <1>2, WaitsNowhere
<1> QED
  BY <1>1, <1>2, <1>3, <1>4 DEF SleepCall, OSSleepThread

LEMMA LinesSleep ==
    ASSUME IInv, Lines, SleepCall
    PROVE  /\ Lines'
           /\ \A m \in Mutex : /\ Waiters(m)' \subseteq Waiters(m) \cup {exec}
                               /\ exec \in Waiters(m)' => Top.q = MutexQ(m)
<1>0. Inv /\ Seated
  BY DEF IInv
<1> DEFINE q == Top.q
           s == InsertedByPriority(queue[q], exec, prio[exec], prio)
<1>1. /\ q \in Queue /\ queue' = [queue EXCEPT ![q] = s] /\ exec \in Thread
      /\ \A m \in Mutex : exec \notin Waiters(m)
      /\ UNCHANGED prio
  BY SleepNow
<1>2. prio \in [Thread -> Nat] /\ prio[exec] \in Nat /\ queue \in Queues
  BY <1>0, <1>1, Fields
<1> SUFFICES ASSUME NEW m \in Mutex
             PROVE  /\ Sorted(queue'[MutexQ(m)], prio)
                    /\ Range(queue'[MutexQ(m)]) \subseteq Waiters(m) \cup {exec}
                    /\ exec \in Range(queue'[MutexQ(m)]) => q = MutexQ(m)
  BY <1>1 DEF Lines, Waiters
<1>3. /\ queue[MutexQ(m)] \in Seq(Thread) /\ IsInjective(queue[MutexQ(m)])
      /\ Sorted(queue[MutexQ(m)], prio) /\ exec \notin Range(queue[MutexQ(m)])
  BY <1>0, <1>1, WaitersNow DEF Lines, Waiters
<1> HIDE DEF s
<1>4. CASE q # MutexQ(m)
  <2>1. queue'[MutexQ(m)] = queue[MutexQ(m)]
    BY <1>1, <1>2, <1>4, MutexQueues DEF Queues
  <2> QED
    BY <1>3, <2>1 DEF Waiters
<1>5. CASE q = MutexQ(m)
  <2>1. queue'[MutexQ(m)] = s
    BY <1>1, <1>2, <1>5, MutexQueues DEF Queues
  <2>2. Range(s) = Range(queue[q]) \cup {exec}
    BY <1>1, <1>2, <1>3, <1>5, InsertedThreads DEF s
  <2>3. Sorted(s, prio)
    BY <1>1, <1>2, <1>3, <1>5, SortedInserted DEF s
  <2> QED
    BY <1>5, <2>1, <2>2, <2>3 DEF Waiters
<1> QED
  BY <1>4, <1>5

LEMMA LinesKept ==
    ASSUME IInv, Lines, Next
    PROVE  Lines'
BY EveryLine, LinesSleep DEF LinedUp, Lines

-----------------------------------------------------------------------------
(* The frames of a lock.                                                    *)

(* The innermost frame says which step is next.                             *)
LEMMA Guards ==
    ASSUME Next
    PROVE  /\ At("sleep") => SleepCall
           /\ At("promote") => PromoteStep
           /\ At("propagate") => PropagateStep
           /\ At("wakeup") => WakeHead \/ WakeDone
<1>1. ASSUME NEW a, NEW b, At(a), At(b) PROVE a = b
  BY <1>1 DEF At
<1>2. ASSUME NEW a, At(a) PROVE ~GuestCode
  BY <1>2 DEF At, GuestCode
<1>3. /\ SelectThread \/ SelectThreadFirstTimers => At("select") \/ At("body")
      /\ DispatchThread => At("dispatch")
      /\ TimerFires \/ TimersDone \/ Reconcile => At("timers")
      /\ HealSleeper => At("heal")
  BY DEF SelectThread, SelectThreadFirstTimers, DispatchThread, TimerFires, TimersDone,
         Reconcile, HealSleeper
<1>4. /\ SleepCall => At("sleep")
      /\ SleepReturns => At("slept")
      /\ WakeHead \/ WakeDone => At("wakeup")
      /\ Reschedule => At("resched")
      /\ ResumeCall => At("resume")
      /\ SuspendCall => At("suspend")
      /\ ExitReschedules => At("exited")
  BY DEF SleepCall, SleepReturns, WakeHead, WakeDone, Reschedule, ResumeCall, SuspendCall,
         ExitReschedules
<1>5. /\ UnlockAllMutexes => At("unlockAll")
      /\ JoinReturns => At("join")
      /\ ParkReturns => At("parked")
      /\ LockRetry => At("lock")
      /\ PromoteStep => At("promote")
      /\ PropagateStep => At("propagate")
  BY DEF UnlockAllMutexes, JoinReturns, ParkReturns, LockRetry, PromoteStep, PropagateStep
<1>6. IdlePass => At("idle")
  BY DEF IdlePass, IdleTimers, IdleAudio, IdleRetrace, IdleNoRetrace, IdleCheck
<1>7. CallbackStep => At("callback")
  BY DEF CallbackStep, CallbackWakes, CallbackResumes, CallbackReturns, CallbackCode
<1>8. GuestStep => GuestCode
  BY DEF GuestStep, GuestCreates, GuestResumes, GuestSuspends, GuestSleeps, GuestWakes,
         GuestYields, GuestLocks, GuestUnlocks, GuestExits, GuestCancels, GuestJoins,
         GuestDetaches, GuestSleepsTicks, GuestPollsRetrace, DeferredRetrace, DeferredAudio
<1>9. ASSUME NEW op \in {"sleep", "promote", "propagate", "wakeup"}, At(op) PROVE Continue
  BY <1>1, <1>2, <1>6, <1>7, <1>8, <1>9 DEF Next
<1>10. At("sleep") => SleepCall
  BY <1>1, <1>3, <1>4, <1>5, <1>9 DEF Continue
<1>11. At("promote") => PromoteStep
  BY <1>1, <1>3, <1>4, <1>5, <1>9 DEF Continue
<1>12. At("propagate") => PropagateStep
  BY <1>1, <1>3, <1>4, <1>5, <1>9 DEF Continue
<1>13. At("wakeup") => WakeHead \/ WakeDone
  BY <1>1, <1>3, <1>4, <1>5, <1>9 DEF Continue
<1> QED
  BY <1>10, <1>11, <1>12, <1>13

LEMMA OneTop ==
    /\ \A a, b : At(a) /\ At(b) => a = b
    /\ \A a : At(a) => ~GuestCode
BY DEF At, GuestCode

LEMMA CalmTop ==
    ASSUME MInv, ~At("sleep"), ~At("promote")
    PROVE  \A t \in Thread : Calm(stack[t])
BY DEF MInv, Sleepers, Awake

(* Awake is all there is to say of a fiber that does not execute.           *)
LEMMA CalmNext ==
    ASSUME Inv', \A t \in Thread : Calm(stack'[t])
    PROVE  /\ \A t \in Thread : Awake(t)'
           /\ ~At("sleep")' /\ ~At("promote")'
           /\ \A q : ~FallsAsleep(q)'
<1>1. exec' \in Thread /\ stack'[exec'] \in Stack
  BY DEF Inv, TypeOK, HostTypes, Stack
<1>2. stack'[exec'] # <<>> => Head(stack'[exec']) \in Range(stack'[exec'])
  BY <1>1, InRange DEF Stack
<1>3. ~At("sleep")' /\ ~At("promote")'
  BY <1>1, <1>2 DEF At, Calm, Lacks
<1> QED
  BY <1>3 DEF Awake, FallsAsleep

LEMMA CalmStep ==
    ASSUME MInv, Inv', Next, ~At("sleep"), ~At("promote"), ~Locks, ~GuestJoins
    PROVE  /\ \A t \in Thread : Awake(t)'
           /\ ~At("sleep")' /\ ~At("promote")'
           /\ \A q : ~FallsAsleep(q)'
<1> DEFINE O == {"sleep", "promote"}
<1>1. \A t \in Thread : Lacks(stack[t], O)
  BY CalmTop DEF Calm
<1>2. IInv /\ exec \in Thread
  BY DEF MInv, IInv, Inv, TypeOK, HostTypes
<1>3. /\ Lacks(stack'[exec], O)
      /\ \A t \in Thread : t # exec => stack'[t] \in {stack[t], <<>>}
  BY <1>1, <1>2, StacksMove DEF Locks
<1>4. \A t \in Thread : Lacks(stack'[t], O)
  BY <1>1, <1>3, ShortRanges DEF Lacks
<1> QED
  BY <1>4, CalmNext DEF Calm

(* The frames of the steps that fall asleep.                                *)
LEMMA SleepCalm ==
    ASSUME MInv, Inv', SleepCall
    PROVE  /\ \A t \in Thread : Awake(t)'
           /\ ~At("sleep")' /\ ~At("promote")'
           /\ \A q : ~FallsAsleep(q)'
<1> DEFINE O == {"sleep", "promote"}
<1>0. IInv /\ Inv /\ exec \in Thread /\ stack \in [Thread -> Stack]
  BY DEF MInv, IInv, Inv, TypeOK, HostTypes, Stack
<1>1. Become(<<Select(FALSE), Slept(Top.q, exec)>>, Rest) /\ Rest \in Stack
  BY <1>0, SleepNow, OwnNow
<1>2. At("sleep") /\ ~At("promote")
  BY OneTop DEF SleepCall
<1>3. Lacks(Rest, O) /\ \A t \in Thread : t # exec => Lacks(stack[t], O)
  <2>1. ~Calm(stack[exec])
    <3>1. Top \in Range(stack[exec]) /\ Top.op = "sleep"
      BY <1>0, <1>2, RestFrames DEF At, Top, IInv, Frames
    <3> QED
      BY <3>1 DEF Calm, Lacks
  <2> QED
    BY <1>0, <1>2, <2>1 DEF MInv, Sleepers, Awake, Calm
<1>4. Lacks(<<Select(FALSE), Slept(Top.q, exec)>> \o Rest, O)
  <2>1. Select(FALSE).op \notin O /\ Slept(Top.q, exec).op \notin O
    BY FrameOps
  <2> QED
    BY <1>1, <1>3, <2>1, LacksPushed
<1>5. \A t \in Thread : Lacks(stack'[t], O)
  BY <1>0, <1>1, <1>3, <1>4 DEF Become
<1> QED
  BY <1>5, CalmNext DEF Calm

LEMMA TailPushed ==
    ASSUME NEW fs \in Stack, fs # <<>>, NEW k \in Stack
    PROVE  Tail(fs \o k) = Tail(fs) \o k
<1> DEFINE s == fs \o k
           r == Tail(fs) \o k
<1>1. PICK m \in Nat \ {0}, n \in Nat : m = Len(fs) /\ n = Len(k)
  BY LenProperties, EmptySeq DEF Stack
<1>2. /\ s \in Seq(Frame) /\ Len(s) = m + n
      /\ \A i \in 1 .. m + n : s[i] = IF i <= m THEN fs[i] ELSE k[i - m]
  BY <1>1, ConcatProperties DEF Stack
<1>3. /\ Tail(fs) \in Seq(Frame) /\ Len(Tail(fs)) = m - 1
      /\ \A i \in 1 .. m - 1 : Tail(fs)[i] = fs[i + 1]
  BY <1>1, HeadTailProperties DEF Stack
<1>4. PICK l \in Nat : l = m - 1
  BY <1>1
<1>5. /\ r \in Seq(Frame) /\ Len(r) = l + n
      /\ \A i \in 1 .. l + n : r[i] = IF i <= l THEN Tail(fs)[i] ELSE k[i - l]
  BY <1>1, <1>3, <1>4, ConcatProperties DEF Stack
<1> HIDE DEF s, r
<1>6. s # <<>>
  BY <1>1, <1>2, EmptySeq
<1>7. /\ Tail(s) \in Seq(Frame) /\ Len(Tail(s)) = l + n
      /\ \A i \in 1 .. l + n : Tail(s)[i] = s[i + 1]
  BY <1>1, <1>2, <1>4, <1>6, HeadTailProperties
<1>8. ASSUME NEW i \in 1 .. l + n PROVE Tail(s)[i] = r[i]
  <2>1. i + 1 \in 1 .. m + n /\ (i + 1 <= m <=> i <= l) /\ i + 1 - m = i - l
    BY <1>1, <1>4
  <2>2. Tail(s)[i] = IF i <= l THEN fs[i + 1] ELSE k[i - l]
    BY <1>2, <1>7, <2>1
  <2>3. i <= l => i \in 1 .. m - 1
    BY <1>4
  <2> QED
    BY <1>3, <1>5, <2>2, <2>3
<1>9. Tail(s) = r
  BY <1>5, <1>7, <1>8, SeqEqual
<1> QED
  BY <1>9 DEF s, r

(* The step of a lock that has to wait, and a join.                         *)
LEMMA LockFrames ==
    ASSUME MInv, Inv', NEW k, Own(k), Calm(k), NEW m \in Mutex,
           NEW o \in Thread \cup {None}, NEW p \in AnyPrio, exec' = exec,
           Become(<<Promote(o, p), Sleep(MutexQ(m)), Lock(m)>>, k)
    PROVE  /\ \A t \in Thread : t # exec => stack'[t] = stack[t]
           /\ Awake(exec)'
           /\ At("promote")' /\ ~At("sleep")' /\ Top' = Promote(o, p)
           /\ \A q : FallsAsleep(q)' => q = MutexQ(m)
<1> DEFINE f == Promote(o, p)
           g == Sleep(MutexQ(m))
           h == Lock(m)
           s == stack'[exec]
<1>0. Inv /\ exec \in Thread /\ k \in Stack /\ stack \in [Thread -> Stack]
  BY OwnNow DEF MInv, IInv, Inv, TypeOK, HostTypes, Stack
<1>1. f \in Frame /\ g \in Frame /\ h \in Frame
  BY FramesBuilt, MutexQueues
<1>2. /\ f.op = "promote" /\ g.op = "sleep" /\ g.q = MutexQ(m)
      /\ h.op \notin {"sleep", "promote"}
  BY FrameOps
<1>3. s = <<f, g, h>> \o k /\ \A t \in Thread : t # exec => stack'[t] = stack[t]
  BY <1>0 DEF Become
<1> HIDE DEF f, g, h
<1>4. /\ <<f, g, h>> \in Stack /\ <<f, g, h>> # <<>> /\ <<f, g, h>>[1] = f /\ <<f, g, h>>[2] = g
      /\ Len(<<f, g, h>>) # 1 /\ Tail(<<f, g, h>>) = <<g, h>>
      /\ <<g, h>> \in Stack /\ <<g, h>> # <<>> /\ Tail(<<g, h>>) = <<h>>
  BY <1>1, ShortStacks
<1>5. Become(<<f, g, h>>, k)
  BY DEF f, g, h
<1>6. s # <<>> /\ Head(s) = f /\ Tail(s) # <<>> /\ Head(Tail(s)) = g
  BY <1>0, <1>4, <1>5, PushedTop
<1>7. Tail(Tail(s)) = <<h>> \o k
  BY <1>0, <1>3, <1>4, TailPushed
<1>8. Calm(Tail(Tail(s)))
  BY <1>0, <1>2, <1>7, LacksPushed DEF Calm
<1>9. At("promote")' /\ ~At("sleep")' /\ Top' = f
  BY <1>2, <1>6 DEF At, Top
<1>10. Awake(exec)'
  BY <1>2, <1>6, <1>8, <1>9 DEF Awake, Rest
<1>11. \A q : FallsAsleep(q)' => q = MutexQ(m)
  BY <1>2, <1>6, <1>9 DEF FallsAsleep, Rest
<1> QED
  BY <1>3, <1>9, <1>10, <1>11 DEF f

LEMMA JoinFrames ==
    ASSUME MInv, Inv', GuestJoins
    PROVE  /\ \A t \in Thread : Awake(t)'
           /\ \A m \in Mutex : ~FallsAsleep(MutexQ(m))'
<1>0. Inv /\ exec \in Thread /\ stack \in [Thread -> Stack] /\ <<>> \in Stack
  BY ShortStacks DEF MInv, IInv, Inv, TypeOK, HostTypes, Stack
<1>1. PICK t \in Thread : OSJoinThread(t, <<>>)
  BY DEF GuestJoins, Alive
<1>2. GuestCode /\ exec' = exec
  BY <1>1 DEF GuestJoins, OSJoinThread
<1>3. \A u \in Thread : Calm(stack[u])
  BY <1>2, OneTop, CalmTop
<1>4. CASE Become(<<>>, <<>>)
  <2>1. stack'[exec] = <<>> /\ \A u \in Thread : u # exec => stack'[u] = stack[u]
    BY <1>0, <1>4 DEF Become
  <2>2. \A u \in Thread : Calm(stack'[u])
    BY <1>3, <2>1, ShortRanges DEF Calm, Lacks
  <2> QED
    BY <2>2, CalmNext
<1>5. CASE Become(<<Sleep(JoinQ(t)), Joined(t)>>, <<>>)
  <2> DEFINE g == Sleep(JoinQ(t))
             h == Joined(t)
             s == stack'[exec]
  <2>1. g \in Frame /\ h \in Frame
    BY FramesBuilt, QueueNames
  <2>2. g.op = "sleep" /\ g.q = JoinQ(t) /\ h.op \notin {"sleep", "promote"}
    BY FrameOps
  <2>3. s = <<g, h>> \o <<>> /\ \A u \in Thread : u # exec => stack'[u] = stack[u]
    BY <1>0, <1>5 DEF Become
  <2> HIDE DEF g, h
  <2>4. /\ <<g, h>> \in Stack /\ <<g, h>> # <<>> /\ <<g, h>>[1] = g /\ Tail(<<g, h>>) = <<h>>
    BY <2>1, ShortStacks
  <2>5. Become(<<g, h>>, <<>>)
    BY <1>5 DEF g, h
  <2>6. s # <<>> /\ Head(s) = g
    BY <1>0, <1>2, <2>4, <2>5, PushedTop
  <2>7. Tail(s) = <<h>> \o <<>>
    BY <1>0, <2>3, <2>4, TailPushed
  <2>8. Calm(Tail(s))
    <3>1. Lacks(<<>>, {"sleep", "promote"})
      BY ShortRanges DEF Lacks
    <3> QED
      BY <1>0, <2>2, <2>7, <3>1, LacksPushed DEF Calm
  <2>9. At("sleep")' /\ ~At("promote")' /\ Top' = g
    BY <1>2, <2>2, <2>6 DEF At, Top
  <2>10. Awake(exec)'
    BY <1>2, <2>8, <2>9 DEF Awake, Rest
  <2>11. \A u \in Thread : Awake(u)'
    <3>1. ASSUME NEW u \in Thread, u # exec PROVE Awake(u)'
      <4>1. Calm(stack'[u])
        BY <1>3, <2>3, <3>1
      <4> QED
        BY <4>1 DEF Awake
    <3> QED
      BY <1>2, <2>10, <3>1
  <2>12. \A m \in Mutex : ~FallsAsleep(MutexQ(m))'
    BY <2>2, <2>9, MutexQueues DEF FallsAsleep
  <2> QED
    BY <2>11, <2>12
<1> QED
  BY <1>1, <1>4, <1>5 DEF OSJoinThread

LEMMA PromoteFrames ==
    ASSUME MInv, Inv', PromoteStep
    PROVE  /\ \A t \in Thread : Awake(t)'
           /\ \A q : FallsAsleep(q)' => FallsAsleep(q)
           /\ exec' = exec /\ stack'[exec] # <<>>
           /\ Become(<<>>, Rest) => At("sleep")' /\ ~At("promote")'
           /\ \A o \in Thread \cup {None} : Become(<<Promote(o, Top.p)>>, Rest) =>
                 At("promote")' /\ ~At("sleep")' /\ Top' = Promote(o, Top.p)
<1>0. /\ Inv /\ exec \in Thread /\ stack \in [Thread -> Stack] /\ exec' = exec
      /\ At("promote") /\ ~At("sleep") /\ Rest \in Stack /\ Top \in Frame /\ Top.op = "promote"
  BY StackTop, OneTop DEF MInv, IInv, Inv, TypeOK, HostTypes, Stack, PromoteStep
<1>1. /\ Rest # <<>> /\ Head(Rest).op = "sleep" /\ Calm(Tail(Rest))
      /\ \E m \in Mutex : Head(Rest).q = MutexQ(m)
      /\ \A t \in Thread : t # exec => Calm(stack[t])
  <2>1. ~Calm(stack[exec])
    BY <1>0, RestFrames DEF At, MInv, IInv, Frames, Calm, Lacks
  <2> QED
    BY <1>0, <2>1 DEF MInv, Sleepers, Awake
<1>2. ASSUME Become(<<>>, Rest)
      PROVE  /\ \A t \in Thread : Awake(t)'
             /\ \A q : FallsAsleep(q)' => FallsAsleep(q)
             /\ At("sleep")' /\ ~At("promote")' /\ stack'[exec] # <<>>
  <2>1. stack'[exec] = Rest /\ \A t \in Thread : t # exec => stack'[t] = stack[t]
    <3>1. <<>> \o Rest = Rest
      BY <1>0, ConcatEmptySeq DEF Stack
    <3> QED
      BY <1>0, <1>2, <3>1 DEF Become
  <2>2. At("sleep")' /\ ~At("promote")' /\ Top' = Head(Rest) /\ Rest' = Tail(Rest)
    BY <1>0, <1>1, <2>1 DEF At, Top, Rest
  <2>3. \A t \in Thread : Awake(t)'
    BY <1>0, <1>1, <2>1, <2>2 DEF Awake
  <2>4. \A q : FallsAsleep(q)' => FallsAsleep(q)
    BY <1>0, <2>2 DEF FallsAsleep
  <2> QED
    BY <1>1, <2>1, <2>2, <2>3, <2>4
<1>3. ASSUME NEW o \in Thread \cup {None}, Become(<<Promote(o, Top.p)>>, Rest)
      PROVE  /\ \A t \in Thread : Awake(t)'
             /\ \A q : FallsAsleep(q)' => FallsAsleep(q)
             /\ At("promote")' /\ ~At("sleep")' /\ Top' = Promote(o, Top.p)
             /\ stack'[exec] # <<>>
  <2> DEFINE f == Promote(o, Top.p)
  <2>1. f \in Frame /\ f.op = "promote"
    BY <1>0, FramesBuilt, FrameFields, FrameOps
  <2>2. stack'[exec] = <<f>> \o Rest /\ \A t \in Thread : t # exec => stack'[t] = stack[t]
    BY <1>0, <1>3 DEF Become
  <2> HIDE DEF f
  <2>3. <<f>> \in Stack /\ <<f>> # <<>> /\ <<f>>[1] = f /\ Tail(<<f>>) = <<>>
    BY <2>1, ShortStacks
  <2>4. Become(<<f>>, Rest)
    BY <1>3 DEF f
  <2>5. stack'[exec] # <<>> /\ Head(stack'[exec]) = f
    BY <1>0, <2>3, <2>4, PushedTop
  <2>6. Tail(stack'[exec]) = Rest
    <3>1. <<>> \o Rest = Rest
      BY <1>0, ConcatEmptySeq DEF Stack
    <3> QED
      BY <1>0, <2>2, <2>3, <3>1, TailPushed
  <2>7. At("promote")' /\ ~At("sleep")' /\ Top' = f /\ Rest' = Rest
    BY <1>0, <2>1, <2>5, <2>6 DEF At, Top, Rest
  <2>8. \A t \in Thread : Awake(t)'
    BY <1>0, <1>1, <2>2, <2>7 DEF Awake
  <2>9. \A q : FallsAsleep(q)' => FallsAsleep(q)
    BY <1>0, <2>7 DEF FallsAsleep
  <2> QED
    BY <2>5, <2>7, <2>8, <2>9 DEF f
<1>4. Become(<<>>, Rest) \/ \E o \in Thread \cup {None} : Become(<<Promote(o, Top.p)>>, Rest)
  <2>1. Top.o \in Thread \cup {None}
    BY <1>0, FrameFields
  <2>2. Top.o # None => NextOwner(Top.o) \in Thread \cup {None}
    BY <1>0, <2>1, NextOwnerType
  <2> QED
    BY <2>2 DEF PromoteStep
<1> QED
  BY <1>0, <1>2, <1>3, <1>4

-----------------------------------------------------------------------------
(* Nobody sleeps on a free mutex.                                           *)

(* The waiters of a mutex that is free or becomes free are being woken.     *)
LEMMA BeingWoken ==
    ASSUME MInv, Inv', Next, ~SleepCall, NEW m \in Mutex, owner'[m] = None,
           queue'[MutexQ(m)] # <<>>
    PROVE  At("wakeup")' /\ Top'.q = MutexQ(m)
<1>0. IInv /\ Inv /\ Seated /\ Lines /\ exec \in Thread /\ stack \in [Thread -> Stack]
  BY DEF MInv, IInv, Inv, TypeOK, HostTypes, Stack
<1>1. queue[MutexQ(m)] # <<>>
  <2>1. Range(queue'[MutexQ(m)]) \subseteq Waiters(m)
    BY <1>0, EveryLine DEF LinedUp
  <2>2. queue'[MutexQ(m)] \in Seq(Thread)
    BY MutexQueues DEF Inv, TypeOK, QueueTypes
  <2> QED
    BY <1>0, <2>1, <2>2, InRange, WaitersNow
<1>2. CASE owner[m] = None
  <2>1. At("wakeup") /\ Top.q = MutexQ(m)
    BY <1>1, <1>2 DEF MInv, Sleepers
  <2>2. WakeHead
    BY <1>1, <2>1, Guards DEF WakeDone
  <2>3. exec' = exec /\ (Become(<<Wakeup(Top.q, TRUE)>>, Rest) \/ UNCHANGED stack)
    BY <1>0, <2>2, WakeMoves DEF WakeHead
  <2>4. CASE UNCHANGED stack
    BY <2>1, <2>3, <2>4 DEF At, Top
  <2>5. CASE Become(<<Wakeup(Top.q, TRUE)>>, Rest)
    <3> DEFINE f == Wakeup(Top.q, TRUE)
    <3>1. f \in Frame /\ f.op = "wakeup" /\ f.q = MutexQ(m)
      <4>1. Top.q \in WaitQueue /\ Top.q = MutexQ(m) /\ TRUE \in BOOLEAN
        BY <2>1, MutexQueues
      <4>2. f \in Frame
        BY <4>1, FramesBuilt
      <4>3. f.op = "wakeup" /\ f.q = MutexQ(m)
        BY <4>1 DEF Wakeup
      <4> QED
        BY <4>2, <4>3
    <3>2. Rest \in Stack
      BY <1>0, <2>1, StackTop
    <3> HIDE DEF f
    <3>3. <<f>> \in Stack /\ <<f>> # <<>> /\ <<f>>[1] = f
      BY <3>1, ShortStacks
    <3>4. Become(<<f>>, Rest)
      BY <2>5 DEF f
    <3>5. stack'[exec] # <<>> /\ Head(stack'[exec]) = f
      BY <1>0, <2>3, <3>2, <3>3, <3>4, PushedTop
    <3> QED
      BY <2>3, <3>1, <3>5 DEF At, Top
  <2> QED
    BY <2>3, <2>4, <2>5
<1>3. CASE owner[m] # None
  <2> DEFINE f == Wakeup(MutexQ(m), FALSE)
  <2>1. f \in Frame /\ f.op = "wakeup" /\ f.q = MutexQ(m)
    <3>1. MutexQ(m) \in WaitQueue /\ FALSE \in BOOLEAN
      BY MutexQueues
    <3>2. f \in Frame
      BY <3>1, FramesBuilt
    <3>3. f.op = "wakeup" /\ f.q = MutexQ(m)
      BY DEF Wakeup
    <3> QED
      BY <3>2, <3>3
  <2>2. GuestUnlocks \/ UnlockAllMutexes
    <3>1. UNCHANGED owner => FALSE
      BY <1>3
    <3>2. Locks => \E n \in Mutex : \E k : OSLockMutex(n, k)
      BY <1>0, StackTop, FrameFields DEF Locks, LockRetry, GuestLocks
    <3>3. ~Locks
      BY <1>0, <1>3, <3>2 DEF OSLockMutex, Inv, TypeOK, MutexTypes
    <3>4. ~Quiet /\ ~GuestCreates /\ ~Resumes /\ ~Suspends /\ ~Reprices
      BY <3>1 DEF Quiet, GuestCreates, OSCreateThread, Resumes, ResumeCall, GuestResumes,
                  CallbackResumes, OSResumeThread, Suspends, SuspendCall, GuestSuspends,
                  OSSuspendThread, Reprices, PromoteStep, PropagateStep, mutexVars
    <3> QED
      BY <1>0, <3>3, <3>4, StepKinds DEF Unlocks
  <2>3. PICK fs \in Stack, k \in Stack : /\ fs # <<>> /\ fs[1] = f /\ exec' = exec
                                         /\ Become(fs, k)
    <3>1. ASSUME GuestUnlocks
          PROVE  Become(<<f>>, <<>>) /\ exec' = exec
      <4>1. PICK n \in Mutex : OSUnlockMutex(n, <<>>)
        BY <3>1 DEF GuestUnlocks
      <4>2. n = m
        BY <1>0, <1>3, <4>1 DEF OSUnlockMutex, Inv, TypeOK, MutexTypes
      <4> QED
        BY <1>3, <4>1, <4>2 DEF OSUnlockMutex, WakeWaiters
    <3>2. ASSUME UnlockAllMutexes
          PROVE  Become(<<f, Top>>, Rest) /\ exec' = exec /\ Top \in Frame /\ Rest \in Stack
      <4>1. PICK n \in Mutex : /\ owner' = [owner EXCEPT ![n] = None]
                               /\ Become(WakeWaiters(n) \o <<Top>>, Rest)
        BY <1>0, <1>3, <3>2, StackTop, FrameFields, OwnSets DEF UnlockAllMutexes, mutexVars
      <4>2. n = m
        BY <1>0, <1>3, <4>1 DEF Inv, TypeOK, MutexTypes
      <4>3. Become(<<f, Top>>, Rest)
        BY <4>1, <4>2, PairAndOne DEF WakeWaiters
      <4> QED
        BY <1>0, <3>2, <4>3, StackTop DEF UnlockAllMutexes
    <3> HIDE DEF f
    <3>3. <<f>> \in Stack /\ <<f>> # <<>> /\ <<f>>[1] = f /\ <<>> \in Stack
      BY <2>1, ShortStacks
    <3>4. Top \in Frame => <<f, Top>> \in Stack /\ <<f, Top>> # <<>> /\ <<f, Top>>[1] = f
      BY <2>1, ShortStacks
    <3> QED
      BY <2>2, <3>1, <3>2, <3>3, <3>4
  <2> HIDE DEF f
  <2>4. stack'[exec] # <<>> /\ Head(stack'[exec]) = f
    BY <1>0, <2>3, PushedTop
  <2> QED
    BY <2>1, <2>3, <2>4 DEF At, Top
<1> QED
  BY <1>2, <1>3

(* A thread that stays on the queue of a mutex goes on wanting it.          *)
LEMMA StillWanted ==
    ASSUME MInv, Next, ~SleepCall, NEW m \in Mutex, NEW t \in Waiters(m)'
    PROVE  t \in Waiters(m) /\ wants'[t] = m
<1>0. IInv /\ Inv /\ Seated /\ Lines
  BY DEF MInv, IInv
<1>1. t \in Waiters(m)
  BY <1>0, EveryLine DEF LinedUp, Waiters
<1>2. wants[t] = m /\ t \in Thread /\ state[t] = "WAITING"
  BY <1>0, <1>1, WaitersNow DEF MInv, Sleepers
<1>3. Quiet \/ Resumes \/ Suspends \/ Reprices \/ Unlocks => UNCHANGED wants
  BY DEF Quiet, Resumes, ResumeCall, GuestResumes, CallbackResumes, OSResumeThread,
         Suspends, SuspendCall, GuestSuspends, OSSuspendThread, Reprices, PromoteStep,
         PropagateStep, Unlocks, GuestUnlocks, OSUnlockMutex, UnlockAllMutexes, threadVars
<1>4. ASSUME GuestCreates PROVE wants'[t] = wants[t]
  BY <1>0, <1>2, <1>4 DEF GuestCreates, OSCreateThread, Alive, Inv, TypeOK, ThreadTypes
<1>5. ASSUME Locks PROVE wants'[t] = wants[t]
  <2>1. PICK k : Own(k) /\ \E n : OSLockMutex(n, k)
    BY <1>5 DEF Locks, LockRetry, GuestLocks, Own, OwnCalls
  <2>2. running = exec /\ state[exec] = "RUNNING"
    BY <1>0, <2>1, OwnNow
  <2> QED
    BY <1>0, <1>2, <2>1, <2>2 DEF OSLockMutex, Inv, TypeOK, ThreadTypes
<1> QED
  BY <1>0, <1>1, <1>2, <1>3, <1>4, <1>5, StepKinds

LEMMA LockKept ==
    ASSUME MInv, Inv', Locks
    PROVE  /\ \A t \in Thread : Awake(t)'
           /\ \A m \in Mutex : FallsAsleep(MutexQ(m))' => owner'[m] # None /\ wants'[exec'] = m
           /\ \A m \in Mutex : FallsAsleep(MutexQ(m))' =>
                 At("promote")' /\ Top'.o = owner'[m] /\ Top'.p = prio'[exec']
<1>0. /\ IInv /\ Inv /\ exec \in Thread /\ stack \in [Thread -> Stack]
      /\ prio \in [Thread -> AnyPrio] /\ wants \in [Thread -> Mutex \cup {None}]
      /\ owner \in [Mutex -> Thread \cup {None}]
  BY DEF MInv, IInv, Inv, TypeOK, HostTypes, ThreadTypes, MutexTypes, Stack
<1>1. PICK k : /\ Own(k) /\ ~At("sleep") /\ ~At("promote")
               /\ \E m \in Mutex : OSLockMutex(m, k)
  BY <1>0, StackTop, FrameFields, OneTop DEF Locks, LockRetry, GuestLocks, Own, OwnCalls
<1>m. PICK m \in Mutex : OSLockMutex(m, k)
  BY <1>1
<1>2. running = exec /\ exec # None /\ k \in Stack /\ exec' = exec
  BY <1>0, <1>1, <1>m, OwnNow DEF OSLockMutex
<1>3. \A t \in Thread : Calm(stack[t])
  BY <1>1, CalmTop
<1>4. Calm(k)
  <2>1. Range(k) \subseteq Frames(exec)
    BY <1>0, <1>1, OwnContext DEF IInv, Base
  <2> QED
    BY <1>0, <1>3, <2>1 DEF Calm, Lacks, Frames
<1>5. CASE Become(<<>>, k)
  <2>1. \A t \in Thread : Calm(stack'[t])
    <3>1. Lacks(<<>> \o k, {"sleep", "promote"})
      BY <1>2, <1>4, LacksPushed DEF Calm
    <3> QED
      BY <1>0, <1>3, <1>5, <3>1 DEF Become, Calm
  <2> QED
    BY <2>1, CalmNext
<1>6. CASE /\ owner[m] # None /\ wants' = [wants EXCEPT ![running] = m] /\ UNCHANGED owner
           /\ Become(<<Promote(owner[m], prio[running]), Sleep(MutexQ(m)), Lock(m)>>, k)
  <2>1. owner[m] \in Thread \cup {None} /\ prio[exec] \in AnyPrio
    BY <1>0
  <2>2. /\ \A t \in Thread : t # exec => stack'[t] = stack[t]
        /\ Awake(exec)'
        /\ At("promote")' /\ Top' = Promote(owner[m], prio[running])
        /\ \A q : FallsAsleep(q)' => q = MutexQ(m)
    BY <1>1, <1>2, <1>4, <1>6, <2>1, LockFrames
  <2>3. \A t \in Thread : Awake(t)'
    <3>1. ASSUME NEW t \in Thread, t # exec PROVE Awake(t)'
      <4>1. Calm(stack'[t])
        BY <1>3, <2>2, <3>1
      <4> QED
        BY <4>1 DEF Awake
    <3> QED
      BY <1>2, <2>2, <3>1
  <2>4. owner'[m] # None /\ wants'[exec'] = m
    BY <1>0, <1>2, <1>6
  <2>5. Top'.o = owner'[m] /\ Top'.p = prio'[exec']
    <3>1. UNCHANGED prio
      BY <1>m DEF OSLockMutex
    <3> QED
      BY <1>2, <1>6, <2>2, <3>1, FrameOps
  <2> QED
    BY <2>2, <2>3, <2>4, <2>5, MutexQueues
<1> QED
  BY <1>m, <1>2, <1>5, <1>6 DEF OSLockMutex

LEMMA SleepersKept ==
    ASSUME MInv, Inv', Next
    PROVE  Sleepers'
<1>0. IInv /\ Inv /\ Seated /\ Lines
  BY DEF MInv, IInv
<1> DEFINE A == /\ \A t \in Thread : Awake(t)'
                /\ \A m \in Mutex : FallsAsleep(MutexQ(m))' => owner'[m] # None /\ wants'[exec'] = m
<1>1. ASSUME ~SleepCall, A PROVE Sleepers'
  BY <1>1, StillWanted, BeingWoken DEF Sleepers
<1>2. CASE SleepCall
  <2>1. /\ \A t \in Thread : Awake(t)'
        /\ \A q : ~FallsAsleep(q)'
    BY <1>2, SleepCalm
  <2>2. /\ \A m \in Mutex : /\ Waiters(m)' \subseteq Waiters(m) \cup {exec}
                            /\ exec \in Waiters(m)' => Top.q = MutexQ(m)
        /\ UNCHANGED <<wants, mutexVars>>
    BY <1>0, <1>2, LinesSleep, SleepNow
  <2>3. At("sleep") /\ ~At("wakeup")
    BY <1>2, OneTop DEF SleepCall
  <2>4. ASSUME NEW m \in Mutex, exec \in Waiters(m)' PROVE owner[m] # None /\ wants[exec] = m
    BY <2>2, <2>3, <2>4 DEF MInv, Sleepers, FallsAsleep
  <2>5. ASSUME NEW m \in Mutex, NEW t \in Waiters(m)' PROVE wants'[t] = m
    BY <2>2, <2>4 DEF MInv, Sleepers
  <2>6. ASSUME NEW m \in Mutex, owner'[m] = None, queue'[MutexQ(m)] # <<>> PROVE FALSE
    <3>1. owner[m] = None
      BY <2>2, <2>6 DEF mutexVars
    <3>2. Waiters(m) = {}
      BY <1>0, <2>3, <3>1, WaitersNow DEF MInv, Sleepers
    <3>3. Waiters(m)' = {}
      BY <2>2, <2>4, <3>1, <3>2
    <3>4. queue'[MutexQ(m)] \in Seq(Thread)
      BY MutexQueues DEF Inv, TypeOK, QueueTypes
    <3> QED
      BY <2>6, <3>3, <3>4, InRange DEF Waiters
  <2> QED
    BY <2>1, <2>5, <2>6 DEF Sleepers
<1>3. CASE Locks
  <2>1. ~SleepCall
    BY <1>3, OneTop DEF Locks, LockRetry, GuestLocks, SleepCall
  <2> QED
    BY <1>1, <1>3, <2>1, LockKept
<1>4. CASE GuestJoins
  <2>1. ~SleepCall
    BY <1>4, OneTop DEF GuestJoins, SleepCall
  <2> QED
    BY <1>1, <1>4, <2>1, JoinFrames
<1>5. CASE PromoteStep
  <2>1. ~SleepCall /\ UNCHANGED <<wants, owner, exec>>
    BY <1>5, OneTop DEF PromoteStep, SleepCall, mutexVars
  <2>2. A
    BY <1>5, <2>1, PromoteFrames DEF MInv, Sleepers
  <2> QED
    BY <1>1, <2>1, <2>2
<1>6. CASE ~SleepCall /\ ~PromoteStep /\ ~Locks /\ ~GuestJoins
  <2>1. ~At("sleep") /\ ~At("promote")
    BY <1>6, Guards
  <2>2. A
    BY <1>6, <2>1, CalmStep
  <2> QED
    BY <1>1, <1>6, <2>2
<1> QED
  BY <1>2, <1>3, <1>4, <1>5, <1>6

-----------------------------------------------------------------------------

(* Every wakeup arrives: whatever frees a mutex, nobody is left asleep on   *)
(* it, and what each waiter wants is the mutex it sleeps on.                *)
LEMMA InitSleepers == Init => Lines /\ Sleepers
<1> SUFFICES ASSUME Init PROVE Lines /\ Sleepers
  OBVIOUS
<1>1. /\ \A m \in Mutex : queue[MutexQ(m)] = <<>>
      /\ \A t \in Thread : stack[t] = <<>>
      /\ exec \in Thread
  BY MutexQueues, MainAssumption DEF Init
<1>2. Lines
  BY <1>1 DEF Lines, Sorted
<1>3. \A t \in Thread : Calm(stack[t])
  BY <1>1, ShortRanges DEF Calm, Lacks
<1>4. \A t \in Thread : Awake(t)
  BY <1>3 DEF Awake
<1>5. \A q : ~FallsAsleep(q)
  BY <1>1 DEF FallsAsleep, At
<1>6. \A m \in Mutex : Waiters(m) = {}
  BY <1>1, ShortRanges DEF Waiters
<1> QED
  BY <1>1, <1>2, <1>4, <1>5, <1>6 DEF Sleepers

LEMMA StutterSleepers ==
    ASSUME Lines, Sleepers, UNCHANGED vars
    PROVE  Lines' /\ Sleepers'
<1>1. UNCHANGED <<queue, prio, stack, exec, owner, wants>>
  BY DEF vars, threadVars, mutexVars, schedVars, hostVars
<1>2. Lines'
  BY <1>1 DEF Lines, Sorted
<1>3. /\ \A t : Awake(t) => Awake(t)'
      /\ \A q : FallsAsleep(q)' => FallsAsleep(q)
      /\ At("wakeup") => At("wakeup")' /\ Top' = Top
      /\ \A m : Waiters(m)' = Waiters(m)
  BY <1>1 DEF Awake, FallsAsleep, At, Top, Rest, Waiters
<1>4. Sleepers'
  BY <1>1, <1>3 DEF Sleepers
<1> QED
  BY <1>2, <1>4

LEMMA MutexInvariant == Spec => []MInv
<1>1. IInv => Inv
  BY DEF IInv
<1>2. Init => Lines /\ Sleepers
  BY InitSleepers
<1>3. IInv /\ Inv' /\ (Lines /\ Sleepers) /\ [Next]_vars => (Lines /\ Sleepers)'
  BY LinesKept, SleepersKept, StutterSleepers DEF MInv
<1> QED
  BY <1>1, <1>2, <1>3, StrongInvariant, PTL DEF Spec, MInv

(* A free mutex has nobody asleep on it: OSUnlockMutex, OSCancelThread and  *)
(* the retry after OSSleepThread lose no wakeup.                            *)
THEOREM NoWaiterForgotten == Spec => []NoForgottenWaiter
<1>1. MInv => NoForgottenWaiter
  <2> SUFFICES ASSUME MInv, Settled, NEW m \in Mutex, owner[m] = None, queue[MutexQ(m)] # <<>>
               PROVE  FALSE
    BY DEF NoForgottenWaiter
  <2>1. At("wakeup")
    BY DEF MInv, Sleepers
  <2> QED
    BY <2>1, OneTop DEF Settled, CallbackCode
<1> QED
  BY <1>1, MutexInvariant, PTL

-----------------------------------------------------------------------------
(* An owned mutex is on the list of its owner.                              *)

LEMMA StillUsed ==
    ASSUME Once, OInv, Next, NEW t \in Thread, state[t] # "NONE"
    PROVE  state'[t] # "NONE"
<1>0. IInv /\ Inv /\ ~detached[t] /\ exec \in Thread /\ state \in [Thread -> State]
  BY Fields DEF OInv, MInv, IInv, Owners
<1>1. ~At("join")
  <2>1. Lacks(stack[exec], {"join"})
    BY <1>0 DEF OInv, Owners
  <2>2. At("join") => Top \in Range(stack[exec])
    BY <1>0, RestFrames DEF At, IInv, Frames
  <2> QED
    BY <2>1, <2>2 DEF At, Top, Lacks
<1>2. Quiet => state'[t] # "NONE"
  BY <1>0, <1>1 DEF Quiet, Ends
<1>3. SleepCall => state'[t] # "NONE"
  BY <1>0, SleepNow
<1>4. Locks \/ Unlocks \/ Reprices => UNCHANGED state
  BY DEF Locks, LockRetry, GuestLocks, OSLockMutex, Unlocks, GuestUnlocks, OSUnlockMutex,
         UnlockAllMutexes, Reprices, PromoteStep, PropagateStep, threadVars
<1>5. GuestCreates => state'[t] # "NONE"
  BY <1>0 DEF GuestCreates, OSCreateThread
<1>6. ASSUME NEW u, NEW k, OSResumeThread(u, k) \/ OSSuspendThread(u, k) PROVE state'[t] # "NONE"
  BY <1>0, <1>6 DEF OSResumeThread, OSSuspendThread, MadeReady
<1>7. Resumes \/ Suspends => state'[t] # "NONE"
  BY <1>6 DEF Resumes, ResumeCall, GuestResumes, CallbackResumes, Suspends, SuspendCall,
              GuestSuspends
<1> QED
  BY <1>0, <1>2, <1>3, <1>4, <1>5, <1>7, StepKinds

LEMMA NeverDetached ==
    ASSUME Once, OInv, Next, NEW t \in Thread
    PROVE  ~detached'[t] /\ Lacks(stack'[t], {"join"})
<1>0. IInv /\ ~detached[t] /\ exec \in Thread /\ detached \in [Thread -> BOOLEAN]
  BY DEF OInv, MInv, IInv, Owners, Inv, TypeOK, ThreadTypes, HostTypes
<1>1. Quiet => UNCHANGED detached
  BY DEF Quiet, Ends
<1>2. SleepCall \/ Locks \/ Unlocks \/ Reprices => UNCHANGED detached
  BY DEF SleepCall, OSSleepThread, Locks, LockRetry, GuestLocks, OSLockMutex, Unlocks,
         GuestUnlocks, OSUnlockMutex, UnlockAllMutexes, Reprices, PromoteStep,
         PropagateStep, threadVars
<1>3. Resumes \/ Suspends => UNCHANGED detached
  BY DEF Resumes, ResumeCall, GuestResumes, CallbackResumes, Suspends, SuspendCall,
         GuestSuspends, OSResumeThread, OSSuspendThread
<1>4. GuestCreates => ~detached'[t]
  BY <1>0 DEF GuestCreates, OSCreateThread, Once
<1>5. ~detached'[t]
  BY <1>0, <1>1, <1>2, <1>3, <1>4, StepKinds
<1>6. Lacks(stack'[t], {"join"})
  <2>1. ~GuestJoins
    BY DEF GuestJoins, Once
  <2>2. Lacks(stack[t], {"join"}) /\ Lacks(stack[exec], {"join"})
    BY <1>0 DEF OInv, Owners
  <2>3. /\ Lacks(stack'[exec], {"join"})
        /\ t # exec => stack'[t] \in {stack[t], <<>>}
    BY <1>0, <2>1, <2>2, StacksMove
  <2> QED
    BY <2>2, <2>3, ShortRanges DEF Lacks
<1> QED
  BY <1>5, <1>6

LEMMA OwnersKept ==
    ASSUME Once, OInv, Next
    PROVE  Owners'
<1>0. /\ IInv /\ Inv /\ exec \in Thread
      /\ owner \in [Mutex -> Thread \cup {None}] /\ owned \in [Thread -> SUBSET Mutex]
  BY DEF OInv, MInv, IInv, Inv, TypeOK, MutexTypes, HostTypes
<1> SUFFICES ASSUME NEW m \in Mutex, owner'[m] # None
             PROVE  state'[owner'[m]] # "NONE" /\ m \in owned'[owner'[m]]
  BY NeverDetached DEF Owners
<1> DEFINE Listed == owner'[m] = owner[m] /\ m \in owned'[owner[m]]
<1>1. ASSUME owner[m] # None
      PROVE  owner[m] \in Thread /\ state[owner[m]] # "NONE" /\ m \in owned[owner[m]]
  BY <1>0, <1>1 DEF OInv, Owners
<1>2. ASSUME Listed PROVE state'[owner'[m]] # "NONE" /\ m \in owned'[owner'[m]]
  BY <1>1, <1>2, StillUsed
<1>3. Quiet \/ SleepCall \/ Resumes \/ Suspends \/ Reprices => UNCHANGED mutexVars
  BY DEF Quiet, SleepCall, OSSleepThread, Reprices, PromoteStep, PropagateStep,
         Resumes, ResumeCall, GuestResumes, CallbackResumes, Suspends, SuspendCall,
         GuestSuspends, OSResumeThread, OSSuspendThread
<1>4. UNCHANGED mutexVars => Listed
  BY <1>1 DEF mutexVars
<1>5. ASSUME GuestCreates PROVE Listed
  <2>1. PICK t \in Thread \ Alive : owned' = [owned EXCEPT ![t] = {}] /\ UNCHANGED owner
    BY <1>5 DEF GuestCreates, OSCreateThread
  <2> QED
    BY <1>0, <1>1, <2>1 DEF Alive
<1>6. ASSUME Unlocks PROVE Listed
  <2>1. PICK n \in Mutex, t \in Thread :
           \/ UNCHANGED <<owner, owned>>
           \/ /\ owner' = [owner EXCEPT ![n] = None]
              /\ owned' = [owned EXCEPT ![t] = @ \ {n}]
    <3>1. ASSUME GuestUnlocks
          PROVE  \E n \in Mutex, t \in Thread :
                    \/ UNCHANGED <<owner, owned>>
                    \/ /\ owner' = [owner EXCEPT ![n] = None]
                       /\ owned' = [owned EXCEPT ![t] = @ \ {n}]
      BY <1>0, <3>1, OwnNow DEF GuestUnlocks, OSUnlockMutex, Own
    <3>2. ASSUME UnlockAllMutexes
          PROVE  \E n \in Mutex, t \in Thread :
                    \/ UNCHANGED <<owner, owned>>
                    \/ /\ owner' = [owner EXCEPT ![n] = None]
                       /\ owned' = [owned EXCEPT ![t] = @ \ {n}]
      BY <1>0, <3>2, StackTop, FrameFields DEF UnlockAllMutexes, mutexVars
    <3> QED
      BY <1>6, <3>1, <3>2 DEF Unlocks
  <2> QED
    BY <1>0, <1>1, <2>1
<1>7. ASSUME Locks PROVE state'[owner'[m]] # "NONE" /\ m \in owned'[owner'[m]]
  <2>k. PICK k : Own(k) /\ \E n \in Mutex : OSLockMutex(n, k)
    BY <1>0, <1>7, StackTop, FrameFields DEF Locks, LockRetry, GuestLocks, Own, OwnCalls
  <2>1. PICK n \in Mutex : Own(k) /\ OSLockMutex(n, k)
    BY <2>k
  <2>2. running = exec /\ exec # None /\ state[exec] = "RUNNING" /\ UNCHANGED state
    BY <1>0, <2>1, OwnNow DEF OSLockMutex
  <2>3. CASE UNCHANGED <<owner, owned>>
    BY <1>1, <1>2, <2>3
  <2>4. CASE /\ owner[n] \in {None, exec} /\ owner' = [owner EXCEPT ![n] = exec]
             /\ owned' = IF owner[n] = None THEN [owned EXCEPT ![exec] = @ \cup {n}] ELSE owned
    <3>1. CASE n = m
      BY <1>0, <1>1, <2>2, <2>4, <3>1
    <3>2. CASE n # m
      BY <1>0, <1>1, <1>2, <2>4, <3>2
    <3> QED
      BY <3>1, <3>2
  <2> QED
    BY <2>1, <2>2, <2>3, <2>4 DEF OSLockMutex
<1> QED
  BY <1>0, <1>2, <1>3, <1>4, <1>5, <1>6, <1>7, StepKinds

LEMMA InitOwners == Init => Owners
<1> SUFFICES ASSUME Init PROVE Owners
  OBVIOUS
<1>1. \A t \in Thread : stack[t] = <<>> /\ detached[t] = FALSE
  BY DEF Init
<1>2. \A m \in Mutex : owner[m] = None
  BY DEF Init
<1> QED
  BY <1>1, <1>2, ShortRanges DEF Owners, Lacks

LEMMA OwnersInvariant == ASSUME Once PROVE Spec => []OInv
<1>1. MInv /\ Owners /\ [Next]_vars => Owners'
  <2>1. MInv /\ Owners /\ Next => Owners'
    BY OwnersKept DEF OInv
  <2>2. Owners /\ UNCHANGED vars => Owners'
    BY DEF vars, threadVars, mutexVars, hostVars, Owners, Lacks
  <2> QED
    BY <2>1, <2>2
<1> QED
  BY <1>1, InitOwners, MutexInvariant, PTL DEF Spec, OInv

(* Whatever order locks, unlocks, cancellations and exits come in, a mutex  *)
(* is owned exactly by the thread that has it on its list, which is what    *)
(* frees it when that thread ends.                                          *)
THEOREM OwnershipKept == ASSUME Once PROVE Spec => []MutexOwnership
<1>1. OInv => MutexOwnership
  BY DEF OInv, MInv, IInv, Inv, Owners, MutexOwnership
<1> QED
  BY <1>1, OwnersInvariant, PTL

-----------------------------------------------------------------------------
(* Every owner has the priority of its waiters.                             *)

(* The priority computed from some mutexes is as urgent as their waiters.   *)
LEMMA Covers ==
    ASSUME Inv, Seated, Lines, NEW t \in Thread, NEW ms \in SUBSET Mutex,
           NEW m \in ms, NEW u \in Waiters(m)
    PROVE  EffectivePriority(t, ms) <= prio[u]
<1> DEFINE P == {base[t]} \cup {prio[Head(queue[MutexQ(n)])] :
                                   n \in {l \in ms : queue[MutexQ(l)] # <<>>}}
           s == queue[MutexQ(m)]
<1>1. base[t] \in Nat /\ prio \in [Thread -> Nat]
  BY Fields, QueueKinds DEF Inv, TypeOK, ThreadTypes
<1>2. ASSUME NEW n \in ms, queue[MutexQ(n)] # <<>>
      PROVE  prio[Head(queue[MutexQ(n)])] \in Nat
  BY <1>1, <1>2, WaitersNow, HeadTailProperties
<1>3. P \in SUBSET Nat /\ P # {}
  BY <1>1, <1>2
<1>4. s \in Seq(Thread) /\ s # <<>> /\ Sorted(s, prio) /\ u \in Range(s)
  BY WaitersNow DEF Waiters, Lines
<1>5. prio[Head(s)] \in P
  BY <1>4
<1>6. Best(P) <= prio[Head(s)] /\ Best(P) \in Nat
  BY <1>3, <1>5, BestIsLeast
<1>7. PICK i \in 1 .. Len(s) : u = s[i]
  BY <1>4, InRange
<1>8. Head(s) = s[1] /\ 1 \in DOMAIN s /\ i \in DOMAIN s /\ s[1] \in Thread /\ u \in Thread
  BY <1>4, <1>7, EmptySeq
<1>9. prio[s[1]] <= prio[u]
  <2>1. CASE i = 1
    BY <1>1, <1>7, <1>8, <2>1
  <2>2. CASE i # 1
    <3>1. 1 < i
      BY <1>7, <2>2
    <3> QED
      BY <1>4, <1>7, <1>8, <3>1 DEF Sorted
  <2> QED
    BY <2>1, <2>2
<1>10. EffectivePriority(t, ms) = Best(P)
  BY DEF EffectivePriority
<1> HIDE DEF P, s
<1> QED
  BY <1>1, <1>6, <1>8, <1>9, <1>10

(* What is known of a waiter and of the owner it waits for.                 *)
LEMMA WaiterAndOwner ==
    ASSUME PInv, NEW m \in Mutex, NEW t \in Waiters(m)
    PROVE  /\ t \in Thread /\ state[t] = "WAITING" /\ wants[t] = m
           /\ owner[m] \in Thread \cup {None}
           /\ owner[m] # None => /\ state[owner[m]] # "NONE" /\ m \in owned[owner[m]]
                                 /\ owned[owner[m]] \in SUBSET Mutex
           /\ Met(m, t)
           /\ ~At("promote") /\ ~At("propagate") => Urgent(owner[m], prio[t])
BY WaitersNow
   DEF PInv, OInv, MInv, IInv, Inv, TypeOK, MutexTypes, Sleepers, Owners, Inherited, Met, Raises

LEMMA MetQuiet ==
    ASSUME PInv, Quiet, ~At("promote"), ~At("propagate"),
           NEW m \in Mutex, NEW t \in Waiters(m)'
    PROVE  Met(m, t)'
<1>1. t \in Waiters(m)
  BY DEF Quiet, Trims, Waiters
<1>2. /\ t \in Thread /\ owner[m] \in Thread \cup {None} /\ Urgent(owner[m], prio[t])
  BY <1>1, WaiterAndOwner
<1>3. UNCHANGED <<prio, suspend, owner>>
  BY DEF Quiet, mutexVars
<1> QED
  BY <1>2, <1>3 DEF Quiet, Ends, Urgent, Met

LEMMA MetSleep ==
    ASSUME PInv, SleepCall, NEW m \in Mutex, NEW t \in Waiters(m)'
    PROVE  Met(m, t)'
<1>0. IInv /\ Lines /\ Inv /\ exec \in Thread /\ state \in [Thread -> State]
  BY Fields DEF PInv, OInv, MInv, IInv
<1>1. At("sleep") /\ ~At("promote") /\ ~At("propagate")
  BY OneTop DEF SleepCall
<1>2. /\ Waiters(m)' \subseteq Waiters(m) \cup {exec}
      /\ exec \in Waiters(m)' => Top.q = MutexQ(m)
  BY <1>0, LinesSleep
<1>3. Urgent(owner[m], prio[t]) /\ owner[m] \in Thread \cup {None}
  <2>1. CASE t \in Waiters(m)
    BY <1>1, <2>1, WaiterAndOwner
  <2>2. CASE t = exec
    <3>1. FallsAsleep(MutexQ(m))
      BY <1>1, <1>2, <2>2 DEF FallsAsleep
    <3> QED
      BY <1>0, <1>1, <2>2, <3>1 DEF PInv, Inherited, Inv, TypeOK, MutexTypes
  <2> QED
    BY <1>2, <2>1, <2>2
<1>4. /\ UNCHANGED <<prio, suspend, mutexVars>> /\ state[exec] = "RUNNING"
      /\ state' = [state EXCEPT ![exec] = "WAITING"]
  BY <1>0, SleepNow
<1>5. UNCHANGED owner
  BY <1>4 DEF mutexVars
<1> QED
  BY <1>0, <1>3, <1>4, <1>5 DEF Urgent, Met, Terminated

LEMMA MetCreates ==
    ASSUME PInv, GuestCreates, NEW m \in Mutex, NEW t \in Waiters(m)'
    PROVE  Met(m, t)'
<1>0. /\ IInv /\ Inv /\ Lines /\ state \in [Thread -> State] /\ suspend \in [Thread -> Nat]
      /\ prio \in [Thread -> Nat]
  BY Fields DEF PInv, OInv, MInv, IInv
<1>1. t \in Waiters(m)
  BY <1>0, LinedCreates DEF LinedUp, Waiters
<1>2. ~At("promote") /\ ~At("propagate")
  BY OneTop DEF GuestCreates
<1>3. PICK u \in Thread : /\ state[u] = "NONE"
                          /\ \E p : prio' = [prio EXCEPT ![u] = p]
                          /\ state' = [state EXCEPT ![u] = "READY"]
                          /\ suspend' = [suspend EXCEPT ![u] = 1]
                          /\ UNCHANGED owner
  BY DEF GuestCreates, OSCreateThread, Alive
<1>4. /\ t \in Thread /\ t # u /\ Urgent(owner[m], prio[t])
      /\ owner[m] = None \/ (owner[m] \in Thread /\ owner[m] # u)
  BY <1>1, <1>2, <1>3, WaiterAndOwner
<1> QED
  BY <1>0, <1>3, <1>4 DEF Urgent, Met

LEMMA MetResume ==
    ASSUME PInv, NEW u \in Thread, NEW k \in Stack, OSResumeThread(u, k), exec' = exec,
           ~At("promote"), ~At("propagate"), NEW m \in Mutex, NEW t \in Waiters(m)'
    PROVE  Met(m, t)'
<1>0. /\ Inv /\ Seated /\ Lines /\ state \in [Thread -> State] /\ suspend \in [Thread -> Nat]
      /\ prio \in [Thread -> Nat] /\ owned \in [Thread -> SUBSET Mutex]
  BY Fields, OwnSets DEF PInv, OInv, MInv, IInv
<1>1. t \in Waiters(m)
  BY <1>0, LinedResume DEF LinedUp, Waiters
<1>2. /\ t \in Thread /\ state[t] = "WAITING" /\ wants[t] = m
      /\ owner[m] \in Thread \cup {None} /\ Urgent(owner[m], prio[t])
      /\ owner[m] # None => m \in owned[owner[m]]
  BY <1>1, WaiterAndOwner
<1>3. UNCHANGED owner /\ suspend' = [suspend EXCEPT ![u] = Resumed(@)]
  BY DEF OSResumeThread, mutexVars
<1>4. CASE suspend[u] # 1
  <2>1. UNCHANGED <<state, prio>>
    BY <1>4 DEF OSResumeThread
  <2>2. \A o \in Thread : suspend[o] # 0 => suspend'[o] # 0
    BY <1>0, <1>3, <1>4 DEF Resumed
  <2> QED
    BY <1>2, <1>3, <2>1, <2>2 DEF Urgent, Met
<1>5. CASE suspend[u] = 1 /\ t = u
  <2> DEFINE f == Propagate(owner[m])
             g == Resched
  <2>1. Become(<<f, g>>, k)
    BY <1>2, <1>5, NoneAssumption DEF OSResumeThread, OwnerOf
  <2>2. f \in Frame /\ g \in Frame /\ f.op = "propagate" /\ f.o = owner[m]
    BY <1>2, FramesBuilt, FrameOps
  <2> HIDE DEF f, g
  <2>3. <<f, g>> \in Stack /\ <<f, g>> # <<>> /\ <<f, g>>[1] = f
    BY <2>2, ShortStacks
  <2>4. stack'[exec] # <<>> /\ Head(stack'[exec]) = f
    BY <1>0, <2>1, <2>3, PushedTop
  <2>5. At("propagate")' /\ Top'.o = owner'[m]
    BY <1>3, <2>2, <2>4 DEF At, Top
  <2> QED
    BY <2>5 DEF Met, Raises
<1>6. CASE suspend[u] = 1 /\ t # u
  <2> DEFINE p == EffectivePriority(u, owned[u])
  <2>1. owner[m] = u => p <= prio[t]
    <3>1. ASSUME owner[m] = u PROVE m \in owned[u] /\ owned[u] \in SUBSET Mutex
      BY <1>0, <1>2, <3>1, NoneAssumption
    <3> QED
      BY <1>0, <1>1, <3>1, Covers
  <2>2. \/ UNCHANGED <<state, prio>> /\ state[u] \in Terminated
        \/ /\ prio' = [prio EXCEPT ![u] = p]
           /\ \A o \in Thread : o # u => state'[o] = state[o]
    BY <1>0, <1>6 DEF OSResumeThread, MadeReady, Terminated, State
  <2> HIDE DEF p
  <2>3. /\ prio'[t] = prio[t]
        /\ \A o \in Thread : o # u => /\ state'[o] = state[o] /\ prio'[o] = prio[o]
                                      /\ suspend'[o] = suspend[o]
    BY <1>0, <1>2, <1>3, <1>6, <2>2
  <2>4. CASE owner[m] = u
    BY <1>0, <1>2, <1>3, <2>1, <2>2, <2>3, <2>4 DEF Urgent, Met
  <2>5. CASE owner[m] # u
    BY <1>2, <1>3, <2>3, <2>5 DEF Urgent, Met
  <2> QED
    BY <2>4, <2>5
<1> QED
  BY <1>4, <1>5, <1>6

LEMMA MetSuspend ==
    ASSUME PInv, NEW u \in Thread, NEW k \in Stack, OSSuspendThread(u, k),
           ~At("promote"), ~At("propagate"), NEW m \in Mutex, NEW t \in Waiters(m)'
    PROVE  Met(m, t)'
<1>0. /\ Inv /\ Seated /\ Lines /\ state \in [Thread -> State] /\ suspend \in [Thread -> Nat]
      /\ prio \in [Thread -> AnyPrio]
  BY Fields DEF PInv, OInv, MInv, IInv
<1>1. t \in Waiters(m)
  BY <1>0, LinedSuspend DEF LinedUp, Waiters
<1>2. /\ t \in Thread /\ state[t] = "WAITING"
      /\ owner[m] \in Thread \cup {None} /\ Urgent(owner[m], prio[t])
  BY <1>1, WaiterAndOwner
<1>3. /\ UNCHANGED owner /\ suspend' = [suspend EXCEPT ![u] = @ + 1]
  BY DEF OSSuspendThread, mutexVars
<1>4. suspend'[u] # 0 /\ \A o \in Thread : suspend[o] # 0 => suspend'[o] # 0
  BY <1>0, <1>3
<1>5. \A o \in Thread : o # u => state'[o] = state[o] /\ prio'[o] = prio[o]
  BY <1>0 DEF OSSuspendThread
<1>6. owner[m] = u => Met(m, t)'
  BY <1>3, <1>4 DEF Urgent, Met
<1>7. CASE owner[m] # u /\ prio'[t] = prio[t]
  BY <1>2, <1>3, <1>4, <1>5, <1>7 DEF Urgent, Met
<1>8. CASE owner[m] # u /\ prio'[t] = SuspendedWaitPriority
  <2>1. owner[m] # None => prio[owner[m]] <= SuspendedWaitPriority
    BY <1>0, <1>2, QueueKinds, PrioAssumption DEF AnyPrio, Prio, SuspendedWaitPriority
  <2> QED
    BY <1>2, <1>3, <1>4, <1>5, <1>8, <2>1 DEF Urgent, Met
<1>9. prio'[t] \in {prio[t], SuspendedWaitPriority}
  BY <1>0, <1>2 DEF OSSuspendThread
<1> QED
  BY <1>6, <1>7, <1>8, <1>9

LEMMA MetLocks ==
    ASSUME PInv, Locks, NEW m \in Mutex, NEW t \in Waiters(m)'
    PROVE  Met(m, t)'
<1>0. IInv /\ Inv /\ Lines /\ owner \in [Mutex -> Thread \cup {None}]
  BY DEF PInv, OInv, MInv, IInv, Inv, TypeOK, MutexTypes
<1>1. t \in Waiters(m)
  BY <1>0, LinedUnlocks DEF LinedUp, Waiters
<1>2. ~At("promote") /\ ~At("propagate") /\ ~At("wakeup")
  BY OneTop DEF Locks, LockRetry, GuestLocks
<1>3. Urgent(owner[m], prio[t])
  BY <1>1, <1>2, WaiterAndOwner
<1>4. owner[m] # None
  BY <1>0, <1>1, <1>2, WaitersNow DEF PInv, OInv, MInv, Sleepers, IInv
<1>5. PICK n \in Mutex : \E k : OSLockMutex(n, k)
  BY <1>0, StackTop, FrameFields DEF Locks, LockRetry, GuestLocks
<1>6. owner'[m] = owner[m]
  BY <1>0, <1>4, <1>5 DEF OSLockMutex
<1>7. UNCHANGED <<state, suspend, prio>>
  BY <1>5 DEF OSLockMutex
<1> QED
  BY <1>3, <1>6, <1>7 DEF Urgent, Met

LEMMA MetUnlocks ==
    ASSUME PInv, Unlocks, NEW m \in Mutex, NEW t \in Waiters(m)'
    PROVE  Met(m, t)'
<1>0. /\ IInv /\ Inv /\ Seated /\ Lines /\ owner \in [Mutex -> Thread \cup {None}]
      /\ prio \in [Thread -> Nat] /\ owned \in [Thread -> SUBSET Mutex]
  BY Fields DEF PInv, OInv, MInv, IInv, Inv, TypeOK, MutexTypes
<1>1. t \in Waiters(m)
  BY <1>0, LinedUnlocks DEF LinedUp, Waiters
<1>2. ~At("promote") /\ ~At("propagate")
  BY OneTop DEF Unlocks, GuestUnlocks, UnlockAllMutexes
<1>3. /\ t \in Thread /\ state[t] = "WAITING" /\ Urgent(owner[m], prio[t])
      /\ owner[m] \in Thread \cup {None}
      /\ owner[m] # None => m \in owned[owner[m]]
  BY <1>1, <1>2, WaiterAndOwner
<1>4. UNCHANGED <<state, suspend>>
  BY DEF Unlocks, GuestUnlocks, OSUnlockMutex, UnlockAllMutexes, threadVars
<1>5. owner'[m] = None => Met(m, t)'
  BY DEF Met, Urgent
<1>6. ASSUME UnlockAllMutexes, owner'[m] # None PROVE Met(m, t)'
  <2>1. owner'[m] = owner[m]
    <3>1. UNCHANGED owner \/ \E n \in Mutex : owner' = [owner EXCEPT ![n] = None]
      BY <1>0, <1>6, StackTop, FrameFields DEF UnlockAllMutexes, mutexVars
    <3> QED
      BY <1>0, <1>6, <3>1
  <2>2. UNCHANGED prio
    BY <1>6 DEF UnlockAllMutexes, threadVars
  <2> QED
    BY <1>3, <1>4, <2>1, <2>2 DEF Met, Urgent
<1>7. ASSUME GuestUnlocks, owner'[m] # None PROVE Met(m, t)'
  <2>1. PICK n \in Mutex : OSUnlockMutex(n, <<>>)
    BY <1>7 DEF GuestUnlocks
  <2>2. running \in Thread /\ state[running] = "RUNNING"
    BY <1>0, <1>7, OwnNow DEF GuestUnlocks, Own
  <2>3. CASE UNCHANGED <<owner, prio>>
    BY <1>3, <1>4, <2>3 DEF Met, Urgent
  <2>4. CASE owner' = [owner EXCEPT ![n] = None] /\ UNCHANGED prio
    BY <1>0, <1>3, <1>4, <1>7, <2>4 DEF Met, Urgent
  <2>5. CASE /\ owner' = [owner EXCEPT ![n] = None]
             /\ prio' = [prio EXCEPT ![running] =
                            EffectivePriority(running, owned[running] \ {n})]
    <3> DEFINE p == EffectivePriority(running, owned[running] \ {n})
    <3>1. m # n /\ owner'[m] = owner[m] /\ t # running
      BY <1>0, <1>3, <1>7, <2>2, <2>5
    <3>2. owner[m] = running => p <= prio[t]
      <4>1. owner[m] = running => m \in owned[running] \ {n}
        BY <1>3, <2>2, <3>1, NoneAssumption
      <4>2. owned[running] \ {n} \in SUBSET Mutex
        BY <1>0, <2>2
      <4> QED
        BY <1>0, <1>1, <2>2, <4>1, <4>2, Covers
    <3> HIDE DEF p
    <3>3. prio' = [prio EXCEPT ![running] = p]
      BY <2>5 DEF p
    <3>4. prio'[t] = prio[t]
      BY <1>0, <1>3, <3>1, <3>3
    <3>5. CASE owner[m] = running
      BY <1>0, <1>3, <2>2, <3>1, <3>2, <3>3, <3>4, <3>5 DEF Met, Urgent
    <3>6. CASE owner[m] # running
      BY <1>0, <1>3, <1>4, <3>1, <3>3, <3>4, <3>6 DEF Met, Urgent
    <3> QED
      BY <3>5, <3>6
  <2>6. \/ UNCHANGED <<owner, prio>>
        \/ owner' = [owner EXCEPT ![n] = None] /\ UNCHANGED prio
        \/ /\ owner' = [owner EXCEPT ![n] = None]
           /\ prio' = [prio EXCEPT ![running] =
                            EffectivePriority(running, owned[running] \ {n})]
    BY <2>1 DEF OSUnlockMutex
  <2> QED
    BY <2>3, <2>4, <2>5, <2>6
<1> QED
  BY <1>5, <1>6, <1>7 DEF Unlocks

(* What a round along a chain of owners changes: the priority of o.         *)
LEMMA PriorityGiven ==
    ASSUME Inv, NEW o \in Thread, NEW p, SetThreadEffectivePriority(o, p)
    PROVE  /\ state[o] \in Terminated /\ UNCHANGED prio
           \/ prio' = [prio EXCEPT ![o] = p]
BY Fields DEF SetThreadEffectivePriority, State, Terminated

LEMMA MetPromote ==
    ASSUME PInv, Inv', PromoteStep
    PROVE  /\ \A m \in Mutex : \A t \in Waiters(m)' : Met(m, t)'
           /\ \A m \in Mutex : FallsAsleep(MutexQ(m))' =>
                 /\ Urgent(owner[m], prio[exec])' \/ (At("promote")' /\ Top'.o = owner'[m])
                 /\ At("promote")' => Top'.p = prio'[exec']
<1>0. /\ MInv /\ IInv /\ Inv /\ Lines /\ exec \in Thread /\ exec' = exec /\ Seated
      /\ prio \in [Thread -> Nat]
      /\ owner \in [Mutex -> Thread \cup {None}] /\ At("promote") /\ ~At("propagate")
      /\ Top \in Frame /\ Top.op = "promote"
  BY Fields, StackTop, OneTop
     DEF PInv, OInv, MInv, IInv, Inv, TypeOK, MutexTypes, PromoteStep
<1>1. Top.o \in Thread \cup {None} /\ Top.p \in Nat
  BY <1>0, FrameFields, QueueNames
<1>2. UNCHANGED <<state, suspend, owner, wants>>
  BY DEF PromoteStep, mutexVars
<1>3. ASSUME NEW m \in Mutex, NEW t \in Waiters(m)'
      PROVE  /\ t \in Waiters(m) /\ t \in Thread /\ state[t] = "WAITING" /\ wants[t] = m
             /\ owner[m] \in Thread \cup {None}
             /\ Urgent(owner[m], prio[t]) \/ (Top.o = owner[m] /\ Top.p <= prio[t])
  <2>1. t \in Waiters(m)
    BY <1>0, <1>3, LinedReprices DEF Reprices, LinedUp, Waiters
  <2>2. Met(m, t)
    BY <2>1, WaiterAndOwner
  <2> QED
    BY <1>0, <2>1, <2>2, WaiterAndOwner DEF Met, Raises
<1>4. ASSUME NEW m \in Mutex, FallsAsleep(MutexQ(m))'
      PROVE  /\ Urgent(owner[m], prio[exec]) \/ Top.o = owner[m]
             /\ Top.p = prio[exec]
  <2>1. FallsAsleep(MutexQ(m))
    BY <1>0, <1>4, PromoteFrames
  <2> QED
    BY <1>0, <2>1 DEF PInv, Inherited
<1>5. CASE Become(<<>>, Rest) /\ UNCHANGED prio /\ Urgent(Top.o, Top.p)
  <2>1. At("sleep")' /\ ~At("promote")'
    BY <1>0, <1>5, PromoteFrames
  <2>2. \A r \in Nat : Top.p <= r => Urgent(Top.o, r)
    BY <1>0, <1>1, <1>5 DEF Urgent
  <2>3. ASSUME NEW m \in Mutex, NEW t \in Waiters(m)' PROVE Met(m, t)'
    <3>1. Urgent(owner[m], prio[t])
      BY <1>0, <1>3, <2>2, <2>3
    <3> QED
      BY <1>2, <1>5, <3>1 DEF Met, Urgent
  <2>4. ASSUME NEW m \in Mutex, FallsAsleep(MutexQ(m))' PROVE Urgent(owner[m], prio[exec])'
    <3>1. Urgent(owner[m], prio[exec])
      BY <1>4, <1>5, <2>4
    <3> QED
      BY <1>0, <1>2, <1>5, <3>1 DEF Urgent
  <2> QED
    BY <2>1, <2>3, <2>4
<1>6. CASE /\ Top.o \in Thread /\ prio[Top.o] > Top.p
           /\ SetThreadEffectivePriority(Top.o, Top.p)
           /\ Become(<<Promote(NextOwner(Top.o), Top.p)>>, Rest)
  <2>o. PICK o \in Thread, p \in Nat : o = Top.o /\ p = Top.p
    BY <1>1, <1>6
  <2> DEFINE n == NextOwner(o)
  <2>1. n \in Thread \cup {None}
    BY <1>0, NextOwnerType
  <2>2. At("promote")' /\ Top' = Promote(n, p)
    BY <2>o, <1>0, <1>6, <2>1, PromoteFrames
  <2>3. Top'.o = n /\ Top'.p = p
    BY <2>o, <2>2, FrameOps
  <2> HIDE DEF n
  <2>4. \/ state[o] \in Terminated /\ UNCHANGED prio
        \/ prio' = [prio EXCEPT ![o] = p]
    BY <2>o, <1>0, <1>6, PriorityGiven
  <2>5. /\ prio'[o] = p \/ (state[o] \in Terminated /\ UNCHANGED prio)
        /\ \A u \in Thread : u # o => prio'[u] = prio[u]
    BY <2>o, <1>0, <1>6, <2>4
  <2>6. \A r \in Nat : p <= r => Urgent(o, r)'
    BY <2>o, <1>0, <1>1, <1>2, <1>6, <2>5 DEF Urgent
  <2>8. ASSUME NEW m \in Mutex, NEW t \in Waiters(m)' PROVE Met(m, t)'
    <3>1. CASE t = o
      <4>1. prio'[t] = p
        BY <2>o, <1>3, <2>5, <2>8, <3>1 DEF Terminated
      <4>2. n = owner[m]
        BY <2>o, <1>3, <2>8, <3>1, NoneAssumption DEF NextOwner, OwnerOf, n
      <4> QED
        BY <2>o, <1>1, <1>2, <2>2, <2>3, <4>1, <4>2 DEF Met, Raises
    <3>2. CASE t # o /\ owner[m] = o
      <4>1. prio'[t] = prio[t] /\ prio[t] \in Nat
        BY <2>o, <1>0, <1>3, <2>5, <2>8, <3>2
      <4>2. CASE p <= prio[t]
        BY <2>o, <1>2, <2>6, <3>2, <4>1, <4>2 DEF Met, Urgent
      <4>3. CASE ~(p <= prio[t])
        <5>1. suspend[o] # 0 \/ state[o] \in Terminated
          BY <2>o, <1>0, <1>1, <1>3, <1>6, <2>8, <3>2, <4>1, <4>3, NoneAssumption DEF Urgent
        <5> QED
          BY <2>o, <1>2, <3>2, <5>1 DEF Met, Urgent
      <4> QED
        BY <2>o, <4>2, <4>3
    <3>3. CASE t # o /\ owner[m] # o
      BY <2>o, <1>2, <1>3, <2>5, <2>8, <3>3 DEF Met, Urgent
    <3> QED
      BY <2>o, <3>1, <3>2, <3>3
  <2>9. ASSUME NEW m \in Mutex, FallsAsleep(MutexQ(m))'
        PROVE  Urgent(owner[m], prio[exec])' /\ Top'.p = prio'[exec']
    <3>1. exec # o /\ prio'[exec] = p /\ prio[exec] = p
      BY <2>o, <1>0, <1>1, <1>4, <1>6, <2>5, <2>9
    <3>2. CASE owner[m] = o
      BY <2>o, <1>0, <1>1, <1>2, <2>3, <2>6, <3>1, <3>2 DEF Urgent
    <3>3. CASE owner[m] # o
      BY <2>o, <1>0, <1>2, <1>4, <2>3, <2>5, <2>9, <3>1, <3>3 DEF Urgent
    <3> QED
      BY <2>o, <3>2, <3>3
  <2> QED
    BY <2>o, <2>8, <2>9
<1>7. \/ Become(<<>>, Rest) /\ UNCHANGED prio /\ Urgent(Top.o, Top.p)
      \/ /\ Top.o \in Thread /\ prio[Top.o] > Top.p
         /\ SetThreadEffectivePriority(Top.o, Top.p)
         /\ Become(<<Promote(NextOwner(Top.o), Top.p)>>, Rest)
  BY <1>0, <1>1, Fields DEF PromoteStep, Urgent
<1> QED
  BY <1>5, <1>6, <1>7

LEMMA MetPropagate ==
    ASSUME PInv, PropagateStep, NEW m \in Mutex, NEW t \in Waiters(m)'
    PROVE  Met(m, t)'
<1>0. /\ IInv /\ Inv /\ Lines /\ Seated /\ exec \in Thread /\ exec' = exec
      /\ prio \in [Thread -> Nat] /\ owned \in [Thread -> SUBSET Mutex]
      /\ At("propagate") /\ ~At("promote") /\ Rest \in Stack
      /\ Top \in Frame /\ Top.op = "propagate"
  BY Fields, StackTop, OneTop, OwnSets DEF PInv, OInv, MInv, IInv, PropagateStep
<1>1. UNCHANGED <<state, suspend, owner>>
  BY DEF PropagateStep, mutexVars
<1>2. t \in Waiters(m)
  BY <1>0, LinedReprices DEF Reprices, LinedUp, Waiters
<1>3. /\ t \in Thread /\ state[t] = "WAITING" /\ wants[t] = m
      /\ owner[m] \in Thread \cup {None}
      /\ owner[m] # None => m \in owned[owner[m]]
      /\ Urgent(owner[m], prio[t]) \/ owner[m] = Top.o
  BY <1>0, <1>2, WaiterAndOwner DEF Met, Raises
<1>4. owner[m] = None => Met(m, t)'
  BY <1>1 DEF Met, Urgent
<1>5. CASE Top.o = None
  <2>1. UNCHANGED prio
    BY <1>5 DEF PropagateStep
  <2> QED
    BY <1>1, <1>3, <1>5, <2>1 DEF Met, Urgent
<1>6. CASE Top.o # None
  <2>o. PICK o \in Thread : o = Top.o
    BY <1>0, <1>6, FrameFields
  <2>p. PICK p : p = EffectivePriority(o, owned[o])
    OBVIOUS
  <2>1. owner[m] = o => p <= prio[t]
    <3>1. owned[o] \in SUBSET Mutex /\ (owner[m] = o => m \in owned[o])
      BY <1>0, <1>3, NoneAssumption
    <3> QED
      BY <1>0, <1>2, <2>p, <3>1, Covers
  <2>2. \/ UNCHANGED prio /\ (suspend[o] # 0 \/ prio[o] = p)
        \/ SetThreadEffectivePriority(o, p) /\ Become(<<Propagate(NextOwner(o))>>, Rest)
    BY <1>0, <1>6, <2>o, <2>p, Fields DEF PropagateStep
  <2>3. CASE UNCHANGED prio /\ (suspend[o] # 0 \/ prio[o] = p)
    BY <1>1, <1>3, <2>o, <2>1, <2>3 DEF Met, Urgent
  <2>4. CASE SetThreadEffectivePriority(o, p) /\ Become(<<Propagate(NextOwner(o))>>, Rest)
    <3>1. /\ prio'[o] = p \/ (state[o] \in Terminated /\ UNCHANGED prio)
          /\ \A u \in Thread : u # o => prio'[u] = prio[u]
      BY <1>0, <2>4, PriorityGiven
    <3>2. CASE t = o
      <4> DEFINE f == Propagate(owner[m])
      <4>1. NextOwner(o) = owner[m]
        BY <1>3, <3>2, NoneAssumption DEF NextOwner, OwnerOf
      <4>2. Become(<<f>>, Rest)
        BY <2>4, <4>1
      <4>3. f \in Frame /\ f.op = "propagate" /\ f.o = owner[m]
        BY <1>3, FramesBuilt, FrameOps
      <4> HIDE DEF f
      <4>4. <<f>> \in Stack /\ <<f>> # <<>> /\ <<f>>[1] = f
        BY <4>3, ShortStacks
      <4>5. stack'[exec] # <<>> /\ Head(stack'[exec]) = f
        BY <1>0, <4>2, <4>4, PushedTop
      <4> QED
        BY <1>0, <1>1, <4>3, <4>5 DEF At, Top, Met, Raises
    <3>3. CASE t # o /\ owner[m] = o
      BY <1>1, <1>3, <2>1, <3>1, <3>3 DEF Met, Urgent
    <3>4. CASE t # o /\ owner[m] # o
      BY <1>1, <1>3, <1>4, <2>o, <3>1, <3>4 DEF Met, Urgent
    <3> QED
      BY <3>2, <3>3, <3>4
  <2> QED
    BY <2>2, <2>3, <2>4
<1> QED
  BY <1>5, <1>6

LEMMA InheritedKept ==
    ASSUME PInv, Inv', Next
    PROVE  Inherited'
<1>0. MInv /\ IInv /\ Inv /\ stack \in [Thread -> Stack] /\ exec \in Thread
  BY OwnSets DEF PInv, OInv, MInv, IInv, Inv, TypeOK, HostTypes, Stack
<1> DEFINE A == \A m \in Mutex : \A t \in Waiters(m)' : Met(m, t)'
           Asleep(m) == FallsAsleep(MutexQ(m))' =>
                 /\ Urgent(owner[m], prio[exec])' \/ (At("promote")' /\ Top'.o = owner'[m])
                 /\ At("promote")' => Top'.p = prio'[exec']
           B == \A m \in Mutex : Asleep(m)
<1>1. A /\ B => Inherited'
  BY DEF Inherited
<1>2. CASE PromoteStep
  BY <1>1, <1>2, MetPromote
<1>3. CASE SleepCall
  BY <1>0, <1>1, <1>3, MetSleep, SleepCalm
<1>4. CASE Locks
  <2>1. A
    BY <1>4, MetLocks
  <2>2. B
    BY <1>0, <1>4, LockKept
  <2> QED
    BY <1>1, <2>1, <2>2
<1>5. CASE ~PromoteStep /\ ~SleepCall /\ ~Locks
  <2>1. ~At("promote") /\ ~At("sleep")
    BY <1>5, Guards
  <2>2. B
    <3>1. CASE GuestJoins
      BY <1>0, <3>1, JoinFrames
    <3>2. CASE ~GuestJoins
      BY <1>0, <1>5, <2>1, <3>2, CalmStep
    <3> QED
      BY <3>1, <3>2
  <2>3. CASE At("propagate")
    <3>1. PropagateStep
      BY <2>3, Guards
    <3> QED
      BY <1>1, <2>2, <3>1, MetPropagate
  <2>4. CASE ~At("propagate")
    <3>1. ~Reprices
      BY <1>5, <2>4 DEF Reprices, PropagateStep
    <3>2. Quiet \/ Unlocks \/ GuestCreates => A
      BY <2>1, <2>4, MetQuiet, MetUnlocks, MetCreates
    <3>3. ASSUME Resumes PROVE A
      <4>1. PICK u \in Thread : \E k \in Stack : OSResumeThread(u, k)
        BY <1>0, <3>3, StackTop, FrameFields, ShortStacks
           DEF Resumes, ResumeCall, GuestResumes, CallbackResumes, Alive
      <4>2. exec' = exec
        BY <4>1 DEF OSResumeThread
      <4> QED
        BY <2>1, <2>4, <4>1, <4>2, MetResume
    <3>4. ASSUME Suspends PROVE A
      <4>1. PICK u \in Thread : \E k \in Stack : OSSuspendThread(u, k)
        BY <1>0, <3>4, StackTop, FrameFields, ShortStacks
           DEF Suspends, SuspendCall, GuestSuspends, Alive
      <4> QED
        BY <2>1, <2>4, <4>1, MetSuspend
    <3> QED
      BY <1>0, <1>1, <1>5, <2>2, <3>1, <3>2, <3>3, <3>4, StepKinds
  <2> QED
    BY <2>3, <2>4
<1> QED
  BY <1>2, <1>3, <1>4, <1>5

LEMMA InitInherited == Init => Inherited
<1> SUFFICES ASSUME Init PROVE Inherited
  OBVIOUS
<1>1. /\ \A m \in Mutex : queue[MutexQ(m)] = <<>>
      /\ stack[exec] = <<>>
  BY MutexQueues, MainAssumption DEF Init
<1>2. \A m \in Mutex : Waiters(m) = {}
  BY <1>1, ShortRanges DEF Waiters
<1>3. \A q : ~FallsAsleep(q)
  BY <1>1 DEF FallsAsleep, At
<1> QED
  BY <1>2, <1>3 DEF Inherited

LEMMA InheritanceInvariant == ASSUME Once PROVE Spec => []PInv
<1>1. OInv /\ Inv' /\ Inherited /\ [Next]_vars => Inherited'
  <2>1. OInv /\ Inv' /\ Inherited /\ Next => Inherited'
    BY InheritedKept DEF PInv
  <2>2. Inherited /\ UNCHANGED vars => Inherited'
    <3> SUFFICES ASSUME Inherited, UNCHANGED vars PROVE Inherited'
      OBVIOUS
    <3>1. UNCHANGED <<queue, prio, suspend, state, owner, stack, exec>>
      BY DEF vars, threadVars, mutexVars, schedVars, hostVars
    <3>2. /\ \A q : FallsAsleep(q)' => FallsAsleep(q)
          /\ (At("promote") <=> At("promote")') /\ Top' = Top
          /\ \A m : Waiters(m)' = Waiters(m)
      BY <3>1 DEF FallsAsleep, At, Top, Rest, Waiters
    <3>3. \A m, t : Met(m, t) => Met(m, t)'
      BY <3>1 DEF Met, Urgent, Raises, At, Top
    <3>4. \A m : Urgent(owner[m], prio[exec]) => Urgent(owner[m], prio[exec])'
      BY <3>1 DEF Urgent
    <3> QED
      BY <3>1, <3>2, <3>3, <3>4 DEF Inherited
  <2> QED
    BY <2>1, <2>2
<1>2. OInv => Inv
  BY DEF OInv, MInv, IInv
<1> QED
  BY <1>1, <1>2, InitInherited, OwnersInvariant, PTL DEF Spec, PInv

(* Priority inheritance: across nested mutexes, suspensions, resumptions    *)
(* and unlocks, an owner that could run is as urgent as each of its waiters *)
(* whenever no call is half done.                                           *)
THEOREM NoPriorityInversion == ASSUME Once PROVE Spec => []NoInversion
<1>1. PInv => NoInversion
  <2> SUFFICES ASSUME PInv, Settled, NEW m \in Mutex, NEW w \in Linked(MutexQ(m)),
                      owner[m] # None, suspend[owner[m]] = 0, state[owner[m]] \notin Terminated
               PROVE  prio[owner[m]] <= prio[w]
    BY DEF NoInversion
  <2>1. w \in Waiters(m)
    BY InRange, MutexQueues DEF Linked, Waiters, Range
  <2>2. ~At("promote") /\ ~At("propagate")
    BY OneTop DEF Settled, CallbackCode
  <2> QED
    BY <2>1, <2>2, WaiterAndOwner DEF Urgent
<1> QED
  BY <1>1, InheritanceInvariant, PTL
=============================================================================
