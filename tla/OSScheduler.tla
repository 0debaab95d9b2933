---------------------------- MODULE OSScheduler ----------------------------
(* The guest thread scheduler of the runtime: OSThread life cycle,          *)
(* SelectThread and its idle loop, wait queues, mutexes with priority       *)
(* inheritance and OSSleepTicks.                                            *)
(*                                                                          *)
(* Every guest thread owns a host fiber, and fibers only hand over inside   *)
(* SelectThread, so one fiber executes at a time (exec).  A call the code   *)
(* makes while it handles another one is a frame of that fiber's stack, the *)
(* innermost first: an action does what the innermost frame does up to its  *)
(* next call.  An empty stack is guest code.  A fiber that is switched away *)
(* keeps its frames and goes on from them when its thread is picked again.  *)
EXTENDS OSThreadQueue

CONSTANTS
    Idle,         \* the context SelectThread installs while nothing runs
    Retrace,      \* the wait queue of VIWaitForRetrace
    Calls,        \* the calls the guest program makes (a bound of the model)
    MaxSuspend,   \* bound on nested suspensions
    MaxCount      \* bound on nested locking of one mutex

ASSUME IdleAssumption == Idle \notin Thread \cup {None}
ASSUME RetraceAssumption == Retrace \in Event
ASSUME BoundAssumption == MaxSuspend \in Nat /\ MaxCount \in Nat

VARIABLES
    \* fields of an OSThread
    state, suspend, prio, base, detached, queueOf, wants, listed,
    \* fields of an OSMutex, and the list of the mutexes a thread owns
    owner, count, owned,
    \* the scheduler's globals
    queue, pending, resched, running, current, disable,
    \* host side of OSSleepTicks: armed timers, outstanding parks, and the
    \* parks the reconciler has seen stranded once
    timer, outstanding, seen,
    \* the fiber that executes, the frames of every fiber, AdvanceRetrace's guard
    exec, stack, inRetrace

threadVars == <<state, suspend, prio, base, detached, queueOf, wants, listed>>
mutexVars  == <<owner, count, owned>>
schedVars  == <<queue, pending, resched, running, current, disable>>
timerVars  == <<timer, outstanding, seen>>
hostVars   == <<exec, stack, inRetrace>>
vars == <<threadVars, mutexVars, schedVars, timerVars, hostVars>>

State == {"NONE", "READY", "RUNNING", "WAITING", "MORIBUND"}
Terminated == {"NONE", "MORIBUND"}

Frame ==
    [op : {"select", "body"}, force : BOOLEAN]
        \cup [op : {"dispatch", "resched", "exited", "parked"}]
        \cup [op : {"idle"}, at : {"timers", "audio", "retrace", "check"}]
        \cup [op : {"timers"}, due : SUBSET Thread, scan : BOOLEAN]
        \cup [op : {"heal"}, lost : SUBSET Thread]
        \cup [op : {"resume", "suspend", "join", "unlockAll"}, t : Thread]
        \cup [op : {"wakeup"}, q : WaitQueue, woke : BOOLEAN]
        \cup [op : {"sleep"}, q : WaitQueue]
        \cup [op : {"slept"}, q : WaitQueue, t : Thread]
        \cup [op : {"lock"}, m : Mutex]
        \cup [op : {"promote"}, o : Thread \cup {None}, p : AnyPrio]
        \cup [op : {"propagate"}, o : Thread \cup {None}]
        \cup [op : {"callback"}, retrace : BOOLEAN, deferred : BOOLEAN]

(* One type invariant for the module.                                       *)
ThreadTypes ==
    /\ state \in [Thread -> State]
    /\ suspend \in [Thread -> Nat]
    /\ prio \in [Thread -> AnyPrio]
    /\ base \in [Thread -> Prio]
    /\ detached \in [Thread -> BOOLEAN]
    /\ queueOf \in [Thread -> Queue \cup {None}]
    /\ wants \in [Thread -> Mutex \cup {None}]
    /\ listed \in SUBSET Thread

MutexTypes ==
    /\ owner \in [Mutex -> Thread \cup {None}]
    /\ count \in [Mutex -> Nat]
    /\ owned \in [Thread -> SUBSET Mutex]

QueueTypes ==
    /\ queue \in [Queue -> Seq(Thread)]
    /\ pending \in SUBSET AnyPrio

GlobalTypes ==
    /\ resched \in BOOLEAN
    /\ running \in Thread \cup {None}
    /\ current \in Thread \cup {None, Idle}
    /\ disable \in Nat

HostTypes ==
    /\ timer \in SUBSET Thread
    /\ outstanding \in SUBSET Thread
    /\ seen \in SUBSET Thread
    /\ exec \in Thread
    /\ stack \in [Thread -> Seq(Frame)]
    /\ inRetrace \in BOOLEAN

TypeOK == ThreadTypes /\ MutexTypes /\ QueueTypes /\ GlobalTypes /\ HostTypes

Init ==
    /\ \E p \in Prio :
          /\ prio = [t \in Thread |-> IF t = Main THEN p ELSE 0]
          /\ base = [t \in Thread |-> IF t = Main THEN p ELSE 0]
    /\ state = [t \in Thread |-> IF t = Main THEN "RUNNING" ELSE "NONE"]
    /\ suspend = [t \in Thread |-> 0]
    /\ detached = [t \in Thread |-> FALSE]
    /\ queueOf = [t \in Thread |-> None]
    /\ wants = [t \in Thread |-> None]
    /\ listed = {Main}
    /\ owner = [m \in Mutex |-> None]
    /\ count = [m \in Mutex |-> 0]
    /\ owned = [t \in Thread |-> {}]
    /\ queue = [q \in Queue |-> <<>>]
    /\ pending = {}
    /\ resched = FALSE
    /\ running = Main
    /\ current = Main
    /\ disable = 0
    /\ timer = {} /\ outstanding = {} /\ seen = {}
    /\ exec = Main
    /\ stack = [t \in Thread |-> <<>>]
    /\ inRetrace = FALSE

-----------------------------------------------------------------------------
(* Frames.                                                                  *)

At(op) == stack[exec] # <<>> /\ Head(stack[exec]).op = op
Top  == Head(stack[exec])
Rest == Tail(stack[exec])

GuestCode    == stack[exec] = <<>>
CallbackCode == At("callback")

(* The executing fiber goes on with the frames fs, and then with k.         *)
Become(fs, k) == stack' = [stack EXCEPT ![exec] = fs \o k]

Select(force)  == [op |-> "select", force |-> force]
Body(force)    == [op |-> "body", force |-> force]
Dispatch       == [op |-> "dispatch"]
IdleLoop(at)   == [op |-> "idle", at |-> at]
Timers(D, sc)  == [op |-> "timers", due |-> D, scan |-> sc]
Heal(H)        == [op |-> "heal", lost |-> H]
Resume(t)      == [op |-> "resume", t |-> t]
Suspend(t)     == [op |-> "suspend", t |-> t]
Joined(t)      == [op |-> "join", t |-> t]
UnlockAll(t)   == [op |-> "unlockAll", t |-> t]
Wakeup(q, w)   == [op |-> "wakeup", q |-> q, woke |-> w]
Sleep(q)       == [op |-> "sleep", q |-> q]
Slept(q, t)    == [op |-> "slept", q |-> q, t |-> t]
Lock(m)        == [op |-> "lock", m |-> m]
Promote(o, p)  == [op |-> "promote", o |-> o, p |-> p]
Propagate(o)   == [op |-> "propagate", o |-> o]
Resched        == [op |-> "resched"]
Exited         == [op |-> "exited"]
Parked         == [op |-> "parked"]
Callback(r, d) == [op |-> "callback", retrace |-> r, deferred |-> d]

-----------------------------------------------------------------------------
(* Queue operations on the scheduler's state.                               *)

(* The queues, and the pending mask, after RemoveThreadFromQueue(t).        *)
QueueWithout(t) ==
    IF queueOf[t] = None THEN queue
    ELSE [queue EXCEPT ![queueOf[t]] = Unlinked(@, t)]

PendingStaysSet(t) == pending      \* mutant: no UpdatePendingMaskForQueue

PendingWithout(t) ==
    {p \in pending : queueOf[t] = RunQ(p) => QueueWithout(t)[RunQ(p)] # <<>>}

Removed(t) ==
    /\ queue' = QueueWithout(t)
    /\ pending' = PendingWithout(t)
    /\ queueOf' = [queueOf EXCEPT ![t] = None]

(* The queues after t leaves its queue and enters q as a thread of priority *)
(* p, as RemoveThreadFromQueue and InsertThreadIntoQueueByPriority do.      *)
Requeued(t, q, p) ==
    [QueueWithout(t) EXCEPT ![q] = InsertedByPriority(@, t, p, prio)]

(* The pending mask after t has moved to q: a run queue is marked pending.  *)
PendingMoved(t, q) == PendingWithout(t) \cup {p \in AnyPrio : q = RunQ(p)}

(* The pending mask once a thread is linked on the run queue of p.          *)
PendingWith(p) == pending \cup {p}

(* t, linked on no queue, becomes a linked READY thread of priority p.      *)
MadeReady(t, p) ==
    /\ state' = [state EXCEPT ![t] = "READY"]
    /\ prio' = [prio EXCEPT ![t] = p]
    /\ queue' = [queue EXCEPT ![RunQ(p)] = InsertedByPriority(@, t, p, prio)]
    /\ queueOf' = [queueOf EXCEPT ![t] = RunQ(p)]
    /\ pending' = PendingWith(p)
    /\ resched' = TRUE

(* ComputeThreadEffectivePriority over the mutexes ms of t.                 *)
PriorityFromCurrent(t, ms) ==      \* mutant: starts from the current priority
    Best({prio[t]} \cup {prio[Head(queue[MutexQ(m)])] :
                            m \in {n \in ms : queue[MutexQ(n)] # <<>>}})

EffectivePriority(t, ms) ==
    Best({base[t]} \cup {prio[Head(queue[MutexQ(m)])] :
                            m \in {n \in ms : queue[MutexQ(n)] # <<>>}})

OwnerOf(m) == IF m = None THEN None ELSE owner[m]

(* SetThreadEffectivePriority: the thread moves within its queue, and the   *)
(* caller goes on with the owner of the mutex it waits for.                 *)
SetThreadEffectivePriority(t, p) ==
    CASE state[t] = "READY" ->
            /\ queue' = Requeued(t, RunQ(p), p)
            /\ pending' = PendingMoved(t, RunQ(p))
            /\ queueOf' = [queueOf EXCEPT ![t] = RunQ(p)]
            /\ prio' = [prio EXCEPT ![t] = p]
            /\ resched' = TRUE
      [] state[t] = "RUNNING" ->
            /\ prio' = [prio EXCEPT ![t] = p]
            /\ resched' = TRUE
            /\ UNCHANGED <<queue, pending, queueOf>>
      [] state[t] = "WAITING" ->
            /\ IF queueOf[t] = None
               THEN UNCHANGED <<queue, pending>>
               ELSE /\ queue' = Requeued(t, queueOf[t], p)
                    /\ pending' = PendingMoved(t, queueOf[t])
            /\ prio' = [prio EXCEPT ![t] = p]
            /\ UNCHANGED <<queueOf, resched>>
      [] OTHER -> UNCHANGED <<queue, pending, queueOf, prio, resched>>

NoNextOwner(t) == None             \* mutant: inheritance stops at one owner

NextOwner(t) == IF state[t] = "WAITING" THEN OwnerOf(wants[t]) ELSE None

-----------------------------------------------------------------------------
(* SelectThread.                                                            *)

TopPending == IF pending = {} THEN SuspendedWaitPriority ELSE Best(pending)

(* The checks that make SelectThread return without switching.              *)
MayNotSwitchNested == disable >= 1 \/ current = None   \* mutant: no context check

MayNotSwitch == disable >= 1 \/ current # running \/ current = None

KeepsRunning(force) ==
    /\ running # None
    /\ state[running] = "RUNNING"
    /\ ~force
    /\ prio[running] <= TopPending

(* From the checks to the choice of a thread: return, put the preempted     *)
(* thread at the tail of its run queue, or find nothing and go idle.        *)
SelectBody(force, k) ==
    IF MayNotSwitch \/ KeepsRunning(force)
    THEN /\ Become(<<>>, k)
         /\ UNCHANGED <<state, queueOf, queue, pending, resched, running, current>>
    ELSE IF running # None /\ state[running] = "RUNNING"
    THEN /\ state' = [state EXCEPT ![running] = "READY"]
         /\ queue' = [queue EXCEPT ![RunQ(prio[running])] = Append(@, running)]
         /\ queueOf' = [queueOf EXCEPT ![running] = RunQ(prio[running])]
         /\ pending' = PendingWith(prio[running])
         /\ resched' = TRUE
         /\ Become(<<Dispatch>>, k)
         /\ UNCHANGED <<running, current>>
    ELSE IF pending # {}
    THEN /\ Become(<<Dispatch>>, k)
         /\ UNCHANGED <<state, queueOf, queue, pending, resched, running, current>>
    ELSE /\ running' = None
         /\ current' = Idle
         /\ Become(<<IdleLoop("timers")>>, k)
         /\ UNCHANGED <<state, queueOf, queue, pending, resched>>

SelectThread ==
    /\ At("select") \/ At("body")
    /\ SelectBody(Top.force, Rest)
    /\ UNCHANGED <<suspend, prio, base, detached, wants, listed, mutexVars,
                   disable, timerVars, exec, inRetrace>>

(* SelectThread serves the sleep timers before anything else; D are the     *)
(* timers that are due, in any order, and scan says whether the reconciler  *)
(* is due as well.                                                          *)
SelectThreadFirstTimers ==
    /\ At("select")
    /\ \E D \in SUBSET timer, scan \in BOOLEAN :
          /\ D # {} \/ (scan /\ outstanding \cup seen # {})
          /\ timer' = timer \ D
          /\ Become(<<Timers(D, scan), Body(Top.force)>>, Rest)
    /\ UNCHANGED <<threadVars, mutexVars, schedVars, outstanding, seen, exec, inRetrace>>

(* The choice: the head of the run queue of the best pending priority.  A   *)
(* pending bit without a thread is cleared, a terminated head is unlinked,  *)
(* and the search starts over.  Otherwise the thread runs and its fiber     *)
(* takes over; the fiber switched away has returned from SelectThread when  *)
(* it executes again.                                                       *)
DispatchThread ==
    /\ At("dispatch")
    /\ IF pending = {}
       THEN /\ Become(<<>>, Rest)
            /\ resched' = FALSE
            /\ UNCHANGED <<state, queue, pending, queueOf, running, current, exec>>
       ELSE LET p == Best(pending)
                q == queue[RunQ(p)]
                next == Head(q)
            IN  IF q = <<>>
                THEN /\ pending' = pending \ {p}
                     /\ resched' = FALSE
                     /\ UNCHANGED <<state, queue, queueOf, running, current, exec, stack>>
                ELSE IF state[next] \in Terminated
                THEN /\ Removed(next)
                     /\ resched' = FALSE
                     /\ UNCHANGED <<state, running, current, exec, stack>>
                ELSE /\ resched' = FALSE
                     /\ queue' = [queue EXCEPT ![RunQ(p)] = Tail(@)]
                     /\ pending' = IF Tail(q) = <<>> THEN pending \ {p} ELSE pending
                     /\ queueOf' = [queueOf EXCEPT ![next] = None]
                     /\ state' = [state EXCEPT ![next] = "RUNNING"]
                     /\ running' = next
                     /\ current' = next
                     /\ exec' = next
                     /\ Become(<<>>, Rest)
    /\ UNCHANGED <<suspend, prio, base, detached, wants, listed, mutexVars,
                   disable, timerVars, inRetrace>>

-----------------------------------------------------------------------------
(* The idle loop: while no priority is pending, a pass serves the sleep     *)
(* timers, the audio DMA and the display retrace, and tests the pending     *)
(* mask only when the pass is complete.                                     *)

IdleTimers ==
    /\ At("idle") /\ Top.at = "timers"
    /\ \E D \in SUBSET timer, scan \in BOOLEAN :
          /\ timer' = timer \ D
          /\ Become(IF D = {} /\ ~scan THEN <<IdleLoop("audio")>>
                    ELSE <<Timers(D, scan), IdleLoop("audio")>>, Rest)
    /\ UNCHANGED <<threadVars, mutexVars, schedVars, outstanding, seen, exec, inRetrace>>

IdleAudioBreaks ==                 \* mutant: leaves the pass after an audio block
    /\ At("idle") /\ Top.at = "audio"
    /\ \E block \in BOOLEAN :
          Become(IF block THEN <<Callback(FALSE, FALSE), IdleLoop("check")>>
                          ELSE <<IdleLoop("retrace")>>, Rest)
    /\ UNCHANGED <<threadVars, mutexVars, schedVars, timerVars, exec, inRetrace>>

IdleAudio ==
    /\ At("idle") /\ Top.at = "audio"
    /\ \E block \in BOOLEAN :
          Become(IF block THEN <<Callback(FALSE, FALSE), IdleLoop("retrace")>>
                          ELSE <<IdleLoop("retrace")>>, Rest)
    /\ UNCHANGED <<threadVars, mutexVars, schedVars, timerVars, exec, inRetrace>>

(* AdvanceRetrace wakes the retrace queue, then runs the game's callbacks.  *)
RetraceFrames == <<Wakeup(EventQ(Retrace), FALSE), Callback(TRUE, FALSE)>>

IdleRetrace ==
    /\ At("idle") /\ Top.at = "retrace"
    /\ ~inRetrace
    /\ inRetrace' = TRUE
    /\ Become(RetraceFrames \o <<IdleLoop("check")>>, Rest)
    /\ UNCHANGED <<threadVars, mutexVars, schedVars, timerVars, exec>>

IdleNoRetrace ==
    /\ At("idle") /\ Top.at = "retrace"
    /\ Become(<<IdleLoop("check")>>, Rest)
    /\ UNCHANGED <<threadVars, mutexVars, schedVars, timerVars, exec, inRetrace>>

IdleCheck ==
    /\ At("idle") /\ Top.at = "check"
    /\ Become(IF pending = {} THEN <<IdleLoop("timers")>> ELSE <<Dispatch>>, Rest)
    /\ UNCHANGED <<threadVars, mutexVars, schedVars, timerVars, exec, inRetrace>>

-----------------------------------------------------------------------------
(* Sleep timers and the stranded-sleeper reconciler (ProcessSleepTimers).   *)

(* A sleep park leaves the thread READY with a suspension.                  *)
LooksSuspendedTwice(t) == state[t] = "READY" /\ suspend[t] > 1   \* mutant: off by one

LooksParked(t) == state[t] = "READY" /\ suspend[t] >= 1

(* A due timer whose thread is RUNNING is armed again; a parked thread is   *)
(* resumed; for any other shape the timer is dropped.                       *)
TimerFires ==
    /\ At("timers")
    /\ \E t \in Top.due :
          LET more == Timers(Top.due \ {t}, Top.scan)
          IN  IF state[t] = "RUNNING"
              THEN /\ timer' = timer \cup {t}
                   /\ Become(<<more>>, Rest)
                   /\ UNCHANGED outstanding
              ELSE /\ outstanding' = outstanding \ {t}
                   /\ Become(IF LooksParked(t)
                             THEN <<Resume(t), more>> ELSE <<more>>, Rest)
                   /\ UNCHANGED timer
    /\ UNCHANGED <<threadVars, mutexVars, schedVars, seen, exec, inRetrace>>

(* The parks without a timer that still look parked, and those that do not. *)
Stranded == {t \in outstanding \ timer : LooksParked(t)}
NotParked == (outstanding \ timer) \ Stranded

TimersDone ==
    /\ At("timers") /\ Top.due = {} /\ ~Top.scan
    /\ Become(<<>>, Rest)
    /\ UNCHANGED <<threadVars, mutexVars, schedVars, timerVars, exec, inRetrace>>

(* H are the stranded parks that were first seen 100 ms ago or earlier.     *)
Reconcile ==
    /\ At("timers") /\ Top.due = {} /\ Top.scan
    /\ \E H \in SUBSET (Stranded \cap seen) :
          /\ outstanding' = outstanding \ (NotParked \cup H)
          /\ seen' = Stranded \ H
          /\ Become(<<Heal(H)>>, Rest)
    /\ UNCHANGED <<threadVars, mutexVars, schedVars, timer, exec, inRetrace>>

HealSleeper ==
    /\ At("heal")
    /\ IF Top.lost = {} THEN Become(<<>>, Rest)
       ELSE \E t \in Top.lost : Become(<<Resume(t), Heal(Top.lost \ {t})>>, Rest)
    /\ UNCHANGED <<threadVars, mutexVars, schedVars, timerVars, exec, inRetrace>>

-----------------------------------------------------------------------------
(* Wait queues.  k is what the fiber goes on with after the call.           *)

(* OSSleepThread.  With no running thread the default thread is taken.      *)
OSSleepThread(q, k) ==
    LET t == IF running = None THEN Main ELSE running
        c == IF running = None THEN Main ELSE current
    IN  /\ running' = t
        /\ current' = c
        /\ IF disable # 0
           THEN /\ Become(<<>>, k)
                /\ UNCHANGED <<state, queueOf, queue, resched>>
           ELSE /\ state' = [state EXCEPT ![t] = "WAITING"]
                /\ queueOf' = [queueOf EXCEPT ![t] = q]
                /\ queue' = [queue EXCEPT ![q] = InsertedByPriority(@, t, prio[t], prio)]
                /\ resched' = TRUE
                /\ Become(<<Select(FALSE), Slept(q, t)>>, k)
        /\ UNCHANGED <<suspend, prio, base, detached, wants, listed, mutexVars,
                       pending, disable, timerVars, exec, inRetrace>>

SleepCall == At("sleep") /\ OSSleepThread(Top.q, Rest)

(* After SelectThread: a thread that is still linked was never switched     *)
(* away, and its wait is undone.                                            *)
SleepReturns ==
    /\ At("slept")
    /\ Become(<<>>, Rest)
    /\ IF state[Top.t] = "WAITING" /\ queueOf[Top.t] = Top.q
       THEN /\ queue' = [queue EXCEPT ![Top.q] = Unlinked(@, Top.t)]
            /\ queueOf' = [queueOf EXCEPT ![Top.t] = None]
            /\ state' = [state EXCEPT ![Top.t] = "RUNNING"]
       ELSE UNCHANGED <<queue, queueOf, state>>
    /\ UNCHANGED <<suspend, prio, base, detached, wants, listed, mutexVars, pending,
                   resched, running, current, disable, timerVars, exec, inRetrace>>

(* A woken thread that is suspended stays off the run queues.               *)
RunsSuspended(t) == TRUE           \* mutant: suspension ignored on wakeup

RunsWhenWoken(t) == suspend[t] < 1

(* One round of OSWakeupThread's loop: the head of the queue is unlinked    *)
(* and, unless it is suspended, linked on the run queue of its priority.    *)
WakeHead ==
    /\ At("wakeup") /\ queue[Top.q] # <<>>
    /\ LET t == Head(queue[Top.q])
           p == IF prio[t] > LowestPrio THEN LowestPrio ELSE prio[t]
           left == [queue EXCEPT ![Top.q] = Tail(@)]
       IN  IF state[t] \in Terminated
           THEN /\ queue' = left
                /\ queueOf' = [queueOf EXCEPT ![t] = None]
                /\ UNCHANGED <<state, pending, resched, stack>>
           ELSE /\ state' = [state EXCEPT ![t] = "READY"]
                /\ IF RunsWhenWoken(t)
                   THEN /\ queue' = [left EXCEPT ![RunQ(p)] = Append(@, t)]
                        /\ queueOf' = [queueOf EXCEPT ![t] = RunQ(p)]
                        /\ pending' = PendingWith(p)
                        /\ resched' = TRUE
                        /\ Become(<<Wakeup(Top.q, TRUE)>>, Rest)
                   ELSE /\ queue' = left
                        /\ UNCHANGED <<queueOf, pending, resched, stack>>
    /\ UNCHANGED <<suspend, prio, base, detached, wants, listed, mutexVars,
                   running, current, disable, timerVars, exec, inRetrace>>

(* The queue is empty: reschedule if a thread was made runnable, but not    *)
(* under AdvanceRetrace.                                                    *)
WakeDone ==
    /\ At("wakeup") /\ queue[Top.q] = <<>>
    /\ Become(IF Top.woke /\ ~inRetrace THEN <<Select(FALSE)>> ELSE <<>>, Rest)
    /\ UNCHANGED <<threadVars, mutexVars, schedVars, timerVars, exec, inRetrace>>

-----------------------------------------------------------------------------
(* Thread life cycle.                                                       *)

OSCreateThread(t, p, d) ==
    /\ state' = [state EXCEPT ![t] = "READY"]
    /\ detached' = [detached EXCEPT ![t] = d]
    /\ base' = [base EXCEPT ![t] = p]
    /\ prio' = [prio EXCEPT ![t] = p]
    /\ suspend' = [suspend EXCEPT ![t] = 1]
    /\ wants' = [wants EXCEPT ![t] = None]
    /\ owned' = [owned EXCEPT ![t] = {}]
    /\ queue' = [queue EXCEPT ![JoinQ(t)] = <<>>]
    /\ listed' = listed \cup {t}
    /\ stack' = [stack EXCEPT ![t] = <<>>]
    /\ UNCHANGED <<queueOf, owner, count, pending, resched, running, current,
                   disable, timerVars, exec, inRetrace>>

(* The tail of OSSuspendThread, OSResumeThread and OSCancelThread.          *)
Reschedule ==
    /\ At("resched")
    /\ Become(IF resched THEN <<Select(FALSE)>> ELSE <<>>, Rest)
    /\ UNCHANGED <<threadVars, mutexVars, schedVars, timerVars, exec, inRetrace>>

(* The suspend count after a resume; it never goes below zero.              *)
ResumedNoFloor(n) == n - 1         \* mutant: an extra resume underflows

Resumed(n) == IF n = 0 THEN 0 ELSE n - 1

OSResumeThread(t, k) ==
    /\ suspend' = [suspend EXCEPT ![t] = Resumed(@)]
    /\ IF suspend[t] # 1
       THEN /\ Become(<<>>, k)
            /\ UNCHANGED <<state, prio, queueOf, queue, pending, resched, timer, outstanding>>
       ELSE LET p == EffectivePriority(t, owned[t])
            IN  /\ timer' = timer \ {t}
                /\ outstanding' = outstanding \ {t}
                /\ CASE state[t] = "WAITING" ->
                          /\ prio' = [prio EXCEPT ![t] = p]
                          /\ IF queueOf[t] = None
                             THEN UNCHANGED <<queue, pending>>
                             ELSE /\ queue' = Requeued(t, queueOf[t], p)
                                  /\ pending' = PendingMoved(t, queueOf[t])
                          /\ Become(<<Propagate(OwnerOf(wants[t])), Resched>>, k)
                          /\ UNCHANGED <<state, queueOf, resched>>
                     [] state[t] \in {"READY", "RUNNING"} ->
                          /\ MadeReady(t, p)
                          /\ Become(<<Resched>>, k)
                     [] OTHER ->
                          /\ Become(<<Resched>>, k)
                          /\ UNCHANGED <<state, prio, queueOf, queue, pending, resched>>
    /\ UNCHANGED <<base, detached, wants, listed, mutexVars, running, current,
                   disable, seen, exec, inRetrace>>

ResumeCall == At("resume") /\ OSResumeThread(Top.t, Rest)

OSSuspendThread(t, k) ==
    /\ suspend' = [suspend EXCEPT ![t] = @ + 1]
    /\ IF suspend[t] # 0
       THEN /\ Become(<<>>, k)
            /\ UNCHANGED <<state, prio, queueOf, queue, pending, resched>>
       ELSE CASE state[t] = "READY" ->
                   /\ Removed(t)
                   /\ Become(<<Resched>>, k)
                   /\ UNCHANGED <<state, prio, resched>>
              [] state[t] = "RUNNING" ->
                   /\ resched' = TRUE
                   /\ state' = [state EXCEPT ![t] = "READY"]
                   /\ Become(<<Resched>>, k)
                   /\ UNCHANGED <<prio, queueOf, queue, pending>>
              [] state[t] = "WAITING" ->
                   /\ prio' = [prio EXCEPT ![t] = SuspendedWaitPriority]
                   /\ IF queueOf[t] = None
                      THEN UNCHANGED <<queue, pending>>
                      ELSE /\ queue' = Requeued(t, queueOf[t], SuspendedWaitPriority)
                           /\ pending' = PendingMoved(t, queueOf[t])
                   /\ Become(<<Propagate(OwnerOf(wants[t])), Resched>>, k)
                   /\ UNCHANGED <<state, queueOf, resched>>
              [] OTHER ->
                   /\ Become(<<Resched>>, k)
                   /\ UNCHANGED <<state, prio, queueOf, queue, pending, resched>>
    /\ UNCHANGED <<base, detached, wants, listed, mutexVars, running, current,
                   disable, timerVars, exec, inRetrace>>

SuspendCall == At("suspend") /\ OSSuspendThread(Top.t, Rest)

(* TerminateThreadCommon up to its first call: a detached thread leaves the *)
(* thread list.                                                             *)
Terminate(t) ==
    /\ state' = [state EXCEPT ![t] = IF detached[t] THEN "NONE" ELSE "MORIBUND"]
    /\ listed' = IF detached[t] THEN listed \ {t} ELSE listed

(* Its calls: the mutexes of t are unlocked, then its joiners are woken.    *)
TerminateForgetsJoiners(t) == <<UnlockAll(t)>>    \* mutant: joiners not woken

TerminateCalls(t) == <<UnlockAll(t), Wakeup(JoinQ(t), FALSE)>>

OSExitThread(k) ==
    /\ Terminate(running)
    /\ Become(TerminateCalls(running) \o <<Exited>>, k)
    /\ UNCHANGED <<suspend, prio, base, detached, queueOf, wants, mutexVars,
                   schedVars, timerVars, exec, inRetrace>>

ExitReschedules ==
    /\ At("exited")
    /\ resched' = TRUE
    /\ Become(<<Select(FALSE)>>, Rest)
    /\ UNCHANGED <<threadVars, mutexVars, queue, pending, running, current, disable,
                   timerVars, exec, inRetrace>>

(* A thread that is cancelled while it is linked must be unlinked.          *)
CancelUnlinksReady(t) == state[t] = "READY" /\ suspend[t] < 1   \* mutant: WAITING forgotten

CancelUnlinks(t) == state[t] = "WAITING" \/ (state[t] = "READY" /\ suspend[t] < 1)

OSCancelThread(t, k) ==
    /\ state[t] \in {"READY", "RUNNING", "WAITING"}
    /\ Terminate(t)
    /\ IF CancelUnlinks(t)
       THEN Removed(t)
       ELSE UNCHANGED <<queue, pending, queueOf>>
    /\ resched' = (resched \/ state[t] = "RUNNING")
    /\ Become(TerminateCalls(t) \o <<Resched>>, k)
    /\ UNCHANGED <<suspend, prio, base, detached, wants, mutexVars, running, current,
                   disable, timerVars, exec, inRetrace>>

(* What frees a mutex wakes its waiters.                                    *)
WaitersForgotten(m) == <<>>        \* mutant: unlocking wakes nobody

WakeWaiters(m) == <<Wakeup(MutexQ(m), FALSE)>>

(* __OSUnlockAllMutex, guest code: every owned mutex is freed and its       *)
(* waiters are woken, one mutex after the other.                            *)
UnlockAllMutexes ==
    /\ At("unlockAll")
    /\ IF owned[Top.t] = {}
       THEN /\ Become(<<>>, Rest)
            /\ UNCHANGED mutexVars
       ELSE \E m \in owned[Top.t] :
               /\ owned' = [owned EXCEPT ![Top.t] = @ \ {m}]
               /\ owner' = [owner EXCEPT ![m] = None]
               /\ count' = [count EXCEPT ![m] = 0]
               /\ Become(WakeWaiters(m) \o <<Top>>, Rest)
    /\ UNCHANGED <<threadVars, schedVars, timerVars, exec, inRetrace>>

(* A MORIBUND thread is reaped by the thread that joins it.                 *)
Reaped(t) ==
    IF state[t] = "MORIBUND"
    THEN /\ listed' = listed \ {t}
         /\ state' = [state EXCEPT ![t] = "NONE"]
    ELSE UNCHANGED <<listed, state>>

OSJoinThread(t, k) ==
    /\ IF ~detached[t] /\ state[t] # "MORIBUND" /\ queue[JoinQ(t)] = <<>>
       THEN /\ Become(<<Sleep(JoinQ(t)), Joined(t)>>, k)
            /\ UNCHANGED <<listed, state>>
       ELSE /\ Become(<<>>, k)
            /\ Reaped(t)
    /\ UNCHANGED <<suspend, prio, base, detached, queueOf, wants, mutexVars,
                   schedVars, timerVars, exec, inRetrace>>

JoinReturns ==
    /\ At("join")
    /\ Reaped(Top.t)
    /\ Become(<<>>, Rest)
    /\ UNCHANGED <<suspend, prio, base, detached, queueOf, wants, mutexVars,
                   schedVars, timerVars, exec, inRetrace>>

OSDetachThread(t, k) ==
    /\ detached' = [detached EXCEPT ![t] = TRUE]
    /\ Reaped(t)
    /\ Become(<<Wakeup(JoinQ(t), FALSE)>>, k)
    /\ UNCHANGED <<suspend, prio, base, queueOf, wants, mutexVars,
                   schedVars, timerVars, exec, inRetrace>>

(* OSSleepTicks arms the timer before it suspends its own thread.           *)
OSSleepTicks(k) ==
    /\ running # None
    /\ IF disable # 0 \/ (current # None /\ current # running)
       THEN /\ Become(<<>>, k)
            /\ UNCHANGED <<timer, outstanding>>
       ELSE /\ timer' = timer \cup {running}
            /\ outstanding' = outstanding \cup {running}
            /\ Become(<<Suspend(running), Parked>>, k)
    /\ UNCHANGED <<threadVars, mutexVars, schedVars, seen, exec, inRetrace>>

(* A sleeper that is still suspended was never switched away: its timer and *)
(* its suspension are taken back.                                           *)
ParkReturns ==
    /\ At("parked")
    /\ Become(<<>>, Rest)
    /\ IF suspend[exec] > 0
       THEN /\ timer' = timer \ {exec}
            /\ outstanding' = outstanding \ {exec}
            /\ suspend' = [suspend EXCEPT ![exec] = @ - 1]
            /\ state' = IF suspend[exec] = 1 /\ state[exec] = "READY" /\ queueOf[exec] = None
                        THEN [state EXCEPT ![exec] = "RUNNING"]
                        ELSE state
       ELSE UNCHANGED <<timer, outstanding, suspend, state>>
    /\ UNCHANGED <<prio, base, detached, queueOf, wants, listed, mutexVars,
                   schedVars, seen, exec, inRetrace>>

-----------------------------------------------------------------------------
(* Mutexes and priority inheritance.                                        *)

(* One round of OSLockMutex: take a free mutex, nest, or give the owner the *)
(* caller's priority and sleep; lock tries again after the sleep.           *)
OSLockMutex(m, k) ==
    /\ IF running = None
       THEN /\ Become(<<>>, k)
            /\ UNCHANGED <<owner, count, owned, wants>>
       ELSE IF owner[m] \in {None, running}
       THEN /\ owner' = [owner EXCEPT ![m] = running]
            /\ count' = [count EXCEPT ![m] = @ + 1]
            /\ owned' = IF owner[m] = None
                        THEN [owned EXCEPT ![running] = @ \cup {m}]
                        ELSE owned
            /\ wants' = [wants EXCEPT ![running] = None]
            /\ Become(<<>>, k)
       ELSE /\ wants' = [wants EXCEPT ![running] = m]
            /\ Become(<<Promote(owner[m], prio[running]), Sleep(MutexQ(m)), Lock(m)>>, k)
            /\ UNCHANGED <<owner, count, owned>>
    /\ UNCHANGED <<state, suspend, prio, base, detached, queueOf, listed,
                   schedVars, timerVars, exec, inRetrace>>

LockRetry == At("lock") /\ OSLockMutex(Top.m, Rest)

(* One round of PromoteThreadPriority.                                      *)
PromoteStep ==
    /\ At("promote")
    /\ IF Top.o = None \/ suspend[Top.o] > 0 \/ prio[Top.o] <= Top.p
       THEN /\ Become(<<>>, Rest)
            /\ UNCHANGED <<queue, pending, queueOf, prio, resched>>
       ELSE /\ SetThreadEffectivePriority(Top.o, Top.p)
            /\ Become(<<Promote(NextOwner(Top.o), Top.p)>>, Rest)
    /\ UNCHANGED <<state, suspend, base, detached, wants, listed, mutexVars,
                   running, current, disable, timerVars, exec, inRetrace>>

(* One round of PropagateMutexOwnerPriority.                                *)
PropagateStep ==
    /\ At("propagate")
    /\ LET o == Top.o
           p == EffectivePriority(o, owned[o])
       IN  IF o = None \/ suspend[o] >= 1 \/ prio[o] = p
           THEN /\ Become(<<>>, Rest)
                /\ UNCHANGED <<queue, pending, queueOf, prio, resched>>
           ELSE /\ SetThreadEffectivePriority(o, p)
                /\ Become(<<Propagate(NextOwner(o))>>, Rest)
    /\ UNCHANGED <<state, suspend, base, detached, wants, listed, mutexVars,
                   running, current, disable, timerVars, exec, inRetrace>>

AnyoneUnlocks(m) == running # None    \* mutant: the owner is not checked

MayUnlock(m) == running # None /\ owner[m] = running

(* OSUnlockMutex: only the owner counts down; the last unlock gives up an   *)
(* inherited priority and wakes every waiter.                               *)
OSUnlockMutex(m, k) ==
    /\ IF ~MayUnlock(m)
       THEN /\ Become(<<>>, k)
            /\ UNCHANGED <<owner, count, owned, prio>>
       ELSE /\ count' = [count EXCEPT ![m] = @ - 1]
            /\ IF count[m] # 1
               THEN /\ Become(<<>>, k)
                    /\ UNCHANGED <<owner, owned, prio>>
               ELSE /\ owner' = [owner EXCEPT ![m] = None]
                    /\ owned' = [owned EXCEPT ![running] = @ \ {m}]
                    /\ prio' = IF prio[running] < base[running]
                               THEN [prio EXCEPT ![running] =
                                        EffectivePriority(running, owned[running] \ {m})]
                               ELSE prio
                    /\ Become(WakeWaiters(m), k)
    /\ UNCHANGED <<state, suspend, base, detached, queueOf, wants, listed,
                   schedVars, timerVars, exec, inRetrace>>

-----------------------------------------------------------------------------
(* The guest program and its callbacks.                                     *)

Alive == {t \in Thread : state[t] # "NONE"}

NotStarted(t) == t # exec /\ stack[t] = <<>> /\ suspend[t] > 0

(* A structure is used for a new thread when the old one is gone.           *)
GuestCreates ==
    /\ GuestCode /\ "create" \in Calls
    /\ \E t \in Thread \ Alive, p \in Prio, d \in BOOLEAN :
          /\ d => "detach" \in Calls
          /\ OSCreateThread(t, p, d)

GuestResumes ==
    /\ GuestCode
    /\ \E t \in Alive :
          /\ "resume" \in Calls \/ ("start" \in Calls /\ NotStarted(t))
          /\ OSResumeThread(t, <<>>)

GuestSuspends ==
    /\ GuestCode /\ "suspend" \in Calls
    /\ \E t \in Alive : suspend[t] < MaxSuspend /\ OSSuspendThread(t, <<>>)

GuestSleeps ==
    /\ GuestCode /\ "sleep" \in Calls
    /\ \E e \in Event : OSSleepThread(EventQ(e), <<>>)

GuestWakes ==
    /\ GuestCode /\ "wake" \in Calls
    /\ \E e \in Event : Become(<<Wakeup(EventQ(e), FALSE)>>, <<>>)
    /\ UNCHANGED <<threadVars, mutexVars, schedVars, timerVars, exec, inRetrace>>

GuestYields ==
    /\ GuestCode /\ "yield" \in Calls
    /\ Become(<<Select(TRUE)>>, <<>>)
    /\ UNCHANGED <<threadVars, mutexVars, schedVars, timerVars, exec, inRetrace>>

GuestLocks ==
    /\ GuestCode /\ "mutex" \in Calls
    /\ \E m \in Mutex :
          /\ owner[m] = running => count[m] < MaxCount
          /\ OSLockMutex(m, <<>>)

GuestUnlocks ==
    /\ GuestCode /\ "mutex" \in Calls
    /\ \E m \in Mutex : OSUnlockMutex(m, <<>>)

GuestExits ==
    /\ GuestCode /\ "exit" \in Calls
    /\ running # None
    /\ OSExitThread(<<>>)

GuestCancels ==
    /\ GuestCode /\ "cancel" \in Calls
    /\ \E t \in Thread : OSCancelThread(t, <<>>)

GuestJoins ==
    /\ GuestCode /\ "join" \in Calls
    /\ \E t \in Alive \ {exec} : OSJoinThread(t, <<>>)

GuestDetaches ==
    /\ GuestCode /\ "detach" \in Calls
    /\ \E t \in Alive : OSDetachThread(t, <<>>)

GuestSleepsTicks ==
    /\ GuestCode /\ "ticks" \in Calls
    /\ OSSleepTicks(<<>>)

(* The runtime interrupts guest code: a VI query polls the retrace, a long  *)
(* host wait delivers audio and retrace callbacks with the scheduler        *)
(* disabled.                                                                *)
GuestPollsRetrace ==
    /\ GuestCode /\ "poll" \in Calls
    /\ ~inRetrace
    /\ inRetrace' = TRUE
    /\ Become(RetraceFrames, <<>>)
    /\ UNCHANGED <<threadVars, mutexVars, schedVars, timerVars, exec>>

DeferredRetrace ==
    /\ GuestCode /\ "defer" \in Calls
    /\ ~inRetrace
    /\ inRetrace' = TRUE
    /\ disable' = disable + 1
    /\ Become(<<Wakeup(EventQ(Retrace), FALSE), Callback(TRUE, TRUE)>>, <<>>)
    /\ UNCHANGED <<threadVars, mutexVars, queue, pending, resched, running, current,
                   timerVars, exec>>

DeferredAudio ==
    /\ GuestCode /\ "defer" \in Calls
    /\ disable' = disable + 1
    /\ Become(<<Callback(FALSE, TRUE)>>, <<>>)
    /\ UNCHANGED <<threadVars, mutexVars, queue, pending, resched, running, current,
                   timerVars, exec, inRetrace>>

(* A callback wakes queues and resumes threads; it does not block.          *)
CallbackWakes ==
    /\ CallbackCode
    /\ \E e \in Event : Become(<<Wakeup(EventQ(e), FALSE)>>, stack[exec])
    /\ UNCHANGED <<threadVars, mutexVars, schedVars, timerVars, exec, inRetrace>>

CallbackResumes ==
    /\ CallbackCode /\ "resume" \in Calls
    /\ \E t \in Alive : OSResumeThread(t, stack[exec])

CallbackReturns ==
    /\ CallbackCode
    /\ inRetrace' = (inRetrace /\ ~Top.retrace)
    /\ disable' = IF Top.deferred /\ disable > 0 THEN disable - 1 ELSE disable
    /\ Become(<<>>, Rest)
    /\ UNCHANGED <<threadVars, mutexVars, queue, pending, resched, running, current,
                   timerVars, exec>>

-----------------------------------------------------------------------------
(* What the runtime does on its own: every step inside a call, and a pass   *)
(* of the idle loop.                                                        *)
Continue ==
    \/ SelectThread \/ SelectThreadFirstTimers \/ DispatchThread
    \/ TimerFires \/ TimersDone \/ Reconcile \/ HealSleeper
    \/ SleepCall \/ SleepReturns \/ WakeHead \/ WakeDone
    \/ Reschedule \/ ResumeCall \/ SuspendCall
    \/ ExitReschedules \/ UnlockAllMutexes \/ JoinReturns \/ ParkReturns
    \/ LockRetry \/ PromoteStep \/ PropagateStep

IdlePass == IdleTimers \/ IdleAudio \/ IdleRetrace \/ IdleNoRetrace \/ IdleCheck

CallbackStep == CallbackWakes \/ CallbackResumes \/ CallbackReturns

GuestStep ==
    \/ GuestCreates \/ GuestResumes \/ GuestSuspends \/ GuestSleeps \/ GuestWakes
    \/ GuestYields \/ GuestLocks \/ GuestUnlocks \/ GuestExits \/ GuestCancels
    \/ GuestJoins \/ GuestDetaches \/ GuestSleepsTicks
    \/ GuestPollsRetrace \/ DeferredRetrace \/ DeferredAudio

Next == Continue \/ IdlePass \/ CallbackStep \/ GuestStep

Spec == Init /\ [][Next]_vars

-----------------------------------------------------------------------------
(* Safety.                                                                  *)

(* No call is half done on the executing fiber.                             *)
Settled == GuestCode \/ CallbackCode \/ At("idle")

Linked(q) == {queue[q][i] : i \in DOMAIN queue[q]}

(* The pending mask has exactly the bits of the run queues that hold a      *)
(* thread: the "pending bit set but no thread in queue" error of            *)
(* SelectThread cannot occur, and no runnable thread is invisible to it.    *)
PendingExact == pending = {p \in AnyPrio : queue[RunQ(p)] # <<>>}

(* kSuspendedWaitPriority, the priority of a suspended waiter, never        *)
(* indexes the array of run queues, which ends right before it, nor the 32  *)
(* bits of the pending mask.                                                *)
InRunQueueArray == queue[RunQ(SuspendedWaitPriority)] = <<>> /\ pending \subseteq Prio

(* A thread is linked on at most one queue, at most once, and its queue     *)
(* pointer names that queue, so RemoveThreadFromQueue, which trusts the     *)
(* pointer, never unlinks a node from a list it is not on.                  *)
LinkedOnce ==
    \A q \in Queue : \A i, j \in DOMAIN queue[q] :
        /\ queueOf[queue[q][i]] = q
        /\ queue[q][i] = queue[q][j] => i = j

(* No thread is lost: a thread that may run is linked on the run queue of   *)
(* its priority, a waiting one on the queue it waits for, and the run       *)
(* queues hold nothing else.                                                *)
NoLostThread ==
    /\ \A t \in Thread :
          /\ state[t] = "READY" /\ suspend[t] = 0 => t \in Linked(RunQ(prio[t]))
          /\ state[t] = "WAITING" => queueOf[t] \in Queue \ RunQueue /\ t \in Linked(queueOf[t])
    /\ \A p \in Prio : \A t \in Linked(RunQ(p)) :
          state[t] = "READY" /\ suspend[t] = 0 /\ prio[t] = p

(* Guest code executes only on the fiber of the one RUNNING thread, which   *)
(* both context words name and which nobody has suspended.                  *)
GuestRunsAsRunning ==
    /\ GuestCode => /\ running = exec /\ current = exec
                    /\ state[exec] = "RUNNING" /\ suspend[exec] = 0
    /\ \A t \in Thread : state[t] = "RUNNING" => t = exec

\* A listed mutex is owned by the thread that lists it, and locked.
MutexAgreement ==
    \A m \in Mutex :
        /\ \A t \in Thread : m \in owned[t] => owner[m] = t
        /\ count[m] = 0 <=> owner[m] = None

(* The owner word, the lock count and the owner's list of mutexes agree in  *)
(* both directions, whatever order lock, unlock, cancel and exit come in,   *)
(* also for mutexes locked twice or waited for (OSLockMutex, OSUnlockMutex, *)
(* TerminateThreadCommon).                                                  *)
MutexOwnership ==
    MutexAgreement /\ \A m \in Mutex : owner[m] # None => m \in owned[owner[m]]

(* A free mutex has nobody asleep on it: OSUnlockMutex, OSCancelThread and  *)
(* the retry after OSSleepThread lose no wakeup.                            *)
NoForgottenWaiter ==
    Settled => \A m \in Mutex : owner[m] = None => queue[MutexQ(m)] = <<>>

(* Priority inheritance: a live owner that nobody suspended runs at the     *)
(* priority of its best waiter or better, across nested mutexes,            *)
(* suspensions and resumptions of the threads in between.                   *)
NoInversion ==
    Settled => \A m \in Mutex : \A w \in Linked(MutexQ(m)) :
                   /\ owner[m] # None
                   /\ suspend[owner[m]] = 0 /\ state[owner[m]] \notin Terminated
                   => prio[owner[m]] <= prio[w]

(* Nobody sleeps on the join queue of a thread that has ended, whichever of *)
(* exit, cancellation and detachment raced the join.                        *)
JoinersReleased ==
    Settled => \A t \in Thread : state[t] \in Terminated => queue[JoinQ(t)] = <<>>

(* A thread that ends leaves nothing behind: its joiners are awake and its  *)
(* mutexes are free ("wakes joiners/mutex waiters", os_thread.cpp).         *)
TerminationComplete ==
    JoinersReleased
    /\ (Settled => \A t \in Thread : state[t] \in Terminated => owned[t] = {})

(* A timer or the reconciler resumes a thread only out of the park it was   *)
(* armed for: the thread is still inside OSSleepTicks, and not in a newer   *)
(* park with a timer of its own ("nothing outside this set is ever          *)
(* force-started", and "Any other shape means the sleeper already woke;     *)
(* drop the stale timer", os_sleep.cpp 64-66, 124-127).                     *)
WakesItsOwnPark ==
    At("resume") =>
        /\ \E i \in DOMAIN stack[Top.t] : stack[Top.t][i] = Parked
        /\ Top.t \notin timer

(* Some living thread is in the middle of resuming the stranded sleepers    *)
(* that the reconciler has taken off the outstanding parks, t among them.   *)
BeingHealed(t) ==
    \E u \in Thread : /\ state[u] \notin Terminated
                      /\ \E i \in DOMAIN stack[u] :
                            stack[u][i].op = "heal" /\ t \in stack[u][i].lost

(* Whatever a timer race does, a thread asleep in OSSleepTicks still has an *)
(* armed timer, an entry the reconciler looks at, or a thread that has      *)
(* undertaken to resume it.                                                 *)
SleeperHasWakeup ==
    Settled => \A t \in Thread :
        (/\ state[t] = "READY" /\ suspend[t] = 1
         /\ \E i \in DOMAIN stack[t] : stack[t][i] = Parked)
        => t \in timer \cup outstanding \/ BeingHealed(t)

(* The thread SelectThread gives the processor to is the best of all that   *)
(* are linked: no runnable thread is invisible to the pending mask.         *)
BestThreadRuns ==
    [][\A t \in Thread :
         state[t] = "READY" /\ state'[t] = "RUNNING" /\ ~At("parked")
         => \A p \in Prio : p < prio[t] => queue[RunQ(p)] = <<>>]_vars

Ahead(s, a, b) == \E i, j \in DOMAIN s : i < j /\ s[i] = a /\ s[j] = b

(* Threads of one priority take turns: whatever a thread goes through, it   *)
(* never gets ahead of one that was linked on the run queue before it.      *)
NoOvertaking ==
    [][\A p \in Prio : \A a, b \in Thread :
         /\ IsQueued(queue[RunQ(p)], b)
         /\ Ahead(queue'[RunQ(p)], a, b)
         => Ahead(queue[RunQ(p)], a, b)]_vars

-----------------------------------------------------------------------------
(* Liveness.                                                                *)

(* The host keeps executing the active fiber, callbacks return, and time    *)
(* passes: in the passes of the idle loop a retrace is due again and again, *)
(* an armed timer becomes due, and a stranded park gets 100 ms old.         *)
TimerDue(t)  == IdleTimers /\ t \in timer /\ t \notin timer'
ScanDue      == IdleTimers /\ Head(stack'[exec]) = Timers({}, TRUE)
HealDue(t)   == Reconcile /\ t \in seen /\ t \notin outstanding'

Fairness ==
    /\ WF_vars(Continue) /\ WF_vars(IdlePass)
    /\ SF_vars(CallbackReturns) /\ SF_vars(IdleRetrace) /\ SF_vars(ScanDue)
    /\ \A t \in Thread : SF_vars(TimerDue(t)) /\ SF_vars(HealDue(t))

FairSpec == Spec /\ Fairness

InIdleLoop == running = None

(* Audio blocks that complete in every pass cannot starve the display: if   *)
(* the processor keeps getting idle, a thread that waits for the retrace is *)
(* woken.                                                                   *)
RetraceNotStarved ==
    ([]<>InIdleLoop) =>
        \A t \in Thread : t \in Linked(EventQ(Retrace)) ~> t \notin Linked(EventQ(Retrace))

(* The processor does not stay idle over a thread that sleeps in            *)
(* OSSleepTicks, even when its timer was lost to a race.                    *)
SleeperWakes ==
    \A t \in Thread :
        (/\ InIdleLoop /\ state[t] = "READY" /\ suspend[t] = 1
         /\ \E i \in DOMAIN stack[t] : stack[t][i] = Parked)
        ~> ~InIdleLoop
=============================================================================
