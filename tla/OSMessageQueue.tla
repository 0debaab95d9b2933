--------------------------- MODULE OSMessageQueue ---------------------------
(* One OSMessageQueue and the guest threads that call it                    *)
(* (runtime/src/hle/os/os_message.cpp).                                     *)
(*                                                                          *)
(* Guest threads are cooperative fibers: MsgQueueOp is one step from a test *)
(* of the queue to the call that may switch, which is OSWakeupThread after  *)
(* the queue changed or OSSleepThread when it could not. A thread asleep is *)
(* in sendQueue or recvQueue; a thread whose call is open and which is in   *)
(* neither was woken and tests the queue again when it gets to run. Which   *)
(* of the woken threads runs first is the scheduler's business, here any.   *)
EXTENDS Naturals, FiniteSets, Sequences

CONSTANTS
    Thread,
    Message,
    Count,     \* msgCount: the slots of the array the game passes
    None

ASSUME CountAssumption == Count \in Nat

VARIABLES
    array, first, used,     \* the ring
    sendQueue, recvQueue,   \* the threads asleep on either thread queue
    call,                   \* the call each thread has open
    received,               \* what the last receive of each thread stored
    alive                   \* the threads not cancelled

ring  == <<array, first, used>>
vars  == <<ring, sendQueue, recvQueue, call, received, alive>>

Call == [op : {"send", "jam", "receive"}, msg : Message, block : BOOLEAN]
NoCall == [op |-> "none"]
IsReceive(c) == c.op = "receive"

Slot == 0 .. Count - 1

TypeOK ==
    /\ array \in [Slot -> Message]
    /\ first \in Nat /\ (Count > 0 => first < Count)
    /\ used \in 0 .. Count
    /\ sendQueue \subseteq alive /\ recvQueue \subseteq alive
    /\ call \in [Thread -> Call \cup {NoCall}]
    /\ received \in [Thread -> Message \cup {None}]
    /\ alive \subseteq Thread
-----------------------------------------------------------------------------
(* The ring. A queue of no slots never is full and never holds a message.   *)

MsgQueueIsFullLate == Count # 0 /\ used > Count
MsgQueueIsFull  == Count # 0 /\ used >= Count
MsgQueueIsEmpty == used = 0

BackIndexFromStart == used % Count
BackIndex  == (first + used) % Count
FrontIndex == IF first = 0 THEN Count - 1 ELSE first - 1

MsgQueueEnqueue(m) ==
    IF Count = 0 THEN UNCHANGED ring
    ELSE /\ array' = [array EXCEPT ![BackIndex] = m]
         /\ used' = used + 1
         /\ UNCHANGED first

MsgQueueJam(m) ==
    IF Count = 0 THEN UNCHANGED ring
    ELSE /\ array' = [array EXCEPT ![FrontIndex] = m]
         /\ first' = FrontIndex
         /\ used' = used + 1

MsgQueueDequeue ==
    /\ first' = (first + 1) % Count
    /\ used' = used - 1
    /\ UNCHANGED array
-----------------------------------------------------------------------------
(* The operations                                                           *)

Ready(c) == IF IsReceive(c) THEN ~MsgQueueIsEmpty ELSE ~MsgQueueIsFull

Apply(t, c) ==
    \/ c.op = "send" /\ MsgQueueEnqueue(c.msg) /\ UNCHANGED received
    \/ c.op = "jam"  /\ MsgQueueJam(c.msg)     /\ UNCHANGED received
    \/ /\ IsReceive(c)
       /\ MsgQueueDequeue
       /\ received' = [received EXCEPT ![t] = array[first]]

\* Who still sleeps on a queue after OSWakeupThread: no one.
AllButOne(Q) == IF Q = {} THEN {} ELSE Q \ {CHOOSE t \in Q : TRUE}
LeftAsleep(Q) == {}

\* A wakeup of the opposite queue follows every change.
Succeed(t, c) ==
    /\ Ready(c)
    /\ Apply(t, c)
    /\ sendQueue' = IF IsReceive(c) THEN LeftAsleep(sendQueue) ELSE sendQueue
    /\ recvQueue' = IF IsReceive(c) THEN recvQueue ELSE LeftAsleep(recvQueue)
    /\ call' = [call EXCEPT ![t] = NoCall]

Refuse(t, c) ==
    /\ ~Ready(c) /\ ~c.block
    /\ call' = [call EXCEPT ![t] = NoCall]
    /\ UNCHANGED <<ring, sendQueue, recvQueue, received>>

Park(t, c) ==
    /\ ~Ready(c) /\ c.block
    /\ sendQueue' = IF IsReceive(c) THEN sendQueue ELSE sendQueue \cup {t}
    /\ recvQueue' = IF IsReceive(c) THEN recvQueue \cup {t} ELSE recvQueue
    /\ call' = [call EXCEPT ![t] = c]
    /\ UNCHANGED <<ring, received>>

MsgQueueOp(t, c) ==
    /\ Succeed(t, c) \/ Refuse(t, c) \/ Park(t, c)
    /\ UNCHANGED alive

Asleep == sendQueue \cup recvQueue

\* A thread calls OSSendMessage, OSJamMessage or OSReceiveMessage.
Calls(t) ==
    /\ t \in alive /\ call[t] = NoCall
    /\ \E c \in Call : MsgQueueOp(t, c)

\* OSSleepThread returned: the loop of MsgQueueOp tests the queue again.
Retries(t) ==
    /\ t \in alive \ Asleep /\ call[t] # NoCall
    /\ MsgQueueOp(t, call[t])

LeavesQueues(t) ==
    /\ sendQueue' = sendQueue \ {t}
    /\ recvQueue' = recvQueue \ {t}
    /\ UNCHANGED <<ring, received>>

\* OSSleepThread could not switch away: it undoes the park and returns.
SleepUndone(t) ==
    /\ t \in Asleep
    /\ LeavesQueues(t)
    /\ UNCHANGED <<call, alive>>

\* Another thread cancels this one, asleep or woken.
Cancelled(t) ==
    /\ t \in alive
    /\ LeavesQueues(t)
    /\ alive' = alive \ {t}
    /\ call' = [call EXCEPT ![t] = NoCall]
-----------------------------------------------------------------------------
\* OSInitMessageQueue leaves whatever the array held.
Init ==
    /\ array \in [Slot -> Message]
    /\ first = 0 /\ used = 0
    /\ sendQueue = {} /\ recvQueue = {}
    /\ call = [t \in Thread |-> NoCall]
    /\ received = [t \in Thread |-> None]
    /\ alive = Thread

Next == \E t \in Thread :
    Calls(t) \/ Retries(t) \/ SleepUndone(t) \/ Cancelled(t)

Spec == Init /\ [][Next]_vars
-----------------------------------------------------------------------------
(* Properties                                                               *)

\* The messages in the ring, oldest first.
Items == [i \in 1 .. used |-> array[(first + i - 1) % Count]]

Deque == INSTANCE BoundedDeque
    WITH Capacity <- Count, Client <- Thread, items <- Items

(* Through every mix of sends, jams and receives around the end of the      *)
(* array, by threads that overtake each other between a wakeup and their    *)
(* retry, the queue delivers what a bounded sequence would: no message is   *)
(* lost, doubled, reordered or overwritten (os_message.cpp 57-105).         *)
DeliversInOrder == Deque!Spec

(* No one sleeps through what it waits for: a receiver sleeps only on an    *)
(* empty queue and a sender only on a full one, whoever was cancelled       *)
(* between its wakeup and its retry. MsgQueueOp wakes every sleeper of the  *)
(* opposite queue for this, not only as many as the change serves           *)
(* (os_message.cpp 119-126).                                                *)
NoStranded ==
    /\ recvQueue # {} => MsgQueueIsEmpty
    /\ sendQueue # {} => MsgQueueIsFull
=============================================================================
