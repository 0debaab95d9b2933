----------------------- MODULE OSMessageQueue_proofs ------------------------
(* The message queue is a bounded deque, and strands no sleeper, for every  *)
(* number of slots, threads and messages.                                   *)
EXTENDS OSMessageQueue, SequenceTheorems, TLAPS

USE CountAssumption

(* Where the slot with number i, counted from first, lies.                  *)
LEMMA SlotOf ==
    ASSUME NEW f \in 0 .. Count - 1, NEW i \in 0 .. Count
    PROVE  /\ (f + i) % Count = IF f + i < Count THEN f + i ELSE f + i - Count
           /\ (f + i) % Count \in Slot
BY DEF Slot

LEMMA SlotItself == ASSUME NEW f \in 0 .. Count - 1 PROVE f % Count = f
OBVIOUS

(* Types are preserved, whatever a call does.                               *)
LEMMA OpType ==
    ASSUME TypeOK, NEW t \in alive, NEW c \in Call, MsgQueueOp(t, c)
    PROVE  TypeOK'
<1>1. t \in Thread
  BY DEF TypeOK
<1>2. CASE Succeed(t, c)
  <2>1. /\ sendQueue' \subseteq alive /\ recvQueue' \subseteq alive
        /\ call' \in [Thread -> Call \cup {NoCall}] /\ alive' \subseteq Thread
        /\ alive' = alive
    BY <1>1, <1>2 DEF TypeOK, Succeed, MsgQueueOp, LeftAsleep
  <2>2. CASE IsReceive(c)
    <3>1. /\ MsgQueueDequeue /\ used # 0
          /\ received' = [received EXCEPT ![t] = array[first]]
      BY <1>2, <2>2 DEF Succeed, Ready, Apply, IsReceive, MsgQueueIsEmpty
    <3>2. Count # 0 /\ first \in Slot /\ array[first] \in Message
      BY <3>1 DEF TypeOK, Slot
    <3>3. first' \in 0 .. Count - 1
      BY <3>1, <3>2, SlotOf DEF MsgQueueDequeue, Slot
    <3> QED
      BY <1>1, <2>1, <3>1, <3>2, <3>3 DEF TypeOK, MsgQueueDequeue
  <2>3. CASE ~IsReceive(c)
    <3>1. /\ ~MsgQueueIsFull /\ received' = received
          /\ MsgQueueEnqueue(c.msg) \/ MsgQueueJam(c.msg)
      BY <1>2, <2>3 DEF Succeed, Ready, Apply, IsReceive
    <3>2. c.msg \in Message
      BY DEF Call
    <3>3. array' \in [Slot -> Message]
      BY <3>1, <3>2 DEF TypeOK, MsgQueueEnqueue, MsgQueueJam, ring
    <3>4. first' \in Nat /\ (Count > 0 => first' < Count) /\ used' \in 0 .. Count
      BY <3>1 DEF TypeOK, MsgQueueEnqueue, MsgQueueJam, ring, FrontIndex, MsgQueueIsFull
    <3> QED
      BY <2>1, <3>1, <3>3, <3>4 DEF TypeOK
  <2> QED
    BY <2>2, <2>3
<1>3. CASE Refuse(t, c)
  BY <1>1, <1>3 DEF TypeOK, Refuse, MsgQueueOp, ring
<1>4. CASE Park(t, c)
  BY <1>1, <1>4 DEF TypeOK, Park, MsgQueueOp, ring
<1> QED
  BY <1>2, <1>3, <1>4 DEF MsgQueueOp

(* A thread that stops sleeping, alone, leaves the rest as it was.          *)
LEMMA LeaveType ==
    ASSUME TypeOK, NEW t \in Thread, SleepUndone(t) \/ Cancelled(t)
    PROVE  TypeOK'
BY DEF TypeOK, SleepUndone, Cancelled, LeavesQueues, ring

(* Every step of a thread is one of its calls, or leaves the ring alone.    *)
LEMMA StepCases ==
    ASSUME TypeOK, Next
    PROVE  \E t \in Thread :
              \/ \E c \in Call : t \in alive /\ MsgQueueOp(t, c)
              \/ SleepUndone(t) \/ Cancelled(t)
BY DEF Next, Calls, Retries, TypeOK

(* Every state the queue reaches is well typed (os_message.cpp 17-42 sets   *)
(* the first one up).                                                       *)
THEOREM TypesCorrect == Spec => []TypeOK
<1>1. Init => TypeOK
  BY DEF Init, TypeOK, Slot
<1>2. TypeOK /\ [Next]_vars => TypeOK'
  <2> SUFFICES ASSUME TypeOK, [Next]_vars PROVE TypeOK'
    OBVIOUS
  <2>1. CASE Next
    BY <2>1, StepCases, OpType, LeaveType
  <2>2. CASE UNCHANGED vars
    BY <2>2 DEF TypeOK, vars, ring
  <2> QED
    BY <2>1, <2>2
<1> QED
  BY <1>1, <1>2, PTL DEF Spec
-----------------------------------------------------------------------------
(* One call keeps sleepers only where there is nothing to be had.           *)
LEMMA OpStrandsNoOne ==
    ASSUME TypeOK, NoStranded, NEW t \in alive, NEW c \in Call, MsgQueueOp(t, c)
    PROVE  NoStranded'
<1>1. CASE Succeed(t, c)
  <2>1. CASE IsReceive(c)
    BY <1>1, <2>1
    DEF TypeOK, NoStranded, Succeed, Ready, LeftAsleep, MsgQueueIsEmpty, MsgQueueIsFull
  <2>2. CASE ~IsReceive(c)
    BY <1>1, <2>2
    DEF TypeOK, NoStranded, Succeed, Ready, LeftAsleep, MsgQueueIsEmpty, MsgQueueIsFull
  <2> QED
    BY <2>1, <2>2
<1>2. CASE Refuse(t, c)
  BY <1>2 DEF NoStranded, Refuse, MsgQueueIsEmpty, MsgQueueIsFull, ring
<1>3. CASE Park(t, c)
  BY <1>3 DEF NoStranded, Park, Ready, MsgQueueIsEmpty, MsgQueueIsFull, ring
<1> QED
  BY <1>1, <1>2, <1>3 DEF MsgQueueOp

(* No receiver sleeps while the queue holds a message, and no sender while  *)
(* it has room: waking every sleeper of the opposite queue is enough,       *)
(* however many of them are cancelled before they look (os_message.cpp      *)
(* 119-126).                                                                *)
THEOREM NoneStranded == Spec => []NoStranded
<1>1. Init => NoStranded
  BY DEF Init, NoStranded
<1>2. TypeOK /\ NoStranded /\ [Next]_vars => NoStranded'
  <2> SUFFICES ASSUME TypeOK, NoStranded, [Next]_vars PROVE NoStranded'
    OBVIOUS
  <2>1. CASE Next
    <3>1. PICK t \in Thread : \/ \E c \in Call : t \in alive /\ MsgQueueOp(t, c)
                              \/ SleepUndone(t) \/ Cancelled(t)
      BY <2>1, StepCases
    <3>2. CASE SleepUndone(t) \/ Cancelled(t)
      BY <3>2 DEF NoStranded, SleepUndone, Cancelled, LeavesQueues, ring,
                  MsgQueueIsEmpty, MsgQueueIsFull
    <3> QED
      BY <3>1, <3>2, OpStrandsNoOne
  <2>2. CASE UNCHANGED vars
    BY <2>2 DEF NoStranded, MsgQueueIsEmpty, MsgQueueIsFull, vars, ring
  <2> QED
    BY <2>1, <2>2
<1> QED
  BY <1>1, <1>2, TypesCorrect, PTL DEF Spec
-----------------------------------------------------------------------------
(* What the ring holds is a sequence of messages.                           *)
LEMMA ItemsType ==
    ASSUME TypeOK
    PROVE  /\ Items \in Seq(Message) /\ Len(Items) = used
           /\ \A i \in 1 .. used : Items[i] = array[(first + i - 1) % Count]
<1>1. \A i \in 1 .. used : array[(first + i - 1) % Count] \in Message
  <2> SUFFICES ASSUME NEW i \in 1 .. used PROVE array[(first + i - 1) % Count] \in Message
    OBVIOUS
  <2>1. first \in 0 .. Count - 1 /\ i - 1 \in 0 .. Count /\ first + (i - 1) = first + i - 1
    BY DEF TypeOK
  <2>2. (first + i - 1) % Count \in Slot
    BY <2>1, SlotOf
  <2> QED
    BY <2>2 DEF TypeOK
<1>2. used \in Nat
  BY DEF TypeOK
<1>3. Items \in Seq(Message)
  BY <1>1, <1>2, IsASeq DEF Items
<1>4. DOMAIN Items = 1 .. used
  BY DEF Items
<1> QED
  BY <1>2, <1>3, <1>4, LenProperties DEF Items

(* The slot behind the newest message belongs to none of the messages.      *)
LEMMA EnqueueAppends ==
    ASSUME TypeOK, NEW m \in Message, Count # 0, ~MsgQueueIsFull, MsgQueueEnqueue(m)
    PROVE  Items' = Append(Items, m)
<1> DEFINE S == Append(Items, m)
<1>1. /\ first \in 0 .. Count - 1 /\ used \in 0 .. Count - 1
      /\ first' = first /\ used' = used + 1
      /\ array' = [array EXCEPT ![BackIndex] = m]
  BY DEF TypeOK, MsgQueueIsFull, MsgQueueEnqueue
<1>2. BackIndex \in Slot
  BY <1>1, SlotOf DEF BackIndex
<1>3. \A i \in 1 .. used : /\ (first + i - 1) % Count \in Slot
                           /\ (first + i - 1) % Count # BackIndex
  <2> SUFFICES ASSUME NEW i \in 1 .. used
               PROVE  /\ (first + i - 1) % Count \in Slot
                      /\ (first + i - 1) % Count # BackIndex
    OBVIOUS
  <2>1. i - 1 \in 0 .. Count /\ used \in 0 .. Count /\ first + (i - 1) = first + i - 1
    BY <1>1
  <2>2. /\ (first + i - 1) % Count = IF first + (i - 1) < Count THEN first + (i - 1)
                                     ELSE first + (i - 1) - Count
        /\ (first + i - 1) % Count \in Slot
    BY <1>1, <2>1, SlotOf
  <2>3. BackIndex = IF first + used < Count THEN first + used ELSE first + used - Count
    BY <1>1, <2>1, SlotOf DEF BackIndex
  <2> QED
    BY <1>1, <2>2, <2>3
<1>4. /\ S \in Seq(Message) /\ Len(S) = used + 1
      /\ \A i \in 1 .. used : S[i] = Items[i]
      /\ S[used + 1] = m
  BY <1>1, ItemsType, AppendProperties
<1>5. Items' = [i \in 1 .. used + 1 |-> array'[(first + i - 1) % Count]]
  BY <1>1 DEF Items
<1>6. \A i \in 1 .. used : Items'[i] = S[i]
  <2> SUFFICES ASSUME NEW i \in 1 .. used PROVE Items'[i] = S[i]
    OBVIOUS
  <2>1. Items'[i] = array'[(first + i - 1) % Count]
    BY <1>1, <1>5
  <2>2. array'[(first + i - 1) % Count] = array[(first + i - 1) % Count]
    BY <1>1, <1>3 DEF TypeOK
  <2> QED
    BY <2>1, <2>2, <1>4, ItemsType
<1>7. Items'[used + 1] = m
  <2>1. first + (used + 1) - 1 = first + used
    BY <1>1
  <2>2. Items'[used + 1] = array'[BackIndex]
    BY <1>1, <1>5, <2>1 DEF BackIndex
  <2> QED
    BY <1>1, <1>2, <2>2 DEF TypeOK
<1>8. \A i \in 1 .. used + 1 : Items'[i] = S[i]
  BY <1>1, <1>4, <1>6, <1>7
<1>9. S = [i \in 1 .. used + 1 |-> S[i]]
  BY <1>1, <1>4, LenProperties
<1> QED
  BY <1>5, <1>8, <1>9

(* The slot in front of the oldest message belongs to none of the messages. *)
LEMMA JamPrepends ==
    ASSUME TypeOK, NEW m \in Message, Count # 0, ~MsgQueueIsFull, MsgQueueJam(m)
    PROVE  Items' = <<m>> \o Items
<1> DEFINE S == <<m>> \o Items
<1>1. /\ first \in 0 .. Count - 1 /\ used \in 0 .. Count - 1
      /\ FrontIndex \in 0 .. Count - 1
      /\ first' = FrontIndex /\ used' = used + 1
      /\ array' = [array EXCEPT ![FrontIndex] = m]
  BY DEF TypeOK, MsgQueueIsFull, MsgQueueJam, FrontIndex
<1>2. \A i \in 1 .. used : /\ (FrontIndex + (i + 1) - 1) % Count = (first + i - 1) % Count
                           /\ (first + i - 1) % Count \in Slot
                           /\ (first + i - 1) % Count # FrontIndex
  <2> SUFFICES ASSUME NEW i \in 1 .. used
               PROVE  /\ (FrontIndex + (i + 1) - 1) % Count = (first + i - 1) % Count
                      /\ (first + i - 1) % Count \in Slot
                      /\ (first + i - 1) % Count # FrontIndex
    OBVIOUS
  <2>1. /\ i - 1 \in 0 .. Count /\ first + (i - 1) = first + i - 1
        /\ i \in 0 .. Count /\ FrontIndex + (i + 1) - 1 = FrontIndex + i
    BY <1>1
  <2>2. /\ (first + i - 1) % Count = IF first + (i - 1) < Count THEN first + (i - 1)
                                     ELSE first + (i - 1) - Count
        /\ (first + i - 1) % Count \in Slot
    BY <1>1, <2>1, SlotOf
  <2>3. (FrontIndex + (i + 1) - 1) % Count = IF FrontIndex + i < Count THEN FrontIndex + i
                                             ELSE FrontIndex + i - Count
    BY <1>1, <2>1, SlotOf
  <2> QED
    BY <1>1, <2>2, <2>3 DEF FrontIndex
<1>3. /\ S \in Seq(Message) /\ Len(S) = used + 1 /\ S[1] = m
      /\ \A i \in 1 .. used : S[i + 1] = Items[i]
  <2>1. /\ <<m>> \in Seq(Message) /\ Len(<<m>>) = 1 /\ <<m>>[1] = m
    OBVIOUS
  <2>2. Items \in Seq(Message) /\ Len(Items) = used
    BY ItemsType
  <2>3. /\ S \in Seq(Message) /\ Len(S) = 1 + used
        /\ \A i \in 1 .. 1 + used : S[i] = IF i <= 1 THEN <<m>>[i] ELSE Items[i - 1]
    BY <2>1, <2>2, ConcatProperties
  <2> QED
    BY <1>1, <2>1, <2>3
<1>4. Items' = [i \in 1 .. used + 1 |-> array'[(FrontIndex + i - 1) % Count]]
  BY <1>1 DEF Items
<1>5. Items'[1] = m
  <2>1. FrontIndex + 1 - 1 = FrontIndex /\ FrontIndex + 0 = FrontIndex /\ 0 \in 0 .. Count
    BY <1>1
  <2>2. FrontIndex % Count = FrontIndex
    BY <1>1, SlotItself
  <2>3. Items'[1] = array'[FrontIndex]
    BY <1>1, <1>4, <2>1, <2>2
  <2> QED
    BY <1>1, <2>3 DEF TypeOK, Slot
<1>6. \A i \in 1 .. used : Items'[i + 1] = S[i + 1]
  <2> SUFFICES ASSUME NEW i \in 1 .. used PROVE Items'[i + 1] = S[i + 1]
    OBVIOUS
  <2>1. Items'[i + 1] = array'[(first + i - 1) % Count]
    BY <1>1, <1>2, <1>4
  <2>2. array'[(first + i - 1) % Count] = array[(first + i - 1) % Count]
    BY <1>1, <1>2 DEF TypeOK
  <2> QED
    BY <2>1, <2>2, <1>3, ItemsType
<1>7. \A j \in 1 .. used + 1 : j = 1 \/ \E i \in 1 .. used : j = i + 1
  <2>1. \A j \in 1 .. used + 1 : j = 1 \/ (j - 1 \in 1 .. used /\ j = (j - 1) + 1)
    BY <1>1
  <2> QED
    BY <2>1
<1>8. \A j \in 1 .. used + 1 : Items'[j] = S[j]
  BY <1>3, <1>5, <1>6, <1>7
<1>9. S = [i \in 1 .. used + 1 |-> S[i]]
  BY <1>1, <1>3, LenProperties
<1> QED
  BY <1>4, <1>8, <1>9

(* A receive takes the oldest message and leaves the others in order.       *)
LEMMA DequeueTakesHead ==
    ASSUME TypeOK, used # 0, MsgQueueDequeue
    PROVE  Items # <<>> /\ array[first] = Head(Items) /\ Items' = Tail(Items)
<1>1. /\ first \in 0 .. Count - 1 /\ used \in 1 .. Count /\ Count # 0
      /\ first' = (first + 1) % Count /\ used' = used - 1 /\ array' = array
  BY DEF TypeOK, MsgQueueDequeue
<1>2. Items \in Seq(Message) /\ Len(Items) = used
  BY ItemsType
<1>3. Items # <<>> /\ Head(Items) = Items[1]
  BY <1>1, <1>2, EmptySeq, HeadTailProperties
<1>4. Items[1] = array[first]
  <2>1. first + 1 - 1 = first /\ first + 0 = first /\ 0 \in 0 .. Count
    BY <1>1
  <2>2. first % Count = first
    BY <1>1, SlotItself
  <2> QED
    BY <1>1, <2>1, <2>2, ItemsType
<1>5. \A i \in 1 .. used - 1 : (first' + i - 1) % Count = (first + (i + 1) - 1) % Count
  <2> SUFFICES ASSUME NEW i \in 1 .. used - 1
               PROVE  (first' + i - 1) % Count = (first + (i + 1) - 1) % Count
    OBVIOUS
  <2>1. /\ i - 1 \in 0 .. Count /\ first' + (i - 1) = first' + i - 1
        /\ i \in 0 .. Count /\ first + (i + 1) - 1 = first + i /\ 1 \in 0 .. Count
    <3>1. first' \in Slot
      BY <1>1, SlotOf
    <3> QED
      BY <1>1, <3>1 DEF Slot
  <2>2. first' = IF first + 1 < Count THEN first + 1 ELSE first + 1 - Count
    BY <1>1, <2>1, SlotOf
  <2>3. first' \in 0 .. Count - 1
    BY <1>1, <2>2
  <2>4. (first' + i - 1) % Count = IF first' + (i - 1) < Count THEN first' + (i - 1)
                                   ELSE first' + (i - 1) - Count
    BY <2>1, <2>3, SlotOf
  <2>5. (first + (i + 1) - 1) % Count = IF first + i < Count THEN first + i ELSE first + i - Count
    BY <1>1, <2>1, SlotOf
  <2> QED
    BY <1>1, <2>2, <2>4, <2>5
<1>6. Items' = [i \in 1 .. used - 1 |-> array[(first' + i - 1) % Count]]
  BY <1>1 DEF Items
<1>7. \A i \in 1 .. used - 1 : Items'[i] = Items[i + 1]
  <2> SUFFICES ASSUME NEW i \in 1 .. used - 1 PROVE Items'[i] = Items[i + 1]
    OBVIOUS
  <2>1. i + 1 \in 1 .. used
    BY <1>1
  <2> QED
    BY <1>5, <1>6, <2>1, ItemsType
<1>8. Tail(Items) = [i \in 1 .. used - 1 |-> Items[i + 1]]
  <2>1. /\ Tail(Items) \in Seq(Message) /\ Len(Tail(Items)) = used - 1
        /\ \A i \in 1 .. used - 1 : Tail(Items)[i] = Items[i + 1]
    BY <1>2, <1>3, HeadTailProperties
  <2> QED
    BY <2>1, LenProperties
<1> QED
  BY <1>3, <1>4, <1>6, <1>7, <1>8

(* The ring empty after OSInitMessageQueue is the empty sequence.           *)
LEMMA InitRefines == Init => Deque!Init
BY DEF Init, Deque!Init, Items

(* A call is one step of the bounded deque, or none of it.                  *)
LEMMA OpRefines ==
    ASSUME TypeOK, TypeOK', NEW t \in alive, NEW c \in Call, MsgQueueOp(t, c)
    PROVE  [Deque!Next]_Deque!vars
<1>1. t \in Thread /\ c.msg \in Message
  BY DEF TypeOK, Call
<1>2. CASE Succeed(t, c)
  <2>1. CASE IsReceive(c)
    <3>1. /\ MsgQueueDequeue /\ used # 0
          /\ received' = [received EXCEPT ![t] = array[first]]
      BY <1>2, <2>1 DEF Succeed, Ready, Apply, IsReceive, MsgQueueIsEmpty
    <3>2. Deque!Take(t)
      BY <3>1, DequeueTakesHead DEF Deque!Take
    <3> QED
      BY <1>1, <3>2 DEF Deque!Next
  <2>2. CASE ~IsReceive(c)
    <3>1. /\ ~MsgQueueIsFull /\ received' = received
          /\ MsgQueueEnqueue(c.msg) \/ MsgQueueJam(c.msg)
      BY <1>2, <2>2 DEF Succeed, Ready, Apply, IsReceive
    <3>2. CASE Count = 0
      <4>1. UNCHANGED <<ring, received>>
        BY <3>1, <3>2 DEF MsgQueueEnqueue, MsgQueueJam
      <4> QED
        BY <4>1 DEF ring, Items, Deque!vars
    <3>3. CASE Count # 0
      <4>1. Deque!HasRoom
        BY <3>1, <3>3, ItemsType DEF Deque!HasRoom, MsgQueueIsFull, TypeOK
      <4>2. CASE MsgQueueEnqueue(c.msg)
        BY <1>1, <3>1, <3>3, <4>1, <4>2, EnqueueAppends DEF Deque!PutBack, Deque!Next
      <4>3. CASE MsgQueueJam(c.msg)
        BY <1>1, <3>1, <3>3, <4>1, <4>3, JamPrepends DEF Deque!PutFront, Deque!Next
      <4> QED
        BY <3>1, <4>2, <4>3
    <3> QED
      BY <3>2, <3>3
  <2> QED
    BY <2>1, <2>2
<1>3. CASE Refuse(t, c)
  BY <1>3 DEF Refuse, ring, Items, Deque!vars
<1>4. CASE Park(t, c)
  BY <1>4 DEF Park, ring, Items, Deque!vars
<1> QED
  BY <1>2, <1>3, <1>4 DEF MsgQueueOp

(* OSSendMessage, OSJamMessage and OSReceiveMessage implement the bounded   *)
(* deque: no mix of their calls loses, doubles, reorders or overwrites a    *)
(* message (os_message.cpp 57-105).                                         *)
THEOREM ImplementsDeque == Spec => DeliversInOrder
<1>1. TypeOK /\ TypeOK' /\ [Next]_vars => [Deque!Next]_Deque!vars
  <2> SUFFICES ASSUME TypeOK, TypeOK', [Next]_vars PROVE [Deque!Next]_Deque!vars
    OBVIOUS
  <2>1. CASE Next
    <3>1. PICK t \in Thread : \/ \E c \in Call : t \in alive /\ MsgQueueOp(t, c)
                              \/ SleepUndone(t) \/ Cancelled(t)
      BY <2>1, StepCases
    <3>2. CASE SleepUndone(t) \/ Cancelled(t)
      BY <3>2 DEF SleepUndone, Cancelled, LeavesQueues, ring, Items, Deque!vars
    <3> QED
      BY <3>1, <3>2, OpRefines
  <2>2. CASE UNCHANGED vars
    BY <2>2 DEF vars, ring, Items, Deque!vars
  <2> QED
    BY <2>1, <2>2
<1> QED
  BY <1>1, InitRefines, TypesCorrect, PTL DEF Spec, DeliversInOrder, Deque!Spec
=============================================================================
