------------------------ MODULE OSScheduler_proofs -------------------------
(* Proofs about OSScheduler, for any number of threads, mutexes, wait       *)
(* queues and priorities, any program of the guest and any bounds.          *)
EXTENDS OSScheduler, SequenceLemmas

-----------------------------------------------------------------------------
(* What the queue operators return, for every sequence of threads.          *)

(* Best picks one of the priorities, and none is better.                    *)
LEMMA BestIsLeast ==
    ASSUME NEW P \in SUBSET Nat, P # {}
    PROVE  Best(P) \in P /\ \A r \in P : Best(P) <= r
BY LeastNumber DEF Best

(* UnlinkGuestListNode leaves a queue of the other threads.                 *)
LEMMA UnlinkedType ==
    ASSUME NEW s \in Seq(Thread), NEW t
    PROVE  Unlinked(s, t) \in Seq(Thread)
<1>1. CASE ~IsQueued(s, t)
  BY <1>1 DEF Unlinked
<1>2. CASE IsQueued(s, t)
  <2>1. Position(s, t) \in 1 .. Len(s)
    BY <1>2, LenProperties DEF IsQueued, Position
  <2>2. /\ SubSeq(s, 1, Position(s, t) - 1) \in Seq(Thread)
        /\ SubSeq(s, Position(s, t) + 1, Len(s)) \in Seq(Thread)
    BY <2>1, LenProperties, ElementOfSeq, SubSeqProperties
  <2> QED
    BY <1>2, <2>2, ConcatProperties DEF Unlinked
<1> QED
  BY <1>1, <1>2

(* InsertThreadIntoQueueByPriority always finds its place.                  *)
LEMMA InsertPlace ==
    ASSUME NEW s \in Seq(Thread), NEW p \in Nat, NEW pr \in [Thread -> Nat]
    PROVE  LET i == InsertPoint(s, p, pr)
           IN  /\ i \in 1 .. Len(s) + 1
               /\ \A j \in 1 .. i - 1 : pr[s[j]] <= p
               /\ i <= Len(s) => pr[s[i]] > p
<1> DEFINE Worse == {j \in 1 .. Len(s) : pr[s[j]] > p}
           Place(i) == /\ \A j \in 1 .. i - 1 : pr[s[j]] <= p
                       /\ i <= Len(s) => pr[s[i]] > p
<1>1. Len(s) \in Nat /\ \A j \in 1 .. Len(s) : pr[s[j]] \in Nat
  BY LenProperties, ElementOfSeq
<1>2. \E i \in 1 .. Len(s) + 1 : Place(i)
  <2>1. CASE Worse = {}
    <3>1. Place(Len(s) + 1)
      BY <1>1, <2>1
    <3> QED
      BY <1>1, <3>1
  <2>2. CASE Worse # {}
    <3>1. PICK i \in Worse : \A m \in Worse : i <= m
      <4>1. Worse \in SUBSET Nat
        BY <1>1
      <4> QED
        BY <2>2, <4>1, LeastNumber
    <3>2. Place(i)
      BY <1>1, <3>1
    <3> QED
      BY <1>1, <3>1, <3>2
  <2> QED
    BY <2>1, <2>2
<1> QED
  BY <1>2 DEF InsertPoint

LEMMA InsertPointExists ==
    ASSUME NEW s \in Seq(Thread), NEW p \in Nat, NEW pr \in [Thread -> Nat]
    PROVE  InsertPoint(s, p, pr) \in 1 .. Len(s) + 1
BY InsertPlace

(* The queue it leaves holds threads, and is not empty.                     *)
LEMMA InsertedType ==
    ASSUME NEW s \in Seq(Thread), NEW t \in Thread,
           NEW p \in Nat, NEW pr \in [Thread -> Nat]
    PROVE  /\ InsertedByPriority(s, t, p, pr) \in Seq(Thread)
           /\ InsertedByPriority(s, t, p, pr) # <<>>
<1> DEFINE i == InsertPoint(s, p, pr)
           before == SubSeq(s, 1, i - 1)
           after  == SubSeq(s, i, Len(s))
<1>1. i \in 1 .. Len(s) + 1 /\ Len(s) \in Nat
  BY InsertPointExists, LenProperties
<1>2. before \in Seq(Thread) /\ after \in Seq(Thread) /\ <<t>> \in Seq(Thread)
  BY <1>1, ElementOfSeq, SubSeqProperties
<1>3. /\ (before \o <<t>>) \o after \in Seq(Thread)
      /\ Len((before \o <<t>>) \o after) = Len(before) + 1 + Len(after)
  BY <1>2, ConcatProperties
<1>4. (before \o <<t>>) \o after # <<>>
  BY <1>2, <1>3, LenProperties, EmptySeq
<1> QED
  BY <1>3, <1>4 DEF InsertedByPriority

-----------------------------------------------------------------------------
(* The queues as sets, when no thread is on a queue twice.                  *)

(* UnlinkGuestListNode takes out that thread and no other.                  *)
LEMMA UnlinkedThreads ==
    ASSUME NEW s \in Seq(Thread), IsInjective(s), NEW t
    PROVE  /\ IsInjective(Unlinked(s, t))
           /\ Range(Unlinked(s, t)) = Range(s) \ {t}
<1>1. IsQueued(s, t) <=> t \in Range(s)
  BY InRange DEF IsQueued
<1>2. CASE ~IsQueued(s, t)
  BY <1>1, <1>2 DEF Unlinked
<1>3. CASE IsQueued(s, t)
  <2>1. PICK k : k = Position(s, t)
    OBVIOUS
  <2>2. k \in 1 .. Len(s) /\ s[k] = t
    BY <1>3, <2>1, InRange DEF IsQueued, Position
  <2>3. Unlinked(s, t) = RemoveAt(s, k)
    BY <1>3, <2>1 DEF Unlinked, RemoveAt
  <2> QED
    BY <2>2, <2>3, RemovedAt
<1> QED
  BY <1>2, <1>3

(* InsertThreadIntoQueueByPriority moves the entries behind the place up.   *)
LEMMA InsertedEntries ==
    ASSUME NEW s \in Seq(Thread), NEW t \in Thread, NEW p \in Nat, NEW pr \in [Thread -> Nat]
    PROVE  /\ InsertedByPriority(s, t, p, pr) \in Seq(Thread)
           /\ Len(InsertedByPriority(s, t, p, pr)) = Len(s) + 1
           /\ \A j \in 1 .. Len(s) + 1 :
                 InsertedByPriority(s, t, p, pr)[j] =
                     IF j < InsertPoint(s, p, pr) THEN s[j]
                     ELSE IF j = InsertPoint(s, p, pr) THEN t ELSE s[j - 1]
<1> DEFINE i == InsertPoint(s, p, pr)
           n == Len(s)
           before == SubSeq(s, 1, i - 1)
           after  == SubSeq(s, i, n)
           r == InsertedByPriority(s, t, p, pr)
<1>1. i \in 1 .. n + 1 /\ n \in Nat
  BY InsertPointExists, LenProperties
<1>2. /\ before \in Seq(Thread) /\ Len(before) = i - 1
      /\ \A j \in 1 .. i - 1 : before[j] = s[j]
  BY <1>1, ElementOfSeq, SubSeqProperties
<1>3. /\ after \in Seq(Thread) /\ Len(after) = n - i + 1
      /\ \A j \in 1 .. n - i + 1 : after[j] = s[i + j - 1]
  BY SMTT(30), <1>1, ElementOfSeq, SubSeqProperties
<1>0. r = (before \o <<t>>) \o after
  BY DEF InsertedByPriority
<1> HIDE DEF i, n, before, after, r
<1>4. PICK u \in Seq(Thread) :
         /\ r = u \o after /\ Len(u) = i
         /\ \A j \in 1 .. i - 1 : u[j] = before[j]
         /\ u[i] = t
  <2>1. <<t>> \in Seq(Thread) /\ Len(<<t>>) = 1 /\ <<t>>[1] = t
    OBVIOUS
  <2>2. PICK u : u = before \o <<t>>
    OBVIOUS
  <2>3. /\ u \in Seq(Thread) /\ Len(u) = Len(before) + 1
        /\ \A j \in 1 .. Len(before) + 1 :
              u[j] = IF j <= Len(before) THEN before[j] ELSE <<t>>[j - Len(before)]
    BY <1>2, <2>1, <2>2, ConcatProperties
  <2>4. PICK b \in Nat : Len(before) = b /\ b = i - 1
    BY <1>1, <1>2
  <2>5. Len(u) = i /\ \A j \in 1 .. i : u[j] = IF j <= b THEN before[j] ELSE <<t>>[j - b]
    BY <1>1, <2>3, <2>4
  <2>6. u[i] = t /\ \A j \in 1 .. i - 1 : u[j] = before[j]
    <3>1. i \in 1 .. i /\ ~(i <= b) /\ i - b = 1
      BY <1>1, <2>4
    <3>2. u[i] = <<t>>[1]
      BY <2>5, <3>1
    <3>3. \A j \in 1 .. i - 1 : j \in 1 .. i /\ j <= b
      BY <1>1, <2>4
    <3> QED
      BY <2>1, <2>5, <3>2, <3>3
  <2> QED
    BY <1>0, <2>2, <2>3, <2>5, <2>6
<1>5. /\ r \in Seq(Thread) /\ Len(r) = n + 1
      /\ \A j \in 1 .. n + 1 : r[j] = IF j < i THEN s[j] ELSE IF j = i THEN t ELSE s[j - 1]
  <2>1. /\ r \in Seq(Thread) /\ Len(r) = i + (n - i + 1)
        /\ \A j \in 1 .. i + (n - i + 1) : r[j] = IF j <= i THEN u[j] ELSE after[j - i]
    <3>1. /\ u \o after \in Seq(Thread) /\ Len(u \o after) = Len(u) + Len(after)
          /\ \A j \in 1 .. Len(u) + Len(after) :
                (u \o after)[j] = IF j <= Len(u) THEN u[j] ELSE after[j - Len(u)]
      BY SMTT(30), <1>3, <1>4, ConcatProperties
    <3> QED
      BY <1>3, <1>4, <3>1
  <2>2. i + (n - i + 1) = n + 1
    BY <1>1
  <2>3. ASSUME NEW j \in 1 .. n + 1
        PROVE  r[j] = IF j < i THEN s[j] ELSE IF j = i THEN t ELSE s[j - 1]
    <3>1. CASE j < i
      <4>1. j \in 1 .. i - 1 /\ j <= i
        BY <1>1, <3>1
      <4> QED
        BY <1>2, <1>4, <2>1, <2>2, <3>1, <4>1
    <3>2. CASE j = i
      BY <1>1, <1>4, <2>1, <2>2, <3>2
    <3>3. CASE j > i
      <4>1. j - i \in 1 .. n - i + 1 /\ i + (j - i) - 1 = j - 1 /\ ~(j <= i)
        BY <1>1, <3>3
      <4>2. r[j] = s[j - 1]
        BY <1>1, <1>3, <2>1, <2>2, <4>1
      <4> QED
        BY <1>1, <3>3, <4>2
    <3> QED
      BY <1>1, <3>1, <3>2, <3>3
  <2> QED
    BY <2>1, <2>2, <2>3
<1> QED
  BY <1>5 DEF i, n, r

(* It adds the thread and no other.                                         *)
LEMMA InsertedThreads ==
    ASSUME NEW s \in Seq(Thread), IsInjective(s), NEW t \in Thread, t \notin Range(s),
           NEW p \in Nat, NEW pr \in [Thread -> Nat]
    PROVE  /\ IsInjective(InsertedByPriority(s, t, p, pr))
           /\ Range(InsertedByPriority(s, t, p, pr)) = Range(s) \cup {t}
<1> DEFINE i == InsertPoint(s, p, pr)
           n == Len(s)
           r == InsertedByPriority(s, t, p, pr)
<1>1. i \in 1 .. n + 1 /\ n \in Nat
  BY InsertPointExists, LenProperties
<1>2. r \in Seq(Thread) /\ Len(r) = n + 1
  BY InsertedEntries
<1>3. \A j \in 1 .. n + 1 : r[j] = IF j < i THEN s[j] ELSE IF j = i THEN t ELSE s[j - 1]
  BY ONLY s \in Seq(Thread), t \in Thread, p \in Nat, pr \in [Thread -> Nat], InsertedEntries
<1>5. /\ r \in Seq(Thread) /\ Len(r) = n + 1
      /\ \A j \in 1 .. n + 1 : r[j] = IF j < i THEN s[j] ELSE IF j = i THEN t ELSE s[j - 1]
  BY <1>2, <1>3
<1> HIDE DEF i, n, r
<1>6. /\ DOMAIN r = 1 .. n + 1 /\ Range(r) = {r[j] : j \in 1 .. n + 1}
      /\ DOMAIN s = 1 .. n /\ Range(s) = {s[j] : j \in 1 .. n}
  BY <1>5, InRange DEF n
<1>7. IsInjective(r)
  <2>1. ASSUME NEW a \in 1 .. n + 1, NEW b \in 1 .. n + 1, r[a] = r[b] PROVE a = b
    <3>1. \A j \in 1 .. n + 1 : j < i => j \in 1 .. n /\ r[j] = s[j] /\ s[j] # t
      BY <1>1, <1>5, <1>6
    <3>2. \A j \in 1 .. n + 1 : j > i => j - 1 \in 1 .. n /\ r[j] = s[j - 1] /\ s[j - 1] # t
      BY <1>1, <1>5, <1>6
    <3>3. \A j, k \in 1 .. n : s[j] = s[k] => j = k
      BY <1>6 DEF IsInjective
    <3>4. r[i] = t
      BY <1>1, <1>5
    <3>5. CASE a < i
      BY SMTT(30), <1>1, <2>1, <3>1, <3>2, <3>3, <3>4, <3>5
    <3>6. CASE a = i
      BY SMTT(30), <1>1, <2>1, <3>1, <3>2, <3>4, <3>6
    <3>7. CASE a > i
      <4>1. CASE b > i
        <5>1. a - 1 = b - 1
          BY <2>1, <3>2, <3>3, <3>7, <4>1
        <5> QED
          BY <5>1
      <4>2. CASE b = i
        BY <2>1, <3>2, <3>4, <3>7, <4>2
      <4>3. CASE b < i
        <5>1. b = a - 1
          BY <2>1, <3>1, <3>2, <3>3, <3>7, <4>3
        <5> QED
          BY <1>1, <3>7, <4>3, <5>1
      <4> QED
        BY <1>1, <4>1, <4>2, <4>3
    <3> QED
      BY <1>1, <3>5, <3>6, <3>7
  <2> QED
    BY <1>6, <2>1 DEF IsInjective
<1>8. Range(r) = Range(s) \cup {t}
  <2>1. \A j \in 1 .. n + 1 : r[j] \in Range(s) \cup {t}
    <3>1. \A j \in 1 .. n + 1 : (j < i => j \in 1 .. n) /\ (j > i => j - 1 \in 1 .. n)
      BY <1>1
    <3> QED
      BY <1>1, <1>5, <1>6, <3>1
  <2>2. t = r[i] /\ i \in 1 .. n + 1
    BY <1>1, <1>5
  <2>3. ASSUME NEW j \in 1 .. n PROVE \E k \in 1 .. n + 1 : s[j] = r[k]
    <3>1. CASE j < i
      <4>1. j \in 1 .. n + 1
        BY <1>1
      <4> QED
        BY <1>5, <3>1, <4>1
    <3>2. CASE ~(j < i)
      <4>1. j + 1 \in 1 .. n + 1 /\ ~(j + 1 < i) /\ j + 1 # i /\ (j + 1) - 1 = j
        BY <1>1, <3>2
      <4> QED
        BY <1>5, <4>1
    <3> QED
      BY <3>1, <3>2
  <2> QED
    BY <1>6, <2>1, <2>2, <2>3
<1> QED
  BY <1>7, <1>8 DEF r

(* The order of a queue: unlinking keeps it, and a thread whose priority is *)
(* worse than none of those that are linked is put behind them.             *)
LEMMA OrderUnlinked ==
    ASSUME NEW s \in Seq(Thread), NEW t
    PROVE  KeepsOrder(s, Unlinked(s, t))
<1>1. CASE ~IsQueued(s, t)
  BY <1>1 DEF Unlinked, KeepsOrder
<1>2. CASE IsQueued(s, t)
  <2>1. PICK k : k = Position(s, t)
    OBVIOUS
  <2>2. k \in 1 .. Len(s)
    BY <1>2, <2>1, InRange DEF IsQueued, Position
  <2>3. Unlinked(s, t) = RemoveAt(s, k)
    BY <1>2, <2>1 DEF Unlinked, RemoveAt
  <2> QED
    BY <2>2, <2>3, OrderRemoved
<1> QED
  BY <1>1, <1>2

LEMMA InsertedBehind ==
    ASSUME NEW s \in Seq(Thread), NEW t \in Thread, NEW p \in Nat, NEW pr \in [Thread -> Nat],
           \A u \in Range(s) : pr[u] <= p
    PROVE  InsertedByPriority(s, t, p, pr) = Append(s, t)
<1> DEFINE i == InsertPoint(s, p, pr)
<1>1. Len(s) \in Nat /\ \A j \in 1 .. Len(s) : s[j] \in Range(s) /\ s[j] \in Thread
  BY InRange
<1>2. i \in 1 .. Len(s) + 1 /\ (i <= Len(s) => pr[s[i]] > p)
  BY InsertPlace
<1> HIDE DEF i
<1>3. i = Len(s) + 1
  <2>1. ASSUME i <= Len(s) PROVE FALSE
    <3>1. s[i] \in Range(s) /\ s[i] \in Thread /\ pr[s[i]] > p
      BY <1>1, <1>2, <2>1
    <3>2. pr[s[i]] <= p /\ pr[s[i]] \in Nat
      BY <3>1
    <3> QED
      BY <3>1, <3>2
  <2> QED
    BY <1>1, <1>2, <2>1
<1>4. i - 1 = Len(s)
  BY <1>1, <1>3
<1>5. InsertedByPriority(s, t, p, pr) = SubSeq(s, 1, Len(s)) \o <<t>> \o SubSeq(s, Len(s) + 1, Len(s))
  BY <1>3, <1>4 DEF InsertedByPriority, i
<1>6. SubSeq(s, 1, Len(s)) = s /\ SubSeq(s, Len(s) + 1, Len(s)) = << >>
  BY <1>1, SubSeqFull, SubSeqEmpty
<1>7. s \o <<t>> = Append(s, t) /\ Append(s, t) \in Seq(Thread)
  BY AppendIsConcat, AppendProperties
<1> QED
  BY <1>5, <1>6, <1>7, ConcatEmptySeq

-----------------------------------------------------------------------------
(* The inductive invariant.  The count of a mutex stays a natural number    *)
(* only because an owned mutex has been locked, and the bits of the pending *)
(* mask are numbers only because run queues have numbers.                   *)
Inv == TypeOK /\ PendingExact /\ MutexAgreement

QueuesInStep == QueueTypes /\ PendingExact
MutexesAgree == MutexTypes /\ MutexAgreement

-----------------------------------------------------------------------------
(* Queues and the pending mask.                                             *)

Queues == [Queue -> Seq(Thread)]

Exact(Q, P) == P = {p \in AnyPrio : Q[RunQ(p)] # <<>>}

(* A run queue is none of the wait queues, and each priority has its own.   *)
LEMMA QueueNames ==
    /\ \A p \in AnyPrio : RunQ(p) \in Queue
    /\ \A p, r \in AnyPrio : RunQ(p) = RunQ(r) => p = r
    /\ \A q \in WaitQueue : q \in Queue /\ \A p \in AnyPrio : q # RunQ(p)
    /\ \A t \in Thread : JoinQ(t) \in WaitQueue
    /\ \A m \in Mutex : MutexQ(m) \in WaitQueue
    /\ \A e \in Event : EventQ(e) \in WaitQueue
    /\ \A p \in Prio : p \in AnyPrio
    /\ SuspendedWaitPriority \in AnyPrio
    /\ AnyPrio \in SUBSET Nat
BY PrioAssumption DEF Queue, RunQueue, WaitQueue, RunQ, JoinQ, MutexQ, EventQ,
                      AnyPrio, Prio, SuspendedWaitPriority

(* What happens on a wait queue does not concern the pending mask.          *)
LEMMA WaitQueueChanges ==
    ASSUME NEW Q \in Queues, NEW q \in WaitQueue, NEW s \in Seq(Thread),
           NEW P, Exact(Q, P)
    PROVE  [Q EXCEPT ![q] = s] \in Queues /\ Exact([Q EXCEPT ![q] = s], P)
BY QueueNames DEF Queues, Exact

(* A run queue that gets or loses a thread has its bit set accordingly.     *)
LEMMA RunQueueChanges ==
    ASSUME NEW Q \in Queues, NEW p \in AnyPrio, NEW s \in Seq(Thread),
           NEW P, Exact(Q, P)
    PROVE  /\ [Q EXCEPT ![RunQ(p)] = s] \in Queues
           /\ s # <<>> => Exact([Q EXCEPT ![RunQ(p)] = s], P \cup {p})
           /\ s = <<>> => Exact([Q EXCEPT ![RunQ(p)] = s], P \ {p})
BY QueueNames DEF Queues, Exact

(* RemoveThreadFromQueue with UpdatePendingMaskForQueue keeps them in step. *)
LEMMA Removing ==
    ASSUME Inv, NEW t \in Thread
    PROVE  QueueWithout(t) \in Queues /\ Exact(QueueWithout(t), PendingWithout(t))
<1>1. /\ queue \in Queues /\ Exact(queue, pending)
      /\ queueOf[t] \in Queue \cup {None}
  BY DEF Inv, TypeOK, QueueTypes, ThreadTypes, PendingExact, Queues, Exact
<1>2. QueueWithout(t) \in Queues
  BY <1>1, UnlinkedType DEF QueueWithout, Queues
<1>3. \A p \in AnyPrio : queueOf[t] # RunQ(p) => QueueWithout(t)[RunQ(p)] = queue[RunQ(p)]
  BY <1>1, QueueNames DEF QueueWithout, Queues
<1>4. \A p \in AnyPrio : p \notin pending => QueueWithout(t)[RunQ(p)] = <<>>
  <2>1. \A q : Unlinked(<<>>, q) = <<>>
    BY DEF Unlinked, IsQueued
  <2> QED
    BY <1>1, <1>3, <2>1, QueueNames DEF QueueWithout, Queues, Exact
<1> QED
  BY <1>1, <1>2, <1>3, <1>4 DEF Exact, PendingWithout

(* And so does moving the thread to a queue by its priority.                *)
LEMMA Moving ==
    ASSUME Inv, NEW t \in Thread, NEW q \in Queue, NEW p \in AnyPrio
    PROVE  Requeued(t, q, p) \in Queues /\ Exact(Requeued(t, q, p), PendingMoved(t, q))
<1> DEFINE Q == QueueWithout(t)
           s == InsertedByPriority(Q[q], t, p, prio)
<1>1. Q \in Queues /\ Exact(Q, PendingWithout(t))
  BY Removing
<1>2. Q[q] \in Seq(Thread) /\ p \in Nat /\ prio \in [Thread -> Nat]
  BY <1>1, QueueNames DEF Inv, TypeOK, ThreadTypes, Queues
<1>3. s \in Seq(Thread) /\ s # <<>>
  BY <1>2, InsertedType
<1>4. Requeued(t, q, p) = [Q EXCEPT ![q] = s]
  BY DEF Requeued
<1>5. CASE q \in WaitQueue
  <2>1. PendingMoved(t, q) = PendingWithout(t)
    BY <1>5, QueueNames DEF PendingMoved
  <2> QED
    BY ZenonT(60), <1>1, <1>3, <1>4, <1>5, <2>1, WaitQueueChanges
<1>6. ASSUME NEW r \in AnyPrio, q = RunQ(r)
      PROVE  Requeued(t, q, p) \in Queues /\ Exact(Requeued(t, q, p), PendingMoved(t, q))
  <2>1. PendingMoved(t, q) = PendingWithout(t) \cup {r}
    BY <1>6, QueueNames DEF PendingMoved
  <2>2. [Q EXCEPT ![RunQ(r)] = s] \in Queues
        /\ Exact([Q EXCEPT ![RunQ(r)] = s], PendingWithout(t) \cup {r})
    BY <1>1, <1>3, RunQueueChanges
  <2> QED
    BY <1>4, <1>6, <2>1, <2>2
<1> QED
  BY <1>5, <1>6 DEF Queue, RunQueue

-----------------------------------------------------------------------------
(* Frames.                                                                  *)

Stack == Seq(Frame)

(* The code only ever pushes frames of the declared shapes.                 *)
LEMMA FramesBuilt ==
    /\ \A b \in BOOLEAN : Select(b) \in Frame /\ Body(b) \in Frame
    /\ {Dispatch, Resched, Exited, Parked} \subseteq Frame
    /\ \A a \in {"timers", "audio", "retrace", "check"} : IdleLoop(a) \in Frame
    /\ \A D \in SUBSET Thread, sc \in BOOLEAN : Timers(D, sc) \in Frame
    /\ \A H \in SUBSET Thread : Heal(H) \in Frame
    /\ \A t \in Thread : {Resume(t), Suspend(t), Joined(t), UnlockAll(t)} \subseteq Frame
    /\ \A q \in WaitQueue : Sleep(q) \in Frame
    /\ \A q \in WaitQueue, w \in BOOLEAN : Wakeup(q, w) \in Frame
    /\ \A q \in WaitQueue, t \in Thread : Slept(q, t) \in Frame
    /\ \A m \in Mutex : Lock(m) \in Frame
    /\ \A o \in Thread \cup {None}, p \in AnyPrio : Promote(o, p) \in Frame
    /\ \A o \in Thread \cup {None} : Propagate(o) \in Frame
    /\ \A r, d \in BOOLEAN : Callback(r, d) \in Frame
BY DEF Frame, Select, Body, Dispatch, Resched, Exited, Parked, IdleLoop, Timers, Heal,
       Resume, Suspend, Joined, UnlockAll, Wakeup, Sleep, Slept, Lock, Promote,
       Propagate, Callback

(* The fields of a frame have the types its operation says.                 *)
LEMMA FrameFields ==
    ASSUME NEW f \in Frame
    PROVE  /\ f.op \in {"select", "body"} => f.force \in BOOLEAN
           /\ f.op = "timers" => f.due \in SUBSET Thread /\ f.scan \in BOOLEAN
           /\ f.op = "heal" => f.lost \in SUBSET Thread
           /\ f.op \in {"resume", "suspend", "join", "unlockAll"} => f.t \in Thread
           /\ f.op \in {"wakeup", "sleep", "slept"} => f.q \in WaitQueue
           /\ f.op = "slept" => f.t \in Thread
           /\ f.op = "wakeup" => f.woke \in BOOLEAN
           /\ f.op = "lock" => f.m \in Mutex
           /\ f.op \in {"promote", "propagate"} => f.o \in Thread \cup {None}
           /\ f.op = "promote" => f.p \in AnyPrio
           /\ f.op = "callback" => f.retrace \in BOOLEAN /\ f.deferred \in BOOLEAN
BY DEF Frame

(* An executing fiber with frames has a top frame and the frames below it.  *)
LEMMA StackTop ==
    ASSUME Inv, NEW op, At(op)
    PROVE  Top \in Frame /\ Top.op = op /\ Rest \in Stack
BY HeadTailProperties DEF Inv, TypeOK, HostTypes, At, Top, Rest, Stack

(* Pushing frames leaves a stack of frames.                                 *)
LEMMA StackPushed ==
    ASSUME Inv, NEW fs \in Stack, NEW k \in Stack, Become(fs, k)
    PROVE  stack' \in [Thread -> Stack]
BY ConcatProperties DEF Inv, TypeOK, HostTypes, Become, Stack

LEMMA ShortStacks ==
    /\ <<>> \in Stack
    /\ \A f \in Frame : <<f>> \in Stack
    /\ \A f, g \in Frame : <<f, g>> \in Stack
    /\ \A f, g, h \in Frame : <<f, g, h>> \in Stack
BY DEF Stack

-----------------------------------------------------------------------------
(* The invariant, part by part.                                             *)

LEMMA Parts ==
    ThreadTypes' /\ MutexesAgree' /\ QueuesInStep' /\ GlobalTypes' /\ HostTypes' => Inv'
BY DEF Inv, TypeOK, MutexesAgree, QueuesInStep

(* A step that leaves a part's variables alone preserves the part.          *)
LEMMA Untouched ==
    ASSUME Inv
    PROVE  /\ UNCHANGED threadVars => ThreadTypes'
           /\ UNCHANGED mutexVars => MutexesAgree'
           /\ UNCHANGED <<queue, pending>> => QueuesInStep'
           /\ UNCHANGED <<resched, running, current, disable>> => GlobalTypes'
           /\ UNCHANGED timerVars /\ UNCHANGED <<exec, inRetrace>>
                /\ stack' \in [Thread -> Stack] => HostTypes'
<1>1. UNCHANGED threadVars => ThreadTypes'
  BY DEF Inv, TypeOK, ThreadTypes, threadVars
<1>2. UNCHANGED mutexVars => MutexesAgree'
  BY DEF Inv, TypeOK, MutexesAgree, MutexTypes, MutexAgreement, mutexVars
<1>3. UNCHANGED <<queue, pending>> => QueuesInStep'
  BY DEF Inv, TypeOK, QueuesInStep, QueueTypes, PendingExact
<1>4. UNCHANGED <<resched, running, current, disable>> => GlobalTypes'
  BY DEF Inv, TypeOK, GlobalTypes
<1>5. UNCHANGED timerVars /\ UNCHANGED <<exec, inRetrace>> /\ stack' \in [Thread -> Stack]
        => HostTypes'
  BY DEF Inv, TypeOK, HostTypes, timerVars, Stack
<1> QED
  BY <1>1, <1>2, <1>3, <1>4, <1>5

(* The queues stay in step when they change as the lemmas above say.        *)
LEMMA QueuesChanged ==
    ASSUME queue' \in Queues, Exact(queue', pending')
    PROVE  QueuesInStep'
BY DEF Queues, Exact, QueuesInStep, QueueTypes, PendingExact

LEMMA QueuesNow ==
    ASSUME Inv
    PROVE  queue \in Queues /\ Exact(queue, pending)
BY DEF Inv, TypeOK, QueueTypes, PendingExact, Queues, Exact

(* A step that only pushes frames.                                          *)
LEMMA PushStep ==
    ASSUME Inv, NEW fs \in Stack, NEW k \in Stack, Become(fs, k),
           UNCHANGED <<threadVars, mutexVars, schedVars, timerVars, exec, inRetrace>>
    PROVE  Inv'
<1>1. stack' \in [Thread -> Stack]
  BY StackPushed
<1> QED
  BY <1>1, Untouched, Parts DEF schedVars

-----------------------------------------------------------------------------
(* SelectThread and the idle loop.                                          *)

LEMMA SelectThreadStep == Inv /\ SelectThread => Inv'
<1> SUFFICES ASSUME Inv, SelectThread PROVE Inv'
  OBVIOUS
<1> DEFINE f == Top.force
<1>1. f \in BOOLEAN /\ Rest \in Stack
  BY StackTop, FrameFields DEF SelectThread
<1>2. /\ SelectBody(f, Rest)
      /\ UNCHANGED <<suspend, prio, base, detached, wants, listed, mutexVars,
                     disable, timerVars, exec, inRetrace>>
  BY DEF SelectThread
<1>3. MutexesAgree'
  BY <1>2, Untouched
<1>4. /\ <<>> \in Stack /\ <<Dispatch>> \in Stack
      /\ <<IdleLoop("timers")>> \in Stack
  BY FramesBuilt, ShortStacks
<1>5. stack' \in [Thread -> Stack]
  BY <1>1, <1>2, <1>4, StackPushed DEF SelectBody
<1>6. HostTypes'
  BY <1>2, <1>5, Untouched
<1>7. GlobalTypes'
  BY <1>2 DEF SelectBody, GlobalTypes, Inv, TypeOK
<1>8. CASE /\ running # None /\ state[running] = "RUNNING"
           /\ state' = [state EXCEPT ![running] = "READY"]
           /\ queue' = [queue EXCEPT ![RunQ(prio[running])] = Append(@, running)]
           /\ queueOf' = [queueOf EXCEPT ![running] = RunQ(prio[running])]
           /\ pending' = PendingWith(prio[running])
  <2>1. running \in Thread /\ prio[running] \in AnyPrio
    BY <1>8 DEF Inv, TypeOK, GlobalTypes, ThreadTypes
  <2>2. RunQ(prio[running]) \in Queue
    BY <2>1, QueueNames
  <2>3. ThreadTypes'
    BY <1>2, <1>8, <2>1, <2>2 DEF Inv, TypeOK, ThreadTypes, State
  <2>4. /\ Append(queue[RunQ(prio[running])], running) \in Seq(Thread)
        /\ Append(queue[RunQ(prio[running])], running) # <<>>
    BY <2>1, <2>2, AppendProperties DEF Inv, TypeOK, QueueTypes
  <2>5. queue' \in Queues /\ Exact(queue', pending')
    BY <1>8, <2>1, <2>4, QueuesNow, RunQueueChanges DEF PendingWith
  <2> QED
    BY <1>3, <1>6, <1>7, <2>3, <2>5, QueuesChanged, Parts
<1>9. CASE UNCHANGED <<state, queueOf, queue, pending>>
  <2>1. ThreadTypes' /\ QueuesInStep'
    BY <1>2, <1>9, Untouched DEF threadVars
  <2> QED
    BY <1>3, <1>6, <1>7, <2>1, Parts
<1> QED
  BY <1>2, <1>8, <1>9 DEF SelectBody

LEMMA SelectThreadFirstTimersStep == Inv /\ SelectThreadFirstTimers => Inv'
<1> SUFFICES ASSUME Inv, SelectThreadFirstTimers PROVE Inv'
  OBVIOUS
<1>1. PICK D \in SUBSET timer, scan \in BOOLEAN :
         /\ timer' = timer \ D
         /\ Become(<<Timers(D, scan), Body(Top.force)>>, Rest)
  BY DEF SelectThreadFirstTimers
<1>2. Top.force \in BOOLEAN /\ Rest \in Stack
  BY StackTop, FrameFields DEF SelectThreadFirstTimers
<1>3. D \in SUBSET Thread
  BY DEF Inv, TypeOK, HostTypes
<1>4. <<Timers(D, scan), Body(Top.force)>> \in Stack
  BY <1>2, <1>3, FramesBuilt, ShortStacks
<1>5. stack' \in [Thread -> Stack]
  BY <1>1, <1>2, <1>4, StackPushed
<1>6. HostTypes'
  BY <1>1, <1>5 DEF SelectThreadFirstTimers, Inv, TypeOK, HostTypes, Stack
<1> QED
  BY <1>6, Untouched, Parts DEF SelectThreadFirstTimers, schedVars

(* DispatchThread: popping the head of a run queue clears its bit exactly   *)
(* when the queue becomes empty, and unlinking a terminated head does too.  *)
LEMMA DispatchThreadStep == Inv /\ DispatchThread => Inv'
<1> SUFFICES ASSUME Inv, DispatchThread PROVE Inv'
  OBVIOUS
<1> DEFINE p == Best(pending)
           q == queue[RunQ(p)]
<1>1. UNCHANGED <<suspend, prio, base, detached, wants, listed, mutexVars,
                  disable, timerVars, inRetrace>>
  BY DEF DispatchThread
<1>2. MutexesAgree'
  BY <1>1, Untouched
<1>3. Rest \in Stack /\ <<>> \in Stack
  BY StackTop, ShortStacks DEF DispatchThread
<1>4. CASE pending = {}
  <2>1. /\ Become(<<>>, Rest) /\ resched' = FALSE
        /\ UNCHANGED <<state, queue, pending, queueOf, running, current, exec>>
    BY <1>4 DEF DispatchThread
  <2>2. stack' \in [Thread -> Stack]
    BY <1>3, <2>1, StackPushed
  <2>3. ThreadTypes' /\ QueuesInStep' /\ HostTypes'
    BY <1>1, <2>1, <2>2, Untouched DEF threadVars
  <2>4. GlobalTypes'
    BY <1>1, <2>1 DEF Inv, TypeOK, GlobalTypes
  <2> QED
    BY <1>2, <2>3, <2>4, Parts
<1>5. CASE pending # {}
  <2>1. p \in AnyPrio /\ p \in pending
    BY <1>5, BestIsLeast, QueueNames DEF Inv, TypeOK, QueueTypes
  <2>2. q \in Seq(Thread) /\ q # <<>>
    BY <2>1, QueueNames DEF Inv, TypeOK, QueueTypes, PendingExact
  <2>3. Head(q) \in Thread /\ Tail(q) \in Seq(Thread)
    BY <2>2, HeadTailProperties
  <2>4. CASE state[Head(q)] \in Terminated
    <3>1. /\ Removed(Head(q)) /\ resched' = FALSE
          /\ UNCHANGED <<state, running, current, exec, stack>>
      BY <1>5, <2>2, <2>4 DEF DispatchThread
    <3>2. QueuesInStep'
      BY <2>3, <3>1, Removing, QueuesChanged DEF Removed
    <3>3. ThreadTypes'
      BY <1>1, <3>1 DEF Removed, Inv, TypeOK, ThreadTypes
    <3>4. GlobalTypes' /\ HostTypes'
      BY <1>1, <3>1 DEF Inv, TypeOK, GlobalTypes, HostTypes, timerVars
    <3> QED
      BY <1>2, <3>2, <3>3, <3>4, Parts
  <2>5. CASE state[Head(q)] \notin Terminated
    <3>1. /\ resched' = FALSE
          /\ queue' = [queue EXCEPT ![RunQ(p)] = Tail(@)]
          /\ pending' = IF Tail(q) = <<>> THEN pending \ {p} ELSE pending
          /\ queueOf' = [queueOf EXCEPT ![Head(q)] = None]
          /\ state' = [state EXCEPT ![Head(q)] = "RUNNING"]
          /\ running' = Head(q) /\ current' = Head(q) /\ exec' = Head(q)
          /\ Become(<<>>, Rest)
      BY <1>5, <2>2, <2>5 DEF DispatchThread
    <3>2. queue' = [queue EXCEPT ![RunQ(p)] = Tail(q)]
      BY <3>1
    <3>3. pending = pending \cup {p}
      BY <2>1
    <3>4. queue' \in Queues /\ Exact(queue', pending')
      <4>1. queue \in Queues /\ Exact(queue, pending)
        BY QueuesNow
      <4>2. /\ [queue EXCEPT ![RunQ(p)] = Tail(q)] \in Queues
            /\ Tail(q) # <<>> => Exact([queue EXCEPT ![RunQ(p)] = Tail(q)], pending \cup {p})
            /\ Tail(q) = <<>> => Exact([queue EXCEPT ![RunQ(p)] = Tail(q)], pending \ {p})
        BY <2>1, <2>3, <4>1, RunQueueChanges
      <4> QED
        BY <3>1, <3>2, <3>3, <4>2
    <3>5. ThreadTypes'
      BY <1>1, <2>3, <3>1 DEF Inv, TypeOK, ThreadTypes, State
    <3>6. stack' \in [Thread -> Stack]
      BY <1>3, <3>1, StackPushed
    <3>7. GlobalTypes' /\ HostTypes'
      BY <1>1, <2>3, <3>1, <3>6
         DEF Inv, TypeOK, GlobalTypes, HostTypes, timerVars, Stack
    <3> QED
      BY <1>2, <3>4, <3>5, <3>7, QueuesChanged, Parts
  <2> QED
    BY <2>4, <2>5
<1> QED
  BY <1>4, <1>5

(* A pass of the idle loop only pushes the calls it makes.                  *)
LEMMA IdlePassStep == Inv /\ IdlePass => Inv'
<1> SUFFICES ASSUME Inv, IdlePass PROVE Inv'
  OBVIOUS
<1>1. Rest \in Stack
  BY StackTop DEF IdlePass, IdleTimers, IdleAudio, IdleRetrace, IdleNoRetrace, IdleCheck
<1>2. \A a \in {"timers", "audio", "retrace", "check"} : IdleLoop(a) \in Frame
  BY FramesBuilt
<1>3. CASE IdleTimers
  <2>1. PICK D \in SUBSET timer, scan \in BOOLEAN :
           /\ timer' = timer \ D
           /\ Become(IF D = {} /\ ~scan THEN <<IdleLoop("audio")>>
                     ELSE <<Timers(D, scan), IdleLoop("audio")>>, Rest)
    BY <1>3 DEF IdleTimers
  <2>2. Timers(D, scan) \in Frame
    BY FramesBuilt DEF Inv, TypeOK, HostTypes
  <2>3. stack' \in [Thread -> Stack]
    BY <1>1, <1>2, <2>1, <2>2, ShortStacks, StackPushed
  <2>4. HostTypes'
    BY <1>3, <2>1, <2>3 DEF IdleTimers, Inv, TypeOK, HostTypes, Stack
  <2> QED
    BY <1>3, <2>4, Untouched, Parts DEF IdleTimers, schedVars
<1>4. CASE IdleAudio
  <2>1. Callback(FALSE, FALSE) \in Frame
    BY FramesBuilt
  <2>2. \E fs \in Stack : Become(fs, Rest)
    BY <1>2, <1>4, <2>1, ShortStacks DEF IdleAudio
  <2> QED
    BY <1>1, <1>4, <2>2, PushStep DEF IdleAudio
<1>5. CASE IdleRetrace
  <2>1. RetraceFrames \o <<IdleLoop("check")>> \in Stack
    <3>1. Wakeup(EventQ(Retrace), FALSE) \in Frame /\ Callback(TRUE, FALSE) \in Frame
      BY FramesBuilt, QueueNames, RetraceAssumption
    <3> QED
      BY <1>2, <3>1, ShortStacks, ConcatProperties DEF RetraceFrames, Stack
  <2>2. stack' \in [Thread -> Stack]
    BY <1>1, <1>5, <2>1, StackPushed DEF IdleRetrace
  <2>3. HostTypes'
    BY <1>5, <2>2 DEF IdleRetrace, Inv, TypeOK, HostTypes, Stack, timerVars
  <2> QED
    BY <1>5, <2>3, Untouched, Parts DEF IdleRetrace, schedVars
<1>6. CASE IdleNoRetrace
  BY <1>1, <1>2, <1>6, ShortStacks, PushStep DEF IdleNoRetrace
<1>7. CASE IdleCheck
  <2>1. \E fs \in Stack : Become(fs, Rest)
    BY <1>2, <1>7, FramesBuilt, ShortStacks DEF IdleCheck
  <2> QED
    BY <1>1, <1>7, <2>1, PushStep DEF IdleCheck
<1> QED
  BY <1>3, <1>4, <1>5, <1>6, <1>7 DEF IdlePass

-----------------------------------------------------------------------------
(* What the actions do to their parts of the state.                         *)

(* Timers change in a step that pushes frames.                              *)
LEMMA TimersChanged ==
    ASSUME Inv, NEW fs \in Stack, NEW k \in Stack, Become(fs, k),
           timer' \in SUBSET Thread, outstanding' \in SUBSET Thread,
           seen' \in SUBSET Thread, UNCHANGED <<exec, inRetrace>>
    PROVE  HostTypes'
BY StackPushed DEF Inv, TypeOK, HostTypes, Stack

LEMMA OwnSets ==
    ASSUME Inv
    PROVE  /\ timer \in SUBSET Thread /\ outstanding \in SUBSET Thread
           /\ seen \in SUBSET Thread /\ exec \in Thread /\ stack[exec] \in Stack
           /\ owned \in [Thread -> SUBSET Mutex]
BY DEF Inv, TypeOK, HostTypes, MutexTypes, Stack

(* The priority computed from the waiters is a priority.                    *)
LEMMA EffectivePriorityType ==
    ASSUME Inv, NEW t \in Thread, NEW ms \in SUBSET Mutex
    PROVE  EffectivePriority(t, ms) \in AnyPrio
<1> DEFINE P == {base[t]} \cup {prio[Head(queue[MutexQ(m)])] :
                                   m \in {n \in ms : queue[MutexQ(n)] # <<>>}}
<1>1. base[t] \in AnyPrio
  BY QueueNames DEF Inv, TypeOK, ThreadTypes
<1>2. ASSUME NEW m \in ms, queue[MutexQ(m)] # <<>>
      PROVE  prio[Head(queue[MutexQ(m)])] \in AnyPrio
  <2>1. queue[MutexQ(m)] \in Seq(Thread)
    BY QueueNames DEF Inv, TypeOK, QueueTypes
  <2>2. Head(queue[MutexQ(m)]) \in Thread
    BY <1>2, <2>1, HeadTailProperties
  <2> QED
    BY <2>2 DEF Inv, TypeOK, ThreadTypes
<1>3. P \in SUBSET AnyPrio /\ P # {}
  BY <1>1, <1>2
<1>4. P \in SUBSET Nat
  BY <1>3, QueueNames
<1>5. Best(P) \in P
  BY <1>3, <1>4, BestIsLeast
<1> QED
  BY <1>3, <1>5 DEF EffectivePriority

(* A thread made READY is linked where its new priority says.               *)
LEMMA ReadyMade ==
    ASSUME Inv, NEW t \in Thread, NEW p \in AnyPrio, MadeReady(t, p),
           suspend' \in [Thread -> Nat], UNCHANGED <<base, detached, wants, listed>>
    PROVE  ThreadTypes' /\ QueuesInStep' /\ resched' \in BOOLEAN
<1> DEFINE s == InsertedByPriority(queue[RunQ(p)], t, p, prio)
<1>1. /\ queue[RunQ(p)] \in Seq(Thread) /\ p \in Nat /\ prio \in [Thread -> Nat]
      /\ RunQ(p) \in Queue
  BY QueueNames DEF Inv, TypeOK, QueueTypes, ThreadTypes
<1>2. s \in Seq(Thread) /\ s # <<>>
  BY <1>1, InsertedType
<1>3. /\ [queue EXCEPT ![RunQ(p)] = s] \in Queues
      /\ Exact([queue EXCEPT ![RunQ(p)] = s], pending \cup {p})
  BY <1>2, QueuesNow, RunQueueChanges
<1>4. queue' = [queue EXCEPT ![RunQ(p)] = s] /\ pending' = pending \cup {p}
  BY DEF MadeReady, PendingWith
<1>5. QueuesInStep'
  BY <1>3, <1>4, QueuesChanged
<1>6. ThreadTypes'
  BY <1>1 DEF MadeReady, Inv, TypeOK, ThreadTypes, State
<1> QED
  BY <1>5, <1>6 DEF MadeReady

(* A thread that changes its priority on the way.                           *)
LEMMA PriorityChanged ==
    ASSUME Inv, NEW t \in Thread, NEW p \in AnyPrio, SetThreadEffectivePriority(t, p),
           UNCHANGED <<state, suspend, base, detached, wants, listed>>
    PROVE  ThreadTypes' /\ QueuesInStep' /\ resched' \in BOOLEAN
<1>1. queueOf[t] \in Queue \cup {None} /\ state[t] \in State /\ resched \in BOOLEAN
  BY DEF Inv, TypeOK, ThreadTypes, GlobalTypes
<1>2. CASE state[t] = "READY"
  <2>1. /\ queue' = Requeued(t, RunQ(p), p)
        /\ pending' = PendingMoved(t, RunQ(p))
        /\ queueOf' = [queueOf EXCEPT ![t] = RunQ(p)]
        /\ prio' = [prio EXCEPT ![t] = p]
        /\ resched' = TRUE
    BY <1>2 DEF SetThreadEffectivePriority
  <2>2. RunQ(p) \in Queue
    BY QueueNames
  <2>3. QueuesInStep'
    BY <2>1, <2>2, Moving, QueuesChanged
  <2> QED
    BY <2>1, <2>2, <2>3 DEF Inv, TypeOK, ThreadTypes
<1>3. CASE state[t] = "RUNNING"
  <2>1. /\ prio' = [prio EXCEPT ![t] = p] /\ resched' = TRUE
        /\ UNCHANGED <<queue, pending, queueOf>>
    BY <1>3 DEF SetThreadEffectivePriority
  <2> QED
    BY <2>1, Untouched DEF Inv, TypeOK, ThreadTypes
<1>4. CASE state[t] = "WAITING"
  <2>1. /\ IF queueOf[t] = None
           THEN UNCHANGED <<queue, pending>>
           ELSE /\ queue' = Requeued(t, queueOf[t], p)
                /\ pending' = PendingMoved(t, queueOf[t])
        /\ prio' = [prio EXCEPT ![t] = p]
        /\ UNCHANGED <<queueOf, resched>>
    BY <1>4 DEF SetThreadEffectivePriority
  <2>2. QueuesInStep'
    BY <1>1, <2>1, Moving, QueuesChanged, Untouched
  <2> QED
    BY <1>1, <2>1, <2>2 DEF Inv, TypeOK, ThreadTypes
<1>5. CASE state[t] \notin {"READY", "RUNNING", "WAITING"}
  <2>1. UNCHANGED <<queue, pending, queueOf, prio, resched>>
    BY <1>5 DEF SetThreadEffectivePriority
  <2> QED
    BY <1>1, <2>1, Untouched DEF threadVars
<1> QED
  BY <1>2, <1>3, <1>4, <1>5

-----------------------------------------------------------------------------
(* The sleep timers and the reconciler.                                     *)

LEMMA TimerFiresStep == Inv /\ TimerFires => Inv'
<1> SUFFICES ASSUME Inv, TimerFires PROVE Inv'
  OBVIOUS
<1>1. Rest \in Stack /\ Top.due \in SUBSET Thread /\ Top.scan \in BOOLEAN
  BY StackTop, FrameFields DEF TimerFires
<1>2. PICK t \in Top.due :
         LET more == Timers(Top.due \ {t}, Top.scan)
         IN  IF state[t] = "RUNNING"
             THEN /\ timer' = timer \cup {t}
                  /\ Become(<<more>>, Rest)
                  /\ UNCHANGED outstanding
             ELSE /\ outstanding' = outstanding \ {t}
                  /\ Become(IF LooksParked(t)
                            THEN <<Resume(t), more>> ELSE <<more>>, Rest)
                  /\ UNCHANGED timer
  BY DEF TimerFires
<1>3. Timers(Top.due \ {t}, Top.scan) \in Frame /\ Resume(t) \in Frame /\ t \in Thread
  BY <1>1, FramesBuilt
<1>4. \E fs \in Stack : Become(fs, Rest)
  BY <1>2, <1>3, ShortStacks
<1>5. UNCHANGED <<threadVars, mutexVars, schedVars, seen, exec, inRetrace>>
  BY DEF TimerFires
<1>6. HostTypes'
  BY <1>1, <1>2, <1>3, <1>4, <1>5, OwnSets, TimersChanged
<1> QED
  BY <1>5, <1>6, Untouched, Parts DEF schedVars

LEMMA TimersDoneStep == Inv /\ TimersDone => Inv'
BY StackTop, ShortStacks, PushStep DEF TimersDone

LEMMA ReconcileStep == Inv /\ Reconcile => Inv'
<1> SUFFICES ASSUME Inv, Reconcile PROVE Inv'
  OBVIOUS
<1>1. PICK H \in SUBSET (Stranded \cap seen) :
         /\ outstanding' = outstanding \ (NotParked \cup H)
         /\ seen' = Stranded \ H
         /\ Become(<<Heal(H)>>, Rest)
  BY DEF Reconcile
<1>2. Stranded \in SUBSET Thread /\ H \in SUBSET Thread
  BY OwnSets DEF Stranded
<1>3. Rest \in Stack /\ <<Heal(H)>> \in Stack
  BY <1>2, StackTop, FramesBuilt, ShortStacks DEF Reconcile
<1>4. UNCHANGED <<threadVars, mutexVars, schedVars, timer, exec, inRetrace>>
  BY DEF Reconcile
<1>5. HostTypes'
  BY <1>1, <1>2, <1>3, <1>4, OwnSets, TimersChanged
<1> QED
  BY <1>4, <1>5, Untouched, Parts DEF schedVars

LEMMA HealSleeperStep == Inv /\ HealSleeper => Inv'
<1> SUFFICES ASSUME Inv, HealSleeper PROVE Inv'
  OBVIOUS
<1>1. Rest \in Stack /\ Top.lost \in SUBSET Thread
  BY StackTop, FrameFields DEF HealSleeper
<1>2. \A t \in Top.lost : Resume(t) \in Frame /\ Heal(Top.lost \ {t}) \in Frame
  BY <1>1, FramesBuilt
<1>3. \E fs \in Stack : Become(fs, Rest)
  BY <1>2, ShortStacks DEF HealSleeper
<1> QED
  BY <1>1, <1>3, PushStep DEF HealSleeper

-----------------------------------------------------------------------------
(* Wait queues.                                                             *)

LEMMA OSSleepThreadStep ==
    ASSUME Inv, NEW q \in WaitQueue, NEW k \in Stack, OSSleepThread(q, k)
    PROVE  Inv'
<1> DEFINE t == IF running = None THEN Main ELSE running
           c == IF running = None THEN Main ELSE current
           s == InsertedByPriority(queue[q], t, prio[t], prio)
<1>1. t \in Thread /\ c \in Thread \cup {None, Idle}
  BY MainAssumption DEF Inv, TypeOK, GlobalTypes
<1>2. /\ running' = t /\ current' = c
      /\ UNCHANGED <<suspend, prio, base, detached, wants, listed, mutexVars,
                     pending, disable, timerVars, exec, inRetrace>>
  BY DEF OSSleepThread
<1>3. MutexesAgree'
  BY <1>2, Untouched
<1>4. CASE disable # 0
  <2>1. /\ Become(<<>>, k)
        /\ UNCHANGED <<state, queueOf, queue, resched>>
    BY <1>4 DEF OSSleepThread
  <2>2. stack' \in [Thread -> Stack]
    BY <2>1, ShortStacks, StackPushed
  <2>3. ThreadTypes' /\ QueuesInStep' /\ HostTypes'
    BY <1>2, <2>1, <2>2, Untouched DEF threadVars
  <2>4. GlobalTypes'
    BY <1>1, <1>2, <2>1 DEF Inv, TypeOK, GlobalTypes
  <2> QED
    BY <1>3, <2>3, <2>4, Parts
<1>5. CASE disable = 0
  <2>1. /\ state' = [state EXCEPT ![t] = "WAITING"]
        /\ queueOf' = [queueOf EXCEPT ![t] = q]
        /\ queue' = [queue EXCEPT ![q] = InsertedByPriority(@, t, prio[t], prio)]
        /\ resched' = TRUE
        /\ Become(<<Select(FALSE), Slept(q, t)>>, k)
    BY <1>5 DEF OSSleepThread
  <2>2. /\ queue[q] \in Seq(Thread) /\ prio[t] \in Nat /\ prio \in [Thread -> Nat]
        /\ q \in Queue
    BY <1>1, QueueNames DEF Inv, TypeOK, QueueTypes, ThreadTypes
  <2>3. s \in Seq(Thread)
    BY <1>1, <2>2, InsertedType
  <2>4. queue' = [queue EXCEPT ![q] = s]
    BY <2>1
  <2>5. [queue EXCEPT ![q] = s] \in Queues /\ Exact([queue EXCEPT ![q] = s], pending)
    BY <2>3, QueuesNow, WaitQueueChanges
  <2>6. QueuesInStep'
    BY <1>2, <2>4, <2>5, QueuesChanged
  <2>7. ThreadTypes'
    BY <1>1, <1>2, <2>1, <2>2 DEF Inv, TypeOK, ThreadTypes, State
  <2>8. <<Select(FALSE), Slept(q, t)>> \in Stack
    BY <1>1, FramesBuilt, ShortStacks
  <2>9. stack' \in [Thread -> Stack]
    BY <2>1, <2>8, StackPushed
  <2>10. HostTypes'
    BY <1>2, <2>9, Untouched
  <2>11. GlobalTypes'
    BY <1>1, <1>2, <2>1 DEF Inv, TypeOK, GlobalTypes
  <2> QED
    BY <1>3, <2>6, <2>7, <2>10, <2>11, Parts
<1>6. disable \in Nat
  BY DEF Inv, TypeOK, GlobalTypes
<1> QED
  BY <1>4, <1>5, <1>6

LEMMA SleepReturnsStep == Inv /\ SleepReturns => Inv'
<1> SUFFICES ASSUME Inv, SleepReturns PROVE Inv'
  OBVIOUS
<1> DEFINE t == Top.t
           q == Top.q
<1>1. Rest \in Stack /\ t \in Thread /\ q \in WaitQueue
  BY StackTop, FrameFields DEF SleepReturns
<1>2. UNCHANGED <<suspend, prio, base, detached, wants, listed, mutexVars, pending,
                  resched, running, current, disable, timerVars, exec, inRetrace>>
  BY DEF SleepReturns
<1>3. stack' \in [Thread -> Stack]
  BY <1>1, ShortStacks, StackPushed DEF SleepReturns
<1>4. MutexesAgree' /\ GlobalTypes' /\ HostTypes'
  BY <1>2, <1>3, Untouched
<1>5. CASE state[t] = "WAITING" /\ queueOf[t] = q
  <2>1. /\ queue' = [queue EXCEPT ![q] = Unlinked(@, t)]
        /\ queueOf' = [queueOf EXCEPT ![t] = None]
        /\ state' = [state EXCEPT ![t] = "RUNNING"]
    BY <1>5 DEF SleepReturns
  <2>2. Unlinked(queue[q], t) \in Seq(Thread)
    BY <1>1, QueueNames, UnlinkedType DEF Inv, TypeOK, QueueTypes
  <2>3. queue' = [queue EXCEPT ![q] = Unlinked(queue[q], t)]
    BY <2>1
  <2>4. QueuesInStep'
    BY <1>1, <1>2, <2>2, <2>3, QueuesNow, WaitQueueChanges, QueuesChanged
  <2>5. ThreadTypes'
    BY <1>1, <1>2, <2>1 DEF Inv, TypeOK, ThreadTypes, State
  <2> QED
    BY <1>4, <2>4, <2>5, Parts
<1>6. CASE ~(state[t] = "WAITING" /\ queueOf[t] = q)
  <2>1. UNCHANGED <<queue, queueOf, state>>
    BY <1>6 DEF SleepReturns
  <2>2. ThreadTypes' /\ QueuesInStep'
    BY <1>2, <2>1, Untouched DEF threadVars
  <2> QED
    BY <1>4, <2>2, Parts
<1> QED
  BY <1>5, <1>6

(* A woken thread moves from its wait queue to the run queue of its         *)
(* priority, whose bit is set.                                              *)
LEMMA WakeHeadStep == Inv /\ WakeHead => Inv'
<1> SUFFICES ASSUME Inv, WakeHead PROVE Inv'
  OBVIOUS
<1> DEFINE q == Top.q
           t == Head(queue[q])
           p == IF prio[t] > LowestPrio THEN LowestPrio ELSE prio[t]
           left == [queue EXCEPT ![q] = Tail(@)]
<1>1. /\ Rest \in Stack /\ q \in WaitQueue /\ Wakeup(q, TRUE) \in Frame
      /\ queue[q] # <<>>
  BY StackTop, FrameFields, FramesBuilt DEF WakeHead
<1>2. queue[q] \in Seq(Thread)
  BY <1>1, QueueNames DEF Inv, TypeOK, QueueTypes
<1>3. t \in Thread /\ Tail(queue[q]) \in Seq(Thread)
  BY <1>1, <1>2, HeadTailProperties
<1>4. p \in AnyPrio
  BY <1>3, PrioAssumption DEF Inv, TypeOK, ThreadTypes, AnyPrio, SuspendedWaitPriority
<1>5. left = [queue EXCEPT ![q] = Tail(queue[q])]
  OBVIOUS
<1>6. left \in Queues /\ Exact(left, pending)
  BY <1>1, <1>3, <1>5, QueuesNow, WaitQueueChanges
<1>7. UNCHANGED <<suspend, prio, base, detached, wants, listed, mutexVars,
                  running, current, disable, timerVars, exec, inRetrace>>
  BY DEF WakeHead
<1>8. MutexesAgree'
  BY <1>7, Untouched
<1>9. CASE state[t] \in Terminated
  <2>1. /\ queue' = left /\ queueOf' = [queueOf EXCEPT ![t] = None]
        /\ UNCHANGED <<state, pending, resched, stack>>
    BY <1>9 DEF WakeHead
  <2>2. QueuesInStep'
    BY <1>6, <2>1, QueuesChanged
  <2>3. ThreadTypes'
    BY <1>3, <1>7, <2>1 DEF Inv, TypeOK, ThreadTypes
  <2>4. GlobalTypes' /\ HostTypes'
    BY <1>7, <2>1 DEF Inv, TypeOK, GlobalTypes, HostTypes, timerVars
  <2> QED
    BY <1>8, <2>2, <2>3, <2>4, Parts
<1>10. CASE state[t] \notin Terminated /\ RunsWhenWoken(t)
  <2>1. /\ state' = [state EXCEPT ![t] = "READY"]
        /\ queue' = [left EXCEPT ![RunQ(p)] = Append(@, t)]
        /\ queueOf' = [queueOf EXCEPT ![t] = RunQ(p)]
        /\ pending' = pending \cup {p}
        /\ resched' = TRUE
        /\ Become(<<Wakeup(q, TRUE)>>, Rest)
    BY <1>10 DEF WakeHead, PendingWith
  <2>2. RunQ(p) \in Queue
    BY <1>4, QueueNames
  <2>3. /\ Append(left[RunQ(p)], t) \in Seq(Thread)
        /\ Append(left[RunQ(p)], t) # <<>>
    <3> DEFINE s == left[RunQ(p)]
    <3>1. s \in Seq(Thread)
      BY <1>6, <2>2 DEF Queues
    <3> HIDE DEF s
    <3>2. Append(s, t) \in Seq(Thread) /\ Append(s, t) # <<>>
      BY <1>3, <3>1, AppendProperties
    <3> QED
      BY <3>2 DEF s
  <2>4. queue' = [left EXCEPT ![RunQ(p)] = Append(left[RunQ(p)], t)]
    BY <2>1
  <2>5. /\ [left EXCEPT ![RunQ(p)] = Append(left[RunQ(p)], t)] \in Queues
        /\ Exact([left EXCEPT ![RunQ(p)] = Append(left[RunQ(p)], t)], pending \cup {p})
    BY <1>4, <1>6, <2>3, RunQueueChanges
  <2>6. QueuesInStep'
    BY <2>1, <2>4, <2>5, QueuesChanged
  <2>7. ThreadTypes'
    BY <1>3, <1>7, <2>1, <2>2 DEF Inv, TypeOK, ThreadTypes, State
  <2>8. stack' \in [Thread -> Stack]
    BY <1>1, <2>1, ShortStacks, StackPushed
  <2>9. HostTypes'
    BY <1>7, <2>8, Untouched
  <2>10. GlobalTypes'
    BY <1>7, <2>1 DEF Inv, TypeOK, GlobalTypes
  <2> QED
    BY <1>8, <2>6, <2>7, <2>9, <2>10, Parts
<1>11. CASE state[t] \notin Terminated /\ ~RunsWhenWoken(t)
  <2>1. /\ state' = [state EXCEPT ![t] = "READY"] /\ queue' = left
        /\ UNCHANGED <<queueOf, pending, resched, stack>>
    BY <1>11 DEF WakeHead
  <2>2. QueuesInStep'
    BY <1>6, <2>1, QueuesChanged
  <2>3. ThreadTypes'
    BY <1>3, <1>7, <2>1 DEF Inv, TypeOK, ThreadTypes, State
  <2>4. GlobalTypes' /\ HostTypes'
    BY <1>7, <2>1 DEF Inv, TypeOK, GlobalTypes, HostTypes, timerVars
  <2> QED
    BY <1>8, <2>2, <2>3, <2>4, Parts
<1> QED
  BY <1>9, <1>10, <1>11

LEMMA WakeDoneStep == Inv /\ WakeDone => Inv'
<1> SUFFICES ASSUME Inv, WakeDone PROVE Inv'
  OBVIOUS
<1>1. \E fs \in Stack : Become(fs, Rest)
  BY FramesBuilt, ShortStacks DEF WakeDone
<1> QED
  BY <1>1, StackTop, PushStep DEF WakeDone

-----------------------------------------------------------------------------
(* Thread life cycle.                                                       *)

(* A new thread owns no mutex, and no fiber has frames for it.              *)
LEMMA OSCreateThreadStep ==
    ASSUME Inv, NEW t \in Thread, NEW p \in Prio, NEW d \in BOOLEAN,
           OSCreateThread(t, p, d)
    PROVE  Inv'
<1>1. MutexesAgree'
  BY DEF OSCreateThread, MutexesAgree, Inv, TypeOK, MutexTypes, MutexAgreement
<1>2. ThreadTypes'
  BY QueueNames DEF OSCreateThread, Inv, TypeOK, ThreadTypes, State
<1>3. QueuesInStep'
  <2>1. queue' = [queue EXCEPT ![JoinQ(t)] = <<>>] /\ pending' = pending
    BY DEF OSCreateThread
  <2>2. JoinQ(t) \in WaitQueue /\ <<>> \in Seq(Thread)
    BY QueueNames, EmptySeq
  <2>3. /\ [queue EXCEPT ![JoinQ(t)] = <<>>] \in Queues
        /\ Exact([queue EXCEPT ![JoinQ(t)] = <<>>], pending)
    BY <2>2, QueuesNow, WaitQueueChanges
  <2> QED
    BY <2>1, <2>3, QueuesChanged
<1>4. GlobalTypes'
  BY Untouched DEF OSCreateThread
<1>5. HostTypes'
  BY EmptySeq DEF OSCreateThread, Inv, TypeOK, HostTypes, timerVars
<1> QED
  BY <1>1, <1>2, <1>3, <1>4, <1>5, Parts

LEMMA RescheduleStep == Inv /\ Reschedule => Inv'
<1> SUFFICES ASSUME Inv, Reschedule PROVE Inv'
  OBVIOUS
<1>1. \E fs \in Stack : Become(fs, Rest)
  BY FramesBuilt, ShortStacks DEF Reschedule
<1> QED
  BY <1>1, StackTop, PushStep DEF Reschedule

(* The frames that follow a priority change of a waiting thread.            *)
LEMMA PropagateFrames ==
    ASSUME Inv, NEW t \in Thread
    PROVE  <<Propagate(OwnerOf(wants[t])), Resched>> \in Stack /\ <<Resched>> \in Stack
<1>1. OwnerOf(wants[t]) \in Thread \cup {None}
  BY DEF OwnerOf, Inv, TypeOK, ThreadTypes, MutexTypes
<1> QED
  BY <1>1, FramesBuilt, ShortStacks

(* The count of suspensions goes down to zero and stays there.              *)
LEMMA ResumedType ==
    ASSUME NEW n \in Nat PROVE Resumed(n) \in Nat
BY DEF Resumed

LEMMA OSResumeThreadStep ==
    ASSUME Inv, NEW t \in Thread, NEW k \in Stack, OSResumeThread(t, k)
    PROVE  Inv'
<1> DEFINE p == EffectivePriority(t, owned[t])
<1>1. /\ suspend' = [suspend EXCEPT ![t] = Resumed(@)]
      /\ UNCHANGED <<base, detached, wants, listed, mutexVars, running, current,
                     disable, seen, exec, inRetrace>>
  BY DEF OSResumeThread
<1>2. MutexesAgree'
  BY <1>1, Untouched
<1>3. suspend' \in [Thread -> Nat]
  BY <1>1, ResumedType DEF Inv, TypeOK, ThreadTypes
<1>4. p \in AnyPrio
  BY OwnSets, EffectivePriorityType
<1>5. queueOf[t] \in Queue \cup {None} /\ state[t] \in State /\ resched \in BOOLEAN
  BY DEF Inv, TypeOK, ThreadTypes, GlobalTypes
<1>6. \E fs \in Stack : Become(fs, k)
  BY PropagateFrames, ShortStacks DEF OSResumeThread
<1>7. HostTypes'
  <2>1. timer' \in SUBSET Thread /\ outstanding' \in SUBSET Thread /\ seen' \in SUBSET Thread
    BY <1>1, OwnSets DEF OSResumeThread
  <2> QED
    BY <1>1, <1>6, <2>1, TimersChanged
<1>8. CASE UNCHANGED <<state, prio, queueOf, queue, pending, resched>>
  <2>1. ThreadTypes'
    BY <1>1, <1>3, <1>8 DEF Inv, TypeOK, ThreadTypes
  <2>2. GlobalTypes'
    BY <1>1, <1>8, Untouched
  <2> QED
    BY <1>2, <1>7, <1>8, <2>1, <2>2, Untouched, Parts
<1>9. CASE suspend[t] = 1 /\ state[t] = "WAITING"
  <2>1. /\ prio' = [prio EXCEPT ![t] = p]
        /\ IF queueOf[t] = None
           THEN UNCHANGED <<queue, pending>>
           ELSE /\ queue' = Requeued(t, queueOf[t], p)
                /\ pending' = PendingMoved(t, queueOf[t])
        /\ UNCHANGED <<state, queueOf, resched>>
    BY <1>9 DEF OSResumeThread
  <2>2. QueuesInStep'
    BY <1>4, <1>5, <2>1, Moving, QueuesChanged, Untouched
  <2>3. ThreadTypes'
    BY <1>1, <1>3, <1>4, <2>1 DEF Inv, TypeOK, ThreadTypes
  <2>4. GlobalTypes'
    BY <1>1, <2>1, Untouched
  <2> QED
    BY <1>2, <1>7, <2>2, <2>3, <2>4, Parts
<1>10. CASE MadeReady(t, p)
  <2>1. ThreadTypes' /\ QueuesInStep' /\ resched' \in BOOLEAN
    BY <1>1, <1>3, <1>4, <1>10, ReadyMade
  <2>2. GlobalTypes'
    BY <1>1, <2>1 DEF Inv, TypeOK, GlobalTypes
  <2> QED
    BY <1>2, <1>7, <2>1, <2>2, Parts
<1>11. \/ UNCHANGED <<state, prio, queueOf, queue, pending, resched>>
       \/ suspend[t] = 1 /\ state[t] = "WAITING"
       \/ MadeReady(t, p)
  BY <1>5 DEF OSResumeThread
<1> QED
  BY <1>8, <1>9, <1>10, <1>11

LEMMA OSSuspendThreadStep ==
    ASSUME Inv, NEW t \in Thread, NEW k \in Stack, OSSuspendThread(t, k)
    PROVE  Inv'
<1>1. /\ suspend' = [suspend EXCEPT ![t] = @ + 1]
      /\ UNCHANGED <<base, detached, wants, listed, mutexVars, running, current,
                     disable, timerVars, exec, inRetrace>>
  BY DEF OSSuspendThread
<1>2. MutexesAgree'
  BY <1>1, Untouched
<1>3. suspend' \in [Thread -> Nat]
  BY <1>1 DEF Inv, TypeOK, ThreadTypes
<1>4. queueOf[t] \in Queue \cup {None} /\ state[t] \in State /\ resched \in BOOLEAN
  BY DEF Inv, TypeOK, ThreadTypes, GlobalTypes
<1>5. \E fs \in Stack : Become(fs, k)
  BY PropagateFrames, ShortStacks DEF OSSuspendThread
<1>6. HostTypes'
  BY <1>1, <1>5, StackPushed, Untouched
<1>7. CASE UNCHANGED <<state, prio, queueOf, queue, pending, resched>>
  <2>1. ThreadTypes'
    BY <1>1, <1>3, <1>7 DEF Inv, TypeOK, ThreadTypes
  <2>2. GlobalTypes'
    BY <1>1, <1>7, Untouched
  <2> QED
    BY <1>2, <1>6, <1>7, <2>1, <2>2, Untouched, Parts
<1>8. CASE Removed(t) /\ UNCHANGED <<state, prio, resched>>
  <2>1. QueuesInStep'
    BY <1>8, Removing, QueuesChanged DEF Removed
  <2>2. ThreadTypes'
    BY <1>1, <1>3, <1>8 DEF Removed, Inv, TypeOK, ThreadTypes
  <2>3. GlobalTypes'
    BY <1>1, <1>8, Untouched
  <2> QED
    BY <1>2, <1>6, <2>1, <2>2, <2>3, Parts
<1>9. CASE suspend[t] = 0 /\ state[t] = "RUNNING"
  <2>1. /\ resched' = TRUE /\ state' = [state EXCEPT ![t] = "READY"]
        /\ UNCHANGED <<prio, queueOf, queue, pending>>
    BY <1>9 DEF OSSuspendThread
  <2>2. ThreadTypes'
    BY <1>1, <1>3, <2>1 DEF Inv, TypeOK, ThreadTypes, State
  <2>3. GlobalTypes'
    BY <1>1, <2>1 DEF Inv, TypeOK, GlobalTypes
  <2> QED
    BY <1>2, <1>6, <2>1, <2>2, <2>3, Untouched, Parts
<1>10. CASE suspend[t] = 0 /\ state[t] = "WAITING"
  <2> DEFINE p == SuspendedWaitPriority
  <2>1. /\ prio' = [prio EXCEPT ![t] = p]
        /\ IF queueOf[t] = None
           THEN UNCHANGED <<queue, pending>>
           ELSE /\ queue' = Requeued(t, queueOf[t], p)
                /\ pending' = PendingMoved(t, queueOf[t])
        /\ UNCHANGED <<state, queueOf, resched>>
    BY <1>10 DEF OSSuspendThread
  <2>2. QueuesInStep'
    BY <1>4, <2>1, QueueNames, Moving, QueuesChanged, Untouched
  <2>3. ThreadTypes'
    BY <1>1, <1>3, <2>1, QueueNames DEF Inv, TypeOK, ThreadTypes
  <2>4. GlobalTypes'
    BY <1>1, <2>1, Untouched
  <2> QED
    BY <1>2, <1>6, <2>2, <2>3, <2>4, Parts
<1>11. \/ UNCHANGED <<state, prio, queueOf, queue, pending, resched>>
       \/ Removed(t) /\ UNCHANGED <<state, prio, resched>>
       \/ suspend[t] = 0 /\ state[t] \in {"RUNNING", "WAITING"}
  BY <1>4 DEF OSSuspendThread
<1> QED
  BY <1>7, <1>8, <1>9, <1>10, <1>11

(* The end of a thread starts with its state and its place in the list.     *)
LEMMA TerminateCallsType ==
    ASSUME NEW t \in Thread
    PROVE  /\ TerminateCalls(t) \o <<Exited>> \in Stack
           /\ TerminateCalls(t) \o <<Resched>> \in Stack
<1>1. /\ UnlockAll(t) \in Frame /\ Wakeup(JoinQ(t), FALSE) \in Frame
      /\ Exited \in Frame /\ Resched \in Frame
  BY FramesBuilt, QueueNames
<1> QED
  BY <1>1, ShortStacks, ConcatProperties DEF TerminateCalls, Stack

LEMMA OSExitThreadStep ==
    ASSUME Inv, running # None, NEW k \in Stack, OSExitThread(k)
    PROVE  Inv'
<1>1. running \in Thread
  BY DEF Inv, TypeOK, GlobalTypes
<1>2. /\ Terminate(running)
      /\ Become(TerminateCalls(running) \o <<Exited>>, k)
      /\ UNCHANGED <<suspend, prio, base, detached, queueOf, wants, mutexVars,
                     schedVars, timerVars, exec, inRetrace>>
  BY DEF OSExitThread
<1>3. ThreadTypes'
  BY <1>1, <1>2 DEF Terminate, Inv, TypeOK, ThreadTypes, State
<1>4. stack' \in [Thread -> Stack]
  BY <1>1, <1>2, TerminateCallsType, StackPushed
<1> QED
  BY <1>2, <1>3, <1>4, Untouched, Parts DEF schedVars

LEMMA ExitReschedulesStep == Inv /\ ExitReschedules => Inv'
<1> SUFFICES ASSUME Inv, ExitReschedules PROVE Inv'
  OBVIOUS
<1>1. stack' \in [Thread -> Stack]
  BY StackTop, FramesBuilt, ShortStacks, StackPushed DEF ExitReschedules
<1>2. GlobalTypes'
  BY DEF ExitReschedules, Inv, TypeOK, GlobalTypes
<1> QED
  BY <1>1, <1>2, Untouched, Parts DEF ExitReschedules

LEMMA OSCancelThreadStep ==
    ASSUME Inv, NEW t \in Thread, NEW k \in Stack, OSCancelThread(t, k)
    PROVE  Inv'
<1>1. /\ Terminate(t)
      /\ IF CancelUnlinks(t) THEN Removed(t) ELSE UNCHANGED <<queue, pending, queueOf>>
      /\ resched' = (resched \/ state[t] = "RUNNING")
      /\ Become(TerminateCalls(t) \o <<Resched>>, k)
      /\ UNCHANGED <<suspend, prio, base, detached, wants, mutexVars, running, current,
                     disable, timerVars, exec, inRetrace>>
  BY DEF OSCancelThread
<1>2. QueuesInStep'
  BY <1>1, Removing, QueuesChanged, Untouched DEF Removed
<1>3. queueOf' \in [Thread -> Queue \cup {None}]
  BY <1>1 DEF Removed, Inv, TypeOK, ThreadTypes
<1>4. ThreadTypes'
  BY <1>1, <1>3 DEF Terminate, Inv, TypeOK, ThreadTypes, State
<1>5. stack' \in [Thread -> Stack]
  BY <1>1, TerminateCallsType, StackPushed
<1>6. GlobalTypes'
  BY <1>1 DEF Inv, TypeOK, GlobalTypes
<1> QED
  BY <1>1, <1>2, <1>4, <1>5, <1>6, Untouched, Parts

(* A freed mutex leaves the list of its owner and has the count zero.       *)
LEMMA UnlockAllMutexesStep == Inv /\ UnlockAllMutexes => Inv'
<1> SUFFICES ASSUME Inv, UnlockAllMutexes PROVE Inv'
  OBVIOUS
<1> DEFINE t == Top.t
<1>1. /\ Rest \in Stack /\ Top \in Frame /\ t \in Thread
      /\ UNCHANGED <<threadVars, schedVars, timerVars, exec, inRetrace>>
  BY StackTop, FrameFields DEF UnlockAllMutexes
<1>2. CASE owned[t] = {}
  <2>1. Become(<<>>, Rest) /\ UNCHANGED mutexVars
    BY <1>2 DEF UnlockAllMutexes
  <2> QED
    BY <1>1, <2>1, ShortStacks, PushStep
<1>3. CASE owned[t] # {}
  <2>1. PICK m \in owned[t] :
           /\ owned' = [owned EXCEPT ![t] = @ \ {m}]
           /\ owner' = [owner EXCEPT ![m] = None]
           /\ count' = [count EXCEPT ![m] = 0]
           /\ Become(WakeWaiters(m) \o <<Top>>, Rest)
    BY <1>3 DEF UnlockAllMutexes
  <2>2. m \in Mutex /\ owner[m] = t
    BY <1>1, <2>1 DEF Inv, TypeOK, MutexTypes, MutexAgreement
  <2>3. MutexesAgree'
    BY <1>1, <2>1, <2>2, NoneAssumption
       DEF MutexesAgree, Inv, TypeOK, MutexTypes, MutexAgreement
  <2>4. WakeWaiters(m) \o <<Top>> \in Stack
    <3>1. Wakeup(MutexQ(m), FALSE) \in Frame
      BY <2>2, FramesBuilt, QueueNames
    <3> QED
      BY <1>1, <3>1, ShortStacks, ConcatProperties DEF WakeWaiters, Stack
  <2>5. stack' \in [Thread -> Stack]
    BY <1>1, <2>1, <2>4, StackPushed
  <2> QED
    BY <1>1, <2>3, <2>5, Untouched, Parts DEF schedVars
<1> QED
  BY <1>2, <1>3

(* A thread is reaped at most: its state becomes NONE, it leaves the list.  *)
LEMMA ReapedType ==
    ASSUME Inv, NEW t \in Thread, Reaped(t), detached' \in [Thread -> BOOLEAN],
           UNCHANGED <<suspend, prio, base, queueOf, wants>>
    PROVE  ThreadTypes'
BY DEF Reaped, Inv, TypeOK, ThreadTypes, State

LEMMA OSJoinThreadStep ==
    ASSUME Inv, NEW t \in Thread, NEW k \in Stack, OSJoinThread(t, k)
    PROVE  Inv'
<1>1. UNCHANGED <<suspend, prio, base, detached, queueOf, wants, mutexVars,
                  schedVars, timerVars, exec, inRetrace>>
  BY DEF OSJoinThread
<1>2. (UNCHANGED <<listed, state>> \/ Reaped(t)) /\ \E fs \in Stack : Become(fs, k)
  BY QueueNames, FramesBuilt, ShortStacks DEF OSJoinThread
<1>3. stack' \in [Thread -> Stack]
  BY <1>2, StackPushed
<1>4. ThreadTypes'
  <2>1. CASE UNCHANGED <<listed, state>>
    BY <1>1, <2>1, Untouched DEF threadVars
  <2>2. CASE Reaped(t)
    <3>1. detached' \in [Thread -> BOOLEAN]
      BY <1>1 DEF Inv, TypeOK, ThreadTypes
    <3> QED
      BY <1>1, <2>2, <3>1, ReapedType
  <2> QED
    BY <1>2, <2>1, <2>2
<1> QED
  BY <1>1, <1>3, <1>4, Untouched, Parts DEF schedVars

LEMMA JoinReturnsStep == Inv /\ JoinReturns => Inv'
<1> SUFFICES ASSUME Inv, JoinReturns PROVE Inv'
  OBVIOUS
<1>1. /\ Rest \in Stack /\ Top.t \in Thread
      /\ UNCHANGED <<suspend, prio, base, detached, queueOf, wants, mutexVars,
                     schedVars, timerVars, exec, inRetrace>>
  BY StackTop, FrameFields DEF JoinReturns
<1>2. stack' \in [Thread -> Stack]
  BY <1>1, ShortStacks, StackPushed DEF JoinReturns
<1>3. detached' \in [Thread -> BOOLEAN]
  BY <1>1 DEF Inv, TypeOK, ThreadTypes
<1>4. ThreadTypes'
  BY <1>1, <1>3, ReapedType DEF JoinReturns
<1> QED
  BY <1>1, <1>2, <1>4, Untouched, Parts DEF schedVars

LEMMA OSDetachThreadStep ==
    ASSUME Inv, NEW t \in Thread, NEW k \in Stack, OSDetachThread(t, k)
    PROVE  Inv'
<1>1. detached' \in [Thread -> BOOLEAN]
  BY DEF OSDetachThread, Inv, TypeOK, ThreadTypes
<1>2. ThreadTypes'
  BY <1>1, ReapedType DEF OSDetachThread
<1>3. <<Wakeup(JoinQ(t), FALSE)>> \in Stack
  BY QueueNames, FramesBuilt, ShortStacks
<1>4. stack' \in [Thread -> Stack]
  BY <1>3, StackPushed DEF OSDetachThread
<1> QED
  BY <1>2, <1>4, Untouched, Parts DEF OSDetachThread, schedVars

LEMMA OSSleepTicksStep ==
    ASSUME Inv, NEW k \in Stack, OSSleepTicks(k)
    PROVE  Inv'
<1>1. /\ running \in Thread
      /\ UNCHANGED <<threadVars, mutexVars, schedVars, seen, exec, inRetrace>>
  BY DEF OSSleepTicks, Inv, TypeOK, GlobalTypes
<1>2. timer' \in SUBSET Thread /\ outstanding' \in SUBSET Thread /\ seen' \in SUBSET Thread
  BY <1>1, OwnSets DEF OSSleepTicks
<1>3. \E fs \in Stack : Become(fs, k)
  BY <1>1, FramesBuilt, ShortStacks DEF OSSleepTicks
<1>4. HostTypes'
  BY <1>1, <1>2, <1>3, TimersChanged
<1> QED
  BY <1>1, <1>4, Untouched, Parts DEF schedVars

LEMMA ParkReturnsStep == Inv /\ ParkReturns => Inv'
<1> SUFFICES ASSUME Inv, ParkReturns PROVE Inv'
  OBVIOUS
<1>1. /\ Rest \in Stack /\ Become(<<>>, Rest)
      /\ UNCHANGED <<prio, base, detached, queueOf, wants, listed, mutexVars,
                     schedVars, seen, exec, inRetrace>>
  BY StackTop DEF ParkReturns
<1>2. timer' \in SUBSET Thread /\ outstanding' \in SUBSET Thread /\ seen' \in SUBSET Thread
  BY <1>1, OwnSets DEF ParkReturns
<1>3. HostTypes'
  BY <1>1, <1>2, ShortStacks, TimersChanged
<1>4. ThreadTypes'
  <2>1. suspend' \in [Thread -> Nat] /\ state' \in [Thread -> State]
    <3>1. suspend \in [Thread -> Nat] /\ state \in [Thread -> State] /\ exec \in Thread
      BY OwnSets DEF Inv, TypeOK, ThreadTypes
    <3>2. CASE suspend[exec] > 0
      <4>1. /\ suspend' = [suspend EXCEPT ![exec] = @ - 1]
            /\ state' = state \/ state' = [state EXCEPT ![exec] = "RUNNING"]
        BY <3>2 DEF ParkReturns
      <4>2. suspend[exec] - 1 \in Nat
        BY <3>1, <3>2
      <4> QED
        BY <3>1, <4>1, <4>2 DEF State
    <3>3. CASE ~(suspend[exec] > 0)
      BY <3>1, <3>3 DEF ParkReturns
    <3> QED
      BY <3>2, <3>3
  <2> QED
    BY <1>1, <2>1 DEF Inv, TypeOK, ThreadTypes
<1> QED
  BY <1>1, <1>3, <1>4, Untouched, Parts DEF schedVars

-----------------------------------------------------------------------------
(* Mutexes and priority inheritance.                                        *)

LEMMA OSLockMutexStep ==
    ASSUME Inv, NEW m \in Mutex, NEW k \in Stack, OSLockMutex(m, k)
    PROVE  Inv'
<1>1. UNCHANGED <<state, suspend, prio, base, detached, queueOf, listed,
                  schedVars, timerVars, exec, inRetrace>>
  BY DEF OSLockMutex
<1>2. CASE running = None
  <2>1. Become(<<>>, k) /\ UNCHANGED <<owner, count, owned, wants>>
    BY <1>2 DEF OSLockMutex
  <2>2. UNCHANGED <<threadVars, mutexVars>>
    BY <1>1, <2>1 DEF threadVars, mutexVars
  <2> QED
    BY <1>1, <2>1, <2>2, ShortStacks, PushStep
<1>3. CASE running # None /\ owner[m] \in {None, running}
  <2>1. /\ running \in Thread
        /\ owner' = [owner EXCEPT ![m] = running]
        /\ count' = [count EXCEPT ![m] = @ + 1]
        /\ owned' = IF owner[m] = None
                    THEN [owned EXCEPT ![running] = @ \cup {m}]
                    ELSE owned
        /\ wants' = [wants EXCEPT ![running] = None]
        /\ Become(<<>>, k)
    BY <1>3 DEF OSLockMutex, Inv, TypeOK, GlobalTypes
  <2>2. MutexesAgree'
    BY <1>3, <2>1, NoneAssumption
       DEF MutexesAgree, Inv, TypeOK, MutexTypes, MutexAgreement
  <2>3. ThreadTypes'
    BY <1>1, <2>1 DEF Inv, TypeOK, ThreadTypes
  <2>4. stack' \in [Thread -> Stack]
    BY <2>1, ShortStacks, StackPushed
  <2> QED
    BY <1>1, <2>2, <2>3, <2>4, Untouched, Parts DEF schedVars
<1>4. CASE running # None /\ owner[m] \notin {None, running}
  <2>1. /\ wants' = [wants EXCEPT ![running] = m]
        /\ Become(<<Promote(owner[m], prio[running]), Sleep(MutexQ(m)), Lock(m)>>, k)
        /\ UNCHANGED <<owner, count, owned>>
    BY <1>4 DEF OSLockMutex
  <2>2. owner[m] \in Thread \cup {None} /\ running \in Thread
        /\ prio[running] \in AnyPrio
    BY <1>4 DEF Inv, TypeOK, MutexTypes, GlobalTypes, ThreadTypes
  <2>3. /\ Promote(owner[m], prio[running]) \in Frame /\ Lock(m) \in Frame
        /\ Sleep(MutexQ(m)) \in Frame
    BY <2>2, QueueNames, FramesBuilt
  <2>4. stack' \in [Thread -> Stack]
    BY <2>1, <2>3, ShortStacks, StackPushed
  <2>5. ThreadTypes'
    BY <1>1, <2>1, <2>2 DEF Inv, TypeOK, ThreadTypes
  <2>6. MutexesAgree'
    BY <2>1, Untouched DEF mutexVars
  <2> QED
    BY <1>1, <2>4, <2>5, <2>6, Untouched, Parts DEF schedVars
<1> QED
  BY <1>2, <1>3, <1>4

LEMMA NextOwnerType ==
    ASSUME Inv, NEW t \in Thread
    PROVE  NextOwner(t) \in Thread \cup {None}
BY DEF NextOwner, OwnerOf, Inv, TypeOK, ThreadTypes, MutexTypes

(* One round along a chain of owners.                                       *)
LEMMA ChainStep ==
    ASSUME Inv, NEW t \in Thread, NEW p \in AnyPrio, NEW fs \in Stack, NEW k \in Stack,
           SetThreadEffectivePriority(t, p), Become(fs, k),
           UNCHANGED <<state, suspend, base, detached, wants, listed, mutexVars,
                       running, current, disable, timerVars, exec, inRetrace>>
    PROVE  Inv'
<1>1. ThreadTypes' /\ QueuesInStep' /\ resched' \in BOOLEAN
  BY PriorityChanged
<1>2. GlobalTypes'
  BY <1>1 DEF Inv, TypeOK, GlobalTypes
<1>3. stack' \in [Thread -> Stack]
  BY StackPushed
<1> QED
  BY <1>1, <1>2, <1>3, Untouched, Parts

LEMMA PromoteStepStep == Inv /\ PromoteStep => Inv'
<1> SUFFICES ASSUME Inv, PromoteStep PROVE Inv'
  OBVIOUS
<1>1. /\ Rest \in Stack /\ Top.o \in Thread \cup {None} /\ Top.p \in AnyPrio
      /\ UNCHANGED <<state, suspend, base, detached, wants, listed, mutexVars,
                     running, current, disable, timerVars, exec, inRetrace>>
  BY StackTop, FrameFields DEF PromoteStep
<1>2. CASE Become(<<>>, Rest) /\ UNCHANGED <<queue, pending, queueOf, prio, resched>>
  BY <1>1, <1>2, ShortStacks, PushStep DEF threadVars, schedVars
<1>3. CASE /\ Top.o # None
           /\ SetThreadEffectivePriority(Top.o, Top.p)
           /\ Become(<<Promote(NextOwner(Top.o), Top.p)>>, Rest)
  <2>1. <<Promote(NextOwner(Top.o), Top.p)>> \in Stack
    BY <1>1, <1>3, NextOwnerType, FramesBuilt, ShortStacks
  <2> QED
    BY <1>1, <1>3, <2>1, ChainStep
<1> QED
  BY <1>2, <1>3 DEF PromoteStep

LEMMA PropagateStepStep == Inv /\ PropagateStep => Inv'
<1> SUFFICES ASSUME Inv, PropagateStep PROVE Inv'
  OBVIOUS
<1> DEFINE p == EffectivePriority(Top.o, owned[Top.o])
<1>1. /\ Rest \in Stack /\ Top.o \in Thread \cup {None}
      /\ UNCHANGED <<state, suspend, base, detached, wants, listed, mutexVars,
                     running, current, disable, timerVars, exec, inRetrace>>
  BY StackTop, FrameFields DEF PropagateStep
<1>2. CASE Become(<<>>, Rest) /\ UNCHANGED <<queue, pending, queueOf, prio, resched>>
  BY <1>1, <1>2, ShortStacks, PushStep DEF threadVars, schedVars
<1>3. CASE /\ Top.o # None
           /\ SetThreadEffectivePriority(Top.o, p)
           /\ Become(<<Propagate(NextOwner(Top.o))>>, Rest)
  <2>1. <<Propagate(NextOwner(Top.o))>> \in Stack
    BY <1>1, <1>3, NextOwnerType, FramesBuilt, ShortStacks
  <2>2. p \in AnyPrio
    BY <1>1, <1>3, OwnSets, EffectivePriorityType
  <2> QED
    BY <1>1, <1>3, <2>1, <2>2, ChainStep
<1> QED
  BY <1>2, <1>3 DEF PropagateStep

(* Counting down keeps the count a number, because the caller owns the      *)
(* mutex, and reaches zero exactly when the mutex is freed.                 *)
LEMMA OSUnlockMutexStep ==
    ASSUME Inv, NEW m \in Mutex, NEW k \in Stack, OSUnlockMutex(m, k)
    PROVE  Inv'
<1>1. UNCHANGED <<state, suspend, base, detached, queueOf, wants, listed,
                  schedVars, timerVars, exec, inRetrace>>
  BY DEF OSUnlockMutex
<1>2. CASE ~MayUnlock(m)
  <2>1. Become(<<>>, k) /\ UNCHANGED <<owner, count, owned, prio>>
    BY <1>2 DEF OSUnlockMutex
  <2>2. UNCHANGED <<threadVars, mutexVars>>
    BY <1>1, <2>1 DEF threadVars, mutexVars
  <2> QED
    BY <1>1, <2>1, <2>2, ShortStacks, PushStep
<1>3. CASE MayUnlock(m)
  <2>1. /\ running \in Thread /\ owner[m] = running /\ running # None
        /\ count[m] \in Nat \ {0} /\ count \in [Mutex -> Nat]
        /\ owner \in [Mutex -> Thread \cup {None}]
        /\ owned \in [Thread -> SUBSET Mutex]
    BY <1>3 DEF MayUnlock, Inv, TypeOK, GlobalTypes, MutexTypes, MutexAgreement
  <2>2. CASE count[m] # 1
    <3>1. /\ count' = [count EXCEPT ![m] = @ - 1]
          /\ Become(<<>>, k)
          /\ UNCHANGED <<owner, owned, prio>>
      BY <1>3, <2>2 DEF OSUnlockMutex
    <3>2. count[m] - 1 \in Nat \ {0}
      BY <2>1, <2>2
    <3>3. MutexesAgree'
      BY <2>1, <3>1, <3>2 DEF MutexesAgree, Inv, MutexTypes, MutexAgreement
    <3>4. UNCHANGED threadVars
      BY <1>1, <3>1 DEF threadVars
    <3>5. stack' \in [Thread -> Stack]
      BY <3>1, ShortStacks, StackPushed
    <3> QED
      BY <1>1, <3>3, <3>4, <3>5, Untouched, Parts DEF schedVars
  <2>3. CASE count[m] = 1
    <3>1. /\ count' = [count EXCEPT ![m] = @ - 1]
          /\ owner' = [owner EXCEPT ![m] = None]
          /\ owned' = [owned EXCEPT ![running] = @ \ {m}]
          /\ prio' = IF prio[running] < base[running]
                     THEN [prio EXCEPT ![running] =
                              EffectivePriority(running, owned[running] \ {m})]
                     ELSE prio
          /\ Become(WakeWaiters(m), k)
      BY <1>3, <2>3 DEF OSUnlockMutex
    <3>2. count' = [count EXCEPT ![m] = 0]
      BY <2>1, <2>3, <3>1
    <3>3. MutexesAgree'
      BY <2>1, <3>1, <3>2, NoneAssumption
         DEF MutexesAgree, Inv, MutexTypes, MutexAgreement
    <3>4. EffectivePriority(running, owned[running] \ {m}) \in AnyPrio
      BY <2>1, EffectivePriorityType
    <3>5. ThreadTypes'
      BY <1>1, <2>1, <3>1, <3>4 DEF Inv, TypeOK, ThreadTypes
    <3>6. WakeWaiters(m) \in Stack
      BY QueueNames, FramesBuilt, ShortStacks DEF WakeWaiters
    <3>7. stack' \in [Thread -> Stack]
      BY <3>1, <3>6, StackPushed
    <3> QED
      BY <1>1, <3>3, <3>5, <3>7, Untouched, Parts DEF schedVars
  <2> QED
    BY <2>2, <2>3
<1> QED
  BY <1>2, <1>3

-----------------------------------------------------------------------------
(* The guest program and its callbacks.                                     *)

(* AdvanceRetrace, and a deferred callback: the guard flag and the counter  *)
(* of disabled rescheduling change.                                         *)
LEMMA InterruptStep ==
    ASSUME Inv, NEW fs \in Stack, NEW k \in Stack, Become(fs, k),
           inRetrace' \in BOOLEAN, disable' \in Nat,
           UNCHANGED <<threadVars, mutexVars, queue, pending, resched, running, current,
                       timerVars, exec>>
    PROVE  Inv'
<1>1. stack' \in [Thread -> Stack]
  BY StackPushed
<1>2. HostTypes'
  BY <1>1 DEF Inv, TypeOK, HostTypes, timerVars, Stack
<1>3. GlobalTypes'
  BY DEF Inv, TypeOK, GlobalTypes
<1> QED
  BY <1>2, <1>3, Untouched, Parts

LEMMA RetraceFramesType ==
    /\ RetraceFrames \in Stack
    /\ <<Wakeup(EventQ(Retrace), FALSE), Callback(TRUE, TRUE)>> \in Stack
    /\ <<Callback(FALSE, TRUE)>> \in Stack
    /\ \A e \in Event : <<Wakeup(EventQ(e), FALSE)>> \in Stack
BY QueueNames, RetraceAssumption, FramesBuilt, ShortStacks DEF RetraceFrames

LEMMA GuestStepStep == Inv /\ GuestStep => Inv'
<1> SUFFICES ASSUME Inv, GuestStep PROVE Inv'
  OBVIOUS
<1>1. <<>> \in Stack
  BY ShortStacks
<1>2. disable \in Nat /\ disable + 1 \in Nat /\ inRetrace \in BOOLEAN
  BY DEF Inv, TypeOK, GlobalTypes, HostTypes
<1>3. CASE GuestCreates
  BY <1>3, OSCreateThreadStep DEF GuestCreates, Alive
<1>4. CASE GuestResumes
  BY <1>1, <1>4, OSResumeThreadStep DEF GuestResumes, Alive
<1>5. CASE GuestSuspends
  BY <1>1, <1>5, OSSuspendThreadStep DEF GuestSuspends, Alive
<1>6. CASE GuestSleeps
  BY <1>1, <1>6, QueueNames, OSSleepThreadStep DEF GuestSleeps
<1>7. CASE GuestWakes
  BY <1>1, <1>7, RetraceFramesType, PushStep DEF GuestWakes
<1>8. CASE GuestYields
  <2>1. <<Select(TRUE)>> \in Stack
    BY FramesBuilt, ShortStacks
  <2> QED
    BY <1>1, <1>8, <2>1, PushStep DEF GuestYields
<1>9. CASE GuestLocks
  BY <1>1, <1>9, OSLockMutexStep DEF GuestLocks
<1>10. CASE GuestUnlocks
  BY <1>1, <1>10, OSUnlockMutexStep DEF GuestUnlocks
<1>11. CASE GuestExits
  BY <1>1, <1>11, OSExitThreadStep DEF GuestExits
<1>12. CASE GuestCancels
  BY <1>1, <1>12, OSCancelThreadStep DEF GuestCancels
<1>13. CASE GuestJoins
  BY <1>1, <1>13, OSJoinThreadStep DEF GuestJoins, Alive
<1>14. CASE GuestDetaches
  BY <1>1, <1>14, OSDetachThreadStep DEF GuestDetaches, Alive
<1>15. CASE GuestSleepsTicks
  BY <1>1, <1>15, OSSleepTicksStep DEF GuestSleepsTicks
<1>16. CASE GuestPollsRetrace
  BY <1>1, <1>2, <1>16, RetraceFramesType, InterruptStep
     DEF GuestPollsRetrace, schedVars
<1>17. CASE DeferredRetrace
  BY <1>1, <1>2, <1>17, RetraceFramesType, InterruptStep DEF DeferredRetrace
<1>18. CASE DeferredAudio
  BY <1>1, <1>2, <1>18, RetraceFramesType, InterruptStep DEF DeferredAudio
<1> QED
  BY <1>3, <1>4, <1>5, <1>6, <1>7, <1>8, <1>9, <1>10, <1>11, <1>12, <1>13, <1>14,
     <1>15, <1>16, <1>17, <1>18 DEF GuestStep

LEMMA CallbackStepStep == Inv /\ CallbackStep => Inv'
<1> SUFFICES ASSUME Inv, CallbackStep PROVE Inv'
  OBVIOUS
<1>1. stack[exec] \in Stack
  BY OwnSets
<1>2. CASE CallbackWakes
  BY <1>1, <1>2, RetraceFramesType, PushStep DEF CallbackWakes
<1>3. CASE CallbackResumes
  BY <1>1, <1>3, OSResumeThreadStep DEF CallbackResumes, Alive
<1>4. CASE CallbackReturns
  <2>1. Rest \in Stack /\ <<>> \in Stack /\ Top.retrace \in BOOLEAN /\ Top.deferred \in BOOLEAN
    BY <1>4, StackTop, FrameFields, ShortStacks DEF CallbackReturns, CallbackCode
  <2>2. disable \in Nat /\ (disable > 0 => disable - 1 \in Nat)
    BY DEF Inv, TypeOK, GlobalTypes
  <2>3. inRetrace' \in BOOLEAN /\ disable' \in Nat
    BY <1>4, <2>1, <2>2 DEF CallbackReturns
  <2> QED
    BY <1>4, <2>1, <2>3, InterruptStep DEF CallbackReturns
<1> QED
  BY <1>2, <1>3, <1>4 DEF CallbackStep

(* Every step inside a call.                                                *)
LEMMA ContinueStep == Inv /\ Continue => Inv'
<1> SUFFICES ASSUME Inv, Continue PROVE Inv'
  OBVIOUS
<1>1. CASE SleepCall
  <2>1. Rest \in Stack /\ Top.q \in WaitQueue /\ OSSleepThread(Top.q, Rest)
    BY <1>1, StackTop, FrameFields DEF SleepCall
  <2> QED
    BY <2>1, OSSleepThreadStep
<1>2. CASE ResumeCall
  <2>1. Rest \in Stack /\ Top.t \in Thread /\ OSResumeThread(Top.t, Rest)
    BY <1>2, StackTop, FrameFields DEF ResumeCall
  <2> QED
    BY <2>1, OSResumeThreadStep
<1>3. CASE SuspendCall
  <2>1. Rest \in Stack /\ Top.t \in Thread /\ OSSuspendThread(Top.t, Rest)
    BY <1>3, StackTop, FrameFields DEF SuspendCall
  <2> QED
    BY <2>1, OSSuspendThreadStep
<1>4. CASE LockRetry
  <2>1. Rest \in Stack /\ Top.m \in Mutex /\ OSLockMutex(Top.m, Rest)
    BY <1>4, StackTop, FrameFields DEF LockRetry
  <2> QED
    BY <2>1, OSLockMutexStep
<1> QED
  BY <1>1, <1>2, <1>3, <1>4, SelectThreadStep, SelectThreadFirstTimersStep,
     DispatchThreadStep, TimerFiresStep, TimersDoneStep, ReconcileStep, HealSleeperStep,
     SleepReturnsStep, WakeHeadStep, WakeDoneStep, RescheduleStep, ExitReschedulesStep,
     UnlockAllMutexesStep, JoinReturnsStep, ParkReturnsStep, PromoteStepStep,
     PropagateStepStep
     DEF Continue

-----------------------------------------------------------------------------
(* The theorems.                                                            *)

LEMMA InitInv == Init => Inv
<1> SUFFICES ASSUME Init PROVE Inv
  OBVIOUS
<1>1. ThreadTypes
  <2>1. prio \in [Thread -> AnyPrio] /\ base \in [Thread -> Prio]
    <3>1. 0 \in Prio
      BY PrioAssumption DEF Prio
    <3> QED
      BY <3>1, QueueNames DEF Init
  <2>2. state \in [Thread -> State]
    BY DEF Init, State
  <2> QED
    BY <2>1, <2>2, MainAssumption DEF Init, ThreadTypes
<1>5. GlobalTypes
  BY MainAssumption DEF Init, GlobalTypes
<1>2. MutexTypes /\ MutexAgreement
  BY DEF Init, MutexTypes, MutexAgreement
<1>3. QueueTypes /\ PendingExact
  BY QueueNames, EmptySeq DEF Init, QueueTypes, PendingExact
<1>4. HostTypes
  BY MainAssumption, EmptySeq DEF Init, HostTypes
<1> QED
  BY <1>1, <1>2, <1>3, <1>4, <1>5 DEF Inv, TypeOK

LEMMA NextInv == Inv /\ [Next]_vars => Inv'
<1> SUFFICES ASSUME Inv, [Next]_vars PROVE Inv'
  OBVIOUS
<1>1. CASE UNCHANGED vars
  <2>1. stack' \in [Thread -> Stack]
    BY <1>1 DEF vars, hostVars, Inv, TypeOK, HostTypes, Stack
  <2> QED
    BY <1>1, <2>1, Untouched, Parts DEF vars, hostVars, schedVars
<1> QED
  BY <1>1, ContinueStep, IdlePassStep, CallbackStepStep, GuestStepStep DEF Next

THEOREM Invariant == Spec => []Inv
BY InitInv, NextInv, PTL DEF Spec

(* Type correctness, for any number of threads, mutexes and priorities.     *)
THEOREM TypesCorrect == Spec => []TypeOK
<1>1. Inv => TypeOK
  BY DEF Inv
<1> QED
  BY <1>1, Invariant, PTL

(* The pending mask has exactly the bits of the run queues that hold a      *)
(* thread, after every step of every operation: SelectThread never misses a *)
(* runnable thread and never finds a bit without one.                       *)
THEOREM PendingMaskExact == Spec => []PendingExact
<1>1. Inv => PendingExact
  BY DEF Inv
<1> QED
  BY <1>1, Invariant, PTL

(* A thread that lists a mutex as its own is named by the owner word, and   *)
(* the count of a mutex is zero exactly when nobody owns it.                *)
THEOREM MutexesConsistent == Spec => []MutexAgreement
<1>1. Inv => MutexAgreement
  BY DEF Inv
<1> QED
  BY <1>1, Invariant, PTL
=============================================================================
