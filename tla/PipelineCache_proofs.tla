------------------------ MODULE PipelineCache_proofs ------------------------
(* The bookkeeping of the pipeline cache is exact, keeps what the frames    *)
(* asked for and forgets no sleeper, for any set of pipelines, any number   *)
(* of workers, any limit on the queue and any length of a frame.            *)
EXTENDS PipelineCache, SequenceLemmas, FiniteSetTheorems

-----------------------------------------------------------------------------
(* The inductive invariant.                                                 *)

At(x) == {w \in Workers : wpc[w] = x}

Apart(pr, bg) ==
    /\ pr \in Seq(Pipelines) /\ bg \in Seq(Pipelines)
    /\ IsInjective(pr) /\ IsInjective(bg)
    /\ Range(pr) \cap Range(bg) = {}

(* Every pending build has one place: an entry of one of the queues, or a   *)
(* worker.                                                                  *)
OneOwner ==
    /\ Apart(priority, background)
    /\ \A w \in At("compile") : job[w] \in Pipelines /\ job[w] \notin Queued
    /\ \A v, w \in At("compile") : job[v] = job[w] => v = w

Builds == OneOwner /\ IsFiniteSet(pending) /\ PendingExact /\ QueuedCounts

(* Where the threads are, and what each of them has in hand there.          *)
Places ==
    /\ pc \in {"create", "notifyOne", "notifyAll"} =>
         draw \in Draw /\ Len(recorded) < MaxDraws
    /\ removedPending => pc = "notifyAll"
    /\ threadEnd <=> pc \in {"wake", "join", "down"}
    /\ threadEnd => cpc = "ended"
    /\ cpc \in {"wait", "persistent", "promoted"} => sealed # << >>
    /\ pc \in {"load", "notifyLoad"} => sealed = << >>
    /\ \A w \in Workers : w \in cv => wpc[w] = "check"
    /\ Consumer \in cv => cpc \in {"wait", "promoted"}

(* What a frame asked for is never in the background, where the limit       *)
(* evicts: not what is recorded, nor what is about to be.                   *)
Kept ==
    /\ WantedStays
    /\ wanted \cap Range(background) \subseteq done
    /\ pc \in {"notifyOne", "notifyAll"} =>
         /\ draw.ref \in done \cup pending
         /\ frameActive /\ draw.ref \in Range(background) => draw.ref \in done

(* As long as the encoder has waited only for what had been asked for or    *)
(* was built: while all workers sleep, everything it can wait for is there. *)
Waits == cpc \in {"wait", "persistent", "promoted"}

WaitsForKnown == Waits => Ref \in wanted \cup done

Asked ==
    ~unasked =>
      /\ WaitsForKnown
      /\ Workers \subseteq cv => wanted \subseteq done

IInv == TypeOK /\ Builds /\ Places /\ Kept /\ Asked /\ NobodyForgotten

USE PipelineAssumption

-----------------------------------------------------------------------------
(* Workers.                                                                 *)

LEMMA WorkersCounted ==
    ASSUME NEW x
    PROVE  IsFiniteSet(At(x)) /\ Cardinality(At(x)) \in Nat
BY FS_Subset, FS_CardinalityType DEF At

LEMMA Moved ==
    ASSUME TypeOK, NEW w \in Workers, NEW to, NEW p, Moves(w, to, p)
    PROVE  /\ wpc'[w] = to /\ job'[w] = p
           /\ \A v \in Workers : v # w => wpc'[v] = wpc[v] /\ job'[v] = job[v]
           /\ At(to)' = At(to) \cup {w}
           /\ \A x : x # to => At(x)' = At(x) \ {w}
BY DEF TypeOK, Moves, At

Entries == Len(priority) + Len(background)

(* The parts of PendingExact and QueuedCounts, with names.                  *)
LEMMA Counts ==
    /\ PendingExact <=>
         /\ pending = Queued \cup Compiling
         /\ Cardinality(pending) = Entries + Cardinality(At("compile"))
    /\ QueuedCounts <=>
         queued = Cardinality(pending) + (Cardinality(At("notify")) + Withdrawn)
    /\ Compiling = {job[w] : w \in At("compile")}
BY DEF PendingExact, QueuedCounts, Compiling, Uncounted, Withdrawn, At, Entries

(* The numbers in them are numbers.                                         *)
LEMMA Numbers ==
    ASSUME Builds
    PROVE  /\ Entries \in Nat /\ Cardinality(pending) \in Nat
           /\ Withdrawn \in Nat /\ queued \in Nat
<1>1. Entries \in Nat
  BY LenProperties DEF Builds, OneOwner, Apart, Entries
<1>2. Cardinality(pending) \in Nat /\ Withdrawn \in Nat
  BY FS_CardinalityType DEF Builds, Withdrawn
<1> QED
  BY <1>1, <1>2, WorkersCounted, Counts DEF Builds

LEMMA BuildsUntouched ==
    ASSUME Builds, UNCHANGED <<queues, queued, removedPending, pool>>
    PROVE  Builds'
BY DEF Builds, OneOwner, Apart, At, Queued, PendingExact, QueuedCounts, Compiling,
       Uncounted, queues, pool

(* The producer or the encoder changes the queues: the workers keep theirs. *)
LEMMA QueuesChange ==
    ASSUME Builds, UNCHANGED pool,
           Apart(priority', background'),
           Queued' \cap Compiling = {},
           IsFiniteSet(pending'), pending' = Queued' \cup Compiling,
           NEW n \in Int,
           Entries' = Entries + n,
           Cardinality(pending') = Cardinality(pending) + n,
           queued' - Withdrawn' = queued - Withdrawn + n,
           queued' \in Int, Withdrawn' \in Int
    PROVE  Builds'
<1>1. At("compile")' = At("compile") /\ At("notify")' = At("notify") /\ Compiling' = Compiling
  BY DEF At, Compiling, pool
<1>2. OneOwner'
  BY <1>1 DEF Builds, OneOwner, At, Compiling, pool
<1>3. /\ Cardinality(At("compile")) \in Nat /\ Cardinality(At("notify")) \in Nat
  BY WorkersCounted
<1>4. PendingExact'
  <2>1. Cardinality(pending') = Entries' + Cardinality(At("compile"))
    BY <1>3, Numbers, Counts DEF Builds
  <2> QED
    BY <1>1, <2>1 DEF PendingExact, At, Entries
<1>5. QueuedCounts'
  <2>1. queued' = Cardinality(pending') + (Cardinality(At("notify")) + Withdrawn')
    BY <1>3, Numbers, Counts DEF Builds
  <2> QED
    BY <1>1, <2>1 DEF QueuedCounts, Uncounted, Withdrawn, At
<1> QED
  BY <1>2, <1>4, <1>5 DEF Builds

(* Where the pending builds are.                                            *)
LEMMA Owners ==
    ASSUME Builds
    PROVE  /\ priority \in Seq(Pipelines) /\ IsInjective(priority)
           /\ background \in Seq(Pipelines) /\ IsInjective(background)
           /\ Range(priority) \cap Range(background) = {}
           /\ Queued = Range(priority) \cup Range(background)
           /\ Queued \cap Compiling = {} /\ Queued \subseteq Pipelines
           /\ Compiling \subseteq Pipelines
           /\ pending = Queued \cup Compiling /\ IsFiniteSet(pending)
           /\ Cardinality(pending) \in Nat
           /\ Len(priority) \in Nat /\ Len(background) \in Nat
           /\ Entries = Len(priority) + Len(background)
<1>1. Apart(priority, background) /\ pending = Queued \cup Compiling /\ IsFiniteSet(pending)
  BY DEF Builds, OneOwner, PendingExact
<1>2. Queued \cap Compiling = {} /\ Compiling \subseteq Pipelines
  BY DEF Builds, OneOwner, Compiling, At
<1>3. /\ Range(priority) \subseteq Pipelines /\ Range(background) \subseteq Pipelines
      /\ Len(priority) \in Nat /\ Len(background) \in Nat
  BY <1>1, InRange DEF Apart
<1> QED
  BY <1>1, <1>2, <1>3, Numbers DEF Apart, Queued, Entries

(* A draw of a frame takes a queued build to the end of the priority queue. *)
LEMMA TouchBuilds ==
    ASSUME Builds, NEW p \in Pipelines, touch_pending_pipeline(p),
           UNCHANGED <<pending, queued, removedPending, pool>>
    PROVE  Builds'
<1>1. CASE frameActive /\ p \in Range(background)
  <2>1. priority' = Append(priority, p) /\ background' = RemoveFirst(background, p)
    BY <1>1 DEF touch_pending_pipeline
  <2>2. p \notin Range(priority)
    BY <1>1, Owners
  <2>3. /\ priority' \in Seq(Pipelines) /\ IsInjective(priority')
        /\ Range(priority') = Range(priority) \cup {p}
        /\ Len(priority') = Len(priority) + 1
    BY <2>1, <2>2, Owners, Appended
  <2>4. /\ background' \in Seq(Pipelines) /\ IsInjective(background')
        /\ Range(background') = Range(background) \ {p}
        /\ Len(background') = Len(background) - 1
    BY <1>1, <2>1, Owners, RemovedFirst
  <2>5. Apart(priority', background') /\ Queued' = Queued
    BY <1>1, <2>3, <2>4, Owners DEF Apart, Queued
  <2>6. Entries' = Entries + 0
    BY <2>3, <2>4, Owners DEF Entries
  <2>7. /\ queued' - Withdrawn' = queued - Withdrawn + 0 /\ queued' \in Int /\ Withdrawn' \in Int
        /\ Cardinality(pending') = Cardinality(pending) + 0
    BY Numbers DEF Withdrawn
  <2>8. UNCHANGED pool /\ pending' = pending
    OBVIOUS
  <2> QED
    BY <2>5, <2>6, <2>7, <2>8, Owners, QueuesChange
<1>2. CASE ~(frameActive /\ p \in Range(background))
  BY <1>2, BuildsUntouched DEF touch_pending_pipeline, queues
<1> QED
  BY <1>1, <1>2

(* A new build is queued, perhaps for the last one of the background.       *)
LEMMA EnqueueBuilds ==
    ASSUME Builds, NEW d \in Draw, NEW preload \in BOOLEAN, Enqueues(d, preload),
           d.ref \notin pending, UNCHANGED <<removedPending, pool>>
    PROVE  Builds'
<1> DEFINE p     == d.ref
           defer == deferGxPipeline(p) /\ ~preload
           evict == defer /\ Full(pending) /\ background # << >>
           left  == IF evict THEN pending \ {Last(background)} ELSE pending
           rest  == IF evict THEN Front(background) ELSE background
           sync  == ~preload /\ Full(left) /\ ~(defer /\ skip)
           n     == IF evict THEN 1 ELSE 0
<1>1. /\ pending' = IF sync THEN left ELSE left \cup {p}
      /\ priority' = IF ~sync /\ defer THEN Append(priority, p) ELSE priority
      /\ background' = IF ~sync /\ ~defer THEN Append(rest, p) ELSE rest
      /\ queued' = queued - n + (IF sync THEN 0 ELSE 1)
  BY DEF Enqueues
<1>2. p \in Pipelines /\ p \notin pending
  BY DEF Draw, Pipelines
<1>3. /\ rest \in Seq(Pipelines) /\ IsInjective(rest) /\ Len(rest) = Len(background) - n
      /\ Range(rest) \subseteq Range(background)
      /\ IsFiniteSet(left) /\ Cardinality(left) = Cardinality(pending) - n
      /\ left = (Range(priority) \cup Range(rest)) \cup Compiling
  <2>1. CASE evict
    <3>1. /\ Last(background) \in Range(background) /\ rest \in Seq(Pipelines)
          /\ IsInjective(rest) /\ Range(rest) = Range(background) \ {Last(background)}
          /\ Len(rest) = Len(background) - 1
      BY <2>1, Owners, FrontTaken
    <3>2. left = pending \ {Last(background)} /\ Last(background) \in pending /\ n = 1
      BY <2>1, <3>1, Owners
    <3>3. IsFiniteSet(left) /\ Cardinality(left) = Cardinality(pending) - 1
      BY <3>2, Owners, FS_RemoveElement
    <3>4. left = (Range(priority) \cup Range(rest)) \cup Compiling
      BY <3>1, <3>2, Owners
    <3> HIDE DEF left, rest, n
    <3> QED
      BY <3>1, <3>2, <3>3, <3>4
  <2>2. CASE ~evict
    BY <2>2, Owners
  <2> QED
    BY <2>1, <2>2
<1>4. n \in Int /\ n \in {0, 1}
  OBVIOUS
<1> HIDE DEF p, defer, evict, left, rest, sync, n
<1>5. CASE sync
  <2>1. Apart(priority', background') /\ Queued' = Range(priority) \cup Range(rest)
    BY <1>1, <1>3, <1>5, Owners DEF Apart, Queued
  <2>2. pending' = Queued' \cup Compiling /\ Queued' \cap Compiling = {}
    BY <1>1, <1>3, <1>5, <2>1, Owners
  <2>3. Entries' = Entries + (0 - n)
    BY SMTT(30), <1>1, <1>3, <1>4, <1>5, Owners DEF Entries
  <2>4. /\ queued' - Withdrawn' = queued - Withdrawn + (0 - n)
        /\ queued' \in Int /\ Withdrawn' \in Int
    BY <1>1, <1>4, <1>5, Numbers DEF Withdrawn
  <2>5. IsFiniteSet(pending') /\ Cardinality(pending') = Cardinality(pending) + (0 - n)
    BY <1>1, <1>3, <1>4, <1>5, Owners
  <2>6. 0 - n \in Int /\ UNCHANGED pool
    BY <1>4
  <2> QED
    BY <2>1, <2>2, <2>3, <2>4, <2>5, <2>6, QueuesChange
<1>6. CASE ~sync
  <2>1. p \notin left /\ p \notin Range(priority) /\ p \notin Range(rest) /\ p \notin Compiling
    BY <1>2, <1>3, Owners
  <2>2. /\ Append(priority, p) \in Seq(Pipelines) /\ IsInjective(Append(priority, p))
        /\ Range(Append(priority, p)) = Range(priority) \cup {p}
        /\ Len(Append(priority, p)) = Len(priority) + 1
    BY <1>2, <2>1, Owners, Appended
  <2>3. /\ Append(rest, p) \in Seq(Pipelines) /\ IsInjective(Append(rest, p))
        /\ Range(Append(rest, p)) = Range(rest) \cup {p}
        /\ Len(Append(rest, p)) = Len(rest) + 1
    BY <1>2, <1>3, <2>1, Appended
  <2>4. /\ Apart(priority', background')
        /\ Queued' = (Range(priority) \cup Range(rest)) \cup {p}
        /\ Entries' = Entries + (1 - n)
    <3>1. CASE defer
      <4>1. priority' = Append(priority, p) /\ background' = rest
        BY <1>1, <1>6, <3>1
      <4>2. Apart(priority', background')
        BY <1>3, <2>1, <2>2, <4>1, Owners DEF Apart
      <4>3. Queued' = (Range(priority) \cup Range(rest)) \cup {p}
        BY <2>2, <4>1 DEF Queued
      <4>4. Entries' = Entries + (1 - n)
        <5>1. PICK b \in Int, c \in Int : b = 0 - n /\ c = 1 - n
          BY <1>4
        <5>2. Len(priority') = Len(priority) + 1 /\ Len(background') = Len(background) + b
          BY <1>3, <1>4, <2>2, <4>1, <5>1, Owners
        <5>3. Len(priority) \in Int /\ Len(background) \in Int
          BY Owners
        <5> QED
          BY <1>4, <5>1, <5>2, <5>3 DEF Entries
      <4> QED
        BY <4>2, <4>3, <4>4
    <3>2. CASE ~defer
      <4>1. priority' = priority /\ background' = Append(rest, p)
        BY <1>1, <1>6, <3>2
      <4>2. Apart(priority', background')
        BY <1>3, <2>1, <2>3, <4>1, Owners DEF Apart
      <4>3. Queued' = (Range(priority) \cup Range(rest)) \cup {p}
        BY <2>3, <4>1 DEF Queued
      <4>4. Entries' = Entries + (1 - n)
        <5>1. PICK c \in Int : c = 1 - n
          BY <1>4
        <5>2. Len(priority') = Len(priority) + 0 /\ Len(background') = Len(background) + c
          BY <1>3, <1>4, <2>3, <4>1, <5>1, Owners
        <5>3. Len(priority) \in Int /\ Len(background) \in Int
          BY Owners
        <5> QED
          BY <1>4, <5>1, <5>2, <5>3 DEF Entries
      <4> QED
        BY <4>2, <4>3, <4>4
    <3> QED
      BY <3>1, <3>2
  <2>5. pending' = Queued' \cup Compiling /\ Queued' \cap Compiling = {}
    BY <1>1, <1>3, <1>6, <2>1, <2>4, Owners
  <2>6. IsFiniteSet(pending') /\ Cardinality(pending') = Cardinality(pending) + (1 - n)
    <3>1. IsFiniteSet(left \cup {p}) /\ Cardinality(left \cup {p}) = Cardinality(left) + 1
      BY <1>3, <2>1, FS_AddElement
    <3> QED
      BY <1>1, <1>3, <1>4, <1>6, <3>1, Owners
  <2>7. /\ queued' - Withdrawn' = queued - Withdrawn + (1 - n)
        /\ queued' \in Int /\ Withdrawn' \in Int
    BY <1>1, <1>4, <1>6, Numbers DEF Withdrawn
  <2>8. 1 - n \in Int /\ UNCHANGED pool
    BY <1>4
  <2> QED
    BY <2>4, <2>5, <2>6, <2>7, <2>8, QueuesChange
<1> QED
  BY <1>5, <1>6

(* The producer built the pipeline: a queued build of it is withdrawn.      *)
LEMMA WithdrawBuilds ==
    ASSUME Builds, Places, SyncCreated
    PROVE  Builds'
<1> DEFINE p == draw.ref
           n == IF p \in Queued THEN 1 ELSE 0
<1>1. /\ priority' = RemoveFirst(priority, p) /\ background' = RemoveFirst(background, p)
      /\ pending' = IF p \in Queued THEN pending \ {p} ELSE pending
      /\ removedPending' = (p \in Queued) /\ queued' = queued /\ UNCHANGED pool
  BY DEF SyncCreated
<1>2. Withdrawn = 0 /\ Withdrawn' = n
  BY <1>1 DEF Places, SyncCreated, Withdrawn
<1>3. /\ priority' \in Seq(Pipelines) /\ IsInjective(priority')
      /\ Range(priority') = Range(priority) \ {p}
      /\ p \notin Range(priority) => Len(priority') = Len(priority)
      /\ p \in Range(priority) => Len(priority') = Len(priority) - 1
  BY <1>1, Owners, RemovedFirst
<1>4. /\ background' \in Seq(Pipelines) /\ IsInjective(background')
      /\ Range(background') = Range(background) \ {p}
      /\ p \notin Range(background) => Len(background') = Len(background)
      /\ p \in Range(background) => Len(background') = Len(background) - 1
  BY <1>1, Owners, RemovedFirst
<1>5. Apart(priority', background') /\ Queued' = Queued \ {p}
  BY <1>3, <1>4, Owners DEF Apart, Queued
<1>6. n \in Int /\ 0 - n \in Int
  OBVIOUS
<1>7. /\ p \in Queued => n = 1 /\ pending' = pending \ {p}
      /\ p \notin Queued => n = 0 /\ pending' = pending
  BY <1>1
<1> HIDE DEF p, n
<1>8. Entries' = Entries + (0 - n)
  <2>1. Len(priority) \in Int /\ Len(background) \in Int
    BY Owners
  <2>2. CASE p \in Range(priority)
    <3>1. p \notin Range(background) /\ n = 1
      BY <1>7, <2>2, Owners
    <3> QED
      BY <1>3, <1>4, <2>1, <2>2, <3>1 DEF Entries
  <2>3. CASE p \in Range(background)
    <3>1. p \notin Range(priority) /\ n = 1
      BY <1>7, <2>3, Owners
    <3> QED
      BY <1>3, <1>4, <2>1, <2>3, <3>1 DEF Entries
  <2>4. CASE p \notin Queued
    <3>1. p \notin Range(priority) /\ p \notin Range(background) /\ n = 0
      BY <1>7, <2>4, Owners
    <3> QED
      BY <1>3, <1>4, <2>1, <3>1 DEF Entries
  <2> QED
    BY <2>2, <2>3, <2>4, Owners
<1>9. IsFiniteSet(pending') /\ Cardinality(pending') = Cardinality(pending) + (0 - n)
  <2>1. CASE p \in Queued
    <3>1. p \in pending /\ IsFiniteSet(pending) /\ Cardinality(pending) \in Int
      BY <2>1, Owners
    <3>2. /\ IsFiniteSet(pending \ {p})
          /\ Cardinality(pending \ {p}) = Cardinality(pending) - 1
      BY <3>1, FS_RemoveElement
    <3> QED
      BY <1>7, <2>1, <3>1, <3>2
  <2>2. CASE p \notin Queued
    BY <1>7, <2>2, Owners
  <2> QED
    BY <2>1, <2>2
<1>10. pending' = Queued' \cup Compiling /\ Queued' \cap Compiling = {}
  BY <1>5, <1>7, Owners
<1>11. /\ queued' - Withdrawn' = queued - Withdrawn + (0 - n)
       /\ queued' \in Int /\ Withdrawn' \in Int
  BY <1>1, <1>2, <1>6, Numbers
<1> QED
  BY <1>1, <1>5, <1>6, <1>8, <1>9, <1>10, <1>11, QueuesChange

(* The producer counts the withdrawn build.                                 *)
LEMMA FindNotifiesBuilds ==
    ASSUME Builds, FindNotifies
    PROVE  Builds'
<1>1. /\ UNCHANGED <<queues, pool>> /\ queued' = queued - Withdrawn /\ Withdrawn' = 0
  BY DEF FindNotifies, Withdrawn
<1>2. queued' - Withdrawn' = queued - Withdrawn + 0 /\ queued' \in Int /\ Withdrawn' \in Int
  BY <1>1, Numbers
<1>3. Entries' = Entries + 0 /\ Cardinality(pending') = Cardinality(pending) + 0
  BY <1>1, Numbers DEF Entries, queues
<1>4. Apart(priority', background') /\ Queued' = Queued
  BY <1>1, Owners DEF Apart, Queued, queues
<1>5. IsFiniteSet(pending') /\ pending' = Queued' \cup Compiling /\ Queued' \cap Compiling = {}
  BY <1>1, <1>4, Owners DEF queues
<1> QED
  BY <1>1, <1>2, <1>3, <1>4, <1>5, QueuesChange

(* The encoder takes a queued build to the head of the priority queue.      *)
LEMMA PromoteBuilds ==
    ASSUME Builds, Ref \in Queued, promote_pending_pipeline_for_wait,
           UNCHANGED <<pending, queued, removedPending, pool>>
    PROVE  Builds'
<1> DEFINE p == Ref
           pr == RemoveFirst(priority, p)
<1>1. priority' = <<p>> \o pr /\ background' = RemoveFirst(background, p)
  BY DEF promote_pending_pipeline_for_wait
<1>2. p \in Pipelines /\ p \in Queued
  BY Owners
<1> HIDE DEF p
<1>3. /\ pr \in Seq(Pipelines) /\ IsInjective(pr) /\ Range(pr) = Range(priority) \ {p}
      /\ p \notin Range(priority) => Len(pr) = Len(priority)
      /\ p \in Range(priority) => Len(pr) = Len(priority) - 1
  BY Owners, RemovedFirst
<1> HIDE DEF pr
<1>4. /\ priority' \in Seq(Pipelines) /\ IsInjective(priority')
      /\ Range(priority') = Range(priority) \cup {p} /\ Len(priority') = Len(pr) + 1
  BY <1>1, <1>2, <1>3, Prepended
<1>5. /\ background' \in Seq(Pipelines) /\ IsInjective(background')
      /\ Range(background') = Range(background) \ {p}
      /\ p \notin Range(background) => Len(background') = Len(background)
      /\ p \in Range(background) => Len(background') = Len(background) - 1
  BY <1>1, Owners, RemovedFirst
<1>6. Apart(priority', background') /\ Queued' = Queued
  BY <1>2, <1>4, <1>5, Owners DEF Apart, Queued
<1>7. Entries' = Entries + 0
  <2>1. Len(priority) \in Int /\ Len(background) \in Int
    BY Owners
  <2>2. CASE p \in Range(priority)
    <3>1. p \notin Range(background)
      BY <2>2, Owners
    <3> QED
      BY <1>3, <1>4, <1>5, <2>1, <2>2, <3>1 DEF Entries
  <2>3. CASE p \in Range(background)
    <3>1. p \notin Range(priority)
      BY <2>3, Owners
    <3> QED
      BY <1>3, <1>4, <1>5, <2>1, <2>3, <3>1 DEF Entries
  <2> QED
    BY <1>2, <2>2, <2>3, Owners
<1>8. /\ queued' - Withdrawn' = queued - Withdrawn + 0 /\ queued' \in Int /\ Withdrawn' \in Int
      /\ Cardinality(pending') = Cardinality(pending) + 0
  BY Numbers DEF Withdrawn
<1>9. UNCHANGED pool /\ pending' = pending
  OBVIOUS
<1> QED
  BY <1>6, <1>7, <1>8, <1>9, Owners, QueuesChange

(* The first build of a queue is taken from it.                             *)
LEMMA FirstTaken ==
    ASSUME Builds,
           NEW p,
           \/ /\ priority # << >> /\ p = Head(priority)
              /\ priority' = Tail(priority) /\ background' = background
           \/ /\ background # << >> /\ p = Head(background)
              /\ background' = Tail(background) /\ priority' = priority
    PROVE  /\ p \in Queued /\ p \in Pipelines /\ Apart(priority', background')
           /\ Queued' = Queued \ {p} /\ Entries' = Entries - 1
<1>1. CASE priority # << >> /\ p = Head(priority)
           /\ priority' = Tail(priority) /\ background' = background
  <2>1. /\ p \in Range(priority) /\ p \in Pipelines
        /\ priority' \in Seq(Pipelines) /\ IsInjective(priority')
        /\ Range(priority') = Range(priority) \ {p} /\ Len(priority') = Len(priority) - 1
    BY <1>1, Owners, TailTaken
  <2>2. Apart(priority', background') /\ p \in Queued /\ Queued' = Queued \ {p}
    BY <1>1, <2>1, Owners DEF Apart, Queued
  <2>3. Entries' = Entries - 1
    <3>1. PICK a \in Nat, b \in Nat : a = Len(priority) /\ b = Len(background)
      BY Owners
    <3>2. Len(priority') = a - 1 /\ Len(background') = b
      BY <1>1, <2>1, <3>1
    <3>3. Entries = a + b /\ Entries' = (a - 1) + b
      BY <3>1, <3>2 DEF Entries
    <3> QED
      BY <3>3
  <2> QED
    BY <2>1, <2>2, <2>3
<1>2. CASE background # << >> /\ p = Head(background)
           /\ background' = Tail(background) /\ priority' = priority
  <2>1. /\ p \in Range(background) /\ p \in Pipelines
        /\ background' \in Seq(Pipelines) /\ IsInjective(background')
        /\ Range(background') = Range(background) \ {p}
        /\ Len(background') = Len(background) - 1
    BY <1>2, Owners, TailTaken
  <2>2. Apart(priority', background') /\ p \in Queued /\ Queued' = Queued \ {p}
    BY <1>2, <2>1, Owners DEF Apart, Queued
  <2>3. Entries' = Entries - 1
    <3>1. PICK a \in Nat, b \in Nat : a = Len(priority) /\ b = Len(background)
      BY Owners
    <3>2. Len(priority') = a /\ Len(background') = b - 1
      BY <1>2, <2>1, <3>1
    <3>3. Entries = a + b /\ Entries' = a + (b - 1)
      BY <3>1, <3>2 DEF Entries
    <3> QED
      BY <3>3
  <2> QED
    BY <2>1, <2>2, <2>3
<1> QED
  BY <1>1, <1>2

(* A worker takes a build from its queue: the build changes its owner.      *)
LEMMA TakeBuilds ==
    ASSUME TypeOK, Builds, NEW w \in Workers, wpc[w] = "check", NEW p,
           Moves(w, "compile", p),
           p \in Queued, p \in Pipelines, Apart(priority', background'),
           Queued' = Queued \ {p}, Entries' = Entries - 1,
           UNCHANGED <<pending, queued, removedPending>>
    PROVE  Builds'
<1>1. /\ p \in Queued /\ p \in Pipelines /\ Apart(priority', background')
      /\ Queued' = Queued \ {p} /\ Entries' = Entries - 1
  OBVIOUS
<1>2. /\ w \notin At("compile") /\ w \notin At("notify") /\ job'[w] = p
      /\ At("compile")' = At("compile") \cup {w} /\ At("notify")' = At("notify")
      /\ \A v \in At("compile") : v # w /\ job'[v] = job[v]
  BY Moved DEF At
<1>3. Compiling' = Compiling \cup {p}
  <2>1. Compiling' = {job'[v] : v \in At("compile") \cup {w}}
    BY <1>2, Counts DEF Compiling, At
  <2> QED
    BY <1>2, <2>1, Counts
<1>4. OneOwner'
  <2>1. \A v \in At("compile") : job[v] \in Compiling /\ job[v] # p
    BY <1>1, Owners, Counts
  <2>2. \A v \in At("compile")' : job'[v] \in Pipelines /\ job'[v] \notin Queued'
    BY <1>1, <1>2 DEF Builds, OneOwner
  <2>3. \A v, u \in At("compile")' : job'[v] = job'[u] => v = u
    BY <1>2, <2>1 DEF Builds, OneOwner
  <2> QED
    BY <1>1, <2>2, <2>3 DEF OneOwner
<1>5. PendingExact'
  <2>1. pending' = Queued' \cup Compiling'
    BY <1>1, <1>3, Owners
  <2>2. Cardinality(At("compile")') = Cardinality(At("compile")) + 1
    BY <1>2, WorkersCounted, FS_AddElement
  <2>3. Cardinality(pending') = Entries' + Cardinality(At("compile")')
    BY <1>1, <2>2, Counts, Numbers, WorkersCounted DEF Builds
  <2> QED
    BY <2>1, <2>3 DEF PendingExact, Entries, At
<1>6. QueuedCounts'
  <2>1. Withdrawn' = Withdrawn
    BY DEF Withdrawn
  <2>2. queued' = Cardinality(pending') + (Cardinality(At("notify")') + Withdrawn')
    BY <1>2, <2>1, Counts DEF Builds
  <2> QED
    BY <2>2 DEF QueuedCounts, Uncounted, Withdrawn, At
<1> QED
  BY <1>4, <1>5, <1>6 DEF Builds

(* A build is done: the worker gives it up and has still to notify.         *)
LEMMA CompiledBuilds ==
    ASSUME TypeOK, Builds, NEW w \in Workers, Compiled(w)
    PROVE  Builds'
<1> DEFINE p == job[w]
<1>1. /\ w \in At("compile") /\ w \notin At("notify") /\ pending' = pending \ {p}
      /\ Moves(w, "notify", None) /\ UNCHANGED <<priority, background, queued, removedPending>>
  BY DEF Compiled, At, asking
<1>2. /\ At("compile")' = At("compile") \ {w} /\ At("notify")' = At("notify") \cup {w}
      /\ \A v \in At("compile") \ {w} : job'[v] = job[v]
  BY <1>1, Moved DEF At
<1>3. p \in Compiling /\ p \in pending /\ p \notin Queued
  BY <1>1, Counts, Owners
<1>4. \A v \in At("compile") \ {w} : job[v] # p
  BY <1>1 DEF Builds, OneOwner
<1>5. Compiling' = Compiling \ {p}
  <2>1. Compiling' = {job'[v] : v \in At("compile") \ {w}}
    BY <1>2 DEF Compiling, At
  <2>2. Compiling' = {job[v] : v \in At("compile") \ {w}}
    BY <1>2, <2>1
  <2> QED
    BY <1>4, <2>2, Counts
<1>6. Queued' = Queued /\ Entries' = Entries /\ Withdrawn' = Withdrawn
  BY <1>1 DEF Queued, Entries, Withdrawn
<1> HIDE DEF p
<1>7. OneOwner'
  <2>1. Apart(priority', background')
    BY <1>1 DEF Builds, OneOwner
  <2>2. \A v \in At("compile")' : job'[v] \in Pipelines /\ job'[v] \notin Queued'
    BY <1>2, <1>6 DEF Builds, OneOwner
  <2>3. \A v, u \in At("compile")' : job'[v] = job'[u] => v = u
    BY <1>2 DEF Builds, OneOwner
  <2> QED
    BY <2>1, <2>2, <2>3 DEF OneOwner
<1>8. IsFiniteSet(pending') /\ Cardinality(pending') = Cardinality(pending) - 1
  BY <1>1, <1>3, Owners, FS_RemoveElement
<1>9. /\ Cardinality(At("compile")') = Cardinality(At("compile")) - 1
      /\ Cardinality(At("notify")') = Cardinality(At("notify")) + 1
      /\ Cardinality(At("compile")) \in Int /\ Cardinality(At("notify")) \in Int
  <2>1. /\ IsFiniteSet(At("compile")) /\ Cardinality(At("compile")) \in Int
        /\ IsFiniteSet(At("notify")) /\ Cardinality(At("notify")) \in Int
    BY WorkersCounted
  <2>2. Cardinality(At("compile") \ {w}) = Cardinality(At("compile")) - 1
    BY <1>1, <2>1, FS_RemoveElement
  <2>3. Cardinality(At("notify") \cup {w}) = Cardinality(At("notify")) + 1
    BY <1>1, <2>1, FS_AddElement
  <2> QED
    BY <1>2, <2>1, <2>2, <2>3
<1>10. PendingExact'
  <2>1. pending' = Queued' \cup Compiling'
    BY <1>1, <1>3, <1>5, <1>6, Owners
  <2>2. Cardinality(pending') = Entries' + Cardinality(At("compile")')
    BY <1>6, <1>8, <1>9, Counts, Numbers DEF Builds
  <2> QED
    BY <2>1, <2>2 DEF PendingExact, Entries, At
<1>11. QueuedCounts'
  <2>1. queued' = Cardinality(pending') + (Cardinality(At("notify")') + Withdrawn')
    BY <1>1, <1>6, <1>8, <1>9, Counts, Numbers DEF Builds
  <2> QED
    BY <2>1 DEF QueuedCounts, Uncounted, Withdrawn, At
<1> QED
  BY <1>7, <1>8, <1>10, <1>11 DEF Builds

(* A worker that compiles nothing moves on: only the count may change.      *)
LEMMA IdleWorkerBuilds ==
    ASSUME TypeOK, Builds, NEW w \in Workers, NEW to, NEW n \in Int,
           \/ wpc[w] = "notify" /\ n = 1
           \/ wpc[w] = "check" /\ n = 0,
           to \in {"check", "exited"}, Moves(w, to, None),
           queued' = queued - n, UNCHANGED <<queues, removedPending>>
    PROVE  Builds'
<1>1. /\ w \notin At("compile") /\ At("compile")' = At("compile")
      /\ At("notify")' = At("notify") \ {w} /\ (n = 1 <=> w \in At("notify"))
      /\ \A v \in At("compile") : job'[v] = job[v]
  BY Moved DEF At
<1>2. Compiling' = Compiling
  BY <1>1 DEF Compiling, At
<1>3. /\ Queued' = Queued /\ Entries' = Entries /\ Withdrawn' = Withdrawn /\ pending' = pending
      /\ priority' = priority /\ background' = background
  BY DEF Queued, Entries, Withdrawn, queues
<1>4. OneOwner' /\ IsFiniteSet(pending')
  BY <1>1, <1>3 DEF Builds, OneOwner
<1>5. PendingExact'
  BY <1>1, <1>2, <1>3 DEF Builds, PendingExact, At
<1>6. /\ Cardinality(At("notify")') = Cardinality(At("notify")) - n
      /\ Cardinality(At("notify")) \in Int
  <2> DEFINE N == At("notify")
             c == Cardinality(N)
  <2>1. IsFiniteSet(N) /\ c \in Int
    BY WorkersCounted
  <2>2. Cardinality(N \ {w}) = IF w \in N THEN c - 1 ELSE c
    BY <2>1, FS_RemoveElement
  <2>3. n = (IF w \in N THEN 1 ELSE 0)
    BY <1>1
  <2>4. N' = N \ {w}
    BY <1>1
  <2>5. Cardinality(N)' = Cardinality(N \ {w})
    BY <2>4
  <2>6. Cardinality(N \ {w}) = c - n
    <3> HIDE DEF c, N
    <3> QED
      BY <2>1, <2>2, <2>3
  <2> QED
    BY <2>1, <2>5, <2>6
<1>7. QueuedCounts'
  <2>1. queued' = Cardinality(pending') + (Cardinality(At("notify")') + Withdrawn')
    BY <1>3, <1>6, Counts, Numbers DEF Builds
  <2> QED
    BY <2>1 DEF QueuedCounts, Uncounted, Withdrawn, At
<1> QED
  BY <1>4, <1>5, <1>7 DEF Builds

(* Shut down, there is nothing left.                                        *)
Nothing ==
    /\ pending = {} /\ priority = << >> /\ background = << >> /\ queued = 0
    /\ ~removedPending /\ At("compile") = {} /\ At("notify") = {}

LEMMA NoBuilds == Nothing => Builds
<1> SUFFICES ASSUME Nothing PROVE Builds
  OBVIOUS
<1> USE DEF Nothing
<1>1. Range(<< >>) = {} /\ << >> \in Seq(Pipelines) /\ Len(<< >>) = 0 /\ IsInjective(<< >>)
  <2>1. << >> \in Seq(Pipelines) /\ Len(<< >>) = 0
    BY EmptySeq
  <2>2. Range(<< >>) = {} /\ DOMAIN << >> = 1 .. 0
    BY <2>1, InRange
  <2> QED
    BY <2>1, <2>2 DEF IsInjective
<1>2. Queued = {} /\ Compiling = {} /\ Withdrawn = 0 /\ Entries = 0
  BY <1>1, Counts DEF Queued, Withdrawn, Entries
<1>3. OneOwner
  BY <1>1 DEF OneOwner, Apart
<1>4. IsFiniteSet({}) /\ Cardinality({}) = 0
  BY FS_EmptySet
<1>5. /\ Cardinality(pending) = 0 /\ Cardinality(At("compile")) = 0
      /\ Cardinality(At("notify")) = 0
  BY <1>4
<1>6. pending = Queued \cup Compiling /\ IsFiniteSet(pending)
  BY <1>2, <1>4
<1>7. PendingExact /\ QueuedCounts
  BY <1>2, <1>5, <1>6, Counts
<1> QED
  BY <1>3, <1>6, <1>7 DEF Builds

(* The actions that leave the builds alone.                                 *)
Aside ==
    \/ \E d \in Draw : DrawsCached(d)
    \/ begin_pipeline_frame \/ end_pipeline_frame \/ set_skip_unready_pipelines
    \/ ShutdownBegins \/ LoadNotified \/ initialize_pipeline_cache \/ ShutdownWakes
    \/ bind_pipeline \/ wait_pipeline \/ WaitsForPromoted

LEMMA AsideBuilds ==
    ASSUME Builds, Aside
    PROVE  Builds'
<1>1. UNCHANGED <<queues, queued, removedPending, pool>>
  BY DEF Aside, DrawsCached, begin_pipeline_frame, end_pipeline_frame,
         set_skip_unready_pipelines, ShutdownBegins, LoadNotified,
         initialize_pipeline_cache, ShutdownWakes, bind_pipeline, wait_pipeline,
         WaitsForPromoted, asking, queues, pool
<1> QED
  BY <1>1, BuildsUntouched

(* The actions that do not.                                                 *)
LEMMA StepCases ==
    ASSUME [Next]_vars
    PROVE  \/ Aside
           \/ \E d \in Draw : find_pipeline(d)
           \/ SyncCreated \/ FindNotifies \/ (\E p \in Stored : Loads(p)) \/ ShutdownJoins
           \/ wait_pipeline_for_persistent_pass
           \/ \E w \in Workers : pipeline_worker(w) \/ Compiled(w) \/ CompileNotifies(w)
           \/ UNCHANGED vars
BY DEF Next, Decisions, Producer, FrameWorker, Worker, HasEnded, Aside

LEMMA BuildsStep ==
    ASSUME TypeOK, Builds, Places, [Next]_vars
    PROVE  Builds'
<1>1. ASSUME NEW d \in Draw, find_pipeline(d) PROVE Builds'
  <2>1. UNCHANGED <<removedPending, pool>>
    BY <1>1 DEF find_pipeline
  <2>2. d.ref \in Pipelines
    BY DEF Draw, Pipelines
  <2>3. CASE UNCHANGED <<queues, queued>>
    BY <2>1, <2>3, BuildsUntouched
  <2>4. CASE touch_pending_pipeline(d.ref) /\ UNCHANGED <<pending, queued>>
    BY <2>1, <2>2, <2>4, TouchBuilds
  <2>5. CASE d.ref \notin done \cup pending /\ Enqueues(d, FALSE)
    BY <2>1, <2>5, EnqueueBuilds
  <2> QED
    BY <1>1, <2>3, <2>4, <2>5 DEF find_pipeline
<1>2. ASSUME NEW p \in Stored, Loads(p) PROVE Builds'
  <2> DEFINE d == [ref |-> p, persistent |-> FALSE]
  <2>1. d \in Draw /\ d.ref = p
    BY DEF Draw, Pipelines
  <2>2. Enqueues(d, TRUE) /\ d.ref \notin pending /\ UNCHANGED <<removedPending, pool>>
    BY <1>2, <2>1 DEF Loads
  <2> HIDE DEF d
  <2> QED
    BY <2>1, <2>2, EnqueueBuilds
<1>3. CASE ShutdownJoins
  <2>1. /\ pending' = {} /\ priority' = << >> /\ background' = << >> /\ queued' = 0
        /\ ~removedPending' /\ wpc' = wpc /\ \A w \in Workers : wpc[w] = "exited"
    BY <1>3 DEF ShutdownJoins, Places, TypeOK, pool
  <2>2. At("compile")' = {} /\ At("notify")' = {}
    BY <2>1 DEF At
  <2>3. Nothing'
    BY <2>1, <2>2 DEF Nothing
  <2> QED
    BY <2>3, NoBuilds, PTL
<1>4. CASE wait_pipeline_for_persistent_pass
  <2>1. UNCHANGED <<pending, queued, removedPending, pool>>
    BY <1>4 DEF wait_pipeline_for_persistent_pass, asking
  <2>2. CASE UNCHANGED <<priority, background>>
    BY <2>1, <2>2, BuildsUntouched DEF queues
  <2>3. CASE Ref \in Queued /\ promote_pending_pipeline_for_wait
    BY <2>1, <2>3, PromoteBuilds
  <2> QED
    BY <1>4, <2>2, <2>3 DEF wait_pipeline_for_persistent_pass
<1>5. ASSUME NEW w \in Workers, pipeline_worker(w) PROVE Builds'
  <2>1. UNCHANGED <<pending, queued, removedPending>> /\ wpc[w] = "check"
    BY <1>5 DEF pipeline_worker, asking
  <2>2. CASE Moves(w, "exited", None) /\ UNCHANGED <<priority, background>>
    <3>1. queued' = queued - 0
      BY <2>1, Numbers
    <3> QED
      BY <2>1, <2>2, <3>1, IdleWorkerBuilds DEF queues
  <2>3. CASE UNCHANGED <<priority, background, pool>>
    BY <2>1, <2>3, BuildsUntouched DEF queues
  <2>4. CASE /\ priority # << >> /\ Moves(w, "compile", Head(priority))
             /\ priority' = Tail(priority) /\ background' = background
    <3>1. PICK p : p = Head(priority)
      OBVIOUS
    <3>2. /\ p \in Queued /\ p \in Pipelines /\ Apart(priority', background')
          /\ Queued' = Queued \ {p} /\ Entries' = Entries - 1
      BY <2>4, <3>1, FirstTaken
    <3> QED
      BY <2>1, <2>4, <3>1, <3>2, TakeBuilds
  <2>5. CASE /\ background # << >> /\ Moves(w, "compile", Head(background))
             /\ background' = Tail(background) /\ priority' = priority
    <3>1. PICK p : p = Head(background)
      OBVIOUS
    <3>2. /\ p \in Queued /\ p \in Pipelines /\ Apart(priority', background')
          /\ Queued' = Queued \ {p} /\ Entries' = Entries - 1
      BY <2>5, <3>1, FirstTaken
    <3> QED
      BY <2>1, <2>5, <3>1, <3>2, TakeBuilds
  <2> QED
    BY <1>5, <2>2, <2>3, <2>4, <2>5 DEF pipeline_worker
<1>6. ASSUME NEW w \in Workers, CompileNotifies(w) PROVE Builds'
  <2>1. /\ wpc[w] = "notify" /\ Moves(w, "check", None) /\ queued' = queued - 1
        /\ UNCHANGED <<queues, removedPending>>
    BY <1>6 DEF CompileNotifies, asking
  <2> QED
    BY <2>1, IdleWorkerBuilds
<1>7. CASE UNCHANGED vars
  BY <1>7, BuildsUntouched DEF vars, asking
<1> QED
  BY <1>1, <1>2, <1>3, <1>4, <1>5, <1>6, <1>7, StepCases, AsideBuilds, WithdrawBuilds,
     FindNotifiesBuilds, CompiledBuilds
-----------------------------------------------------------------------------
(* Types.                                                                   *)

BuildTypes ==
    /\ pending \subseteq Pipelines /\ queued \in Nat
    /\ priority \in Seq(Pipelines) /\ background \in Seq(Pipelines)

(* The variables of one thread or another that are not its counts.          *)
SharedTypes ==
    /\ done \subseteq Pipelines /\ cv \subseteq Workers \cup {Consumer}
    /\ threadEnd \in BOOLEAN /\ frameActive \in BOOLEAN /\ skip \in BOOLEAN
    /\ cpc \in {"next", "wait", "persistent", "promoted", "aborted", "ended"}
    /\ wpc \in [Workers -> {"check", "compile", "notify", "exited"}]
    /\ job \in [Workers -> Pipelines \cup {None}]

AskingTypes ==
    /\ pc \in {"load", "notifyLoad", "ready", "create", "notifyOne", "notifyAll", "wake",
               "join", "down"}
    /\ draw \in Draw \cup {NoDraw} /\ removedPending \in BOOLEAN
    /\ cached \subseteq GXPipelines /\ wanted \subseteq Pipelines

DrawTypes ==
    /\ recorded \in Seq(Draw) /\ Len(recorded) <= MaxDraws
    /\ sealed \in Seq(Draw) /\ Len(sealed) <= MaxDraws

UnaskedType == unasked \in BOOLEAN

LEMMA TypeParts ==
    TypeOK <=> BuildTypes /\ SharedTypes /\ AskingTypes /\ DrawTypes /\ UnaskedType
BY DEF TypeOK, BuildTypes, SharedTypes, AskingTypes, DrawTypes, UnaskedType

LEMMA BuildsTyped == Builds => BuildTypes
BY Owners, Numbers DEF BuildTypes

LEMMA Draws ==
    /\ \A d \in Draw : d.ref \in Pipelines
    /\ \A p \in Pipelines : [ref |-> p, persistent |-> FALSE] \in Draw
BY DEF Draw, Pipelines

(* A frame gets longer by a draw, up to its bound, and shorter by one.      *)
LEMMA FrameGrows ==
    ASSUME NEW s \in Seq(Draw), NEW d \in Draw, Len(s) < MaxDraws
    PROVE  Append(s, d) \in Seq(Draw) /\ Len(Append(s, d)) <= MaxDraws
BY AppendProperties, LenProperties

LEMMA FrameShrinks ==
    ASSUME NEW s \in Seq(Draw), s # << >>, Len(s) <= MaxDraws
    PROVE  /\ Tail(s) \in Seq(Draw) /\ Len(Tail(s)) <= MaxDraws /\ Head(s) \in Draw
BY HeadTailProperties, LenProperties

LEMMA DrawsStep ==
    ASSUME TypeOK, Places, [Next]_vars
    PROVE  DrawTypes'
<1>1. DrawTypes
  BY TypeParts
<1>2. ASSUME NEW d \in Draw, find_pipeline(d) PROVE DrawTypes'
  <2>1. sealed' = sealed /\ (recorded' = recorded \/ recorded' = Append(recorded, d))
    BY <1>2 DEF find_pipeline, Returns, Enqueues, Goes, encode
  <2>2. Len(recorded) < MaxDraws
    BY <1>2 DEF find_pipeline
  <2> QED
    BY <1>1, <2>1, <2>2, FrameGrows DEF DrawTypes
<1>3. ASSUME NEW d \in Draw, DrawsCached(d) PROVE DrawTypes'
  BY <1>1, <1>3, FrameGrows DEF DrawsCached, DrawTypes, encode
<1>4. CASE FindNotifies
  <2>1. sealed' = sealed /\ (recorded' = recorded \/ recorded' = Append(recorded, draw))
    BY <1>4 DEF FindNotifies, Returns, encode
  <2>2. draw \in Draw /\ Len(recorded) < MaxDraws
    BY <1>4 DEF FindNotifies, Places
  <2> QED
    BY <1>1, <2>1, <2>2, FrameGrows DEF DrawTypes
<1>5. CASE end_pipeline_frame
  <2>1. << >> \in Seq(Draw) /\ Len(<< >>) <= MaxDraws
    BY EmptySeq
  <2> QED
    BY <1>1, <1>5, <2>1 DEF end_pipeline_frame, DrawTypes
<1>6. CASE FrameWorker
  <2>1. cpc \in {"wait", "persistent", "promoted"} => sealed # << >>
    BY DEF Places
  <2>2. recorded' = recorded /\ (sealed' = sealed \/ (sealed # << >> /\ sealed' = Tail(sealed)))
    BY <1>6, <2>1 DEF FrameWorker, bind_pipeline, GoesToWait, try_pipeline, wait_pipeline,
       wait_pipeline_for_persistent_pass, WaitsForPromoted, Passes, Sleeps, asking
  <2> QED
    BY <1>1, <2>2, FrameShrinks DEF DrawTypes
<1>7. ASSUME \/ begin_pipeline_frame \/ set_skip_unready_pipelines \/ ShutdownBegins
             \/ SyncCreated \/ (\E p \in Stored : Loads(p)) \/ LoadNotified
             \/ initialize_pipeline_cache \/ ShutdownWakes \/ ShutdownJoins
             \/ (\E w \in Workers : Worker(w)) \/ UNCHANGED vars
      PROVE  DrawTypes'
  <2>1. recorded' = recorded /\ sealed' = sealed
    BY <1>7 DEF begin_pipeline_frame, set_skip_unready_pipelines, ShutdownBegins,
       SyncCreated, Loads, Enqueues, LoadNotified, initialize_pipeline_cache,
       ShutdownWakes, ShutdownJoins, Worker, pipeline_worker, Compiled, CompileNotifies,
       Goes, asking, encode, vars
  <2> QED
    BY <1>1, <2>1 DEF DrawTypes
<1> QED
  BY <1>2, <1>3, <1>4, <1>5, <1>6, <1>7 DEF Next, Decisions, Producer, HasEnded

LEMMA AskingStep ==
    ASSUME TypeOK, Places, [Next]_vars
    PROVE  AskingTypes'
<1>1. AskingTypes /\ SharedTypes
  BY TypeParts
<1>2. ASSUME NEW d \in Draw, find_pipeline(d) PROVE AskingTypes'
  BY <1>1, <1>2, Draws DEF find_pipeline, Returns, Enqueues, Goes, AskingTypes
<1>3. ASSUME NEW d \in Draw, DrawsCached(d) PROVE AskingTypes'
  BY <1>1, <1>3 DEF DrawsCached, AskingTypes
<1>4. CASE SyncCreated
  BY <1>1, <1>4 DEF SyncCreated, Goes, AskingTypes
<1>5. CASE FindNotifies
  <2>1. draw \in Draw
    BY <1>5 DEF FindNotifies, Places
  <2> QED
    BY <1>1, <1>5, <2>1, Draws DEF FindNotifies, Returns, AskingTypes
<1>6. ASSUME NEW p \in Stored, Loads(p) PROVE AskingTypes'
  <2>1. [ref |-> p, persistent |-> FALSE] \in Draw
    BY Draws
  <2> QED
    BY <1>1, <1>6, <2>1 DEF Loads, Enqueues, Goes, AskingTypes
<1>7. ASSUME \/ begin_pipeline_frame \/ end_pipeline_frame \/ set_skip_unready_pipelines
             \/ ShutdownBegins \/ LoadNotified \/ initialize_pipeline_cache
             \/ ShutdownWakes \/ ShutdownJoins \/ FrameWorker
             \/ (\E w \in Workers : Worker(w)) \/ UNCHANGED vars
      PROVE  AskingTypes'
  BY <1>1, <1>7 DEF begin_pipeline_frame, end_pipeline_frame, set_skip_unready_pipelines,
     ShutdownBegins, LoadNotified, initialize_pipeline_cache, ShutdownWakes, ShutdownJoins,
     FrameWorker, bind_pipeline, wait_pipeline, wait_pipeline_for_persistent_pass,
     WaitsForPromoted, Worker, pipeline_worker, Compiled, CompileNotifies, Goes, asking,
     vars, AskingTypes
<1> QED
  BY <1>2, <1>3, <1>4, <1>5, <1>6, <1>7 DEF Next, Decisions, Producer, HasEnded

(* Only the encoder, going to wait, sets the flag, and nobody clears it.    *)
LEMMA UnaskedStep ==
    ASSUME [Next]_vars
    PROVE  unasked' = unasked \/ (unasked' = (unasked \/ Ref \notin wanted \cup done))
<1>1. ASSUME FrameWorker
      PROVE  unasked' = unasked \/ (unasked' = (unasked \/ Ref \notin wanted \cup done))
  BY <1>1 DEF FrameWorker, bind_pipeline, GoesToWait, wait_pipeline,
     wait_pipeline_for_persistent_pass, WaitsForPromoted
<1>2. CASE Decisions
  BY <1>2 DEF Decisions, find_pipeline, DrawsCached, begin_pipeline_frame,
     end_pipeline_frame, set_skip_unready_pipelines, ShutdownBegins, encode
<1>3. CASE Producer
  BY <1>3 DEF Producer, SyncCreated, FindNotifies, Loads, LoadNotified,
     initialize_pipeline_cache, ShutdownWakes, ShutdownJoins, encode
<1>4. ASSUME (\E w \in Workers : Worker(w)) \/ UNCHANGED vars PROVE unasked' = unasked
  BY <1>4 DEF Worker, pipeline_worker, Compiled, CompileNotifies, encode, vars
<1> QED
  BY <1>1, <1>2, <1>3, <1>4 DEF Next, HasEnded

LEMMA UnaskedStays ==
    ASSUME [Next]_vars, ~unasked'
    PROVE  ~unasked
BY UnaskedStep

LEMMA SharedStep ==
    ASSUME TypeOK, Builds, Places, [Next]_vars
    PROVE  SharedTypes'
<1>1. SharedTypes /\ AskingTypes
  BY TypeParts
<1>2. CASE Decisions
  BY ZenonT(60), <1>1, <1>2 DEF Decisions, find_pipeline, DrawsCached, begin_pipeline_frame,
     end_pipeline_frame, set_skip_unready_pipelines, ShutdownBegins, frame, encode, pool,
     SharedTypes
<1>3. CASE Producer
  <2>1. CASE SyncCreated
    <3>1. draw.ref \in Pipelines
      BY <2>1, Draws DEF SyncCreated, Places
    <3> QED
      BY <1>1, <2>1, <3>1 DEF SyncCreated, frame, encode, pool, SharedTypes
  <2>2. CASE FindNotifies
    BY <1>1, <2>2 DEF FindNotifies, NotifiesOne, NotifiesAll, frame, encode, pool, SharedTypes
  <2>3. CASE ~SyncCreated /\ ~FindNotifies
    BY <1>1, <1>3, <2>3 DEF Producer, Loads, LoadNotified, initialize_pipeline_cache,
       ShutdownWakes, ShutdownJoins, NotifiesOne, NotifiesAll, frame, encode, pool, SharedTypes
  <2> QED
    BY <2>1, <2>2, <2>3
<1>4. CASE FrameWorker
  BY <1>1, <1>4 DEF FrameWorker, bind_pipeline, GoesToWait, try_pipeline, wait_pipeline,
     wait_pipeline_for_persistent_pass, WaitsForPromoted, Passes, Sleeps, frame, pool,
     SharedTypes
<1>5. ASSUME NEW w \in Workers, Worker(w) PROVE SharedTypes'
  <2>1. CASE pipeline_worker(w)
    <3>1. /\ priority # << >> => Head(priority) \in Pipelines
          /\ background # << >> => Head(background) \in Pipelines
      BY Owners, HeadTailProperties
    <3>2. UNCHANGED <<done, threadEnd, frameActive, skip, cpc>> /\ cv' \subseteq cv \cup {w}
      BY <2>1 DEF pipeline_worker, frame, encode
    <3>3. \/ UNCHANGED pool
          \/ \E to \in {"exited", "compile"}, p \in Pipelines \cup {None} : Moves(w, to, p)
      BY <2>1, <3>1 DEF pipeline_worker
    <3> QED
      BY <1>1, <3>2, <3>3 DEF Moves, pool, SharedTypes
  <2>2. CASE Compiled(w)
    <3>1. job[w] \in Pipelines
      BY <2>2 DEF Compiled, Builds, OneOwner, At
    <3> QED
      BY <1>1, <2>2, <3>1 DEF Compiled, Moves, frame, encode, SharedTypes
  <2>3. CASE CompileNotifies(w)
    BY <1>1, <2>3 DEF CompileNotifies, NotifiesAll, Moves, frame, encode, SharedTypes
  <2> QED
    BY <1>5, <2>1, <2>2, <2>3 DEF Worker
<1>6. CASE UNCHANGED vars
  BY <1>1, <1>6 DEF vars, frame, encode, pool, SharedTypes
<1> QED
  BY <1>2, <1>3, <1>4, <1>5, <1>6 DEF Next, HasEnded

LEMMA TypesStep ==
    ASSUME TypeOK, Builds, Places, [Next]_vars
    PROVE  TypeOK'
<1>1. BuildTypes'
  BY BuildsStep, BuildsTyped, PTL
<1>2. DrawTypes' /\ AskingTypes' /\ SharedTypes'
  BY DrawsStep, AskingStep, SharedStep
<1>3. UnaskedType'
  BY UnaskedStep DEF TypeOK, UnaskedType
<1> QED
  BY <1>1, <1>2, <1>3 DEF TypeOK, BuildTypes, SharedTypes, AskingTypes, DrawTypes, UnaskedType
-----------------------------------------------------------------------------
(* Where the threads are.                                                   *)

LEMMA PlacesStep ==
    ASSUME TypeOK, Places, [Next]_vars
    PROVE  Places'
<1>1. cv \subseteq Workers \cup {Consumer} /\ DOMAIN wpc = Workers
  BY DEF TypeOK
<1>2. ASSUME NEW d \in Draw, find_pipeline(d) PROVE Places'
  <2>1. /\ pc = "ready" /\ Len(recorded) < MaxDraws
        /\ UNCHANGED <<threadEnd, cv, removedPending, cpc, sealed, wpc>>
        /\ \/ pc' = "ready"
           \/ pc' \in {"create", "notifyOne"} /\ draw' = d /\ recorded' = recorded
    BY <1>2 DEF find_pipeline, Returns, Enqueues, Goes, encode, pool
  <2> QED
    BY <2>1 DEF Places
<1>3. ASSUME NEW d \in Draw, DrawsCached(d) PROVE Places'
  BY <1>3 DEF DrawsCached, Places, encode, pool
<1>4. ASSUME begin_pipeline_frame \/ end_pipeline_frame \/ set_skip_unready_pipelines
      PROVE  Places'
  BY <1>4 DEF begin_pipeline_frame, end_pipeline_frame, set_skip_unready_pipelines, Places,
     asking, encode, pool
<1>5. CASE ShutdownBegins
  BY <1>5 DEF ShutdownBegins, Goes, Places, pool
<1>6. CASE SyncCreated
  BY <1>6 DEF SyncCreated, Goes, Places, encode, pool
<1>7. CASE FindNotifies
  <2>1. cv' \subseteq cv
    BY <1>7 DEF FindNotifies, NotifiesOne, NotifiesAll
  <2> QED
    BY <1>7, <2>1 DEF FindNotifies, Returns, Places, encode, pool
<1>8. ASSUME NEW p \in Stored, Loads(p) PROVE Places'
  BY <1>8 DEF Loads, Enqueues, Goes, Places, encode, pool
<1>9. CASE LoadNotified
  <2>1. cv' \subseteq cv
    BY <1>9 DEF LoadNotified, NotifiesOne
  <2> QED
    BY <1>9, <2>1 DEF LoadNotified, Goes, Places, encode, pool
<1>10. ASSUME initialize_pipeline_cache \/ ShutdownWakes PROVE Places'
  BY <1>10 DEF initialize_pipeline_cache, ShutdownWakes, NotifiesAll, Goes, Places, encode,
     pool
<1>11. CASE ShutdownJoins
  BY <1>11 DEF ShutdownJoins, Goes, Places, encode, pool
<1>12. CASE FrameWorker
  <2>1. UNCHANGED <<pc, draw, recorded, removedPending, threadEnd, wpc>>
    BY <1>12 DEF FrameWorker, bind_pipeline, wait_pipeline, wait_pipeline_for_persistent_pass,
       WaitsForPromoted, asking, pool
  <2>2. /\ sealed # << >> /\ cpc # "ended" /\ cpc' # "ended"
        /\ cv' \subseteq cv \cup {Consumer}
        /\ \/ sealed' = sealed
           \/ sealed' = Tail(sealed) /\ cpc' = "next" /\ cv' = cv
        /\ Consumer \in cv' => cpc' \in {"wait", "promoted"}
    BY <1>12 DEF FrameWorker, bind_pipeline, GoesToWait, try_pipeline, wait_pipeline,
       wait_pipeline_for_persistent_pass, WaitsForPromoted, Passes, Sleeps, Places
  <2> QED
    BY <2>1, <2>2 DEF Places
<1>13. ASSUME NEW w \in Workers, Worker(w) PROVE Places'
  <2>1. UNCHANGED <<pc, draw, recorded, removedPending, threadEnd, cpc, sealed>>
    BY <1>13 DEF Worker, pipeline_worker, Compiled, CompileNotifies, asking, encode
  <2>2. CASE pipeline_worker(w)
    <3>1. \/ wpc' = wpc /\ cv' = cv \cup {w} /\ wpc[w] = "check"
          \/ (\E to : wpc' = [wpc EXCEPT ![w] = to]) /\ cv' = cv /\ w \notin cv
      BY <2>2 DEF pipeline_worker, Moves, pool
    <3> QED
      BY <1>1, <2>1, <3>1 DEF Places
  <2>3. CASE Compiled(w)
    <3>1. wpc[w] = "compile" /\ cv' = cv /\ wpc' = [wpc EXCEPT ![w] = "notify"]
      BY <2>3 DEF Compiled, Moves
    <3> QED
      BY <1>1, <2>1, <3>1 DEF Places
  <2>4. CASE CompileNotifies(w)
    BY <1>1, <2>1, <2>4 DEF CompileNotifies, NotifiesAll, Places
  <2> QED
    BY <1>13, <2>2, <2>3, <2>4 DEF Worker
<1>14. CASE UNCHANGED vars
  BY <1>14 DEF vars, asking, encode, pool, Places
<1> QED
  BY <1>2, <1>3, <1>4, <1>5, <1>6, <1>7, <1>8, <1>9, <1>10, <1>11, <1>12, <1>13, <1>14
     DEF Next, Decisions, Producer, HasEnded

-----------------------------------------------------------------------------
(* What a frame asked for stays.                                            *)

(* A build only ends by being there, and nothing new gets behind.           *)
LEMMA StillKept ==
    ASSUME Kept, wanted' = wanted, done \subseteq done', pending \subseteq done' \cup pending',
           Range(background') \subseteq Range(background), pc = "down" => pc' = "down",
           pc' \in {"notifyOne", "notifyAll"} => UNCHANGED <<pc, draw, frameActive>>
    PROVE  Kept'
BY DEF Kept, WantedStays

(* What becomes of the queues when the limit evicts.                        *)
LEMMA EnqueueKeeps ==
    ASSUME Builds, Kept, pc # "down", NEW d \in Draw, NEW preload \in BOOLEAN,
           Enqueues(d, preload), d.ref \notin done \cup pending, UNCHANGED done
    PROVE  /\ wanted' = wanted /\ wanted \subseteq done \cup pending'
           /\ wanted \cap Range(background') \subseteq done
           /\ pc' = "notifyOne" => d.ref \in pending'
           /\ deferGxPipeline(d.ref) /\ ~preload /\ pc' # "create" =>
                 d.ref \notin Range(background')
<1> DEFINE p     == d.ref
           defer == deferGxPipeline(p) /\ ~preload
           evict == defer /\ Full(pending) /\ background # << >>
           left  == IF evict THEN pending \ {Last(background)} ELSE pending
           rest  == IF evict THEN Front(background) ELSE background
           sync  == ~preload /\ Full(left) /\ ~(defer /\ skip)
<1>1. /\ pending' = IF sync THEN left ELSE left \cup {p}
      /\ background' = IF ~sync /\ ~defer THEN Append(rest, p) ELSE rest
      /\ pc' = (IF sync THEN "create" ELSE IF preload THEN "notifyLoad" ELSE "notifyOne")
      /\ wanted' = wanted
  BY DEF Enqueues, Goes
<1>2. /\ p \in Pipelines /\ p \notin pending /\ p \notin wanted
      /\ wanted \subseteq done \cup pending /\ wanted \cap Range(background) \subseteq done
  BY Draws DEF Kept, WantedStays
<1>3. /\ rest \in Seq(Pipelines) /\ IsInjective(rest) /\ Range(rest) \subseteq Range(background)
      /\ evict => Last(background) \in Range(background)
  <2>1. CASE evict
    BY <2>1, Owners, FrontTaken
  <2>2. CASE ~evict
    BY <2>2, Owners
  <2> QED
    BY <2>1, <2>2
<1>4. Range(background) \subseteq pending
  BY Owners
<1>5. Range(Append(rest, p)) = Range(rest) \cup {p}
  BY <1>2, <1>3, <1>4, Appended
<1>6. wanted \subseteq done \cup left
  BY <1>2, <1>3
<1> HIDE DEF p, evict, left, rest, sync
<1> QED
  BY <1>1, <1>2, <1>3, <1>4, <1>5, <1>6 DEF p

LEMMA KeptStep ==
    ASSUME TypeOK, Builds, Places, Kept, [Next]_vars
    PROVE  Kept'
<1>1. /\ Queued = Range(priority) \cup Range(background) /\ Queued \subseteq pending
      /\ priority \in Seq(Pipelines) /\ background \in Seq(Pipelines)
      /\ IsInjective(priority) /\ IsInjective(background)
  BY Owners
<1>2. ASSUME NEW d \in Draw, find_pipeline(d) PROVE Kept'
  <2>1. /\ pc = "ready" /\ UNCHANGED <<done, frameActive>> /\ d.ref \in Pipelines
    BY <1>2, Draws DEF find_pipeline, frame
  <2>2. CASE d.ref \in done /\ Returns(d) /\ UNCHANGED queues
    BY <2>1, <2>2 DEF Returns, Kept, WantedStays, queues
  <2>3. CASE /\ d.ref \in pending \ done /\ touch_pending_pipeline(d.ref) /\ pending' = pending
             /\ Goes("create", d) \/ Returns(d)
    <3>1. /\ Range(background') \subseteq Range(background)
          /\ frameActive => d.ref \notin Range(background')
      BY <1>1, <2>3, RemovedFirst DEF touch_pending_pipeline
    <3> QED
      BY <2>1, <2>3, <3>1 DEF Goes, Returns, Kept, WantedStays
  <2>4. CASE d.ref \notin done \cup pending /\ Goes("create", d) /\ UNCHANGED queues
    BY <2>1, <2>4 DEF Goes, Kept, WantedStays, queues
  <2>5. CASE /\ d.ref \notin done \cup pending /\ Enqueues(d, FALSE)
             /\ ~Synchronous(d.ref)
    <3>1. /\ wanted' = wanted /\ wanted \subseteq done \cup pending'
          /\ wanted \cap Range(background') \subseteq done
          /\ pc' = "notifyOne" => d.ref \in pending'
          /\ deferGxPipeline(d.ref) /\ pc' # "create" => d.ref \notin Range(background')
      BY <2>1, <2>5, EnqueueKeeps
    <3>2. pc' \in {"create", "notifyOne"} /\ draw' = d
      BY <2>5 DEF Enqueues, Goes
    <3>3. frameActive => deferGxPipeline(d.ref)
      BY <2>5 DEF deferGxPipeline, Synchronous
    <3> QED
      BY <2>1, <3>1, <3>2, <3>3 DEF Kept, WantedStays
  <2> QED
    BY <1>2, <2>2, <2>3, <2>4, <2>5 DEF find_pipeline
<1>3. ASSUME NEW d \in Draw, DrawsCached(d) PROVE Kept'
  BY <1>3, StillKept DEF DrawsCached, queues
<1>4. ASSUME \/ begin_pipeline_frame \/ end_pipeline_frame \/ set_skip_unready_pipelines
             \/ ShutdownBegins \/ LoadNotified \/ initialize_pipeline_cache
             \/ ShutdownWakes
      PROVE  Kept'
  <2>1. /\ UNCHANGED <<wanted, done, pending, background>> /\ pc # "down"
        /\ pc' \notin {"notifyOne", "notifyAll"}
    BY <1>4 DEF begin_pipeline_frame, end_pipeline_frame, set_skip_unready_pipelines,
       ShutdownBegins, LoadNotified, initialize_pipeline_cache, ShutdownWakes, Goes, asking,
       queues
  <2> QED
    BY <2>1, StillKept
<1>5. CASE SyncCreated
  <2>1. /\ Range(background') \subseteq Range(background) /\ wanted' = wanted
        /\ done' = done \cup {draw.ref} /\ pending \ {draw.ref} \subseteq pending'
        /\ draw' = draw /\ pc # "down"
    BY <1>1, <1>5, RemovedFirst DEF SyncCreated, Goes
  <2> QED
    BY <2>1 DEF Kept, WantedStays
<1>6. CASE FindNotifies
  BY <1>6 DEF FindNotifies, Returns, Kept, WantedStays, queues, frame
<1>7. ASSUME NEW p \in Stored, Loads(p) PROVE Kept'
  <2> DEFINE d == [ref |-> p, persistent |-> FALSE]
  <2>1. d \in Draw /\ d.ref = p
    BY Draws
  <2>2. /\ Enqueues(d, TRUE) /\ d.ref \notin done \cup pending /\ pc = "load"
        /\ UNCHANGED <<done, frameActive>>
    BY <1>7, <2>1 DEF Loads, frame
  <2>3. pc' = "notifyLoad"
    BY <2>2 DEF Enqueues, Goes
  <2>4. /\ wanted' = wanted /\ wanted \subseteq done \cup pending'
        /\ wanted \cap Range(background') \subseteq done
    BY <2>1, <2>2, EnqueueKeeps
  <2> QED
    BY <2>2, <2>3, <2>4 DEF Kept, WantedStays
<1>8. CASE ShutdownJoins
  <2>1. pc' = "down" /\ Range(background') = {}
    BY <1>8, EmptySeq, InRange DEF ShutdownJoins, Goes
  <2> QED
    BY <2>1 DEF Kept, WantedStays
<1>9. CASE FrameWorker
  <2>1. /\ UNCHANGED <<done, pending, frameActive, pc, draw, wanted>>
        /\ background' = background \/ background' = RemoveFirst(background, Ref)
    BY <1>9 DEF FrameWorker, bind_pipeline, wait_pipeline, wait_pipeline_for_persistent_pass,
       promote_pending_pipeline_for_wait, WaitsForPromoted, asking, queues, frame
  <2>2. Range(background') \subseteq Range(background)
    BY <1>1, <2>1, RemovedFirst
  <2> QED
    BY <2>1, <2>2, StillKept
<1>10. ASSUME NEW w \in Workers, Worker(w) PROVE Kept'
  <2>1. /\ UNCHANGED <<frameActive, pc, draw, wanted>>
        /\ \/ UNCHANGED <<done, pending>>
           \/ done' = done \cup {job[w]} /\ pending' = pending \ {job[w]}
        /\ \/ background' = background
           \/ background # << >> /\ background' = Tail(background)
    BY <1>10 DEF Worker, pipeline_worker, Compiled, CompileNotifies, asking, queues, frame
  <2>2. Range(background') \subseteq Range(background)
    BY ZenonT(60), <1>1, <2>1, TailTaken
  <2> QED
    BY <2>1, <2>2, StillKept
<1>11. CASE UNCHANGED vars
  BY <1>11, StillKept DEF vars, asking, queues, frame
<1> QED
  BY <1>2, <1>3, <1>4, <1>5, <1>6, <1>7, <1>8, <1>9, <1>10, <1>11 DEF Next, Decisions,
     Producer, HasEnded

-----------------------------------------------------------------------------
(* Nobody is forgotten.                                                     *)

(* With all workers asleep and nobody about to wake one, nothing is pending. *)
LEMMA AsleepIsIdle ==
    ASSUME TypeOK, Builds, Places, NobodyForgotten, Workers \subseteq cv, ~unasked,
           pc \notin {"notifyOne", "notifyLoad"}
    PROVE  pending = {} /\ Queued = {}
<1>1. Compiling = {}
  BY DEF Compiling, Places
<1> QED
  BY <1>1, Owners DEF NobodyForgotten

(* The encoder sleeps for a build that was asked for: it has ended exactly  *)
(* when the pipeline is there.                                              *)
WaitEndsWhenDone ==
    ~unasked /\ Consumer \in cv =>
      ~threadEnd /\ sealed # << >> /\ Ref \in wanted \cup done /\ (Finished <=> Ref \in done)

LEMMA WaitIsForDone == TypeOK /\ Places /\ Kept /\ Asked => WaitEndsWhenDone
<1> SUFFICES ASSUME TypeOK, Places, Kept, Asked, ~unasked, Consumer \in cv
             PROVE  /\ ~threadEnd /\ sealed # << >> /\ Ref \in wanted \cup done
                    /\ (Finished <=> Ref \in done)
  BY DEF WaitEndsWhenDone
<1>1. cpc \in {"wait", "promoted"} /\ ~threadEnd /\ sealed # << >> /\ pc # "down"
  BY DEF Places
<1>2. Ref \in wanted \cup done
  BY <1>1 DEF Asked, WaitsForKnown, Waits
<1> QED
  BY <1>1, <1>2 DEF Kept, WantedStays, Finished

(* The encoder takes no notification from the workers: with all of them     *)
(* asleep it has nothing to wait for.                                       *)
LEMMA WorkerIsWoken ==
    ASSUME TypeOK, Builds, Places, Kept, Asked, NobodyForgotten, ~unasked,
           pc \in {"notifyOne", "notifyLoad"}, NotifiesOne
    PROVE  ~(Workers \subseteq cv')
<1>1. SUFFICES ASSUME Workers \subseteq cv' PROVE FALSE
  OBVIOUS
<1>2. Workers \subseteq cv
  BY <1>1 DEF NotifiesOne
<1>3. Consumer \in cv
  BY <1>1, <1>2 DEF NotifiesOne, TypeOK
<1>4. Finished
  <2>1. wanted \subseteq done
    BY <1>2 DEF Asked
  <2> QED
    BY <1>3, <2>1, WaitIsForDone DEF WaitEndsWhenDone
<1>5. \E w \in Workers : wpc[w] = "notify"
  BY <1>3, <1>4 DEF NobodyForgotten
<1> QED
  BY <1>2, <1>5 DEF Places

(* Only the encoder decides what it waits for; the rest adds to what is     *)
(* built and asked for.                                                     *)
LEMMA WaitStep ==
    ASSUME IInv, [Next]_vars, ~unasked'
    PROVE  WaitsForKnown'
<1>1. Places /\ ~unasked /\ WaitsForKnown
  BY UnaskedStays DEF IInv, Asked
<1>2. SUFFICES ASSUME Waits' PROVE Ref' \in wanted' \cup done'
  BY DEF WaitsForKnown
<1>3. CASE Waits /\ sealed' = sealed /\ wanted \subseteq wanted' /\ done \subseteq done'
  BY <1>1, <1>3 DEF WaitsForKnown, Ref
<1>4. CASE FrameWorker
  <2>1. UNCHANGED <<wanted, done>>
    BY <1>4 DEF FrameWorker, bind_pipeline, wait_pipeline, wait_pipeline_for_persistent_pass,
       WaitsForPromoted, asking
  <2>2. CASE bind_pipeline
    <3>1. sealed' = sealed /\ Ref \in wanted \cup done
      BY <1>2, <2>2 DEF bind_pipeline, GoesToWait, try_pipeline, Passes, Waits
    <3> QED
      BY <2>1, <3>1 DEF Ref
  <2>3. CASE wait_pipeline \/ wait_pipeline_for_persistent_pass \/ WaitsForPromoted
    <3>1. Waits /\ sealed' = sealed
      BY <1>2, <2>3 DEF wait_pipeline, wait_pipeline_for_persistent_pass, WaitsForPromoted,
         Passes, Sleeps, Waits
    <3> QED
      BY <1>3, <2>1, <3>1
  <2> QED
    BY <1>4, <2>2, <2>3 DEF FrameWorker
<1>5. CASE Decisions
  <2>1. Waits /\ sealed' = sealed
    BY <1>2, <1>5 DEF Decisions, find_pipeline, DrawsCached, begin_pipeline_frame,
       end_pipeline_frame, set_skip_unready_pipelines, ShutdownBegins, encode, Waits
  <2>2. wanted \subseteq wanted' /\ done' = done
    BY <1>5 DEF Decisions, find_pipeline, DrawsCached, begin_pipeline_frame,
       end_pipeline_frame, set_skip_unready_pipelines, ShutdownBegins, Enqueues, Goes,
       Returns, asking
  <2> QED
    BY <1>3, <2>1, <2>2
<1>6. CASE Producer
  <2>1. ~ShutdownJoins
    BY <1>1, <1>2 DEF ShutdownJoins, Places, Waits, encode
  <2>2. Waits /\ sealed' = sealed
    BY <1>2, <1>6 DEF Producer, SyncCreated, FindNotifies, Loads, LoadNotified,
       initialize_pipeline_cache, ShutdownWakes, ShutdownJoins, encode, Waits
  <2>3. wanted \subseteq wanted' /\ done \subseteq done'
    BY <1>6, <2>1 DEF Producer, SyncCreated, FindNotifies, Loads, LoadNotified,
       initialize_pipeline_cache, ShutdownWakes, Enqueues, Goes, Returns
  <2> QED
    BY <1>3, <2>2, <2>3
<1>7. ASSUME (\E w \in Workers : Worker(w)) \/ UNCHANGED vars PROVE Ref' \in wanted' \cup done'
  <2>1. Waits /\ sealed' = sealed /\ wanted' = wanted /\ done \subseteq done'
    BY <1>2, <1>7 DEF Worker, pipeline_worker, Compiled, CompileNotifies, asking, encode,
       vars, Waits
  <2> QED
    BY <1>3, <2>1
<1> QED
  BY <1>4, <1>5, <1>6, <1>7 DEF Next, HasEnded

LEMMA AskedStep ==
    ASSUME IInv, [Next]_vars
    PROVE  Asked'
<1>1. TypeOK /\ Builds /\ Places /\ Kept /\ Asked /\ NobodyForgotten
  BY DEF IInv
<1>2. SUFFICES ASSUME ~unasked', Workers \subseteq cv' PROVE wanted' \subseteq done'
  BY WaitStep DEF Asked
<1>3. ~unasked
  BY <1>2, UnaskedStays
<1>4. CASE wanted' = wanted
  <2>1. CASE Workers \subseteq cv /\ done \subseteq done'
    BY <1>1, <1>3, <1>4, <2>1 DEF Asked
  <2>2. ASSUME NEW w \in Workers, cv' = cv \cup {w}, Awake = FALSE, wpc[w] = "check",
               done' = done
        PROVE  wanted' \subseteq done'
    <3>1. Queued = {} /\ Compiling = {} /\ pc # "down"
      BY <1>1, <1>2, <2>2 DEF Awake, Compiling, Places
    <3> QED
      BY <1>1, <1>4, <2>2, <3>1, Owners DEF Kept, WantedStays
  <2>3. CASE ShutdownJoins
    BY <1>1, <1>2, <2>3 DEF ShutdownJoins, Places
  <2>4. CASE FrameWorker \/ ShutdownWakes \/ SyncCreated
    <3>1. \/ cv' \subseteq cv \cup {Consumer} /\ done \subseteq done'
          \/ cv' = {Consumer} \/ cv' = {}
      BY <2>4 DEF FrameWorker, bind_pipeline, wait_pipeline, ShutdownWakes, SyncCreated,
         wait_pipeline_for_persistent_pass, WaitsForPromoted, Sleeps, NotifiesAll
    <3> QED
      BY <1>2, <2>1, <3>1
  <2>5. ASSUME LoadNotified \/ FindNotifies PROVE wanted' \subseteq done'
    <3>1. cv' = {} \/ (pc \in {"notifyOne", "notifyLoad"} /\ NotifiesOne)
      BY <2>5 DEF LoadNotified, FindNotifies, NotifiesAll
    <3> QED
      BY <1>1, <1>2, <1>3, <3>1, WorkerIsWoken
  <2>6. ASSUME NEW w \in Workers, Worker(w) PROVE wanted' \subseteq done'
    <3>1. \/ cv' = cv /\ done \subseteq done'
          \/ cv' = {}
          \/ cv' = cv \cup {w} /\ Awake = FALSE /\ wpc[w] = "check" /\ done' = done
      BY <2>6 DEF Worker, pipeline_worker, Compiled, CompileNotifies, NotifiesAll, Awake
    <3> QED
      BY <1>2, <2>1, <2>2, <3>1
  <2>7. ASSUME \/ Decisions \/ (\E p \in Stored : Loads(p)) \/ initialize_pipeline_cache
               \/ UNCHANGED vars
        PROVE  UNCHANGED <<cv, done>>
    BY <2>7 DEF Decisions, find_pipeline, DrawsCached, begin_pipeline_frame,
       end_pipeline_frame, set_skip_unready_pipelines, ShutdownBegins, Loads,
       initialize_pipeline_cache, vars
  <2> QED
    BY <1>2, <2>1, <2>3, <2>4, <2>5, <2>6, <2>7 DEF Next, Producer, HasEnded
<1>5. ASSUME NEW d \in Draw, find_pipeline(d) PROVE wanted' \subseteq done'
  <2>1. CASE UNCHANGED wanted
    BY <1>4, <2>1
  <2>2. CASE Returns(d)
    <3>1. /\ wanted' \subseteq wanted \cup {d.ref}
          /\ UNCHANGED <<done, cv>> /\ pc = "ready"
      BY <1>5, <2>2 DEF find_pipeline, Returns
    <3>2. d.ref \in done \cup pending
      BY <1>5, <2>2 DEF find_pipeline, Enqueues, Goes, Returns
    <3> QED
      BY <1>1, <1>2, <1>3, <3>1, <3>2, AsleepIsIdle DEF Asked
  <2> QED
    BY <1>5, <2>1, <2>2 DEF find_pipeline, Enqueues, Goes
<1>6. CASE FindNotifies
  BY <1>1, <1>2, <1>3, <1>6, WorkerIsWoken DEF FindNotifies, NotifiesAll
<1>7. ASSUME \/ (\E d \in Draw : DrawsCached(d)) \/ begin_pipeline_frame
             \/ end_pipeline_frame \/ set_skip_unready_pipelines \/ ShutdownBegins
             \/ SyncCreated \/ (\E p \in Stored : Loads(p)) \/ LoadNotified
             \/ initialize_pipeline_cache \/ ShutdownWakes \/ ShutdownJoins
             \/ FrameWorker \/ (\E w \in Workers : Worker(w)) \/ UNCHANGED vars
      PROVE  wanted' = wanted
  BY <1>7 DEF DrawsCached, begin_pipeline_frame, end_pipeline_frame,
     set_skip_unready_pipelines, ShutdownBegins, SyncCreated, Loads, Enqueues, LoadNotified,
     initialize_pipeline_cache, ShutdownWakes, ShutdownJoins, FrameWorker, bind_pipeline,
     wait_pipeline, wait_pipeline_for_persistent_pass, WaitsForPromoted, Worker,
     pipeline_worker, Compiled, CompileNotifies, Goes, asking, vars
<1> QED
  BY <1>4, <1>5, <1>6, <1>7 DEF Next, Decisions, Producer, HasEnded

LEMMA QueueIsSeen ==
    ASSUME IInv, [Next]_vars, Queued' # {}, Workers \subseteq cv', ~unasked'
    PROVE  pc' \in {"notifyOne", "notifyLoad"}
<1>1. TypeOK /\ Builds /\ Places /\ Kept /\ Asked /\ NobodyForgotten /\ ~unasked
  BY UnaskedStays DEF IInv
<1>2. priority \in Seq(Pipelines) /\ background \in Seq(Pipelines)
  BY <1>1, Owners
<1>3. ASSUME Workers \subseteq cv, pc \notin {"notifyOne", "notifyLoad"}
      PROVE  Queued = {} /\ priority = << >> /\ background = << >>
  BY <1>1, <1>2, <1>3, AsleepIsIdle, InRange DEF Queued
<1>4. ASSUME NEW d \in Draw, find_pipeline(d) PROVE pc' = "notifyOne"
  <2>1. Queued = {} /\ priority = << >> /\ background = << >>
    BY <1>3, <1>4 DEF find_pipeline
  <2>2. pc' = "notifyOne" \/ UNCHANGED <<priority, background>>
    BY <1>4, <2>1 DEF find_pipeline, Enqueues, Goes, touch_pending_pipeline, queues, Queued
  <2> QED
    BY <2>1, <2>2 DEF Queued
<1>5. ASSUME NEW p \in Stored, Loads(p) PROVE pc' = "notifyLoad"
  BY <1>5 DEF Loads, Enqueues, Goes
<1>6. ASSUME LoadNotified \/ FindNotifies PROVE FALSE
  <2>1. cv' = {} \/ (pc \in {"notifyOne", "notifyLoad"} /\ NotifiesOne)
    BY <1>6 DEF LoadNotified, FindNotifies, NotifiesAll
  <2> QED
    BY <1>1, <2>1, WorkerIsWoken
<1>7. CASE SyncCreated
  <2>1. Queued = {} /\ priority = << >> /\ background = << >>
    BY <1>3, <1>7 DEF SyncCreated
  <2>2. Range(priority') = {} /\ Range(background') = {}
    <3>1. /\ priority' = RemoveFirst(priority, draw.ref)
          /\ background' = RemoveFirst(background, draw.ref)
      BY <1>7 DEF SyncCreated
    <3>2. /\ IsInjective(priority) /\ IsInjective(background)
          /\ Range(priority) = {} /\ Range(background) = {}
      BY <1>1, <2>1, Owners
    <3> QED
      BY <1>2, <3>1, <3>2, RemovedFirst
  <2> QED
    BY <2>2 DEF Queued
<1>8. CASE ShutdownJoins
  BY <1>8, EmptySeq, InRange DEF ShutdownJoins, Queued
<1>9. CASE FrameWorker
  <2>1. \/ cv' = {Consumer}
        \/ pc' = pc /\ Queued' = Queued /\ cv' \subseteq cv \cup {Consumer}
    BY <1>9 DEF FrameWorker, bind_pipeline, wait_pipeline, wait_pipeline_for_persistent_pass,
       WaitsForPromoted, Sleeps, asking, queues, Queued
  <2> QED
    BY <1>3, <2>1
<1>10. ASSUME NEW w \in Workers, Worker(w) PROVE FALSE
  <2>1. \/ cv' = {}
        \/ w \notin cv /\ cv' = cv
        \/ Queued = {} /\ Queued' = Queued
    BY <1>1, <1>10 DEF Worker, pipeline_worker, Compiled, CompileNotifies, NotifiesAll, Awake,
       Places, Queued
  <2> QED
    BY <2>1
<1>11. ASSUME \/ (\E d \in Draw : DrawsCached(d)) \/ begin_pipeline_frame
              \/ end_pipeline_frame \/ set_skip_unready_pipelines \/ ShutdownBegins
              \/ initialize_pipeline_cache \/ ShutdownWakes \/ UNCHANGED vars
       PROVE  Queued' = Queued /\ (cv' = {} \/ (cv' = cv /\ (pc' = pc \/ pc \in {"load", "ready"})))
  BY <1>11 DEF DrawsCached, begin_pipeline_frame, end_pipeline_frame,
     set_skip_unready_pipelines, ShutdownBegins, initialize_pipeline_cache, ShutdownWakes,
     NotifiesAll, vars, asking, queues, Queued
<1> QED
  BY <1>3, <1>4, <1>5, <1>6, <1>7, <1>8, <1>9, <1>10, <1>11 DEF Next, Decisions, Producer,
     HasEnded

LEMMA WaitIsSeen ==
    ASSUME IInv, [Next]_vars, TypeOK', Places', Kept', Asked',
           Consumer \in cv', Finished', ~unasked'
    PROVE  pc' = "notifyAll" \/ \E w \in Workers : wpc'[w] = "notify"
<1>1. TypeOK /\ Builds /\ Places /\ Kept /\ Asked /\ NobodyForgotten /\ ~unasked
  BY UnaskedStays DEF IInv
<1>2. ~threadEnd' /\ Ref' \in done' /\ cpc' \in {"wait", "promoted"} /\ sealed' # << >>
  <2>1. WaitEndsWhenDone'
    BY WaitIsForDone, PTL
  <2> QED
    BY <2>1 DEF Places, WaitEndsWhenDone
<1>3. Ref \in done /\ Consumer \in cv => pc = "notifyAll" \/ \E w \in Workers : wpc[w] = "notify"
  BY <1>1 DEF NobodyForgotten, Finished
<1>4. CASE /\ UNCHANGED <<sealed, done, wpc>> /\ Consumer \in cv
           /\ pc = "notifyAll" => pc' = "notifyAll"
  BY <1>2, <1>3, <1>4 DEF Ref
<1>5. CASE Decisions
  <2>1. CASE end_pipeline_frame
    BY <1>2, <2>1 DEF end_pipeline_frame
  <2>2. CASE ~end_pipeline_frame
    <3>1. UNCHANGED <<sealed, done, wpc, cv>> /\ pc = "ready"
      BY <1>5, <2>2 DEF Decisions, find_pipeline, DrawsCached, begin_pipeline_frame,
         set_skip_unready_pipelines, ShutdownBegins, encode, pool
    <3> QED
      BY <1>4, <3>1
  <2> QED
    BY <2>1, <2>2
<1>6. CASE Producer
  <2>1. CASE SyncCreated
    BY <2>1 DEF SyncCreated, Goes
  <2>2. CASE ShutdownJoins
    BY <1>1, <1>2, <2>2 DEF ShutdownJoins, Places
  <2>3. CASE ~SyncCreated /\ ~ShutdownJoins
    <3>1. /\ UNCHANGED <<sealed, done, wpc>>
          /\ cv' = {} \/ (cv' \subseteq cv /\ pc # "notifyAll")
      BY <1>6, <2>3 DEF Producer, FindNotifies, Loads, LoadNotified,
         initialize_pipeline_cache, ShutdownWakes, NotifiesOne, NotifiesAll, encode, pool
    <3> QED
      BY <1>4, <3>1
  <2> QED
    BY <2>1, <2>2, <2>3
<1>7. CASE FrameWorker
  <2>1. /\ UNCHANGED <<done, wpc, pc>>
        /\ \/ cpc' = "next"
           \/ UNCHANGED sealed /\ (Consumer \in cv \/ ~Finished)
    BY <1>1, <1>2, <1>7 DEF FrameWorker, bind_pipeline, try_pipeline, wait_pipeline,
       wait_pipeline_for_persistent_pass, WaitsForPromoted, Passes, Sleeps, asking, pool, Places
  <2> QED
    BY <1>2, <1>4, <2>1 DEF Finished, Ref
<1>8. ASSUME NEW w \in Workers, Worker(w)
      PROVE  pc' = "notifyAll" \/ \E v \in Workers : wpc'[v] = "notify"
  <2>1. UNCHANGED <<sealed, pc>>
    BY <1>8 DEF Worker, pipeline_worker, Compiled, CompileNotifies, asking, encode
  <2>2. CASE pipeline_worker(w)
    <3>1. /\ done' = done /\ wpc[w] = "check" /\ cv' \subseteq cv \cup {w}
          /\ \A v \in Workers : v # w => wpc'[v] = wpc[v]
      BY <1>1, <2>2, Moved DEF pipeline_worker, pool
    <3>2. Ref \in done /\ Consumer \in cv
      BY <1>2, <2>1, <3>1 DEF Ref
    <3> QED
      BY <1>3, <2>1, <3>1, <3>2
  <2>3. CASE Compiled(w)
    BY <1>1, <2>3, Moved DEF Compiled
  <2>4. CASE CompileNotifies(w)
    BY <2>4 DEF CompileNotifies, NotifiesAll
  <2> QED
    BY <1>8, <2>2, <2>3, <2>4 DEF Worker
<1>9. CASE UNCHANGED vars
  BY <1>4, <1>9 DEF vars, asking, encode, pool
<1> QED
  BY <1>5, <1>6, <1>7, <1>8, <1>9 DEF Next, HasEnded

LEMMA ShutdownIsSeen ==
    ASSUME IInv, [Next]_vars, Places', threadEnd', cv' # {}
    PROVE  pc' = "wake"
<1>1. Places /\ NobodyForgotten
  BY DEF IInv
<1>2. pc' \in {"wake", "join", "down"}
  BY DEF Places
<1>3. CASE Decisions
  BY <1>2, <1>3 DEF Decisions, find_pipeline, Returns, Enqueues, Goes, DrawsCached,
     begin_pipeline_frame, end_pipeline_frame, set_skip_unready_pipelines, ShutdownBegins,
     asking
<1>4. CASE Producer
  <2>1. CASE ShutdownWakes
    BY <2>1 DEF ShutdownWakes, NotifiesAll
  <2>2. CASE ShutdownJoins
    BY <1>1, <2>2 DEF ShutdownJoins, Places, NobodyForgotten
  <2>3. CASE ~ShutdownWakes /\ ~ShutdownJoins
    BY <1>2, <1>4, <2>3 DEF Producer, SyncCreated, FindNotifies, Returns, Loads, Enqueues,
       LoadNotified, initialize_pipeline_cache, Goes
  <2> QED
    BY <1>4, <2>1, <2>2, <2>3
<1>5. CASE FrameWorker
  <2>1. cpc # "ended" /\ UNCHANGED <<threadEnd, pc>>
    BY <1>5 DEF FrameWorker, bind_pipeline, wait_pipeline, wait_pipeline_for_persistent_pass,
       WaitsForPromoted, asking
  <2> QED
    BY <1>1, <2>1 DEF Places
<1>6. ASSUME NEW w \in Workers, Worker(w) PROVE pc' = "wake"
  <2>1. UNCHANGED <<threadEnd, pc>> /\ (cv' = cv \/ cv' = {})
    BY <1>6 DEF Worker, pipeline_worker, Compiled, CompileNotifies, NotifiesAll, Awake, asking
  <2> QED
    BY <1>1, <2>1 DEF NobodyForgotten
<1>7. CASE UNCHANGED vars
  BY <1>1, <1>7 DEF vars, asking, NobodyForgotten
<1> QED
  BY <1>3, <1>4, <1>5, <1>6, <1>7 DEF Next, HasEnded

-----------------------------------------------------------------------------
(* The theorems.                                                            *)

LEMMA InitInvariant == Init => IInv
<1> SUFFICES ASSUME Init PROVE IInv
  OBVIOUS
<1>1. At("compile") = {} /\ At("notify") = {}
  BY DEF Init, At
<1>2. Nothing
  BY <1>1 DEF Init, Nothing
<1>3. Builds
  BY <1>2, NoBuilds
<1>4. /\ << >> \in Seq(Pipelines) /\ << >> \in Seq(Draw) /\ Len(<< >>) = 0
  BY EmptySeq
<1>5. TypeOK
  <2>1. BuildTypes
    BY <1>3, BuildsTyped
  <2>2. DrawTypes
    BY <1>4 DEF Init, DrawTypes
  <2>3. SharedTypes /\ AskingTypes /\ UnaskedType
    BY DEF Init, SharedTypes, AskingTypes, UnaskedType
  <2> QED
    BY <2>1, <2>2, <2>3, TypeParts
<1>6. Range(<< >>) = {}
  BY <1>4, InRange
<1>7. Places /\ Kept /\ Asked /\ NobodyForgotten
  BY <1>4, <1>6 DEF Init, Places, Kept, WantedStays, Asked, WaitsForKnown, Waits,
     NobodyForgotten, Queued
<1> QED
  BY <1>3, <1>5, <1>7 DEF IInv

LEMMA StepInvariant == IInv /\ [Next]_vars => IInv'
<1> SUFFICES ASSUME IInv, [Next]_vars PROVE IInv'
  OBVIOUS
<1>1. TypeOK /\ Builds /\ Places /\ Kept
  BY DEF IInv
<1>2. TypeOK' /\ Builds' /\ Places' /\ Kept' /\ Asked'
  BY <1>1, TypesStep, BuildsStep, PlacesStep, KeptStep, AskedStep
<1>3. NobodyForgotten'
  <2>1. Queued' # {} /\ Workers \subseteq cv' => pc' \in {"notifyOne", "notifyLoad"} \/ unasked'
    BY QueueIsSeen
  <2>2. Consumer \in cv' /\ Finished' =>
          pc' = "notifyAll" \/ (\E w \in Workers : wpc'[w] = "notify") \/ unasked'
    BY <1>2, WaitIsSeen
  <2>3. threadEnd' /\ cv' # {} => pc' = "wake"
    BY <1>2, ShutdownIsSeen
  <2> QED
    BY <2>1, <2>2, <2>3 DEF NobodyForgotten
<1> QED
  BY <1>2, <1>3 DEF IInv

LEMMA Invariance == Spec => []IInv
BY InitInvariant, StepInvariant, PTL DEF Spec

(* Every variable keeps its type.                                           *)
THEOREM TypesCorrect == Spec => []TypeOK
<1>1. IInv => TypeOK
  BY DEF IInv
<1> QED
  BY <1>1, Invariance, PTL

(* The pending set is exactly what is queued and compiled, each pipeline    *)
(* once (g_pendingPipelines).                                               *)
THEOREM PendingIsExact == Spec => []PendingExact
<1>1. IInv => PendingExact
  BY DEF IInv, Builds
<1> QED
  BY <1>1, Invariance, PTL

(* The count of queued pipelines is exact up to the threads that have still *)
(* to lower it (queuedPipelines).                                           *)
THEOREM QueuedIsCounted == Spec => []QueuedCounts
<1>1. IInv => QueuedCounts
  BY DEF IInv, Builds
<1> QED
  BY <1>1, Invariance, PTL

(* The limit evicts nothing a draw asked for while its frame was open. A    *)
(* draw that took the name of its pipeline from cached_pipeline_state,      *)
(* without asking in any frame, is not covered: the limit may evict what it *)
(* names (find_pipeline_impl).                                              *)
THEOREM WantedIsKept == Spec => []WantedStays
<1>1. IInv => WantedStays
  BY DEF IInv, Kept
<1> QED
  BY <1>1, Invariance, PTL

(* No notification is lost, for any number of workers on the one condition  *)
(* variable, as long as the encoder has gone to wait only for what was      *)
(* built or had been asked for inside a frame; after another wait nothing   *)
(* is said of builds and of the encoder for the rest of the run. No worker  *)
(* sleeps through the shutdown in any case (pipeline_worker,                *)
(* wait_pipeline_impl).                                                     *)
THEOREM NoneForgotten == Spec => []NobodyForgotten
<1>1. IInv => NobodyForgotten
  BY DEF IInv
<1> QED
  BY <1>1, Invariance, PTL

(* A step of the encoder that leaves a draw behind it has drawn it, where   *)
(* the draw is needed and its pipeline was asked for inside a frame.        *)
LEMMA DrawStep ==
    ASSUME IInv, [Next]_vars, NEW d \in Draw, sealed # << >>, Head(sealed) = d,
           sealed' = Tail(sealed), d.ref \in wanted, d.persistent \/ cpc = "wait"
    PROVE  d.ref \in done
<1>1. /\ TypeOK /\ Places /\ Kept /\ sealed \in Seq(Draw)
      /\ cpc = "ended" \/ d.ref \in done \cup pending
  BY DEF IInv, Kept, WantedStays, Places, TypeOK
<1>2. sealed' # sealed
  <2>1. \E n \in Nat : Len(sealed) = n /\ Len(Tail(sealed)) = n - 1
    BY <1>1, EmptySeq, LenProperties, HeadTailProperties
  <2>2. Len(Tail(sealed)) # Len(sealed)
    BY <2>1
  <2> QED
    BY <2>2
<1>3. FrameWorker
  BY <1>2 DEF Next, Decisions, Producer, Worker, HasEnded, find_pipeline, DrawsCached,
     begin_pipeline_frame, end_pipeline_frame, set_skip_unready_pipelines, ShutdownBegins,
     SyncCreated, FindNotifies, Loads, LoadNotified, initialize_pipeline_cache, ShutdownWakes,
     ShutdownJoins, pipeline_worker, Compiled, CompileNotifies, encode, vars
<1>4. Ref = d.ref /\ cpc # "ended" /\ ~threadEnd
  BY <1>1, <1>3 DEF FrameWorker, bind_pipeline, wait_pipeline,
     wait_pipeline_for_persistent_pass, WaitsForPromoted, Ref, Places
<1>5. Ref \in done
  BY <1>1, <1>2, <1>3, <1>4 DEF FrameWorker, bind_pipeline, GoesToWait, wait_pipeline,
     wait_pipeline_for_persistent_pass, WaitsForPromoted, Sleeps, Finished
<1> QED
  BY <1>4, <1>5

(* Of the draws whose pipeline was asked for inside a frame, one is left    *)
(* out only where the user accepts it. A draw for another pipeline may be   *)
(* left out even if its texture is kept (bind_pipeline,                     *)
(* wait_pipeline_impl).                                                     *)
THEOREM DrawnWhenNeeded == Spec => NeededDrawsDrawn
<1>1. IInv /\ [Next]_vars =>
        [\A d \in Draw :
           /\ sealed # << >> /\ Head(sealed) = d /\ sealed' = Tail(sealed)
           /\ d.ref \in wanted /\ (d.persistent \/ cpc = "wait")
           => d.ref \in done]_vars
  BY DrawStep
<1> QED
  BY <1>1, Invariance, PTL DEF Spec, NeededDrawsDrawn
=============================================================================
