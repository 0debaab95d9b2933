---------------------- MODULE InterpolationWorkerPool ----------------------
(* The worker pool that fills in the matrices of inserted frames            *)
(* (aurora-main/lib/gx/frame_interpolation.cpp). One thread dispatches a    *)
(* job of count indices at a time; it and the workers claim chunks of them  *)
(* from a shared counter until none is left.                                *)
(*                                                                          *)
(* Every atomic variable is read and written in a step of its own, in       *)
(* program order; what a relaxed order adds to that is left out.            *)
EXTENDS Integers

CONSTANTS
    Worker,     \* at least one; without any the dispatcher loops by itself
    Dispatcher,
    Chunk,      \* kChunk, at least 1
    MaxCount,   \* bound: the indices of a job
    MaxRuns     \* bound: the jobs dispatched

Thread == Worker \cup {Dispatcher}
Index  == 0 .. MaxCount + Chunk - 1

VARIABLES
    pc,          \* per thread, where it is in run, worker_loop or consume
    count, next, remaining, active, generation,
    invoke,      \* is there a function to call?
    seen,        \* per worker, seenGeneration
    local,       \* per thread, the count consume loaded and the chunk it claimed
    calls        \* ghost: per index, the calls of fn since run was entered

vars == <<pc, count, next, remaining, active, generation, invoke, seen, local, calls>>

TypeOK ==
    /\ pc \in [Thread -> {"parked", "idle", "count", "next", "remaining", "load",
                          "claim", "call", "done", "leave", "wait"}]
    /\ count \in 0 .. MaxCount /\ next \in Nat /\ remaining \in Int
    /\ active \in Nat /\ generation \in 0 .. MaxRuns
    /\ invoke \in BOOLEAN
    /\ seen \in [Worker -> 0 .. MaxRuns]
    /\ local \in [Thread -> [count : 0 .. MaxCount, begin : Nat]]
    /\ calls \in [Index -> Nat]

Goes(p, to) == pc' = [pc EXCEPT ![p] = to]

-----------------------------------------------------------------------------
(* run: publish the job under the mutex, which pc[Dispatcher] says it holds *)

MutexFree == pc[Dispatcher] \notin {"count", "next", "remaining"}

Locks ==
    /\ pc[Dispatcher] = "idle" /\ generation < MaxRuns
    /\ Goes(Dispatcher, "count")
    /\ invoke' = TRUE
    /\ calls' = [i \in Index |-> 0]
    /\ UNCHANGED <<count, next, remaining, active, generation, seen, local>>

StoresCount(n) ==
    /\ pc[Dispatcher] = "count"
    /\ count' = n
    /\ Goes(Dispatcher, "next")
    /\ UNCHANGED <<next, remaining, active, generation, invoke, seen, local, calls>>

StoresNext ==
    /\ pc[Dispatcher] = "next"
    /\ next' = 0
    /\ Goes(Dispatcher, "remaining")
    /\ UNCHANGED <<count, remaining, active, generation, invoke, seen, local, calls>>

StoresRemaining ==
    /\ pc[Dispatcher] = "remaining"
    /\ remaining' = count
    /\ generation' = generation + 1
    /\ Goes(Dispatcher, "load")
    /\ UNCHANGED <<count, next, active, invoke, seen, local, calls>>

\* The dispatcher spins until nothing remains and no worker is active.
Returns ==
    /\ pc[Dispatcher] = "wait"
    /\ remaining = 0 /\ active = 0
    /\ invoke' = FALSE
    /\ Goes(Dispatcher, "idle")
    /\ UNCHANGED <<count, next, remaining, active, generation, seen, local, calls>>

-----------------------------------------------------------------------------
(* consume, by the dispatcher and by the workers                            *)

LoadsCount(p) ==
    /\ pc[p] = "load"
    /\ local' = [local EXCEPT ![p].count = count]
    /\ Goes(p, "claim")
    /\ UNCHANGED <<count, next, remaining, active, generation, invoke, seen, calls>>

Claims(p) ==
    /\ pc[p] = "claim"
    /\ next' = next + Chunk
    /\ local' = [local EXCEPT ![p].begin = next]
    /\ Goes(p, IF next >= local[p].count
               THEN IF p = Dispatcher THEN "wait" ELSE "leave"
               ELSE "call")
    /\ UNCHANGED <<count, remaining, active, generation, invoke, seen, calls>>

InChunk(p) == {i \in Index : local[p].begin <= i /\ i < local[p].begin + Chunk
                             /\ i < local[p].count}

Calls(p) ==
    /\ pc[p] = "call"
    /\ calls' = [i \in Index |-> IF i \in InChunk(p) THEN calls[i] + 1 ELSE calls[i]]
    /\ Goes(p, "done")
    /\ UNCHANGED <<count, next, remaining, active, generation, invoke, seen, local>>

Minimum(a, b) == IF a < b THEN a ELSE b

CountsDown(p) ==
    /\ pc[p] = "done"
    /\ remaining' = remaining - (Minimum(local[p].begin + Chunk, local[p].count) - local[p].begin)
    /\ Goes(p, "claim")
    /\ UNCHANGED <<count, next, active, generation, invoke, seen, local, calls>>

-----------------------------------------------------------------------------
(* worker_loop                                                              *)

Wakes(w) ==
    /\ pc[w] = "parked" /\ MutexFree
    /\ seen[w] # generation
    /\ seen' = [seen EXCEPT ![w] = generation]
    /\ active' = active + 1
    /\ Goes(w, "load")
    /\ UNCHANGED <<count, next, remaining, generation, invoke, local, calls>>

Leaves(w) ==
    /\ pc[w] = "leave"
    /\ active' = active - 1
    /\ Goes(w, "parked")
    /\ UNCHANGED <<count, next, remaining, generation, invoke, seen, local, calls>>

Init ==
    /\ pc = [p \in Thread |-> IF p = Dispatcher THEN "idle" ELSE "parked"]
    /\ count = 0 /\ next = 0 /\ remaining = 0 /\ active = 0 /\ generation = 0
    /\ invoke = FALSE
    /\ seen = [w \in Worker |-> 0]
    /\ local = [p \in Thread |-> [count |-> 0, begin |-> 0]]
    /\ calls = [i \in Index |-> 0]

Next ==
    \/ Locks \/ StoresNext \/ StoresRemaining \/ Returns
    \/ \E n \in 1 .. MaxCount : StoresCount(n)
    \/ \E p \in Thread : LoadsCount(p) \/ Claims(p) \/ Calls(p) \/ CountsDown(p)
    \/ \E w \in Worker : Wakes(w) \/ Leaves(w)

Spec == Init /\ [][Next]_vars
-----------------------------------------------------------------------------
(* run "runs fn(index) for every index in [0, count)", each once, and no    *)
(* worker calls it for an index of another job or after run has returned    *)
(* (frame_interpolation.cpp 57-81). It needs "every worker is parked or has *)
(* not read the current generation, so a counter reset is safe" (122-124).  *)
EveryIndexOnce ==
    /\ \A i \in Index : calls[i] > 0 /\ pc[Dispatcher] \in {"load", "claim", "call", "done", "wait"}
                        => i < count /\ calls[i] = 1
    /\ pc[Dispatcher] = "idle" => \A i \in Index : calls[i] = (IF i < count THEN 1 ELSE 0)
    /\ \A p \in Thread : pc[p] = "call" => invoke
=============================================================================
