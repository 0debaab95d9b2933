---------------------------- MODULE PipelineCache ----------------------------
(* The render pipelines and the threads that compile them                   *)
(* (aurora-main/lib/gfx/pipeline_cache.cpp): the producer asks for the      *)
(* pipeline of every draw it records, a pool of workers compiles what is    *)
(* queued, and the frame worker, which encodes the sealed frame, waits for  *)
(* the pipelines it has to bind. All of them sleep on one condition         *)
(* variable.                                                                *)
(*                                                                          *)
(* What is done under g_pipelineMutex is one step; the notifications come    *)
(* after it, in one step with the count shown to the user, which nobody      *)
(* else reads in between. The limit on background workers is the largest     *)
(* size of the pool: it never binds, and the second notification of a        *)
(* background build, meant for it, is left out. So are OpenGL, which has no  *)
(* workers, and the database that keeps the pipelines between two sessions.  *)
EXTENDS Naturals, Sequences, FiniteSets, SequencesExt

CONSTANTS
    GXPipelines, ClearPipelines,    \* the pipelines, by ShaderType
    Stored,                         \* those the database of an earlier run names
    Workers,
    MaxQueuedPipelineBuilds,
    MaxDraws                        \* bound: the draws of a frame

Pipelines == GXPipelines \cup ClearPipelines
Consumer  == "frame worker"

None      == "none"

ASSUME PipelineAssumption ==
    /\ GXPipelines \cap ClearPipelines = {} /\ None \notin Pipelines
    /\ Stored \subseteq Pipelines
    /\ Consumer \notin Workers /\ IsFiniteSet(Workers) /\ Workers # {}
    /\ MaxQueuedPipelineBuilds \in Nat \ {0} /\ MaxDraws \in Nat

\* "persistent": the draw's pass is resolved into a texture that may never be
\* produced again (requireReadyPipelines).
Draw == [ref : GXPipelines, persistent : BOOLEAN]
        \cup [ref : ClearPipelines, persistent : {FALSE}]
NoDraw == [ref |-> None, persistent |-> FALSE]

VARIABLES
    \* under the mutex
    done,                 \* the keys of g_pipelines
    pending,              \* g_pendingPipelines
    priority, background, \* g_priorityPipelines, g_backgroundPipelines
    threadEnd,            \* g_pipelineThreadEnd
    queued,               \* queuedPipelines
    cv,                   \* who sleeps on g_pipelineCv
    frameActive,          \* g_pipelineFrameActive
    skip,                 \* g_skipUnreadyGxPipelines
    \* the producer: where it is, the draw it asks a pipeline for, whether its own
    \* build took the place of a queued one
    pc, draw, removedPending,
    cached,               \* the pipelines cached_pipeline_state has a name for
    recorded,             \* the draws of the open frame
    \* the frame worker: the draws still to encode
    cpc, sealed,
    \* the workers
    wpc, job,
    \* ghosts: the pipelines asked for inside a frame, whether the frame worker ever
    \* went to wait for another one that was not built
    wanted, unasked

queues == <<pending, priority, background>>
asking == <<pc, draw, removedPending, cached, recorded, wanted>>
frame  == <<frameActive, skip>>
encode == <<cpc, sealed, unasked>>
pool   == <<wpc, job>>
vars   == <<done, queues, threadEnd, queued, cv, frame, asking, encode, pool>>

Queued == Range(priority) \cup Range(background)

NotifiesOne == IF cv = {} THEN UNCHANGED cv ELSE \E t \in cv : cv' = cv \ {t}
NotifiesAll == cv' = {}

-----------------------------------------------------------------------------
(* The producer asks for a pipeline: find_pipeline_impl                     *)

\* push_command drops a draw that has no render pass to go into.
Returns(d) ==
    /\ recorded' = IF frameActive THEN Append(recorded, d) ELSE recorded
    /\ wanted' = IF frameActive THEN wanted \cup {d.ref} ELSE wanted
    /\ pc' = "ready" /\ draw' = NoDraw

Goes(to, d) == pc' = to /\ draw' = d /\ UNCHANGED <<recorded, wanted>>

\* A GX draw is recorded before its pipeline exists, a clear is not.
deferGxPipeline(p) == frameActive /\ p \in GXPipelines
Synchronous(p)     == frameActive /\ p \notin GXPipelines

touched_in_place(p) == UNCHANGED <<priority, background>>

touch_pending_pipeline(p) ==
    IF frameActive /\ p \in Range(background)
    THEN priority' = Append(priority, p) /\ background' = RemoveFirst(background, p)
    ELSE UNCHANGED <<priority, background>>

Full(builds) == Cardinality(builds) >= MaxQueuedPipelineBuilds

\* At the limit the last of the background gives way to a draw. What an earlier
\* run stored is queued beyond the limit, and so is a draw that may be skipped.
Enqueues(d, preload) ==
    LET p     == d.ref
        defer == deferGxPipeline(p) /\ ~preload
        evict == defer /\ Full(pending) /\ background # << >>
        left  == IF evict THEN pending \ {Last(background)} ELSE pending
        rest  == IF evict THEN Front(background) ELSE background
        sync  == ~preload /\ Full(left) /\ ~(defer /\ skip)
    IN
    /\ pending' = IF sync THEN left ELSE left \cup {p}
    /\ priority' = IF ~sync /\ defer THEN Append(priority, p) ELSE priority
    /\ background' = IF ~sync /\ ~defer THEN Append(rest, p) ELSE rest
    /\ queued' = queued - (IF evict THEN 1 ELSE 0) + (IF sync THEN 0 ELSE 1)
    /\ Goes(IF sync THEN "create" ELSE IF preload THEN "notifyLoad" ELSE "notifyOne", d)

find_pipeline(d) ==
    LET p == d.ref
    IN
    /\ pc = "ready" /\ Len(recorded) < MaxDraws
    /\ cached' = IF p \in GXPipelines THEN cached \cup {p} ELSE cached
    /\ \/ /\ p \in done
          /\ Returns(d)
          /\ UNCHANGED <<queues, queued>>
       \/ /\ p \in pending \ done
          /\ touch_pending_pipeline(p)
          /\ IF Synchronous(p) THEN Goes("create", d) ELSE Returns(d)
          /\ UNCHANGED <<pending, queued>>
       \/ /\ p \notin done \cup pending
          /\ IF Synchronous(p)
             THEN Goes("create", d) /\ UNCHANGED <<queues, queued>>
             ELSE Enqueues(d, FALSE)
    /\ UNCHANGED <<done, threadEnd, cv, frame, removedPending, encode, pool>>

\* cached_pipeline_state names the pipeline of a draw seen before without asking.
DrawsCached(d) ==
    /\ pc = "ready" /\ frameActive /\ Len(recorded) < MaxDraws
    /\ d.ref \in cached
    /\ recorded' = Append(recorded, d)
    /\ UNCHANGED <<done, queues, threadEnd, queued, cv, frame, pc, draw, removedPending,
                   cached, wanted, encode, pool>>

\* The producer built the pipeline itself; a queued build of it is withdrawn, one
\* a worker has taken goes on.
WithdrawsCompiling ==
    LET p == draw.ref
    IN
    /\ pc = "create"
    /\ priority' = RemoveFirst(priority, p) /\ background' = RemoveFirst(background, p)
    /\ pending' = pending \ {p}
    /\ removedPending' = (p \in pending)
    /\ done' = done \cup {p}
    /\ Goes("notifyAll", draw)
    /\ UNCHANGED <<threadEnd, queued, cv, frame, cached, encode, pool>>

SyncCreated ==
    LET p == draw.ref
    IN
    /\ pc = "create"
    /\ priority' = RemoveFirst(priority, p) /\ background' = RemoveFirst(background, p)
    /\ pending' = IF p \in Queued THEN pending \ {p} ELSE pending
    /\ removedPending' = (p \in Queued)
    /\ done' = done \cup {p}
    /\ Goes("notifyAll", draw)
    /\ UNCHANGED <<threadEnd, queued, cv, frame, cached, encode, pool>>

WithdrawnForgotten == 0
CountsEveryBuild   == IF pc = "notifyAll" THEN 1 ELSE 0

Withdrawn == IF removedPending THEN 1 ELSE 0

FindNotifies ==
    /\ \/ pc = "notifyOne" /\ NotifiesOne
       \/ pc = "notifyAll" /\ NotifiesAll
    /\ queued' = queued - Withdrawn
    /\ removedPending' = FALSE /\ Returns(draw)
    /\ UNCHANGED <<done, queues, threadEnd, frame, cached, encode, pool>>

-----------------------------------------------------------------------------
(* The producer: start, frames, settings, shutdown                          *)

\* The workers run already while load_pipeline_cache queues what is stored.
Loads(p) ==
    /\ pc = "load" /\ p \notin done \cup pending
    /\ Enqueues([ref |-> p, persistent |-> FALSE], TRUE)
    /\ UNCHANGED <<done, threadEnd, cv, frame, removedPending, cached, encode, pool>>

LoadNotified ==
    /\ pc = "notifyLoad"
    /\ NotifiesOne /\ Goes("load", NoDraw)
    /\ UNCHANGED <<done, queues, threadEnd, queued, frame, removedPending, cached, encode,
                   pool>>

initialize_pipeline_cache ==
    /\ pc = "load" /\ Stored \subseteq done \cup pending
    /\ Goes("ready", NoDraw)
    /\ UNCHANGED <<done, queues, threadEnd, queued, cv, frame, removedPending, cached,
                   encode, pool>>

begin_pipeline_frame ==
    /\ pc = "ready" /\ ~frameActive
    /\ frameActive' = TRUE
    /\ UNCHANGED <<done, queues, threadEnd, queued, cv, skip, asking, encode, pool>>

\* The frame worker takes the recorded draws; it has encoded those of the frame
\* before.
end_pipeline_frame ==
    /\ pc = "ready" /\ frameActive /\ sealed = << >> /\ cpc = "next"
    /\ frameActive' = FALSE
    /\ sealed' = recorded /\ recorded' = << >>
    /\ UNCHANGED <<done, queues, threadEnd, queued, cv, skip, pc, draw, removedPending, cached,
                   wanted, unasked, cpc, pool>>

set_skip_unready_pipelines ==
    /\ pc = "ready"
    /\ skip' = ~skip
    /\ UNCHANGED <<done, queues, threadEnd, queued, cv, frameActive, asking, encode, pool>>

\* The frame worker has ended before.
ShutdownBegins ==
    /\ pc = "ready" /\ sealed = << >> /\ cpc = "next"
    /\ threadEnd' = TRUE
    /\ Goes("wake", NoDraw) /\ cpc' = "ended"
    /\ UNCHANGED <<done, queues, queued, cv, frame, removedPending, cached, unasked, sealed,
                   pool>>

ShutdownWakes ==
    /\ pc = "wake"
    /\ NotifiesAll /\ Goes("join", NoDraw)
    /\ UNCHANGED <<done, queues, threadEnd, queued, frame, removedPending, cached, encode,
                   pool>>

ShutdownJoins ==
    /\ pc = "join" /\ \A w \in Workers : wpc[w] = "exited"
    /\ done' = {} /\ pending' = {} /\ priority' = << >> /\ background' = << >>
    /\ queued' = 0 /\ frameActive' = FALSE
    /\ Goes("down", NoDraw)
    /\ UNCHANGED <<threadEnd, cv, skip, removedPending, cached, encode, pool>>

-----------------------------------------------------------------------------
(* The frame worker: bind_pipeline for every draw of the sealed frame       *)

Passes == sealed' = Tail(sealed) /\ cpc' = "next"
Ref    == Head(sealed).ref
Finished == Ref \in done \/ Ref \notin pending \/ threadEnd

\* Ready or not, the encoding goes on.
try_pipeline == Passes

GoesToWait(at) ==
    /\ cpc' = at
    /\ unasked' = (unasked \/ Ref \notin wanted \cup done)
    /\ UNCHANGED sealed

BindsByTrying ==
    /\ cpc = "next" /\ sealed # << >>
    /\ \/ ~skip /\ GoesToWait("wait")
       \/ skip /\ try_pipeline /\ UNCHANGED unasked
    /\ UNCHANGED <<done, queues, threadEnd, queued, cv, frame, asking, pool>>

bind_pipeline ==
    /\ cpc = "next" /\ sealed # << >>
    /\ \/ ~skip /\ GoesToWait("wait")
       \/ skip /\ Head(sealed).persistent /\ GoesToWait("persistent")
       \/ skip /\ ~Head(sealed).persistent /\ try_pipeline /\ UNCHANGED unasked
    /\ UNCHANGED <<done, queues, threadEnd, queued, cv, frame, asking, pool>>

Sleeps == cv' = cv \cup {Consumer} /\ UNCHANGED sealed

\* Log.fatal ends the program when the pipeline will never come.
wait_pipeline ==
    /\ cpc = "wait" /\ Consumer \notin cv
    /\ \/ ~Finished /\ Sleeps /\ UNCHANGED cpc
       \/ Finished /\ Ref \in done /\ Passes /\ UNCHANGED cv
       \/ Finished /\ Ref \notin done /\ cpc' = "aborted" /\ UNCHANGED <<cv, sealed>>
    /\ UNCHANGED <<done, queues, threadEnd, queued, frame, asking, unasked, pool>>

promote_pending_pipeline_for_wait ==
    /\ priority' = <<Ref>> \o RemoveFirst(priority, Ref)
    /\ background' = RemoveFirst(background, Ref)

\* A draw whose texture is kept: its build goes ahead of all others.
wait_pipeline_for_persistent_pass ==
    /\ cpc = "persistent"
    /\ \/ /\ Finished /\ Passes
          /\ UNCHANGED <<priority, background, cv>>
       \/ /\ ~Finished /\ Ref \in Queued
          /\ promote_pending_pipeline_for_wait
          /\ cv' = {Consumer} /\ cpc' = "promoted" /\ UNCHANGED sealed
       \/ /\ ~Finished /\ Ref \notin Queued
          /\ Sleeps /\ cpc' = "promoted"
          /\ UNCHANGED <<priority, background>>
    /\ UNCHANGED <<done, pending, threadEnd, queued, frame, asking, unasked, pool>>

WaitsForPromoted ==
    /\ cpc = "promoted" /\ Consumer \notin cv
    /\ IF Finished THEN Passes /\ UNCHANGED cv ELSE Sleeps /\ UNCHANGED cpc
    /\ UNCHANGED <<done, queues, threadEnd, queued, frame, asking, unasked, pool>>

-----------------------------------------------------------------------------
(* A worker: pipeline_worker and compile_pending_pipeline                   *)

Moves(w, to, p) == wpc' = [wpc EXCEPT ![w] = to] /\ job' = [job EXCEPT ![w] = p]

AwakeForBackground == background # << >> \/ threadEnd

Awake == Queued # {} \/ threadEnd

pipeline_worker(w) ==
    /\ wpc[w] = "check" /\ w \notin cv
    /\ \/ /\ threadEnd
          /\ Moves(w, "exited", None)
          /\ UNCHANGED <<priority, background, cv>>
       \/ /\ ~Awake
          /\ cv' = cv \cup {w}
          /\ UNCHANGED <<priority, background, pool>>
       \/ /\ Awake /\ ~threadEnd /\ priority # << >>
          /\ Moves(w, "compile", Head(priority))
          /\ priority' = Tail(priority) /\ UNCHANGED <<background, cv>>
       \/ /\ Awake /\ ~threadEnd /\ priority = << >> /\ background # << >>
          /\ Moves(w, "compile", Head(background))
          /\ background' = Tail(background) /\ UNCHANGED <<priority, cv>>
    /\ UNCHANGED <<done, pending, threadEnd, queued, frame, asking, encode>>

Compiled(w) ==
    /\ wpc[w] = "compile"
    /\ done' = done \cup {job[w]}
    /\ pending' = pending \ {job[w]}
    /\ Moves(w, "notify", None)
    /\ UNCHANGED <<priority, background, threadEnd, queued, cv, frame, asking, encode>>

CompileNotifiesOne(w) ==
    /\ wpc[w] = "notify"
    /\ NotifiesOne /\ queued' = queued - 1
    /\ Moves(w, "check", None)
    /\ UNCHANGED <<done, queues, threadEnd, frame, asking, encode>>

CompileNotifies(w) ==
    /\ wpc[w] = "notify"
    /\ NotifiesAll /\ queued' = queued - 1
    /\ Moves(w, "check", None)
    /\ UNCHANGED <<done, queues, threadEnd, frame, asking, encode>>

-----------------------------------------------------------------------------
Init ==
    /\ done = {} /\ pending = {} /\ priority = << >> /\ background = << >>
    /\ threadEnd = FALSE /\ queued = 0 /\ cv = {}
    /\ frameActive = FALSE /\ skip = FALSE
    /\ pc = "load" /\ draw = NoDraw /\ removedPending = FALSE
    /\ cached = {} /\ recorded = << >> /\ wanted = {} /\ unasked = FALSE
    /\ cpc = "next" /\ sealed = << >>
    /\ wpc = [w \in Workers |-> "check"]
    /\ job = [w \in Workers |-> None]

\* What the guest and the player decide.
Decisions ==
    \/ \E d \in Draw : find_pipeline(d) \/ DrawsCached(d)
    \/ begin_pipeline_frame \/ end_pipeline_frame
    \/ set_skip_unready_pipelines
    \/ ShutdownBegins

\* What the producer does without being asked.
Producer ==
    \/ SyncCreated \/ FindNotifies
    \/ (\E p \in Stored : Loads(p)) \/ LoadNotified \/ initialize_pipeline_cache
    \/ ShutdownWakes \/ ShutdownJoins

FrameWorker ==
    \/ bind_pipeline \/ wait_pipeline
    \/ wait_pipeline_for_persistent_pass \/ WaitsForPromoted

Worker(w) == pipeline_worker(w) \/ Compiled(w) \/ CompileNotifies(w)

Running == cpc # "aborted"

HasEnded == (~Running \/ pc = "down") /\ UNCHANGED vars

Next ==
    \/ Running /\ (Decisions \/ Producer \/ FrameWorker \/ \E w \in Workers : Worker(w))
    \/ HasEnded

Spec == Init /\ [][Next]_vars

\* The threads run: each of them goes on with what it has begun.
FairSpec ==
    /\ Spec
    /\ WF_vars(Running /\ Producer)
    /\ WF_vars(Running /\ FrameWorker)
    /\ \A w \in Workers : WF_vars(Running /\ Worker(w))

-----------------------------------------------------------------------------
TypeOK ==
    /\ done \subseteq Pipelines /\ pending \subseteq Pipelines
    /\ priority \in Seq(Pipelines) /\ background \in Seq(Pipelines)
    /\ threadEnd \in BOOLEAN /\ queued \in Nat
    /\ cv \subseteq Workers \cup {Consumer}
    /\ frameActive \in BOOLEAN /\ skip \in BOOLEAN
    /\ pc \in {"load", "notifyLoad", "ready", "create", "notifyOne", "notifyAll", "wake",
               "join", "down"}
    /\ draw \in Draw \cup {NoDraw} /\ removedPending \in BOOLEAN
    /\ cached \subseteq GXPipelines /\ wanted \subseteq Pipelines /\ unasked \in BOOLEAN
    /\ recorded \in Seq(Draw) /\ sealed \in Seq(Draw)
    /\ Len(recorded) <= MaxDraws /\ Len(sealed) <= MaxDraws
    /\ cpc \in {"next", "wait", "persistent", "promoted", "aborted", "ended"}
    /\ wpc \in [Workers -> {"check", "compile", "notify", "exited"}]
    /\ job \in [Workers -> Pipelines \cup {None}]

Compiling == {job[w] : w \in {v \in Workers : wpc[v] = "compile"}}

\* The set of pending hashes is what the two queues hold and the workers compile:
\* each pipeline is queued once or compiled by one worker, so a wait on the set
\* ends exactly when somebody has built the pipeline or thrown it out
\* (find_pipeline_impl, remove_pending_pipeline, compile_pending_pipeline).
PendingExact ==
    /\ pending = Queued \cup Compiling
    /\ Cardinality(pending) = Len(priority) + Len(background)
                              + Cardinality({w \in Workers : wpc[w] = "compile"})

\* The count shown to the user, which a thread lowers after its notification and
\* outside the mutex, is the number of pending builds and of those whose end is
\* still to be counted: it returns to zero, whoever builds, evicts or withdraws
\* (queuedPipelines).
Uncounted == Cardinality({w \in Workers : wpc[w] = "notify"})
             + (IF removedPending THEN 1 ELSE 0)

QueuedCounts == queued = Cardinality(pending) + Uncounted

\* "The recorded draw references this hash forever": a pipeline that was asked
\* for inside a frame is there or on its way for the rest of the run, whatever
\* the limit evicts (find_pipeline_impl, touch_pending_pipeline).
WantedStays == pc # "down" => wanted \subseteq done \cup pending

\* The encoder leaves out a draw only when the user lets it skip what is not
\* ready and the draw's texture is not kept, or when no frame ever asked for its
\* pipeline (bind_pipeline, wait_pipeline_impl).
NeededDrawsDrawn ==
    [][\A d \in Draw :
         /\ sealed # << >> /\ Head(sealed) = d /\ sealed' = Tail(sealed)
         /\ d.ref \in wanted /\ (d.persistent \/ cpc = "wait")
         => d.ref \in done]_vars

\* While the encoder has only ever gone to wait for what was built or had been
\* asked for inside a frame, no notification is lost on the one variable all sleep
\* on: builds are queued with every worker asleep only while the producer has still
\* to notify, and the encoder sleeps through the end of its wait only while
\* somebody has still to wake all. Once it has waited for another pipeline, whose
\* build the limit may throw out, nothing is said of the two for the rest of the
\* run: it may have taken a notification meant for a worker. No worker sleeps
\* through the shutdown in any case (pipeline_worker, wait_pipeline_impl).
NobodyForgotten ==
    /\ Queued # {} /\ Workers \subseteq cv => pc \in {"notifyOne", "notifyLoad"} \/ unasked
    /\ Consumer \in cv /\ Finished =>
         pc = "notifyAll" \/ (\E w \in Workers : wpc[w] = "notify") \/ unasked
    /\ threadEnd /\ cv # {} => pc = "wake"

\* The frame worker encodes every frame to its end, and the program is not aborted
\* for a pipeline that will never come, unless it went, in this frame or an earlier
\* one, to wait for a pipeline that was not built and that no frame had asked for:
\* after that it may wait for ever beside sleeping workers, having taken the only
\* notification, or abort (wait_pipeline_impl, compile_pending_pipeline).
FrameIsEncoded == sealed # << >> ~> sealed = << >> \/ unasked
=============================================================================
