--------------------------- MODULE FramePipeline ---------------------------
(* The frame pipeline of the renderer (aurora-main/lib/aurora.cpp) and the  *)
(* way the runtime drives it (hle/vi.cpp, hle/gx). The producer runs the    *)
(* guest and records its GX commands, the frame worker seals, encodes and   *)
(* publishes a frame while the producer is already at the next one, and the *)
(* presenter shows the images of the published groups.                      *)
(*                                                                          *)
(* What the code does while it holds g_rendererGpuMutex, the worker's mutex *)
(* or the presenter's mutex is one step; the surface mutex is held by the   *)
(* presenter for as long as it has a surface texture.                       *)
EXTENDS Naturals, Sequences, FiniteSets, SequencesExt

CONSTANTS
    MaxInterpolatedFrames,  \* slots inserted before the frame's own, at most
    MaxFrames,              \* bound: the frames the producer ends
    BootFrames,             \* bound: the frames the boot loop ends
    MaxDraws,               \* bound: the commands written in a frame
    Faults,                 \* what may go wrong, of FaultKinds
    MaxFaults,              \* bound: how often it does
    FaultyFrames            \* bound: the frames ended once something went wrong

ASSUME BoundsAssumption ==
    /\ MaxInterpolatedFrames \in Nat /\ MaxFrames \in Nat /\ MaxFaults \in Nat
    /\ BootFrames \in 0 .. MaxFrames /\ FaultyFrames \in 0 .. MaxFrames

FaultKinds == {"window", "resize", "surface", "create", "present", "map"}

Frame  == 1 .. MaxFrames + 1
Slot   == 0 .. MaxInterpolatedFrames
Group  == MaxInterpolatedFrames + 1
Nobody == 0

VARIABLES
    \* the producer
    pc,           \* where it is
    cur,          \* the frame it writes, the number of frames ended plus one
    booting,      \* in the loop that shows the window before the guest runs
    frameActive,  \* g_auroraFrameActive
    fifo,         \* the frames of the commands not yet decoded
    \* the renderer's state the producer and the worker share
    open,         \* has the frame a render pass to record into?
    recorded,     \* the frames of the commands in g_renderPasses
    imgui,        \* started: after new_frame, before Render; overlay: the frame
                  \* whose widgets it holds; data: the frame whose widgets the
                  \* draw lists show
    \* g_frameWorker and its thread
    ctl, wpc, work,
    \* begin_frame_impl, by the thread that runs it
    prep,
    \* the window and the surface
    window, sizeOk, surface, reconfigure,
    \* g_presenter and its thread, g_presentationImagePools
    jobs, current, texture, pstop, ppc, pool,
    \* ghosts: the commands and the overlay of the frame being written and of the
    \* frame last ended, the frames something of which was dropped, the last job
    \* presented, the faults that happened
    wrote, ended, lost, shown, faults

producerVars == <<pc, cur, booting, frameActive, fifo>>
renderVars   == <<open, recorded, imgui>>
workerVars   == <<wpc, work>>
surfaceVars  == <<window, sizeOk, surface, reconfigure>>
presentVars  == <<jobs, current, texture, pstop, ppc, pool, shown>>
ghostVars    == <<wrote, ended, lost>>
vars == <<producerVars, renderVars, ctl, workerVars, prep, surfaceVars, presentVars,
          ghostVars, faults>>

NoJob   == [frame |-> 0, slot |-> 0, image |-> 0]
Idle    == [frame |-> 0, draws |-> << >>, slots |-> 0, group |-> << >>, owed |-> FALSE]
Nothing == [draws |-> << >>, overlay |-> 0]

Fails(kind) ==
    /\ kind \in Faults /\ faults < MaxFaults /\ cur <= FaultyFrames
    /\ faults' = faults + 1
Works == UNCHANGED faults

LastFrame == IF booting THEN BootFrames ELSE IF faults = 0 THEN MaxFrames ELSE FaultyFrames

-----------------------------------------------------------------------------
(* Presentation images: the pool of a slot gives its first image no job     *)
(* holds, or a new one. Images of an older size are left out.               *)

Held == Range(jobs) \cup Range(work.group) \cup {current}

FreeImages(s) == {i \in DOMAIN pool[s] : \A j \in Held : ~(j.slot = s /\ j.image = i)}

acquire_presentation_image(s) ==
    IF FreeImages(s) = {} THEN Len(pool[s]) + 1
    ELSE CHOOSE i \in FreeImages(s) : \A k \in FreeImages(s) : i <= k

Painted(s, i, picture) ==
    [pool EXCEPT ![s] = [k \in 1 .. (IF i > Len(@) THEN i ELSE Len(@)) |->
                            IF k = i THEN picture ELSE @[k]]]

\* render_frame_data and new_frame of ImGui.
Rendered == IF imgui.started
            THEN [imgui EXCEPT !.started = FALSE, !.data = imgui.overlay]
            ELSE imgui
NewFrame == [imgui EXCEPT !.started = TRUE, !.overlay = 0]

\* Each slot draws the frame and replays the ImGui draw lists on top. Of the
\* picture only whether it shows all and only what the producer meant is kept.
PictureOf(w) ==
    [frame |-> w.frame,
     true  |-> w.draws = ended.draws /\ Rendered.data = ended.overlay]
JobOf(w, i)  == [frame |-> w.frame, slot |-> Len(w.group), image |-> i]

-----------------------------------------------------------------------------
(* The producer: commands, drains, presents                                 *)

\* push_command drops what it is given when there is no render pass.
Decode ==
    /\ fifo' = << >>
    /\ recorded' = IF open THEN recorded \o fifo ELSE recorded
    /\ lost' = IF open THEN lost ELSE lost \cup Range(fifo)

Goes(to) == pc' = to

\* A GX entry point writes into the FIFO and, for a display list, a texture
\* copy or GXDrawDone, drains it. It has made sure that a begin was tried since
\* the last end.
WriteCommand ==
    /\ pc = "running" /\ ~booting
    /\ Len(wrote.draws) < MaxDraws
    /\ fifo' = Append(fifo, cur)
    /\ wrote' = [wrote EXCEPT !.draws = Append(@, cur)]
    /\ \/ Goes("running") \/ Goes("drain")
    /\ UNCHANGED <<cur, booting, frameActive, renderVars, ctl, workerVars, prep,
                   surfaceVars, presentVars, ended, lost, faults>>

\* GX__CopyDisp: drain, wait for the worker, draw the overlay, present.
GX__CopyDisp ==
    /\ pc = "running" /\ ~booting /\ cur <= LastFrame
    /\ Goes("copy")
    /\ UNCHANGED <<cur, booting, frameActive, fifo, renderVars, ctl, workerVars, prep,
                   surfaceVars, presentVars, ghostVars, faults>>

\* The present of a retrace, of a black screen: with the overlay or without.
PresentUnpaced ==
    /\ pc = "running" /\ ~booting /\ frameActive /\ cur <= LastFrame
    /\ \/ Goes("join") \/ Goes("end")
    /\ UNCHANGED <<cur, booting, frameActive, fifo, renderVars, ctl, workerVars, prep,
                   surfaceVars, presentVars, ghostVars, faults>>

wait_for_frame_worker_sealed_forgotten == TRUE

wait_for_frame_worker_sealed == ctl.sealed

drain ==
    /\ pc \in {"drain", "copy"}
    /\ wait_for_frame_worker_sealed
    /\ Decode
    /\ Goes(IF pc = "copy" THEN "join" ELSE "running")
    /\ UNCHANGED <<cur, booting, frameActive, open, imgui, ctl, workerVars, prep,
                   surfaceVars, presentVars, wrote, ended, faults>>

\* settings_overlay::Draw, after the wait for the DONE phase.
DrawOverlay ==
    /\ pc = "join"
    /\ ctl.ready
    /\ imgui' = IF imgui.started THEN [imgui EXCEPT !.overlay = cur] ELSE imgui
    /\ wrote' = [wrote EXCEPT !.overlay = cur]
    /\ Goes("end")
    /\ UNCHANGED <<cur, booting, frameActive, fifo, open, recorded, ctl, workerVars, prep,
                   surfaceVars, presentVars, ended, lost, faults>>

HandedOverReady ==
    [ctl EXCEPT !.framePrepared = FALSE, !.sealed = FALSE, !.jobPending = TRUE,
                !.prepareAllowed = FALSE]

HandedOver ==
    [ctl EXCEPT !.framePrepared = FALSE, !.sealed = FALSE, !.ready = FALSE,
                !.jobPending = TRUE, !.prepareAllowed = FALSE]

end_frame ==
    /\ pc = "end"
    /\ ctl.ready
    /\ Decode
    /\ ctl' = HandedOver
    /\ cur' = cur + 1
    /\ ended' = wrote /\ wrote' = Nothing
    /\ frameActive' = FALSE
    /\ Goes(IF booting THEN "cold" ELSE "begin")
    /\ UNCHANGED <<booting, open, imgui, workerVars, prep, surfaceVars, presentVars, faults>>

\* The boot loop ends each frame it could begin; then the guest runs.
BootEnds ==
    /\ pc = "running" /\ booting /\ frameActive
    /\ Goes("end")
    /\ UNCHANGED <<cur, booting, frameActive, fifo, renderVars, ctl, workerVars, prep,
                   surfaceVars, presentVars, ghostVars, faults>>

BootIsOver ==
    /\ pc \in {"cold", "running"} /\ booting /\ ~frameActive
    /\ booting' = FALSE
    /\ UNCHANGED <<pc, cur, frameActive, fifo, renderVars, ctl, workerVars, prep,
                   surfaceVars, presentVars, ghostVars, faults>>

-----------------------------------------------------------------------------
(* begin_frame                                                              *)

EnsureForgottenByAnEntry ==
    /\ pc \in {"cold", "running"} /\ ~frameActive
    /\ cur <= LastFrame
    /\ \/ Goes("begin")
       \/ pc = "cold" /\ ~booting /\ Goes("drain")
    /\ UNCHANGED <<cur, booting, frameActive, fifo, renderVars, ctl, workerVars, prep,
                   surfaceVars, presentVars, ghostVars, faults>>

\* The next turn of the boot loop, EnsureAuroraFrameActive, or a retrace.
EnsureAuroraFrameActive ==
    /\ pc \in {"cold", "running"} /\ ~frameActive
    /\ cur <= LastFrame
    /\ Goes("begin")
    /\ UNCHANGED <<cur, booting, frameActive, fifo, renderVars, ctl, workerVars, prep,
                   surfaceVars, presentVars, ghostVars, faults>>

\* A begin that would race a change of the window joins the worker instead.
waitForSurfacePreparation == window # "shown" \/ ~surface \/ ~sizeOk

Returns(result) == frameActive' = result /\ Goes("running")

begin_frame ==
    /\ pc = "begin"
    /\ \/ /\ ~ctl.ready
          /\ ctl' = [ctl EXCEPT !.prepareAllowed = TRUE]
          /\ IF waitForSurfacePreparation
             THEN Goes("beginWait") /\ UNCHANGED frameActive
             ELSE Returns(TRUE)
          /\ UNCHANGED prep
       \/ /\ ctl.ready /\ ctl.framePrepared
          /\ Returns(TRUE)
          /\ UNCHANGED <<ctl, prep>>
       \/ /\ ctl.ready /\ ~ctl.framePrepared
          /\ Goes("beginSelf")
          /\ prep' = [prep EXCEPT !["producer"] = "check"]
          /\ UNCHANGED <<ctl, frameActive>>
    /\ UNCHANGED <<cur, booting, fifo, renderVars, workerVars, surfaceVars,
                   presentVars, ghostVars, faults>>

BeginJoinsWorker ==
    /\ pc = "beginWait"
    /\ ctl.ready
    /\ Returns(ctl.framePrepared)
    /\ UNCHANGED <<cur, booting, fifo, renderVars, ctl, workerVars, prep, surfaceVars,
                   presentVars, ghostVars, faults>>

BeginPrepared ==
    /\ pc = "beginSelf" /\ prep["producer"] \in {"yes", "no"}
    /\ ctl' = [ctl EXCEPT !.framePrepared = (prep["producer"] = "yes")]
    /\ Returns(prep["producer"] = "yes")
    /\ prep' = [prep EXCEPT !["producer"] = "none"]
    /\ UNCHANGED <<cur, booting, fifo, renderVars, workerVars, surfaceVars, presentVars,
                   ghostVars, faults>>

-----------------------------------------------------------------------------
(* begin_frame_impl, by the producer or by the worker                       *)

surfaceMutationRequired ==
    reconfigure # "no" \/ window = "gone" \/ ~surface \/ ~sizeOk

Prepares(t, to) == prep' = [prep EXCEPT ![t] = to]

ChecksSurface(t) ==
    /\ prep[t] = "check"
    /\ Prepares(t, IF surfaceMutationRequired THEN "idle"
                   ELSE IF window = "paused" THEN "no" ELSE "state")
    /\ UNCHANGED <<producerVars, renderVars, ctl, workerVars, surfaceVars, presentVars,
                   ghostVars, faults>>

wait_for_presenter_idle(t) ==
    /\ prep[t] = "idle"
    /\ jobs = << >> /\ ppc \in {"wait", "exited"}
    /\ Prepares(t, "mutate")
    /\ UNCHANGED <<producerVars, renderVars, ctl, workerVars, surfaceVars, presentVars,
                   ghostVars, faults>>

\* Under the surface mutex. A surface that is missing or was lost may fail to
\* be created again; otherwise it is configured in place.
Mutates(t) ==
    /\ \/ /\ window = "gone"
          /\ surface' = FALSE
          /\ Prepares(t, "no")
          /\ Works /\ UNCHANGED <<sizeOk, reconfigure>>
       \/ /\ window = "paused"
          /\ Prepares(t, "no")
          /\ Works /\ UNCHANGED <<surface, sizeOk, reconfigure>>
       \/ /\ window = "shown" /\ (~surface \/ reconfigure = "recreate")
          /\ surface' = FALSE /\ reconfigure' = "no"
          /\ Prepares(t, "no")
          /\ Fails("create") /\ UNCHANGED sizeOk
       \/ /\ window = "shown"
          /\ surface' = TRUE /\ reconfigure' = "no" /\ sizeOk' = TRUE
          /\ Prepares(t, "state")
          /\ Works
    /\ UNCHANGED <<producerVars, renderVars, ctl, workerVars, window, presentVars, ghostVars>>

MutatesSurface(t) == prep[t] = "mutate" /\ texture = "none" /\ Mutates(t)

NeverDeferred(t) == FALSE

\* The worker starts ImGui's frame only when no slot of the last frame is left
\* to encode; the debt is noted before gfx::begin_frame can fail.
Deferred(t) == t = "worker" /\ work.slots > 0

begin_frame_render_state(t) ==
    /\ prep[t] = "state"
    /\ imgui' = IF Deferred(t) THEN imgui ELSE NewFrame
    /\ work' = [work EXCEPT !.owed = @ \/ Deferred(t)]
    /\ \/ /\ open' = TRUE /\ Prepares(t, "yes") /\ Works
       \/ /\ open' = open /\ Prepares(t, "no") /\ Fails("map")
    /\ UNCHANGED <<producerVars, recorded, ctl, wpc, surfaceVars, presentVars, ghostVars>>

MutatesWithoutWaiting(t) ==
    \/ ChecksSurface(t)
    \/ prep[t] = "idle" /\ Mutates(t)
    \/ begin_frame_render_state(t)

begin_frame_impl(t) ==
    ChecksSurface(t) \/ wait_for_presenter_idle(t) \/ MutatesSurface(t)
    \/ begin_frame_render_state(t)

-----------------------------------------------------------------------------
(* The frame worker                                                         *)

WorkerGoes(to) == wpc' = to

WorkerWakes ==
    /\ wpc = "wait"
    /\ \/ ctl.stop /\ WorkerGoes("exiting") /\ UNCHANGED ctl
       \/ /\ ~ctl.stop /\ ctl.jobPending
          /\ ctl' = [ctl EXCEPT !.jobPending = FALSE]
          /\ WorkerGoes("seal")
    /\ UNCHANGED <<producerVars, renderVars, work, prep, surfaceVars, presentVars,
                   ghostVars, faults>>

\* Detach what was recorded. Without inserted slots the frame's one image is
\* encoded before the renderer mutex is released.
seal_frame_locked(n) ==
    LET sealed == [Idle EXCEPT !.frame = cur - 1, !.draws = recorded, !.slots = n]
        i == acquire_presentation_image(0)
    IN
    /\ wpc = "seal"
    /\ imgui' = Rendered
    /\ recorded' = << >> /\ open' = FALSE
    /\ lost' = IF open THEN lost ELSE lost \cup {cur - 1}
    /\ IF n = 0
       THEN /\ pool' = Painted(0, i, PictureOf(sealed))
            /\ work' = [sealed EXCEPT !.group = <<JobOf(sealed, i)>>]
            /\ WorkerGoes("publish")
       ELSE /\ work' = sealed
            /\ WorkerGoes("permit")
            /\ UNCHANGED pool
    /\ UNCHANGED <<producerVars, ctl, prep, surfaceVars, jobs, current, texture, pstop,
                   ppc, shown, wrote, ended, faults>>

\* With inserted slots the encoding runs while the producer records.
encode_sealed_frame ==
    LET s == Len(work.group)
        i == acquire_presentation_image(s)
    IN
    /\ wpc = "encode" /\ s <= work.slots
    /\ imgui' = Rendered
    /\ pool' = Painted(s, i, PictureOf(work))
    /\ work' = [work EXCEPT !.group = Append(@, JobOf(work, i))]
    /\ UNCHANGED <<producerVars, open, recorded, ctl, wpc, prep, surfaceVars, jobs, current,
                   texture, pstop, ppc, shown, ghostVars, faults>>

\* Rather than wait for room, drop every older image.
maximumQueuedJobs ==
    IF 2 * Group > 3 * Len(work.group) THEN 2 * Group ELSE 3 * Len(work.group)

NewestDropped(group) ==
    IF pstop \/ Len(jobs) + Len(group) > maximumQueuedJobs THEN jobs ELSE jobs \o group

Enqueued(group) ==
    IF pstop THEN jobs
    ELSE IF Len(jobs) + Len(group) > maximumQueuedJobs THEN group ELSE jobs \o group

enqueue_presentations ==
    /\ \/ wpc = "publish" /\ WorkerGoes("permit")
       \/ wpc = "encode" /\ Len(work.group) > work.slots /\ WorkerGoes("owed")
    /\ jobs' = Enqueued(work.group)
    /\ work' = [work EXCEPT !.group = << >>]
    /\ UNCHANGED <<producerVars, renderVars, ctl, prep, surfaceVars, current, texture, pstop,
                   ppc, pool, shown, ghostVars, faults>>

\* The next frame is prepared once the producer has asked for it.
WorkerIsAllowed ==
    /\ wpc = "permit"
    /\ \/ ctl.stop /\ WorkerGoes("exiting") /\ UNCHANGED <<ctl, prep>>
       \/ /\ ~ctl.stop /\ ctl.prepareAllowed
          /\ ctl' = [ctl EXCEPT !.prepareAllowed = FALSE]
          /\ prep' = [prep EXCEPT !["worker"] = "check"]
          /\ WorkerGoes("prepare")
    /\ UNCHANGED <<producerVars, renderVars, work, surfaceVars, presentVars, ghostVars, faults>>

\* SEALED: the producer may drain; DONE as well when nothing is left to encode.
WorkerPrepared ==
    /\ wpc = "prepare" /\ prep["worker"] \in {"yes", "no"}
    /\ ctl' = [ctl EXCEPT !.framePrepared = (prep["worker"] = "yes"), !.sealed = TRUE,
                          !.ready = @ \/ work.slots = 0]
    /\ prep' = [prep EXCEPT !["worker"] = "none"]
    /\ WorkerGoes(IF work.slots = 0 THEN "wait" ELSE "encode")
    /\ UNCHANGED <<producerVars, renderVars, work, surfaceVars, presentVars, ghostVars, faults>>

\* DONE: every slot has replayed the ImGui data, so its next frame may begin.
WorkerIsDone ==
    /\ wpc = "owed"
    /\ imgui' = IF work.owed THEN NewFrame ELSE imgui
    /\ ctl' = [ctl EXCEPT !.ready = TRUE]
    /\ WorkerGoes("wait")
    /\ UNCHANGED <<producerVars, open, recorded, work, prep, surfaceVars, presentVars,
                   ghostVars, faults>>

\* A stop releases both phases.
WorkerExits ==
    /\ wpc = "exiting"
    /\ ctl' = [ctl EXCEPT !.sealed = TRUE, !.ready = TRUE]
    /\ WorkerGoes("exited")
    /\ UNCHANGED <<producerVars, renderVars, work, prep, surfaceVars, presentVars,
                   ghostVars, faults>>

-----------------------------------------------------------------------------
(* The presenter                                                            *)

PresenterGoes(to) == ppc' = to

Requested(what) == IF reconfigure = "recreate" THEN reconfigure ELSE what

PresenterTakesNewest ==
    /\ ppc = "wait" /\ jobs # << >>
    /\ current' = Last(jobs) /\ jobs' = Front(jobs)
    /\ PresenterGoes("present")
    /\ UNCHANGED <<producerVars, renderVars, ctl, workerVars, prep, surfaceVars, texture,
                   pstop, pool, shown, ghostVars, faults>>

PresenterTakes ==
    /\ ppc = "wait" /\ jobs # << >>
    /\ current' = Head(jobs) /\ jobs' = Tail(jobs)
    /\ PresenterGoes("present")
    /\ UNCHANGED <<producerVars, renderVars, ctl, workerVars, prep, surfaceVars, texture,
                   pstop, pool, shown, ghostVars, faults>>

MayPresent == reconfigure = "no" /\ window # "gone" /\ sizeOk

\* A job meets a window or a surface it cannot be shown on, or the surface
\* gives no texture; what it asks for waits for the next begin.
PresenterSkips ==
    /\ ppc = "present"
    /\ \/ ~MayPresent /\ Works /\ UNCHANGED reconfigure
       \/ MayPresent /\ ~surface /\ Works /\ reconfigure' = Requested("reconfigure")
       \/ /\ MayPresent /\ surface /\ Fails("surface")
          /\ reconfigure' \in {reconfigure, Requested("reconfigure"), "recreate"}
    /\ current' = NoJob
    /\ PresenterGoes("wait")
    /\ UNCHANGED <<producerVars, renderVars, ctl, workerVars, prep, window, sizeOk, surface,
                   jobs, texture, pstop, pool, shown, ghostVars>>

acquire_surface_texture ==
    /\ ppc = "present"
    /\ MayPresent /\ surface
    /\ texture' = "held"
    /\ \/ Works /\ UNCHANGED reconfigure
       \/ Fails("surface") /\ reconfigure' = Requested("reconfigure")   \* suboptimal
    /\ PresenterGoes("hold")
    /\ UNCHANGED <<producerVars, renderVars, ctl, workerVars, prep, window, sizeOk, surface,
                   jobs, current, pstop, pool, shown, ghostVars>>

\* The deadline has come: look again and present. A failed or a slow Present
\* asks for a new configuration.
Presents ==
    /\ ppc = "hold"
    /\ texture' = "none"
    /\ \/ MayPresent /\ shown' = current /\ Works /\ UNCHANGED reconfigure
       \/ ~MayPresent /\ UNCHANGED <<shown, reconfigure>> /\ Works
       \/ /\ MayPresent /\ Fails("present") /\ reconfigure' = Requested("reconfigure")
          /\ shown' \in {shown, current}
    /\ current' = NoJob
    /\ PresenterGoes("wait")
    /\ UNCHANGED <<producerVars, renderVars, ctl, workerVars, prep, window, sizeOk, surface,
                   jobs, pstop, pool, ghostVars>>

\* The presenter stops only when its queue is empty.
PresenterExits ==
    /\ ppc = "wait" /\ jobs = << >> /\ pstop
    /\ PresenterGoes("exited")
    /\ UNCHANGED <<producerVars, renderVars, ctl, workerVars, prep, surfaceVars, jobs, current,
                   texture, pstop, pool, shown, ghostVars, faults>>

-----------------------------------------------------------------------------
(* shutdown, the window, the specification                                  *)

\* The guest gives up, or an event dispatched before a begin closes the window.
stop_frame_worker ==
    /\ pc \in {"cold", "running", "begin"} /\ ~booting
    /\ ctl' = [ctl EXCEPT !.stop = TRUE, !.prepareAllowed = TRUE]
    /\ Goes("joinWorker")
    /\ UNCHANGED <<cur, booting, frameActive, fifo, renderVars, workerVars, prep, surfaceVars,
                   presentVars, ghostVars, faults>>

stop_presenter ==
    /\ pc = "joinWorker" /\ wpc = "exited"
    /\ ctl' = [ctl EXCEPT !.framePrepared = FALSE]
    /\ pstop' = TRUE
    /\ Goes("joinPresenter")
    /\ UNCHANGED <<cur, booting, frameActive, fifo, renderVars, workerVars, prep, surfaceVars,
                   jobs, current, texture, ppc, pool, shown, ghostVars, faults>>

ShutDown ==
    /\ pc = "joinPresenter" /\ ppc = "exited"
    /\ jobs' = << >>
    /\ Goes("down")
    /\ UNCHANGED <<cur, booting, frameActive, fifo, renderVars, ctl, workerVars, prep,
                   surfaceVars, current, texture, pstop, ppc, pool, shown, ghostVars, faults>>

\* Events reach the window when the producer pumps them; the size of the
\* window may change at any time.
WindowChanges ==
    /\ pc \in {"cold", "running", "begin"}
    /\ window' \in {"shown", "paused", "gone"} \ {window}
    /\ Fails("window")
    /\ UNCHANGED <<producerVars, renderVars, ctl, workerVars, prep, sizeOk, surface,
                   reconfigure, presentVars, ghostVars>>

WindowResized ==
    /\ sizeOk /\ sizeOk' = FALSE
    /\ Fails("resize")
    /\ UNCHANGED <<producerVars, renderVars, ctl, workerVars, prep, window, surface,
                   reconfigure, presentVars, ghostVars>>

Init ==
    /\ pc = "cold" /\ cur = 1 /\ booting = TRUE /\ frameActive = FALSE /\ fifo = << >>
    /\ open = FALSE /\ recorded = << >>
    /\ imgui = [started |-> FALSE, overlay |-> 0, data |-> 0]
    /\ ctl = [stop |-> FALSE, jobPending |-> FALSE, sealed |-> TRUE, ready |-> TRUE,
              framePrepared |-> FALSE, prepareAllowed |-> FALSE]
    /\ wpc = "wait" /\ work = Idle
    /\ prep = [t \in {"producer", "worker"} |-> "none"]
    /\ window = "shown" /\ sizeOk = TRUE /\ surface = TRUE /\ reconfigure = "no"
    /\ jobs = << >> /\ current = NoJob /\ texture = "none" /\ pstop = FALSE /\ ppc = "wait"
    /\ pool = [s \in Slot |-> << >>] /\ shown = NoJob
    /\ wrote = Nothing /\ ended = Nothing /\ lost = {} /\ faults = 0

\* What the guest and the user decide.
Decisions ==
    \/ WriteCommand \/ GX__CopyDisp \/ PresentUnpaced
    \/ BootIsOver \/ EnsureAuroraFrameActive \/ stop_frame_worker
    \/ WindowChanges \/ WindowResized

Producer ==
    \/ drain \/ DrawOverlay \/ end_frame \/ BootEnds
    \/ begin_frame \/ BeginJoinsWorker \/ BeginPrepared \/ begin_frame_impl("producer")
    \/ stop_presenter \/ ShutDown

Worker ==
    \/ WorkerWakes \/ (\E n \in Slot : seal_frame_locked(n)) \/ encode_sealed_frame
    \/ enqueue_presentations \/ WorkerIsAllowed \/ begin_frame_impl("worker")
    \/ WorkerPrepared \/ WorkerIsDone \/ WorkerExits

Presenter ==
    \/ PresenterTakes \/ PresenterSkips \/ acquire_surface_texture \/ Presents
    \/ PresenterExits

IsDown == pc = "down" /\ UNCHANGED vars

Next == Decisions \/ Producer \/ Worker \/ Presenter \/ IsDown

Spec == Init /\ [][Next]_vars

FairSpec == Spec /\ WF_vars(Producer) /\ WF_vars(Worker) /\ WF_vars(Presenter)

-----------------------------------------------------------------------------
(* Properties                                                               *)

TypeOK ==
    /\ cur \in Frame
    /\ \A f \in Range(fifo) \cup Range(recorded) \cup lost : f \in Frame
    /\ imgui.overlay \in 0 .. MaxFrames + 1
    /\ window \in {"shown", "paused", "gone"}
    /\ reconfigure \in {"no", "reconfigure", "recreate"}
    /\ Len(jobs) <= 3 * Group
    /\ \A j \in Held \ {NoJob} : j.slot \in Slot /\ j.image \in DOMAIN pool[j.slot]
    /\ ctl.ready => ctl.sealed
    /\ faults \in 0 .. MaxFaults

\* What the worker sealed as a frame is what the producer wrote between that
\* frame's begin and its end, although it drains the next frame while the
\* worker still encodes (aurora.cpp 1760-1795, gx/fifo.cpp 82-93).
FramesNotMixed ==
    /\ \A f \in Range(work.draws) : f = work.frame
    /\ work.frame = cur - 1 /\ cur - 1 \notin lost /\ wpc \in {"publish", "permit", "encode"}
       => work.draws = ended.draws

\* An image a job holds shows the job's own frame with the overlay drawn in
\* that frame: no other slot was painted over it and ImGui's next frame did
\* not begin before the last slot (aurora.cpp 846-872, 1782-1795).
PicturesTrue ==
    \A j \in Held \ {NoJob} :
        LET picture == pool[j.slot][j.image]
        IN
        /\ picture.frame = j.frame
        /\ j.frame \in lost \/ picture.true

\* While the presenter holds a surface texture no begin releases the surface or
\* configures it again (aurora.cpp 1366-1400, 909-925).
NotUnderPresent ==
    [][texture = "held" => surface' = surface /\ (sizeOk' => sizeOk)]_vars

\* Images are presented in the order of their frames and slots, however many
\* are dropped (aurora.cpp 1188-1224).
Later(j, k) == j.frame > k.frame \/ (j.frame = k.frame /\ j.slot > k.slot)

PresentsInOrder == [][shown' # shown => Later(shown', shown)]_vars

\* A job is given up when the presenter has finished with it, or when all that
\* is queued is newer: the newest group is never dropped (aurora.cpp 1196-1201).
NewestGroupKept ==
    [][\A j \in Held \ Held' :
          j = current \/ (jobs' # << >> /\ \A k \in Range(jobs') : k.frame > j.frame)]_vars

\* No wait of the producer lasts: not a drain's, not an overlay's, an end's or
\* a begin's, nor the joins of the shutdown (gx_fifo.cpp 1385-1397,
\* aurora_events.h 121-127).
Waits == {"drain", "copy", "join", "end", "begin", "beginWait", "beginSelf",
          "joinWorker", "joinPresenter"}

ProducerNeverStuck == []<>(pc \notin Waits)

\* Once begin_frame has returned TRUE, what is drained is recorded into an open
\* frame (aurora.cpp 1867-1869: "optimistic success would let GX/ImGui record
\* into a frame that was never begun").
RecordsIntoBegunFrame == [][frameActive /\ fifo # << >> /\ fifo' = << >> => open]_vars
=============================================================================
