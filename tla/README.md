# A TLA+ model of the NSMBW/MKW runtime

This directory models the parts of the static recompilation runtime (`runtime/src`)
and of its renderer (`aurora-main/lib`) that decide whether a translated game keeps
running, keeps its save data and shows its frames: the guest thread scheduler, the
message queues on top of it, the crash-safe replacement of save files, and the three
places where the renderer's threads meet - the frame pipeline, the cache of render
pipelines and the pool that fills in interpolated frames. The modules were written from the code
alone; where a comment of the code promises something else than the code does, the
section on findings says so.

Run a check with `tlc -config <run>.cfg <module>`, a proof with
`tlapm <module>_proofs.tla`. `PROJECT.json` lists the runs, the lines each
definition stands for, the mutants that show that a property can fail, and the
theorems.

## 1. The system

A C# translator turns the PowerPC code of a game into C++, and the runtime links it
with replacements of the console's system library ("HLE"). The runtime has these
parts.

| Part | Source | State it keeps | Operations |
| --- | --- | --- | --- |
| Guest thread scheduler | `hle/os/os_scheduler.cpp`, `os_thread.cpp`, `os_sleep.cpp` | OSThread structures, run queues, pending mask, running/current context, disable count, timers and outstanding parks | create, resume, suspend, exit, cancel, join, detach, yield, sleep/wakeup on a queue, SelectThread, mutexes, OSSleepTicks |
| Guest fibers | `fiber_manager.cpp` | one coroutine per thread, the deferred deletions | create, switch, terminate, purge |
| Message queues | `hle/os/os_message.cpp` | a ring, two thread queues | init, send, jam, receive |
| Alarms and the completion pump | `hle/os/os_alarm.cpp`, `hle/storage/nand_async.cpp` 1-100 | sorted alarm list, depth guards, queued callbacks | set, process, drain |
| Deferred network operations | `hle/net/network_deferred.cpp` | resolver threads, completions, pending polls and connects, results by token | start, complete, take result, abort |
| NAND files | `hle/storage/nand_api.cpp`, `nand_async.cpp`, `nand_fs.cpp` | table of live handles, host files and scratch files | open, safe open, write, close, safe close, create, delete |
| ISFS and other IOS devices | `nand_isfs.cpp`, `ios.cpp`, `ipc.cpp`, `esp.cpp` | the same handles | open, ioctl, close |
| Disc and redirection | `dvd.cpp`, `riivolution.cpp` | path maps | read, map |
| Display retrace | `hle/vi.cpp` | retrace count, guard of AdvanceRetrace | advance, wait, callbacks |
| Audio | `hle/audio`, `hle/ai.cpp`, `hle/dsp.cpp`, `audio_backend.cpp` | voices, DMA, output stream | mix, poll, submit |
| Frame pipeline | `aurora-main/lib/aurora.cpp`, `gx/fifo.cpp`, `imgui.cpp`, driven by `hle/vi.cpp`, `hle/gx/gx_frame.cpp`, `gx_copy.cpp` | the open frame and the sealed one, the worker's phases, images, the queue of presentations, the surface | begin, record, drain, end, seal, encode, publish, present, reconfigure, stop |
| Pipeline cache | `aurora-main/lib/gfx/pipeline_cache.cpp` | built, pending and queued pipelines | ask, build, wait, evict, preload, stop |
| Interpolation worker pool | `aurora-main/lib/gx/frame_interpolation.cpp` 45-145 | one job: count, next index, remaining, active workers | run, consume |
| Other graphics | `hle/gx`, `aurora-main` | GX state, passes, shaders | decode, record |
| Input, memory, hardware registers, product shell, translator, native game code, vendored libraries | see `PROJECT.json` | | |

How they interact. Guest code calls the HLE functions directly. Every guest thread
has a host fiber, and only SelectThread switches fibers, so of the whole emulation
one call executes at a time; but SelectThread is called from the middle of other
calls (a wakeup, an unlock, a resume), so a call can be suspended half done for as
long as its thread does not run. When no thread can run, SelectThread serves timers,
audio and the display retrace in a loop, and what it serves calls back into guest
code and into the scheduler. The renderer has host threads of its own: a frame worker,
a presenter, the pipeline workers and the interpolation workers; they share the
renderer's state with the thread that runs the guest (the producer) through mutexes,
condition variables and atomic counters. Blocking HLE calls (message queues, mutexes, network requests) are loops
around OSSleepThread. NAND calls complete synchronously on the host and post their
guest callbacks to a queue.

What is hard here:

* interleaving of half-done calls on many fibers, with SelectThread nested in itself
  through the idle loop, and places where a switch is refused;
* caches kept by hand: the pending mask, inherited priorities, lists of owned mutexes,
  the pointer from a thread to its queue;
* timers that race with other wakeups, with cancellation and with the reuse of a thread
  structure;
* blocking loops whose woken thread may be overtaken or cancelled before it retries;
* a commit of a save file interrupted at any point by a loss of power, with any host
  call failing, and a close that is retried;
* three threads over one frame: the producer records the next frame while the worker
  encodes the last and the presenter shows the one before, and the surface they share is
  lost, resized and rebuilt;
* one condition variable for waiters of two kinds, and a limit that throws out work;
* counters that are reset while a late worker may still read them.

What makes each part correct is listed with its module below.

## 2. The modules

| Module | Models | Kind |
| --- | --- | --- |
| `OSThreadQueue` | thread queues as sequences, names of queues, the priority-sorted insertion | operators |
| `OSScheduler` | the scheduler | state machine |
| `MCOSScheduler` | instances | model checking |
| `SequenceLemmas` | ranges, parts, heads, tails and filters of sequences | lemmas |
| `OSScheduler_proofs` | the operations on thread queues, frames; types, pending mask, owners and counts of mutexes | lemmas, theorems |
| `OSSchedulerThreads_proofs` | where a thread is linked, what its fiber is doing, sleepers | theorems |
| `OSMutexes_proofs` | waiters, ownership, priority inheritance | theorems |
| `BoundedDeque` | what the message queue promises | abstract specification |
| `OSMessageQueue` | the message queue and its callers | state machine |
| `MCOSMessageQueue` | instance | model checking |
| `OSMessageQueue_proofs` | theorems and the refinement | proofs |
| `TransactionalFile` | what the NAND library promises of a file | abstract specification |
| `NANDFile` | one save file, its scratch file and the host | state machine |
| `MCNANDFile` | instances | model checking |
| `NANDFile_proofs` | theorems and the refinement | proofs |
| `FramePipeline`, `MCFramePipeline` | producer, frame worker, presenter | state machine, instances |
| `FramePipeline_proofs` | theorems | proofs |
| `PipelineCache`, `MCPipelineCache` | producer, encoder, pipeline workers | state machine, instance |
| `PipelineCache_proofs` | theorems | proofs |
| `InterpolationWorkerPool`, `MCInterpolationWorkerPool` | the dispatcher and its workers | state machine, instance |

### OSScheduler

A fiber's stack is a sequence of frames, innermost first (`stack`), and `exec` is the
fiber that executes. An action is what the innermost frame does up to the next call
the code makes; the call becomes a new frame. So the code between two calls is atomic,
which is what cooperative fibers give, and everything that can happen inside a call
does happen there. An empty stack is guest code, which may make any call of `Calls`
(a bound: each run picks the calls it is about).

| Action | Code |
| --- | --- |
| `SelectThread`, `SelectThreadFirstTimers`, `DispatchThread` | SelectThread: refusal, idle context, timers first, pick and switch |
| `IdleTimers`, `IdleAudio`, `IdleRetrace`, `IdleNoRetrace`, `IdleCheck` | one pass of its idle loop |
| `TimerFires`, `TimersDone`, `Reconcile`, `HealSleeper` | ProcessSleepTimers and the reconciler of stranded sleepers |
| `OSSleepTicks`, `ParkReturns` | OSSleepTicks up to its self-suspension, and after it |
| `OSSleepThread`, `SleepReturns`, `WakeHead`, `WakeDone` | sleeping on a queue with its undo, and waking a queue thread by thread |
| `OSCreateThread`, `OSResumeThread`, `OSSuspendThread`, `OSExitThread`, `OSCancelThread`, `OSJoinThread`, `OSDetachThread` | the thread calls; `UnlockAllMutexes`, `JoinReturns`, `ExitReschedules` are their later parts |
| `OSLockMutex`, `LockRetry`, `OSUnlockMutex`, `PromoteStep`, `PropagateStep` | mutexes and the two walks of priority inheritance |
| `CallbackWakes`, `CallbackResumes`, `CallbackReturns` | guest callbacks of audio and retrace |

Abstractions: which of several due timers is served first is open; the order inside the
lists of threads and of owned mutexes is dropped, as nothing reads it but loops over all
of them; return values of threads, context contents and logging are left out; a wakeup
has no limit of 256 threads. `OS_HLE_WakeupThreadNoReschedule` is used only by network
completions, which nothing drains (section 6). Bounds: joins, detaches and resumes name threads that
exist and a thread does not join itself; a structure is created anew only when its state
is 0; callbacks wake and resume but do not block; `MaxSuspend` and `MaxCount` bound
nesting of suspensions and locks. A run queue's index may be one past the array
(`AnyPrio`), because a suspended waiter has that priority in the code, so that
`InRunQueueArray` can fail.

Properties: the pending mask is exact; a thread is linked once and where its pointer
says; no runnable thread is lost; guest code runs only as the RUNNING thread; equal
priorities take turns; the best thread is picked; joiners are released; owner, count
and list of a mutex agree; nobody sleeps on a free mutex; no priority inversion through
chains of owners; a parked sleeper keeps a wakeup - an armed timer, an outstanding park,
or a living thread that has undertaken to resume it - and gets it; audio does not starve
the retrace.

### OSMessageQueue

`MsgQueueOp` is one step from a test of the queue to the call that may switch, which is
the last thing it does before it returns (OSWakeupThread) or tests again
(OSSleepThread). The scheduler appears as what it may do to a caller: run any woken
thread first, return from OSSleepThread without a switch (`SleepUndone`), cancel a
thread asleep or woken (`Cancelled`). The ring is an array indexed modulo `Count`, with
the first index moved backwards by a jam. `BoundedDeque` is the abstract queue; the
refinement maps the ring to the sequence of its messages.

Properties: the ring behaves as the deque (no message lost, doubled, reordered or
overwritten); nobody is asleep on a queue that could serve it.

### NANDFile

One file, its scratch file, the NANDFileInfo structures of the game. A content is the
set of writes in it: what matters is which writes a reader or a restarted game finds.
The host's file system has a live directory and the set of directories that may be on
the disk, and the same for contents: a write or rename adds to what may be there, a
flush removes the rest. A loss of power picks any directory and any contents. Inside a
call it finds nothing it could not find before or after it, because calls only add until
they flush; the one exception, between the rename and the flush of the directory, is a
step of its own. The POSIX build is modelled (an open file survives its removal, rename
replaces). Every host call that may fail is in the constant `Fails`.

Bounds: a write call is made once; `Unflushed` bounds the directories in doubt when a
session begins; the game leaves an open handle alone; it opens the file for writing, or
deletes it, only under handles of the kinds in `Overlap` - readers in the passing runs,
since the library does not keep two writers apart (see findings).

Properties: every session is a transaction (`AllOrNothing`, the refinement of
`TransactionalFile`: its writes are seen all or not at all, by readers and after a crash,
and a failed close leaves the file alone); what a close reported as saved survives
(`SavedIsDurable`). A session written in place - the file was new, a reader was open, or
the shadow could not be made - is no transaction, in the code and in the abstract
specification alike; a save counts from when the file's directory entry is on the disk.

### FramePipeline

The producer's `pc` says which wait or call it is in; what the code does under the
renderer's mutex, the worker's or the presenter's is one step. Commands and widgets are
represented by the number of the frame they were written for, so a picture is right when
it holds all that its frame wrote and nothing else.

| Action | Code |
| --- | --- |
| `WriteCommand`, `GX__CopyDisp`, `PresentUnpaced` | a GX entry point, a copy to the display, a present from the retrace |
| `EnsureAuroraFrameActive`, `BootEnds`, `BootIsOver` | the lazy begin; the loop that shows the window before the guest runs |
| `drain`, `DrawOverlay`, `end_frame` | decoding the FIFO once SEALED, the overlay once DONE, the handover |
| `begin_frame`, `BeginJoinsWorker`, `BeginPrepared` | begin_frame: leave given to the worker, the answer without waiting, the join |
| `begin_frame_impl` | the begin on either thread: window, surface, wait for the presenter, configure, begin of the passes |
| `WorkerWakes`, `seal_frame_locked`, `encode_sealed_frame`, `enqueue_presentations`, `WorkerIsAllowed`, `WorkerPrepared`, `WorkerIsDone`, `WorkerExits` | one cycle of the frame worker |
| `PresenterTakes`, `PresenterSkips`, `acquire_surface_texture`, `Presents`, `PresenterExits` | one job of the presenter |
| `stop_frame_worker`, `stop_presenter`, `ShutDown` | the shutdown, with its joins |
| `WindowChanges`, `WindowResized` | the window: paused, gone, another size |

The faults (`Faults`) are what the code tests for: the window changes, its size, the
surface texture is lost, the surface cannot be made, a present fails, a begin finds no
mapped buffer. Left out: deadlines and anchors (when something is shown), captures and
readbacks, images of an older size, the path without worker under RenderDoc.

Properties: a sealed frame is what the producer wrote in it (`FramesNotMixed`); an image
shows its own frame and overlay until it is shown (`PicturesTrue`); the surface does not
change under a present (`NotUnderPresent`); order and the newest group survive the limit
of the queue (`PresentsInOrder`, `NewestGroupKept`); no wait of the producer lasts
(`ProducerNeverStuck`).

### PipelineCache

What is done under `g_pipelineMutex` is one step, the notification after it another, and
`cv` is the set of threads asleep on the one condition variable: `notify_one` wakes any of
them. The producer asks for the pipeline of every draw (`find_pipeline`, with
`Enqueues` for the limit and `SyncCreated` for its own builds) or has its name already
(`DrawsCached`); a worker takes, compiles and notifies (`pipeline_worker`, `Compiled`,
`CompileNotifies`); the frame worker binds the draws of the sealed frame one by one
(`bind_pipeline`, `wait_pipeline`, `wait_pipeline_for_persistent_pass`). The seal is
`end_pipeline_frame`: the frame before has been encoded, as in `FramePipeline`. A draw is
encoded once; the slots of an interpolated frame would bind it again, with the same
pipeline. Log.fatal ends the model (`aborted`).

Properties: the set of pending builds and the count are exact (`PendingExact`,
`QueuedCounts`); a pipeline a frame asked for is never lost (`WantedStays`) and its draw
is drawn unless it may be skipped (`NeededDrawsDrawn`); no sleeper is forgotten
(`NobodyForgotten`) and every frame is encoded (`FrameIsEncoded`). They have one exception,
draws that name a pipeline no open frame asked for (section 5). `WantedStays` and
`NeededDrawsDrawn` are not about such draws. `NobodyForgotten` and `FrameIsEncoded` hold
until the encoder goes to wait for such a pipeline before it is built (`unasked`): it may
then take the only notification, or end the program, and for the rest of that run only the
last part of `NobodyForgotten`, no worker sleeps through the shutdown, says anything.

### InterpolationWorkerPool

Every load and store of an atomic is a step, in program order; what a relaxed order adds
is left out, so what fails here fails on any machine. `EveryIndexOnce` is what `run`
promises: when it returns, its function has been called once for every index.

## 3. The runs

| Run | Instance | Shows |
| --- | --- | --- |
| `threads` | 2 threads, 2 priorities, the life cycle, joins, one event queue, retrace and deferred callbacks, OSSleepTicks, 2 nested suspensions | structure of the queues, joins, order of equal priorities |
| `mutexes` | 3 threads, 2 mutexes locked twice, suspend and resume, exit and cancel | no inversion through a chain of owners, ownership agrees, no forgotten waiter |
| `sleep_ticks_fair` | 2 threads of one priority, OSSleepTicks and the retrace, fairness | liveness of sleepers and of the retrace |
| `messages` | 3 threads, 2 messages, 2 slots | the deque refinement, nobody stranded |
| `nand_faults` | 2 file infos, 2 writes, 3 host files, every failure, repeated closes, 2 directories in doubt | sessions are transactions, saved is durable |
| `frame` | a boot frame and 2 frames, none or one inserted slot, at most 2 faults in the first 2 frames, a shutdown at any point, fairness | the frame pipeline |
| `pipelines` | 2 GX pipelines and a clear, 2 of them stored, 2 workers, a limit of 1, 1 draw a frame, frames without end, fairness | the pipeline cache |
| `sleep_timer`, `exit_joiner`, `nand_close_retry`, `pool`, `frame_optimistic` | small instances | the findings |

Why these bounds are enough to be interesting: two priorities and two or three threads
give every relation the code compares (better, equal, worse; runner, waiter, third
party); two mutexes make a chain of owners; two nested suspensions tell a counter from
a flag; two slots with three threads wrap the ring in both directions and leave a
sleeper behind a woken one; two writes of one session can be torn, two sessions can
overlap, and three host files hold the original, the scratch and one that a crash may
bring back. Three frames have one being shown, one being encoded and one being written,
and groups of two overflow the queue of images. Two workers and the encoder make every
mix-up of one notification; a limit of one is passed by two stored pipelines, so that a
draw evicts, builds itself or, skipping, goes beyond it. Symmetry is used over threads
created alike, over file infos and over writes, never with liveness. The file run takes a
view that forgets what is left in free host files, which are overwritten before they are
read.

Two state constraints keep the scheduler's runs finite in time, and each cuts off a named
combination only: `ParksApart` (`threads`) keeps OSSleepTicks, its timers, parks and what
the reconciler has seen, apart from joins, detached and ended threads, disabled scheduling
and retrace callbacks; `OneHardship` (`mutexes`) lets one thread end, and does not suspend
a started thread once one has ended or a mutex is locked twice. The theorems of section 4
have neither constraint, so what the runs cut off is covered by them. `sleep_ticks_fair`
has two threads, since its properties need the whole state graph; the reconciler with
several stranded sleepers takes three, and is the theorem's (`SleepersAreWoken`).

The runs check for deadlock except the messages (all threads may be asleep or cancelled)
and the files (the writes are used up); the scheduler never stops, since its idle loop
is always enabled, and the renderer's models stop only when shut down or aborted, so a
join or a wait that nobody ends is found as a deadlock too.

Fairness (`FairSpec`): the host thread keeps executing, so a step inside a call and a
pass of the idle loop happen if they stay enabled (weak fairness); a callback returns, a
retrace comes due again and again in a spinning idle loop, an armed timer becomes due
and a stranded park becomes 100 ms old (strong fairness, since these are polled and only
seen in passes where the clock has moved on). Guest code owes nothing: no fairness on
its calls. In the renderer each host thread runs: weak fairness of the frame worker, of
the presenter, of each pipeline worker, and of the producer in what it does without the
guest; beginning a frame, drawing, settings, the window and the shutdown are decisions
that may never come.

Every property of a passing run has a mutant of the code's logic that breaks it under
the same configuration; the mutant operators stand next to what they mutate.

## 4. What is proved

Every invariant and every action property of the passing runs is a theorem, for any
number of threads, mutexes, event queues, priorities, messages, slots, file structures,
writes, pipelines, workers and frames. What a theorem assumes besides is either an
assumption of the module, which the runs evaluate too, or a hypothesis in its statement
about what the program calls, named below.

The assumptions on constants: priorities and the bounds are numbers, `Idle` and `None` are
no threads, mutexes or queues, the main thread is a thread and the retrace queue an event
queue; `Count` of a message queue is a number; the two kinds of pipelines differ, there is
at least one pipeline worker (`pipeline_worker_count` returns 1 or more), finitely many, and
the limit on builds is not 0; there is a host file, and the value for a missing file is none.

All safety proofs have one shape. An inductive invariant, a conjunction of named parts that
say where each actor is and what it has in hand there; one lemma per action, in which each
part the action can disturb is a step; the theorems follow.

### The scheduler

* `OSScheduler_proofs`: `TypesCorrect`, `PendingMaskExact`, `MutexesConsistent`. The last
  is the first part of `MutexOwnership`, and needs no hypothesis. The invariant is `Inv == TypeOK /\ PendingExact /\ MutexAgreement`. The types need the other
  two: `count` stays a natural number only because a mutex that is unlocked has been locked
  (its owner is on record), and the pending mask holds numbers of run queues only because it
  is exact. `Removing` and `Moving` carry the two operations on queues, `FramesBuilt` types
  the frames of a stack.
* `OSSchedulerThreads_proofs`: `ThreadsLinkedOnce`, `RunQueueArrayBounds`,
  `GuestCodeRunsAsRunning`, `ChoiceIsBest`, `TurnsAreKept`, for every mix of calls, and
  `NoThreadLost` and `NoJoinerLeft` under `Separate`. None of them is inductive. The
  invariant `IInv` adds to `Inv`: where a thread is linked, by its state (`Seated`); which
  frames may stand above which on a stack and what each says of its thread (`Fibers`); and
  that the context words name the executing thread unless SelectThread waits for one, and
  a thread that lost the processor has a frame that leads to SelectThread (`Hands`). `Hands`
  is what makes a half-done call come back as the RUNNING thread, whatever is nested in it.
  `Joins` says that where a thread has ended and has joiners, the executing fiber is about
  to wake them. `Separate` - mutexes and joins are not both used - leaves out
  the finding `exit_joiner`, where these two fail in the code.
  `TurnsAreKept` is an action property: no step moves a thread of a run queue ahead of one
  linked before it. It follows step by step from what each queue operation does to the
  order (`Turns`).
* `SleepersAreWoken`, in the same module: a sleeper of OSSleepTicks keeps a wakeup, under
  `Undisturbed` (no suspension, exit or cancellation). The invariant `Parks` is: no thread
  ends and only created ones have frames (`Live`); only a READY thread is suspended, and
  once (`Single`); a thread suspends itself right after it has made its park outstanding
  (`Parking`); and a parked, suspended thread is outstanding, on a list being healed, or
  being resumed (`Watched`). The hypothesis is needed: a suspension that is taken back after the park
  looks like the park, and a thread that ends or is cancelled while it heals drops the
  rest of its list (section 5).
* `OSMutexes_proofs`: `NoWaiterForgotten` for every mix of calls; `OwnershipKept` and
  `NoPriorityInversion` under `Once`, that is for programs in which no thread structure is
  used twice (threads are not joined or detached, so one that ended stays MORIBUND): where
  one is reused, the new thread starts with an empty list, whatever the old one still owned
  (`exit_joiner` again). `MInv` adds that the queue of a mutex is sorted, so that its head
  is the most urgent waiter (`Lines`), and that a fiber is never switched away between the
  test of the owner word and its sleep (`Sleepers`). `OInv` adds that an owned mutex is on
  its owner's list (`Owners`). `PInv` adds `Inherited`: the owner is as urgent as each
  waiter, or a promote or propagate frame on top of the executing fiber is about to make it
  so. That is the argument for chains of any length: each step of the walk hands the one
  pair that may be out of order on to the next owner, and no other pair is disturbed.

### Message queues

`OSMessageQueue_proofs`: `TypesCorrect`, `NoneStranded`, and `ImplementsDeque`, the
refinement of `BoundedDeque`: enqueueing appends, jamming prepends, dequeueing takes the
head of the mapped sequence, everything else leaves it alone. The arithmetic of the ring
is in `SlotOf`; `NoStranded` is inductive with `TypeOK`, because every change of the ring
wakes all sleepers of the opposite queue.

### NAND files

`NANDFile_proofs`: `TypesCorrect` for every program, with any handles open at once, from the
invariant that the live content of each file is one that may be on the disk (`Typed`);
`SavedSurvives` and `SessionsAreTransactions` under `OneSession`: the game opens a file for
writing under readers only. Two sessions that write share the name of the scratch file
(section 5). The invariant of these two says one structure writes at most (`OneWriter`); a
session in place has all it wrote in the file it is on, a shadow's scratch file holds what was saved and what was written and is no file any
directory calls the target, so that no crash can reach it half written (`Sessions`);
between rename and flush the target is on the disk as it is (`Renamed`). The refinement of
`TransactionalFile` maps a safe open to `Begin`, one in place to `BeginDirect`, a write to
`Put`, the commit of a shadow to `Publish`, any other close to `End`, the return of
the commit to `Settle` and a crash to `PowerLoss`; every other step stutters.

### The renderer

* `PipelineCache_proofs`: `TypesCorrect`, `PendingIsExact`, `QueuedIsCounted`,
  `WantedIsKept`, `NoneForgotten`, `DrawnWhenNeeded`, for any limit and any length of a
  frame. Every pending build has one place, a queue or a worker (`Builds`); `Places` says
  where each thread is and what it has in hand there; what a frame asked for is never among
  the builds the limit may evict (`Kept`). As long as the encoder has waited only for what
  was built or asked for, and while all workers sleep, whatever was asked for inside a frame
  is built (`Asked`), which is why one condition variable for two kinds of sleepers does not
  lose the wakeup that matters. `WantedIsKept` and `DrawnWhenNeeded` speak of pipelines
  asked for inside a frame, `NoneForgotten` of runs up to the first wait for another one,
  as the properties of section 2 do.
* `FramePipeline_proofs`: `TypesCorrect`, `NeverMixed`, `PicturesAreTrue`, `SurfaceKept`,
  `InOrder`, `NewestKept`, for any number of frames and of inserted slots. The two phases
  and the flags say where the worker is (`Phases`) and which waits the producer has passed
  (`Turns`); a command is in the FIFO, the recorded or the sealed frame, each of them of
  one frame only (`Drawn`); ImGui's one frame belongs to the producer or to the worker
  (`Overlays`); the jobs are in the order of their frames (`Grouped`, `Lined`), and the
  image of each is its own, since a new one is free or beyond the pool (`Pictures`).

### Only model-checked

Liveness under fairness is beyond the prover and stays with TLC: `RetraceNotStarved`,
`SleeperWakes`, `ProducerNeverStuck`, `FrameIsEncoded`. So do the properties the code
violates, each in its own run. Nothing is claimed that would need induction over data; no
module declares a recursive operator.

## 5. Findings

Disagreements of the code with its own comments, each a run that fails:

* `sleep_timer`: a timer is matched to its park by the shape of the thread alone
  (`os_sleep.cpp:146`, against the comments at 64-66 and 124-127), and OSCancelThread
  leaves timer and park behind (`os_thread.cpp:496`): the timer of a cancelled sleeper
  starts the thread that was created in its structure. A timer already collected as due
  may in the same way resume its thread out of a newer OSSleepTicks.
* `exit_joiner`: a thread that exits as owner of a contended mutex is switched away
  before it wakes its joiners and frees its other mutexes (`os_thread.cpp:244`, against
  224-225). With joined or detached threads, whose structures are used again,
  `MutexOwnership` fails for the same reason, so that `OwnershipKept` has the hypothesis
  `Once`, while its first part, `MutexAgreement`, holds of every program; `NoInversion` is
  about living owners for that reason too.
* `nand_close_retry`: a second NANDClose after a failed one reports success although the
  writes were dropped (`nand_api.cpp:194`, against 191-193). A second NANDSafeClose
  cannot succeed either, despite `nand_async.cpp:512`: its handle is gone, but it does
  say so.

* `pool`: a worker that wakes when its job is over reads the count of that job and claims
  indices of the next (`frame_interpolation.cpp:104`, against 125-126 and 55): the
  dispatcher may wait for ever, or the function be called past the end.
* `frame_optimistic`: begin_frame answers TRUE although the presenter has lost the surface
  and the worker has still to make it again; when that fails, the producer drains into no
  frame (`aurora.cpp:1870`, against 1868-1869).

Seen with the models, without a run of their own:

* the reconciler takes all stranded sleepers off the outstanding parks and then resumes
  them one by one from a list on its own fiber (`os_sleep.cpp:231-239`). A sleeper
  better than that thread takes the processor at once, and the others wait until it runs
  again; if it is cancelled, or was ending (the idle loop of its last SelectThread heals
  too), they are never resumed. The proof of `SleepersAreWoken` needs a hypothesis for it;
* two safe opens of one file share a scratch name, and the first close publishes the
  second's half-written scratch (`nand_async.cpp:443`); an in-place write under a live
  shadow is undone by the shadow's commit (`nand_api.cpp:100`); a failed flush of the
  directory is reported as success (`nand_async.cpp:290`). `Overlap` and `Fails` keep the
  first two out of the passing run;
* a GX draw decoded while no frame is open queues its pipeline in the background, and
  `cached_pipeline_state` (`command_processor.cpp:2294`) remembers the name; draws of later
  frames use it without asking, so the build may be thrown out at the limit, against
  `pipeline_cache.cpp:480-481` ("the recorded draw references this hash forever"). The
  encoder then ends the program or leaves the draw out; if the pipeline is asked for once
  more while the encoder is about to wait for it, the encoder may take the only
  notification and every worker sleeps on. `PipelineCache` has these behaviours; the ghost
  `unasked` records that the encoder has gone into such a wait, and the properties that
  give way to it say so;
* the alarm queue is not bound for this title (`os_internal.h:72`), so ProcessAlarmQueue
  returns at once and network completions and queued NAND callbacks are never drained
  (`os_alarm.cpp:237`, `242`), while the comments at `os_alarm.cpp:233-235` and
  `hle/net/network.h:17-18` describe the drains as live;
* the matching of the two frames to interpolate (`frame_interpolation.cpp`, about 852-1080)
  does not produce "the edge set ... identical either way" for the grid and the comparison
  of all pairs. It is floating-point code and not modelled.

## 6. Not modelled, and the plan

Not modelled for good: instruction semantics and the translator, signal processing and
GPU state, path strings, real time (the reasons are in `PROJECT.json`, component by
component). These are most of the source's lines, so the model covers a small share of
them: it covers the parts with a protocol in them.

Not modelled because nothing of it can happen: the completion pump (alarms, NAND
callbacks, network completions) and the deferred network operations behind it. A constant
switches the pump off; once it is bound for this title, its depth guards, which a fiber
switch in a handler leaves raised (`os_alarm.cpp:225`), are what to model first.

Not modelled because its other half is missing: task threads, whose queue lengths and jobs
are the game's; guest fibers beyond what the scheduler's stacks show.

Within the modelled parts: the database of the pipeline cache and its writer, captures and
readbacks of the frame pipeline, the scheduler's limit of 256 threads in a wakeup.

What is left to do, should the code or the interest change:

1. the completion pump, as said above, once the alarm queue is bound;
2. `SleeperHasWakeup` for programs with suspensions, by keeping apart in the model what the
   code cannot tell apart, a park and a suspension;
3. the database of the pipeline cache, whose writer races the shutdown;
4. captures, as a second consumer of the frame worker's readbacks.
