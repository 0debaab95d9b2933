------------------------ MODULE FramePipeline_proofs ------------------------
(* Frames are neither mixed nor shown out of order, for any number of       *)
(* frames and of inserted slots, whatever the window and the surface do.    *)
EXTENDS FramePipeline, SequenceLemmas

-----------------------------------------------------------------------------
(* The inductive invariant.                                                 *)

Job     == [frame : 1 .. MaxFrames, slot : Slot, image : Nat \ {0}]
Picture == [frame : 1 .. MaxFrames, true : BOOLEAN]
Written == [draws : Seq(Frame), overlay : 0 .. MaxFrames + 1]

ImGui   == [started : BOOLEAN, overlay : 0 .. MaxFrames + 1, data : 0 .. MaxFrames + 1]
Control == [stop : BOOLEAN, jobPending : BOOLEAN, sealed : BOOLEAN, ready : BOOLEAN,
            framePrepared : BOOLEAN, prepareAllowed : BOOLEAN]
Work    == [frame : 0 .. MaxFrames, draws : Seq(Frame), slots : Slot, group : Seq(Job),
            owed : BOOLEAN]
Prep    == [{"producer", "worker"} ->
              {"none", "check", "idle", "mutate", "state", "yes", "no"}]

FrameTypes ==
    /\ cur \in Frame /\ fifo \in Seq(Frame) /\ recorded \in Seq(Frame)
    /\ lost \in SUBSET Frame /\ wrote \in Written /\ ended \in Written

StageTypes == ctl \in Control /\ work \in Work /\ prep \in Prep

FlagTypes ==
    /\ booting \in BOOLEAN /\ frameActive \in BOOLEAN /\ open \in BOOLEAN
    /\ imgui \in ImGui

SurfaceTypes ==
    /\ window \in {"shown", "paused", "gone"}
    /\ reconfigure \in {"no", "reconfigure", "recreate"} /\ faults \in 0 .. MaxFaults

JobTypes == jobs \in Seq(Job) /\ current \in Job \cup {NoJob} /\ shown \in Job \cup {NoJob}

PoolTypes == pool \in [Slot -> Seq(Picture)]

Types == FrameTypes /\ StageTypes /\ FlagTypes /\ SurfaceTypes /\ JobTypes /\ PoolTypes

(* A frame that was ended and not sealed yet; a sealed one the worker has   *)
(* in hand; and the frames the worker may still enqueue a job of.           *)
Unsealed == ctl.jobPending \/ wpc = "seal"
InHand   == wpc \in {"publish", "permit", "prepare", "encode", "owed"}
Encoding == wpc \in {"permit", "prepare", "encode"} /\ work.slots > 0
Unqueued == Unsealed \/ wpc = "publish" \/ Encoding


(* What the two phases say of the worker, and who is past which point.      *)
Phases ==
    /\ wpc = "wait" => ctl.sealed = ~ctl.jobPending /\ ctl.ready = ~ctl.jobPending
    /\ wpc \in {"seal", "publish", "permit", "prepare"} => ~ctl.sealed
    /\ wpc = "publish" => work.slots = 0
    /\ wpc \in {"encode", "owed"} => ctl.sealed /\ ~ctl.ready /\ work.slots > 0
    /\ wpc \notin {"wait", "exiting", "exited"} => ~ctl.jobPending
    /\ ctl.ready => ctl.sealed
    /\ wpc \in {"exiting", "exited"} => ctl.stop
    /\ wpc \in {"wait", "seal", "exiting", "exited"} \/ InHand
    /\ prep["worker"] # "none" => wpc = "prepare"

Turns ==
    /\ ctl.stop => pc \in {"joinWorker", "joinPresenter", "down"}
    /\ pc = "beginSelf" => ctl.ready
    /\ prep["producer"] # "none" => pc = "beginSelf"
    /\ pc \in {"copy", "join", "end"} => cur <= MaxFrames
    /\ booting /\ (frameActive \/ pc \in {"begin", "beginWait", "beginSelf"})
         => cur <= MaxFrames
    /\ Unsealed \/ InHand => cur >= 2
    /\ pstop => wpc = "exited"
    /\ ppc = "exited" => pstop /\ jobs = << >>
    /\ ppc \in {"present", "hold"} <=> current # NoJob

(* The frames of the commands, on their way from the FIFO to the worker.    *)
Drawn ==
    /\ \A f \in Range(work.draws) : f = work.frame
    /\ InHand => work.frame = cur - 1 /\ (cur - 1 \in lost \/ work.draws = ended.draws)
    /\ Range(fifo) \subseteq {cur}
    /\ Unsealed =>
         /\ Range(recorded) \subseteq {cur - 1}
         /\ cur - 1 \in lost \/ recorded = ended.draws
         /\ fifo = wrote.draws
    /\ ~Unsealed =>
         /\ Range(recorded) \subseteq {cur}
         /\ cur \in lost \/ recorded \o fifo = wrote.draws

(* ImGui's one frame between the producer's and the worker's.               *)
Overlays ==
    /\ wrote.overlay # 0 => pc = "end" /\ ctl.ready
    /\ Unsealed /\ open => imgui.started /\ imgui.overlay = ended.overlay
    /\ wpc \in {"publish", "permit"} => ~open
    /\ wpc \in {"prepare", "encode", "owed"} /\ work.slots > 0 /\ open => work.owed
    /\ ~Unsealed /\ open /\ ~(InHand /\ work.slots > 0) =>
         imgui.started /\ imgui.overlay = wrote.overlay
    /\ Encoding => ~imgui.started /\ (cur - 1 \in lost \/ imgui.data = ended.overlay)

(* The jobs, from the one shown last to the one encoded last.               *)
Grouped ==
    /\ Len(work.group) <= work.slots + 1
    /\ work.group # << >> => wpc \in {"publish", "encode"}
    /\ wpc = "publish" => Len(work.group) = work.slots + 1
    /\ \A i \in 1 .. Len(work.group) :
          work.group[i].frame = work.frame /\ work.group[i].slot = i - 1

Lined ==
    /\ \A i, k \in 1 .. Len(jobs) : i < k => Later(jobs[k], jobs[i])
    /\ \A j \in Range(jobs) : Later(j, current) /\ Later(j, shown)
    /\ current # NoJob => Later(current, shown)
    /\ \A j \in Range(jobs) \cup {current, shown} :
          j.frame < cur /\ (Unqueued => j.frame < cur - 1)
    /\ Len(jobs) <= 3 * Group

(* The images of the jobs.                                                  *)
Imaged(j) == j.image \in DOMAIN pool[j.slot] /\ pool[j.slot][j.image].frame = j.frame
Faithful(j) == j.frame \in lost \/ pool[j.slot][j.image].true

Pictures == \A j \in Held \ {NoJob} : Imaged(j) /\ Faithful(j)

IInv == Types /\ Phases /\ Turns /\ Drawn /\ Overlays /\ Grouped /\ Lined /\ Pictures

-----------------------------------------------------------------------------
(* Sequences.                                                               *)

LEMMA RangeOfAppend ==
    ASSUME NEW S, NEW s \in Seq(S), NEW e \in S
    PROVE  /\ Append(s, e) \in Seq(S) /\ Len(Append(s, e)) = Len(s) + 1
           /\ Range(Append(s, e)) = Range(s) \cup {e}
           /\ \A i \in 1 .. Len(s) : Append(s, e)[i] = s[i]
           /\ Append(s, e)[Len(s) + 1] = e
<1> DEFINE a == Append(s, e)
<1>1. /\ a \in Seq(S) /\ Len(a) = Len(s) + 1 /\ a[Len(s) + 1] = e
      /\ \A i \in 1 .. Len(s) : a[i] = s[i]
  BY AppendProperties
<1> HIDE DEF a
<1>2. /\ Len(s) \in Nat /\ Range(a) = {a[i] : i \in 1 .. Len(s) + 1}
      /\ Range(s) = {s[i] : i \in 1 .. Len(s)}
  BY <1>1, InRange
<1>3. Range(a) = Range(s) \cup {e}
  BY <1>1, <1>2
<1> QED
  BY <1>1, <1>3 DEF a

LEMMA RangeOfConcat ==
    ASSUME NEW S, NEW s \in Seq(S), NEW t \in Seq(S)
    PROVE  /\ s \o t \in Seq(S) /\ Len(s \o t) = Len(s) + Len(t)
           /\ Range(s \o t) = Range(s) \cup Range(t)
           /\ \A i \in 1 .. Len(s) : (s \o t)[i] = s[i]
           /\ \A i \in 1 .. Len(t) : (s \o t)[Len(s) + i] = t[i]
           /\ \A i \in 1 .. Len(s \o t) :
                 i \in 1 .. Len(s) \/ \E k \in 1 .. Len(t) : i = Len(s) + k
<1>1. /\ s \o t \in Seq(S) /\ Len(s \o t) = Len(s) + Len(t)
      /\ \A i \in 1 .. Len(s) + Len(t) :
            (s \o t)[i] = IF i <= Len(s) THEN s[i] ELSE t[i - Len(s)]
  BY ConcatProperties
<1>2. PICK m \in Nat, n \in Nat : m = Len(s) /\ n = Len(t)
  BY LenProperties
<1>3. \A i \in 1 .. m + n : i \in 1 .. m \/ \E k \in 1 .. n : i = m + k
  <2>1. \A i \in 1 .. m + n : i > m => i - m \in 1 .. n /\ i = m + (i - m)
    OBVIOUS
  <2> QED
    BY <2>1
<1>4. Range(s \o t) = Range(s) \cup Range(t)
  BY RangeConcatenation
<1> QED
  BY <1>1, <1>2, <1>3, <1>4

LEMMA RangeOfTail ==
    ASSUME NEW S, NEW s \in Seq(S), s # << >>
    PROVE  /\ Tail(s) \in Seq(S) /\ Head(s) \in S /\ Head(s) = s[1] /\ Len(s) >= 1
           /\ Len(Tail(s)) = Len(s) - 1
           /\ Range(s) = Range(Tail(s)) \cup {Head(s)}
           /\ \A i \in 1 .. Len(s) - 1 : Tail(s)[i] = s[i + 1]
<1> DEFINE r == Tail(s)
<1>1. /\ r \in Seq(S) /\ Head(s) \in S /\ Len(r) = Len(s) - 1
      /\ \A i \in 1 .. Len(r) : r[i] = s[i + 1]
  BY HeadTailProperties
<1>2. Head(s) = s[1] /\ Len(s) \in Nat \ {0}
  BY EmptySeq, LenProperties
<1> HIDE DEF r
<1>3. Range(s) = {s[i] : i \in 1 .. Len(s)} /\ Range(r) = {r[i] : i \in 1 .. Len(s) - 1}
  BY <1>1, InRange
<1>4. Range(s) = Range(r) \cup {Head(s)}
  <2>1. \A i \in 1 .. Len(s) : i = 1 \/ (i - 1 \in 1 .. Len(s) - 1 /\ s[i] = r[i - 1])
    BY <1>1, <1>2
  <2>2. \A i \in 1 .. Len(s) - 1 : i + 1 \in 1 .. Len(s) /\ r[i] = s[i + 1]
    BY <1>1, <1>2
  <2>3. 1 \in 1 .. Len(s)
    BY <1>2
  <2>4. \A x \in Range(s) : x \in Range(r) \/ x = Head(s)
    BY <2>1, <1>2, <1>3
  <2>5. \A x \in Range(r) : x \in Range(s)
    BY <2>2, <1>3
  <2> QED
    BY <2>3, <2>4, <2>5, <1>2, <1>3
<1> QED
  BY <1>1, <1>2, <1>4 DEF r

LEMMA RangeOfOne ==
    ASSUME NEW S, NEW e \in S
    PROVE  <<e>> \in Seq(S) /\ Len(<<e>>) = 1 /\ <<e>>[1] = e /\ Range(<<e>>) = {e}
<1>1. <<e>> \in Seq(S) /\ Len(<<e>>) = 1 /\ <<e>>[1] = e
  OBVIOUS
<1>2. Range(<<e>>) = {<<e>>[i] : i \in 1 .. 1}
  BY <1>1, InRange
<1> QED
  BY <1>1, <1>2

-----------------------------------------------------------------------------
(* Images.                                                                  *)

USE BoundsAssumption

LEMMA Acquired ==
    ASSUME PoolTypes, NEW s \in Slot
    PROVE  /\ acquire_presentation_image(s) \in 1 .. Len(pool[s]) + 1
           /\ acquire_presentation_image(s) \in Nat \ {0}
           /\ \/ acquire_presentation_image(s) \in FreeImages(s)
              \/ acquire_presentation_image(s) = Len(pool[s]) + 1
<1>1. Len(pool[s]) \in Nat /\ DOMAIN pool[s] = 1 .. Len(pool[s])
  BY LenProperties DEF PoolTypes
<1>2. FreeImages(s) \subseteq 1 .. Len(pool[s])
  BY <1>1 DEF FreeImages
<1>3. CASE FreeImages(s) = {}
  BY <1>1, <1>3 DEF acquire_presentation_image
<1>4. CASE FreeImages(s) # {}
  <2>1. FreeImages(s) \in SUBSET Nat
    BY <1>1, <1>2
  <2>2. \E i \in FreeImages(s) : \A k \in FreeImages(s) : i <= k
    BY <2>1, <1>4, LeastNumber
  <2>3. acquire_presentation_image(s) \in FreeImages(s)
    BY <2>2, <1>4 DEF acquire_presentation_image
  <2> QED
    BY <2>3, <1>1, <1>2
<1> QED
  BY <1>3, <1>4

(* Painting an image changes that image only.                               *)
LEMMA PaintedImage ==
    ASSUME PoolTypes, NEW s \in Slot, NEW i \in 1 .. Len(pool[s]) + 1, NEW picture \in Picture
    PROVE  /\ Painted(s, i, picture) \in [Slot -> Seq(Picture)]
           /\ i \in DOMAIN Painted(s, i, picture)[s]
           /\ Painted(s, i, picture)[s][i] = picture
           /\ \A r \in Slot : DOMAIN pool[r] \subseteq DOMAIN Painted(s, i, picture)[r]
           /\ \A r \in Slot : \A k \in DOMAIN pool[r] :
                 ~(r = s /\ k = i) => Painted(s, i, picture)[r][k] = pool[r][k]
<1> DEFINE n == Len(pool[s])
           m == IF i > n THEN i ELSE n
           p == [k \in 1 .. m |-> IF k = i THEN picture ELSE pool[s][k]]
<1>1. n \in Nat /\ DOMAIN pool[s] = 1 .. n /\ \A k \in 1 .. n : pool[s][k] \in Picture
  BY InRange DEF PoolTypes
<1>2. m \in Nat /\ 1 .. n \subseteq 1 .. m /\ i \in 1 .. m /\ \A k \in 1 .. m : k # i => k \in 1 .. n
  BY <1>1
<1>3. Painted(s, i, picture) = [pool EXCEPT ![s] = p]
  BY DEF Painted, PoolTypes
<1> HIDE DEF m
<1>4. p \in [1 .. m -> Picture]
  BY <1>1, <1>2
<1>5. p \in Seq(Picture)
  BY <1>2, <1>4, SeqDef
<1>6. DOMAIN p = 1 .. m /\ p[i] = picture /\ \A k \in 1 .. m : k # i => p[k] = pool[s][k]
  BY <1>2
<1> HIDE DEF p
<1>7. Painted(s, i, picture) \in [Slot -> Seq(Picture)]
  BY <1>3, <1>5 DEF PoolTypes
<1>8. Painted(s, i, picture)[s] = p /\ \A r \in Slot : r # s => Painted(s, i, picture)[r] = pool[r]
  BY <1>3 DEF PoolTypes
<1> QED
  BY <1>1, <1>2, <1>6, <1>7, <1>8

(* The picture the worker paints next is typed.                             *)
LEMMA PaintedPicture ==
    ASSUME NEW w, w.frame \in 1 .. MaxFrames
    PROVE  PictureOf(w) \in Picture
BY DEF PictureOf, Picture

LEMMA RenderedTypes ==
    ASSUME imgui \in ImGui
    PROVE  /\ Rendered \in ImGui /\ NewFrame \in ImGui
           /\ ~Rendered.started
           /\ imgui.started => Rendered.data = imgui.overlay
           /\ ~imgui.started => Rendered.data = imgui.data
           /\ NewFrame.started /\ NewFrame.overlay = 0
<1>1. 0 \in 0 .. MaxFrames + 1 /\ imgui.overlay \in 0 .. MaxFrames + 1
  BY DEF ImGui
<1>2. NewFrame.started = TRUE /\ NewFrame.overlay = 0 /\ NewFrame \in ImGui
  BY <1>1 DEF NewFrame, ImGui
<1>3. /\ Rendered \in ImGui /\ ~Rendered.started
      /\ imgui.started => Rendered.data = imgui.overlay
      /\ ~imgui.started => Rendered.data = imgui.data
  BY <1>1 DEF Rendered, ImGui
<1> QED
  BY <1>2, <1>3

-----------------------------------------------------------------------------
(* The actions, by what they change.                                        *)

(* The producer goes from one place to another.                             *)
Goings ==
    \/ GX__CopyDisp \/ PresentUnpaced \/ BootEnds \/ BootIsOver
    \/ EnsureAuroraFrameActive \/ stop_frame_worker \/ stop_presenter
    \/ begin_frame \/ BeginJoinsWorker \/ BeginPrepared

(* The window and the surface change.                                       *)
Surfaces(t) == ChecksSurface(t) \/ wait_for_presenter_idle(t) \/ MutatesSurface(t)

Outside == WindowChanges \/ WindowResized

(* The worker goes from one place to another.                               *)
Cycles == WorkerWakes \/ WorkerIsAllowed \/ WorkerPrepared \/ WorkerExits

LEMMA Steps ==
    Next <=>
      \/ WriteCommand \/ drain \/ DrawOverlay \/ end_frame \/ Goings \/ ShutDown
      \/ (\E t \in {"producer", "worker"} : Surfaces(t) \/ begin_frame_render_state(t))
      \/ Outside \/ Cycles \/ (\E n \in Slot : seal_frame_locked(n)) \/ encode_sealed_frame
      \/ enqueue_presentations \/ WorkerIsDone \/ Presenter \/ IsDown
BY DEF Next, Decisions, Producer, Worker, Goings, Surfaces, Outside, Cycles, begin_frame_impl


-----------------------------------------------------------------------------
(* Types.                                                                   *)

LEMMA SameTypes ==
    /\ FrameTypes /\ UNCHANGED <<cur, fifo, recorded, lost, wrote, ended>> => FrameTypes'
    /\ StageTypes /\ UNCHANGED <<ctl, work, prep>> => StageTypes'
    /\ FlagTypes /\ UNCHANGED <<booting, frameActive, open, imgui>> => FlagTypes'
    /\ SurfaceTypes /\ UNCHANGED <<window, reconfigure, faults>> => SurfaceTypes'
    /\ JobTypes /\ UNCHANGED <<jobs, current, shown>> => JobTypes'
    /\ PoolTypes /\ UNCHANGED pool => PoolTypes'
BY DEF FrameTypes, StageTypes, FlagTypes, SurfaceTypes, JobTypes, PoolTypes

LEMMA ProducerTypes ==
    ASSUME IInv, WriteCommand \/ drain \/ DrawOverlay \/ end_frame \/ Goings \/ ShutDown
    PROVE  Types'
<1>1. FrameTypes /\ StageTypes /\ FlagTypes /\ SurfaceTypes /\ JobTypes /\ PoolTypes /\ Turns
  BY DEF IInv, Types
<1>2. CASE WriteCommand
  <2>1. Append(fifo, cur) \in Seq(Frame) /\ Append(wrote.draws, cur) \in Seq(Frame)
    BY <1>1, AppendProperties DEF FrameTypes, Written
  <2>2. wrote' = [wrote EXCEPT !.draws = Append(wrote.draws, cur)] /\ fifo' = Append(fifo, cur)
    BY <1>2 DEF WriteCommand
  <2>3. UNCHANGED <<cur, recorded, lost, ended>>
    BY <1>2 DEF WriteCommand, renderVars
  <2>4. FrameTypes'
    BY <1>1, <2>1, <2>2, <2>3 DEF FrameTypes, Written
  <2>5. UNCHANGED <<ctl, work, prep, booting, frameActive, open, imgui, window, reconfigure, faults,
                    jobs, current, shown, pool>>
    BY <1>2 DEF WriteCommand, renderVars, workerVars, surfaceVars, presentVars
  <2> QED
    BY <1>1, <2>4, <2>5, SameTypes DEF Types
<1>3. CASE drain
  <2>1. Decode /\ UNCHANGED <<cur, wrote, ended>>
    BY <1>3 DEF drain
  <2>2. /\ fifo' \in Seq(Frame) /\ recorded' \in Seq(Frame) /\ lost' \in SUBSET Frame
    BY <1>1, <2>1, InRange, ConcatProperties DEF Decode, FrameTypes
  <2>3. FrameTypes'
    BY <1>1, <2>1, <2>2 DEF FrameTypes
  <2>4. UNCHANGED <<ctl, work, prep, booting, frameActive, open, imgui, window, reconfigure, faults,
                    jobs, current, shown, pool>>
    BY <1>3 DEF drain, workerVars, surfaceVars, presentVars
  <2> QED
    BY <1>1, <2>3, <2>4, SameTypes DEF Types
<1>4. CASE DrawOverlay
  <2>1. cur \in 0 .. MaxFrames + 1
    BY <1>1 DEF FrameTypes, Frame
  <2>2. /\ wrote' = [wrote EXCEPT !.overlay = cur]
        /\ imgui' = IF imgui.started THEN [imgui EXCEPT !.overlay = cur] ELSE imgui
        /\ UNCHANGED <<cur, fifo, recorded, lost, ended, booting, frameActive, open>>
    BY <1>4 DEF DrawOverlay
  <2>3. FrameTypes'
    BY <1>1, <2>1, <2>2 DEF FrameTypes, Written
  <2>4. FlagTypes'
    BY <1>1, <2>1, <2>2 DEF FlagTypes, ImGui
  <2>5. UNCHANGED <<ctl, work, prep, window, reconfigure, faults, jobs, current, shown, pool>>
    BY <1>4 DEF DrawOverlay, workerVars, surfaceVars, presentVars
  <2> QED
    BY <1>1, <2>3, <2>4, <2>5, SameTypes DEF Types
<1>5. CASE end_frame
  <2>1. /\ Decode /\ cur' = cur + 1 /\ ended' = wrote /\ wrote' = Nothing /\ frameActive' = FALSE
        /\ UNCHANGED <<booting, open, imgui>> /\ cur <= MaxFrames
    BY <1>1, <1>5 DEF end_frame, Turns
  <2>2. fifo' \in Seq(Frame) /\ recorded' \in Seq(Frame) /\ lost' \in SUBSET Frame
    BY <1>1, <2>1, InRange, ConcatProperties DEF Decode, FrameTypes
  <2>3. cur' \in Frame /\ Nothing \in Written
    BY <1>1, <2>1 DEF FrameTypes, Frame, Nothing, Written
  <2>4. FrameTypes'
    BY <1>1, <2>1, <2>2, <2>3 DEF FrameTypes
  <2>5. FlagTypes'
    BY <1>1, <2>1 DEF FlagTypes
  <2>6. HandedOver \in Control
    BY <1>1 DEF HandedOver, StageTypes, Control
  <2>7. StageTypes'
    BY <1>1, <1>5, <2>6 DEF StageTypes, end_frame, workerVars
  <2>8. UNCHANGED <<window, reconfigure, faults, jobs, current, shown, pool>>
    BY <1>5 DEF end_frame, surfaceVars, presentVars
  <2> QED
    BY <1>1, <2>4, <2>5, <2>7, <2>8, SameTypes DEF Types
<1>6. CASE Goings
  <2>1. ctl' \in Control
    BY <1>1, <1>6 DEF Goings, GX__CopyDisp, PresentUnpaced, BootEnds, BootIsOver, EnsureAuroraFrameActive,
       stop_frame_worker, stop_presenter, begin_frame, BeginJoinsWorker, BeginPrepared, StageTypes, Control
  <2>2. prep' \in Prep /\ work' = work
    BY <1>1, <1>6 DEF Goings, GX__CopyDisp, PresentUnpaced, BootEnds, BootIsOver, EnsureAuroraFrameActive,
       stop_frame_worker, stop_presenter, begin_frame, BeginJoinsWorker, BeginPrepared, StageTypes, Prep,
       workerVars
  <2>3. booting' \in BOOLEAN /\ frameActive' \in BOOLEAN /\ UNCHANGED <<open, imgui>>
    BY <1>1, <1>6 DEF Goings, GX__CopyDisp, PresentUnpaced, BootEnds, BootIsOver, EnsureAuroraFrameActive,
       stop_frame_worker, stop_presenter, begin_frame, BeginJoinsWorker, BeginPrepared, FlagTypes,
       StageTypes, Control, Returns, renderVars
  <2>4. UNCHANGED <<cur, fifo, recorded, lost, wrote, ended, window, reconfigure, faults,
                    jobs, current, shown, pool>>
    BY <1>6 DEF Goings, GX__CopyDisp, PresentUnpaced, BootEnds, BootIsOver, EnsureAuroraFrameActive,
       stop_frame_worker, stop_presenter, begin_frame, BeginJoinsWorker, BeginPrepared, renderVars,
       surfaceVars, presentVars, ghostVars
  <2>5. StageTypes' /\ FlagTypes'
    BY <1>1, <2>1, <2>2, <2>3 DEF StageTypes, FlagTypes
  <2> QED
    BY <1>1, <2>4, <2>5, SameTypes DEF Types
<1>7. CASE ShutDown
  <2>1. JobTypes'
    BY <1>1, <1>7 DEF ShutDown, JobTypes
  <2>2. UNCHANGED <<cur, fifo, recorded, lost, wrote, ended, ctl, work, prep, booting, frameActive, open,
                    imgui, window, reconfigure, faults, pool>>
    BY <1>7 DEF ShutDown, renderVars, workerVars, surfaceVars, ghostVars
  <2> QED
    BY <1>1, <2>1, <2>2, SameTypes DEF Types
<1> QED
  BY <1>2, <1>3, <1>4, <1>5, <1>6, <1>7

LEMMA SurfaceStepTypes ==
    ASSUME IInv, Outside \/ \E t \in {"producer", "worker"} : Surfaces(t) \/ begin_frame_render_state(t)
    PROVE  Types'
<1>1. FrameTypes /\ StageTypes /\ FlagTypes /\ SurfaceTypes /\ JobTypes /\ PoolTypes
  BY DEF IInv, Types
<1>2. ASSUME NEW t \in {"producer", "worker"}, Surfaces(t) PROVE Types'
  <2>1. SurfaceTypes'
    BY <1>1, <1>2 DEF Surfaces, ChecksSurface, wait_for_presenter_idle, MutatesSurface, Mutates, Works,
       Fails, SurfaceTypes, surfaceVars
  <2>2. prep' \in Prep
    BY <1>1, <1>2 DEF Surfaces, ChecksSurface, wait_for_presenter_idle, MutatesSurface, Mutates, Prepares,
       StageTypes, Prep
  <2>3. UNCHANGED <<cur, fifo, recorded, lost, wrote, ended, ctl, work, booting, frameActive, open, imgui,
                    jobs, current, shown, pool>>
    BY <1>2 DEF Surfaces, ChecksSurface, wait_for_presenter_idle, MutatesSurface, Mutates,
       producerVars, renderVars, workerVars, presentVars, ghostVars
  <2>4. StageTypes'
    BY <1>1, <2>2, <2>3 DEF StageTypes
  <2> QED
    BY <1>1, <2>1, <2>3, <2>4, SameTypes DEF Types
<1>3. ASSUME NEW t \in {"producer", "worker"}, begin_frame_render_state(t) PROVE Types'
  <2>1. /\ imgui' = (IF Deferred(t) THEN imgui ELSE NewFrame) /\ open' \in {open, TRUE}
        /\ UNCHANGED <<booting, frameActive>>
    BY <1>3 DEF begin_frame_render_state, producerVars
  <2>2. FlagTypes'
    BY <1>1, <2>1, RenderedTypes DEF FlagTypes
  <2>3. /\ work' = [work EXCEPT !.owed = work.owed \/ Deferred(t)] /\ ctl' = ctl
        /\ \E to \in {"yes", "no"} : prep' = [prep EXCEPT ![t] = to]
    BY <1>3 DEF begin_frame_render_state, Prepares
  <2>4. prep' \in Prep
    BY <1>1, <2>3 DEF StageTypes, Prep
  <2>5. work' \in Work
    BY <1>1, <2>3 DEF StageTypes, Work
  <2>6. StageTypes'
    BY <1>1, <2>3, <2>4, <2>5 DEF StageTypes
  <2>7. SurfaceTypes'
    BY <1>1, <1>3 DEF begin_frame_render_state, SurfaceTypes, Works, Fails, surfaceVars
  <2>8. UNCHANGED <<cur, fifo, recorded, lost, wrote, ended, jobs, current, shown, pool>>
    BY <1>3 DEF begin_frame_render_state, producerVars, presentVars, ghostVars
  <2> QED
    BY <1>1, <2>2, <2>6, <2>7, <2>8, SameTypes DEF Types
<1>4. ASSUME Outside PROVE Types'
  <2>1. SurfaceTypes'
    BY <1>1, <1>4 DEF Outside, WindowChanges, WindowResized, Fails, SurfaceTypes
  <2>2. UNCHANGED <<cur, fifo, recorded, lost, wrote, ended, ctl, work, prep, booting, frameActive, open,
                    imgui, jobs, current, shown, pool>>
    BY <1>4 DEF Outside, WindowChanges, WindowResized, producerVars, renderVars, workerVars, presentVars,
       ghostVars
  <2> QED
    BY <1>1, <2>1, <2>2, SameTypes DEF Types
<1> QED
  BY <1>2, <1>3, <1>4

LEMMA PresenterTypes ==
    ASSUME IInv, Presenter
    PROVE  Types'
<1>1. FrameTypes /\ StageTypes /\ FlagTypes /\ SurfaceTypes /\ JobTypes /\ PoolTypes
  BY DEF IInv, Types
<1>2. ASSUME PresenterTakes PROVE Tail(jobs) \in Seq(Job) /\ Head(jobs) \in Job
  BY <1>1, <1>2, HeadTailProperties DEF PresenterTakes, JobTypes
<1>3. JobTypes'
  BY <1>1, <1>2 DEF Presenter, PresenterTakes, PresenterSkips, acquire_surface_texture, Presents,
     PresenterExits, JobTypes
<1>4. SurfaceTypes'
  BY <1>1 DEF Presenter, PresenterTakes, PresenterSkips, acquire_surface_texture, Presents,
     PresenterExits, SurfaceTypes, Works, Fails, Requested, surfaceVars
<1>5. UNCHANGED <<cur, fifo, recorded, lost, wrote, ended, booting, frameActive, open, imgui, ctl, work,
                  prep, pool>>
  BY DEF Presenter, PresenterTakes, PresenterSkips, acquire_surface_texture, Presents,
     PresenterExits, producerVars, renderVars, workerVars, ghostVars
<1> QED
  BY <1>1, <1>3, <1>4, <1>5, SameTypes DEF Types

(* What sealing leaves in the worker's hands, and the image it paints.      *)
Sealed(n) == [Idle EXCEPT !.frame = cur - 1, !.draws = recorded, !.slots = n]
First == acquire_presentation_image(0)

LEMMA Seals ==
    ASSUME FrameTypes, PoolTypes, Turns, NEW n \in Slot, seal_frame_locked(n)
    PROVE  /\ wpc = "seal" /\ wpc' = IF n = 0 THEN "publish" ELSE "permit"
           /\ cur - 1 \in 1 .. MaxFrames /\ cur - 1 \in Frame /\ 0 \in Slot
           /\ Sealed(n).frame = cur - 1 /\ Sealed(n).draws = recorded /\ Sealed(n).slots = n
           /\ Sealed(n) \in Work /\ Sealed(n).group = << >>
           /\ JobOf(Sealed(n), First) = [frame |-> cur - 1, slot |-> 0, image |-> First]
           /\ JobOf(Sealed(n), First) \in Job /\ PictureOf(Sealed(n)) \in Picture
           /\ n = 0 => /\ work' = [Sealed(n) EXCEPT !.group = <<JobOf(Sealed(n), First)>>]
                       /\ pool' = Painted(0, First, PictureOf(Sealed(n)))
           /\ n # 0 => work' = Sealed(n) /\ pool' = pool
           /\ imgui' = Rendered /\ recorded' = << >> /\ open' = FALSE
           /\ lost' = IF open THEN lost ELSE lost \cup {cur - 1}
           /\ UNCHANGED <<pc, cur, fifo, wrote, ended, booting, frameActive, ctl, prep, window, sizeOk,
                          surface, reconfigure, jobs, current, texture, pstop, ppc, shown, faults>>
<1>1. wpc = "seal" /\ cur \in 1 .. MaxFrames + 1 /\ recorded \in Seq(Frame)
  BY DEF seal_frame_locked, FrameTypes, Frame
<1>2. cur - 1 \in 1 .. MaxFrames /\ cur - 1 \in Frame /\ 0 \in Slot
  BY <1>1 DEF Turns, Unsealed, Frame, Slot
<1>3. /\ Sealed(n).frame = cur - 1 /\ Sealed(n).draws = recorded /\ Sealed(n).slots = n
      /\ Sealed(n) \in Work /\ Sealed(n).group = << >>
  <2>1. cur - 1 \in 0 .. MaxFrames /\ << >> \in Seq(Job) /\ << >> \in Seq(Frame) /\ 0 \in 0 .. MaxFrames
    BY <1>2
  <2>2. Idle \in Work /\ Idle.group = << >>
    BY <1>2, <2>1 DEF Idle, Work
  <2>3. Sealed(n) \in Work
    BY <1>1, <2>1, <2>2 DEF Sealed, Work
  <2>4. Sealed(n).frame = cur - 1 /\ Sealed(n).draws = recorded /\ Sealed(n).slots = n
    BY <2>2 DEF Sealed, Work
  <2>5. Sealed(n).group = << >>
    BY <2>2 DEF Sealed
  <2> QED
    BY <2>3, <2>4, <2>5
<1>4. First \in Nat \ {0}
  BY <1>2, Acquired DEF First
<1>5. /\ JobOf(Sealed(n), First) = [frame |-> cur - 1, slot |-> 0, image |-> First]
      /\ JobOf(Sealed(n), First) \in Job
  BY <1>2, <1>3, <1>4 DEF JobOf, Job
<1>6. PictureOf(Sealed(n)) \in Picture
  BY <1>2, <1>3, PaintedPicture
<1>7. /\ n = 0 => /\ work' = [Sealed(n) EXCEPT !.group = <<JobOf(Sealed(n), First)>>]
                  /\ pool' = Painted(0, First, PictureOf(Sealed(n)))
      /\ n # 0 => work' = Sealed(n) /\ pool' = pool
      /\ wpc' = IF n = 0 THEN "publish" ELSE "permit"
  BY DEF seal_frame_locked, Sealed, First, WorkerGoes
<1>8. /\ imgui' = Rendered /\ recorded' = << >> /\ open' = FALSE
      /\ lost' = IF open THEN lost ELSE lost \cup {cur - 1}
      /\ UNCHANGED <<pc, cur, fifo, wrote, ended, booting, frameActive, ctl, prep, window, sizeOk,
                     surface, reconfigure, jobs, current, texture, pstop, ppc, shown, faults>>
  BY DEF seal_frame_locked, producerVars, surfaceVars
<1> QED
  BY <1>1, <1>2, <1>3, <1>5, <1>6, <1>7, <1>8

(* What encoding one slot adds.                                             *)
EncodedSlot == Len(work.group)
EncodedImage == acquire_presentation_image(EncodedSlot)

LEMMA Encodes ==
    ASSUME FrameTypes, StageTypes, PoolTypes, Turns, Drawn, encode_sealed_frame
    PROVE  /\ wpc = "encode" /\ EncodedSlot \in Slot /\ EncodedSlot <= work.slots
           /\ work.frame = cur - 1 /\ work.frame \in 1 .. MaxFrames
           /\ JobOf(work, EncodedImage) = [frame |-> cur - 1, slot |-> EncodedSlot, image |-> EncodedImage]
           /\ JobOf(work, EncodedImage) \in Job /\ PictureOf(work) \in Picture
           /\ work' = [work EXCEPT !.group = Append(work.group, JobOf(work, EncodedImage))]
           /\ pool' = Painted(EncodedSlot, EncodedImage, PictureOf(work))
           /\ imgui' = Rendered
           /\ UNCHANGED <<pc, cur, fifo, recorded, open, lost, wrote, ended, booting, frameActive, ctl, wpc,
                          prep, window, sizeOk, surface, reconfigure, jobs, current, texture, pstop, ppc,
                          shown, faults>>
<1>1. wpc = "encode" /\ cur \in 1 .. MaxFrames + 1 /\ work \in Work /\ EncodedSlot <= work.slots
  BY DEF encode_sealed_frame, FrameTypes, StageTypes, Frame, EncodedSlot
<1>2. work.frame = cur - 1 /\ cur - 1 \in 1 .. MaxFrames
  BY <1>1 DEF Drawn, Turns, InHand
<1>3. EncodedSlot \in Slot
  <2>1. EncodedSlot \in Nat /\ work.slots \in 0 .. MaxInterpolatedFrames
    BY <1>1, LenProperties DEF Work, EncodedSlot, Slot
  <2> QED
    BY <1>1, <2>1 DEF Slot
<1>4. EncodedImage \in Nat \ {0}
  BY <1>3, Acquired DEF EncodedImage
<1>5. /\ JobOf(work, EncodedImage) = [frame |-> cur - 1, slot |-> EncodedSlot, image |-> EncodedImage]
      /\ JobOf(work, EncodedImage) \in Job
  BY <1>2, <1>3, <1>4 DEF JobOf, Job, EncodedSlot
<1>6. PictureOf(work) \in Picture
  BY <1>2, PaintedPicture
<1>7. /\ work' = [work EXCEPT !.group = Append(work.group, JobOf(work, EncodedImage))]
      /\ pool' = Painted(EncodedSlot, EncodedImage, PictureOf(work)) /\ imgui' = Rendered
  BY DEF encode_sealed_frame, EncodedSlot, EncodedImage
<1>8. UNCHANGED <<pc, cur, fifo, recorded, open, lost, wrote, ended, booting, frameActive, ctl, wpc,
                  prep, window, sizeOk, surface, reconfigure, jobs, current, texture, pstop, ppc,
                  shown, faults>>
  BY DEF encode_sealed_frame, producerVars, surfaceVars, ghostVars
<1> QED
  BY <1>1, <1>2, <1>3, <1>5, <1>6, <1>7, <1>8

LEMMA WorkerTypes ==
    ASSUME IInv, Worker
    PROVE  Types'
<1>1. /\ FrameTypes /\ StageTypes /\ FlagTypes /\ SurfaceTypes /\ JobTypes /\ PoolTypes
      /\ Turns /\ Drawn
  BY DEF IInv, Types
<1>2. CASE Cycles
  <2>1. ctl' \in Control /\ prep' \in Prep /\ work' = work
    <3>0. ctl \in Control /\ prep \in Prep
      BY <1>1 DEF StageTypes
    <3>1. CASE WorkerWakes
      BY <3>0, <3>1 DEF WorkerWakes, Control
    <3>2. CASE WorkerIsAllowed
      <4>1. /\ ctl' = ctl \/ ctl' = [ctl EXCEPT !.prepareAllowed = FALSE]
            /\ prep' = prep \/ prep' = [prep EXCEPT !["worker"] = "check"]
            /\ work' = work
        BY <3>2 DEF WorkerIsAllowed
      <4>2. prep' \in Prep
        BY <3>0, <4>1 DEF Prep
      <4>3. ctl' \in Control
        BY <3>0, <4>1 DEF Control
      <4> QED
        BY <4>1, <4>2, <4>3
    <3>3. CASE WorkerPrepared
      <4>1. /\ ctl' = [ctl EXCEPT !.framePrepared = (prep["worker"] = "yes"), !.sealed = TRUE,
                                  !.ready = ctl.ready \/ work.slots = 0]
            /\ prep' = [prep EXCEPT !["worker"] = "none"] /\ work' = work
        BY <3>3 DEF WorkerPrepared
      <4>2. prep' \in Prep
        BY <3>0, <4>1 DEF Prep
      <4>3. ctl' \in Control
        BY <3>0, <4>1 DEF Control
      <4> QED
        BY <4>1, <4>2, <4>3
    <3>4. CASE WorkerExits
      BY <3>0, <3>4 DEF WorkerExits, Control
    <3> QED
      BY <1>2, <3>1, <3>2, <3>3, <3>4 DEF Cycles
  <2>2. UNCHANGED <<cur, fifo, recorded, lost, wrote, ended, booting, frameActive, open, imgui,
                    window, reconfigure, faults, jobs, current, shown, pool>>
    BY <1>2 DEF Cycles, WorkerWakes, WorkerIsAllowed, WorkerPrepared, WorkerExits, producerVars,
       renderVars, surfaceVars, presentVars, ghostVars
  <2>3. StageTypes'
    BY <1>1, <2>1 DEF StageTypes
  <2> QED
    BY <1>1, <2>2, <2>3, SameTypes DEF Types
<1>3. ASSUME NEW n \in Slot, seal_frame_locked(n) PROVE Types'
  <2>1. UNCHANGED <<cur, fifo, wrote, ended, booting, frameActive, ctl, prep, window, reconfigure, jobs,
                    current, shown, faults>>
    BY <1>1, <1>3, Seals
  <2>2. FrameTypes'
    <3>1. cur - 1 \in Frame /\ recorded' = << >> /\ lost' = IF open THEN lost ELSE lost \cup {cur - 1}
      BY <1>1, <1>3, Seals
    <3> QED
      BY <1>1, <2>1, <3>1 DEF FrameTypes
  <2>3. work' \in Work
    <3> DEFINE w == Sealed(n)
               j == JobOf(w, First)
    <3>1. w \in Work /\ <<j>> \in Seq(Job)
      <4>1. w \in Work /\ j \in Job
        BY <1>1, <1>3, Seals
      <4> QED
        BY <4>1, RangeOfOne
    <3>2. work' = w \/ work' = [w EXCEPT !.group = <<j>>]
      BY <1>1, <1>3, Seals
    <3> HIDE DEF w, j
    <3> QED
      BY <3>1, <3>2 DEF Work
  <2>4. PoolTypes'
    <3>1. CASE n # 0
      BY <1>1, <1>3, <3>1, Seals DEF PoolTypes
    <3>2. CASE n = 0
      <4>1. First \in 1 .. Len(pool[0]) + 1 /\ PictureOf(Sealed(n)) \in Picture /\ 0 \in Slot
        BY <1>1, <1>3, Seals, Acquired DEF First
      <4>2. pool' = Painted(0, First, PictureOf(Sealed(n)))
        BY <1>1, <1>3, <3>2, Seals
      <4> QED
        BY <1>1, <4>1, <4>2, PaintedImage DEF PoolTypes
    <3> QED
      BY <3>1, <3>2
  <2>5. FlagTypes'
    BY <1>1, <1>3, <2>1, Seals, RenderedTypes DEF FlagTypes
  <2>6. StageTypes'
    BY <1>1, <2>1, <2>3 DEF StageTypes
  <2> QED
    BY <1>1, <2>1, <2>2, <2>4, <2>5, <2>6, SameTypes DEF Types
<1>4. CASE encode_sealed_frame
  <2>1. UNCHANGED <<cur, fifo, recorded, open, lost, wrote, ended, booting, frameActive, ctl, prep, window,
                    reconfigure, jobs, current, shown, faults>>
    BY <1>1, <1>4, Encodes
  <2>2. work' \in Work
    <3> DEFINE g == Append(work.group, JobOf(work, EncodedImage))
    <3>1. g \in Seq(Job) /\ work \in Work
      BY <1>1, <1>4, Encodes, AppendProperties DEF StageTypes, Work
    <3>2. work' = [work EXCEPT !.group = g]
      BY <1>1, <1>4, Encodes
    <3> HIDE DEF g
    <3> QED
      BY <3>1, <3>2 DEF Work
  <2>3. PoolTypes'
    <3>1. /\ EncodedImage \in 1 .. Len(pool[EncodedSlot]) + 1 /\ EncodedSlot \in Slot
          /\ PictureOf(work) \in Picture
      BY <1>1, <1>4, Encodes, Acquired DEF EncodedImage
    <3>2. pool' = Painted(EncodedSlot, EncodedImage, PictureOf(work))
      BY <1>1, <1>4, Encodes
    <3> QED
      BY <1>1, <3>1, <3>2, PaintedImage DEF PoolTypes
  <2>4. FlagTypes'
    BY <1>1, <1>4, <2>1, Encodes, RenderedTypes DEF FlagTypes
  <2>5. StageTypes'
    BY <1>1, <2>1, <2>2 DEF StageTypes
  <2> QED
    BY <1>1, <2>1, <2>3, <2>4, <2>5, SameTypes DEF Types
<1>5. CASE enqueue_presentations
  <2>1. work.group \in Seq(Job) /\ jobs \in Seq(Job) /\ << >> \in Seq(Job)
    BY <1>1 DEF StageTypes, Work, JobTypes
  <2>2. jobs \o work.group \in Seq(Job)
    BY <2>1, ConcatProperties
  <2>3. JobTypes'
    BY <1>1, <1>5, <2>1, <2>2 DEF enqueue_presentations, Enqueued, JobTypes
  <2>4. StageTypes'
    BY <1>1, <1>5, <2>1 DEF enqueue_presentations, StageTypes, Work
  <2>5. UNCHANGED <<cur, fifo, recorded, lost, wrote, ended, booting, frameActive, open, imgui, window,
                    reconfigure, faults, pool>>
    BY <1>5 DEF enqueue_presentations, producerVars, renderVars, surfaceVars, ghostVars
  <2> QED
    BY <1>1, <2>3, <2>4, <2>5, SameTypes DEF Types
<1>6. CASE WorkerIsDone
  <2>1. imgui' = (IF work.owed THEN NewFrame ELSE imgui) /\ UNCHANGED <<open, booting, frameActive>>
    BY <1>6 DEF WorkerIsDone, producerVars
  <2>2. FlagTypes'
    BY <1>1, <2>1, RenderedTypes DEF FlagTypes
  <2>3. StageTypes'
    BY <1>1, <1>6 DEF WorkerIsDone, StageTypes, Control
  <2>4. UNCHANGED <<cur, fifo, recorded, lost, wrote, ended, window, reconfigure, faults,
                    jobs, current, shown, pool>>
    BY <1>6 DEF WorkerIsDone, producerVars, surfaceVars, presentVars, ghostVars
  <2> QED
    BY <1>1, <2>2, <2>3, <2>4, SameTypes DEF Types
<1>7. CASE begin_frame_impl("worker")
  BY <1>7, SurfaceStepTypes DEF begin_frame_impl, Surfaces
<1> QED
  BY <1>2, <1>3, <1>4, <1>5, <1>6, <1>7 DEF Worker, Cycles

LEMMA TypesKept ==
    ASSUME IInv, [Next]_vars
    PROVE  Types'
<1>1. CASE UNCHANGED vars
  <2>1. UNCHANGED <<cur, fifo, recorded, lost, wrote, ended, ctl, work, prep, booting, frameActive, open,
                    imgui, window, reconfigure, faults, jobs, current, shown, pool>>
    BY <1>1 DEF vars, producerVars, renderVars, workerVars, surfaceVars, presentVars, ghostVars
  <2> QED
    BY <2>1, SameTypes DEF IInv, Types
<1>2. ASSUME NEW t \in {"producer", "worker"}, begin_frame_impl(t) PROVE Types'
  BY <1>2, SurfaceStepTypes DEF begin_frame_impl, Surfaces
<1> QED
  BY <1>1, <1>2, ProducerTypes, WorkerTypes, PresenterTypes, SurfaceStepTypes
     DEF Next, Decisions, Producer, Goings, Outside, IsDown

-----------------------------------------------------------------------------
(* The phases, and who is past which point.                                 *)

(* Most steps leave the worker where it is.                                 *)
LEMMA WorkerStill ==
    ASSUME StageTypes
    PROVE  /\ WriteCommand \/ drain \/ DrawOverlay \/ ShutDown \/ Outside \/ Presenter \/ IsDown
                \/ UNCHANGED vars => UNCHANGED <<ctl, wpc, work, prep>>
           /\ Goings \/ end_frame => UNCHANGED <<wpc, work>> /\ prep'["worker"] = prep["worker"]
           /\ \A t \in {"producer", "worker"} : Surfaces(t) => UNCHANGED <<ctl, wpc, work>>
<1>1. WriteCommand \/ drain \/ DrawOverlay \/ ShutDown \/ Outside \/ IsDown \/ UNCHANGED vars
        => UNCHANGED <<ctl, wpc, work, prep>>
  BY DEF WriteCommand, drain, DrawOverlay, ShutDown, Outside, WindowChanges, WindowResized, IsDown, vars,
     workerVars
<1>2. Presenter => UNCHANGED <<ctl, wpc, work, prep>>
  BY DEF Presenter, PresenterTakes, PresenterSkips, acquire_surface_texture, Presents, PresenterExits,
     workerVars
<1>3. Goings \/ end_frame => UNCHANGED <<wpc, work>> /\ prep'["worker"] = prep["worker"]
  BY DEF StageTypes, Prep, Goings, GX__CopyDisp, PresentUnpaced, BootEnds, BootIsOver, EnsureAuroraFrameActive,
     stop_frame_worker, stop_presenter, begin_frame, BeginJoinsWorker, BeginPrepared, end_frame,
     workerVars
<1>4. \A t \in {"producer", "worker"} : Surfaces(t) => UNCHANGED <<ctl, wpc, work>>
  BY DEF Surfaces, ChecksSurface, wait_for_presenter_idle, MutatesSurface, Mutates, workerVars
<1> QED
  BY <1>1, <1>2, <1>3, <1>4

(* Where a frame is ended, nothing of the one before is left.               *)
LEMMA ReadyWaits ==
    ASSUME StageTypes, Phases, Turns
    PROVE  /\ ctl.ready /\ ~ctl.stop => wpc = "wait" /\ ~ctl.jobPending
           /\ ctl.sealed /\ ~ctl.stop =>
                ~ctl.jobPending /\ wpc \in {"wait", "encode", "owed"}
           /\ pc \notin {"joinWorker", "joinPresenter", "down"} =>
                ~ctl.stop /\ ~pstop /\ ppc # "exited" /\ wpc \notin {"exiting", "exited"}
<1>1. /\ ctl.stop \in BOOLEAN /\ ctl.ready \in BOOLEAN /\ ctl.sealed \in BOOLEAN
      /\ ctl.jobPending \in BOOLEAN
  BY DEF StageTypes, Control
<1> QED
  BY <1>1 DEF Phases, Turns, InHand

LEMMA PhasesKept ==
    ASSUME IInv, [Next]_vars
    PROVE  Phases'
<1>1. /\ FrameTypes /\ StageTypes /\ FlagTypes /\ PoolTypes /\ Phases /\ Turns /\ Drawn
      /\ ctl \in Control /\ prep \in Prep /\ work \in Work
  BY DEF IInv, Types, StageTypes
<1>2. CASE UNCHANGED <<ctl, wpc, work, prep>>
  BY <1>1, <1>2 DEF Phases, InHand
<1>3. CASE Goings
  <2>1. UNCHANGED <<wpc, work>> /\ prep'["worker"] = prep["worker"]
    BY <1>1, <1>3, WorkerStill
  <2>2. /\ ctl'.jobPending = ctl.jobPending /\ ctl'.sealed = ctl.sealed /\ ctl'.ready = ctl.ready
        /\ ctl.stop => ctl'.stop
    BY <1>1, <1>3 DEF Goings, GX__CopyDisp, PresentUnpaced, BootEnds, BootIsOver,
       EnsureAuroraFrameActive, stop_frame_worker, stop_presenter, begin_frame, BeginJoinsWorker,
       BeginPrepared, Control
  <2> QED
    BY <1>1, <2>1, <2>2 DEF Phases, InHand
<1>4. CASE end_frame
  <2>1. UNCHANGED <<wpc, work, prep>> /\ ctl' = HandedOver /\ ctl.ready /\ pc = "end"
    BY <1>4 DEF end_frame, workerVars
  <2>2. wpc = "wait" /\ prep["worker"] = "none"
    BY <1>1, <2>1, ReadyWaits DEF Phases
  <2>3. ctl'.jobPending = TRUE /\ ctl'.sealed = FALSE /\ ctl'.ready = FALSE
    BY <1>1, <2>1 DEF HandedOver, Control
  <2> QED
    BY <2>1, <2>2, <2>3 DEF Phases, InHand
<1>5. ASSUME NEW t \in {"producer", "worker"}, Surfaces(t) \/ begin_frame_render_state(t)
      PROVE  Phases'
  <2>1. UNCHANGED <<ctl, wpc>> /\ work'.slots = work.slots
    BY <1>1, <1>5, WorkerStill DEF begin_frame_render_state, Work
  <2>2. prep[t] # "none" /\ \E to : prep' = [prep EXCEPT ![t] = to]
    BY <1>5 DEF Surfaces, ChecksSurface, wait_for_presenter_idle, MutatesSurface, Mutates,
       begin_frame_render_state, Prepares
  <2>3. prep'["worker"] # "none" => prep["worker"] # "none"
    BY <1>1, <2>2 DEF Prep
  <2> QED
    BY <1>1, <2>1, <2>3 DEF Phases, InHand
<1>6. CASE Cycles
  <2>1. CASE WorkerWakes
    BY <1>1, <2>1 DEF WorkerWakes, WorkerGoes, Phases, InHand, Control
  <2>2. CASE WorkerIsAllowed
    BY <1>1, <2>2 DEF WorkerIsAllowed, WorkerGoes, Phases, InHand, Control, Prep
  <2>3. CASE WorkerPrepared
    <3>1. /\ wpc = "prepare" /\ wpc' = (IF work.slots = 0 THEN "wait" ELSE "encode") /\ work' = work
          /\ ctl' = [ctl EXCEPT !.framePrepared = (prep["worker"] = "yes"), !.sealed = TRUE,
                                !.ready = ctl.ready \/ work.slots = 0]
          /\ prep' = [prep EXCEPT !["worker"] = "none"]
      BY <2>3 DEF WorkerPrepared, WorkerGoes
    <3>2. /\ ctl'.sealed = TRUE /\ (work.slots = 0 => ctl'.ready = TRUE)
          /\ work.slots # 0 => ctl'.ready = ctl.ready
          /\ ctl'.stop = ctl.stop /\ ctl'.jobPending = ctl.jobPending /\ prep'["worker"] = "none"
      BY <1>1, <3>1 DEF Control, Prep
    <3>3. ctl.ready = FALSE /\ ctl.jobPending = FALSE
      BY <1>1, <3>1 DEF Phases, Control
    <3>4. work.slots \in Nat
      BY <1>1 DEF Work, Slot
    <3>5. CASE work.slots = 0
      BY <3>1, <3>2, <3>3, <3>5 DEF Phases, InHand
    <3>6. CASE work.slots # 0
      <4>1. ctl'.ready = FALSE /\ wpc' = "encode" /\ work'.slots > 0
        BY <3>1, <3>2, <3>3, <3>4, <3>6
      <4> QED
        BY <3>2, <3>3, <4>1 DEF Phases, InHand
    <3> QED
      BY <3>5, <3>6
  <2>4. CASE WorkerExits
    BY <1>1, <2>4 DEF WorkerExits, WorkerGoes, Phases, InHand, Control
  <2> QED
    BY <1>6, <2>1, <2>2, <2>3, <2>4 DEF Cycles
<1>7. ASSUME NEW n \in Slot, seal_frame_locked(n) PROVE Phases'
  <2>1. UNCHANGED <<ctl, prep>> /\ wpc = "seal" /\ wpc' = IF n = 0 THEN "publish" ELSE "permit"
    BY <1>1, <1>7, Seals
  <2>2. n = 0 => work'.slots = 0
    BY <1>1, <1>7, Seals DEF Work
  <2> QED
    BY <1>1, <2>1, <2>2 DEF Phases, InHand
<1>8. CASE encode_sealed_frame
  <2>1. UNCHANGED <<ctl, wpc, prep>> /\ work'.slots = work.slots
    BY <1>1, <1>8, Encodes DEF Work
  <2> QED
    BY <1>1, <2>1 DEF Phases, InHand
<1>9. CASE enqueue_presentations
  <2>1. UNCHANGED <<ctl, prep>> /\ work'.slots = work.slots
    BY <1>1, <1>9 DEF enqueue_presentations, Work
  <2> QED
    BY <1>1, <1>9, <2>1 DEF enqueue_presentations, WorkerGoes, Phases, InHand
<1>10. CASE WorkerIsDone
  BY <1>1, <1>10 DEF WorkerIsDone, WorkerGoes, Phases, InHand, Control
<1> QED
  BY <1>1, <1>2, <1>3, <1>4, <1>5, <1>6, <1>7, <1>8, <1>9, <1>10, WorkerStill, Steps

LEMMA NoJobIsNoJob == NoJob \notin Job
BY DEF NoJob, Job

LEMMA LastFrames == LastFrame <= MaxFrames /\ LastFrame \in Nat
BY DEF LastFrame

(* Frames are ended one after the other, none after a stop; the presenter   *)
(* is stopped last.                                                         *)
LEMMA TurnsKept ==
    ASSUME IInv, [Next]_vars
    PROVE  Turns'
<1>1. /\ FrameTypes /\ StageTypes /\ FlagTypes /\ JobTypes /\ PoolTypes /\ Phases /\ Turns /\ Drawn
      /\ ctl \in Control /\ prep \in Prep /\ work \in Work
  BY DEF IInv, Types, StageTypes
<1>2. cur \in Nat /\ cur <= MaxFrames + 1
  BY <1>1 DEF FrameTypes, Frame
<1>3. CASE UNCHANGED <<ctl, pc, prep, cur, booting, frameActive, wpc, pstop, ppc, jobs, current>>
  BY <1>1, <1>3 DEF Turns, Unsealed, InHand
<1>4. CASE WriteCommand \/ drain \/ DrawOverlay
  <2>1. /\ UNCHANGED <<ctl, prep, cur, booting, frameActive, wpc, pstop, ppc, jobs, current>>
        /\ pc \in {"running", "drain", "copy", "join"}
        /\ pc' \in {"running", "drain", "join", "end"}
        /\ pc' \in {"join", "end"} => pc \in {"copy", "join"}
    BY <1>4 DEF WriteCommand, drain, DrawOverlay, Goes, workerVars, presentVars
  <2> QED
    BY <1>1, <2>1 DEF Turns, Unsealed, InHand
<1>5. CASE end_frame
  <2>1. /\ UNCHANGED <<prep, booting, wpc, pstop, ppc, jobs, current>>
        /\ ctl' = HandedOver /\ ctl.ready /\ pc = "end" /\ cur' = cur + 1 /\ frameActive' = FALSE
        /\ pc' = IF booting THEN "cold" ELSE "begin"
    BY <1>5 DEF end_frame, Goes, workerVars, presentVars
  <2>2. ctl'.stop = ctl.stop /\ ctl.stop = FALSE /\ cur >= 1
    BY <1>1, <2>1 DEF Turns, HandedOver, Control, FrameTypes, Frame
  <2> QED
    BY <1>1, <1>2, <2>1, <2>2 DEF Turns, Unsealed, InHand
<1>6. CASE Goings
  <2>1. UNCHANGED <<cur, wpc, ppc, jobs, current>>
    BY <1>6 DEF Goings, GX__CopyDisp, PresentUnpaced, BootEnds, BootIsOver, EnsureAuroraFrameActive,
       stop_frame_worker, stop_presenter, begin_frame, BeginJoinsWorker, BeginPrepared, workerVars,
       presentVars
  <2>2. ctl'.ready = ctl.ready /\ ctl'.jobPending = ctl.jobPending
    BY <1>1, <1>6 DEF Goings, GX__CopyDisp, PresentUnpaced, BootEnds, BootIsOver,
       EnsureAuroraFrameActive, stop_frame_worker, stop_presenter, begin_frame, BeginJoinsWorker,
       BeginPrepared, Control
  <2>3. CASE GX__CopyDisp \/ PresentUnpaced \/ BootEnds \/ BootIsOver \/ EnsureAuroraFrameActive
    <3>1. /\ UNCHANGED <<ctl, prep, frameActive, pstop>> /\ (booting' => booting)
          /\ pc \in {"cold", "running"}
      BY <2>3 DEF GX__CopyDisp, PresentUnpaced, BootEnds, BootIsOver, EnsureAuroraFrameActive, presentVars
    <3>2. /\ pc' # "beginSelf" /\ pc' # "beginWait"
          /\ pc' \in {"copy", "join", "end", "begin"} => cur <= MaxFrames
      BY <1>1, <1>2, <2>3, LastFrames DEF GX__CopyDisp, PresentUnpaced, BootEnds, BootIsOver,
         EnsureAuroraFrameActive, Goes, Turns
    <3> QED
      BY <1>1, <2>1, <3>1, <3>2 DEF Turns, Unsealed, InHand
  <2>4. CASE stop_frame_worker
    <3>1. /\ UNCHANGED <<prep, frameActive, pstop, booting>> /\ ~booting /\ pc' = "joinWorker"
          /\ pc \in {"cold", "running", "begin"}
      BY <2>4 DEF stop_frame_worker, Goes, presentVars
    <3> QED
      BY <1>1, <2>1, <2>2, <3>1 DEF Turns, Unsealed, InHand
  <2>5. CASE stop_presenter
    <3>1. /\ UNCHANGED <<prep, frameActive, booting>> /\ pc = "joinWorker" /\ wpc = "exited"
          /\ pc' = "joinPresenter" /\ ctl'.stop = ctl.stop /\ pstop'
      BY <1>1, <2>5 DEF stop_presenter, Goes, Control
    <3> QED
      BY <1>1, <2>1, <2>2, <3>1 DEF Turns, Unsealed, InHand
  <2>6. CASE begin_frame \/ BeginJoinsWorker \/ BeginPrepared
    <3>1. /\ UNCHANGED <<booting, pstop>> /\ pc \in {"begin", "beginWait", "beginSelf"}
          /\ pc' \in {"beginWait", "beginSelf", "running"}
          /\ ctl'.stop = ctl.stop
      BY <1>1, <2>6 DEF begin_frame, BeginJoinsWorker, BeginPrepared, Goes, Returns, Control, presentVars
    <3>2. /\ pc' = "beginSelf" => ctl.ready
          /\ prep'["producer"] # "none" => pc' = "beginSelf"
      <4>1. CASE begin_frame
        BY <1>1, <4>1 DEF begin_frame, Goes, Returns, Prep, Turns
      <4>2. CASE BeginJoinsWorker
        BY <1>1, <4>2 DEF BeginJoinsWorker, Goes, Returns, Turns
      <4>3. CASE BeginPrepared
        BY <1>1, <4>3 DEF BeginPrepared, Goes, Returns, Prep
      <4> QED
        BY <2>6, <4>1, <4>2, <4>3
    <3> QED
      BY <1>1, <2>1, <2>2, <3>1, <3>2 DEF Turns, Unsealed, InHand
  <2> QED
    BY <1>6, <2>3, <2>4, <2>5, <2>6 DEF Goings
<1>7. CASE ShutDown
  <2>1. /\ UNCHANGED <<ctl, prep, cur, booting, frameActive, wpc, pstop, ppc, current>>
        /\ jobs' = << >> /\ pc = "joinPresenter" /\ pc' = "down"
    BY <1>7 DEF ShutDown, Goes, workerVars
  <2> QED
    BY <1>1, <2>1 DEF Turns, Unsealed, InHand
<1>8. ASSUME NEW t \in {"producer", "worker"}, Surfaces(t) \/ begin_frame_render_state(t)
      PROVE  Turns'
  <2>1. UNCHANGED <<ctl, pc, cur, booting, frameActive, wpc, pstop, ppc, jobs, current>>
    BY <1>8 DEF Surfaces, ChecksSurface, wait_for_presenter_idle, MutatesSurface, Mutates,
       begin_frame_render_state, producerVars, workerVars, presentVars
  <2>2. prep[t] # "none" /\ \E to : prep' = [prep EXCEPT ![t] = to]
    BY <1>8 DEF Surfaces, ChecksSurface, wait_for_presenter_idle, MutatesSurface, Mutates,
       begin_frame_render_state, Prepares
  <2>3. prep'["producer"] # "none" => prep["producer"] # "none"
    BY <1>1, <2>2 DEF Prep
  <2> QED
    BY <1>1, <2>1, <2>3 DEF Turns, Unsealed, InHand
<1>9. CASE Worker /\ ~begin_frame_impl("worker")
  <2>1. UNCHANGED <<pc, cur, booting, frameActive, pstop, ppc, current>>
    BY <1>9 DEF Worker, WorkerWakes, seal_frame_locked, encode_sealed_frame, enqueue_presentations,
       WorkerIsAllowed, WorkerPrepared, WorkerIsDone, WorkerExits, producerVars, presentVars
  <2>2. ctl'.stop = ctl.stop /\ (ctl.ready => ctl'.ready) /\ (ctl'.jobPending => ctl.jobPending)
    BY <1>1, <1>9 DEF Worker, WorkerWakes, seal_frame_locked, encode_sealed_frame, enqueue_presentations,
       WorkerIsAllowed, WorkerPrepared, WorkerIsDone, WorkerExits, Control
  <2>3. prep'["producer"] = prep["producer"]
    BY <1>1, <1>9 DEF Worker, WorkerWakes, seal_frame_locked, encode_sealed_frame, enqueue_presentations,
       WorkerIsAllowed, WorkerPrepared, WorkerIsDone, WorkerExits, Prep
  <2>4. /\ wpc # "exited" /\ (jobs' # jobs => wpc \in {"publish", "encode"})
        /\ wpc' = "seal" => ctl.jobPending
        /\ wpc' \in {"publish", "permit", "prepare", "encode", "owed"} =>
             wpc \in {"seal", "publish", "permit", "prepare", "encode", "owed"}
    BY <1>9 DEF Worker, WorkerWakes, seal_frame_locked, encode_sealed_frame, enqueue_presentations,
       WorkerIsAllowed, WorkerPrepared, WorkerIsDone, WorkerExits, WorkerGoes, presentVars
  <2> QED
    BY <1>1, <2>1, <2>2, <2>3, <2>4 DEF Turns, Unsealed, InHand
<1>10. CASE Presenter
  <2>1. UNCHANGED <<ctl, pc, prep, cur, booting, frameActive, wpc, pstop>>
    BY <1>10 DEF Presenter, PresenterTakes, PresenterSkips, acquire_surface_texture, Presents,
       PresenterExits, producerVars, workerVars
  <2>2. ppc \in {"wait", "present", "hold"} /\ (ppc' = "exited" => pstop /\ jobs' = << >>)
    BY <1>10 DEF Presenter, PresenterTakes, PresenterSkips, acquire_surface_texture, Presents,
       PresenterExits, PresenterGoes
  <2>3. ppc' \in {"present", "hold"} <=> current' # NoJob
    <3>1. PresenterTakes => current' \in Job
      BY <1>1, HeadTailProperties DEF PresenterTakes, JobTypes
    <3> QED
      BY <1>1, <1>10, <3>1, NoJobIsNoJob DEF Presenter, PresenterTakes, PresenterSkips,
         acquire_surface_texture, Presents, PresenterExits, PresenterGoes, Turns
  <2> QED
    BY <1>1, <2>1, <2>2, <2>3 DEF Turns, Unsealed, InHand
<1>11. CASE Outside \/ IsDown \/ UNCHANGED vars
  BY <1>3, <1>11 DEF Outside, WindowChanges, WindowResized, IsDown, vars, producerVars, workerVars,
     presentVars
<1> QED
  BY <1>4, <1>5, <1>6, <1>7, <1>8, <1>9, <1>10, <1>11, Steps
     DEF Worker, Cycles, begin_frame_impl, Surfaces

-----------------------------------------------------------------------------
(* The commands.                                                            *)

LEMMA SequenceLaws ==
    ASSUME NEW S, NEW s \in Seq(S), NEW t \in Seq(S), NEW e \in S
    PROVE  /\ s \o Append(t, e) = Append(s \o t, e)
           /\ s \o << >> = s /\ << >> \o s = s
           /\ Range(<< >>) = {} /\ (Range(s) = {} => s = << >>)
<1>1. s \o Append(t, e) = Append(s \o t, e)
  <2>1. /\ s \o t \in Seq(S) /\ Append(t, e) \in Seq(S) /\ <<e>> \in Seq(S)
        /\ Append(t, e) = t \o <<e>> /\ Append(s \o t, e) = (s \o t) \o <<e>>
    BY ConcatProperties, AppendIsConcat, AppendProperties
  <2>2. s \o (t \o <<e>>) = (s \o t) \o <<e>>
    BY <2>1, ConcatAssociative
  <2> QED
    BY <2>1, <2>2
<1>2. s \o << >> = s /\ << >> \o s = s
  BY ConcatEmptySeq
<1>3. \A r \in Seq(S) : r = << >> <=> Range(r) = {}
  BY InRange
<1>4. << >> \in Seq(S)
  BY EmptySeq
<1> QED
  BY <1>1, <1>2, <1>3, <1>4

(* What a drain or an end makes of the commands of the frame being written. *)
LEMMA Decodes ==
    ASSUME FrameTypes, Drawn, ~Unsealed, Decode
    PROVE  /\ fifo' = << >> /\ lost \subseteq lost'
           /\ Range(recorded') \subseteq {cur}
           /\ cur \in lost' \/ recorded' = wrote.draws
           /\ recorded' \in Seq(Frame)
<1>1. /\ recorded \in Seq(Frame) /\ fifo \in Seq(Frame) /\ cur \in Frame
      /\ Range(fifo) \subseteq {cur} /\ Range(recorded) \subseteq {cur}
      /\ cur \in lost \/ recorded \o fifo = wrote.draws
  BY DEF FrameTypes, Drawn
<1>2. fifo' = << >> /\ lost \subseteq lost'
  BY DEF Decode
<1>3. CASE open
  <2>1. recorded' = recorded \o fifo /\ lost' = lost
    BY <1>3 DEF Decode
  <2>2. /\ recorded \o fifo \in Seq(Frame)
        /\ Range(recorded \o fifo) = Range(recorded) \cup Range(fifo)
    BY <1>1, RangeOfConcat
  <2> QED
    BY <1>1, <1>2, <2>1, <2>2
<1>4. CASE ~open
  <2>1. recorded' = recorded /\ lost' = lost \cup Range(fifo)
    BY <1>4 DEF Decode
  <2>2. Range(fifo) = {} => recorded \o fifo = recorded
    BY <1>1, SequenceLaws
  <2> QED
    BY <1>1, <1>2, <2>1, <2>2
<1> QED
  BY <1>3, <1>4

LEMMA DrawnStays ==
    ASSUME Drawn, UNCHANGED <<cur, fifo, recorded, lost, ended>>, wrote'.draws = wrote.draws,
           work'.draws = work.draws, work'.frame = work.frame,
           Unsealed' <=> Unsealed, InHand' => InHand
    PROVE  Drawn'
BY DEF Drawn

LEMMA DrawnKept ==
    ASSUME IInv, [Next]_vars
    PROVE  Drawn'
<1>1. /\ FrameTypes /\ StageTypes /\ PoolTypes /\ Phases /\ Turns /\ Drawn
      /\ ctl \in Control /\ work \in Work
  BY DEF IInv, Types, StageTypes
<1>2. CASE WriteCommand
  <2>1. /\ fifo' = Append(fifo, cur) /\ wrote' = [wrote EXCEPT !.draws = Append(wrote.draws, cur)]
        /\ UNCHANGED <<cur, recorded, lost, ended, ctl, wpc, work>>
    BY <1>2 DEF WriteCommand, renderVars, workerVars
  <2>2. wrote'.draws = Append(wrote.draws, cur) /\ wrote.draws \in Seq(Frame)
    BY <1>1, <2>1 DEF FrameTypes, Written
  <2>3. Range(fifo') = Range(fifo) \cup {cur} /\ recorded \o fifo' = Append(recorded \o fifo, cur)
    <3>1. fifo \in Seq(Frame) /\ recorded \in Seq(Frame) /\ cur \in Frame
      BY <1>1 DEF FrameTypes
    <3>2. Range(Append(fifo, cur)) = Range(fifo) \cup {cur}
      BY <3>1, RangeOfAppend
    <3>3. recorded \o Append(fifo, cur) = Append(recorded \o fifo, cur)
      BY <3>1, SequenceLaws
    <3> QED
      BY <2>1, <3>2, <3>3
  <2>4. (Unsealed' <=> Unsealed) /\ (InHand' <=> InHand)
    BY <2>1 DEF Unsealed, InHand
  <2> QED
    BY <1>1, <2>1, <2>2, <2>3, <2>4 DEF Drawn
<1>3. CASE drain
  <2>1. Decode /\ ctl.sealed /\ UNCHANGED <<cur, wrote, ended, ctl, wpc, work>> /\ pc \in {"drain", "copy"}
    BY <1>3 DEF drain, wait_for_frame_worker_sealed, workerVars
  <2>2. ~Unsealed /\ ~Unsealed' /\ (InHand' <=> InHand)
    BY <1>1, <2>1, ReadyWaits DEF Unsealed, InHand
  <2>3. /\ fifo' = << >> /\ lost \subseteq lost' /\ Range(recorded') \subseteq {cur}
        /\ cur \in lost' \/ recorded' = wrote.draws
        /\ recorded' \o << >> = recorded' /\ Range(<< >>) = {}
    BY <1>1, <2>1, <2>2, Decodes, SequenceLaws DEF FrameTypes
  <2> QED
    BY <1>1, <2>1, <2>2, <2>3 DEF Drawn
<1>4. CASE end_frame
  <2>1. /\ Decode /\ ctl.ready /\ cur' = cur + 1 /\ ended' = wrote /\ wrote' = Nothing
        /\ UNCHANGED <<wpc, work>> /\ ctl' = HandedOver /\ pc = "end"
    BY <1>4 DEF end_frame, workerVars
  <2>2. wpc = "wait" /\ ~Unsealed /\ ~InHand'
    BY <1>1, <2>1, ReadyWaits DEF Unsealed, InHand
  <2>3. ctl'.jobPending = TRUE /\ Unsealed' /\ wrote'.draws = << >> /\ cur' - 1 = cur
    BY <1>1, <2>1 DEF HandedOver, Control, Unsealed, Nothing, FrameTypes, Frame
  <2>4. /\ fifo' = << >> /\ Range(recorded') \subseteq {cur} /\ Range(<< >>) = {}
        /\ cur \in lost' \/ recorded' = wrote.draws
    BY <1>1, <2>1, <2>2, Decodes, SequenceLaws DEF FrameTypes
  <2> QED
    BY <1>1, <2>1, <2>2, <2>3, <2>4 DEF Drawn
<1>5. CASE \E n \in Slot : seal_frame_locked(n)
  <2>1. PICK n \in Slot : seal_frame_locked(n)
    BY <1>5
  <2>2. /\ work'.draws = recorded /\ work'.frame = cur - 1
        /\ lost \subseteq lost' /\ recorded' = << >> /\ UNCHANGED <<cur, fifo, wrote, ended, ctl>>
        /\ wpc = "seal" /\ wpc' \in {"publish", "permit"}
    BY <1>1, <2>1, Seals DEF Work
  <2>3. Unsealed /\ ~Unsealed'
    BY <1>1, <2>2 DEF Unsealed, Phases, Control
  <2>4. Range(<< >>) = {} /\ << >> \o fifo = fifo
    BY <1>1, SequenceLaws DEF FrameTypes
  <2> QED
    BY <1>1, <2>2, <2>3, <2>4 DEF Drawn
<1>6. CASE Cycles
  <2>1. /\ UNCHANGED <<cur, fifo, recorded, lost, wrote, ended, work>>
        /\ (Unsealed' <=> Unsealed) /\ (InHand' => InHand)
    BY <1>1, <1>6 DEF Cycles, WorkerWakes, WorkerIsAllowed, WorkerPrepared, WorkerExits, producerVars,
       renderVars, ghostVars, Unsealed, InHand, WorkerGoes, Control
  <2> QED
    BY <1>1, <2>1, DrawnStays
<1>7. CASE encode_sealed_frame
  <2>1. /\ UNCHANGED <<cur, fifo, recorded, lost, wrote, ended, ctl, wpc>>
        /\ work'.draws = work.draws /\ work'.frame = work.frame
    BY <1>1, <1>7, Encodes DEF Work
  <2>2. (Unsealed' <=> Unsealed) /\ (InHand' => InHand)
    BY <2>1 DEF Unsealed, InHand
  <2> QED
    BY <1>1, <2>1, <2>2, DrawnStays
<1>8. CASE enqueue_presentations \/ WorkerIsDone
  <2>1. /\ UNCHANGED <<cur, fifo, recorded, lost, wrote, ended>>
        /\ work'.draws = work.draws /\ work'.frame = work.frame
    BY <1>1, <1>8 DEF enqueue_presentations, WorkerIsDone, producerVars, renderVars, ghostVars, Work
  <2>2. (Unsealed' <=> Unsealed) /\ (InHand' => InHand)
    BY <1>1, <1>8 DEF enqueue_presentations, WorkerIsDone, WorkerGoes, Unsealed, InHand, Control
  <2> QED
    BY <1>1, <2>1, <2>2, DrawnStays
<1>9. CASE DrawOverlay
  <2>1. UNCHANGED <<cur, fifo, recorded, lost, ended, ctl, wpc, work>> /\ wrote'.draws = wrote.draws
    BY <1>1, <1>9 DEF DrawOverlay, workerVars, FrameTypes, Written
  <2> QED
    BY <1>1, <2>1, DrawnStays DEF Unsealed, InHand
<1>10. ASSUME NEW t \in {"producer", "worker"}, Surfaces(t) \/ begin_frame_render_state(t)
       PROVE  Drawn'
  <2>1. UNCHANGED <<cur, fifo, recorded, lost, wrote, ended, ctl, wpc>>
    BY <1>10 DEF Surfaces, ChecksSurface, wait_for_presenter_idle, MutatesSurface, Mutates,
       begin_frame_render_state, producerVars, renderVars, ghostVars, workerVars
  <2>2. work'.draws = work.draws /\ work'.frame = work.frame
    BY <1>1, <1>10, WorkerStill DEF begin_frame_render_state, Work
  <2> QED
    BY <1>1, <2>1, <2>2, DrawnStays DEF Unsealed, InHand
<1>11. CASE Goings
  <2>1. UNCHANGED <<cur, fifo, recorded, lost, wrote, ended>>
    BY <1>11 DEF Goings, GX__CopyDisp, PresentUnpaced, BootEnds, BootIsOver, EnsureAuroraFrameActive,
       stop_frame_worker, stop_presenter, begin_frame, BeginJoinsWorker, BeginPrepared, renderVars,
       ghostVars
  <2>2. ctl'.jobPending = ctl.jobPending /\ UNCHANGED <<wpc, work>>
    BY <1>1, <1>11, WorkerStill DEF Goings, GX__CopyDisp, PresentUnpaced, BootEnds, BootIsOver,
       EnsureAuroraFrameActive, stop_frame_worker, stop_presenter, begin_frame, BeginJoinsWorker,
       BeginPrepared, Control
  <2> QED
    BY <1>1, <2>1, <2>2, DrawnStays DEF Unsealed, InHand
<1>12. CASE ShutDown \/ Outside \/ Presenter \/ IsDown \/ UNCHANGED vars
  <2>1. UNCHANGED <<cur, fifo, recorded, lost, wrote, ended>>
    BY <1>12 DEF ShutDown, Outside, WindowChanges, WindowResized, Presenter, PresenterTakes,
       PresenterSkips, acquire_surface_texture, Presents, PresenterExits, IsDown, vars, producerVars,
       renderVars, ghostVars
  <2>2. UNCHANGED <<ctl, wpc, work>>
    BY <1>1, <1>12, WorkerStill
  <2> QED
    BY <1>1, <2>1, <2>2, DrawnStays DEF Unsealed, InHand
<1> QED
  BY <1>2, <1>3, <1>4, <1>5, <1>6, <1>7, <1>8, <1>9, <1>10, <1>11, <1>12, Steps

-----------------------------------------------------------------------------
(* ImGui's frame.                                                           *)

(* The overlay is drawn by the step before the end.                         *)
OverlayIsFresh == wrote.overlay # 0 => pc = "end" /\ ctl.ready

LEMMA OverlaysStay ==
    ASSUME Overlays, UNCHANGED <<open, imgui, ended, cur>>, lost \subseteq lost',
           wrote'.overlay = wrote.overlay, OverlayIsFresh',
           work'.slots = work.slots, work'.owed = work.owed,
           Unsealed' <=> Unsealed, InHand' <=> InHand, Encoding' => Encoding,
           wpc' \in {"publish", "permit"} => wpc \in {"publish", "permit"},
           wpc' \in {"prepare", "encode", "owed"} /\ work.slots > 0 /\ open => work.owed
    PROVE  Overlays'
BY DEF Overlays, OverlayIsFresh

LEMMA OverlaysStill ==
    ASSUME Overlays, UNCHANGED <<open, imgui, ended, cur, wpc>>, ctl'.jobPending = ctl.jobPending,
           lost \subseteq lost', wrote'.overlay = wrote.overlay, OverlayIsFresh',
           work'.slots = work.slots, work'.owed = work.owed
    PROVE  Overlays'
<1>1. (Unsealed' <=> Unsealed) /\ (InHand' <=> InHand) /\ (Encoding' <=> Encoding)
  BY DEF Unsealed, InHand, Encoding
<1>2. wpc' \in {"prepare", "encode", "owed"} /\ work.slots > 0 /\ open => work.owed
  BY DEF Overlays
<1> QED
  BY <1>1, <1>2, OverlaysStay

LEMMA ProducerOverlays ==
    ASSUME IInv, WriteCommand \/ drain \/ DrawOverlay \/ end_frame \/ Goings \/ ShutDown
    PROVE  Overlays'
<1>1. /\ FrameTypes /\ StageTypes /\ FlagTypes /\ PoolTypes /\ Phases /\ Turns /\ Drawn /\ Overlays
      /\ ctl \in Control /\ work \in Work /\ imgui \in ImGui /\ wrote \in Written
  BY DEF IInv, Types, StageTypes, FlagTypes, FrameTypes
<1>2. CASE WriteCommand
  <2>1. /\ pc = "running" /\ wrote'.overlay = wrote.overlay
        /\ UNCHANGED <<open, imgui, ended, cur, wpc, ctl, lost, work>>
    BY <1>1, <1>2 DEF WriteCommand, renderVars, workerVars, Written
  <2> QED
    BY <1>1, <2>1, OverlaysStill DEF Overlays, OverlayIsFresh
<1>3. CASE drain
  <2>1. /\ pc \in {"drain", "copy"} /\ UNCHANGED <<open, imgui, ended, cur, wpc, ctl, wrote, work>>
        /\ lost \subseteq lost'
    BY <1>3 DEF drain, Decode, workerVars
  <2> QED
    BY <1>1, <2>1, OverlaysStill DEF Overlays, OverlayIsFresh
<1>4. CASE DrawOverlay
  <2>1. /\ pc = "join" /\ ctl.ready /\ pc' = "end" /\ wrote' = [wrote EXCEPT !.overlay = cur]
        /\ imgui' = (IF imgui.started THEN [imgui EXCEPT !.overlay = cur] ELSE imgui)
        /\ UNCHANGED <<open, ctl, wpc, work>>
    BY <1>4 DEF DrawOverlay, Goes, workerVars
  <2>2. wpc = "wait" /\ ~Unsealed /\ ~InHand /\ ~Encoding
    BY <1>1, <2>1, ReadyWaits DEF Unsealed, InHand, Encoding
  <2>3. ~Unsealed' /\ ~InHand' /\ ~Encoding' /\ wpc' = "wait"
    BY <2>1, <2>2 DEF Unsealed, InHand, Encoding
  <2>4. open => imgui.started
    BY <1>1, <2>2 DEF Overlays
  <2>5. wrote'.overlay = cur /\ (open => imgui'.started /\ imgui'.overlay = cur)
    BY <1>1, <2>1, <2>4 DEF Written, ImGui
  <2> QED
    BY <2>1, <2>3, <2>5 DEF Overlays
<1>5. CASE end_frame
  <2>1. /\ pc = "end" /\ ctl.ready /\ ended' = wrote /\ wrote' = Nothing /\ ctl' = HandedOver
        /\ UNCHANGED <<open, imgui, wpc, work>>
    BY <1>5 DEF end_frame, workerVars
  <2>2. wpc = "wait" /\ ~Unsealed /\ ~InHand
    BY <1>1, <2>1, ReadyWaits DEF Unsealed, InHand
  <2>3. ctl'.jobPending /\ wrote'.overlay = 0
    BY <1>1, <2>1 DEF HandedOver, Control, Nothing
  <2>4. Unsealed' /\ ~InHand' /\ ~Encoding' /\ wpc' = "wait"
    BY <2>1, <2>2, <2>3 DEF Unsealed, InHand, Encoding
  <2> QED
    BY <1>1, <2>1, <2>2, <2>3, <2>4 DEF Overlays
<1>6. CASE Goings
  <2>1. UNCHANGED <<open, imgui, ended, cur, lost, wrote>> /\ pc # "end"
    BY <1>6 DEF Goings, GX__CopyDisp, PresentUnpaced, BootEnds, BootIsOver, EnsureAuroraFrameActive,
       stop_frame_worker, stop_presenter, begin_frame, BeginJoinsWorker, BeginPrepared, renderVars,
       ghostVars
  <2>2. ctl'.jobPending = ctl.jobPending /\ UNCHANGED <<wpc, work>>
    BY <1>1, <1>6, WorkerStill DEF Goings, GX__CopyDisp, PresentUnpaced, BootEnds, BootIsOver,
       EnsureAuroraFrameActive, stop_frame_worker, stop_presenter, begin_frame, BeginJoinsWorker,
       BeginPrepared, Control
  <2> QED
    BY <1>1, <2>1, <2>2, OverlaysStill DEF Overlays, OverlayIsFresh
<1>7. CASE ShutDown
  <2>1. /\ pc = "joinPresenter" /\ UNCHANGED <<open, imgui, ended, cur, wpc, ctl, lost, wrote, work>>
    BY <1>7 DEF ShutDown, renderVars, workerVars, ghostVars
  <2> QED
    BY <1>1, <2>1, OverlaysStill DEF Overlays, OverlayIsFresh
<1> QED
  BY <1>2, <1>3, <1>4, <1>5, <1>6, <1>7

LEMMA BeginOverlays ==
    ASSUME IInv, NEW t \in {"producer", "worker"}, begin_frame_render_state(t)
    PROVE  Overlays'
<1>1. /\ StageTypes /\ FlagTypes /\ Phases /\ Turns /\ Overlays
      /\ ctl \in Control /\ work \in Work /\ imgui \in ImGui
  BY DEF IInv, Types, StageTypes, FlagTypes
<1>2. /\ prep[t] = "state" /\ imgui' = (IF Deferred(t) THEN imgui ELSE NewFrame)
      /\ UNCHANGED <<pc, cur, ctl, wpc, ended, wrote, lost>>
      /\ work' = [work EXCEPT !.owed = work.owed \/ Deferred(t)]
  BY DEF begin_frame_render_state, producerVars, ghostVars
<1>3. (Unsealed' <=> Unsealed) /\ (InHand' <=> InHand)
  BY <1>2 DEF Unsealed, InHand
<1>4. work'.slots = work.slots /\ NewFrame.started /\ NewFrame.overlay = 0
  BY <1>1, <1>2, RenderedTypes DEF Work
<1>5. CASE t = "producer"
  <2>1. pc = "beginSelf" /\ ctl.ready
    BY <1>1, <1>2, <1>5 DEF Turns
  <2>2. wpc = "wait" /\ ~Unsealed /\ ~InHand /\ wrote.overlay = 0
    BY <1>1, <2>1, ReadyWaits DEF Unsealed, InHand, Overlays
  <2>3. imgui' = NewFrame
    BY <1>2, <1>5 DEF Deferred
  <2> QED
    BY <1>2, <1>3, <1>4, <2>1, <2>2, <2>3 DEF Overlays, Encoding
<1>6. CASE t = "worker"
  <2>1. wpc = "prepare" /\ ~ctl.ready /\ wrote.overlay = 0 /\ ~Unsealed
    BY <1>1, <1>2, <1>6 DEF Phases, Overlays, Unsealed
  <2>2. InHand /\ work.slots \in Nat
    BY <1>1, <2>1 DEF InHand, Work, Slot
  <2>3. CASE work.slots > 0
    <3>1. imgui' = imgui
      BY <1>2, <1>6, <2>3 DEF Deferred
    <3>2. work'.owed = TRUE
      BY <1>1, <1>2, <1>6, <2>3 DEF Deferred, Work
    <3>3. Encoding
      BY <2>1, <2>3 DEF Encoding
    <3> QED
      BY <1>1, <1>2, <1>3, <1>4, <2>1, <2>2, <2>3, <3>1, <3>2, <3>3 DEF Overlays
  <2>4. CASE work.slots = 0
    <3>1. imgui' = NewFrame
      BY <1>2, <1>6, <2>4 DEF Deferred
    <3> QED
      BY <1>2, <1>3, <1>4, <2>1, <2>4, <3>1 DEF Overlays, Encoding
  <2> QED
    BY <2>2, <2>3, <2>4
<1> QED
  BY <1>5, <1>6

LEMMA WorkerOverlays ==
    ASSUME IInv, Worker, ~begin_frame_impl("worker")
    PROVE  Overlays'
<1>1. /\ FrameTypes /\ StageTypes /\ FlagTypes /\ PoolTypes /\ Phases /\ Turns /\ Drawn /\ Overlays
      /\ ctl \in Control /\ work \in Work /\ imgui \in ImGui
  BY DEF IInv, Types, StageTypes, FlagTypes
<1>2. UNCHANGED <<pc, cur, wrote, ended>> /\ (ctl.ready => ctl'.ready)
  BY <1>1 DEF Worker, WorkerWakes, seal_frame_locked, encode_sealed_frame, enqueue_presentations,
     WorkerIsAllowed, WorkerPrepared, WorkerIsDone, WorkerExits, producerVars, ghostVars, Control
<1>3. OverlayIsFresh'
  BY <1>1, <1>2 DEF Overlays, OverlayIsFresh
<1>4. CASE Cycles
  <2>1. /\ UNCHANGED <<open, imgui, lost, work>>
        /\ (Unsealed' <=> Unsealed) /\ (InHand' => InHand) /\ (Encoding' => Encoding)
        /\ wpc' \notin {"publish", "permit"}
        /\ wpc' \in {"prepare", "encode", "owed"} => wpc \in {"permit", "prepare"}
        /\ InHand /\ ~InHand' => ~open \/ work.slots = 0
    BY <1>1, <1>4 DEF Cycles, WorkerWakes, WorkerIsAllowed, WorkerPrepared, WorkerExits,
       renderVars, ghostVars, Unsealed, InHand, Encoding, WorkerGoes, Control, Overlays
  <2>2. work.slots \in Nat
    BY <1>1 DEF Work, Slot
  <2> QED
    BY <1>1, <1>2, <1>3, <2>1, <2>2 DEF Overlays, OverlayIsFresh
<1>5. CASE \E n \in Slot : seal_frame_locked(n)
  <2>1. PICK n \in Slot : seal_frame_locked(n)
    BY <1>5
  <2>2. /\ wpc = "seal" /\ imgui' = Rendered /\ open' = FALSE
        /\ lost' = IF open THEN lost ELSE lost \cup {cur - 1}
        /\ wpc' \in {"publish", "permit"}
    BY <1>1, <2>1, Seals
  <2>3. Unsealed
    BY <2>2 DEF Unsealed
  <2>4. ~imgui'.started /\ (cur - 1 \in lost' \/ imgui'.data = ended.overlay)
    BY <1>1, <2>2, <2>3, RenderedTypes DEF Overlays
  <2> QED
    BY <1>2, <1>3, <2>2, <2>4 DEF Overlays, OverlayIsFresh
<1>6. CASE encode_sealed_frame
  <2>1. /\ UNCHANGED <<open, lost, ctl, wpc>> /\ wpc = "encode" /\ imgui' = Rendered
        /\ work'.slots = work.slots /\ work'.owed = work.owed
    BY <1>1, <1>6, Encodes DEF Work
  <2>2. imgui' = imgui
    BY <1>1, <2>1 DEF Phases, Overlays, Encoding, Rendered
  <2> QED
    BY <1>1, <1>2, <1>3, <2>1, <2>2, OverlaysStill
<1>7. CASE enqueue_presentations
  <2>1. /\ UNCHANGED <<open, imgui, lost, ctl>> /\ work'.slots = work.slots /\ work'.owed = work.owed
        /\ \/ wpc = "publish" /\ wpc' = "permit"
           \/ wpc = "encode" /\ wpc' = "owed"
    BY <1>1, <1>7 DEF enqueue_presentations, WorkerGoes, renderVars, ghostVars, Work
  <2>2. (Unsealed' <=> Unsealed) /\ (InHand' <=> InHand) /\ (Encoding' => Encoding)
    BY <1>1, <2>1 DEF Unsealed, InHand, Encoding, Phases
  <2>3. wpc' \in {"prepare", "encode", "owed"} /\ work.slots > 0 /\ open => work.owed
    BY <1>1, <2>1 DEF Overlays
  <2> QED
    BY <1>1, <1>2, <1>3, <2>1, <2>2, <2>3, OverlaysStay
<1>8. CASE WorkerIsDone
  <2>1. /\ UNCHANGED <<open, lost, work>> /\ wpc = "owed" /\ wpc' = "wait"
        /\ imgui' = (IF work.owed THEN NewFrame ELSE imgui) /\ ctl'.jobPending = ctl.jobPending
    BY <1>1, <1>8 DEF WorkerIsDone, WorkerGoes, ghostVars, Control
  <2>2. /\ ~ctl.ready /\ work.slots > 0 /\ ~ctl.jobPending /\ wrote.overlay = 0
        /\ open => work.owed
    BY <1>1, <2>1 DEF Phases, Overlays
  <2>3. NewFrame.started /\ NewFrame.overlay = 0
    BY <1>1, RenderedTypes
  <2> QED
    BY <1>2, <1>3, <2>1, <2>2, <2>3 DEF Overlays, OverlayIsFresh, Unsealed, InHand, Encoding
<1> QED
  BY <1>4, <1>5, <1>6, <1>7, <1>8 DEF Worker, Cycles

LEMMA OverlaysKept ==
    ASSUME IInv, [Next]_vars
    PROVE  Overlays'
<1>1. StageTypes /\ Overlays
  BY DEF IInv, Types
<1>2. ASSUME NEW t \in {"producer", "worker"}, Surfaces(t) PROVE Overlays'
  <2>1. UNCHANGED <<open, imgui, ended, cur, lost, wrote, pc>>
    BY <1>2 DEF Surfaces, ChecksSurface, wait_for_presenter_idle, MutatesSurface, Mutates,
       producerVars, renderVars, ghostVars
  <2>2. UNCHANGED <<ctl, wpc, work>>
    BY <1>1, <1>2, WorkerStill
  <2> QED
    BY <1>1, <2>1, <2>2, OverlaysStill DEF Overlays, OverlayIsFresh
<1>3. CASE Outside \/ Presenter \/ IsDown \/ UNCHANGED vars
  <2>1. UNCHANGED <<open, imgui, ended, cur, lost, wrote, pc>>
    BY <1>3 DEF Outside, WindowChanges, WindowResized, Presenter, PresenterTakes,
       PresenterSkips, acquire_surface_texture, Presents, PresenterExits, IsDown, vars, producerVars,
       renderVars, ghostVars
  <2>2. UNCHANGED <<ctl, wpc, work>>
    BY <1>1, <1>3, WorkerStill
  <2> QED
    BY <1>1, <2>1, <2>2, OverlaysStill DEF Overlays, OverlayIsFresh
<1>4. CASE Cycles \/ (\E n \in Slot : seal_frame_locked(n)) \/ encode_sealed_frame
           \/ enqueue_presentations \/ WorkerIsDone
  <2>1. CASE begin_frame_impl("worker")
    BY <1>2, <2>1, BeginOverlays DEF begin_frame_impl, Surfaces
  <2>2. CASE ~begin_frame_impl("worker")
    BY <1>4, <2>2, WorkerOverlays DEF Worker, Cycles
  <2> QED
    BY <2>1, <2>2
<1> QED
  BY <1>2, <1>3, <1>4, ProducerOverlays, BeginOverlays, Steps

-----------------------------------------------------------------------------
(* The jobs.                                                                *)

LEMMA GroupedKept ==
    ASSUME IInv, [Next]_vars
    PROVE  Grouped'
<1>1. /\ FrameTypes /\ StageTypes /\ FlagTypes /\ PoolTypes /\ Phases /\ Turns /\ Drawn /\ Grouped
      /\ ctl \in Control /\ work \in Work
  BY DEF IInv, Types, StageTypes
<1>2. ASSUME wpc' = wpc, work'.group = work.group, work'.slots = work.slots, work'.frame = work.frame
      PROVE  Grouped'
  BY <1>1, <1>2 DEF Grouped
<1>3. CASE Cycles \/ WorkerIsDone
  <2>1. work' = work /\ wpc \notin {"publish", "encode"} /\ wpc' # "publish"
    BY <1>3 DEF Cycles, WorkerWakes, WorkerIsAllowed, WorkerPrepared, WorkerExits, WorkerIsDone,
       WorkerGoes
  <2>2. work.group = << >>
    BY <1>1, <2>1 DEF Grouped
  <2> QED
    BY <1>1, <2>1, <2>2 DEF Grouped
<1>4. CASE \E n \in Slot : seal_frame_locked(n)
  <2>1. PICK n \in Slot : seal_frame_locked(n)
    BY <1>4
  <2> DEFINE w == Sealed(n)
             j == JobOf(w, First)
  <2>2. /\ w \in Work /\ w.frame = cur - 1 /\ w.slots = n /\ w.group = << >>
        /\ j \in Job /\ j = [frame |-> cur - 1, slot |-> 0, image |-> First]
        /\ n = 0 => work' = [w EXCEPT !.group = <<j>>]
        /\ n # 0 => work' = w
        /\ wpc' = IF n = 0 THEN "publish" ELSE "permit"
    BY <1>1, <2>1, Seals
  <2> HIDE DEF w, j
  <2>3. j.frame = cur - 1 /\ j.slot = 0 /\ n \in Nat
    BY <2>2 DEF Slot
  <2>4. CASE n = 0
    <3>1. work'.group = <<j>> /\ work'.slots = 0 /\ work'.frame = cur - 1 /\ wpc' = "publish"
      BY <2>2, <2>4 DEF Work
    <3>2. Len(work'.group) = 1 /\ work'.group[1] = j
      BY <2>2, <3>1, RangeOfOne
    <3> QED
      BY <2>3, <3>1, <3>2 DEF Grouped
  <2>5. CASE n # 0
    <3>1. Len(<< >>) = 0
      BY EmptySeq
    <3> QED
      BY <2>2, <2>3, <2>5, <3>1 DEF Grouped
  <2> QED
    BY <2>4, <2>5
<1>5. CASE encode_sealed_frame
  <2> DEFINE j == JobOf(work, EncodedImage)
             g == Append(work.group, j)
  <2>1. /\ wpc' = wpc /\ wpc = "encode" /\ EncodedSlot <= work.slots /\ j \in Job
        /\ j = [frame |-> cur - 1, slot |-> EncodedSlot, image |-> EncodedImage]
        /\ work' = [work EXCEPT !.group = g] /\ work.frame = cur - 1
    BY <1>1, <1>5, Encodes
  <2> HIDE DEF j
  <2>2. /\ g \in Seq(Job) /\ Len(g) = Len(work.group) + 1 /\ g[Len(work.group) + 1] = j
        /\ \A i \in 1 .. Len(work.group) : g[i] = work.group[i]
        /\ Len(work.group) \in Nat
    BY <1>1, <2>1, RangeOfAppend, LenProperties DEF Work
  <2> HIDE DEF g
  <2>3. work'.group = g /\ work'.slots = work.slots /\ work'.frame = cur - 1 /\ work.slots \in Nat
    BY <1>1, <2>1 DEF Work, Slot
  <2>4. PICK n \in Nat : n = Len(work.group)
    BY <2>2
  <2>5. j.frame = cur - 1 /\ j.slot = n /\ n <= work.slots
    BY <2>1, <2>4 DEF EncodedSlot
  <2>6. \A i \in 1 .. n + 1 : i \in 1 .. n \/ i = n + 1
    OBVIOUS
  <2>7. \A i \in 1 .. n + 1 : g[i].frame = cur - 1 /\ g[i].slot = i - 1
    <3>1. \A i \in 1 .. n : g[i].frame = cur - 1 /\ g[i].slot = i - 1
      BY <1>1, <2>1, <2>2, <2>4 DEF Grouped
    <3>2. g[n + 1].frame = cur - 1 /\ g[n + 1].slot = n + 1 - 1
      BY <2>2, <2>4, <2>5
    <3> QED
      BY <2>6, <3>1, <3>2
  <2> QED
    BY <2>1, <2>2, <2>3, <2>4, <2>5, <2>7 DEF Grouped
<1>6. CASE enqueue_presentations
  <2>1. /\ work'.group = << >> /\ work'.slots = work.slots /\ work.slots \in Nat
        /\ wpc' \in {"permit", "owed"}
    BY <1>1, <1>6 DEF enqueue_presentations, WorkerGoes, Work, Slot
  <2>2. Len(<< >>) = 0
    BY EmptySeq
  <2> QED
    BY <2>1, <2>2 DEF Grouped
<1>7. ASSUME NEW t \in {"producer", "worker"}, begin_frame_render_state(t) PROVE Grouped'
  <2>1. /\ wpc' = wpc /\ work'.group = work.group /\ work'.slots = work.slots
        /\ work'.frame = work.frame
    BY <1>1, <1>7 DEF begin_frame_render_state, Work
  <2> QED
    BY <1>2, <2>1
<1> QED
  BY <1>1, <1>2, <1>3, <1>4, <1>5, <1>6, <1>7, WorkerStill, Steps

Increasing(s) == \A i, k \in 1 .. Len(s) : i < k => Later(s[k], s[i])

LEMMA LaterLaws ==
    /\ \A j \in Job : Later(j, NoJob) /\ j # NoJob
    /\ \A i, j \in Job \cup {NoJob} : i.frame \in Nat /\ i.slot \in Nat
                                      /\ (j.frame > i.frame => Later(j, i))
    /\ \A i, j, k \in Job \cup {NoJob} : Later(k, j) /\ Later(j, i) => Later(k, i)
<1>1. \A i \in Job \cup {NoJob} : i.frame \in Nat /\ i.slot \in Nat
  BY DEF Job, NoJob, Slot
<1>2. \A j \in Job : j.frame > 0 /\ NoJob.frame = 0
  BY DEF Job, NoJob
<1> QED
  BY <1>1, <1>2, NoJobIsNoJob DEF Later

(* A group is newer than all that is queued or shown, and in order itself.  *)
LEMMA EnqueuedGroup ==
    ASSUME FrameTypes, StageTypes, JobTypes, Phases, Turns, Drawn, Grouped, Lined,
           enqueue_presentations
    PROVE  /\ work.group \in Seq(Job) /\ Len(work.group) \in 1 .. Group
           /\ \A j \in Range(work.group) : j.frame = cur - 1
           /\ Increasing(work.group) /\ ~pstop /\ Unqueued /\ ~Unqueued'
           /\ \A j \in Range(jobs) \cup {current, shown} : j.frame < cur - 1
           /\ jobs' = IF Len(jobs) + Len(work.group) > maximumQueuedJobs
                      THEN work.group ELSE jobs \o work.group
<1>1. work \in Work /\ work.group \in Seq(Job) /\ work.slots \in Slot /\ ctl \in Control
  BY DEF StageTypes, Work
<1>2. /\ jobs' = Enqueued(work.group) /\ work' = [work EXCEPT !.group = << >>] /\ ctl' = ctl
      /\ \/ wpc = "publish" /\ wpc' = "permit"
         \/ wpc = "encode" /\ wpc' = "owed" /\ Len(work.group) > work.slots
  BY DEF enqueue_presentations, WorkerGoes
<1>3. PICK n \in Nat, m \in Nat : /\ n = Len(work.group) /\ m = work.slots /\ m <= MaxInterpolatedFrames
                                  /\ work.group \in Seq(Job)
  BY <1>1, LenProperties DEF Slot
<1>4. n = m + 1
  BY <1>2, <1>3 DEF Grouped
<1>5. n \in 1 .. Group
  BY <1>3, <1>4 DEF Group
<1>6. ~pstop /\ InHand
  BY <1>2 DEF Turns, InHand
<1>7. work.frame = cur - 1
  BY <1>6 DEF Drawn
<1>8. \A i \in 1 .. n : work.group[i].frame = cur - 1 /\ work.group[i].slot = i - 1
  BY <1>3, <1>7 DEF Grouped
<1>9. \A j \in Range(work.group) : j.frame = cur - 1
  BY <1>3, <1>8, InRange
<1>10. Increasing(work.group)
  BY <1>3, <1>8 DEF Increasing, Later
<1>11. work'.slots = work.slots
  BY <1>1, <1>2 DEF Work
<1>12. Unqueued /\ ~Unqueued'
  BY <1>2, <1>11, <1>3 DEF Unqueued, Unsealed, Encoding, Phases
<1>13. \A j \in Range(jobs) \cup {current, shown} : j.frame < cur - 1
  BY <1>12 DEF Lined
<1>14. jobs' = IF Len(jobs) + Len(work.group) > maximumQueuedJobs
               THEN work.group ELSE jobs \o work.group
  BY <1>2, <1>6 DEF Enqueued
<1> QED
  BY <1>3, <1>5, <1>6, <1>9, <1>10, <1>12, <1>13, <1>14

LEMMA LinedStays ==
    ASSUME Lined, UNCHANGED <<jobs, current, shown, cur>>, Unqueued' => Unqueued
    PROVE  Lined'
BY DEF Lined, Later

LEMMA LinedNext ==
    ASSUME Increasing(jobs'), \A j \in Range(jobs') : Later(j, current') /\ Later(j, shown'),
           current' # NoJob => Later(current', shown'),
           \A j \in Range(jobs') \cup {current', shown'} :
              j.frame < cur' /\ (Unqueued' => j.frame < cur' - 1),
           Len(jobs') <= 3 * Group
    PROVE  Lined'
BY DEF Lined, Increasing

(* The steps but three leave the queue alone, and put no frame off.         *)
LEMMA QueueStill ==
    ASSUME IInv, [Next]_vars, ~end_frame, ~enqueue_presentations, ~Presenter, ~ShutDown
    PROVE  UNCHANGED <<jobs, current, shown, cur>> /\ (Unqueued' => Unqueued)
<1>1. /\ FrameTypes /\ StageTypes /\ FlagTypes /\ PoolTypes /\ Phases /\ Turns /\ Drawn
      /\ ctl \in Control /\ work \in Work
  BY DEF IInv, Types, StageTypes
<1>2. CASE WriteCommand \/ drain \/ DrawOverlay \/ Outside \/ IsDown \/ UNCHANGED vars
  <2>1. UNCHANGED <<jobs, current, shown, cur>>
    BY <1>2 DEF WriteCommand, drain, DrawOverlay, Outside, WindowChanges, WindowResized, IsDown, vars,
       producerVars, presentVars
  <2> QED
    BY <1>1, <1>2, <2>1, WorkerStill DEF Unqueued, Unsealed, Encoding
<1>3. CASE Goings
  <2>1. UNCHANGED <<jobs, current, shown, cur>> /\ ctl'.jobPending = ctl.jobPending
    BY <1>1, <1>3 DEF Goings, GX__CopyDisp, PresentUnpaced, BootEnds, BootIsOver,
       EnsureAuroraFrameActive, stop_frame_worker, stop_presenter, begin_frame, BeginJoinsWorker,
       BeginPrepared, Control, presentVars
  <2> QED
    BY <1>1, <1>3, <2>1, WorkerStill DEF Unqueued, Unsealed, Encoding
<1>4. ASSUME NEW t \in {"producer", "worker"}, Surfaces(t) \/ begin_frame_render_state(t)
      PROVE  UNCHANGED <<jobs, current, shown, cur>> /\ (Unqueued' => Unqueued)
  <2>1. UNCHANGED <<jobs, current, shown, cur, ctl, wpc>>
    BY <1>4 DEF Surfaces, ChecksSurface, wait_for_presenter_idle, MutatesSurface, Mutates,
       begin_frame_render_state, producerVars, workerVars, presentVars
  <2>2. work'.slots = work.slots
    BY <1>1, <1>4, WorkerStill DEF begin_frame_render_state, Work
  <2> QED
    BY <2>1, <2>2 DEF Unqueued, Unsealed, Encoding
<1>5. CASE \E n \in Slot : seal_frame_locked(n)
  <2>1. UNCHANGED <<jobs, current, shown, cur>> /\ wpc = "seal"
    BY <1>1, <1>5, Seals
  <2> QED
    BY <2>1 DEF Unqueued, Unsealed
<1>6. CASE encode_sealed_frame
  <2>1. UNCHANGED <<jobs, current, shown, cur, ctl, wpc>> /\ work'.slots = work.slots
    BY <1>1, <1>6, Encodes DEF Work
  <2> QED
    BY <2>1 DEF Unqueued, Unsealed, Encoding
<1>7. CASE Cycles \/ WorkerIsDone
  <2>1. UNCHANGED <<jobs, current, shown, cur, work>>
    BY <1>7 DEF Cycles, WorkerWakes, WorkerIsAllowed, WorkerPrepared, WorkerExits, WorkerIsDone,
       producerVars, presentVars
  <2>2. Unqueued' => Unqueued
    BY <1>1, <1>7, <2>1 DEF Cycles, WorkerWakes, WorkerIsAllowed, WorkerPrepared, WorkerExits,
       WorkerIsDone, WorkerGoes, Unqueued, Unsealed, Encoding, Control
  <2> QED
    BY <2>1, <2>2
<1> QED
  BY <1>2, <1>3, <1>4, <1>5, <1>6, <1>7, Steps

LEMMA LinedKept ==
    ASSUME IInv, [Next]_vars
    PROVE  Lined'
<1>1. /\ FrameTypes /\ StageTypes /\ FlagTypes /\ JobTypes /\ PoolTypes /\ Phases /\ Turns /\ Drawn
      /\ Grouped /\ Lined /\ ctl \in Control /\ work \in Work
  BY DEF IInv, Types, StageTypes
<1>2. /\ jobs \in Seq(Job) /\ current \in Job \cup {NoJob} /\ shown \in Job \cup {NoJob}
      /\ cur \in Nat /\ Range(jobs) \subseteq Job
  BY <1>1, InRange DEF JobTypes, FrameTypes, Frame
<1>3. \A j \in Range(jobs) \cup {current, shown} : j.frame \in Nat /\ j \in Job \cup {NoJob}
  BY <1>2, LaterLaws
<1>4. CASE end_frame
  <2>1. UNCHANGED <<jobs, current, shown>> /\ cur' = cur + 1
    BY <1>4 DEF end_frame, presentVars
  <2> QED
    <3>1. \A j \in Range(jobs) \cup {current, shown} : j.frame < cur
      BY <1>1 DEF Lined
    <3>2. \A j \in Range(jobs) \cup {current, shown} : j.frame < cur' /\ j.frame < cur' - 1
      <4>1. cur' - 1 = cur /\ cur' = cur + 1
        BY <1>2, <2>1
      <4>2. ASSUME NEW n \in Nat, n < cur PROVE n < cur' /\ n < cur' - 1
        BY <1>2, <4>1, <4>2
      <4> QED
        BY <1>3, <3>1, <4>2
    <3>3. /\ Increasing(jobs) /\ Len(jobs) <= 3 * Group /\ (current # NoJob => Later(current, shown))
          /\ \A j \in Range(jobs) : Later(j, current) /\ Later(j, shown)
      BY <1>1 DEF Lined, Increasing
    <3>4. /\ Increasing(jobs') /\ Len(jobs') <= 3 * Group
          /\ current' # NoJob => Later(current', shown')
          /\ \A j \in Range(jobs') : Later(j, current') /\ Later(j, shown')
      BY <2>1, <3>3
    <3>5. \A j \in Range(jobs') \cup {current', shown'} : j.frame < cur' /\ j.frame < cur' - 1
      BY <2>1, <3>2
    <3> QED
      BY <3>4, <3>5, LinedNext
<1>5. CASE enqueue_presentations
  <2> DEFINE g == work.group
  <2>1. /\ g \in Seq(Job) /\ Len(g) \in 1 .. Group
        /\ \A j \in Range(g) : j.frame = cur - 1
        /\ Increasing(g) /\ ~Unqueued'
        /\ \A j \in Range(jobs) \cup {current, shown} : j.frame < cur - 1
        /\ jobs' = IF Len(jobs) + Len(g) > maximumQueuedJobs THEN g ELSE jobs \o g
    BY <1>1, <1>5, EnqueuedGroup
  <2>2. UNCHANGED <<current, shown, cur>>
    BY <1>5 DEF enqueue_presentations, producerVars, presentVars
  <2> HIDE DEF g
  <2>3. Range(g) \subseteq Job
    BY <2>1, InRange
  <2>4. \A j \in Range(g) : Later(j, current) /\ Later(j, shown) /\ j.frame < cur
    BY <1>2, <1>3, <2>1, <2>3, LaterLaws
  <2>5. \A j \in Range(g), k \in Range(jobs) : Later(j, k)
    BY <1>2, <1>3, <2>1, <2>3, LaterLaws
  <2>6. CASE Len(jobs) + Len(g) > maximumQueuedJobs
    <3>1. jobs' = g /\ Len(g) <= 3 * Group
      BY <2>1, <2>6 DEF Group
    <3>2. current # NoJob => Later(current, shown)
      BY <1>1 DEF Lined
    <3>3. \A j \in Range(jobs') \cup {current', shown'} : j.frame < cur'
      BY <1>1, <2>2, <2>4, <3>1 DEF Lined
    <3> QED
      BY <2>1, <2>2, <2>4, <3>1, <3>2, <3>3, LinedNext
  <2>7. CASE ~(Len(jobs) + Len(g) > maximumQueuedJobs)
    <3>1. jobs' = jobs \o g
      BY <2>1, <2>7
    <3>2. PICK m \in Nat, n \in 1 .. Group : m = Len(jobs) /\ n = Len(g)
      BY <1>2, <2>1, LenProperties
    <3>3. /\ Len(jobs \o g) = m + n /\ Range(jobs \o g) = Range(jobs) \cup Range(g)
          /\ \A i \in 1 .. m : (jobs \o g)[i] = jobs[i]
          /\ \A i \in 1 .. n : (jobs \o g)[m + i] = g[i]
          /\ \A i \in 1 .. m + n : i \in 1 .. m \/ \E k \in 1 .. n : i = m + k
      BY <1>2, <2>1, <3>2, RangeOfConcat
    <3>4. m + n <= 3 * Group
      <4>1. maximumQueuedJobs <= 3 * Group
        BY <3>2 DEF maximumQueuedJobs, Group, g
      <4> QED
        BY <2>7, <3>2, <4>1 DEF maximumQueuedJobs, Group, g
    <3>5. Increasing(jobs \o g)
      <4> DEFINE q == jobs \o g
      <4> SUFFICES ASSUME NEW i \in 1 .. m + n, NEW k \in 1 .. m + n, i < k
                   PROVE  Later(q[k], q[i])
        BY <3>3 DEF Increasing
      <4>1. /\ \A a \in 1 .. m : q[a] = jobs[a] /\ jobs[a] \in Range(jobs)
            /\ \A a \in 1 .. n : q[m + a] = g[a] /\ g[a] \in Range(g)
        BY <1>2, <2>1, <3>2, <3>3, InRange
      <4> HIDE DEF q
      <4>2. CASE i \in 1 .. m /\ k \in 1 .. m
        BY <1>1, <3>2, <4>1, <4>2 DEF Lined
      <4>3. CASE i \in 1 .. m /\ k \notin 1 .. m
        <5>1. PICK a \in 1 .. n : k = m + a
          BY <3>3, <4>3
        <5> QED
          BY <2>5, <4>1, <4>3, <5>1
      <4>4. CASE i \notin 1 .. m
        <5>1. PICK a \in 1 .. n : i = m + a
          BY <3>3, <4>4
        <5>2. k \notin 1 .. m
          BY <3>2, <5>1
        <5>3. PICK b \in 1 .. n : k = m + b
          BY <3>3, <5>2
        <5>4. a < b
          BY <3>2, <5>1, <5>3
        <5> QED
          BY <2>1, <3>2, <4>1, <5>1, <5>3, <5>4 DEF Increasing
      <4> QED
        BY <4>2, <4>3, <4>4
    <3>6. \A j \in Range(jobs) : Later(j, current) /\ Later(j, shown) /\ j.frame < cur
      BY <1>1 DEF Lined
    <3>7. current # NoJob => Later(current, shown)
      BY <1>1 DEF Lined
    <3>8. current.frame < cur /\ shown.frame < cur
      BY <1>1 DEF Lined
    <3>9. /\ \A j \in Range(jobs') : Later(j, current') /\ Later(j, shown')
          /\ \A j \in Range(jobs') \cup {current', shown'} : j.frame < cur'
      BY <2>2, <2>4, <3>1, <3>3, <3>6, <3>8
    <3>10. Len(jobs') <= 3 * Group
      BY <3>1, <3>3, <3>4
    <3> QED
      BY <2>1, <2>2, <3>1, <3>5, <3>7, <3>9, <3>10, LinedNext
  <2> QED
    BY <2>6, <2>7
<1>6. CASE PresenterTakes
  <2> DEFINE r == Tail(jobs)
             h == Head(jobs)
  <2>1. current' = h /\ jobs' = r /\ jobs # << >> /\ ppc = "wait"
    BY <1>6 DEF PresenterTakes
  <2>2. /\ r \in Seq(Job) /\ h \in Job /\ h = jobs[1] /\ Len(jobs) >= 1 /\ Len(r) = Len(jobs) - 1
        /\ Range(jobs) = Range(r) \cup {h} /\ \A i \in 1 .. Len(jobs) - 1 : r[i] = jobs[i + 1]
    BY <1>2, <2>1, RangeOfTail
  <2> HIDE DEF r, h
  <2>0. Range(r) = {r[i] : i \in 1 .. Len(r)}
    BY <2>2, InRange
  <2>3. PICK n \in Nat : Len(jobs) = n + 1 /\ Len(r) = n
    <3>1. Len(jobs) \in Nat
      BY <1>2, LenProperties
    <3>2. Len(jobs) - 1 \in Nat
      BY <2>2, <3>1
    <3> QED
      BY <2>2, <3>1, <3>2
  <2>4. \A i \in 1 .. n : r[i] = jobs[i + 1] /\ i + 1 \in 1 .. n + 1 /\ 1 < i + 1
    BY <2>2, <2>3
  <2>5. 1 \in 1 .. n + 1 /\ \A i, k \in 1 .. n + 1 : i < k => Later(jobs[k], jobs[i])
    BY <1>1, <2>3 DEF Lined
  <2>6. \A i, k \in 1 .. n : i < k => Later(r[k], r[i])
    BY <2>4, <2>5
  <2>7. \A i \in 1 .. n : Later(r[i], h)
    BY <2>2, <2>4, <2>5
  <2>8. \A j \in Range(r) : Later(j, h)
    BY <2>0, <2>3, <2>7
  <2>9. UNCHANGED <<shown, cur>> /\ (Unqueued' <=> Unqueued)
    BY <1>6 DEF PresenterTakes, producerVars, workerVars, Unqueued, Unsealed, Encoding
  <2>10. Len(r) <= 3 * Group
    BY <1>1, <2>3 DEF Lined, Group
  <2> QED
    BY <1>1, <2>1, <2>2, <2>3, <2>6, <2>8, <2>9, <2>10 DEF Lined, Later
<1>7. CASE PresenterSkips \/ Presents
  <2>1. /\ UNCHANGED <<jobs, cur>> /\ current' = NoJob /\ shown' \in {shown, current}
        /\ ppc \in {"present", "hold"}
    BY <1>7 DEF PresenterSkips, Presents, producerVars
  <2>2. Unqueued' <=> Unqueued
    BY <1>7 DEF PresenterSkips, Presents, workerVars, Unqueued, Unsealed, Encoding
  <2>3. \A j \in Range(jobs) : Later(j, NoJob)
    BY <1>2, LaterLaws
  <2>4. NoJob.frame < cur /\ (Unqueued => NoJob.frame < cur - 1)
    <3>1. current # NoJob /\ current \in Job
      BY <1>1, <1>2, <2>1 DEF Turns
    <3>2. NoJob.frame = 0 /\ current.frame > 0 /\ current.frame \in Nat
      BY <3>1 DEF NoJob, Job
    <3> QED
      BY <1>1, <1>2, <3>2 DEF Lined
  <2> QED
    BY <1>1, <2>1, <2>2, <2>3, <2>4 DEF Lined, Later
<1>8. CASE acquire_surface_texture \/ PresenterExits
  <2>1. UNCHANGED <<jobs, current, shown, cur, ctl, wpc, work>>
    BY <1>8 DEF acquire_surface_texture, PresenterExits, producerVars, workerVars
  <2> QED
    BY <1>1, <2>1, LinedStays DEF Unqueued, Unsealed, Encoding
<1>9. CASE ShutDown
  <2>1. UNCHANGED <<current, shown, cur, ctl, wpc, work>> /\ jobs' = << >>
    BY <1>9 DEF ShutDown, workerVars
  <2>2. Range(<< >>) = {} /\ Len(<< >>) = 0
    BY <1>2, EmptySeq, InRange
  <2>3. (Unqueued' <=> Unqueued) /\ 0 <= 3 * Group
    BY <2>1 DEF Unqueued, Unsealed, Encoding, Group
  <2> QED
    BY <1>1, <2>1, <2>2, <2>3 DEF Lined, Later
<1>10. CASE ~end_frame /\ ~enqueue_presentations /\ ~Presenter /\ ~ShutDown
  BY <1>1, <1>10, QueueStill, LinedStays
<1> QED
  BY <1>4, <1>5, <1>6, <1>7, <1>8, <1>9, <1>10 DEF Presenter

-----------------------------------------------------------------------------
(* The images.                                                              *)

LEMMA HeldJobs ==
    ASSUME JobTypes, StageTypes
    PROVE  /\ Held \subseteq Job \cup {NoJob} /\ Range(jobs) \subseteq Job
           /\ Range(work.group) \subseteq Job
<1>1. jobs \in Seq(Job) /\ work.group \in Seq(Job) /\ current \in Job \cup {NoJob}
  BY DEF JobTypes, StageTypes, Work
<1>2. Range(jobs) \subseteq Job /\ Range(work.group) \subseteq Job
  BY <1>1, InRange
<1> QED
  BY <1>1, <1>2 DEF Held

LEMMA PicturesStay ==
    ASSUME Pictures, UNCHANGED pool, lost \subseteq lost', Held' \subseteq Held \cup {NoJob}
    PROVE  Pictures'
BY DEF Pictures, Imaged, Faithful

(* The image that is painted is free, or new: no job has it.                *)
LEMMA PicturesPainted ==
    ASSUME PoolTypes, JobTypes, StageTypes, Pictures, lost \subseteq lost',
           NEW s \in Slot, NEW i, i = acquire_presentation_image(s), NEW p \in Picture,
           pool' = Painted(s, i, p),
           NEW e \in Job, e.slot = s, e.image = i, p.frame = e.frame, e.frame \in lost' \/ p.true,
           Held' \subseteq Held \cup {e}
    PROVE  Pictures'
<1>1. /\ i \in 1 .. Len(pool[s]) + 1 /\ Len(pool[s]) \in Nat /\ DOMAIN pool[s] = 1 .. Len(pool[s])
      /\ i \in FreeImages(s) \/ i = Len(pool[s]) + 1
  BY Acquired, LenProperties DEF PoolTypes
<1>2. /\ i \in DOMAIN pool'[s] /\ pool'[s][i] = p
      /\ \A r \in Slot : DOMAIN pool[r] \subseteq DOMAIN pool'[r]
      /\ \A r \in Slot : \A k \in DOMAIN pool[r] :
            ~(r = s /\ k = i) => pool'[r][k] = pool[r][k]
  BY <1>1, PaintedImage
<1>3. ASSUME NEW j \in Held \ {NoJob} PROVE Imaged(j)' /\ Faithful(j)'
  <2>1. j \in Job /\ j.slot \in Slot
    BY <1>3, HeldJobs DEF Job
  <2>2. Imaged(j) /\ Faithful(j)
    BY <1>3 DEF Pictures
  <2>3. ~(j.slot = s /\ j.image = i)
    <3>1. i \in FreeImages(s) => ~(j.slot = s /\ j.image = i)
      BY <1>3 DEF FreeImages
    <3>2. Len(pool[s]) + 1 \notin DOMAIN pool[s]
      BY <1>1
    <3> QED
      BY <1>1, <2>2, <3>1, <3>2 DEF Imaged
  <2>4. j.image \in DOMAIN pool'[j.slot] /\ pool'[j.slot][j.image] = pool[j.slot][j.image]
    BY <1>2, <2>1, <2>2, <2>3 DEF Imaged
  <2> QED
    BY <2>2, <2>4 DEF Imaged, Faithful
<1>4. Imaged(e)' /\ Faithful(e)'
  BY <1>2 DEF Imaged, Faithful
<1> QED
  BY <1>3, <1>4 DEF Pictures

LEMMA HeldStays ==
    ASSUME IInv, [Next]_vars, ~encode_sealed_frame, ~\E n \in Slot : seal_frame_locked(n)
    PROVE  Held' \subseteq Held \cup {NoJob} /\ pool' = pool
<1>1. /\ FrameTypes /\ StageTypes /\ JobTypes /\ Phases /\ Turns /\ Drawn /\ Grouped /\ Lined
      /\ work \in Work /\ jobs \in Seq(Job) /\ work.group \in Seq(Job)
  BY DEF IInv, Types, StageTypes, JobTypes, Work
<1>2. ASSUME UNCHANGED <<jobs, current, pool>>, work'.group = work.group
      PROVE  Held' \subseteq Held \cup {NoJob} /\ pool' = pool
  BY <1>2 DEF Held
<1>3. CASE WriteCommand \/ drain \/ DrawOverlay \/ Outside \/ IsDown \/ UNCHANGED vars \/ Goings
           \/ end_frame
  <2>1. UNCHANGED <<jobs, current, pool>>
    BY <1>3 DEF WriteCommand, drain, DrawOverlay, Outside, WindowChanges, WindowResized, IsDown, vars,
       presentVars, end_frame, Goings, GX__CopyDisp, PresentUnpaced, BootEnds, BootIsOver,
       EnsureAuroraFrameActive, stop_frame_worker, stop_presenter, begin_frame, BeginJoinsWorker,
       BeginPrepared
  <2> QED
    BY <1>1, <1>2, <1>3, <2>1, WorkerStill
<1>4. ASSUME NEW t \in {"producer", "worker"}, Surfaces(t) \/ begin_frame_render_state(t)
      PROVE  Held' \subseteq Held \cup {NoJob} /\ pool' = pool
  <2>1. UNCHANGED <<jobs, current, pool>>
    BY <1>4 DEF Surfaces, ChecksSurface, wait_for_presenter_idle, MutatesSurface, Mutates,
       begin_frame_render_state, presentVars
  <2>2. work'.group = work.group
    BY <1>1, <1>4, WorkerStill DEF begin_frame_render_state, Work
  <2> QED
    BY <1>2, <2>1, <2>2
<1>5. CASE Cycles \/ WorkerIsDone
  BY <1>2, <1>5 DEF Cycles, WorkerWakes, WorkerIsAllowed, WorkerPrepared, WorkerExits, WorkerIsDone,
     presentVars
<1>6. CASE enqueue_presentations
  <2>1. UNCHANGED <<current, pool>> /\ work'.group = << >>
    BY <1>1, <1>6 DEF enqueue_presentations, Work
  <2>2. jobs' = work.group \/ jobs' = jobs \o work.group
    BY <1>1, <1>6, EnqueuedGroup
  <2>3. Range(jobs \o work.group) = Range(jobs) \cup Range(work.group)
    BY <1>1, RangeOfConcat
  <2>4. Range(<< >>) = {}
    BY EmptySeq, InRange, <1>1
  <2> QED
    BY <2>1, <2>2, <2>3, <2>4 DEF Held
<1>7. CASE PresenterTakes
  <2>1. /\ current' = Head(jobs) /\ jobs' = Tail(jobs) /\ jobs # << >>
        /\ UNCHANGED <<work, pool>>
    BY <1>7 DEF PresenterTakes, workerVars
  <2>2. Range(jobs) = Range(Tail(jobs)) \cup {Head(jobs)}
    BY <1>1, <2>1, RangeOfTail
  <2> QED
    BY <2>1, <2>2 DEF Held
<1>8. CASE acquire_surface_texture \/ PresenterExits
  BY <1>2, <1>8 DEF acquire_surface_texture, PresenterExits, workerVars
<1>9. CASE PresenterSkips \/ Presents \/ ShutDown
  <2>1. /\ UNCHANGED <<work, pool>> /\ current' \in {current, NoJob}
        /\ jobs' \in {jobs, << >>} /\ Range(<< >>) = {}
    BY <1>1, <1>9, EmptySeq, InRange DEF PresenterSkips, Presents, ShutDown, workerVars
  <2> QED
    BY <2>1 DEF Held
<1> QED
  BY <1>9, <1>3, <1>4, <1>5, <1>6, <1>7, <1>8, Steps DEF Presenter

LEMMA PicturesKept ==
    ASSUME IInv, [Next]_vars
    PROVE  Pictures'
<1>1. /\ FrameTypes /\ StageTypes /\ FlagTypes /\ JobTypes /\ PoolTypes /\ Phases /\ Turns /\ Drawn
      /\ Overlays /\ Grouped /\ Lined /\ Pictures /\ ctl \in Control /\ work \in Work
      /\ imgui \in ImGui
  BY DEF IInv, Types, StageTypes, FlagTypes
<1>2. CASE \E n \in Slot : seal_frame_locked(n)
  <2>1. PICK n \in Slot : seal_frame_locked(n)
    BY <1>2
  <2> DEFINE w == Sealed(n)
             e == JobOf(w, First)
             p == PictureOf(w)
  <2>2. /\ wpc = "seal" /\ w.frame = cur - 1 /\ w.draws = recorded /\ w \in Work /\ 0 \in Slot
        /\ e = [frame |-> cur - 1, slot |-> 0, image |-> First] /\ e \in Job /\ p \in Picture
        /\ n = 0 => work' = [w EXCEPT !.group = <<e>>] /\ pool' = Painted(0, First, p)
        /\ n # 0 => work' = w /\ pool' = pool
        /\ w.group = << >> /\ UNCHANGED <<jobs, current, ended>>
        /\ lost' = IF open THEN lost ELSE lost \cup {cur - 1}
    BY <1>1, <2>1, Seals
  <2>3. p.frame = w.frame /\ p.true = (w.draws = ended.draws /\ Rendered.data = ended.overlay)
    BY DEF PictureOf
  <2> HIDE DEF w, e, p
  <2>4. lost \subseteq lost' /\ e.slot = 0 /\ e.image = First /\ e.frame = cur - 1 /\ p.frame = e.frame
    BY <2>2, <2>3
  <2>5. cur - 1 \in lost' \/ p.true
    <3>1. SUFFICES ASSUME cur - 1 \notin lost' PROVE p.true
      OBVIOUS
    <3>2. open /\ cur - 1 \notin lost /\ Unsealed
      BY <2>2, <3>1 DEF Unsealed
    <3>3. recorded = ended.draws
      BY <1>1, <3>2 DEF Drawn
    <3>4. imgui.started /\ imgui.overlay = ended.overlay
      BY <1>1, <3>2 DEF Overlays
    <3>5. Rendered.data = ended.overlay
      BY <1>1, <3>4, RenderedTypes
    <3> QED
      BY <2>2, <2>3, <3>3, <3>5
  <2>6. CASE n = 0
    <3>1. work'.group = <<e>> /\ Range(<<e>>) = {e}
      BY <2>2, <2>6, RangeOfOne DEF Work
    <3>2. Held' \subseteq Held \cup {e}
      BY <2>2, <3>1 DEF Held
    <3>3. pool' = Painted(0, First, p) /\ First = acquire_presentation_image(0)
      BY <2>2, <2>6 DEF First
    <3> QED
      BY <1>1, <2>2, <2>4, <2>5, <3>2, <3>3, PicturesPainted
  <2>7. CASE n # 0
    <3>1. Range(<< >>) = {}
      BY <1>1, EmptySeq, InRange
    <3>2. Held' \subseteq Held \cup {NoJob} /\ pool' = pool
      BY <2>2, <2>7, <3>1 DEF Held
    <3> QED
      BY <1>1, <2>4, <3>2, PicturesStay
  <2> QED
    BY <2>6, <2>7
<1>3. CASE encode_sealed_frame
  <2> DEFINE e == JobOf(work, EncodedImage)
             p == PictureOf(work)
  <2>1. /\ wpc = "encode" /\ EncodedSlot \in Slot /\ work.frame = cur - 1
        /\ e = [frame |-> cur - 1, slot |-> EncodedSlot, image |-> EncodedImage]
        /\ e \in Job /\ p \in Picture
        /\ work' = [work EXCEPT !.group = Append(work.group, e)]
        /\ pool' = Painted(EncodedSlot, EncodedImage, p)
        /\ UNCHANGED <<jobs, current, ended, lost>>
    BY <1>1, <1>3, Encodes
  <2>2. p.frame = work.frame /\ p.true = (work.draws = ended.draws /\ Rendered.data = ended.overlay)
    BY DEF PictureOf
  <2> HIDE DEF e, p
  <2>3. e.slot = EncodedSlot /\ e.image = EncodedImage /\ e.frame = cur - 1 /\ p.frame = e.frame
    BY <2>1, <2>2
  <2>4. cur - 1 \in lost \/ p.true
    <3>1. InHand /\ Encoding
      BY <1>1, <2>1 DEF InHand, Encoding, Phases
    <3>2. cur - 1 \in lost \/ work.draws = ended.draws
      BY <1>1, <3>1 DEF Drawn
    <3>3. ~imgui.started /\ (cur - 1 \in lost \/ imgui.data = ended.overlay)
      BY <1>1, <3>1 DEF Overlays
    <3>4. Rendered.data = imgui.data
      BY <1>1, <3>3, RenderedTypes
    <3> QED
      BY <2>2, <3>2, <3>3, <3>4
  <2>5. work'.group = Append(work.group, e) /\ work.group \in Seq(Job)
    BY <1>1, <2>1 DEF Work
  <2>6. Range(work'.group) = Range(work.group) \cup {e}
    BY <2>1, <2>5, RangeOfAppend
  <2>7. Held' \subseteq Held \cup {e} /\ lost' = lost
    BY <2>1, <2>6 DEF Held
  <2>8. EncodedImage = acquire_presentation_image(EncodedSlot)
    BY DEF EncodedImage
  <2> QED
    BY <1>1, <2>1, <2>3, <2>4, <2>7, <2>8, PicturesPainted
<1>4. CASE ~encode_sealed_frame /\ ~\E n \in Slot : seal_frame_locked(n)
  <2>1. lost \subseteq lost'
    <3>1. drain \/ end_frame => lost \subseteq lost'
      BY DEF drain, end_frame, Decode
    <3>2. WriteCommand \/ DrawOverlay \/ Goings \/ ShutDown => lost' = lost
      BY DEF WriteCommand, DrawOverlay, Goings, GX__CopyDisp, PresentUnpaced, BootEnds, BootIsOver,
         EnsureAuroraFrameActive, stop_frame_worker, stop_presenter, begin_frame, BeginJoinsWorker,
         BeginPrepared, ShutDown, ghostVars
    <3>3. \A t \in {"producer", "worker"} :
            Surfaces(t) \/ begin_frame_render_state(t) => lost' = lost
      BY DEF Surfaces, ChecksSurface, wait_for_presenter_idle, MutatesSurface, Mutates,
         begin_frame_render_state, ghostVars
    <3>4. Outside \/ Presenter \/ IsDown \/ UNCHANGED vars => lost' = lost
      BY DEF Outside, WindowChanges, WindowResized, Presenter, PresenterTakes, PresenterSkips,
         acquire_surface_texture, Presents, PresenterExits, IsDown, vars, ghostVars
    <3>5. Cycles \/ enqueue_presentations \/ WorkerIsDone => lost' = lost
      BY DEF Cycles, WorkerWakes, WorkerIsAllowed, WorkerPrepared, WorkerExits, enqueue_presentations,
         WorkerIsDone, ghostVars
    <3> QED
      BY <1>4, <3>1, <3>2, <3>3, <3>4, <3>5, Steps
  <2> QED
    BY <1>1, <1>4, <2>1, HeldStays, PicturesStay
<1> QED
  BY <1>2, <1>3, <1>4

-----------------------------------------------------------------------------
(* The invariant holds.                                                     *)

LEMMA InitGood == Init => IInv
<1> SUFFICES ASSUME Init PROVE IInv
  OBVIOUS
<1>1. /\ \A S : << >> \in Seq(S) /\ Len(<< >>) = 0
      /\ Range(<< >>) = {} /\ << >> \o << >> = << >>
  <2>1. \A S : << >> \in Seq(S) /\ Len(<< >>) = 0
    BY EmptySeq
  <2>2. \A r \in Seq(Nat) : r = << >> <=> Range(r) = {}
    BY InRange
  <2>3. << >> \in Seq(Nat)
    BY <2>1
  <2>4. << >> \o << >> = << >>
    BY <2>3, ConcatEmptySeq
  <2> QED
    BY <2>1, <2>2, <2>3, <2>4
<1>2. /\ 0 \in 0 .. MaxFrames + 1 /\ 0 \in 0 .. MaxFrames /\ 0 \in Slot /\ 1 \in Frame
      /\ 0 \in 0 .. MaxFaults
  BY DEF Slot, Frame
<1>3. FrameTypes /\ FlagTypes /\ SurfaceTypes /\ JobTypes /\ PoolTypes
  BY <1>1, <1>2 DEF Init, FrameTypes, FlagTypes, SurfaceTypes, JobTypes, PoolTypes, Written, Nothing, ImGui
<1>4. StageTypes
  BY <1>1, <1>2 DEF Init, StageTypes, Control, Work, Prep, Idle
<1>5. Phases /\ ~Unsealed /\ ~InHand /\ ~Encoding /\ ~Unqueued
  BY DEF Init, Phases, InHand, Unsealed, Encoding, Unqueued
<1>6. Turns
  BY <1>5 DEF Init, Turns
<1>7. Drawn /\ Overlays
  BY <1>1, <1>5 DEF Init, Drawn, Overlays, Idle, Nothing
<1>8. Grouped
  BY <1>1 DEF Init, Grouped, Idle
<1>9. Lined
  BY <1>1, <1>5 DEF Init, Lined, NoJob, Group
<1>10. Pictures
  BY <1>1 DEF Init, Pictures, Held, Idle
<1> QED
  BY <1>3, <1>4, <1>5, <1>6, <1>7, <1>8, <1>9, <1>10 DEF IInv, Types

LEMMA IInvKept == IInv /\ [Next]_vars => IInv'
<1> SUFFICES ASSUME IInv, [Next]_vars PROVE IInv'
  OBVIOUS
<1>1. Types' /\ Phases' /\ Turns' /\ Drawn'
  BY TypesKept, PhasesKept, TurnsKept, DrawnKept
<1>2. Overlays' /\ Grouped' /\ Lined' /\ Pictures'
  BY OverlaysKept, GroupedKept, LinedKept, PicturesKept
<1> QED
  BY <1>1, <1>2 DEF IInv

LEMMA IInvHolds == Spec => []IInv
BY InitGood, IInvKept, PTL DEF Spec

-----------------------------------------------------------------------------
(* The theorems.                                                            *)

(* The slots, frames and images of what is queued exist, the queue stays    *)
(* within three groups, and DONE is never signalled before SEALED.          *)
THEOREM TypesCorrect == Spec => []TypeOK
<1>1. IInv => TypeOK
  <2> SUFFICES ASSUME IInv PROVE TypeOK
    OBVIOUS
  <2>1. FrameTypes /\ StageTypes /\ FlagTypes /\ SurfaceTypes /\ JobTypes /\ Phases /\ Lined /\ Pictures
    BY DEF IInv, Types
  <2>2. cur \in Frame /\ imgui.overlay \in 0 .. MaxFrames + 1
    BY <2>1 DEF FrameTypes, FlagTypes, ImGui
  <2>3. Range(fifo) \subseteq Frame /\ Range(recorded) \subseteq Frame /\ lost \subseteq Frame
    BY <2>1, InRange DEF FrameTypes
  <2>4. \A j \in Held \ {NoJob} : j.slot \in Slot /\ j.image \in DOMAIN pool[j.slot]
    BY <2>1, HeldJobs DEF Pictures, Imaged, Job
  <2>5. Len(jobs) <= 3 * Group /\ (ctl.ready => ctl.sealed)
    BY <2>1 DEF Lined, Phases
  <2> QED
    BY <2>1, <2>2, <2>3, <2>4, <2>5 DEF TypeOK, SurfaceTypes
<1> QED
  BY <1>1, IInvHolds, PTL

(* What the worker encodes as a frame is what the producer wrote between    *)
(* that frame's begin and its end.                                          *)
THEOREM NeverMixed == Spec => []FramesNotMixed
<1>1. IInv => FramesNotMixed
  BY DEF IInv, Drawn, InHand, FramesNotMixed
<1> QED
  BY <1>1, IInvHolds, PTL

(* An image that is queued or held shows its job's frame and slot, with the *)
(* overlay of that frame, however the pools are reused.                     *)
THEOREM PicturesAreTrue == Spec => []PicturesTrue
<1>1. IInv => PicturesTrue
  BY DEF IInv, Pictures, Imaged, Faithful, PicturesTrue
<1> QED
  BY <1>1, IInvHolds, PTL

(* A begin does not touch the surface while the presenter has its texture.  *)
THEOREM SurfaceKept == Spec => NotUnderPresent
<1>1. IInv /\ [Next]_vars => [texture = "held" => surface' = surface /\ (sizeOk' => sizeOk)]_vars
  <2> SUFFICES ASSUME IInv, [Next]_vars, texture = "held"
               PROVE  surface' = surface /\ (sizeOk' => sizeOk)
    OBVIOUS
  <2>1. ASSUME NEW t \in {"producer", "worker"}, Surfaces(t) \/ begin_frame_render_state(t)
        PROVE  UNCHANGED <<surface, sizeOk>>
    BY <2>1 DEF Surfaces, ChecksSurface, wait_for_presenter_idle, MutatesSurface,
       begin_frame_render_state, surfaceVars
  <2>2. CASE WriteCommand \/ drain \/ DrawOverlay \/ end_frame \/ Goings \/ ShutDown
    <3>1. UNCHANGED surfaceVars
      BY <2>2 DEF WriteCommand, drain, DrawOverlay, end_frame, Goings, GX__CopyDisp, PresentUnpaced,
         BootEnds, BootIsOver, EnsureAuroraFrameActive, stop_frame_worker, stop_presenter, begin_frame,
         BeginJoinsWorker, BeginPrepared, ShutDown
    <3> QED
      BY <3>1 DEF surfaceVars
  <2>3. CASE Outside \/ Presenter \/ IsDown \/ UNCHANGED vars
    BY <2>3 DEF Outside, WindowChanges, WindowResized, Presenter, PresenterTakes, PresenterSkips,
       acquire_surface_texture, Presents, PresenterExits, IsDown, vars, surfaceVars
  <2>4. CASE Cycles \/ (\E n \in Slot : seal_frame_locked(n)) \/ encode_sealed_frame
             \/ enqueue_presentations \/ WorkerIsDone
    <3>1. UNCHANGED surfaceVars
      BY <2>4 DEF Cycles, WorkerWakes, WorkerIsAllowed, WorkerPrepared, WorkerExits, seal_frame_locked,
         encode_sealed_frame, enqueue_presentations, WorkerIsDone
    <3> QED
      BY <3>1 DEF surfaceVars
  <2> QED
    BY <2>1, <2>2, <2>3, <2>4, Steps
<1> QED
  BY <1>1, IInvHolds, PTL DEF Spec, NotUnderPresent

(* Only the presenter shows an image, and it holds a job when it does.      *)
LEMMA Showings ==
    ASSUME IInv, [Next]_vars, shown' # shown
    PROVE  Presents /\ shown' = current /\ current # NoJob
<1>1. CASE end_frame \/ enqueue_presentations \/ ShutDown \/ PresenterTakes \/ PresenterSkips
           \/ acquire_surface_texture \/ PresenterExits
  BY <1>1 DEF end_frame, enqueue_presentations, ShutDown, PresenterTakes, PresenterSkips,
     acquire_surface_texture, PresenterExits, presentVars
<1>2. CASE Presents
  BY <1>2 DEF Presents, IInv, Turns
<1>3. CASE ~end_frame /\ ~enqueue_presentations /\ ~Presenter /\ ~ShutDown
  BY <1>3, QueueStill
<1> QED
  BY <1>1, <1>2, <1>3 DEF Presenter

(* Images are presented in the order of their frames and slots.             *)
THEOREM InOrder == Spec => PresentsInOrder
<1>1. IInv /\ [Next]_vars => [shown' # shown => Later(shown', shown)]_vars
  BY Showings DEF IInv, Lined
<1> QED
  BY <1>1, IInvHolds, PTL DEF Spec, PresentsInOrder

GivenUp(j) == j = current \/ (jobs' # << >> /\ \A k \in Range(jobs') : k.frame > j.frame)

LEMMA NewestStays ==
    ASSUME IInv, [Next]_vars, NEW j \in Held \ Held'
    PROVE  GivenUp(j)
<1>1. /\ FrameTypes /\ StageTypes /\ FlagTypes /\ JobTypes /\ PoolTypes /\ Phases /\ Turns /\ Drawn
      /\ Grouped /\ Lined /\ ctl \in Control /\ work \in Work /\ work.group \in Seq(Job)
      /\ jobs \in Seq(Job)
  BY DEF IInv, Types, StageTypes, JobTypes, Work
<1>2. j \in Range(jobs) \/ j \in Range(work.group) \/ j = current
  BY DEF Held
<1>3. CASE enqueue_presentations
  <2>1. /\ UNCHANGED <<current, cur>>
        /\ Len(work.group) \in 1 .. Group /\ \A k \in Range(work.group) : k.frame = cur - 1
        /\ \A k \in Range(jobs) \cup {current, shown} : k.frame < cur - 1
        /\ jobs' = IF Len(jobs) + Len(work.group) > maximumQueuedJobs
                   THEN work.group ELSE jobs \o work.group
    BY <1>1, <1>3, EnqueuedGroup DEF enqueue_presentations, producerVars, presentVars
  <2>2. Range(jobs \o work.group) = Range(jobs) \cup Range(work.group)
    BY <1>1, RangeOfConcat
  <2>3. work.group # << >>
    BY <2>1, EmptySeq
  <2>4. j = current \/ (j \in Range(jobs) /\ jobs' = work.group)
    BY <1>2, <2>1, <2>2 DEF Held
  <2>5. CASE j \in Range(jobs) /\ jobs' = work.group
    <3>1. \A k \in Range(jobs') : k.frame = cur - 1 /\ j.frame < cur - 1
      BY <2>1, <2>5
    <3>2. j.frame \in Nat /\ cur \in Nat
      <4>1. j \in Job
        BY <1>1, <2>5, HeldJobs
      <4> QED
        BY <1>1, <4>1 DEF Job, FrameTypes, Frame
    <3> QED
      BY <2>3, <2>5, <3>1, <3>2 DEF GivenUp
  <2> QED
    BY <2>4, <2>5 DEF GivenUp
<1>4. CASE PresenterTakes
  <2>1. /\ current' = Head(jobs) /\ jobs' = Tail(jobs) /\ jobs # << >> /\ work' = work
    BY <1>4 DEF PresenterTakes, workerVars
  <2>2. Range(jobs) = Range(Tail(jobs)) \cup {Head(jobs)}
    BY <1>1, <2>1, RangeOfTail
  <2> QED
    BY <1>2, <2>1, <2>2 DEF Held, GivenUp
<1>5. CASE PresenterSkips \/ Presents
  <2>1. UNCHANGED <<jobs, work>>
    BY <1>5 DEF PresenterSkips, Presents, workerVars
  <2> QED
    BY <1>2, <2>1 DEF Held, GivenUp
<1>6. CASE ShutDown
  <2>1. UNCHANGED <<current, work>> /\ ppc = "exited" /\ jobs' = << >>
    BY <1>6 DEF ShutDown, workerVars
  <2>2. jobs = << >>
    BY <1>1, <2>1 DEF Turns
  <2> QED
    BY <1>2, <2>1, <2>2 DEF Held, GivenUp
<1>7. CASE end_frame \/ acquire_surface_texture \/ PresenterExits
  <2>1. UNCHANGED <<jobs, current, work>>
    BY <1>7 DEF end_frame, acquire_surface_texture, PresenterExits, workerVars, presentVars
  <2> QED
    BY <1>2, <2>1 DEF Held
<1>8. CASE ~end_frame /\ ~enqueue_presentations /\ ~Presenter /\ ~ShutDown
  <2>1. UNCHANGED <<jobs, current>>
    BY <1>8, QueueStill
  <2>2. Range(work.group) \subseteq Range(work'.group)
    <3>1. CASE \E n \in Slot : seal_frame_locked(n)
      <4>1. wpc = "seal"
        BY <1>1, <3>1, Seals
      <4>2. work.group = << >>
        BY <1>1, <4>1 DEF Grouped
      <4> QED
        BY <1>1, <4>2, InRange
    <3>2. CASE encode_sealed_frame
      <4>1. /\ JobOf(work, EncodedImage) \in Job
            /\ work' = [work EXCEPT !.group = Append(work.group, JobOf(work, EncodedImage))]
        BY <1>1, <3>2, Encodes
      <4>2. work'.group = Append(work.group, JobOf(work, EncodedImage))
        BY <1>1, <4>1 DEF Work
      <4> QED
        BY <1>1, <4>1, <4>2, RangeOfAppend
    <3>3. ASSUME NEW t \in {"producer", "worker"}, Surfaces(t) \/ begin_frame_render_state(t)
          PROVE  work'.group = work.group
      BY <1>1, <3>3, WorkerStill DEF begin_frame_render_state, Work
    <3>4. Cycles \/ WorkerIsDone => work' = work
      BY DEF Cycles, WorkerWakes, WorkerIsAllowed, WorkerPrepared, WorkerExits, WorkerIsDone
    <3> QED
      BY <1>1, <1>8, <3>1, <3>2, <3>3, <3>4, WorkerStill, Steps
  <2> QED
    BY <1>2, <2>1, <2>2 DEF Held
<1> QED
  BY <1>3, <1>4, <1>5, <1>6, <1>7, <1>8 DEF Presenter

(* A job is given up only when it has been presented or skipped, or for a   *)
(* newer frame.                                                             *)
THEOREM NewestKept == Spec => NewestGroupKept
<1>1. IInv /\ [Next]_vars =>
        [\A j \in Held \ Held' : j = current \/ (jobs' # << >> /\ \A k \in Range(jobs') : k.frame > j.frame)]_vars
  BY NewestStays DEF GivenUp
<1> QED
  BY <1>1, IInvHolds, PTL DEF Spec, NewestGroupKept
=============================================================================
