-------------------------------- MODULE Frames --------------------------------
(***************************************************************************)
(* Renderer::renderFrame with everything that runs beside it: the queue    *)
(* of the GPU, the swapchain of every viewport and whoever shows its       *)
(* images (the windowing system, or the OpenXR compositor).                *)
(*                                                                         *)
(* The client fences the frame data it is about to reuse, records and      *)
(* submits the main commands, records the composite commands, acquires an  *)
(* image of every viewport, submits the composite commands and hands the   *)
(* images back.  The GPU starts submissions in order and may overlap them; *)
(* what a submission signals, it signals when all earlier ones are done    *)
(* too.  An image that is handed back is shown some time later, and read   *)
(* until another one has taken its place.                                  *)
(*                                                                         *)
(* What is drawn is RenderPasses' and DrawLists' business.              *)
(***************************************************************************)
EXTENDS Naturals, Sequences, FiniteSets

CONSTANTS
  FrameCount,       \* frames_in_flight.size()
  ImageCount,       \* images of a swapchain: the driver decides
  EyeCount          \* viewports of a headset

ASSUME FramesAssumption ==
  /\ FrameCount \in Nat \ {0} /\ ImageCount \in Nat \ {0} /\ EyeCount \in Nat \ {0}

VARIABLES
  display,          \* "sdl" or "openxr"
  queue_stall,      \* the CVar of this name
  resizable,        \* whether the window may be resized under a swapchain
  pc,               \* where the client is in renderFrame
  current_frame,
  is_in_use,        \* the fence of each frame: is it signalled?
  targets,          \* the image each viewport composites to, as recorded
  cursor,           \* the viewport that is acquired or released next
  waits,            \* on_viewport_acquire
  current_image,    \* Viewport::_current_image_index
  acquire_image_index,
  signalled,        \* the semaphores that are signalled
  acquiring,        \* <<semaphore, viewport, image>> the windowing system will signal
  queue,            \* what the GPU has been given and is not through with
  images,           \* viewport -> image -> who has it: "idle", "app", "queued", "shown"
  reading,          \* viewport -> images being read to be shown
  outOfDate         \* the window has been resized since the swapchain was created

clientVars == <<pc, current_frame, targets, cursor, waits, current_image,
                acquire_image_index>>
gpuVars == <<is_in_use, signalled, acquiring, queue>>
shownVars == <<images, reading, outOfDate>>
setupVars == <<display, queue_stall, resizable>>
vars == <<setupVars, clientVars, gpuVars, shownVars>>

Slots == 0 .. FrameCount - 1
Images == 0 .. ImageCount - 1
Eyes == 1 .. EyeCount
ViewportCount == IF display = "sdl" THEN 1 ELSE EyeCount
Viewports == 1 .. ViewportCount

on_render_finished(f) == <<"rendered", f>>
on_image_acquire(k) == <<"acquired", k>>
Semaphores == {on_render_finished(f) : f \in Slots} \cup {on_image_acquire(k) : k \in Images}

Submission(kind, slot, on, signals, image) ==
  [kind |-> kind, slot |-> slot, waits |-> on, signals |-> signals,
   image |-> image, status |-> "waiting"]

-----------------------------------------------------------------------------
FramesInit ==
  /\ display \in {"sdl", "openxr"} /\ queue_stall \in BOOLEAN /\ resizable \in BOOLEAN
  /\ pc = "loop" /\ current_frame = 0
  /\ is_in_use = [f \in Slots |-> TRUE]            \* VK_FENCE_CREATE_SIGNALED_BIT
  /\ targets = [v \in Eyes |-> 0] /\ cursor = 1 /\ waits = {}
  /\ current_image = [v \in Eyes |-> 0] /\ acquire_image_index = 0
  /\ signalled = {} /\ acquiring = {} /\ queue = <<>>
  /\ images = [v \in Eyes |-> [i \in Images |-> "idle"]]
  /\ reading = [v \in Eyes |-> {}] /\ outOfDate = FALSE

NextFrame == IF current_frame + 1 >= FrameCount THEN 0 ELSE current_frame + 1

\* renderFrame takes the next frame data and waits for its fence ...
BeginFrame ==
  /\ pc = "loop" /\ pc' = "fence"
  /\ current_frame' = NextFrame
  /\ UNCHANGED <<setupVars, gpuVars, shownVars, targets, cursor, waits, current_image,
                 acquire_image_index>>

FenceIgnored == TRUE                                           \* a mutant
FencePassed == is_in_use[current_frame]

\* ... resets it, and from here on reuses descriptor sets, uniforms and
\* command buffers.
FenceFrame ==
  /\ pc = "fence" /\ FencePassed
  /\ is_in_use' = [is_in_use EXCEPT ![current_frame] = FALSE]
  /\ pc' = "record"
  /\ UNCHANGED <<setupVars, shownVars, current_frame, targets, cursor, waits, current_image,
                 acquire_image_index, signalled, acquiring, queue>>

\* Main commands recorded and submitted, then the composite commands
\* recorded: each viewport names the image its framebuffer has at that time.
SubmitMain ==
  /\ pc = "record" /\ pc' = "acquire" /\ cursor' = 1 /\ waits' = {}
  /\ queue' = Append(queue, Submission("main", current_frame, {},
                                       {on_render_finished(current_frame)}, 0))
  /\ targets' = current_image
  /\ UNCHANGED <<setupVars, shownVars, current_frame, current_image, acquire_image_index,
                 is_in_use, signalled, acquiring>>

\* SdlViewport::_acquireImage: blocks until there is an image, unless the
\* swapchain is out of date; the result is not looked at.
SdlAcquire ==
  /\ pc = "acquire" /\ display = "sdl" /\ cursor <= ViewportCount
  /\ acquire_image_index' = (acquire_image_index + 1) % ImageCount
  /\ \/ /\ outOfDate
        /\ UNCHANGED <<acquiring, images, current_image>>
     \/ /\ ~outOfDate
        /\ \E i \in Images :
             /\ images[cursor][i] = "idle"
             /\ images' = [images EXCEPT ![cursor][i] = "app"]
             /\ current_image' = [current_image EXCEPT ![cursor] = i]
             /\ acquiring' = acquiring
                  \cup {<<on_image_acquire(acquire_image_index'), cursor, i>>}
  /\ waits' = waits \cup {on_image_acquire(acquire_image_index')}
  /\ cursor' = cursor + 1
  /\ UNCHANGED <<setupVars, pc, current_frame, targets, is_in_use, signalled, queue, reading,
                 outOfDate>>

\* OpenXrViewport::_acquireImage: no semaphore; the image may still be read.
XrAcquire ==
  /\ pc = "acquire" /\ display = "openxr" /\ cursor <= ViewportCount
  /\ \E i \in Images :
       /\ images[cursor][i] = "idle"
       /\ images' = [images EXCEPT ![cursor][i] = "app"]
       /\ current_image' = [current_image EXCEPT ![cursor] = i]
  /\ cursor' = cursor + 1
  /\ UNCHANGED <<setupVars, pc, current_frame, targets, waits, acquire_image_index, gpuVars,
                 reading, outOfDate>>

-----------------------------------------------------------------------------
CompositeWaits(f, on) == on \cup {on_render_finished(f)}

\* viewports_require_signal, as any SDL viewport makes it.
CompositeSignals(f) == IF display = "sdl" THEN {on_render_finished(f)} ELSE {}

SubmitComposite ==
  /\ pc = "acquire" /\ cursor > ViewportCount
  /\ queue' = Append(queue, Submission("composite", current_frame,
                                       CompositeWaits(current_frame, waits),
                                       CompositeSignals(current_frame), 0))
  /\ pc' = IF queue_stall THEN "stall" ELSE "release"
  /\ cursor' = 1 /\ waits' = {}
  /\ UNCHANGED <<setupVars, shownVars, current_frame, targets, current_image,
                 acquire_image_index, is_in_use, signalled, acquiring>>

QueueWaitIdle ==
  /\ pc = "stall" /\ queue = <<>> /\ pc' = "release"
  /\ UNCHANGED <<setupVars, gpuVars, shownVars, current_frame, targets, cursor, waits,
                 current_image, acquire_image_index>>

PresentWaits(f) == {on_render_finished(f)}

\* SdlViewport::_releaseImage
SdlRelease ==
  /\ pc = "release" /\ display = "sdl" /\ cursor <= ViewportCount
  /\ queue' = Append(queue, Submission("present", current_frame, PresentWaits(current_frame),
                                       {}, current_image[cursor]))
  /\ cursor' = cursor + 1
  /\ UNCHANGED <<setupVars, shownVars, pc, current_frame, targets, waits, current_image,
                 acquire_image_index, is_in_use, signalled, acquiring>>

\* OpenXrViewport::_releaseImage: only here does it wait until the image is
\* not read any more.
XrRelease ==
  /\ pc = "release" /\ display = "openxr" /\ cursor <= ViewportCount
  /\ current_image[cursor] \notin reading[cursor]
  /\ images' = [images EXCEPT ![cursor][current_image[cursor]] = "queued"]
  /\ cursor' = cursor + 1
  /\ UNCHANGED <<setupVars, pc, current_frame, targets, waits, current_image,
                 acquire_image_index, gpuVars, reading, outOfDate>>

EndFrame ==
  /\ pc = "release" /\ cursor > ViewportCount /\ pc' = "loop"
  /\ cursor' = 1 /\ targets' = [v \in Eyes |-> 0]       \* both read no more
  /\ UNCHANGED <<setupVars, gpuVars, shownVars, current_frame, waits, current_image,
                 acquire_image_index>>

RenderFrame ==
  \/ BeginFrame \/ FenceFrame \/ SubmitMain \/ SdlAcquire \/ XrAcquire
  \/ SubmitComposite \/ QueueWaitIdle \/ SdlRelease \/ XrRelease \/ EndFrame
-----------------------------------------------------------------------------
(* The window is resized: until the event is polled the swapchain is out of *)
(* date; then the viewport is deleted, with vkDeviceWaitIdle, and the next  *)
(* poll creates another.                                                    *)
Resize ==
  /\ resizable /\ display = "sdl" /\ ~outOfDate
  /\ outOfDate' = TRUE
  /\ UNCHANGED <<setupVars, clientVars, gpuVars, images, reading>>

RecreateViewport ==
  /\ pc = "loop" /\ display = "sdl" /\ outOfDate /\ queue = <<>>
  /\ outOfDate' = FALSE
  /\ current_image' = [current_image EXCEPT ![1] = 0] /\ acquire_image_index' = 0
  /\ images' = [images EXCEPT ![1] = [i \in Images |-> "idle"]]
  /\ reading' = [reading EXCEPT ![1] = {}]
  /\ acquiring' = {}
  /\ signalled' = signalled \ {on_image_acquire(k) : k \in Images}
  /\ UNCHANGED <<setupVars, pc, current_frame, targets, cursor, waits, is_in_use, queue>>

\* vkDeviceWaitIdle before the frames' data go.
DestroyFrameData ==
  /\ pc = "loop" /\ queue = <<>>
  /\ pc' = "destroyed"
  /\ UNCHANGED <<setupVars, gpuVars, shownVars, current_frame, targets, cursor, waits,
                 current_image, acquire_image_index>>

Destroyed == pc = "destroyed" /\ UNCHANGED vars
-----------------------------------------------------------------------------
(* The GPU.                                                                 *)
StartSubmission(n) ==
  /\ queue[n].status = "waiting"
  /\ \A m \in 1 .. n - 1 : queue[m].status # "waiting"
  /\ queue[n].waits \subseteq signalled
  /\ signalled' = signalled \ queue[n].waits
  /\ queue' = [queue EXCEPT ![n].status = "running"]
  /\ UNCHANGED <<setupVars, clientVars, shownVars, is_in_use, acquiring>>

FencedByMain(kind) == kind = "main"                            \* a mutant
FencedByNothing(kind) == FALSE                                 \* a mutant
\* The fence goes with the composite commands, not with the main ones.
FencedBy(kind) == kind = "composite"

\* The oldest submission is through: its commands have been executed, or an
\* image that has been waited for is the windowing system's.
FinishSubmission ==
  /\ queue # <<>> /\ queue[1].status = "running"
  /\ signalled' = signalled \cup queue[1].signals
  /\ is_in_use' = IF FencedBy(queue[1].kind)
                  THEN [is_in_use EXCEPT ![queue[1].slot] = TRUE] ELSE is_in_use
  /\ images' = IF queue[1].kind = "present" /\ ~outOfDate
               THEN [images EXCEPT ![1][queue[1].image] = "queued"] ELSE images
  /\ queue' = Tail(queue)
  /\ UNCHANGED <<setupVars, clientVars, reading, outOfDate, acquiring>>

Gpu == FinishSubmission \/ \E n \in DOMAIN queue : StartSubmission(n)
-----------------------------------------------------------------------------
(* Whoever shows the images.                                                *)
SignalAcquire(a) ==
  /\ a[3] \notin reading[a[2]]
  /\ signalled' = signalled \cup {a[1]}
  /\ acquiring' = acquiring \ {a}
  /\ UNCHANGED <<setupVars, clientVars, shownVars, is_in_use, queue>>

\* An image that was handed back is shown from now on; the one it replaces may
\* be acquired, though it may be read a little longer.
Show(v, i) ==
  /\ images[v][i] = "queued"
  /\ images' = [images EXCEPT ![v] = [j \in Images |-> IF j = i THEN "shown"
                                      ELSE IF images[v][j] = "shown" THEN "idle"
                                      ELSE images[v][j]]]
  /\ reading' = [reading EXCEPT ![v] = @ \cup {i}]
  /\ UNCHANGED <<setupVars, clientVars, gpuVars, outOfDate>>

StopReading(v, i) ==
  /\ i \in reading[v] /\ images[v][i] # "shown"
  /\ reading' = [reading EXCEPT ![v] = @ \ {i}]
  /\ UNCHANGED <<setupVars, clientVars, gpuVars, images, outOfDate>>

Shower ==
  \/ \E a \in acquiring : SignalAcquire(a)
  \/ \E v \in Viewports, i \in Images : Show(v, i) \/ StopReading(v, i)

Next == RenderFrame \/ Resize \/ RecreateViewport \/ DestroyFrameData \/ Destroyed \/ Gpu \/ Shower

Spec == FramesInit /\ [][Next]_vars

\* The loop calls renderFrame again and again, the driver executes what it was
\* given, and images are shown.
FairSpec == Spec /\ WF_vars(RenderFrame) /\ WF_vars(Gpu) /\ WF_vars(Shower)
-----------------------------------------------------------------------------
TypeOK ==
  /\ display \in {"sdl", "openxr"} /\ queue_stall \in BOOLEAN /\ resizable \in BOOLEAN
  /\ pc \in {"loop", "fence", "record", "acquire", "stall", "release", "destroyed"}
  /\ current_frame \in Slots /\ is_in_use \in [Slots -> BOOLEAN]
  /\ targets \in [Eyes -> Images] /\ current_image \in [Eyes -> Images]
  /\ cursor \in 1 .. EyeCount + 1 /\ acquire_image_index \in Images
  /\ waits \subseteq Semaphores /\ signalled \subseteq Semaphores
  /\ acquiring \subseteq Semaphores \X Eyes \X Images
  /\ \A n \in DOMAIN queue :
       /\ queue[n].slot \in Slots /\ queue[n].status \in {"waiting", "running"}
       /\ queue[n].waits \subseteq Semaphores /\ queue[n].signals \subseteq Semaphores
  /\ images \in [Eyes -> [Images -> {"idle", "app", "queued", "shown"}]]
  /\ reading \in [Eyes -> SUBSET Images] /\ outOfDate \in BOOLEAN

Writing == pc \in {"record", "destroyed"}

\* While the client records a frame, and once it has destroyed the frames'
\* data, the GPU has no commands left that use them: command buffers, descriptor
\* sets, uniforms and semaphores are only reused behind the frame's fence.
ReusedBehindFence ==
  Writing => \A n \in DOMAIN queue :
               \/ queue[n].kind = "present"
               \/ pc = "record" /\ queue[n].slot # current_frame

\* An image that is handed back is the one the frame was composited into.
CompositedIntoAcquired ==
  pc = "release" /\ cursor <= ViewportCount => targets[cursor] = current_image[cursor]

\* A frame that was begun is finished, in a window that is not resized.
FramesFinish == ~resizable => (pc = "fence" ~> pc = "loop")
-----------------------------------------------------------------------------
\* renderFrame pipelines frames: a slot is in flight from its fence's reset to
\* its signal.
Recording == pc \in {"record", "acquire"}
Composites == {n \in DOMAIN queue : queue[n].kind = "composite"}

InFlight ==
  {queue[n].slot : n \in Composites} \cup (IF Recording THEN {current_frame} ELSE {})

\* The queue has the frames in order; the one that is recorded comes after.
GoesAhead(f, g) ==
  \E n \in Composites :
    /\ queue[n].slot = f
    /\ \/ Recording /\ g = current_frame
       \/ \E k \in Composites : n < k /\ queue[k].slot = g
Ahead == {p \in InFlight \X InFlight : GoesAhead(p[1], p[2])}

\* BeginFrame only takes the next slot; it is in flight when its fence is reset.
SlotBefore(f) == IF f = 0 THEN FrameCount - 1 ELSE f - 1
Taken == IF pc = "fence" THEN SlotBefore(current_frame) ELSE current_frame

Pipeline == INSTANCE FramePipeline WITH at <- Taken, flight <- InFlight, ahead <- Ahead
ImplementsPipeline == Pipeline!FpSpec
=============================================================================
