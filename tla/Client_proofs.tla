---------------------------- MODULE Client_proofs ----------------------------
(***************************************************************************)
(* The client program: nothing of a frame is reused while the GPU may need *)
(* it, for any number of frames in flight, images and viewports, on a      *)
(* window and a headset; the subpasses of a frame keep apart; run() takes  *)
(* frames in sessions that run, and leaves nothing dangling.  The frames   *)
(* implement FramePipeline, and draw what the world showed, for any number *)
(* of entities and meshes; circles and rings of the user interface close.  *)
(***************************************************************************)
EXTENDS Frames, RenderPasses, ClientLoop, DrawLists, UiShapes, SequenceTheorems,
        FiniteSetTheorems, TLAPS

-----------------------------------------------------------------------------
(* Frames                                                                  *)
Submissions ==
  [kind : {"main", "composite", "present"}, slot : Slots, waits : SUBSET Semaphores,
   signals : SUBSET Semaphores, image : Images, status : {"waiting", "running"}]

\* The parts of the type invariant that the queue and the fences need.
Types ==
  /\ current_frame \in Slots /\ is_in_use \in [Slots -> BOOLEAN]
  /\ current_image \in [Eyes -> Images] /\ acquire_image_index \in Images
  /\ waits \subseteq Semaphores /\ cursor \in 1 .. EyeCount + 1
  /\ queue \in Seq(Submissions)

\* Commands that use a frame's data.
UsesSlot(n, slot) == queue[n].kind # "present" /\ queue[n].slot = slot

\* The composite commands are the last of their frame.
CompositeLast ==
  \A n, k \in DOMAIN queue :
    n < k /\ queue[n].kind = "composite" => ~UsesSlot(k, queue[n].slot)

\* A signalled fence means that no commands of the frame are left.
FenceTells ==
  \A f \in Slots : is_in_use[f] => \A n \in DOMAIN queue : ~UsesSlot(n, f)

\* From the fence's reset to the composite commands, the fence is not
\* signalled, and nothing in the queue will do so.
Unfenced ==
  /\ pc \in {"record", "acquire"} =>
       /\ ~is_in_use[current_frame]
       /\ \A n \in DOMAIN queue :
            ~(queue[n].kind = "composite" /\ queue[n].slot = current_frame)
  /\ pc = "record" => \A n \in DOMAIN queue : ~UsesSlot(n, current_frame)
  /\ pc = "destroyed" => queue = <<>>

FencesInv == Types /\ CompositeLast /\ FenceTells /\ Unfenced
-----------------------------------------------------------------------------
LEMMA SlotsAndImages ==
  /\ EyeCount \in Nat \ {0} /\ 1 \in Eyes
  /\ 0 \in Slots /\ 0 \in Images
  /\ current_frame \in Slots => NextFrame \in Slots
  /\ \A k \in Images : (k + 1) % ImageCount \in Images
BY FramesAssumption DEF FramesAssumption, Slots, Images, Eyes, NextFrame

\* A submission is put at the end of the queue.
LEMMA Submitted ==
  ASSUME FencesInv, NEW s \in Submissions, queue' = Append(queue, s)
  PROVE  /\ queue' \in Seq(Submissions)
         /\ DOMAIN queue' = DOMAIN queue \cup {Len(queue) + 1}
         /\ DOMAIN queue = 1 .. Len(queue) /\ Len(queue) \in Nat
         /\ queue'[Len(queue) + 1] = s
         /\ \A n \in DOMAIN queue : queue'[n] = queue[n]
BY DEF FencesInv, Types

\* The queue does not change, and no fence is signalled or reset.
LEMMA QueueUntouched ==
  ASSUME FencesInv, UNCHANGED <<queue, is_in_use, current_frame>>, Types',
         pc' = pc \/ (pc' \notin {"record", "acquire"} /\ (pc' = "destroyed" => queue = <<>>))
  PROVE  FencesInv'
BY DEF FencesInv, CompositeLast, FenceTells, Unfenced, UsesSlot

LEMMA InitFences == FramesInit => FencesInv
<1> SUFFICES ASSUME FramesInit PROVE FencesInv
  OBVIOUS
<1>1. Types
  BY SlotsAndImages DEF FramesInit, Types
<1>2. CompositeLast /\ FenceTells /\ Unfenced
  BY DEF FramesInit, CompositeLast, FenceTells, Unfenced, UsesSlot
<1>3. QED
  BY <1>1, <1>2 DEF FencesInv

LEMMA FenceStep == ASSUME FencesInv, FenceFrame PROVE FencesInv'
<1>1. Types'
  BY DEF FenceFrame, FencesInv, Types
<1>2. CompositeLast'
  BY DEF FenceFrame, FencesInv, CompositeLast, UsesSlot
<1>3. FenceTells'
  BY DEF FenceFrame, FencesInv, Types, FenceTells, UsesSlot
<1>4. Unfenced'
  BY DEF FenceFrame, FencePassed, FencesInv, Types, FenceTells, Unfenced, UsesSlot
<1>5. QED
  BY <1>1, <1>2, <1>3, <1>4 DEF FencesInv

LEMMA MainStep == ASSUME FencesInv, SubmitMain PROVE FencesInv'
<1> DEFINE s == Submission("main", current_frame, {}, {on_render_finished(current_frame)}, 0)
<1>1. s \in Submissions
  BY SlotsAndImages DEF FencesInv, Types, Submission, Submissions, Semaphores
<1>2. queue' = Append(queue, s)
  BY DEF SubmitMain
<1>3. s.kind = "main" /\ s.slot = current_frame
  BY DEF Submission
<1> HIDE DEF s
<1>4. /\ queue' \in Seq(Submissions)
      /\ DOMAIN queue' = DOMAIN queue \cup {Len(queue) + 1}
      /\ DOMAIN queue = 1 .. Len(queue) /\ Len(queue) \in Nat
      /\ queue'[Len(queue) + 1] = s
      /\ \A n \in DOMAIN queue : queue'[n] = queue[n]
  BY <1>1, <1>2, Submitted
<1>5. Types'
  BY <1>4, SlotsAndImages DEF SubmitMain, FencesInv, Types
<1>6. CompositeLast'
  BY <1>3, <1>4 DEF SubmitMain, FencesInv, CompositeLast, Unfenced, UsesSlot
<1>7. FenceTells'
  BY <1>3, <1>4 DEF SubmitMain, FencesInv, FenceTells, Unfenced, UsesSlot
<1>8. Unfenced'
  BY <1>3, <1>4 DEF SubmitMain, FencesInv, Unfenced, UsesSlot
<1>9. QED
  BY <1>5, <1>6, <1>7, <1>8 DEF FencesInv

LEMMA CompositeStep == ASSUME FencesInv, SubmitComposite PROVE FencesInv'
<1> DEFINE s == Submission("composite", current_frame, CompositeWaits(current_frame, waits),
                           CompositeSignals(current_frame), 0)
<1>1. s \in Submissions
  BY SlotsAndImages
     DEF FencesInv, Types, Submission, Submissions, Semaphores, CompositeWaits, CompositeSignals
<1>2. queue' = Append(queue, s)
  BY DEF SubmitComposite
<1>3. s.kind = "composite" /\ s.slot = current_frame
  BY DEF Submission
<1> HIDE DEF s
<1>4. /\ queue' \in Seq(Submissions)
      /\ DOMAIN queue' = DOMAIN queue \cup {Len(queue) + 1}
      /\ DOMAIN queue = 1 .. Len(queue) /\ Len(queue) \in Nat
      /\ queue'[Len(queue) + 1] = s
      /\ \A n \in DOMAIN queue : queue'[n] = queue[n]
  BY <1>1, <1>2, Submitted
<1>5. Types'
  BY <1>4, SlotsAndImages DEF SubmitComposite, FencesInv, Types
<1>6. CompositeLast'
  BY <1>3, <1>4 DEF SubmitComposite, FencesInv, CompositeLast, Unfenced, UsesSlot
<1>7. FenceTells'
  BY <1>3, <1>4 DEF SubmitComposite, FencesInv, FenceTells, Unfenced, UsesSlot
<1>8. Unfenced'
  BY DEF SubmitComposite, Unfenced
<1>9. QED
  BY <1>5, <1>6, <1>7, <1>8 DEF FencesInv

LEMMA PresentStep == ASSUME FencesInv, SdlRelease PROVE FencesInv'
<1> DEFINE s == Submission("present", current_frame, PresentWaits(current_frame), {},
                           current_image[cursor])
<1>1. cursor \in Eyes /\ cursor = 1
  BY SlotsAndImages DEF SdlRelease, ViewportCount, FencesInv, Types, Eyes
<1>2. s \in Submissions
  BY <1>1 DEF FencesInv, Types, Submission, Submissions, Semaphores, PresentWaits
<1>3. queue' = Append(queue, s)
  BY DEF SdlRelease
<1>4. s.kind = "present"
  BY DEF Submission
<1> HIDE DEF s
<1>5. /\ queue' \in Seq(Submissions)
      /\ DOMAIN queue' = DOMAIN queue \cup {Len(queue) + 1}
      /\ DOMAIN queue = 1 .. Len(queue) /\ Len(queue) \in Nat
      /\ queue'[Len(queue) + 1] = s
      /\ \A n \in DOMAIN queue : queue'[n] = queue[n]
  BY <1>2, <1>3, Submitted
<1>6. Types'
  BY <1>1, <1>5, SlotsAndImages DEF SdlRelease, FencesInv, Types
<1>7. CompositeLast' /\ FenceTells' /\ Unfenced'
  BY <1>4, <1>5 DEF SdlRelease, FencesInv, CompositeLast, FenceTells, Unfenced, UsesSlot
<1>8. QED
  BY <1>6, <1>7 DEF FencesInv
\* The oldest submission is through: if it signals the fence, its frame has no
\* commands behind it.
LEMMA FinishStep == ASSUME FencesInv, FinishSubmission PROVE FencesInv'
<1>1. /\ queue' \in Seq(Submissions) /\ queue \in Seq(Submissions) /\ Len(queue) \in Nat
      /\ DOMAIN queue = 1 .. Len(queue) /\ DOMAIN queue' = 1 .. Len(queue) - 1
      /\ 1 \in DOMAIN queue /\ queue[1] \in Submissions
      /\ \A n \in DOMAIN queue' : n + 1 \in DOMAIN queue /\ queue'[n] = queue[n + 1]
  BY DEF FinishSubmission, FencesInv, Types
<1>2. Types'
  <2>1. is_in_use' \in [Slots -> BOOLEAN]
    BY DEF FinishSubmission, FencesInv, Types
  <2>2. QED
    BY <1>1, <2>1 DEF FinishSubmission, FencesInv, Types, clientVars
<1>3. CompositeLast'
  BY <1>1 DEF FencesInv, CompositeLast, UsesSlot
<1>4. FenceTells'
  <2> SUFFICES ASSUME NEW f \in Slots, is_in_use'[f], NEW n \in DOMAIN queue'
               PROVE  ~UsesSlot(n, f)'
    BY DEF FenceTells
  <2>1. CASE is_in_use[f]
    BY <1>1, <2>1 DEF FencesInv, FenceTells, UsesSlot
  <2>2. CASE ~is_in_use[f]
    <3>1. queue[1].kind = "composite" /\ queue[1].slot = f
      BY <1>1, <2>2 DEF FinishSubmission, FencedBy, FencesInv, Types, Submissions
    <3>2. n + 1 \in DOMAIN queue /\ 1 < n + 1 /\ queue'[n] = queue[n + 1]
      BY <1>1
    <3>3. ~UsesSlot(n + 1, f)
      BY <1>1, <3>1, <3>2 DEF FencesInv, CompositeLast
    <3>4. QED
      BY <3>2, <3>3 DEF UsesSlot
  <2>3. QED
    BY <2>1, <2>2
<1>5. Unfenced'
  BY <1>1 DEF FinishSubmission, FencedBy, FencesInv, Types, Unfenced, UsesSlot, Submissions,
     clientVars
<1>6. QED
  BY <1>2, <1>3, <1>4, <1>5 DEF FencesInv

LEMMA StartStep ==
  ASSUME FencesInv, NEW n \in DOMAIN queue, StartSubmission(n) PROVE FencesInv'
<1>1. /\ DOMAIN queue' = DOMAIN queue /\ queue' \in Seq(Submissions)
      /\ \A k \in DOMAIN queue : /\ queue'[k].kind = queue[k].kind
                                 /\ queue'[k].slot = queue[k].slot
  <2> DEFINE s == [queue[n] EXCEPT !.status = "running"]
  <2>1. queue[n] \in Submissions /\ queue \in Seq(Submissions)
    BY DEF FencesInv, Types
  <2>2. s \in Submissions /\ s.kind = queue[n].kind /\ s.slot = queue[n].slot
    BY <2>1 DEF Submissions
  <2>3. queue' = [queue EXCEPT ![n] = s]
    BY DEF StartSubmission
  <2> HIDE DEF s
  <2>4. QED
    BY <2>1, <2>2, <2>3
<1>2. Types'
  BY <1>1 DEF StartSubmission, FencesInv, Types, clientVars
<1>3. CompositeLast' /\ FenceTells'
  BY <1>1 DEF StartSubmission, FencesInv, CompositeLast, FenceTells, UsesSlot
<1>4. Unfenced'
  <2>1. queue = <<>> => queue' = <<>>
    BY DEF FencesInv, Types
  <2>2. QED
    BY <1>1, <2>1 DEF StartSubmission, FencesInv, Unfenced, UsesSlot, clientVars
<1>5. QED
  BY <1>2, <1>3, <1>4 DEF FencesInv

\* The steps that leave the queue and the fences alone.
LEMMA OtherSteps ==
  ASSUME FencesInv,
         \/ BeginFrame \/ SdlAcquire \/ XrAcquire \/ QueueWaitIdle \/ XrRelease \/ EndFrame
         \/ Resize \/ RecreateViewport \/ DestroyFrameData \/ Destroyed \/ Shower
         \/ UNCHANGED vars
  PROVE  FencesInv'
<1>1. CASE BeginFrame
  <2>1. Types'
    BY <1>1, SlotsAndImages DEF BeginFrame, FencesInv, Types, gpuVars
  <2>2. CompositeLast' /\ FenceTells' /\ Unfenced'
    BY <1>1 DEF BeginFrame, FencesInv, CompositeLast, FenceTells, Unfenced, UsesSlot, gpuVars
  <2>3. QED
    BY <2>1, <2>2 DEF FencesInv
<1>2. CASE SdlAcquire
  <2>1. on_image_acquire(acquire_image_index') \in Semaphores
    BY <1>2, SlotsAndImages DEF SdlAcquire, FencesInv, Types, Semaphores
  <2>2. cursor' \in 1 .. EyeCount + 1
    BY <1>2, SlotsAndImages DEF SdlAcquire, ViewportCount, FencesInv, Types
  <2>3. current_image' \in [Eyes -> Images] /\ acquire_image_index' \in Images
    BY <1>2, SlotsAndImages DEF SdlAcquire, FencesInv, Types
  <2>4. Types'
    BY <1>2, <2>1, <2>2, <2>3 DEF SdlAcquire, FencesInv, Types
  <2>5. UNCHANGED <<queue, is_in_use, current_frame, pc>>
    BY <1>2 DEF SdlAcquire
  <2>6. QED
    BY <2>4, <2>5, QueueUntouched
<1>3. CASE XrAcquire
  <2>1. current_image' \in [Eyes -> Images]
    BY <1>3 DEF XrAcquire, FencesInv, Types
  <2>2. cursor' \in 1 .. EyeCount + 1
    BY <1>3, SlotsAndImages DEF XrAcquire, ViewportCount, FencesInv, Types
  <2>3. UNCHANGED <<queue, is_in_use, current_frame, pc, waits, acquire_image_index>>
    BY <1>3 DEF XrAcquire, gpuVars
  <2>4. Types'
    BY <2>1, <2>2, <2>3 DEF FencesInv, Types
  <2>5. QED
    BY <2>3, <2>4, QueueUntouched
<1>4. CASE QueueWaitIdle
  <2>1. Types'
    BY <1>4 DEF QueueWaitIdle, FencesInv, Types, gpuVars
  <2>2. QED
    BY <1>4, <2>1, QueueUntouched DEF QueueWaitIdle, gpuVars
<1>5. CASE XrRelease
  <2>1. Types'
    BY <1>5, SlotsAndImages DEF XrRelease, ViewportCount, FencesInv, Types, gpuVars
  <2>2. QED
    BY <1>5, <2>1, QueueUntouched DEF XrRelease, gpuVars
<1>6. CASE EndFrame
  <2>1. Types'
    BY <1>6, SlotsAndImages DEF EndFrame, FencesInv, Types, gpuVars
  <2>2. QED
    BY <1>6, <2>1, QueueUntouched DEF EndFrame, gpuVars
<1>7. CASE Resize
  <2>1. Types'
    BY <1>7 DEF Resize, FencesInv, Types, gpuVars, clientVars
  <2>2. QED
    BY <1>7, <2>1, QueueUntouched DEF Resize, gpuVars, clientVars
<1>8. CASE RecreateViewport
  <2>1. Types'
    BY <1>8, SlotsAndImages DEF RecreateViewport, FencesInv, Types
  <2>2. QED
    BY <1>8, <2>1, QueueUntouched DEF RecreateViewport
<1>9. CASE DestroyFrameData
  <2>1. Types'
    BY <1>9 DEF DestroyFrameData, FencesInv, Types, gpuVars
  <2>2. QED
    BY <1>9, <2>1, QueueUntouched DEF DestroyFrameData, gpuVars
<1>10. CASE Shower
  <2>1. UNCHANGED <<clientVars, queue, is_in_use>>
    BY <1>10 DEF Shower, SignalAcquire, Show, StopReading, gpuVars
  <2>2. Types'
    BY <2>1 DEF FencesInv, Types, clientVars
  <2>3. QED
    BY <2>1, <2>2, QueueUntouched DEF clientVars
<1>11. CASE Destroyed \/ UNCHANGED vars
  <2>1. UNCHANGED <<clientVars, queue, is_in_use>>
    BY <1>11 DEF Destroyed, vars, gpuVars
  <2>2. Types'
    BY <2>1 DEF FencesInv, Types, clientVars
  <2>3. QED
    BY <2>1, <2>2, QueueUntouched DEF clientVars
<1>12. QED
  BY <1>1, <1>2, <1>3, <1>4, <1>5, <1>6, <1>7, <1>8, <1>9, <1>10, <1>11

\* The fences of the frames tell, at all times, which frames the GPU may need.
THEOREM FencesHold == Spec => []FencesInv
<1>1. FencesInv /\ [Next]_vars => FencesInv'
  <2> SUFFICES ASSUME FencesInv, [Next]_vars PROVE FencesInv'
    OBVIOUS
  <2>1. CASE FenceFrame
    BY <2>1, FenceStep
  <2>2. CASE SubmitMain
    BY <2>2, MainStep
  <2>3. CASE SubmitComposite
    BY <2>3, CompositeStep
  <2>4. CASE SdlRelease
    BY <2>4, PresentStep
  <2>5. CASE Gpu
    BY <2>5, FinishStep, StartStep DEF Gpu
  <2>6. QED
    BY <2>1, <2>2, <2>3, <2>4, <2>5, OtherSteps DEF Next, RenderFrame
<1>2. QED
  BY InitFences, <1>1, PTL DEF Spec

\* Command buffers, descriptor sets, uniforms and semaphores of a frame are only
\* written and destroyed when the GPU is through with them, for any number of
\* frames in flight, images and viewports.
THEOREM FramesReusedBehindFence == Spec => []ReusedBehindFence
<1>1. FencesInv => ReusedBehindFence
  BY DEF FencesInv, Unfenced, UsesSlot, ReusedBehindFence, Writing
<1>2. QED
  BY FencesHold, <1>1, PTL
-----------------------------------------------------------------------------
(* Frames implements FramePipeline: each step takes a slot, gives the      *)
(* oldest back, or leaves those in flight and their order as they are.     *)

\* Slots are taken in turn.
LEMMA InTurn ==
  ASSUME current_frame \in Slots
  PROVE  /\ (SlotBefore(current_frame) + 1) % FrameCount = current_frame
         /\ SlotBefore(NextFrame) = current_frame
<1>1. FrameCount \in Nat \ {0} /\ current_frame \in 0 .. FrameCount - 1
  BY FramesAssumption DEF FramesAssumption, Slots
<1>2. \A x \in 0 .. FrameCount - 1 : x % FrameCount = x
  BY <1>1
<1>3. FrameCount % FrameCount = 0
  BY <1>1
<1> QED BY <1>1, <1>2, <1>3 DEF SlotBefore, NextFrame

\* The queue has the same frames in the same order.
LEMMA FlightRests ==
  ASSUME Composites' = Composites, \A n \in Composites : queue'[n].slot = queue[n].slot,
         Recording' = Recording, Recording => current_frame' = current_frame
  PROVE  InFlight' = InFlight /\ Ahead' = Ahead
<1>1. InFlight' = InFlight
  BY DEF InFlight
<1>2. \A f, g : GoesAhead(f, g)' <=> GoesAhead(f, g)
  BY DEF GoesAhead
<1> QED BY <1>1, <1>2 DEF Ahead

\* What is put at the end of the queue beside frames changes nothing.
LEMMA OthersQueued ==
  ASSUME FencesInv, NEW s \in Submissions, queue' = Append(queue, s), s.kind # "composite"
  PROVE  Composites' = Composites /\ \A n \in Composites : queue'[n].slot = queue[n].slot
<1>1. /\ DOMAIN queue' = DOMAIN queue \cup {Len(queue) + 1}
      /\ queue'[Len(queue) + 1] = s
      /\ \A n \in DOMAIN queue : queue'[n] = queue[n]
  BY Submitted
<1> QED BY <1>1 DEF Composites

PipelineStep == [Pipeline!FpNext]_<<Taken, InFlight, Ahead>>

\* The fence's frame is begun: it was not in flight, as its fence was signalled.
LEMMA FenceBegins == ASSUME FencesInv, FenceFrame PROVE PipelineStep
<1>1. /\ pc = "fence" /\ is_in_use[current_frame] /\ pc' = "record"
      /\ UNCHANGED <<queue, current_frame>>
  BY DEF FenceFrame, FencePassed
<1>2. Taken' = current_frame /\ Taken' = (Taken + 1) % FrameCount
  BY <1>1, InTurn DEF Taken, FencesInv, Types
<1>3. current_frame \notin InFlight
  BY <1>1 DEF InFlight, Recording, Composites, FencesInv, Types, FenceTells, UsesSlot
<1>4. Composites' = Composites /\ ~Recording /\ Recording'
  BY <1>1 DEF Composites, Recording
<1>5. InFlight' = InFlight \cup {current_frame}
  BY <1>1, <1>4 DEF InFlight
<1>6. InFlight = {queue[n].slot : n \in Composites}
  BY <1>4 DEF InFlight
<1>7. ASSUME NEW f, NEW g
      PROVE  GoesAhead(f, g)' <=> (GoesAhead(f, g) \/ (f \in InFlight /\ g = current_frame))
  <2>1. f \in InFlight <=> \E n \in Composites : queue[n].slot = f
    BY <1>6
  <2> QED BY <1>1, <1>4, <2>1 DEF GoesAhead
<1>8. \A f, g : GoesAhead(f, g) => f \in InFlight /\ g \in InFlight
  BY <1>4, <1>6 DEF GoesAhead
<1>9. Ahead' = Ahead \cup InFlight \X {current_frame}
  BY <1>3, <1>5, <1>7, <1>8 DEF Ahead
<1> QED BY <1>2, <1>3, <1>5, <1>9 DEF PipelineStep, Pipeline!FpNext, Pipeline!Begin

\* The frame that was recorded is now the last of the queue.
LEMMA CompositeKeeps == ASSUME FencesInv, SubmitComposite PROVE PipelineStep
<1> DEFINE s == Submission("composite", current_frame, CompositeWaits(current_frame, waits),
                           CompositeSignals(current_frame), 0)
<1>1. s \in Submissions
  BY SlotsAndImages
     DEF FencesInv, Types, Submission, Submissions, Semaphores, CompositeWaits, CompositeSignals
<1>2. queue' = Append(queue, s)
  BY DEF SubmitComposite
<1>3. s.kind = "composite" /\ s.slot = current_frame
  BY DEF Submission
<1> HIDE DEF s
<1>4. /\ DOMAIN queue' = DOMAIN queue \cup {Len(queue) + 1}
      /\ DOMAIN queue = 1 .. Len(queue) /\ Len(queue) \in Nat
      /\ queue'[Len(queue) + 1] = s
      /\ \A n \in DOMAIN queue : queue'[n] = queue[n]
  BY <1>1, <1>2, Submitted
<1>5. /\ Recording /\ ~Recording' /\ current_frame' = current_frame /\ Taken' = Taken
  BY DEF SubmitComposite, Recording, Taken
<1>6. Composites' = Composites \cup {Len(queue) + 1} /\ Composites \subseteq 1 .. Len(queue)
  BY <1>3, <1>4 DEF Composites
<1>7. InFlight' = InFlight
  <2>1. /\ InFlight = {queue[n].slot : n \in Composites} \cup {current_frame}
        /\ InFlight' = {queue'[n].slot : n \in Composites'}
    BY <1>5 DEF InFlight
  <2>2. /\ \A n \in Composites : n \in Composites' /\ queue'[n].slot = queue[n].slot
        /\ Len(queue) + 1 \in Composites' /\ queue'[Len(queue) + 1].slot = current_frame
    BY <1>3, <1>4, <1>6
  <2>3. ASSUME NEW n \in Composites' PROVE queue'[n].slot \in InFlight
    BY <1>6, <2>1, <2>2
  <2>4. InFlight \subseteq InFlight'
    BY <2>1, <2>2
  <2> QED BY <2>1, <2>3, <2>4
<1>8. ASSUME NEW f, NEW g PROVE GoesAhead(f, g)' <=> GoesAhead(f, g)
  <2>1. ASSUME NEW n \in Composites
        PROVE  (\E k \in Composites' : n < k /\ queue'[k].slot = g)
                 <=> (g = current_frame \/ \E k \in Composites : n < k /\ queue[k].slot = g)
    <3>1. n < Len(queue) + 1 /\ queue'[Len(queue) + 1].slot = current_frame
      BY <1>3, <1>4, <1>6
    <3>2. \A k \in Composites : queue'[k].slot = queue[k].slot
      BY <1>4, <1>6
    <3> QED BY <1>6, <3>1, <3>2
  <2>2. ~\E k \in Composites' : Len(queue) + 1 < k
    BY <1>4, <1>6
  <2>3. GoesAhead(f, g)' <=> \E n \in Composites :
          queue'[n].slot = f /\ \E k \in Composites' : n < k /\ queue'[k].slot = g
    BY <1>5, <1>6, <2>2 DEF GoesAhead
  <2>4. \A n \in Composites : queue'[n].slot = queue[n].slot
    BY <1>4, <1>6
  <2> QED BY <1>5, <2>1, <2>3, <2>4 DEF GoesAhead
<1> QED BY <1>5, <1>7, <1>8 DEF PipelineStep, Ahead

\* The oldest submission is through: if it is a frame, it is the oldest frame.
LEMMA FinishFinishes == ASSUME FencesInv, FinishSubmission PROVE PipelineStep
<1>1. /\ DOMAIN queue = 1 .. Len(queue) /\ DOMAIN queue' = 1 .. Len(queue) - 1
      /\ Len(queue) \in Nat /\ 1 \in DOMAIN queue
      /\ \A n \in DOMAIN queue' : n + 1 \in DOMAIN queue /\ queue'[n] = queue[n + 1]
  BY DEF FinishSubmission, FencesInv, Types
<1>2. UNCHANGED <<pc, current_frame>> /\ Recording' = Recording /\ Taken' = Taken
  BY DEF FinishSubmission, clientVars, Recording, Taken
<1>3. /\ \A n \in Composites' : n + 1 \in Composites \ {1} /\ queue'[n].slot = queue[n + 1].slot
      /\ \A n \in Composites \ {1} :
           n - 1 \in Composites' /\ queue'[n - 1].slot = queue[n].slot
      /\ Composites \subseteq Nat /\ Composites' \subseteq Nat
  <2>1. \A n \in DOMAIN queue : n # 1 => n - 1 \in DOMAIN queue' /\ queue'[n - 1] = queue[n]
    BY <1>1
  <2> QED BY <1>1, <2>1 DEF Composites
<1>4. ASSUME NEW f
      PROVE  (\E n \in Composites' : queue'[n].slot = f)
               <=> (\E n \in Composites \ {1} : queue[n].slot = f)
  <2>1. ASSUME NEW n \in Composites', queue'[n].slot = f
        PROVE  \E m \in Composites \ {1} : queue[m].slot = f
    BY <1>3, <2>1
  <2>2. ASSUME NEW n \in Composites \ {1}, queue[n].slot = f
        PROVE  \E m \in Composites' : queue'[m].slot = f
    BY <1>3, <2>2
  <2> QED BY <2>1, <2>2
<1>5. ASSUME NEW f, NEW g
      PROVE  GoesAhead(f, g)' <=>
               \E n \in Composites \ {1} :
                 /\ queue[n].slot = f
                 /\ \/ Recording /\ g = current_frame
                    \/ \E k \in Composites : n < k /\ queue[k].slot = g
  <2>1. ASSUME GoesAhead(f, g)'
        PROVE  \E n \in Composites \ {1} :
                 /\ queue[n].slot = f
                 /\ \/ Recording /\ g = current_frame
                    \/ \E k \in Composites : n < k /\ queue[k].slot = g
    <3>1. PICK n \in Composites' :
            /\ queue'[n].slot = f
            /\ \/ Recording /\ g = current_frame
               \/ \E k \in Composites' : n < k /\ queue'[k].slot = g
      BY <1>2, <2>1 DEF GoesAhead
    <3>2. n \in Nat /\ n + 1 \in Composites \ {1} /\ queue[n + 1].slot = f
      BY <1>3, <3>1
    <3>3. ASSUME NEW k \in Composites', n < k, queue'[k].slot = g
          PROVE  k + 1 \in Composites /\ n + 1 < k + 1 /\ queue[k + 1].slot = g
      BY <1>3, <3>2, <3>3
    <3> QED BY <3>1, <3>2, <3>3
  <2>2. ASSUME NEW n \in Composites \ {1}, queue[n].slot = f,
               \/ Recording /\ g = current_frame
               \/ \E k \in Composites : n < k /\ queue[k].slot = g
        PROVE  GoesAhead(f, g)'
    <3>1. n - 1 \in Composites' /\ queue'[n - 1].slot = f /\ n \in Nat /\ n >= 1
      BY <1>1, <1>3, <2>2 DEF Composites
    <3>2. ASSUME NEW k \in Composites, n < k, queue[k].slot = g
          PROVE  k - 1 \in Composites' /\ n - 1 < k - 1 /\ queue'[k - 1].slot = g
      BY <1>3, <3>1, <3>2
    <3> QED BY <1>2, <2>2, <3>1, <3>2 DEF GoesAhead
  <2> QED BY <2>1, <2>2
<1>6. CASE 1 \notin Composites
  <2>1. InFlight' = InFlight
    <3>1. ASSUME NEW f PROVE f \in InFlight' <=> f \in InFlight
      BY <1>2, <1>4, <1>6 DEF InFlight
    <3> QED BY <3>1
  <2>2. ASSUME NEW f, NEW g PROVE GoesAhead(f, g)' <=> GoesAhead(f, g)
    BY <1>5, <1>6 DEF GoesAhead
  <2> QED BY <1>2, <2>1, <2>2 DEF PipelineStep, Ahead
<1>7. CASE 1 \in Composites
  <2>1. PICK f : f = queue[1].slot
    OBVIOUS
  <2>2. \A n \in Composites \ {1} : queue[n].slot # f
    BY <1>1, <1>7, <2>1 DEF Composites, FencesInv, CompositeLast, UsesSlot
  <2>3. Recording => current_frame # f
    BY <1>7, <2>1 DEF Recording, Composites, FencesInv, Unfenced
  <2>4. f \in InFlight
    BY <1>7, <2>1 DEF InFlight
  <2>5. InFlight' = InFlight \ {f}
    <3>1. ASSUME NEW g PROVE g \in InFlight' <=> (g \in InFlight /\ g # f)
      <4>1. (\E n \in Composites : queue[n].slot = g)
              <=> (g = f \/ \E n \in Composites \ {1} : queue[n].slot = g)
        BY <1>7, <2>1
      <4> QED BY <1>2, <1>4, <2>2, <2>3, <4>1 DEF InFlight
    <3> QED BY <3>1
  <2>6. ASSUME NEW g PROVE ~GoesAhead(g, f)
    <3>1. \A n, k \in Composites : n < k => k # 1
      BY <1>1 DEF Composites
    <3> QED BY <2>2, <2>3, <3>1 DEF GoesAhead
  <2>7. ASSUME NEW g, NEW h PROVE GoesAhead(g, h)' <=> (GoesAhead(g, h) /\ g # f)
    <3>1. CASE g = f
      BY <1>5, <2>2, <3>1
    <3>2. CASE g # f
      <4>1. \A n \in Composites : queue[n].slot = g => n \in Composites \ {1}
        BY <2>1, <3>2
      <4> QED BY <1>5, <3>2, <4>1 DEF GoesAhead
    <3> QED BY <3>1, <3>2
  <2>8. Ahead' = {p \in Ahead : p[1] # f}
    BY <2>5, <2>6, <2>7 DEF Ahead
  <2>9. \A g \in InFlight : <<g, f>> \notin Ahead
    BY <2>6 DEF Ahead
  <2> QED BY <1>2, <2>4, <2>5, <2>8, <2>9 DEF PipelineStep, Pipeline!FpNext, Pipeline!Finish
<1> QED BY <1>6, <1>7

\* The other steps leave the queue's frames alone.
LEMMA OthersKeep ==
  ASSUME FencesInv, [Next]_vars, ~FenceFrame, ~SubmitComposite, ~FinishSubmission
  PROVE  PipelineStep
<1>1. CASE SubmitMain \/ SdlRelease
  <2>1. UNCHANGED current_frame /\ Recording' = Recording /\ Taken' = Taken
    BY <1>1 DEF SubmitMain, SdlRelease, Recording, Taken
  <2>2. Composites' = Composites /\ \A n \in Composites : queue'[n].slot = queue[n].slot
    <3>1. CASE SubmitMain
      <4> DEFINE s == Submission("main", current_frame, {},
                                 {on_render_finished(current_frame)}, 0)
      <4>1. s \in Submissions /\ s.kind # "composite"
        BY SlotsAndImages DEF FencesInv, Types, Submission, Submissions, Semaphores
      <4>2. queue' = Append(queue, s)
        BY <3>1 DEF SubmitMain
      <4> QED BY <4>1, <4>2, OthersQueued
    <3>2. CASE SdlRelease
      <4> DEFINE s == Submission("present", current_frame, PresentWaits(current_frame), {},
                                 current_image[cursor])
      <4>1. cursor \in Eyes
        BY <3>2, SlotsAndImages DEF SdlRelease, ViewportCount, FencesInv, Types, Eyes
      <4>2. s \in Submissions /\ s.kind # "composite"
        BY <4>1 DEF FencesInv, Types, Submission, Submissions, Semaphores, PresentWaits
      <4>3. queue' = Append(queue, s)
        BY <3>2 DEF SdlRelease
      <4> QED BY <4>2, <4>3, OthersQueued
    <3> QED BY <1>1, <3>1, <3>2
  <2> QED BY <2>1, <2>2, FlightRests DEF PipelineStep
<1>2. CASE \E n \in DOMAIN queue : StartSubmission(n)
  <2>1. UNCHANGED <<pc, current_frame>> /\ Recording' = Recording /\ Taken' = Taken
    BY <1>2 DEF StartSubmission, clientVars, Recording, Taken
  <2>2. PICK n \in DOMAIN queue : queue' = [queue EXCEPT ![n].status = "running"]
    BY <1>2 DEF StartSubmission
  <2>3. queue \in Seq(Submissions)
    BY DEF FencesInv, Types
  <2>4. /\ DOMAIN queue' = DOMAIN queue
        /\ \A k \in DOMAIN queue : queue'[k].kind = queue[k].kind
                                   /\ queue'[k].slot = queue[k].slot
    BY <2>2, <2>3 DEF Submissions
  <2>5. Composites' = Composites /\ \A k \in Composites : queue'[k].slot = queue[k].slot
    BY <2>4 DEF Composites
  <2> QED BY <2>1, <2>5, FlightRests DEF PipelineStep
<1>3. CASE BeginFrame
  <2>1. /\ UNCHANGED queue /\ Recording' = Recording /\ ~Recording /\ pc = "loop"
        /\ pc' = "fence" /\ current_frame' = NextFrame
    BY <1>3 DEF BeginFrame, gpuVars, Recording
  <2>2. Taken' = Taken
    BY <2>1, InTurn DEF Taken, FencesInv, Types, SlotBefore, NextFrame
  <2>3. Composites' = Composites
    BY <2>1 DEF Composites
  <2> QED BY <2>1, <2>2, <2>3, FlightRests DEF PipelineStep
<1>4. CASE \/ SdlAcquire \/ XrAcquire \/ QueueWaitIdle \/ XrRelease \/ EndFrame
           \/ Resize \/ RecreateViewport \/ DestroyFrameData \/ Destroyed \/ Shower
           \/ UNCHANGED vars
  <2>1. /\ UNCHANGED <<queue, current_frame>> /\ Recording' = Recording
        /\ (pc' = "fence") = (pc = "fence")
    BY <1>4 DEF SdlAcquire, XrAcquire, QueueWaitIdle, XrRelease, EndFrame, Resize,
       RecreateViewport, DestroyFrameData, Destroyed, Shower, SignalAcquire, Show, StopReading,
       vars, gpuVars, clientVars, Recording
  <2>2. Taken' = Taken /\ Composites' = Composites
    BY <2>1 DEF Taken, Composites
  <2> QED BY <2>1, <2>2, FlightRests DEF PipelineStep
<1> QED BY <1>1, <1>2, <1>3, <1>4 DEF Next, RenderFrame, Gpu

\* renderFrame pipelines frames, for any number of them: it takes their data in
\* turn, none that the GPU may still need, and frames are finished in order.
THEOREM FramesArePipelined == Spec => ImplementsPipeline
<1>1. FramesInit => Pipeline!FpInit
  BY DEF FramesInit, Pipeline!FpInit, Taken, InFlight, Ahead, Recording, Composites
<1>2. FencesInv /\ [Next]_vars => PipelineStep
  BY FenceBegins, CompositeKeeps, FinishFinishes, OthersKeep
<1>3. QED
  BY <1>1, <1>2, FencesHold, PTL DEF Spec, PipelineStep, ImplementsPipeline, Pipeline!FpSpec
-----------------------------------------------------------------------------
(* The loop                                                                *)

\* What run() builds.
Named ==
  {"display", "gpu", "world", "renderer", "glyphs", "mesh_pass", "overlay_pass", "ui", "client"}

\* What the loop's invariant needs of the types.
LoopTypes ==
  /\ device \in {"sdl", "openxr"} /\ viewports \in Nat
  /\ events \in Seq(States \cup {"quit", "resized"})
  /\ built \in Seq(Named) /\ render_passes \subseteq Passes
  /\ session # "instance_loss"
  /\ device = "sdl" => session = "none"
  /\ at \in {"display", "gpu", "session"}
       => events = <<>> /\ session_state = "unknown" /\ session = "none"
  /\ device = "openxr" /\ at \notin {"display", "gpu", "session", "unwind"} => session # "none"
  /\ device = "openxr" => \A n \in DOMAIN events : events[n] \in States

\* Outside of an exception, what run() has passed has been built.
BuiltSoFar ==
  /\ at \notin {"display", "gpu", "session", "world", "unwind"} => "world" \in ToSet(built)
  /\ at \notin {"display", "gpu", "session", "world", "renderer", "glyphs", "mesh_pass",
                "overlay_pass", "ui", "unwind"} => Passes \subseteq ToSet(built)
  /\ at \notin {"display", "gpu", "session", "world", "renderer", "glyphs", "mesh_pass",
                "overlay_pass", "unwind"} => {"mesh_pass", "overlay_pass"} \subseteq ToSet(built)
  /\ at \notin {"display", "gpu", "session", "world", "renderer", "glyphs", "mesh_pass",
                "unwind"} => "mesh_pass" \in ToSet(built)

\* Without one, the loop has let go of everything when destructors run.
LetGoInTime == ~failed => dangling = {} /\ (at = "unwind" => render_passes = {} /\ ~avatar)

\* The last session state that was reported is the runtime's.
LastReport ==
  session # "none" =>
    \/ \E n \in DOMAIN events : /\ events[n] = session
                                /\ \A k \in DOMAIN events : k > n => events[k] = "instance_loss"
    \/ /\ session_state = session
       /\ \A k \in DOMAIN events : events[k] = "instance_loss"

\* From "ready" on, the session has been begun, if it could be, or will be when
\* the report is polled.
Begun ==
  session \in {"ready", "synchronized", "visible", "focused"} =>
    sessionRunning \/ beginFailed \/ \E n \in DOMAIN events : events[n] = "ready"

\* Frames are taken in sessions that run.
Framing ==
  device = "openxr" =>
    /\ at = "polled" /\ poll_info.should_run /\ ~poll_info.should_quit
         => sessionRunning \/ beginFailed
    /\ at \in {"begin"} \cup FrameSteps => sessionRunning \/ beginFailed

\* A session that runs has viewports, and what is rendered has.
Viewing ==
  /\ device = "openxr" /\ sessionRunning => viewports > 0
  /\ at = "update" /\ should_render => viewports > 0
  /\ at = "render" => viewports > 0

LoopInv == LoopTypes /\ BuiltSoFar /\ LetGoInTime /\ LastReport /\ Begun /\ Framing /\ Viewing

\* run() builds its objects in their order.
LEMMA Order ==
  /\ StepAfter("display") = "gpu" /\ StepAfter("gpu") = "session"
  /\ StepAfter("session") = "world" /\ StepAfter("world") = "renderer"
  /\ StepAfter("renderer") = "glyphs" /\ StepAfter("glyphs") = "mesh_pass"
  /\ StepAfter("mesh_pass") = "overlay_pass" /\ StepAfter("overlay_pass") = "ui"
  /\ StepAfter("ui") = "avatar" /\ StepAfter("avatar") = "client"
  /\ StepAfter("client") = "loop"
<1>1. /\ DOMAIN Objects = 1..11
      /\ Objects[1] = "display" /\ Objects[2] = "gpu" /\ Objects[3] = "session"
      /\ Objects[4] = "world" /\ Objects[5] = "renderer" /\ Objects[6] = "glyphs"
      /\ Objects[7] = "mesh_pass" /\ Objects[8] = "overlay_pass" /\ Objects[9] = "ui"
      /\ Objects[10] = "avatar" /\ Objects[11] = "client"
  BY DEF Objects
<1>2. ASSUME NEW i \in 1..10, \A n \in 1..11 : Objects[n] = Objects[i] => n = i,
             Objects[i] # "client"
      PROVE  StepAfter(Objects[i]) = Objects[1 + i]
  BY <1>1, <1>2 DEF StepAfter
<1>3. ASSUME NEW i \in 1..11, NEW n \in 1..11, Objects[n] = Objects[i]
      PROVE  n = i
  BY <1>1, <1>3
<1>4. \A i \in 1..10 : StepAfter(Objects[i]) = Objects[1 + i]
  BY <1>1, <1>2, <1>3
<1> QED BY <1>1, <1>4 DEF StepAfter

\* What is built is added to what there is.
LEMMA OneMoreObject ==
  ASSUME NEW S, NEW list \in Seq(S), NEW o \in S
  PROVE  Append(list, o) \in Seq(S) /\ ToSet(Append(list, o)) = ToSet(list) \cup {o}
<1>1. PICK new : new = Append(list, o)
  OBVIOUS
<1>2. /\ new \in Seq(S) /\ Len(new) = Len(list) + 1
      /\ \A i \in 1..Len(list) : new[i] = list[i]
      /\ new[Len(list) + 1] = o
      /\ DOMAIN list = 1..Len(list) /\ DOMAIN new = 1..(Len(list) + 1) /\ Len(list) \in Nat
  BY <1>1
<1> QED BY <1>1, <1>2 DEF ToSet

LEMMA LoopBegins == LoopInit => LoopInv
<1> SUFFICES ASSUME LoopInit PROVE LoopInv
  OBVIOUS
<1>1. events = <<>> /\ built = <<>> /\ DOMAIN events = {}
  BY DEF LoopInit
<1> QED BY <1>1 DEF LoopInit, LoopInv, LoopTypes, BuiltSoFar, LetGoInTime, LastReport, Begun,
                    Framing, Viewing, FrameSteps

\* What a step that leaves the session and the display alone has to show.
LEMMA SessionRests ==
  ASSUME LoopInv, LoopTypes',
         UNCHANGED <<device, session, session_state, sessionRunning, beginFailed, events,
                     viewports, should_render, poll_info>>,
         at' \in {"polled", "begin", "render"} \cup FrameSteps => at' = at
  PROVE  LastReport' /\ Begun' /\ Framing' /\ Viewing'
BY DEF LoopInv, LastReport, Begun, Framing, Viewing, FrameSteps

\* Nothing but where run() is, and what it has built, changes while it builds.
LEMMA BuildStep ==
  ASSUME LoopInv, Build
  PROVE  LoopInv'
<1>1. LoopTypes /\ BuiltSoFar /\ LetGoInTime
  BY DEF LoopInv
<1>2. CASE CreateSession
  <2>1. /\ at = "session" /\ at' = "world" /\ events = <<>>
        /\ session' = IF device = "openxr" THEN "unknown" ELSE session
        /\ UNCHANGED <<device, built, avatar, render_passes, failed, dangling, poll_info,
                       should_render, viewports, session_state, beginFailed, sessionRunning,
                       events>>
    BY <1>1, <1>2, Order DEF CreateSession, LoopTypes, objectVars, displayVars, outsideVars
  <2>2. LoopTypes' /\ BuiltSoFar' /\ LetGoInTime'
    BY <1>1, <2>1 DEF LoopTypes, BuiltSoFar, LetGoInTime
  <2>3. DOMAIN events = {}
    BY <2>1
  <2>4. LastReport' /\ Begun' /\ Framing' /\ Viewing'
    BY <1>1, <2>1, <2>3
       DEF LoopInv, LoopTypes, LastReport, Begun, Framing, Viewing, FrameSteps
  <2> QED BY <2>2, <2>4 DEF LoopInv
<1>3. CASE GetAvatar
  <2>1. /\ at = "avatar" /\ at' = "client"
        /\ UNCHANGED <<device, built, render_passes, failed, dangling, poll_info,
                       should_render, viewports, session_state, beginFailed, session,
                       sessionRunning, events>>
    BY <1>3, Order DEF GetAvatar, displayVars, sessionVars, outsideVars
  <2>2. LoopTypes' /\ BuiltSoFar' /\ LetGoInTime'
    BY <1>1, <2>1 DEF LoopTypes, BuiltSoFar, LetGoInTime
  <2>3. LastReport' /\ Begun' /\ Framing' /\ Viewing'
    BY <2>1, <2>2, SessionRests DEF FrameSteps
  <2> QED BY <2>2, <2>3 DEF LoopInv
<1>4. ASSUME NEW o \in Named, ConstructObject(o), render_passes' \subseteq Passes
      PROVE  LoopInv'
  <2>1. /\ at = o /\ at' = StepAfter(o) /\ built' = Append(built, o)
        /\ UNCHANGED <<device, avatar, failed, dangling, poll_info,
                       should_render, viewports, session_state, beginFailed, session,
                       sessionRunning, events>>
    BY <1>4 DEF ConstructObject, displayVars, sessionVars, outsideVars
  <2>2. built' \in Seq(Named) /\ ToSet(built') = ToSet(built) \cup {o}
    BY <1>1, <2>1, OneMoreObject DEF LoopTypes
  <2>3. at' \in {"gpu", "session", "renderer", "glyphs", "mesh_pass", "overlay_pass", "ui",
                 "avatar", "loop"}
    BY <1>4, <2>1, Order DEF Named
  <2>4. LoopTypes'
    <3>1. at' \in {"display", "gpu", "session"} <=> at \in {"display", "gpu"}
      BY <1>4, <2>1, Order DEF Named
    <3>2. at \notin {"session", "unwind"}
      BY <1>4, <2>1 DEF Named
    <3> QED BY <1>1, <1>4, <2>1, <2>2, <3>1, <3>2 DEF LoopTypes
  <2>5. BuiltSoFar'
    BY <1>1, <1>4, <2>1, <2>2, Order DEF BuiltSoFar, Passes, Named
  <2>6. LetGoInTime'
    BY <1>1, <2>1, <2>3 DEF LetGoInTime
  <2>7. LastReport' /\ Begun' /\ Framing' /\ Viewing'
    BY <2>1, <2>3, <2>4, SessionRests DEF FrameSteps
  <2> QED BY <2>4, <2>5, <2>6, <2>7 DEF LoopInv
<1>5. CASE \E o \in {"display", "gpu", "world", "renderer", "glyphs", "mesh_pass", "client"} :
             ConstructObject(o) /\ UNCHANGED render_passes
  <2>1. PICK o \in Named : ConstructObject(o) /\ UNCHANGED render_passes
    BY <1>5 DEF Named
  <2> QED BY <2>1, <1>1, <1>4 DEF LoopTypes
<1>6. CASE BuildOverlayPass \/ BuildUserInterface
  <2>1. /\ render_passes' \subseteq Passes
        /\ ConstructObject("overlay_pass") \/ ConstructObject("ui")
    BY <1>1, <1>6 DEF LoopTypes, BuildOverlayPass, BuildUserInterface, AddRenderPasses, Passes
  <2>2. "overlay_pass" \in Named /\ "ui" \in Named
    BY DEF Named
  <2> QED BY <2>1, <2>2, <1>4
<1> QED BY <1>2, <1>3, <1>5, <1>6
        DEF Build, BuildDisplay, BuildGpu, BuildWorld, BuildRenderer, BuildGlyphs, BuildMeshPass,
            BuildClient

\* The steps of the loop before its end: run() builds nothing and lets go of
\* nothing.
Loops ==
  /\ at \in PollSteps \cup FrameSteps \cup {"begin", "network"}
  /\ at' \in PollSteps \cup FrameSteps \cup {"begin", "network", "left"}
  /\ UNCHANGED <<device, built, avatar, render_passes, failed, dangling>>

LEMMA LoopRests ==
  ASSUME LoopInv, Loops
  PROVE  BuiltSoFar' /\ LetGoInTime'
BY DEF LoopInv, Loops, BuiltSoFar, LetGoInTime, PollSteps, FrameSteps

LEMMA StartPollStep ==
  ASSUME LoopInv, StartPoll
  PROVE  LoopInv'
<1>1. /\ at = "loop" /\ at' \in {"left", "polling"} /\ viewports' \in Nat
      /\ device = "openxr" => viewports' = viewports
      /\ UNCHANGED <<device, built, avatar, render_passes, failed, dangling, session_state,
                     beginFailed, session, sessionRunning, events>>
  BY DEF StartPoll, LoopInv, LoopTypes, objectVars, sessionVars, outsideVars
<1>2. BuiltSoFar' /\ LetGoInTime'
  BY <1>1, LoopRests DEF Loops, PollSteps
<1>3. LoopTypes'
  BY <1>1 DEF LoopInv, LoopTypes
<1>4. LastReport' /\ Begun' /\ Framing' /\ Viewing'
  BY <1>1 DEF LoopInv, LastReport, Begun, Framing, Viewing, FrameSteps
<1> QED BY <1>2, <1>3, <1>4 DEF LoopInv

\* The first of the events is gone.
LEMMA OneLess ==
  ASSUME LoopTypes, events # <<>>, events' = Tail(events)
  PROVE  /\ events' \in Seq(States \cup {"quit", "resized"})
         /\ Len(events) \in Nat \ {0} /\ DOMAIN events = 1..Len(events)
         /\ DOMAIN events' = 1..(Len(events) - 1)
         /\ \A n \in DOMAIN events' : n + 1 \in DOMAIN events /\ events'[n] = events[n + 1]
         /\ Head(events) = events[1] /\ 1 \in DOMAIN events
<1>1. PICK E : E = States \cup {"quit", "resized"}
  OBVIOUS
<1>2. events \in Seq(E)
  BY <1>1 DEF LoopTypes
<1> QED BY <1>1, <1>2

\* A poll takes the oldest report.
LEMMA ReportPolled ==
  ASSUME LoopTypes, LastReport, events # <<>>, events' = Tail(events), session' = session,
         session_state' = IF Head(events) = "instance_loss" THEN session_state ELSE Head(events)
  PROVE  LastReport'
<1> SUFFICES ASSUME session # "none" PROVE LastReport'
  BY DEF LastReport
<1>1. session # "instance_loss"
  BY DEF LoopTypes
<1>2. CASE \E n \in DOMAIN events : /\ events[n] = session
                                    /\ \A k \in DOMAIN events : k > n => events[k] = "instance_loss"
  <2>1. PICK n \in DOMAIN events : /\ events[n] = session
                                   /\ \A k \in DOMAIN events : k > n => events[k] = "instance_loss"
    BY <1>2
  <2>2. CASE n = 1
    <3>1. session_state' = session
      BY <1>1, <2>1, <2>2, OneLess
    <3>2. \A k \in DOMAIN events' : events'[k] = "instance_loss"
      BY <2>1, <2>2, OneLess
    <3> QED BY <3>1, <3>2 DEF LastReport
  <2>3. CASE n # 1
    <3>1. n - 1 \in DOMAIN events' /\ events'[n - 1] = session
      BY <2>1, <2>3, OneLess
    <3>2. \A k \in DOMAIN events' : k > n - 1 => events'[k] = "instance_loss"
      BY <2>1, <2>3, OneLess
    <3> QED BY <3>1, <3>2 DEF LastReport
  <2> QED BY <2>2, <2>3
<1>3. CASE session_state = session /\ \A k \in DOMAIN events : events[k] = "instance_loss"
  <2>1. session_state' = session /\ \A k \in DOMAIN events' : events'[k] = "instance_loss"
    BY <1>3, OneLess
  <2> QED BY <2>1 DEF LastReport
<1> QED BY <1>2, <1>3 DEF LastReport

LEMMA BegunPolled ==
  ASSUME LoopTypes, Begun, events # <<>>, events' = Tail(events), session' = session,
         Head(events) = "ready" => sessionRunning' \/ beginFailed',
         beginFailed => beginFailed',
         sessionRunning => sessionRunning' \/ session = "stopping"
  PROVE  Begun'
<1> SUFFICES ASSUME session \in {"ready", "synchronized", "visible", "focused"},
                    ~sessionRunning', ~beginFailed'
             PROVE  \E n \in DOMAIN events' : events'[n] = "ready"
  BY DEF Begun
<1>1. PICK n \in DOMAIN events : events[n] = "ready"
  BY DEF Begun
<1>2. n # 1
  BY <1>1, OneLess
<1>3. n - 1 \in DOMAIN events' /\ events'[n - 1] = "ready"
  BY <1>1, <1>2, OneLess
<1> QED BY <1>3

LEMMA SdlEventStep ==
  ASSUME LoopInv, SdlEvent
  PROVE  LoopInv'
<1>1. /\ at = "polling" /\ at' = "polling" /\ device = "sdl" /\ events # <<>>
      /\ events' = Tail(events) /\ viewports' \in Nat
      /\ UNCHANGED <<device, built, avatar, render_passes, failed, dangling, session_state,
                     beginFailed, session, sessionRunning>>
  BY DEF SdlEvent, SdlViewports, LoopInv, LoopTypes, objectVars, sessionVars
<1>2. BuiltSoFar' /\ LetGoInTime'
  BY <1>1, LoopRests DEF Loops, PollSteps
<1>3. LoopTypes /\ session = "none"
  BY <1>1 DEF LoopInv, LoopTypes
<1>4. LoopTypes'
  BY <1>1, <1>3, OneLess DEF LoopTypes
<1>5. LastReport' /\ Begun' /\ Framing' /\ Viewing'
  BY <1>1, <1>3 DEF LastReport, Begun, Framing, Viewing, FrameSteps
<1> QED BY <1>2, <1>4, <1>5 DEF LoopInv

LEMMA XrEventStep ==
  ASSUME LoopInv, XrEvent
  PROVE  LoopInv'
<1>1. /\ at = "polling" /\ at' = "polling" /\ device = "openxr" /\ events # <<>>
      /\ Head(events) # "instance_loss" /\ events' = Tail(events)
      /\ session_state' = Head(events)
      /\ UNCHANGED <<device, built, avatar, render_passes, failed, dangling, session>>
  BY DEF XrEvent, objectVars
<1>2. LoopTypes /\ LastReport /\ Begun /\ Viewing
  BY DEF LoopInv
<1>3. BuiltSoFar' /\ LetGoInTime'
  BY <1>1, LoopRests DEF Loops, PollSteps
<1>4. viewports' \in Nat /\ (sessionRunning' => viewports' > 0)
  <2>1. CASE viewports' = viewports /\ (sessionRunning' => sessionRunning)
    BY <1>1, <1>2, <2>1 DEF LoopTypes, Viewing
  <2>2. CASE viewports' = viewports + HeadsetViews
    BY <1>2, <2>2, LoopAssumption DEF LoopTypes, LoopAssumption
  <2>3. CASE Head(events) = "ready"
    <3>1. PICK works \in BOOLEAN :
            /\ sessionRunning' = (sessionRunning \/ works)
            /\ viewports' = IF works THEN viewports + HeadsetViews ELSE viewports
      BY <2>3 DEF XrEvent, Closing
    <3> QED BY <2>1, <2>2, <3>1
  <2>4. CASE Head(events) # "ready"
    <3>1. viewports' = viewports
      BY <2>4 DEF XrEvent
    <3>2. sessionRunning' => sessionRunning
      BY <2>4, Zenon DEF XrEvent
    <3> QED BY <2>1, <3>1, <3>2
  <2> QED BY <2>3, <2>4
<1>5. LoopTypes'
  BY <1>1, <1>2, <1>4, OneLess DEF LoopTypes
<1>6. LastReport'
  BY <1>1, <1>2, ReportPolled
<1>7. Begun'
  <2>1. /\ Head(events) = "ready" => sessionRunning' \/ beginFailed'
        /\ beginFailed => beginFailed'
        /\ sessionRunning => sessionRunning' \/ session = "stopping"
    <3>1. CASE Head(events) = "ready"
      <4>1. PICK works \in BOOLEAN : /\ sessionRunning' = (sessionRunning \/ works)
                                     /\ beginFailed' = (beginFailed \/ ~works)
        BY <3>1 DEF XrEvent, Closing
      <4> QED BY <4>1
    <3>2. CASE Head(events) \in Closing
      <4>1. "ready" \notin Closing
        BY DEF Closing
      <4>2. /\ sessionRunning' = (sessionRunning /\ session # "stopping")
            /\ beginFailed' = beginFailed
        BY <3>2, <4>1, Zenon DEF XrEvent
      <4> QED BY <3>2, <4>1, <4>2, Zenon
    <3>3. CASE Head(events) \notin Closing \cup {"ready"}
      <4>1. sessionRunning' = sessionRunning /\ beginFailed' = beginFailed
        BY <3>3, Zenon DEF XrEvent
      <4> QED BY <3>3, <4>1
    <3> QED BY <3>1, <3>2, <3>3
  <2> QED BY <1>1, <1>2, <2>1, BegunPolled
<1>8. Framing' /\ Viewing'
  BY <1>1, <1>4 DEF Framing, Viewing, FrameSteps
<1> QED BY <1>3, <1>5, <1>6, <1>7, <1>8 DEF LoopInv

LEMMA XrInstanceLossStep ==
  ASSUME LoopInv, XrInstanceLoss
  PROVE  LoopInv'
<1>1. /\ at = "polling" /\ at' = "polled" /\ device = "openxr" /\ events # <<>>
      /\ Head(events) = "instance_loss" /\ events' = Tail(events)
      /\ poll_info' = [poll_info EXCEPT !.should_quit = TRUE]
      /\ UNCHANGED <<device, built, avatar, render_passes, failed, dangling, session,
                     session_state, viewports, sessionRunning, beginFailed>>
  BY DEF XrInstanceLoss, objectVars, sessionVars
<1>2. LoopTypes /\ LastReport /\ Begun /\ Viewing
  BY DEF LoopInv
<1>3. BuiltSoFar' /\ LetGoInTime'
  BY <1>1, LoopRests DEF Loops, PollSteps
<1>4. LoopTypes'
  BY <1>1, <1>2, OneLess DEF LoopTypes
<1>5. LastReport'
  BY <1>1, <1>2, ReportPolled
<1>6. Begun'
  BY <1>1, <1>2, BegunPolled
<1>7. Framing' /\ Viewing'
  BY <1>1, <1>2 DEF Framing, Viewing, FrameSteps
<1> QED BY <1>3, <1>4, <1>5, <1>6, <1>7 DEF LoopInv

LEMMA EndPollStep ==
  ASSUME LoopInv, EndPoll
  PROVE  LoopInv'
<1>1. /\ at = "polling" /\ at' = "polled" /\ events = <<>>
      /\ UNCHANGED <<device, built, avatar, render_passes, failed, dangling, session, events,
                     session_state, viewports, sessionRunning, beginFailed>>
  BY DEF EndPoll, objectVars, sessionVars, outsideVars
<1>2. LoopTypes /\ LastReport /\ Begun /\ Viewing
  BY DEF LoopInv
<1>3. BuiltSoFar' /\ LetGoInTime'
  BY <1>1, LoopRests DEF Loops, PollSteps
<1>4. LoopTypes'
  BY <1>1, <1>2 DEF LoopTypes
<1>5. LastReport' /\ Begun' /\ Viewing'
  BY <1>1, <1>2 DEF LastReport, Begun, Viewing
<1>6. Framing'
  <2> SUFFICES ASSUME device = "openxr", poll_info'.should_run
               PROVE  sessionRunning \/ beginFailed
    BY <1>1 DEF Framing, FrameSteps
  <2>1. session_state \in {"ready", "visible", "focused"}
    BY DEF EndPoll, Runs
  <2>2. DOMAIN events = {} /\ session # "none"
    BY <1>1, <1>2 DEF LoopTypes
  <2>3. session = session_state
    BY <1>2, <2>2 DEF LastReport
  <2> QED BY <1>2, <2>1, <2>2, <2>3 DEF Begun
<1> QED BY <1>3, <1>4, <1>5, <1>6 DEF LoopInv

\* Where the loop goes on without a change to the display.
LEMMA AfterPollStep ==
  ASSUME LoopInv, AfterPoll
  PROVE  LoopInv'
<1>1. /\ at = "polled" /\ at' \in {"left", "begin", "network"}
      /\ at' = "begin" => poll_info.should_run /\ ~poll_info.should_quit
      /\ UNCHANGED <<device, built, avatar, render_passes, failed, dangling, session, events,
                     session_state, viewports, sessionRunning, beginFailed, should_render>>
  BY DEF AfterPoll, QuitAsked, objectVars, sessionVars, outsideVars, displayVars
<1>2. BuiltSoFar' /\ LetGoInTime'
  BY <1>1, LoopRests DEF Loops, PollSteps
<1>3. LoopTypes'
  BY <1>1 DEF LoopInv, LoopTypes
<1>4. LastReport' /\ Begun' /\ Viewing'
  BY <1>1 DEF LoopInv, LastReport, Begun, Viewing
<1>5. Framing'
  BY <1>1 DEF LoopInv, Framing, FrameSteps
<1> QED BY <1>2, <1>3, <1>4, <1>5 DEF LoopInv

LEMMA BeginDisplayFrameStep ==
  ASSUME LoopInv, BeginDisplayFrame
  PROVE  LoopInv'
<1>1. /\ at = "begin" /\ at' = "update"
      /\ UNCHANGED <<device, built, avatar, render_passes, failed, dangling, session, events,
                     session_state, viewports, sessionRunning, beginFailed, poll_info>>
  BY DEF BeginDisplayFrame, objectVars, outsideVars
<1>2. LoopTypes /\ LastReport /\ Begun /\ Framing /\ Viewing
  BY DEF LoopInv
<1>3. BuiltSoFar' /\ LetGoInTime'
  BY <1>1, LoopRests DEF Loops, FrameSteps
<1>4. LoopTypes'
  BY <1>1, <1>2 DEF LoopTypes
<1>5. LastReport' /\ Begun' /\ Framing'
  BY <1>1, <1>2 DEF LastReport, Begun, Framing, FrameSteps
<1>6. should_render' => viewports > 0
  <2>1. CASE device = "sdl"
    BY <2>1 DEF BeginDisplayFrame, WindowRenders
  <2>2. CASE device = "openxr"
    <3>1. should_render' => sessionRunning
      BY <2>2 DEF BeginDisplayFrame
    <3> QED BY <1>2, <2>2, <3>1 DEF Viewing
  <2> QED BY <1>2, <2>1, <2>2 DEF LoopTypes
<1>7. Viewing'
  BY <1>1, <1>2, <1>6 DEF Viewing
<1> QED BY <1>3, <1>4, <1>5, <1>7 DEF LoopInv

LEMMA FrameStep ==
  ASSUME LoopInv, Frame \/ SubmitFrame
  PROVE  LoopInv'
<1>1. /\ at \in FrameSteps \cup {"network"} /\ at' \in {"render", "end", "network", "loop"}
      /\ at' = "render" => at = "update" /\ should_render
      /\ at' \in {"render", "end"} => at \in FrameSteps
      /\ UNCHANGED <<device, built, avatar, render_passes, failed, dangling, session, events,
                     session_state, viewports, sessionRunning, beginFailed, poll_info,
                     should_render>>
  BY DEF Frame, SubmitFrame, FrameSteps, objectVars, sessionVars, outsideVars, displayVars
<1>2. BuiltSoFar' /\ LetGoInTime'
  BY <1>1, LoopRests DEF Loops, PollSteps, FrameSteps
<1>3. LoopTypes'
  BY <1>1 DEF LoopInv, LoopTypes, FrameSteps
<1>4. LastReport' /\ Begun' /\ Framing' /\ Viewing'
  BY <1>1 DEF LoopInv, LastReport, Begun, Framing, Viewing, FrameSteps
<1> QED BY <1>2, <1>3, <1>4 DEF LoopInv

\* On the way out of the loop everything is still there that is let go of.
LEMMA LeaveLoopStep ==
  ASSUME LoopInv, LeaveLoop
  PROVE  LoopInv'
<1>1. /\ at = "left" /\ at' = "unwind" /\ render_passes' = {} /\ ~avatar' /\ viewports' = 0
      /\ session' = "none" /\ ~sessionRunning'
      /\ dangling' = dangling \cup Dead(render_passes)
                               \cup Dead(IF avatar THEN {"world"} ELSE {})
      /\ UNCHANGED <<device, built, failed, events, session_state, should_render>>
  BY DEF LeaveLoop, LetGo, outsideVars
<1>2. LoopTypes /\ BuiltSoFar /\ LetGoInTime
  BY DEF LoopInv
<1>3. LoopTypes'
  BY <1>1, <1>2 DEF LoopTypes
<1>4. BuiltSoFar'
  BY <1>1 DEF BuiltSoFar
<1>5. LetGoInTime'
  <2>1. "world" \in ToSet(built) /\ render_passes \subseteq ToSet(built)
    BY <1>1, <1>2 DEF BuiltSoFar, LoopTypes
  <2>2. dangling' = dangling
    BY <1>1, <2>1 DEF Dead
  <2> QED BY <1>1, <1>2, <2>2 DEF LetGoInTime
<1>6. LastReport' /\ Begun' /\ Framing' /\ Viewing'
  BY <1>1 DEF LastReport, Begun, Framing, Viewing, FrameSteps
<1> QED BY <1>3, <1>4, <1>5, <1>6 DEF LoopInv

\* Destructors find nothing to let go of, unless there was an exception.
LEMMA DestructStep ==
  ASSUME LoopInv, Destruct
  PROVE  LoopInv'
<1>1. /\ at = "unwind" /\ at' = "unwind" /\ built # <<>> /\ built' = Front(built)
      /\ viewports' \in {0, viewports} /\ session' \in {"none", session}
      /\ render_passes' \in {{}, render_passes}
      /\ avatar' => avatar
      /\ sessionRunning' => sessionRunning /\ session' = session /\ viewports' = viewports
      /\ sessionRunning /\ ~sessionRunning' => session' = "none"
      /\ UNCHANGED <<device, failed, events, session_state, should_render, beginFailed>>
  BY DEF Destruct, objectVars, outsideVars
<1>2. LoopTypes /\ BuiltSoFar /\ LetGoInTime /\ LastReport /\ Begun /\ Viewing
  BY DEF LoopInv
<1>3. LoopTypes'
  <2>1. built' \in Seq(Named)
    BY <1>1, <1>2 DEF LoopTypes, Front
  <2> QED BY <1>1, <1>2, <2>1 DEF LoopTypes
<1>4. BuiltSoFar'
  BY <1>1 DEF BuiltSoFar
<1>5. LetGoInTime'
  <2> SUFFICES ASSUME ~failed PROVE dangling' = {} /\ render_passes' = {} /\ ~avatar'
    BY <1>1 DEF LetGoInTime
  <2>1. dangling = {} /\ render_passes = {} /\ ~avatar
    BY <1>1, <1>2 DEF LetGoInTime
  <2>2. dangling' = {}
    BY <2>1 DEF Destruct, Dead
  <2> QED BY <1>1, <2>1, <2>2
<1>6. LastReport' /\ Begun' /\ Framing' /\ Viewing'
  BY <1>1, <1>2 DEF LastReport, Begun, Framing, Viewing, FrameSteps
<1> QED BY <1>3, <1>4, <1>5, <1>6 DEF LoopInv

LEMMA ThrowStep ==
  ASSUME LoopInv, Throw
  PROVE  LoopInv'
<1>1. /\ at' = "unwind" /\ failed'
      /\ UNCHANGED <<device, built, render_passes, events, session, session_state,
                     viewports, sessionRunning, beginFailed, should_render>>
  BY DEF Throw, displayVars, sessionVars, outsideVars
<1>2. LoopTypes'
  BY <1>1 DEF LoopInv, LoopTypes
<1>3. BuiltSoFar' /\ LetGoInTime'
  BY <1>1 DEF BuiltSoFar, LetGoInTime
<1>4. LastReport' /\ Begun' /\ Framing' /\ Viewing'
  BY <1>1 DEF LoopInv, LastReport, Begun, Framing, Viewing, FrameSteps
<1> QED BY <1>2, <1>3, <1>4 DEF LoopInv

LEMMA InterruptStep ==
  ASSUME LoopInv, Interrupt \/ Outgrow
  PROVE  LoopInv'
<1>1. UNCHANGED <<device, at, built, avatar, render_passes, failed, dangling, events, session,
                  session_state, viewports, sessionRunning, beginFailed, should_render,
                  poll_info>>
  BY DEF Interrupt, Outgrow, objectVars, displayVars, sessionVars, outsideVars
<1> QED BY <1>1 DEF LoopInv, LoopTypes, BuiltSoFar, LetGoInTime, LastReport, Begun, Framing, Viewing

\* One more event comes in.
LEMMA OneMoreEvent ==
  ASSUME LoopTypes, NEW e \in States \cup {"quit", "resized"}, events' = Append(events, e)
  PROVE  /\ events' \in Seq(States \cup {"quit", "resized"})
         /\ Len(events) \in Nat /\ DOMAIN events = 1..Len(events)
         /\ DOMAIN events' = 1..(Len(events) + 1)
         /\ \A n \in DOMAIN events : n \in DOMAIN events' /\ events'[n] = events[n]
         /\ events'[Len(events) + 1] = e /\ Len(events) + 1 \in DOMAIN events'
<1>1. PICK E : E = States \cup {"quit", "resized"}
  OBVIOUS
<1>2. events \in Seq(E) /\ e \in E
  BY <1>1 DEF LoopTypes
<1> QED BY <1>1, <1>2

LEMMA WindowStep ==
  ASSUME LoopInv, NEW e \in {"quit", "resized"}, Window(e)
  PROVE  LoopInv'
<1>1. /\ device = "sdl" /\ at \in PollSteps /\ events' = Append(events, e)
      /\ UNCHANGED <<device, at, built, avatar, render_passes, failed, dangling, session,
                     session_state, viewports, sessionRunning, beginFailed, should_render,
                     poll_info>>
  BY DEF Window, objectVars, displayVars, sessionVars
<1>2. LoopTypes /\ session = "none"
  BY <1>1 DEF LoopInv, LoopTypes
<1>3. LoopTypes'
  BY <1>1, <1>2, OneMoreEvent DEF LoopTypes, PollSteps
<1>4. BuiltSoFar' /\ LetGoInTime' /\ Viewing' /\ Framing'
  BY <1>1 DEF LoopInv, BuiltSoFar, LetGoInTime, Viewing, Framing
<1>5. LastReport' /\ Begun'
  BY <1>1, <1>2 DEF LastReport, Begun
<1> QED BY <1>3, <1>4, <1>5 DEF LoopInv

\* The runtime's session becomes ready only in a report of it, and goes on from
\* there.
LEMMA RuntimeStep ==
  ASSUME LoopInv, NEW s \in States, Runtime(s)
  PROVE  LoopInv'
<1>1. /\ device = "openxr" /\ at # "unwind" /\ session # "none" /\ events' = Append(events, s)
      /\ UNCHANGED <<device, at, built, avatar, render_passes, failed, dangling,
                     session_state, viewports, sessionRunning, beginFailed, should_render,
                     poll_info>>
  BY DEF Runtime, objectVars, displayVars
<1>2. LoopTypes /\ LastReport /\ Begun
  BY DEF LoopInv
<1>3. \/ s # "instance_loss" /\ RuntimeMay(s) /\ session' = s
      \/ s = "instance_loss" /\ session' = session
  BY DEF Runtime, RuntimeMay, RuntimeMoves
<1>4. s \in States \cup {"quit", "resized"} /\ "none" \notin States
  BY DEF States
<1>5. LoopTypes'
  <2>1. \A n \in DOMAIN events' : events'[n] \in States
    BY <1>1, <1>2, <1>4, OneMoreEvent DEF LoopTypes
  <2>2. session' # "none" /\ session' # "instance_loss"
    BY <1>1, <1>2, <1>3, <1>4 DEF LoopTypes
  <2> QED BY <1>1, <1>2, <1>4, <2>1, <2>2, OneMoreEvent DEF LoopTypes
<1>6. BuiltSoFar' /\ LetGoInTime' /\ Viewing' /\ Framing'
  BY <1>1 DEF LoopInv, BuiltSoFar, LetGoInTime, Viewing, Framing
<1>7. LastReport'
  <2>1. CASE session' = s
    <3>1. PICK n : n = Len(events) + 1
      OBVIOUS
    <3>2. n \in DOMAIN events' /\ events'[n] = session' /\ \A k \in DOMAIN events' : ~(k > n)
      BY <1>1, <1>2, <1>4, <2>1, <3>1, OneMoreEvent
    <3> QED BY <3>2 DEF LastReport
  <2>2. CASE s = "instance_loss" /\ session' = session
    <3>1. CASE \E n \in DOMAIN events :
                 /\ events[n] = session
                 /\ \A k \in DOMAIN events : k > n => events[k] = "instance_loss"
      <4>1. PICK n \in DOMAIN events :
              /\ events[n] = session
              /\ \A k \in DOMAIN events : k > n => events[k] = "instance_loss"
        BY <3>1
      <4>2. n \in DOMAIN events' /\ events'[n] = session'
        BY <1>1, <1>2, <1>4, <2>2, <4>1, OneMoreEvent
      <4>3. \A k \in DOMAIN events' : k > n => events'[k] = "instance_loss"
        BY <1>1, <1>2, <1>4, <2>2, <4>1, OneMoreEvent
      <4> QED BY <4>2, <4>3 DEF LastReport
    <3>2. CASE session_state = session /\ \A k \in DOMAIN events : events[k] = "instance_loss"
      <4>1. \A k \in DOMAIN events' : events'[k] = "instance_loss"
        BY <1>1, <1>2, <1>4, <2>2, <3>2, OneMoreEvent
      <4> QED BY <1>1, <2>2, <3>2, <4>1 DEF LastReport
    <3> QED BY <1>1, <1>2, <3>1, <3>2 DEF LastReport
  <2> QED BY <1>3, <2>1, <2>2
<1>8. Begun'
  <2> SUFFICES ASSUME session' \in {"ready", "synchronized", "visible", "focused"},
                      ~sessionRunning, ~beginFailed
               PROVE  \E n \in DOMAIN events' : events'[n] = "ready"
    BY <1>1 DEF Begun
  <2>1. CASE session' = "ready" /\ s = "ready"
    BY <1>1, <1>2, <1>4, <2>1, OneMoreEvent
  <2>2. CASE session \in {"ready", "synchronized", "visible", "focused"}
    <3>1. PICK n \in DOMAIN events : events[n] = "ready"
      BY <1>2, <2>2 DEF Begun
    <3> QED BY <1>1, <1>2, <1>4, <3>1, OneMoreEvent
  <2> QED BY <1>3, <2>1, <2>2 DEF RuntimeMay, RuntimeMoves
<1> QED BY <1>5, <1>6, <1>7, <1>8 DEF LoopInv

LEMMA LoopStutters ==
  ASSUME LoopInv, UNCHANGED loopVars
  PROVE  LoopInv'
<1>1. UNCHANGED <<device, at, built, avatar, render_passes, failed, dangling, events, session,
                  session_state, viewports, sessionRunning, beginFailed, should_render,
                  poll_info>>
  BY DEF loopVars, objectVars, displayVars, sessionVars, outsideVars
<1> QED BY <1>1 DEF LoopInv, LoopTypes, BuiltSoFar, LetGoInTime, LastReport, Begun, Framing, Viewing

LEMMA LoopGoesOn == LoopInv /\ [LoopNext]_loopVars => LoopInv'
BY BuildStep, StartPollStep, SdlEventStep, XrEventStep, XrInstanceLossStep, EndPollStep,
   AfterPollStep, BeginDisplayFrameStep, FrameStep, LeaveLoopStep, DestructStep, ThrowStep,
   InterruptStep, WindowStep, RuntimeStep, LoopStutters
   DEF LoopNext, ClientSteps, Ended

LEMMA LoopHolds == LoopSpec => []LoopInv
BY LoopBegins, LoopGoesOn, PTL DEF LoopSpec

\* renderFrame always finds viewports, whatever the window and the runtime do
\* between beginFrame and it: run() and the displays' beginFrame and
\* pollEvents.
THEOREM AlwaysViewports == LoopSpec => []RenderedViewportsExist
<1>1. LoopInv => RenderedViewportsExist
  BY DEF LoopInv, Viewing, RenderedViewportsExist
<1> QED BY LoopHolds, <1>1, PTL

\* No frame is begun, rendered or ended outside of a running session that could
\* be begun, however long the queue of session states is that
\* OpenXrDisplay::pollEvents finds.
THEOREM FramesNeedSession == LoopSpec => []FramesInRunningSession
<1>1. LoopInv => FramesInRunningSession
  BY DEF LoopInv, Framing, FramesInRunningSession
<1> QED BY LoopHolds, <1>1, PTL

\* Without an exception the renderer and the display have let go of the passes
\* and of the avatar before the destructors of run()'s objects run.
THEOREM ExitIsClean == LoopSpec => []CleanExit
<1>1. LoopInv => CleanExit
  BY DEF LoopInv, LetGoInTime, CleanExit
<1> QED BY LoopHolds, <1>1, PTL
-----------------------------------------------------------------------------
(* The passes                                                              *)

\* A stage is executed after what it comes after.
Waited ==
  /\ msaa_enabled \in BOOLEAN /\ done \subseteq Stage
  /\ \A x \in done : Before(x) \subseteq done

LEMMA StagesWait == PassesSpec => []Waited
<1>1. PassesInit => Waited
  BY DEF PassesInit, Waited
<1>2. Waited /\ [PassesNext]_passesVars => Waited'
  <2> SUFFICES ASSUME Waited, [PassesNext]_passesVars
               PROVE  Waited'
    OBVIOUS
  <2>1. ASSUME NEW x \in Stage, ExecuteStage(x)
        PROVE  Waited'
    BY <2>1 DEF Waited, ExecuteStage, MayBegin
  <2>2. CASE UNCHANGED passesVars
    BY <2>2 DEF Waited, passesVars
  <2> QED BY <2>1, <2>2 DEF PassesNext
<1> QED BY <1>1, <1>2, PTL DEF PassesSpec

\* The stages of a frame.
StageOf(f, s, k) ==
  \/ s \in MainSubpasses /\ k \in Stages
  \/ s = CompositeSubpass /\ k \in {FragmentShader, ColorOutput}

LEMMA StagesOfFrames ==
  /\ \A x \in Stage : \E f \in 1 .. MaxFrame, s \in Subpasses, k \in Stages :
       x = <<f, s, k>> /\ StageOf(f, s, k)
  /\ \A n \in Int : \A f \in 1 .. n, s \in Subpasses, k \in Stages :
       StageOf(f, s, k) => <<f, s, k>> \in StagesUpTo(n)
<1>1. /\ MainSubpasses \subseteq Subpasses /\ CompositeSubpass \in Subpasses
      /\ FragmentShader \in Stages /\ ColorOutput \in Stages
  BY DEF Subpasses, MainSubpasses, CompositeSubpass, Stages, FragmentShader, ColorOutput
<1>2. ASSUME NEW x \in Stage
      PROVE  \E f \in 1 .. MaxFrame, s \in Subpasses, k \in Stages :
               x = <<f, s, k>> /\ StageOf(f, s, k)
  <2>1. PICK f \in 1 .. MaxFrame : x \in MainStages(f) \cup CompositeStages(f)
    BY DEF Stage, StagesUpTo
  <2> QED BY <1>1, <2>1 DEF MainStages, CompositeStages, StageOf
<1>3. ASSUME NEW n \in Int, NEW f \in 1 .. n, NEW s \in Subpasses, NEW k \in Stages,
             StageOf(f, s, k)
      PROVE  <<f, s, k>> \in StagesUpTo(n)
  <2>1. <<f, s, k>> \in MainStages(f) \cup CompositeStages(f)
    BY <1>3 DEF MainStages, CompositeStages, StageOf
  <2> QED BY <2>1 DEF StagesUpTo
<1> QED BY <1>2, <1>3

\* What a stage comes after.
LEMMA ComesAfter ==
  ASSUME NEW f \in Nat, NEW s \in Subpasses, NEW k \in Stages
  PROVE  /\ \A j \in Stages : j < k /\ StageOf(f, s, j) => <<f, s, j>> \in Before(<<f, s, k>>)
         /\ s \in {1, 2} => \A j \in 1..3 : <<f, 0, j>> \in Before(<<f, s, k>>)
         /\ s = 3 => <<f, 1, 1>> \in Before(<<f, s, k>>)
         /\ s = 3 /\ k = 4 => \A j \in Stages : <<f, 2, j>> \in Before(<<f, s, k>>)
         /\ StagesUpTo(f - FramesInFlight) \subseteq Before(<<f, s, k>>)
<1>1. \A j \in Stages : j < k /\ StageOf(f, s, j) => <<f, s, j>> \in Before(<<f, s, k>>)
  <2> SUFFICES ASSUME NEW j \in Stages, j < k, StageOf(f, s, j)
               PROVE  <<f, s, j>> \in Before(<<f, s, k>>)
    OBVIOUS
  <2>1. <<f, s, j>> \in MainStages(f) \cup CompositeStages(f)
    BY DEF MainStages, CompositeStages, StageOf
  <2> QED BY <2>1 DEF Before, Stages
<1>2. \A d \in Dependencies : d.dst = s /\ k >= d.dstStage =>
        \A j \in 1..d.srcStage : <<f, d.src, j>> \in Before(<<f, s, k>>)
  BY DEF Before
<1>3. /\ Dependency(0, 1, 3, 1) \in Dependencies /\ Dependency(0, 2, 3, 1) \in Dependencies
      /\ Dependency(2, 3, 4, 4) \in Dependencies /\ Dependency(1, 3, 1, 1) \in Dependencies
  BY DEF Dependencies, EarlyTests, LateTests, ColorOutput
<1>4. /\ s \in {1, 2} => \A j \in 1..3 : <<f, 0, j>> \in Before(<<f, s, k>>)
      /\ s = 3 => <<f, 1, 1>> \in Before(<<f, s, k>>)
      /\ s = 3 /\ k = 4 => \A j \in Stages : <<f, 2, j>> \in Before(<<f, s, k>>)
  BY <1>2, <1>3 DEF Dependency, Stages
<1>5. StagesUpTo(f - FramesInFlight) \subseteq Before(<<f, s, k>>)
  BY DEF Before
<1> QED BY <1>1, <1>4, <1>5

\* The transparent subpass puts out color after the forward subpass, and after
\* its own other stages.
LEMMA TransparentLast ==
  ASSUME NEW f \in Nat
  PROVE  /\ \A j \in Stages : <<f, 2, j>> \in Before(<<f, 3, 4>>)
         /\ \A j \in 1..3 : <<f, 3, j>> \in Before(<<f, 3, 4>>)
<1>1. 3 \in Subpasses /\ 4 \in Stages /\ 3 \in MainSubpasses /\ 1..3 \subseteq Stages
  BY DEF Subpasses, MainSubpasses, Stages
<1>2. \A j \in Stages : StageOf(f, 3, j)
  BY <1>1 DEF StageOf
<1>3. \A j \in Stages : <<f, 2, j>> \in Before(<<f, 3, 4>>)
  BY <1>1, ComesAfter
<1>4. \A j \in Stages : j < 4 /\ StageOf(f, 3, j) => <<f, 3, j>> \in Before(<<f, 3, 4>>)
  BY <1>1, ComesAfter
<1> QED BY <1>1, <1>2, <1>3, <1>4

\* The composite pass reads, and puts out color, after all main subpasses.
LEMMA CompositeLater ==
  ASSUME NEW f \in Nat \ {0}, NEW k \in {2, 4}, NEW r \in MainSubpasses, NEW j \in Stages
  PROVE  <<f, r, j>> \in Before(<<f, 4, k>>)
<1>1. <<f, r, j>> \in MainStages(f)
  BY DEF MainStages
<1> QED BY <1>1 DEF Before, CompositeFrom, FragmentShader, CompositeSubpass
\* Color images are used where color is put out, and by the composite pass.
LEMMA ColorsUsed ==
  ASSUME NEW s \in Subpasses, NEW k \in Stages
  PROVE  /\ \A a \in Writes(s, k) :
              \/ a = "depth" /\ k \in {1, 3} /\ s \in MainSubpasses
              \/ k = 4 /\ s = 1 /\ a \in {"overlay", "overlay_msaa"}
              \/ k = 4 /\ s \in {2, 3} /\ a \in {"hdr", "hdr_msaa"}
         /\ \A a \in Reads(s, k) :
              \/ a = "depth" /\ k \in {1, 3} /\ s \in MainSubpasses
              \/ k = 4 /\ s = 1 /\ a \in {"overlay", "overlay_msaa"}
              \/ k = 4 /\ s \in {2, 3} /\ a \in {"hdr", "hdr_msaa"}
              \/ k = 2 /\ s = 4
<1>1. s \in {0, 1, 2, 3, 4} /\ k \in {1, 2, 3, 4}
  BY DEF Subpasses, MainSubpasses, CompositeSubpass, Stages
<1>2. /\ \A a \in ColorAttachments(s) \cup ResolveAttachments(s) :
           \/ s = 1 /\ a \in {"overlay", "overlay_msaa"}
           \/ s \in {2, 3} /\ a \in {"hdr", "hdr_msaa"}
      /\ \A a \in DepthAttachments(s) : a = "depth" /\ s \in MainSubpasses
      /\ InputAttachments(s) # {} => s = 4
  BY <1>1 DEF ColorAttachments, ResolveAttachments, DepthAttachments, InputAttachments,
     OverlaySubpass, ForwardSubpass, TransparentSubpass, CompositeSubpass
<1> QED BY <1>1, <1>2 DEF Writes, Reads, EarlyTests, LateTests, FragmentShader, ColorOutput

\* The stages of two subpasses of a frame that may overlap conflict over depth
\* only, and not with the prepass: the dependencies and the composite pass's
\* barrier keep all others apart.
LEMMA FrameKeepsApart ==
  ASSUME Waited, NEW x \in running, NEW y \in running, x[1] = y[1], x[2] < y[2]
  PROVE  /\ Conflict(x, y) \subseteq {"depth"}
         /\ x[2] = DepthSubpass => Conflict(x, y) = {}
<1>1. PICK f \in Nat, s \in Subpasses, k \in Stages, t \in Subpasses, l \in Stages :
        /\ x = <<f, s, k>> /\ StageOf(f, s, k)
        /\ y = <<f, t, l>> /\ StageOf(f, t, l) /\ f >= 1
  <2>1. x \in Stage /\ y \in Stage
    BY DEF running, MayBegin
  <2>2. PICK f \in 1 .. MaxFrame, s \in Subpasses, k \in Stages :
          x = <<f, s, k>> /\ StageOf(f, s, k)
    BY <2>1, StagesOfFrames
  <2>3. PICK g \in 1 .. MaxFrame, t \in Subpasses, l \in Stages :
          y = <<g, t, l>> /\ StageOf(g, t, l)
    BY <2>1, StagesOfFrames
  <2> QED BY <2>2, <2>3, PassesAssumption DEF PassesAssumption
<1>2. x \notin Before(y) /\ y \notin Before(x) /\ Before(y) \subseteq done /\ x \notin done
  BY DEF running, MayBegin
<1>3. /\ s \in {0, 1, 2, 3, 4} /\ k \in {1, 2, 3, 4}
      /\ t \in {0, 1, 2, 3, 4} /\ l \in {1, 2, 3, 4}
      /\ s < t /\ (t = 4 => l \in {2, 4})
  BY <1>1 DEF Subpasses, MainSubpasses, CompositeSubpass, Stages, StageOf, FragmentShader,
     ColorOutput
<1>5. Conflict(x, y) =
        (Writes(s, k) \cap (Writes(t, l) \cup Reads(t, l))) \cup (Writes(t, l) \cap Reads(s, k))
  BY <1>1 DEF Conflict
<1>6. ~(k = 4 /\ l = 4 /\ s = 2 /\ t = 3)
  BY <1>1, <1>2, TransparentLast
<1>7. t # 4
  <2> SUFFICES ASSUME t = 4
               PROVE  FALSE
    OBVIOUS
  <2>1. f \in Nat \ {0} /\ l \in {2, 4} /\ s \in MainSubpasses
    BY <1>1, <1>3 DEF MainSubpasses
  <2>2. <<f, s, k>> \in Before(<<f, 4, l>>)
    BY <2>1, CompositeLater
  <2> QED BY <1>1, <1>2, <2>2
<1>8. Conflict(x, y) \subseteq {"depth"}
  BY <1>3, <1>5, <1>6, <1>7, ColorsUsed
<1>9. ASSUME s = 0
      PROVE  Conflict(x, y) = {}
  <2>1. CASE t \in {1, 2}
    <3>1. k \notin 1..3
      BY <1>1, <1>2, <1>9, <2>1, ComesAfter
    <3> QED BY <1>3, <1>5, <1>9, <3>1, ColorsUsed
  <2>2. CASE t = 3
    <3>1. <<f, 1, 1>> \in done
      BY <1>1, <1>2, <2>2, ComesAfter
    <3>2. Before(<<f, 1, 1>>) \subseteq done
      BY <3>1 DEF Waited
    <3>3. 1 \in Subpasses /\ 1 \in Stages
      BY DEF Subpasses, MainSubpasses, Stages
    <3>4. k \notin 1..3
      BY <1>1, <1>2, <1>9, <3>2, <3>3, ComesAfter
    <3> QED BY <1>3, <1>5, <1>9, <3>4, ColorsUsed
  <2> QED BY <1>3, <1>7, <1>9, <2>1, <2>2
<1> QED BY <1>1, <1>8, <1>9 DEF DepthSubpass

\* However many frames are in flight, two subpasses of a frame never use a color
\* image at the same time if one writes it, and nothing tests depth while the
\* prepass writes it: the subpass dependencies that Renderer's main pass and
\* composite pass declare.
THEOREM SubpassesKeepApart == PassesSpec => []ColorAccessesOrdered
<1>1. Waited => ColorAccessesOrdered
  BY FrameKeepsApart DEF ColorAccessesOrdered
<1> QED BY StagesWait, <1>1, PTL

\* What a stage makes of the HDR image: it is the transparent subpass's, it is
\* of a stage the transparent subpass comes after, the composite pass does not
\* store it, or it is left alone.
LEMMA HdrEffect ==
  ASSUME Waited, NEW f \in Nat, NEW s \in Subpasses, NEW k \in Stages, StageOf(f, s, k)
  PROVE  LET new == Effect(f, s, k, "hdr")
         IN  \/ new = content["hdr"] /\ ~(s = 3 /\ k = 4)
             \/ /\ new[1] = f
                /\ s = 3 /\ k = 4 => new = <<f, 3>>
                /\ \/ s = 3 /\ k = 4
                   \/ s = 4 /\ k = 4
                   \/ <<f, s, k>> \in Before(<<f, 3, 4>>)
<1>1. s \in {0, 1, 2, 3, 4} /\ k \in {1, 2, 3, 4} /\ msaa_enabled \in BOOLEAN
  BY DEF Subpasses, MainSubpasses, CompositeSubpass, Stages, Waited
<1>2. "hdr" \in Uses(3) /\ \A r \in {0, 1, 4} : "hdr" \notin Uses(r)
  BY <1>1 DEF Uses, ColorAttachments, ResolveAttachments, DepthAttachments, MainSubpasses,
     OverlaySubpass, ForwardSubpass, TransparentSubpass
<1>3. \A d \in Dependencies : d.src \in {0, 1} \/ (d.src = 2 /\ d.dst = 3)
  BY DEF Dependencies, Dependency
<1>4. \A r \in Subpasses : "hdr" \notin Lost(r)
  BY <1>2, <1>3 DEF Lost
<1>5. "hdr" \in Writes(3, 4)
  BY <1>2 DEF Writes, Uses, ColorOutput, EarlyTests, LateTests, DepthAttachments
<1>6. "hdr" \in Discarded(s) => s \in {2, 3}
  BY <1>1, <1>2 DEF Discarded, MainSubpasses
<1>7. "hdr" \in NotStored(s, k) => s = 4 /\ k = 4
  BY DEF NotStored, InputAttachments, ColorOutput, CompositeSubpass
<1>8. "hdr" \in Writes(s, k) => k = 4 /\ s \in {2, 3}
  BY ColorsUsed
<1>9. 3 \in Subpasses /\ 4 \in Stages
  BY DEF Subpasses, MainSubpasses, Stages
<1>10. s = 2 => <<f, s, k>> \in Before(<<f, 3, 4>>)
  BY TransparentLast
<1>11. s = 3 /\ k \in 1..3 => <<f, s, k>> \in Before(<<f, 3, 4>>)
  BY TransparentLast
<1>12. CASE "hdr" \in Writes(s, k)
  <2>1. Effect(f, s, k, "hdr") = <<f, s>>
    BY <1>12 DEF Effect
  <2> QED BY <1>8, <1>10, <1>12, <2>1
<1>13. CASE /\ "hdr" \notin Writes(s, k)
            /\ \/ k = EarlyTests /\ "hdr" \in Lost(s) \cup Discarded(s)
               \/ "hdr" \in NotStored(s, k)
  <2>1. Effect(f, s, k, "hdr") = <<f, 5>>
    BY <1>13 DEF Effect, Undefined, NoSubpass
  <2>2. ~(s = 3 /\ k = 4)
    BY <1>5, <1>13
  <2>3. (s \in {2, 3} /\ k = 1) \/ (s = 4 /\ k = 4)
    BY <1>4, <1>6, <1>7, <1>13 DEF EarlyTests
  <2> QED BY <1>10, <1>11, <2>1, <2>2, <2>3
<1>14. CASE /\ "hdr" \notin Writes(s, k)
            /\ ~(k = EarlyTests /\ "hdr" \in Lost(s) \cup Discarded(s))
            /\ "hdr" \notin NotStored(s, k)
  <2>1. Effect(f, s, k, "hdr") = content["hdr"]
    BY <1>14 DEF Effect
  <2> QED BY <1>5, <1>14, <2>1
<1> QED BY <1>12, <1>13, <1>14

\* Whose the HDR image is.  A frame whose transparent subpass has drawn finds
\* it so until its composite pass is done, unless another frame took it, and
\* that frame was not over when it began.
HdrLast ==
  LET writer == content["hdr"][1]
  IN  /\ writer \in 0 .. MaxFrame
      /\ writer # 0 => \E y \in done : y[1] = writer
      /\ \A f \in 1 .. MaxFrame : <<f, 3, 4>> \in done =>
           /\ writer # 0 /\ writer > f - FramesInFlight
           /\ writer = f /\ <<f, 4, 4>> \notin done => content["hdr"] = <<f, 3>>

LEMMA HdrGoesOn ==
  ASSUME Waited, HdrLast, NEW x \in Stage, ExecuteStage(x)
  PROVE  HdrLast'
<1>0. FramesInFlight \in Nat \ {0} /\ MaxFrame \in Nat
  BY PassesAssumption DEF PassesAssumption
<1>1. PICK g \in 1 .. MaxFrame, s \in Subpasses, k \in Stages :
        x = <<g, s, k>> /\ StageOf(g, s, k)
  BY StagesOfFrames
<1>2. /\ done' = done \cup {x} /\ x \notin done
      /\ content'["hdr"] = Effect(g, s, k, "hdr")
  BY <1>1 DEF ExecuteStage, MayBegin, ViewportImages
<1>3. g \in Nat
  BY <1>0
<1>4. \/ content'["hdr"] = content["hdr"] /\ ~(s = 3 /\ k = 4)
      \/ /\ content'["hdr"][1] = g
         /\ s = 3 /\ k = 4 => content'["hdr"] = <<g, 3>>
         /\ \/ s = 3 /\ k = 4
            \/ s = 4 /\ k = 4
            \/ <<g, s, k>> \in Before(<<g, 3, 4>>)
  BY <1>1, <1>2, <1>3, HdrEffect
<1>5. CASE content'["hdr"] = content["hdr"] /\ ~(s = 3 /\ k = 4)
  <2>1. \A f \in 1 .. MaxFrame : <<f, 3, 4>> \in done' => <<f, 3, 4>> \in done
    BY <1>1, <1>2, <1>5
  <2> QED BY <1>2, <1>5, <2>1 DEF HdrLast
<1>6. CASE /\ content'["hdr"][1] = g
           /\ s = 3 /\ k = 4 => content'["hdr"] = <<g, 3>>
           /\ \/ s = 3 /\ k = 4
              \/ s = 4 /\ k = 4
              \/ <<g, s, k>> \in Before(<<g, 3, 4>>)
  <2>1. content'["hdr"][1] \in 0 .. MaxFrame /\ content'["hdr"][1] # 0
    BY <1>0, <1>6
  <2>2. \E y \in done' : y[1] = content'["hdr"][1]
    BY <1>1, <1>2, <1>6
  <2>3. ASSUME NEW f \in 1 .. MaxFrame, <<f, 3, 4>> \in done'
        PROVE  g > f - FramesInFlight
    <3>1. CASE <<f, 3, 4>> = x
      BY <1>0, <1>1, <3>1
    <3>2. CASE <<f, 3, 4>> \in done
      <4>1. f \in Nat /\ 3 \in Subpasses /\ 4 \in Stages /\ f - FramesInFlight \in Int
        BY <1>0 DEF Subpasses, MainSubpasses, Stages
      <4>2. StagesUpTo(f - FramesInFlight) \subseteq Before(<<f, 3, 4>>)
        BY <4>1, ComesAfter
      <4>3. StagesUpTo(f - FramesInFlight) \subseteq done
        BY <3>2, <4>2 DEF Waited
      <4>4. g \in 1 .. f - FramesInFlight => x \in StagesUpTo(f - FramesInFlight)
        BY <1>1, <4>1, StagesOfFrames
      <4> QED BY <1>0, <1>2, <4>1, <4>3, <4>4
    <3> QED BY <1>2, <2>3, <3>1, <3>2
  <2>4. ASSUME NEW f \in 1 .. MaxFrame, <<f, 3, 4>> \in done', g = f, <<f, 4, 4>> \notin done'
        PROVE  content'["hdr"] = <<f, 3>>
    <3>1. ~(s = 4 /\ k = 4)
      BY <1>1, <1>2, <2>4
    <3>2. ASSUME <<g, s, k>> \in Before(<<g, 3, 4>>), ~(s = 3 /\ k = 4)
          PROVE  FALSE
      <4>1. <<g, 3, 4>> \in done
        BY <1>1, <1>2, <2>4, <3>2
      <4> QED BY <1>1, <1>2, <3>2, <4>1 DEF Waited
    <3> QED BY <1>6, <2>4, <3>1, <3>2
  <2> QED BY <1>6, <2>1, <2>2, <2>3, <2>4 DEF HdrLast
<1> QED BY <1>4, <1>5, <1>6

LEMMA HdrHolds == PassesSpec => []HdrLast
<1>1. PassesInit => HdrLast
  BY PassesAssumption DEF PassesInit, HdrLast, Undefined, ViewportImages, PassesAssumption
<1>2. Waited /\ HdrLast /\ [PassesNext]_passesVars => HdrLast'
  <2> SUFFICES ASSUME Waited, HdrLast, [PassesNext]_passesVars
               PROVE  HdrLast'
    OBVIOUS
  <2>1. CASE UNCHANGED passesVars
    BY <2>1 DEF HdrLast, passesVars
  <2> QED BY <2>1, HdrGoesOn DEF PassesNext
<1> QED BY <1>1, <1>2, StagesWait, PTL DEF PassesSpec

\* However many frames are in flight, the composite pass reads the HDR image as
\* the transparent subpass of its frame left it, or as another frame did that
\* was in flight with it, in any number of frames, with multisampling and
\* without: Renderer's layouts, load, store and resolve attachments, the
\* barrier before the composite pass and the fences of renderFrame.
THEOREM CompositeHasHdr == PassesSpec => []CompositeReadsForward
<1>1. Waited /\ HdrLast => CompositeReadsForward
  <2> SUFFICES ASSUME Waited, HdrLast, NEW f \in 1 .. MaxFrame, MayBegin(<<f, 4, 2>>)
               PROVE  \/ content["hdr"] = <<f, 3>>
                      \/ /\ content["hdr"][1] # f
                         /\ content["hdr"][1] \in 1 .. MaxFrame
                         /\ content["hdr"][1] > f - FramesInFlight
                         /\ content["hdr"][1] < f + FramesInFlight
    BY DEF CompositeReadsForward, CompositeSubpass, FragmentShader, TransparentSubpass
  <2>0. FramesInFlight \in Nat \ {0} /\ MaxFrame \in Nat
    BY PassesAssumption DEF PassesAssumption
  <2>2. PICK x : x = <<f, 4, 2>>
    OBVIOUS
  <2>1. x \notin done /\ Before(x) \subseteq done
    BY <2>2 DEF MayBegin
  <2>3. f \in Nat \ {0} /\ 4 \in Subpasses /\ 2 \in Stages /\ 4 \in Stages /\ 3 \in MainSubpasses
    BY <2>0 DEF Subpasses, MainSubpasses, CompositeSubpass, Stages
  <2>4. <<f, 3, 4>> \in Before(<<f, 4, 2>>)
    BY <2>3, CompositeLater
  <2>5. <<f, 3, 4>> \in done
    BY <2>1, <2>2, <2>4
  <2>6. <<f, 4, 4>> \notin done
    <3>1. StageOf(f, 4, 2)
      BY DEF StageOf, CompositeSubpass, FragmentShader
    <3>2. \A j \in Stages : j < 4 /\ StageOf(f, 4, j) => <<f, 4, j>> \in Before(<<f, 4, 4>>)
      BY <2>3, ComesAfter
    <3>3. <<f, 4, 2>> \in Before(<<f, 4, 4>>)
      BY <2>3, <3>1, <3>2
    <3> QED BY <2>1, <2>2, <3>3 DEF Waited
  <2>7. /\ content["hdr"][1] \in 1 .. MaxFrame
        /\ content["hdr"][1] > f - FramesInFlight
        /\ content["hdr"][1] = f => content["hdr"] = <<f, 3>>
    BY <2>0, <2>5, <2>6 DEF HdrLast
  <2>8. content["hdr"][1] < f + FramesInFlight
    <3> SUFFICES ASSUME content["hdr"][1] >= f + FramesInFlight
                 PROVE  FALSE
      BY <2>0, <2>3, <2>7
    <3>1. PICK y \in done : y[1] = content["hdr"][1]
      BY <2>0, <2>7 DEF HdrLast
    <3>2. PICK g \in 1 .. MaxFrame, s \in Subpasses, k \in Stages : y = <<g, s, k>>
      BY StagesOfFrames DEF Waited
    <3>3. g \in Nat /\ g >= f + FramesInFlight /\ g - FramesInFlight \in Int
      BY <2>0, <3>1, <3>2
    <3>4. StagesUpTo(g - FramesInFlight) \subseteq done
      <4>1. StagesUpTo(g - FramesInFlight) \subseteq Before(<<g, s, k>>)
        BY <3>3, ComesAfter
      <4> QED BY <3>2, <4>1 DEF Waited
    <3>5. f \in 1 .. g - FramesInFlight /\ StageOf(f, 4, 2)
      BY <2>0, <2>3, <3>3 DEF StageOf, CompositeSubpass, FragmentShader
    <3>6. x \in StagesUpTo(g - FramesInFlight)
      BY <2>2, <2>3, <3>3, <3>5, StagesOfFrames
    <3> QED BY <2>1, <3>4, <3>6
  <2> QED BY <2>2, <2>7, <2>8
<1> QED BY HdrHolds, StagesWait, <1>1, PTL
-----------------------------------------------------------------------------
(* Shapes of the user interface                                            *)

IsRing == shape = "ring"

ShapesType ==
  /\ shape \in {"circle", "ring"} /\ spokeCount \in Nat /\ spokeCount >= 3
  /\ first_index \in Nat /\ written \in 0 .. spokeCount

\* Spokes that are due have not been overwritten, the others are in their vertices.
Vertices ==
  /\ DOMAIN memory = 0 .. 3 * VertexCount - 1
  /\ \A k \in 0 .. spokeCount - 1 :
       IF k < spokeCount - written THEN memory[k] = <<"spoke", k>>
       ELSE /\ memory[Position(Outer(k))] = <<"outer", <<"spoke", k>>>>
            /\ IsRing => memory[Position(Inner(k))] = <<"inner", <<"spoke", k>>>>

\* The vertex of a spoke, and the spoke before it.
Out(k) == first_index + Outer(k)
SpokeBefore(k) == IF k = 0 THEN spokeCount - 1 ELSE k - 1

\* The triangles of a spoke.
Wedge(k) == <<first_index - 1, Out(SpokeBefore(k)), Out(k)>>
InnerHalf(k) == <<Out(SpokeBefore(k)) + 1, Out(SpokeBefore(k)), Out(k)>>
OuterHalf(k) == <<Out(k), Out(SpokeBefore(k)) + 1, Out(k) + 1>>

\* The triangles of the first m spokes have been made.
Made(m) ==
  /\ m \in 0 .. spokeCount /\ Len(indices) = (IF IsRing THEN 2 * m ELSE m)
  /\ written < spokeCount => m = 0
  /\ last.outer = Out(SpokeBefore(m)) /\ (IsRing => last.inner = Out(SpokeBefore(m)) + 1)
  /\ \A k \in 0 .. m - 1 :
       IF IsRing THEN indices[2 * k + 1] = InnerHalf(k) /\ indices[2 * k + 2] = OuterHalf(k)
       ELSE indices[k + 1] = Wedge(k)

Triangles == indices \in Seq(Seq(Int)) /\ \E m \in 0 .. spokeCount : Made(m)

ShapesInv == ShapesType /\ Vertices /\ Triangles

LEMMA PlaceWrites ==
  ASSUME NEW mem, NEW n \in Nat, DOMAIN mem = 0 .. n - 1, NEW v \in Nat, 3 * v + 2 < n,
         NEW spoke, NEW edge
  PROVE  /\ DOMAIN Place(mem, v, spoke, edge) = DOMAIN mem
         /\ Place(mem, v, spoke, edge)[3 * v] = <<edge, mem[spoke]>>
         /\ \A c \in DOMAIN mem : c < 3 * v \/ c > 3 * v + 2 =>
              Place(mem, v, spoke, edge)[c] = mem[c]
BY DEF Place, Position

LEMMA InitShapes == ShapeInit => ShapesInv
<1> SUFFICES ASSUME ShapeInit PROVE ShapesInv
  OBVIOUS
<1>1. ShapesType
  <2>1. PICK n \in FirstVertices : first_index = n + (IF shape = "circle" THEN 1 ELSE 0)
    BY DEF ShapeInit
  <2>2. first_index \in Nat
    BY <2>1, ShapesAssumption DEF ShapesAssumption
  <2>3. spokeCount \in SpokeCounts /\ shape \in {"circle", "ring"} /\ written = 0
    BY DEF ShapeInit
  <2>4. spokeCount \in Nat /\ spokeCount >= 3
    BY <2>3, ShapesAssumption DEF ShapesAssumption
  <2> QED BY <2>2, <2>3, <2>4 DEF ShapesType
<1>2. Vertices
  BY <1>1 DEF ShapeInit, ShapesType, Vertices, VertexCount, IsRing
<1>3. << >> \in Seq(Seq(Int)) /\ Len(<< >>) = 0
  OBVIOUS
<1>4. Made(0)
  BY <1>1, <1>3 DEF ShapeInit, ShapesType, Made, SpokeBefore, Out, Outer, IsRing, VertexCount
<1> QED BY <1>1, <1>2, <1>3, <1>4 DEF ShapesInv, Triangles, ShapeInit, ShapesType

\* A spoke's vertices lie behind every spoke that has not been written.
LEMMA SpokesAreKept == ASSUME ShapesInv, WriteSpoke PROVE ShapesInv'
<1> DEFINE w == SpokeWritten
           n == 3 * VertexCount
<1>1. /\ w \in 0 .. spokeCount - 1 /\ w = spokeCount - written - 1 /\ written' = written + 1
      /\ spokeCount \in Nat /\ written \in Nat /\ written < spokeCount
      /\ UNCHANGED <<shape, spokeCount, first_index, last, indices>>
  BY DEF ShapesInv, ShapesType, WriteSpoke, SpokeWritten
<1>2. /\ DOMAIN memory = 0 .. n - 1 /\ n \in Nat
      /\ n = (IF IsRing THEN 6 * spokeCount ELSE 3 * spokeCount)
  BY <1>1 DEF ShapesInv, Vertices, VertexCount, IsRing
<1>3. memory[w] = <<"spoke", w>>
  BY <1>1 DEF ShapesInv, Vertices
<1> HIDE DEF w, n
<1>4. ShapesType'
  BY <1>1 DEF ShapesInv, ShapesType
<1>5. /\ DOMAIN memory' = 0 .. n - 1
      /\ memory'[Position(Outer(w))] = <<"outer", <<"spoke", w>>>>
      /\ IsRing => memory'[Position(Inner(w))] = <<"inner", <<"spoke", w>>>>
      /\ \A c \in 0 .. n - 1 :
           c < Position(Outer(w)) \/ c > Position(Outer(w)) + (IF IsRing THEN 5 ELSE 2)
             => memory'[c] = memory[c]
  <2>1. CASE IsRing
    <3>1. PICK u, v : u = 2 * w + 1 /\ v = 2 * w
      OBVIOUS
    <3>2. /\ u \in Nat /\ 3 * u + 2 < n /\ v \in Nat /\ 3 * v + 2 < n
      BY <1>1, <1>2, <2>1, <3>1
    <3>3. PICK half : half = Place(memory, u, w, "inner")
      OBVIOUS
    <3>4. memory' = Place(half, v, w, "outer")
      BY <2>1, <3>1, <3>3 DEF WriteSpoke, Inner, Outer, IsRing, w
    <3>5. /\ DOMAIN half = 0 .. n - 1 /\ half[3 * u] = <<"inner", memory[w]>>
          /\ \A c \in 0 .. n - 1 : c < 3 * u \/ c > 3 * u + 2 => half[c] = memory[c]
      <4>1. /\ DOMAIN Place(memory, u, w, "inner") = DOMAIN memory
            /\ Place(memory, u, w, "inner")[3 * u] = <<"inner", memory[w]>>
            /\ \A c \in DOMAIN memory : c < 3 * u \/ c > 3 * u + 2 =>
                 Place(memory, u, w, "inner")[c] = memory[c]
        BY <1>2, <3>2, PlaceWrites
      <4> QED BY <1>2, <3>3, <4>1
    <3>6. /\ DOMAIN memory' = 0 .. n - 1 /\ memory'[3 * v] = <<"outer", half[w]>>
          /\ \A c \in 0 .. n - 1 : c < 3 * v \/ c > 3 * v + 2 => memory'[c] = half[c]
      <4>1. DOMAIN half = 0 .. n - 1
        BY <3>5
      <4>2. /\ DOMAIN Place(half, v, w, "outer") = DOMAIN half
            /\ Place(half, v, w, "outer")[3 * v] = <<"outer", half[w]>>
            /\ \A c \in DOMAIN half : c < 3 * v \/ c > 3 * v + 2 =>
                 Place(half, v, w, "outer")[c] = half[c]
        BY <1>2, <3>2, <4>1, PlaceWrites
      <4> QED BY <3>4, <4>1, <4>2
    <3>7. half[w] = memory[w] /\ memory'[3 * u] = half[3 * u]
      <4>1. /\ w \in 0 .. n - 1 /\ w < 3 * u
            /\ 3 * u \in 0 .. n - 1 /\ 3 * u > 3 * v + 2
        BY <1>1, <1>2, <2>1, <3>1
      <4>2. half[w] = memory[w]
        BY <3>5, <4>1
      <4>3. memory'[3 * u] = half[3 * u]
        BY <3>6, <4>1
      <4> QED BY <4>2, <4>3
    <3>8. \A c \in 0 .. n - 1 : c < 6 * w \/ c > 6 * w + 5 => memory'[c] = memory[c]
      <4> SUFFICES ASSUME NEW c \in 0 .. n - 1, c < 6 * w \/ c > 6 * w + 5
                   PROVE  memory'[c] = memory[c]
        OBVIOUS
      <4>1. c < 3 * u \/ c > 3 * u + 2
        BY <1>1, <1>2, <3>1
      <4>2. c < 3 * v \/ c > 3 * v + 2
        BY <1>1, <1>2, <3>1
      <4> QED BY <3>5, <3>6, <4>1, <4>2
    <3> QED BY <1>1, <1>3, <2>1, <3>1, <3>5, <3>6, <3>7, <3>8 DEF Position, Outer, Inner, IsRing
  <2>2. CASE ~IsRing
    <3>1. memory' = Place(memory, w, w, "outer")
      BY <2>2 DEF WriteSpoke, Outer, IsRing, w
    <3>2. w \in Nat /\ 3 * w + 2 < n
      BY <1>1, <1>2, <2>2
    <3>3. /\ DOMAIN memory' = 0 .. n - 1 /\ memory'[3 * w] = <<"outer", memory[w]>>
          /\ \A c \in 0 .. n - 1 : c < 3 * w \/ c > 3 * w + 2 => memory'[c] = memory[c]
      BY <1>2, <3>1, <3>2, PlaceWrites
    <3> QED BY <1>3, <2>2, <3>3 DEF Position, Outer, IsRing
  <2> QED BY <2>1, <2>2
<1>6. Vertices'
  <2>1. ASSUME NEW k \in 0 .. spokeCount - 1, k < w
        PROVE  memory'[k] = <<"spoke", k>>
    <3>1. memory[k] = <<"spoke", k>>
      BY <1>1, <2>1 DEF ShapesInv, Vertices
    <3>2. k \in 0 .. n - 1 /\ k < Position(Outer(w))
      BY <1>1, <1>2, <2>1 DEF Position, Outer
    <3> QED BY <1>5, <3>1, <3>2
  <2>2. ASSUME NEW k \in 0 .. spokeCount - 1, k > w
        PROVE  /\ memory'[Position(Outer(k))] = <<"outer", <<"spoke", k>>>>
               /\ IsRing => memory'[Position(Inner(k))] = <<"inner", <<"spoke", k>>>>
    <3>1. /\ memory[Position(Outer(k))] = <<"outer", <<"spoke", k>>>>
          /\ IsRing => memory[Position(Inner(k))] = <<"inner", <<"spoke", k>>>>
      BY <1>1, <2>2 DEF ShapesInv, Vertices
    <3>2. /\ Position(Outer(k)) \in 0 .. n - 1
          /\ Position(Outer(k)) > Position(Outer(w)) + (IF IsRing THEN 5 ELSE 2)
          /\ IsRing => /\ Position(Inner(k)) \in 0 .. n - 1
                       /\ Position(Inner(k)) > Position(Outer(w)) + 5
      BY <1>1, <1>2, <2>2 DEF Position, Outer, Inner, IsRing
    <3> QED BY <1>5, <3>1, <3>2
  <2>3. DOMAIN memory' = (0 .. 3 * VertexCount - 1)' /\ IsRing' = IsRing
    BY <1>1, <1>5 DEF n, VertexCount, IsRing
  <2>4. \A k \in 0 .. spokeCount - 1 : Outer(k)' = Outer(k)
    BY <1>1 DEF Outer
  <2>5. \A k \in 0 .. spokeCount - 1 : k < w \/ k = w \/ k > w
    BY <1>1
  <2>6. \A k \in 0 .. spokeCount - 1 : k < (spokeCount - written)' <=> k < w
    BY <1>1
  <2> QED BY <1>1, <1>5, <2>1, <2>2, <2>3, <2>4, <2>5, <2>6 DEF Vertices, Position, Inner
<1>7. Triangles'
  <2>1. PICK m \in 0 .. spokeCount : Made(m)
    BY DEF ShapesInv, Triangles
  <2>2. m = 0
    BY <1>1, <2>1 DEF Made
  <2>3. Made(0)'
    BY <1>1, <2>1, <2>2 DEF Made, IsRing, Out, Outer, SpokeBefore
  <2> QED BY <1>1, <2>3 DEF ShapesInv, Triangles
<1> QED BY <1>4, <1>6, <1>7 DEF ShapesInv

LEMMA TrianglesAreAdded == ASSUME ShapesInv, AddTriangles PROVE ShapesInv'
<1>1. /\ UNCHANGED <<shape, spokeCount, first_index, memory, written>>
      /\ spokeCount \in Nat /\ spokeCount >= 3 /\ first_index \in Nat
      /\ written = spokeCount /\ indices \in Seq(Seq(Int)) /\ (shape = "circle" <=> ~IsRing)
  BY DEF ShapesInv, ShapesType, Triangles, AddTriangles, IsRing
<1>2. ShapesType' /\ Vertices' /\ IsRing' = IsRing
  BY <1>1 DEF ShapesInv, ShapesType, Vertices, VertexCount, IsRing, Position, Outer, Inner
<1>3. PICK m \in 0 .. spokeCount : Made(m)
  BY DEF ShapesInv, Triangles
<1>4. Len(indices) \div (IF shape = "ring" THEN 2 ELSE 1) = m
  BY <1>1, <1>3 DEF Made, IsRing
<1>5. /\ m \in 0 .. spokeCount - 1 /\ m \in Nat
      /\ last' = [outer |-> Out(m), inner |-> Out(m) + 1]
      /\ ~IsRing => indices' = indices \o << <<first_index - 1, last.outer, Out(m)>> >>
      /\ IsRing => indices' = indices \o << <<last.inner, last.outer, Out(m)>>,
                                            <<Out(m), last.inner, Out(m) + 1>> >>
  <2>1. /\ m < spokeCount /\ last' = [outer |-> Out(m), inner |-> Out(m) + 1]
        /\ indices' = indices \o
             IF shape = "circle" THEN << <<first_index - 1, last.outer, Out(m)>> >>
             ELSE << <<last.inner, last.outer, Out(m)>>, <<Out(m), last.inner, Out(m) + 1>> >>
    BY <1>4 DEF AddTriangles, Out
  <2> QED BY <1>1, <1>3, <2>1
<1>6. /\ last.outer = Out(SpokeBefore(m)) /\ (IsRing => last.inner = Out(SpokeBefore(m)) + 1)
      /\ Len(indices) = (IF IsRing THEN 2 * m ELSE m)
      /\ Out(m) \in Int /\ Out(SpokeBefore(m)) \in Int /\ first_index - 1 \in Int
  BY <1>1, <1>3, <1>5 DEF Made, Out, Outer, SpokeBefore
<1>7. PICK some : some = (IF IsRing THEN <<InnerHalf(m), OuterHalf(m)>> ELSE <<Wedge(m)>>)
  OBVIOUS
<1>8. some \in Seq(Seq(Int)) /\ Len(some) = (IF IsRing THEN 2 ELSE 1)
  <2>1. InnerHalf(m) \in Seq(Int) /\ OuterHalf(m) \in Seq(Int) /\ Wedge(m) \in Seq(Int)
    BY <1>6 DEF InnerHalf, OuterHalf, Wedge
  <2> QED BY <1>7, <2>1
<1>9. indices' = indices \o some
  BY <1>5, <1>6, <1>7 DEF InnerHalf, OuterHalf, Wedge
<1>10. /\ indices' \in Seq(Seq(Int)) /\ Len(indices') = Len(indices) + Len(some)
       /\ \A n \in 1 .. Len(indices) : indices'[n] = indices[n]
       /\ \A n \in 1 .. Len(some) : indices'[Len(indices) + n] = some[n]
  <2>1. \A i \in 1 .. Len(indices) + Len(some) :
          indices'[i] = IF i <= Len(indices) THEN indices[i] ELSE some[i - Len(indices)]
    BY <1>1, <1>8, <1>9, ConcatProperties
  <2>2. indices' \in Seq(Seq(Int)) /\ Len(indices') = Len(indices) + Len(some)
    BY <1>1, <1>8, <1>9, ConcatProperties
  <2>3. Len(indices) \in Nat /\ Len(some) \in Nat
    BY <1>1, <1>8
  <2>4. ASSUME NEW n \in 1 .. Len(indices) PROVE indices'[n] = indices[n]
    BY <2>1, <2>3
  <2>5. ASSUME NEW n \in 1 .. Len(some) PROVE indices'[Len(indices) + n] = some[n]
    <3>1. /\ Len(indices) + n \in 1 .. Len(indices) + Len(some)
          /\ ~(Len(indices) + n <= Len(indices)) /\ Len(indices) + n - Len(indices) = n
      BY <2>3
    <3> QED BY <2>1, <3>1
  <2> QED BY <2>2, <2>4, <2>5
<1>11. \A k \in Nat : Out(k)' = Out(k)
  BY <1>1 DEF Out, Outer
<1>12. ASSUME NEW k \in 0 .. m
       PROVE  /\ Wedge(k)' = Wedge(k)
              /\ InnerHalf(k)' = InnerHalf(k) /\ OuterHalf(k)' = OuterHalf(k)
  <2>1. k \in Nat /\ SpokeBefore(k) \in Nat /\ SpokeBefore(k)' = SpokeBefore(k)
    BY <1>1, <1>5 DEF SpokeBefore
  <2>2. Out(SpokeBefore(k))' = Out(SpokeBefore(k)) /\ Out(k)' = Out(k)
    BY <1>11, <2>1 DEF Out, Outer
  <2> QED BY <1>1, <2>2 DEF Wedge, InnerHalf, OuterHalf
<1>13. ASSUME NEW k \in 0 .. m
       PROVE  IF IsRing
              THEN indices'[2 * k + 1] = InnerHalf(k) /\ indices'[2 * k + 2] = OuterHalf(k)
              ELSE indices'[k + 1] = Wedge(k)
  <2>1. CASE k < m
    <3>1. CASE IsRing
      <4>1. 2 * k + 1 \in 1 .. Len(indices) /\ 2 * k + 2 \in 1 .. Len(indices)
        BY <1>1, <1>5, <1>6, <2>1, <3>1
      <4>2. indices[2 * k + 1] = InnerHalf(k) /\ indices[2 * k + 2] = OuterHalf(k)
        BY <1>3, <1>5, <2>1, <3>1 DEF Made
      <4> QED BY <1>10, <3>1, <4>1, <4>2
    <3>2. CASE ~IsRing
      <4>1. k + 1 \in 1 .. Len(indices) /\ indices[k + 1] = Wedge(k)
        BY <1>3, <1>5, <1>6, <2>1, <3>2 DEF Made
      <4> QED BY <1>10, <3>2, <4>1
    <3> QED BY <3>1, <3>2
  <2>2. CASE k = m
    <3>1. CASE IsRing
      <4>1. /\ indices'[Len(indices) + 1] = some[1] /\ indices'[Len(indices) + 2] = some[2]
            /\ Len(indices) = 2 * k /\ some = <<InnerHalf(k), OuterHalf(k)>>
        BY <1>6, <1>7, <1>8, <1>10, <2>2, <3>1
      <4> QED BY <3>1, <4>1
    <3>2. CASE ~IsRing
      <4>1. /\ indices'[Len(indices) + 1] = some[1]
            /\ Len(indices) = k /\ some = <<Wedge(k)>>
        BY <1>6, <1>7, <1>8, <1>10, <2>2, <3>2
      <4> QED BY <3>2, <4>1
    <3> QED BY <3>1, <3>2
  <2> QED BY <1>5, <2>1, <2>2
<1>14. SpokeBefore(m + 1)' = m /\ m + 1 \in 0 .. spokeCount
  BY <1>1, <1>5 DEF SpokeBefore
<1>15. Made(m + 1)'
  <2>1. Len(indices') = IF IsRing THEN 2 * (m + 1) ELSE m + 1
    BY <1>5, <1>6, <1>8, <1>10
  <2>2. /\ last'.outer = Out(SpokeBefore(m + 1))'
        /\ IsRing => last'.inner = Out(SpokeBefore(m + 1))' + 1
    BY <1>5, <1>11, <1>14 DEF Out, Outer
  <2> QED BY <1>1, <1>2, <1>5, <1>12, <1>13, <1>14, <2>1, <2>2 DEF Made
<1> QED BY <1>1, <1>2, <1>10, <1>14, <1>15 DEF ShapesInv, Triangles


\* Edges are sets of two vertices.
Same(a, b, x, y) == (a = x /\ b = y) \/ (a = y /\ b = x)

LEMMA SamePair == ASSUME NEW a, NEW b, NEW x, NEW y PROVE {a, b} = {x, y} <=> Same(a, b, x, y)
<1>1. Same(a, b, x, y) => {a, b} = {x, y}
  BY DEF Same
<1>2. ASSUME {a, b} = {x, y} PROVE Same(a, b, x, y)
  <2>1. a \in {x, y} /\ b \in {x, y} /\ x \in {a, b} /\ y \in {a, b}
    BY <1>2
  <2> QED BY <2>1 DEF Same
<1> QED BY <1>1, <1>2

LEMMA CountTwo == ASSUME NEW a, NEW b, a # b PROVE Cardinality({a, b}) = 2
<1>1. {a, b} = {b} \cup {a} /\ a \notin {b}
  OBVIOUS
<1>2. IsFiniteSet({b}) /\ Cardinality({b}) = 1
  BY FS_Singleton
<1> QED BY <1>1, <1>2, FS_AddElement

LEMMA CountThree ==
  ASSUME NEW a, NEW b, NEW c, a # b, a # c, b # c PROVE Cardinality({a, b, c}) = 3
<1>1. {a, b, c} = {b, c} \cup {a} /\ a \notin {b, c}
  OBVIOUS
<1>2. {b, c} = {c} \cup {b} /\ b \notin {c}
  OBVIOUS
<1>3. IsFiniteSet({c}) /\ Cardinality({c}) = 1
  BY FS_Singleton
<1>4. IsFiniteSet({b, c}) /\ Cardinality({b, c}) = 2
  BY <1>2, <1>3, FS_AddElement
<1> QED BY <1>1, <1>4, FS_AddElement

\* A triangle with three vertices has three edges.
LEMMA ThreeEdges ==
  ASSUME NEW t, t[1] # t[2], t[2] # t[3], t[3] # t[1] PROVE Cardinality(Edges(t)) = 3
<1>1. /\ {t[1], t[2]} # {t[2], t[3]} /\ {t[1], t[2]} # {t[3], t[1]}
      /\ {t[2], t[3]} # {t[3], t[1]}
  BY SamePair DEF Same
<1> QED BY <1>1, CountThree DEF Edges

LEMMA EdgeOf ==
  ASSUME NEW n \in DOMAIN indices, NEW x, NEW y, NEW z, indices[n] = <<x, y, z>>, NEW a, NEW b
  PROVE  n \in TrianglesAt({a, b}) <=> Same(a, b, x, y) \/ Same(a, b, y, z) \/ Same(a, b, z, x)
<1>1. Edges(indices[n]) = {{x, y}, {y, z}, {z, x}}
  BY DEF Edges
<1> QED BY <1>1, SamePair DEF TrianglesAt

\* Modulo the number of spokes, the one after the last is the first.
LEMMA SpokeAfter ==
  ASSUME NEW s \in Nat, s >= 3, NEW k \in 0 .. s - 1
  PROVE  (k + 1) % s = IF k = s - 1 THEN 0 ELSE k + 1
<1>1. CASE k = s - 1
  BY <1>1
<1>2. CASE k # s - 1
  BY <1>2
<1> QED BY <1>1, <1>2

\* The triangles of a disk: from the center to two spokes.
LEMMA DiskIsWhole ==
  ASSUME ShapesInv, ~IsRing, Len(indices) = spokeCount, NEW n \in DOMAIN indices
  PROVE  /\ Cardinality(Edges(indices[n])) = 3
         /\ \A edge \in Edges(indices[n]) :
              Cardinality(TrianglesAt(edge)) = IF OnRim(edge) THEN 1 ELSE 2
<1> DEFINE s == spokeCount
           f == first_index
           Prev(i) == IF i = 1 THEN f + s - 1 ELSE f + i - 2
           At(i) == f + i - 1
<1>1. /\ s \in Nat /\ s >= 3 /\ f \in Nat /\ DOMAIN indices = 1 .. s /\ shape # "ring"
  BY DEF ShapesInv, ShapesType, Triangles, IsRing
<1>2. ASSUME NEW i \in 1 .. s PROVE indices[i] = <<f - 1, Prev(i), At(i)>>
  <2>1. PICK m \in 0 .. s : Made(m)
    BY DEF ShapesInv, Triangles
  <2>2. m = s /\ i - 1 \in 0 .. m - 1 /\ i - 1 + 1 = i
    BY <1>1, <2>1 DEF Made
  <2>3. indices[i] = Wedge(i - 1)
    BY <2>1, <2>2 DEF Made
  <2> QED BY <1>1, <2>3 DEF Wedge, Out, Outer, SpokeBefore
<1> HIDE DEF s, f, Prev, At
<1>3. ASSUME NEW i \in 1 .. s, NEW a, NEW b
      PROVE  i \in TrianglesAt({a, b}) <=>
               Same(a, b, f - 1, Prev(i)) \/ Same(a, b, Prev(i), At(i)) \/ Same(a, b, At(i), f - 1)
  BY <1>1, <1>2, EdgeOf
<1>4. \A a, b : TrianglesAt({a, b}) \subseteq 1 .. s
  BY <1>1 DEF TrianglesAt
<1>5. ASSUME NEW a \in f .. f + s - 1
      PROVE  (Spoke(a) + 1) % s = IF a = f + s - 1 THEN 0 ELSE a - f + 1
  <2>1. Spoke(a) = a - f /\ a - f \in 0 .. s - 1
    BY <1>1 DEF Spoke, f
  <2> QED BY <1>1, <2>1, SpokeAfter
<1> QED
  <2>1. Prev(n) \in f .. f + s - 1 /\ At(n) \in f .. f + s - 1 /\ n \in 1 .. s /\ Prev(n) # At(n)
    BY <1>1 DEF Prev, At
  <2>2. Cardinality(Edges(indices[n])) = 3
    <3>1. indices[n][1] = f - 1 /\ indices[n][2] = Prev(n) /\ indices[n][3] = At(n)
      BY <1>2, <2>1
    <3>2. f - 1 # Prev(n) /\ At(n) # f - 1
      BY <1>1, <2>1
    <3> QED BY <2>1, <3>1, <3>2, ThreeEdges
  <2>3. Edges(indices[n]) = {{f - 1, Prev(n)}, {Prev(n), At(n)}, {At(n), f - 1}}
    BY <1>2, <2>1 DEF Edges
  <2>4. ASSUME NEW a \in f .. f + s - 1 PROVE ~OnRim({f - 1, a})
    <3>1. Spoke(a) = a - f
      BY <1>1 DEF Spoke, f
    <3> QED BY <1>1, <1>5, <3>1 DEF OnRim, f, s
  <2>5. TrianglesAt({Prev(n), At(n)}) = {n} /\ OnRim({Prev(n), At(n)})
    <3>1. ASSUME NEW i \in 1 .. s PROVE i \in TrianglesAt({Prev(n), At(n)}) <=> i = n
      <4>1. i \in TrianglesAt({Prev(n), At(n)}) <=>
              \/ Same(Prev(n), At(n), f - 1, Prev(i)) \/ Same(Prev(n), At(n), Prev(i), At(i))
              \/ Same(Prev(n), At(n), At(i), f - 1)
        BY <1>3
      <4>2. /\ Prev(n) \in Nat /\ At(n) \in Nat /\ Prev(i) \in Nat /\ At(i) \in Nat
            /\ Prev(n) # f - 1 /\ At(n) # f - 1
        BY <1>1, <2>1 DEF Prev, At
      <4>3. i \in TrianglesAt({Prev(n), At(n)}) <=> Same(Prev(n), At(n), Prev(i), At(i))
        BY <4>1, <4>2 DEF Same
      <4>4. At(n) = At(i) <=> i = n
        BY <1>1, <2>1 DEF At
      <4>5. ~(Prev(n) = At(i) /\ At(n) = Prev(i))
        BY <1>1, <2>1 DEF Prev, At
      <4> QED BY <4>3, <4>4, <4>5 DEF Same
    <3>2. Spoke(At(n)) = (Spoke(Prev(n)) + 1) % s
      <4>1. Spoke(At(n)) = At(n) - f
        BY <1>1, <2>1 DEF Spoke, f
      <4>2. (Spoke(Prev(n)) + 1) % s = IF Prev(n) = f + s - 1 THEN 0 ELSE Prev(n) - f + 1
        BY <1>5, <2>1
      <4> QED BY <1>1, <2>1, <4>1, <4>2 DEF Prev, At
    <3>3. OnRim({Prev(n), At(n)})
      BY <1>1, <2>1, <3>2 DEF OnRim, f, s
    <3>4. TrianglesAt({Prev(n), At(n)}) = {n}
      BY <1>4, <2>1, <3>1
    <3> QED BY <3>3, <3>4
  <2>6. PICK p : p = IF n = 1 THEN s ELSE n - 1
    OBVIOUS
  <2>7. p \in 1 .. s /\ p # n /\ TrianglesAt({f - 1, Prev(n)}) = {p, n}
    <3>1. p \in 1 .. s /\ p # n
      BY <1>1, <2>1, <2>6
    <3>2. ASSUME NEW i \in 1 .. s PROVE i \in TrianglesAt({f - 1, Prev(n)}) <=> i = p \/ i = n
      <4>1. i \in TrianglesAt({f - 1, Prev(n)}) <=>
              \/ Same(f - 1, Prev(n), f - 1, Prev(i)) \/ Same(f - 1, Prev(n), Prev(i), At(i))
              \/ Same(f - 1, Prev(n), At(i), f - 1)
        BY <1>3
      <4> QED BY <1>1, <2>1, <4>1, <2>6 DEF Same, Prev, At
    <3>3. TrianglesAt({f - 1, Prev(n)}) = {p, n}
      BY <1>4, <2>1, <3>1, <3>2
    <3> QED BY <3>1, <3>3
  <2>8. PICK q : q = IF n = s THEN 1 ELSE n + 1
    OBVIOUS
  <2>9. q \in 1 .. s /\ q # n /\ TrianglesAt({At(n), f - 1}) = {q, n}
    <3>1. q \in 1 .. s /\ q # n
      BY <1>1, <2>1, <2>8
    <3>2. ASSUME NEW i \in 1 .. s PROVE i \in TrianglesAt({At(n), f - 1}) <=> i = q \/ i = n
      <4>1. i \in TrianglesAt({At(n), f - 1}) <=>
              \/ Same(At(n), f - 1, f - 1, Prev(i)) \/ Same(At(n), f - 1, Prev(i), At(i))
              \/ Same(At(n), f - 1, At(i), f - 1)
        BY <1>3
      <4>2. Prev(i) = At(n) <=> i = q
        <5>1. CASE n = s
          BY <1>1, <2>1, <2>8, <5>1 DEF Prev, At
        <5>2. CASE n # s
          BY <1>1, <2>1, <2>8, <5>2 DEF Prev, At
        <5> QED BY <5>1, <5>2
      <4>3. /\ At(i) = At(n) <=> i = n
            /\ At(n) # f - 1 /\ At(i) # f - 1 /\ Prev(i) # f - 1
        BY <1>1, <2>1 DEF Prev, At
      <4> QED BY <4>1, <4>2, <4>3 DEF Same
    <3>3. TrianglesAt({At(n), f - 1}) = {q, n}
      BY <1>4, <2>1, <3>1, <3>2
    <3> QED BY <3>1, <3>3
  <2>10. {At(n), f - 1} = {f - 1, At(n)}
    OBVIOUS
  <2>11. /\ Cardinality(TrianglesAt({Prev(n), At(n)})) = 1
         /\ Cardinality(TrianglesAt({f - 1, Prev(n)})) = 2
         /\ Cardinality(TrianglesAt({At(n), f - 1})) = 2
    <3>1. Cardinality({n}) = 1
      BY FS_Singleton
    <3>2. Cardinality({p, n}) = 2 /\ Cardinality({q, n}) = 2
      BY <2>7, <2>9, CountTwo
    <3> QED BY <2>5, <2>7, <2>9, <3>1, <3>2
  <2> QED BY <2>1, <2>2, <2>3, <2>4, <2>5, <2>10, <2>11

\* The triangles of a ring: two for each spoke and the one before it.
LEMMA RingIsWhole ==
  ASSUME ShapesInv, IsRing, Len(indices) = 2 * spokeCount, NEW n \in DOMAIN indices
  PROVE  /\ Cardinality(Edges(indices[n])) = 3
         /\ \A edge \in Edges(indices[n]) :
              Cardinality(TrianglesAt(edge)) = IF OnRim(edge) THEN 1 ELSE 2
<1> DEFINE s == spokeCount
           f == first_index
           Ks == 0 .. s - 1
           O(k) == f + 2 * k
           I(k) == f + 2 * k + 1
           P(k) == IF k = 0 THEN s - 1 ELSE k - 1
<1>1. /\ s \in Nat /\ s >= 3 /\ f \in Nat /\ DOMAIN indices = 1 .. 2 * s /\ shape = "ring"
  BY DEF ShapesInv, ShapesType, Triangles, IsRing
<1>2. ASSUME NEW k \in Ks
      PROVE  /\ indices[2 * k + 1] = <<I(P(k)), O(P(k)), O(k)>>
             /\ indices[2 * k + 2] = <<O(k), I(P(k)), I(k)>>
  <2>1. PICK m \in 0 .. s : Made(m)
    BY DEF ShapesInv, Triangles
  <2>2. m = s
    BY <1>1, <2>1 DEF Made
  <2>3. indices[2 * k + 1] = InnerHalf(k) /\ indices[2 * k + 2] = OuterHalf(k)
    BY <2>1, <2>2 DEF Made
  <2>4. /\ Out(k) = O(k) /\ Out(SpokeBefore(k)) = O(P(k))
        /\ Out(k) + 1 = I(k) /\ Out(SpokeBefore(k)) + 1 = I(P(k))
    BY <1>1 DEF Out, Outer, SpokeBefore
  <2> QED BY <2>3, <2>4 DEF InnerHalf, OuterHalf
<1>3. \A i \in 1 .. 2 * s : \E k \in Ks : i = 2 * k + 1 \/ i = 2 * k + 2
  <2> SUFFICES ASSUME NEW i \in 1 .. 2 * s PROVE \E k \in Ks : i = 2 * k + 1 \/ i = 2 * k + 2
    OBVIOUS
  <2>1. PICK k : k = (i - 1) \div 2
    OBVIOUS
  <2>2. k \in Ks /\ (i = 2 * k + 1 \/ i = 2 * k + 2)
    BY <1>1, <2>1
  <2> QED BY <2>2
<1>4. \A k \in Ks : 2 * k + 1 \in 1 .. 2 * s /\ 2 * k + 2 \in 1 .. 2 * s
  BY <1>1
<1>5. \A j, k \in Ks : /\ 2 * j + 1 # 2 * k + 2
                       /\ 2 * j + 1 = 2 * k + 1 => j = k
                       /\ 2 * j + 2 = 2 * k + 2 => j = k
  BY <1>1
<1>6. /\ \A j, k \in Ks : O(j) # I(k) /\ (O(j) = O(k) => j = k) /\ (I(j) = I(k) => j = k)
      /\ \A k \in Ks : P(k) \in Ks /\ P(k) # k
  BY <1>1
<1>7. \A j, k \in Ks : (P(j) = P(k) => j = k) /\ ~(P(j) = k /\ P(k) = j)
  BY <1>1
<1>8. \A k \in Ks : \E j \in Ks : P(j) = k
  <2> SUFFICES ASSUME NEW k \in Ks PROVE \E j \in Ks : P(j) = k
    OBVIOUS
  <2>1. PICK j : j = IF k = s - 1 THEN 0 ELSE k + 1
    OBVIOUS
  <2>2. j \in Ks /\ P(j) = k
    BY <1>1, <2>1
  <2> QED BY <2>2
<1>9. ASSUME NEW k \in Ks
      PROVE  /\ Spoke(O(k)) = k /\ Spoke(I(k)) = k /\ O(k) >= f /\ I(k) >= f
             /\ (O(k) - f) % 2 = 0 /\ (I(k) - f) % 2 = 1
             /\ (k + 1) % s # k /\ (P(k) + 1) % s = k
  <2>1. O(k) - f = 2 * k /\ I(k) - f = 2 * k + 1 /\ O(k) >= f /\ I(k) >= f
    BY <1>1
  <2>2. (2 * k) \div 2 = k /\ (2 * k + 1) \div 2 = k /\ (2 * k) % 2 = 0 /\ (2 * k + 1) % 2 = 1
    BY <1>1
  <2>3. /\ (k + 1) % s = (IF k = s - 1 THEN 0 ELSE k + 1)
        /\ (P(k) + 1) % s = (IF P(k) = s - 1 THEN 0 ELSE P(k) + 1)
    BY <1>1, <1>6, SpokeAfter
  <2>4. (k + 1) % s # k /\ (P(k) + 1) % s = k
    BY <1>1, <2>3
  <2> QED BY <1>1, <2>1, <2>2, <2>4 DEF Spoke
<1> HIDE DEF s, O, I, P
<1>10. ASSUME NEW k \in Ks, NEW a, NEW b
       PROVE  /\ 2 * k + 1 \in TrianglesAt({a, b}) <=>
                   \/ Same(a, b, I(P(k)), O(P(k))) \/ Same(a, b, O(P(k)), O(k))
                   \/ Same(a, b, O(k), I(P(k)))
              /\ 2 * k + 2 \in TrianglesAt({a, b}) <=>
                   \/ Same(a, b, O(k), I(P(k))) \/ Same(a, b, I(P(k)), I(k))
                   \/ Same(a, b, I(k), O(k))
  <2>1. 2 * k + 1 \in DOMAIN indices /\ 2 * k + 2 \in DOMAIN indices
    BY <1>1, <1>4
  <2> QED BY <1>2, <2>1, EdgeOf
<1> HIDE DEF f, Ks
<1>11. \A a, b : \A i \in TrianglesAt({a, b}) : \E k \in Ks : i = 2 * k + 1 \/ i = 2 * k + 2
  BY <1>1, <1>3 DEF TrianglesAt
\* The edges: between a spoke's vertices, across, and on the two rims.
<1>12. ASSUME NEW j \in Ks
       PROVE  Cardinality(TrianglesAt({I(P(j)), O(P(j))})) = 2 /\ ~OnRim({I(P(j)), O(P(j))})
  <2>1. P(j) \in Ks /\ 2 * P(j) + 2 # 2 * j + 1
    BY <1>5, <1>6
  <2>2. ASSUME NEW k \in Ks
        PROVE  /\ 2 * k + 1 \in TrianglesAt({I(P(j)), O(P(j))}) <=> k = j
               /\ 2 * k + 2 \in TrianglesAt({I(P(j)), O(P(j))}) <=> k = P(j)
    <3>1. /\ 2 * k + 1 \in TrianglesAt({I(P(j)), O(P(j))}) <=>
               \/ Same(I(P(j)), O(P(j)), I(P(k)), O(P(k))) \/ Same(I(P(j)), O(P(j)), O(P(k)), O(k))
               \/ Same(I(P(j)), O(P(j)), O(k), I(P(k)))
          /\ 2 * k + 2 \in TrianglesAt({I(P(j)), O(P(j))}) <=>
               \/ Same(I(P(j)), O(P(j)), O(k), I(P(k))) \/ Same(I(P(j)), O(P(j)), I(P(k)), I(k))
               \/ Same(I(P(j)), O(P(j)), I(k), O(k))
      BY <1>10
    <3>2. P(k) \in Ks /\ P(k) # k /\ P(j) # j
      BY <1>6
    <3> QED BY <1>6, <1>7, <2>1, <3>1, <3>2 DEF Same
  <2>3. TrianglesAt({I(P(j)), O(P(j))}) = {2 * P(j) + 2, 2 * j + 1}
    <3>1. \A i \in TrianglesAt({I(P(j)), O(P(j))}) : \E k \in Ks : i = 2 * k + 1 \/ i = 2 * k + 2
      BY <1>11
    <3>2. {2 * P(j) + 2, 2 * j + 1} \subseteq TrianglesAt({I(P(j)), O(P(j))})
      BY <2>1, <2>2
    <3>3. ASSUME NEW i \in TrianglesAt({I(P(j)), O(P(j))}) PROVE i \in {2 * P(j) + 2, 2 * j + 1}
      BY <2>2, <3>1, <3>3
    <3> QED BY <3>2, <3>3
  <2>4. ~OnRim({I(P(j)), O(P(j))})
    BY <1>1, <1>9, <2>1 DEF OnRim, f, s
  <2>5. Cardinality({2 * P(j) + 2, 2 * j + 1}) = 2
    BY <2>1, CountTwo
  <2> QED BY <2>3, <2>4, <2>5
<1>13. ASSUME NEW j \in Ks
       PROVE  Cardinality(TrianglesAt({O(j), I(P(j))})) = 2 /\ ~OnRim({O(j), I(P(j))})
  <2>1. P(j) \in Ks /\ 2 * j + 1 # 2 * j + 2
    BY <1>5, <1>6
  <2>2. ASSUME NEW k \in Ks
        PROVE  /\ 2 * k + 1 \in TrianglesAt({O(j), I(P(j))}) <=> k = j
               /\ 2 * k + 2 \in TrianglesAt({O(j), I(P(j))}) <=> k = j
    <3>1. /\ 2 * k + 1 \in TrianglesAt({O(j), I(P(j))}) <=>
               \/ Same(O(j), I(P(j)), I(P(k)), O(P(k))) \/ Same(O(j), I(P(j)), O(P(k)), O(k))
               \/ Same(O(j), I(P(j)), O(k), I(P(k)))
          /\ 2 * k + 2 \in TrianglesAt({O(j), I(P(j))}) <=>
               \/ Same(O(j), I(P(j)), O(k), I(P(k))) \/ Same(O(j), I(P(j)), I(P(k)), I(k))
               \/ Same(O(j), I(P(j)), I(k), O(k))
      BY <1>10
    <3>2. P(k) \in Ks /\ P(k) # k /\ P(j) # j
      BY <1>6
    <3> QED BY <1>6, <1>7, <2>1, <3>1, <3>2 DEF Same
  <2>3. TrianglesAt({O(j), I(P(j))}) = {2 * j + 1, 2 * j + 2}
    <3>1. \A i \in TrianglesAt({O(j), I(P(j))}) : \E k \in Ks : i = 2 * k + 1 \/ i = 2 * k + 2
      BY <1>11
    <3>2. {2 * j + 1, 2 * j + 2} \subseteq TrianglesAt({O(j), I(P(j))})
      BY <2>1, <2>2
    <3>3. ASSUME NEW i \in TrianglesAt({O(j), I(P(j))}) PROVE i \in {2 * j + 1, 2 * j + 2}
      BY <2>2, <3>1, <3>3
    <3> QED BY <3>2, <3>3
  <2>4. ~OnRim({O(j), I(P(j))})
    BY <1>1, <1>9, <2>1 DEF OnRim, f, s
  <2> QED BY <2>1, <2>3, <2>4, CountTwo
<1>14. ASSUME NEW j \in Ks
       PROVE  Cardinality(TrianglesAt({O(P(j)), O(j)})) = 1 /\ OnRim({O(P(j)), O(j)})
  <2>1. P(j) \in Ks
    BY <1>6
  <2>2. ASSUME NEW k \in Ks
        PROVE  /\ 2 * k + 1 \in TrianglesAt({O(P(j)), O(j)}) <=> k = j
               /\ 2 * k + 2 \notin TrianglesAt({O(P(j)), O(j)})
    <3>1. /\ 2 * k + 1 \in TrianglesAt({O(P(j)), O(j)}) <=>
               \/ Same(O(P(j)), O(j), I(P(k)), O(P(k))) \/ Same(O(P(j)), O(j), O(P(k)), O(k))
               \/ Same(O(P(j)), O(j), O(k), I(P(k)))
          /\ 2 * k + 2 \in TrianglesAt({O(P(j)), O(j)}) <=>
               \/ Same(O(P(j)), O(j), O(k), I(P(k))) \/ Same(O(P(j)), O(j), I(P(k)), I(k))
               \/ Same(O(P(j)), O(j), I(k), O(k))
      BY <1>10
    <3>2. P(k) \in Ks /\ P(k) # k /\ P(j) # j
      BY <1>6
    <3> QED BY <1>6, <1>7, <2>1, <3>1, <3>2 DEF Same
  <2>3. TrianglesAt({O(P(j)), O(j)}) = {2 * j + 1}
    <3>1. \A i \in TrianglesAt({O(P(j)), O(j)}) : \E k \in Ks : i = 2 * k + 1 \/ i = 2 * k + 2
      BY <1>11
    <3>2. {2 * j + 1} \subseteq TrianglesAt({O(P(j)), O(j)})
      BY <2>1, <2>2
    <3>3. ASSUME NEW i \in TrianglesAt({O(P(j)), O(j)}) PROVE i \in {2 * j + 1}
      BY <2>2, <3>1, <3>3
    <3> QED BY <3>2, <3>3
  <2>4. OnRim({O(P(j)), O(j)})
    BY <1>1, <1>9, <2>1 DEF OnRim, f, s
  <2> QED BY <2>3, <2>4, FS_Singleton
<1>15. ASSUME NEW j \in Ks
       PROVE  Cardinality(TrianglesAt({I(P(j)), I(j)})) = 1 /\ OnRim({I(P(j)), I(j)})
  <2>1. P(j) \in Ks
    BY <1>6
  <2>2. ASSUME NEW k \in Ks
        PROVE  /\ 2 * k + 1 \notin TrianglesAt({I(P(j)), I(j)})
               /\ 2 * k + 2 \in TrianglesAt({I(P(j)), I(j)}) <=> k = j
    <3>1. /\ 2 * k + 1 \in TrianglesAt({I(P(j)), I(j)}) <=>
               \/ Same(I(P(j)), I(j), I(P(k)), O(P(k))) \/ Same(I(P(j)), I(j), O(P(k)), O(k))
               \/ Same(I(P(j)), I(j), O(k), I(P(k)))
          /\ 2 * k + 2 \in TrianglesAt({I(P(j)), I(j)}) <=>
               \/ Same(I(P(j)), I(j), O(k), I(P(k))) \/ Same(I(P(j)), I(j), I(P(k)), I(k))
               \/ Same(I(P(j)), I(j), I(k), O(k))
      BY <1>10
    <3>2. P(k) \in Ks /\ P(k) # k /\ P(j) # j
      BY <1>6
    <3> QED BY <1>6, <1>7, <2>1, <3>1, <3>2 DEF Same
  <2>3. TrianglesAt({I(P(j)), I(j)}) = {2 * j + 2}
    <3>1. \A i \in TrianglesAt({I(P(j)), I(j)}) : \E k \in Ks : i = 2 * k + 1 \/ i = 2 * k + 2
      BY <1>11
    <3>2. {2 * j + 2} \subseteq TrianglesAt({I(P(j)), I(j)})
      BY <2>1, <2>2
    <3>3. ASSUME NEW i \in TrianglesAt({I(P(j)), I(j)}) PROVE i \in {2 * j + 2}
      BY <2>2, <3>1, <3>3
    <3> QED BY <3>2, <3>3
  <2>4. OnRim({I(P(j)), I(j)})
    BY <1>1, <1>9, <2>1 DEF OnRim, f, s
  <2> QED BY <2>3, <2>4, FS_Singleton
<1>16. PICK k \in Ks : n = 2 * k + 1 \/ n = 2 * k + 2
  BY <1>1, <1>3
<1>17. PICK t : t = indices[n]
  OBVIOUS
<1>18. CASE n = 2 * k + 1
  <2>1. t[1] = I(P(k)) /\ t[2] = O(P(k)) /\ t[3] = O(k)
    BY <1>2, <1>16, <1>17, <1>18
  <2>2. t[1] # t[2] /\ t[2] # t[3] /\ t[3] # t[1]
    BY <1>6, <1>16, <2>1
  <2>3. Edges(t) = {{I(P(k)), O(P(k))}, {O(P(k)), O(k)}, {O(k), I(P(k))}}
    BY <2>1 DEF Edges
  <2>4. Cardinality(Edges(t)) = 3
    BY <2>2, ThreeEdges
  <2> QED BY <1>12, <1>13, <1>14, <1>16, <1>17, <2>3, <2>4
<1>19. CASE n = 2 * k + 2
  <2>1. t[1] = O(k) /\ t[2] = I(P(k)) /\ t[3] = I(k)
    BY <1>2, <1>16, <1>17, <1>19
  <2>2. t[1] # t[2] /\ t[2] # t[3] /\ t[3] # t[1]
    BY <1>6, <1>16, <2>1
  <2>3. PICK j \in Ks : P(j) = k
    BY <1>8, <1>16
  <2>4. Edges(t) = {{O(k), I(P(k))}, {I(P(k)), I(k)}, {I(P(j)), O(P(j))}}
    BY <2>1, <2>3 DEF Edges
  <2>5. Cardinality(Edges(t)) = 3
    BY <2>2, ThreeEdges
  <2> QED BY <1>12, <1>13, <1>15, <1>16, <1>17, <2>3, <2>4, <2>5
<1> QED BY <1>16, <1>18, <1>19

LEMMA ShapesInvHolds == ShapeSpec => []ShapesInv
<1>1. ShapeInit => ShapesInv
  BY InitShapes
<1>2. ShapesInv /\ [ShapeNext]_shapeVars => ShapesInv'
  <2> SUFFICES ASSUME ShapesInv, [ShapeNext]_shapeVars PROVE ShapesInv'
    OBVIOUS
  <2>1. CASE WriteSpoke
    BY <2>1, SpokesAreKept
  <2>2. CASE AddTriangles
    BY <2>2, TrianglesAreAdded
  <2>3. CASE UNCHANGED shapeVars
    BY <2>3 DEF shapeVars, ShapesInv, ShapesType, Vertices, VertexCount, Triangles, Made, IsRing,
       Position, Outer, Inner, Out, SpokeBefore, Wedge, InnerHalf, OuterHalf
  <2> QED BY <2>1, <2>2, <2>3 DEF ShapeNext
<1> QED BY <1>1, <1>2, PTL DEF ShapeSpec

\* A circle and a ring are whole, for any number of spokes from three on and
\* wherever their vertices begin: no spoke is overwritten before it is read, and
\* the triangles close.
THEOREM CirclesAndRingsAreWhole == ShapeSpec => []ShapesAreWhole
<1>1. ShapesInv => ShapesAreWhole
  <2> SUFFICES ASSUME ShapesInv, Len(indices) = (IF IsRing THEN 2 ELSE 1) * spokeCount
               PROVE  /\ \A k \in 0 .. spokeCount - 1 :
                           /\ memory[Position(Outer(k))] = <<"outer", <<"spoke", k>>>>
                           /\ IsRing => memory[Position(Inner(k))] = <<"inner", <<"spoke", k>>>>
                      /\ \A n \in DOMAIN indices :
                           /\ Cardinality(Edges(indices[n])) = 3
                           /\ \A edge \in Edges(indices[n]) :
                                Cardinality(TrianglesAt(edge)) = IF OnRim(edge) THEN 1 ELSE 2
    BY DEF ShapesAreWhole, IsRing
  <2>1. spokeCount \in Nat /\ spokeCount >= 3 /\ written \in 0 .. spokeCount
    BY DEF ShapesInv, ShapesType
  <2>2. written = spokeCount
    <3>1. PICK m \in 0 .. spokeCount : Made(m)
      BY DEF ShapesInv, Triangles
    <3> QED BY <2>1, <3>1 DEF Made
  <2>3. ASSUME NEW k \in 0 .. spokeCount - 1
        PROVE  /\ memory[Position(Outer(k))] = <<"outer", <<"spoke", k>>>>
               /\ IsRing => memory[Position(Inner(k))] = <<"inner", <<"spoke", k>>>>
    BY <2>1, <2>2 DEF ShapesInv, Vertices
  <2>4. ASSUME NEW n \in DOMAIN indices
        PROVE  /\ Cardinality(Edges(indices[n])) = 3
               /\ \A edge \in Edges(indices[n]) :
                    Cardinality(TrianglesAt(edge)) = IF OnRim(edge) THEN 1 ELSE 2
    <3>1. CASE IsRing
      BY <3>1, RingIsWhole
    <3>2. CASE ~IsRing
      BY <2>1, <3>2, DiskIsWhole
    <3> QED BY <3>1, <3>2
  <2> QED BY <2>3, <2>4
<1> QED BY <1>1, ShapesInvHolds, PTL
-----------------------------------------------------------------------------
(* Draw lists                                                              *)

Phases == {"forward", "transparent"}
Sides == {"single_sided", "double_sided"}
Command == [mesh_idx : Nat, textures : Materials,
            vertex_offset : Nat, index_offset : Nat, index_num : Nat]
Asset == [vertex_offset : Nat, index_offset : Nat, index_num : Nat]
Uniform == [model : Renderers, light_count : Nat, material_idx : Nat]
Shown == [renderer : Renderers, mesh : Meshes, material : Materials, lights : Nat]
ShownOf(e) ==
  [renderer |-> e, mesh |-> renderers[e].mesh, material |-> renderers[e].material,
   lights |-> point_lights]

Pools == [vertices |-> vertex_pool, indices |-> index_pool]

\* A mesh is where an asset, or a command, says.
Located(pools, place, a) ==
  /\ a \in Meshes /\ place.index_num = IndexNum[a]
  /\ InPool(pools.indices, place.index_offset, place.index_num, a)
  /\ InPool(pools.vertices, place.vertex_offset, VertexNum[a], a)

\* While the pools hold all meshes they are filled from the front.
WorldInv ==
  /\ point_lights \in Nat
  /\ vertex_pool \in Seq(Meshes) /\ first_available_vertex = Len(vertex_pool)
  /\ index_pool \in Seq(Meshes) /\ first_available_index = Len(index_pool)
  /\ IsFiniteSet(DOMAIN renderers) /\ DOMAIN renderers \subseteq Renderers
  /\ \A e \in DOMAIN renderers :
       renderers[e] \in Shows /\ renderers[e].mesh \in DOMAIN mesh_assets
  /\ \A a \in DOMAIN mesh_assets :
       a \in Meshes /\ mesh_assets[a] \in Asset /\ Located(Pools, mesh_assets[a], a)

\* A GpuVector that holds what has been written.
Holds(vector, S) ==
  vector \in [buffer : Nat, size : Nat, data : Seq(S)] /\ Len(vector.data) <= vector.size

\* What was there is still there, at the same place.
Extends(old, new) == Len(old) <= Len(new) /\ \A i \in 1 .. Len(old) : new[i] = old[i]

Buffers ==
  /\ DOMAIN slots = FrameSlots
  /\ \A s \in FrameSlots :
       /\ DOMAIN slots[s] = DOMAIN NewSlot
       /\ Holds(slots[s].material_buffer, Materials) /\ Holds(slots[s].mesh_buffer, Uniform)
       /\ Holds(slots[s].light_buffer, {"light"})

\* The pools, too.
Grows(pools, pools2) ==
  /\ Extends(pools.vertices, pools2.vertices) /\ Extends(pools.indices, pools2.indices)
  /\ Len(pools.vertices) \in Nat /\ Len(pools2.vertices) \in Nat
  /\ Len(pools.indices) \in Nat /\ Len(pools2.indices) \in Nat

\* A command draws what was shown, given the pools and the frame's lists.
Draws(pools, materials, meshes, cmd, d) ==
  /\ cmd.mesh_idx < Len(meshes) /\ cmd.textures = d.material
  /\ meshes[cmd.mesh_idx + 1].model = d.renderer
  /\ meshes[cmd.mesh_idx + 1].light_count = d.lights
  /\ meshes[cmd.mesh_idx + 1].material_idx < Len(materials)
  /\ materials[meshes[cmd.mesh_idx + 1].material_idx + 1] = d.material
  /\ Located(pools, cmd, d.mesh)

InList(shows, phase) == {d \in shows : ListOf(d.material) = phase}

\* The command lists draw each of these, once.
Listed(pools, materials, meshes, lists, shows) ==
  /\ lists \in [Phases -> [Sides -> Seq(Command)]]
  /\ \A phase \in Phases :
       /\ \A side \in Sides : \A n \in DOMAIN lists[phase][side] :
            \E d \in InList(shows, phase) :
              Draws(pools, materials, meshes, lists[phase][side][n], d)
       /\ \A d \in InList(shows, phase) : \E side \in Sides : \E n \in DOMAIN lists[phase][side] :
            Draws(pools, materials, meshes, lists[phase][side][n], d)
       /\ Len(lists[phase]["single_sided"]) + Len(lists[phase]["double_sided"])
            = Cardinality(InList(shows, phase))

Ready(s) ==
  /\ Listed(Pools, slots[s].material_buffer.data, slots[s].mesh_buffer.data, slots[s].commands,
            shown[s])
  /\ slots[s].material_descriptor = Describe(slots[s].material_buffer)
  /\ slots[s].mesh_descriptor = Describe(slots[s].mesh_buffer)
  /\ slots[s].light_descriptor = Describe(slots[s].light_buffer)
  /\ \A d \in shown[s] : d.lights <= Len(slots[s].light_buffer.data)

\* The loop of beginFrame: the renderers it has come to are listed.
BeingListed(s) ==
  /\ to_draw \subseteq DOMAIN renderers /\ shown[s] = {ShownOf(e) : e \in DOMAIN renderers}
  /\ frame_materials \in Seq(Materials) /\ frame_meshes \in Seq(Uniform)
  /\ Listed(Pools, frame_materials, frame_meshes, slots[s].commands,
            {ShownOf(e) : e \in DOMAIN renderers \ to_draw})
  /\ point_lights <= Len(slots[s].light_buffer.data)

DrawInv ==
  /\ WorldInv /\ Buffers
  /\ (drawing = {} \/ \E s \in FrameSlots : drawing = {s})
  /\ DOMAIN shown = FrameSlots
  /\ \A s \in FrameSlots : IsFiniteSet(shown[s]) /\ shown[s] \subseteq Shown
  /\ \A s \in FrameSlots \ drawing : Ready(s)
  /\ \A s \in drawing : BeingListed(s)

\* An overlay that draws has all lines that are due in its list, and no others.
OverlayInv ==
  /\ debug_draw \in Nat /\ (overlay_enabled => debug_draw = lines_due)
  /\ LinesDrawnOnce

\* What has been allocated is never given back, so the pools hold all meshes up
\* to some step, and then never again.
ListsInv ==
  /\ first_available_vertex \in Nat /\ first_available_index \in Nat
  /\ PoolsHold => DrawInv
  /\ OverlayInv
-----------------------------------------------------------------------------
\* GpuVector::writeData puts the data in front and keeps the rest, and the
\* buffer is large enough for both.
LEMMA WriteDataHolds ==
  ASSUME NEW S, NEW vector, Holds(vector, S), NEW data \in Seq(S)
  PROVE  /\ Holds(WriteData(vector, data), S)
         /\ Extends(data, WriteData(vector, data).data)
<1> DEFINE tail == SubSeq(vector.data, Len(data) + 1, Len(vector.data))
<1>1. /\ vector.buffer \in Nat /\ vector.size \in Nat /\ vector.data \in Seq(S)
      /\ Len(vector.data) <= vector.size /\ Len(data) \in Nat
      /\ DOMAIN vector = {"buffer", "size", "data"}
  BY DEF Holds
<1>2. CASE Len(data) > vector.size
  <2>1. Larger(Len(data), vector.size) \in Nat /\ Larger(Len(data), vector.size) >= Len(data)
    BY <1>1 DEF Larger
  <2> QED BY <1>1, <1>2, <2>1 DEF WriteData, Holds, Extends
<1>3. CASE ~(Len(data) > vector.size)
  <2>1. tail \in Seq(S) /\ Len(tail) + Len(data) <= vector.size
    BY <1>1, <1>3
  <2> HIDE DEF tail
  <2>2. /\ data \o tail \in Seq(S) /\ Len(data \o tail) = Len(data) + Len(tail)
        /\ \A i \in 1 .. Len(data) : (data \o tail)[i] = data[i]
    BY <1>1, <2>1, ConcatProperties
  <2>3. WriteData(vector, data) = [vector EXCEPT !.data = data \o tail]
    BY <1>3 DEF WriteData, tail
  <2>4. /\ WriteData(vector, data).data = data \o tail
        /\ WriteData(vector, data) \in [buffer : Nat, size : Nat, data : Seq(S)]
        /\ WriteData(vector, data).size = vector.size
    BY <1>1, <2>2, <2>3 DEF Holds
  <2>5. Len(data) <= Len(data \o tail) /\ Len(data \o tail) <= vector.size
    BY <1>1, <2>1, <2>2
  <2> QED BY <2>2, <2>4, <2>5 DEF Holds, Extends
<1> QED BY <1>2, <1>3

\* What is in a pool stays there.
LEMMA InPoolMore ==
  ASSUME NEW p, NEW q, Extends(p, q), Len(p) \in Nat, Len(q) \in Nat,
         NEW offset \in Nat, NEW num \in Nat, NEW a, InPool(p, offset, num, a)
  PROVE  InPool(q, offset, num, a)
<1>1. offset + num <= Len(q)
  BY DEF InPool, Extends
<1>2. ASSUME NEW n \in 1 .. num PROVE q[offset + n] = a
  <2>1. offset + n \in 1 .. Len(p)
    BY DEF InPool
  <2> QED BY <2>1 DEF InPool, Extends
<1> QED BY <1>1, <1>2 DEF InPool

LEMMA LocatedMore ==
  ASSUME NEW pools, NEW pools2, Grows(pools, pools2), NEW place, NEW a,
         place.vertex_offset \in Nat, place.index_offset \in Nat, Located(pools, place, a)
  PROVE  Located(pools2, place, a)
<1>1. a \in Meshes /\ VertexNum[a] \in Nat /\ IndexNum[a] \in Nat /\ place.index_num = IndexNum[a]
  BY DrawAssumption DEF Located
<1>2. InPool(pools2.vertices, place.vertex_offset, VertexNum[a], a)
  <2>1. InPool(pools.vertices, place.vertex_offset, VertexNum[a], a)
    BY DEF Located
  <2> QED BY <1>1, <2>1, InPoolMore DEF Grows
<1>3. InPool(pools2.indices, place.index_offset, place.index_num, a)
  <2>1. InPool(pools.indices, place.index_offset, place.index_num, a)
    BY DEF Located
  <2> QED BY <1>1, <2>1, InPoolMore DEF Grows
<1> QED BY <1>1, <1>2, <1>3 DEF Located

\* A command draws the same when more has been added to what it refers to.
LEMMA DrawsMore ==
  ASSUME NEW pools, NEW pools2, Grows(pools, pools2),
         NEW materials, NEW materials2, Extends(materials, materials2),
         NEW meshes \in Seq(Uniform), NEW meshes2, Extends(meshes, meshes2),
         Len(materials) \in Nat, Len(materials2) \in Nat, Len(meshes2) \in Nat,
         NEW cmd \in Command, NEW d, Draws(pools, materials, meshes, cmd, d)
  PROVE  Draws(pools2, materials2, meshes2, cmd, d)
<1>1. cmd.mesh_idx \in Nat /\ cmd.vertex_offset \in Nat /\ cmd.index_offset \in Nat
  BY DEF Command
<1>2. cmd.mesh_idx + 1 \in 1 .. Len(meshes) /\ cmd.mesh_idx < Len(meshes2)
  BY <1>1 DEF Draws, Extends
<1>3. meshes2[cmd.mesh_idx + 1] = meshes[cmd.mesh_idx + 1]
  BY <1>2 DEF Extends
<1>4. meshes[cmd.mesh_idx + 1].material_idx \in Nat
  <2>1. meshes[cmd.mesh_idx + 1] \in Uniform
    BY <1>2
  <2> QED BY <2>1 DEF Uniform
<1>5. /\ meshes[cmd.mesh_idx + 1].material_idx < Len(materials2)
      /\ materials2[meshes[cmd.mesh_idx + 1].material_idx + 1] = d.material
  BY <1>4 DEF Draws, Extends
<1>6. Located(pools2, cmd, d.mesh)
  <2>1. Located(pools, cmd, d.mesh)
    BY DEF Draws
  <2> QED BY <1>1, <2>1, LocatedMore
<1> QED BY <1>2, <1>3, <1>5, <1>6 DEF Draws

\* ... and so does a command list.
LEMMA ListedMore ==
  ASSUME NEW pools, NEW pools2, Grows(pools, pools2),
         NEW materials, NEW materials2, Extends(materials, materials2),
         NEW meshes \in Seq(Uniform), NEW meshes2, Extends(meshes, meshes2),
         Len(materials) \in Nat, Len(materials2) \in Nat, Len(meshes2) \in Nat,
         NEW lists, NEW shows, Listed(pools, materials, meshes, lists, shows)
  PROVE  Listed(pools2, materials2, meshes2, lists, shows)
<1>1. \A cmd \in Command : \A d :
        Draws(pools, materials, meshes, cmd, d) => Draws(pools2, materials2, meshes2, cmd, d)
  BY DrawsMore
<1>2. lists \in [Phases -> [Sides -> Seq(Command)]]
  BY DEF Listed
<1>3. ASSUME NEW phase \in Phases, NEW side \in Sides, NEW n \in DOMAIN lists[phase][side]
      PROVE  lists[phase][side][n] \in Command
  BY <1>2
<1>4. ASSUME NEW phase \in Phases, NEW side \in Sides, NEW n \in DOMAIN lists[phase][side]
      PROVE  \E d \in InList(shows, phase) :
               Draws(pools2, materials2, meshes2, lists[phase][side][n], d)
  BY <1>1, <1>3 DEF Listed
<1>5. ASSUME NEW phase \in Phases, NEW d \in InList(shows, phase)
      PROVE  \E side \in Sides : \E n \in DOMAIN lists[phase][side] :
               Draws(pools2, materials2, meshes2, lists[phase][side][n], d)
  BY <1>1, <1>3 DEF Listed
<1>6. ASSUME NEW phase \in Phases
      PROVE  Len(lists[phase]["single_sided"]) + Len(lists[phase]["double_sided"])
               = Cardinality(InList(shows, phase))
  BY DEF Listed
<1> QED BY <1>2, <1>4, <1>5, <1>6 DEF Listed

\* A command that is added draws one more.
LEMMA ListedOneMore ==
  ASSUME NEW pools, NEW materials, NEW meshes, NEW lists, NEW shows, IsFiniteSet(shows),
         Listed(pools, materials, meshes, lists, shows),
         NEW cmd \in Command, NEW d, d \notin shows,
         Draws(pools, materials, meshes, cmd, d),
         NEW L, L = ListOf(d.material), NEW S, S = SideOf(d.material),
         NEW lists2, lists2 = [lists EXCEPT ![L][S] = Append(lists[L][S], cmd)]
  PROVE  Listed(pools, materials, meshes, lists2, shows \cup {d})
<1>1. L \in Phases /\ S \in Sides
  BY DEF ListOf, SideOf, Phases, Sides
<1>2. lists \in [Phases -> [Sides -> Seq(Command)]]
  BY DEF Listed
<1>3. lists2 \in [Phases -> [Sides -> Seq(Command)]]
  BY <1>1, <1>2
<1>4. /\ lists2[L][S] = Append(lists[L][S], cmd)
      /\ \A phase \in Phases : \A side \in Sides :
           phase # L \/ side # S => lists2[phase][side] = lists[phase][side]
  BY <1>1, <1>2
<1>5. /\ lists[L][S] \in Seq(Command) /\ Len(lists2[L][S]) = Len(lists[L][S]) + 1
      /\ lists2[L][S][Len(lists[L][S]) + 1] = cmd
      /\ Len(lists[L][S]) + 1 \in DOMAIN lists2[L][S]
      /\ \A n \in DOMAIN lists[L][S] : n \in DOMAIN lists2[L][S] /\ lists2[L][S][n] = lists[L][S][n]
      /\ \A n \in DOMAIN lists2[L][S] : n \in DOMAIN lists[L][S] \/ n = Len(lists[L][S]) + 1
  BY <1>1, <1>2, <1>4
<1>6. /\ InList(shows \cup {d}, L) = InList(shows, L) \cup {d}
      /\ \A phase \in Phases : phase # L => InList(shows \cup {d}, phase) = InList(shows, phase)
      /\ d \notin InList(shows, L)
  BY DEF InList
<1>7. Cardinality(InList(shows \cup {d}, L)) = Cardinality(InList(shows, L)) + 1
  <2>1. IsFiniteSet(InList(shows, L))
    BY FS_Subset DEF InList
  <2> QED BY <1>6, <2>1, FS_AddElement
<1>8. ASSUME NEW phase \in Phases, NEW side \in Sides, NEW n \in DOMAIN lists2[phase][side]
      PROVE  \E e \in InList(shows \cup {d}, phase) :
               Draws(pools, materials, meshes, lists2[phase][side][n], e)
  <2>1. CASE phase = L /\ side = S /\ n = Len(lists[L][S]) + 1
    BY <1>5, <1>6, <2>1
  <2>2. CASE ~(phase = L /\ side = S /\ n = Len(lists[L][S]) + 1)
    <3>1. n \in DOMAIN lists[phase][side] /\ lists2[phase][side][n] = lists[phase][side][n]
      BY <1>4, <1>5, <2>2
    <3>2. PICK e \in InList(shows, phase) :
            Draws(pools, materials, meshes, lists[phase][side][n], e)
      BY <3>1 DEF Listed
    <3>3. e \in InList(shows \cup {d}, phase)
      BY DEF InList
    <3> QED BY <3>1, <3>2, <3>3
  <2> QED BY <2>1, <2>2
<1>9. ASSUME NEW phase \in Phases, NEW e \in InList(shows \cup {d}, phase)
      PROVE  \E side \in Sides : \E n \in DOMAIN lists2[phase][side] :
               Draws(pools, materials, meshes, lists2[phase][side][n], e)
  <2>1. CASE e = d /\ phase = L
    BY <1>1, <1>5, <2>1
  <2>2. CASE e \in InList(shows, phase)
    <3>1. PICK side \in Sides : \E n \in DOMAIN lists[phase][side] :
            Draws(pools, materials, meshes, lists[phase][side][n], e)
      BY <2>2 DEF Listed
    <3>2. PICK n \in DOMAIN lists[phase][side] :
            Draws(pools, materials, meshes, lists[phase][side][n], e)
      BY <3>1
    <3>3. n \in DOMAIN lists2[phase][side] /\ lists2[phase][side][n] = lists[phase][side][n]
      BY <1>4, <1>5
    <3> QED BY <3>2, <3>3
  <2> QED BY <1>6, <2>1, <2>2
<1>10. ASSUME NEW phase \in Phases
       PROVE  Len(lists2[phase]["single_sided"]) + Len(lists2[phase]["double_sided"])
                = Cardinality(InList(shows \cup {d}, phase))
  <2>1. Len(lists[phase]["single_sided"]) + Len(lists[phase]["double_sided"])
          = Cardinality(InList(shows, phase))
    BY DEF Listed
  <2>2. /\ "single_sided" \in Sides /\ "double_sided" \in Sides
        /\ Sides = {"single_sided", "double_sided"}
    BY DEF Sides
  <2>3. Len(lists[phase]["single_sided"]) \in Nat /\ Len(lists[phase]["double_sided"]) \in Nat
    BY <1>2, <2>2
  <2>4. PICK one \in Nat : one = Len(lists[phase]["single_sided"])
    BY <2>3
  <2>5. PICK two \in Nat : two = Len(lists[phase]["double_sided"])
    BY <2>3
  <2>6. one + two = Cardinality(InList(shows, phase))
    BY <2>1, <2>4, <2>5, Zenon
  <2>7. CASE phase # L
    BY <1>4, <1>6, <2>1, <2>2, <2>7
  <2>8. CASE phase = L
    <3>1. Cardinality(InList(shows \cup {d}, phase)) = one + two + 1
      BY <1>7, <2>6, <2>8, Zenon
    <3>2. CASE S = "single_sided"
      <4>1. /\ Len(lists2[phase]["single_sided"]) = one + 1
            /\ Len(lists2[phase]["double_sided"]) = two
        BY <1>4, <1>5, <2>2, <2>4, <2>5, <2>8, <3>2
      <4>2. one + 1 + two = one + two + 1
        OBVIOUS
      <4> QED BY <3>1, <4>1, <4>2, Zenon
    <3>3. CASE S = "double_sided"
      <4>1. /\ Len(lists2[phase]["single_sided"]) = one
            /\ Len(lists2[phase]["double_sided"]) = two + 1
        BY <1>4, <1>5, <2>2, <2>4, <2>5, <2>8, <3>3
      <4>2. one + (two + 1) = one + two + 1
        OBVIOUS
      <4> QED BY <3>1, <4>1, <4>2, Zenon
    <3> QED BY <1>1, <2>2, <3>2, <3>3
  <2> QED BY <2>7, <2>8
<1> QED BY <1>3, <1>8, <1>9, <1>10 DEF Listed

\* The index of a material is where the frame's list has it, or will have it.
WithMaterial(materials, m) ==
  IF MaterialIndex(materials, m) < Len(materials) THEN materials ELSE Append(materials, m)

LEMMA MaterialIndexed ==
  ASSUME NEW materials \in Seq(Materials), NEW m \in Materials
  PROVE  /\ MaterialIndex(materials, m) \in Nat
         /\ WithMaterial(materials, m) \in Seq(Materials)
         /\ MaterialIndex(materials, m) < Len(WithMaterial(materials, m))
         /\ WithMaterial(materials, m)[MaterialIndex(materials, m) + 1] = m
         /\ Extends(materials, WithMaterial(materials, m))
<1>1. CASE Contains(materials, m)
  <2>1. \E i \in DOMAIN materials : materials[i] = m
    BY <1>1 DEF Contains
  <2>2. PICK i \in DOMAIN materials : materials[i] = m /\ MaterialIndex(materials, m) = i - 1
    BY <1>1, <2>1 DEF MaterialIndex
  <2>3. WithMaterial(materials, m) = materials
    BY <2>2 DEF WithMaterial
  <2> QED BY <2>2, <2>3 DEF Extends
<1>2. CASE ~Contains(materials, m)
  <2>1. MaterialIndex(materials, m) = Len(materials)
    BY <1>2 DEF MaterialIndex
  <2>2. WithMaterial(materials, m) = Append(materials, m)
    BY <2>1 DEF WithMaterial
  <2> QED BY <2>1, <2>2 DEF Extends
<1> QED BY <1>1, <1>2

LEMMA ExtendsItself == \A s : Len(s) \in Nat => Extends(s, s)
BY DEF Extends

LEMMA NothingListed ==
  ASSUME NEW pools, NEW materials, NEW meshes
  PROVE  Listed(pools, materials, meshes, NoLists, {})
<1>1. <<>> \in Seq(Command) /\ Len(<<>>) = 0 /\ DOMAIN <<>> = {}
  OBVIOUS
<1>2. NoCommands = [side \in Sides |-> <<>>]
  BY DEF NoCommands, Sides
<1>3. NoLists = [phase \in Phases |-> NoCommands]
  BY DEF NoLists, Phases
<1>4. NoLists \in [Phases -> [Sides -> Seq(Command)]]
  BY <1>1, <1>2, <1>3
<1>5. "single_sided" \in Sides /\ "double_sided" \in Sides
  BY DEF Sides
<1>6. ASSUME NEW phase \in Phases PROVE InList({}, phase) = {}
  BY DEF InList
<1>7. ASSUME NEW phase \in Phases, NEW side \in Sides PROVE NoLists[phase][side] = <<>>
  BY <1>2, <1>3
<1>8. ASSUME NEW phase \in Phases
      PROVE  Len(NoLists[phase]["single_sided"]) + Len(NoLists[phase]["double_sided"])
               = Cardinality(InList({}, phase))
  <2>1. Cardinality(InList({}, phase)) = 0
    BY <1>6, FS_EmptySet
  <2>2. Len(NoLists[phase]["single_sided"]) = 0 /\ Len(NoLists[phase]["double_sided"]) = 0
    BY <1>1, <1>5, <1>7
  <2> QED BY <2>1, <2>2
<1> QED BY <1>1, <1>4, <1>6, <1>7, <1>8 DEF Listed

LEMMA DrawInit_Inv ==
  ASSUME DrawInit PROVE ListsInv
<1>1. IsFiniteSet({})
  BY FS_EmptySet
<1>2. DOMAIN [e \in {} |-> 0] = {}
  OBVIOUS
<1>3. WorldInv
  <2>1. DOMAIN renderers = {} /\ DOMAIN mesh_assets = {}
    BY <1>2 DEF DrawInit
  <2>2. <<>> \in Seq(Meshes) /\ Len(<<>>) = 0
    OBVIOUS
  <2> QED BY <1>1, <2>1, <2>2 DEF DrawInit, WorldInv
<1>4. NewVector \in [buffer : Nat, size : Nat, data : Seq(Materials)] /\ Holds(NewVector, Materials)
  BY DEF NewVector, Holds
<1>5. Holds(NewVector, Uniform) /\ Holds(NewVector, {"light"})
  BY DEF NewVector, Holds
<1>6. Buffers
  BY <1>4, <1>5 DEF DrawInit, Buffers, NewSlot
<1>7. ASSUME NEW s \in FrameSlots PROVE Ready(s)
  <2>1. slots[s] = NewSlot /\ shown[s] = {}
    BY DEF DrawInit
  <2>2. Listed(Pools, slots[s].material_buffer.data, slots[s].mesh_buffer.data,
               slots[s].commands, {})
    BY <2>1, NothingListed DEF NewSlot
  <2> QED BY <2>1, <2>2 DEF Ready, NewSlot
<1>8. DrawInv
  BY <1>1, <1>3, <1>6, <1>7 DEF DrawInit, DrawInv
<1>9. OverlayInv
  BY DrawAssumption DEF DrawInit, OverlayInv, LinesDrawnOnce
<1> QED BY <1>8, <1>9 DEF ListsInv, DrawInit

LEMMA ShownFinite ==
  ASSUME NEW S, IsFiniteSet(S)
  PROVE  IsFiniteSet({ShownOf(e) : e \in S})
<1> DEFINE show == [e \in S |-> ShownOf(e)]
<1>1. show \in Surjection(S, {ShownOf(e) : e \in S})
  BY DEF Surjection
<1> QED BY <1>1, FS_Surjection

\* Behind the end of a pool there is room.
LEMMA TransferExtends ==
  ASSUME NEW p \in Seq(Meshes), NEW num \in Nat, NEW a \in Meshes
  PROVE  /\ Transferred(p, num, a) \in Seq(Meshes)
         /\ Len(Transferred(p, num, a)) = Len(p) + num
         /\ Extends(p, Transferred(p, num, a))
         /\ InPool(Transferred(p, num, a), Len(p), num, a)
<1> DEFINE added == [n \in 1 .. num |-> a]
           q == Transferred(p, num, a)
<1>1. p \in Seq(Meshes) /\ Len(p) \in Nat
  OBVIOUS
<1>2. added \in Seq(Meshes) /\ Len(added) = num /\ \A v \in 1 .. num : added[v] = a
  BY <1>1
<1>3. q = p \o added
  BY DEF Transferred
<1> HIDE DEF added, q
<1>4. q \in Seq(Meshes) /\ Len(q) = Len(p) + num
  BY <1>1, <1>2, <1>3, ConcatProperties
<1>5. \A i \in 1 .. Len(p) + Len(added) :
        q[i] = IF i <= Len(p) THEN p[i] ELSE added[i - Len(p)]
  BY <1>1, <1>2, <1>3, ConcatProperties
<1>6. ASSUME NEW v \in 1 .. num PROVE q[Len(p) + v] = a
  <2>1. Len(p) + v \in 1 .. Len(p) + Len(added) /\ (Len(p) + v) - Len(p) = v
    BY <1>1, <1>2
  <2>2. ~(Len(p) + v <= Len(p))
    BY <1>1
  <2> QED BY <1>2, <1>5, <2>1, <2>2
<1>7. ASSUME NEW i \in 1 .. Len(p) PROVE q[i] = p[i]
  BY <1>1, <1>2, <1>5
<1>8. Len(p) <= Len(q) /\ Len(p) + num <= Len(q)
  BY <1>1, <1>4
<1>9. Extends(p, q)
  BY <1>7, <1>8 DEF Extends
<1>10. InPool(q, Len(p), num, a)
  BY <1>6, <1>8 DEF InPool
<1> QED BY <1>4, <1>9, <1>10 DEF q

LEMMA PoolsGrow == WorldInv => Grows(Pools, Pools)
BY ExtendsItself DEF WorldInv, Grows, Pools

\* The world between frames.
LEMMA LoadMeshKeeps ==
  ASSUME WorldInv, NEW a \in Meshes, LoadMesh(a), PoolsHold'
  PROVE  WorldInv' /\ Grows(Pools, Pools')
<1>1. /\ vertex_pool \in Seq(Meshes) /\ Len(vertex_pool) \in Nat
      /\ index_pool \in Seq(Meshes) /\ Len(index_pool) \in Nat
      /\ VertexNum[a] \in Nat /\ IndexNum[a] \in Nat
      /\ first_available_vertex = Len(vertex_pool) /\ first_available_index = Len(index_pool)
  BY DrawAssumption DEF WorldInv
<1>2. /\ vertex_pool' = Transferred(vertex_pool, VertexNum[a], a)
      /\ index_pool' = Transferred(index_pool, IndexNum[a], a)
      /\ first_available_vertex' = first_available_vertex + VertexNum[a]
      /\ first_available_index' = first_available_index + IndexNum[a]
      /\ renderers' = renderers /\ point_lights' = point_lights
  BY DEF LoadMesh, PoolsHold
<1>3. /\ vertex_pool' \in Seq(Meshes) /\ Len(vertex_pool') = Len(vertex_pool) + VertexNum[a]
      /\ Extends(vertex_pool, vertex_pool')
      /\ InPool(vertex_pool', Len(vertex_pool), VertexNum[a], a)
  BY <1>1, <1>2, TransferExtends
<1>4. /\ index_pool' \in Seq(Meshes) /\ Len(index_pool') = Len(index_pool) + IndexNum[a]
      /\ Extends(index_pool, index_pool')
      /\ InPool(index_pool', Len(index_pool), IndexNum[a], a)
  BY <1>1, <1>2, TransferExtends
<1>5. Grows(Pools, Pools')
  BY <1>1, <1>3, <1>4 DEF Grows, Pools
<1>6. PICK asset : asset = [vertex_offset |-> first_available_vertex,
                            index_offset |-> first_available_index, index_num |-> IndexNum[a]]
  OBVIOUS
<1>7. /\ DOMAIN mesh_assets' = DOMAIN mesh_assets \cup {a}
      /\ \A b \in DOMAIN mesh_assets' :
           mesh_assets'[b] = IF b = a THEN asset ELSE mesh_assets[b]
  BY <1>6 DEF LoadMesh
<1>8. ASSUME NEW b \in DOMAIN mesh_assets'
      PROVE  b \in Meshes /\ mesh_assets'[b] \in Asset /\ Located(Pools', mesh_assets'[b], b)
  <2>1. CASE b = a
    <3>1. mesh_assets'[b] = asset /\ asset \in Asset
      BY <1>1, <1>6, <1>7, <2>1 DEF Asset
    <3>2. Located(Pools', asset, a)
      BY <1>1, <1>3, <1>4, <1>6 DEF Located, Pools
    <3> QED BY <2>1, <3>1, <3>2
  <2>2. CASE b # a
    <3>1. b \in DOMAIN mesh_assets /\ mesh_assets'[b] = mesh_assets[b]
      BY <1>7, <2>2
    <3>2. b \in Meshes /\ mesh_assets[b] \in Asset /\ Located(Pools, mesh_assets[b], b)
      BY <3>1 DEF WorldInv
    <3>3. mesh_assets[b].vertex_offset \in Nat /\ mesh_assets[b].index_offset \in Nat
      BY <3>2 DEF Asset
    <3>4. Located(Pools', mesh_assets[b], b)
      BY <1>5, <3>2, <3>3, LocatedMore
    <3> QED BY <3>1, <3>2, <3>4
  <2> QED BY <2>1, <2>2
<1>9. ASSUME NEW e \in DOMAIN renderers PROVE renderers[e].mesh \in DOMAIN mesh_assets'
  BY <1>7 DEF WorldInv
<1> QED BY <1>1, <1>2, <1>3, <1>4, <1>5, <1>8, <1>9 DEF WorldInv

LEMMA RefreshKeeps ==
  ASSUME WorldInv, NEW e \in Renderers, NEW show \in Shows, Refresh(e, show)
  PROVE  WorldInv' /\ Grows(Pools, Pools')
<1>1. poolVars' = poolVars /\ Pools' = Pools /\ point_lights' = point_lights
  BY DEF Refresh, poolVars, Pools
<1>2. /\ DOMAIN renderers' = DOMAIN renderers \cup {e}
      /\ \A f \in DOMAIN renderers' :
           \/ renderers'[f] = show
           \/ f \in DOMAIN renderers /\ renderers'[f] = renderers[f]
  BY DEF Refresh
<1>3. IsFiniteSet(DOMAIN renderers')
  <2>1. IsFiniteSet(DOMAIN renderers)
    BY DEF WorldInv
  <2>2. IsFiniteSet(DOMAIN renderers \cup {e})
    BY <2>1, FS_AddElement
  <2> QED BY <1>2, <2>2
<1>4. ASSUME NEW f \in DOMAIN renderers'
      PROVE  renderers'[f] \in Shows /\ renderers'[f].mesh \in DOMAIN mesh_assets
  BY <1>2 DEF WorldInv, Refresh
<1>5. Grows(Pools, Pools')
  BY <1>1, PoolsGrow
<1> QED BY <1>1, <1>2, <1>3, <1>4, <1>5 DEF WorldInv, poolVars

LEMMA DisappearKeeps ==
  ASSUME WorldInv, NEW e \in Renderers, Disappear(e)
  PROVE  WorldInv' /\ Grows(Pools, Pools')
<1>1. poolVars' = poolVars /\ Pools' = Pools /\ point_lights' = point_lights
  BY DEF Disappear, poolVars, Pools
<1>2. /\ DOMAIN renderers' = DOMAIN renderers \ {e}
      /\ \A f \in DOMAIN renderers' : renderers'[f] = renderers[f]
  BY DEF Disappear
<1>3. IsFiniteSet(DOMAIN renderers')
  BY <1>2, FS_Subset DEF WorldInv
<1>4. Grows(Pools, Pools')
  BY <1>1, PoolsGrow
<1> QED BY <1>1, <1>2, <1>3, <1>4 DEF WorldInv, poolVars

LEMMA LightsChangeKeeps ==
  ASSUME WorldInv, NEW n \in 0 .. MaxLights, LightsChange(n)
  PROVE  WorldInv' /\ Grows(Pools, Pools')
<1>1. poolVars' = poolVars /\ Pools' = Pools /\ renderers' = renderers /\ point_lights' \in Nat
  BY DrawAssumption DEF LightsChange, poolVars, Pools
<1>2. WorldInv'
  BY <1>1 DEF WorldInv, poolVars
<1> QED BY <1>1, <1>2, PoolsGrow

\* What the frames refer to stays where it is.
LEMMA ChangedKeeps ==
  ASSUME DrawInv, Changed, WorldInv', Grows(Pools, Pools')
  PROVE  DrawInv'
<1>1. /\ slots' = slots /\ drawing' = drawing /\ shown' = shown /\ drawing = {}
  BY DEF Changed
<1>2. Buffers'
  BY <1>1 DEF DrawInv, Buffers
<1>4. ASSUME NEW s \in FrameSlots PROVE Ready(s)'
  <2>1. Ready(s)
    BY <1>1 DEF DrawInv
  <2>2. /\ slots[s].material_buffer.data \in Seq(Materials)
        /\ slots[s].mesh_buffer.data \in Seq(Uniform)
    BY DEF DrawInv, Buffers, Holds
  <2>3. /\ Extends(slots[s].material_buffer.data, slots[s].material_buffer.data)
        /\ Extends(slots[s].mesh_buffer.data, slots[s].mesh_buffer.data)
    BY <2>2, ExtendsItself
  <2>4. Listed(Pools, slots[s].material_buffer.data, slots[s].mesh_buffer.data, slots[s].commands,
               shown[s])
    BY <2>1 DEF Ready
  <2>5. Listed(Pools', slots[s].material_buffer.data, slots[s].mesh_buffer.data,
               slots[s].commands, shown[s])
    BY <2>2, <2>3, <2>4, ListedMore
  <2> QED BY <1>1, <2>1, <2>5 DEF Ready
<1> QED BY <1>1, <1>2, <1>4 DEF DrawInv

LEMMA BeginDrawingKeeps ==
  ASSUME DrawInv, NEW s \in FrameSlots, BeginDrawing(s)
  PROVE  DrawInv'
<1>1. /\ drawing = {} /\ drawing' = {s} /\ to_draw' = DOMAIN renderers
      /\ frame_materials' = <<>> /\ frame_meshes' = <<>>
      /\ renderers' = renderers /\ point_lights' = point_lights /\ poolVars' = poolVars
      /\ Pools' = Pools
  BY DEF BeginDrawing, MeshPassBegins, worldVars, poolVars, Pools
<1>2. WorldInv /\ WorldInv'
  BY <1>1 DEF DrawInv, WorldInv, poolVars
<1>3. PICK lights \in Seq({"light"}) :
        lights = [n \in 1 .. point_lights |-> "light"] /\ Len(lights) = point_lights
  <2>1. point_lights \in Nat
    BY <1>2 DEF WorldInv
  <2>2. /\ [n \in 1 .. point_lights |-> "light"] \in Seq({"light"})
        /\ Len([n \in 1 .. point_lights |-> "light"]) = point_lights
    BY <2>1
  <2> QED BY <2>2
<1>4. PICK filled : filled = WriteData(slots[s].light_buffer, lights)
  OBVIOUS
<1>5. Holds(filled, {"light"}) /\ point_lights <= Len(filled.data)
  <2>1. Holds(slots[s].light_buffer, {"light"})
    BY DEF DrawInv, Buffers
  <2>2. Holds(filled, {"light"}) /\ Extends(lights, filled.data)
    BY <1>3, <1>4, <2>1, WriteDataHolds
  <2> QED BY <1>3, <2>2 DEF Extends
<1>6. DOMAIN slots = FrameSlots /\ DOMAIN slots[s] = DOMAIN NewSlot
  BY DEF DrawInv, Buffers
<1>7. slots' = [slots EXCEPT ![s].light_buffer = filled, ![s].commands = NoLists]
  BY <1>3, <1>4 DEF BeginDrawing, MeshPassBegins, Clear
<1>8. /\ DOMAIN slots' = FrameSlots /\ DOMAIN slots'[s] = DOMAIN NewSlot
      /\ slots'[s].light_buffer = filled /\ slots'[s].commands = NoLists
      /\ slots'[s].material_buffer = slots[s].material_buffer
      /\ slots'[s].mesh_buffer = slots[s].mesh_buffer
      /\ \A t \in FrameSlots \ {s} : slots'[t] = slots[t]
  BY <1>6, <1>7 DEF NewSlot
<1>9. Buffers'
  BY <1>5, <1>8 DEF DrawInv, Buffers
<1>10. /\ DOMAIN shown' = FrameSlots /\ \A t \in FrameSlots \ {s} : shown'[t] = shown[t]
       /\ shown'[s] = {ShownOf(e) : e \in DOMAIN renderers}
  <2>1. DOMAIN shown = FrameSlots
    BY DEF DrawInv
  <2>2. shown' = [shown EXCEPT ![s] =
          {[renderer |-> e, mesh |-> renderers[e].mesh, material |-> renderers[e].material,
            lights |-> point_lights] : e \in DOMAIN renderers}]
    BY DEF BeginDrawing, MeshPassBegins
  <2> QED BY <2>1, <2>2 DEF ShownOf
<1>11. ASSUME NEW t \in FrameSlots PROVE IsFiniteSet(shown'[t]) /\ shown'[t] \subseteq Shown
  <2>1. CASE t # s
    BY <1>10, <2>1 DEF DrawInv
  <2>2. CASE t = s
    <3>1. IsFiniteSet({ShownOf(e) : e \in DOMAIN renderers})
      <4>1. IsFiniteSet(DOMAIN renderers)
        BY <1>2 DEF WorldInv
      <4> QED BY <4>1, ShownFinite
    <3>2. ASSUME NEW e \in DOMAIN renderers PROVE ShownOf(e) \in Shown
      BY <1>2 DEF WorldInv, ShownOf, Shown, Shows
    <3> QED BY <1>10, <2>2, <3>1, <3>2
  <2> QED BY <2>1, <2>2
<1>12. ASSUME NEW t \in FrameSlots \ drawing' PROVE Ready(t)'
  <2>1. Ready(t) /\ t # s
    BY <1>1 DEF DrawInv
  <2> QED BY <1>1, <1>8, <1>10, <2>1 DEF Ready
<1>13. BeingListed(s)'
  <2>1. \A e : ShownOf(e)' = ShownOf(e)
    BY <1>1 DEF ShownOf
  <2>2. {ShownOf(e) : e \in DOMAIN renderers \ to_draw}' = {}
    BY <1>1
  <2>3. Listed(Pools, <<>>, <<>>, NoLists, {})
    BY NothingListed
  <2>4. <<>> \in Seq(Materials) /\ <<>> \in Seq(Uniform)
    OBVIOUS
  <2>5. Listed(Pools, frame_materials, frame_meshes, slots[s].commands,
               {ShownOf(e) : e \in DOMAIN renderers \ to_draw})'
    BY <1>1, <1>8, <2>2, <2>3
  <2>6. shown'[s] = {ShownOf(e) : e \in DOMAIN renderers}'
    BY <1>1, <1>10, <2>1
  <2>7. point_lights' <= Len(slots'[s].light_buffer.data)
    BY <1>1, <1>5, <1>8
  <2> QED BY <1>1, <2>4, <2>5, <2>6, <2>7 DEF BeingListed
<1> QED BY <1>1, <1>2, <1>9, <1>10, <1>11, <1>12, <1>13 DEF DrawInv

LEMMA DrawRendererKeeps ==
  ASSUME DrawInv, NEW s \in FrameSlots, NEW e \in Renderers, DrawRenderer(s, e)
  PROVE  DrawInv'
<1>1. /\ drawing = {s} /\ drawing' = {s} /\ shown' = shown /\ e \in to_draw
      /\ renderers' = renderers /\ point_lights' = point_lights /\ poolVars' = poolVars
      /\ Pools' = Pools /\ BeingListed(s) /\ WorldInv
      /\ to_draw' = to_draw \ {e}
  BY DEF DrawRenderer, AddRenderer, worldVars, poolVars, Pools, DrawInv
<1>2. WorldInv'
  BY <1>1 DEF WorldInv, poolVars
<1>3. PICK show : show = renderers[e]
  OBVIOUS
<1>4. /\ e \in DOMAIN renderers /\ show \in Shows /\ show.mesh \in DOMAIN mesh_assets
      /\ show.mesh \in Meshes /\ show.material \in Materials
      /\ ShownOf(e) = [renderer |-> e, mesh |-> show.mesh, material |-> show.material,
                       lights |-> point_lights]
  BY <1>1, <1>3 DEF BeingListed, WorldInv, Shows, ShownOf
<1>5. PICK idx : idx = MaterialIndex(frame_materials, show.material)
  OBVIOUS
<1>6. frame_materials' = IF idx < Len(frame_materials) THEN frame_materials
                         ELSE Append(frame_materials, show.material)
  BY <1>3, <1>5 DEF DrawRenderer, AddRenderer
<1>7. PICK materials : materials = frame_materials'
  OBVIOUS
<1>8. /\ frame_materials \in Seq(Materials) /\ frame_meshes \in Seq(Uniform)
      /\ idx \in Nat /\ materials \in Seq(Materials) /\ idx < Len(materials)
      /\ materials[idx + 1] = show.material /\ Extends(frame_materials, materials)
  <2>1. frame_materials \in Seq(Materials) /\ frame_meshes \in Seq(Uniform)
    BY <1>1 DEF BeingListed
  <2>2. materials = WithMaterial(frame_materials, show.material)
    BY <1>5, <1>6, <1>7 DEF WithMaterial
  <2>3. show.material \in Materials
    BY <1>4
  <2> QED BY <1>5, <2>1, <2>2, <2>3, MaterialIndexed
<1>9. PICK uniform : uniform = [model |-> e, light_count |-> point_lights, material_idx |-> idx]
  OBVIOUS
<1>10. uniform \in Uniform /\ point_lights \in Nat
  BY <1>1, <1>8, <1>9 DEF Uniform, WorldInv
<1>11. PICK meshes : meshes = Append(frame_meshes, uniform)
  OBVIOUS
<1>12. frame_meshes' = meshes
  BY <1>3, <1>5, <1>9, <1>11 DEF DrawRenderer, AddRenderer
<1>13. /\ meshes \in Seq(Uniform) /\ Extends(frame_meshes, meshes)
       /\ Len(meshes) = Len(frame_meshes) + 1 /\ meshes[Len(frame_meshes) + 1] = uniform
       /\ Len(frame_meshes) \in Nat
  BY <1>8, <1>10, <1>11 DEF Extends
<1>14. PICK cmd : cmd = [mesh_idx |-> Len(frame_meshes), textures |-> materials[idx + 1],
                         vertex_offset |-> mesh_assets[show.mesh].vertex_offset,
                         index_offset |-> mesh_assets[show.mesh].index_offset,
                         index_num |-> mesh_assets[show.mesh].index_num]
  OBVIOUS
<1>15. /\ mesh_assets[show.mesh] \in Asset /\ Located(Pools, mesh_assets[show.mesh], show.mesh)
       /\ Located(Pools, cmd, show.mesh)
  <2>1. mesh_assets[show.mesh] \in Asset /\ Located(Pools, mesh_assets[show.mesh], show.mesh)
    BY <1>1, <1>4 DEF WorldInv
  <2>2. /\ cmd.vertex_offset = mesh_assets[show.mesh].vertex_offset
        /\ cmd.index_offset = mesh_assets[show.mesh].index_offset
        /\ cmd.index_num = mesh_assets[show.mesh].index_num
    BY <1>14
  <2> QED BY <2>1, <2>2 DEF Located
<1>16. cmd \in Command
  BY <1>4, <1>8, <1>13, <1>14, <1>15 DEF Command, Asset
<1>17. Draws(Pools, materials, meshes, cmd, ShownOf(e))
  <2>1. cmd.mesh_idx < Len(meshes) /\ meshes[cmd.mesh_idx + 1] = uniform
    BY <1>13, <1>14
  <2>2. cmd.textures = show.material
    BY <1>8, <1>14
  <2>3. uniform.model = e /\ uniform.light_count = point_lights /\ uniform.material_idx = idx
    BY <1>9
  <2> QED BY <1>4, <1>8, <1>15, <2>1, <2>2, <2>3 DEF Draws
<1>18. PICK shows : shows = {ShownOf(f) : f \in DOMAIN renderers \ to_draw}
  OBVIOUS
<1>19. Listed(Pools, frame_materials, frame_meshes, slots[s].commands, shows)
  BY <1>1, <1>18 DEF BeingListed
<1>20. Listed(Pools, materials, meshes, slots[s].commands, shows)
  <2>1. /\ Len(frame_materials) \in Nat
        /\ Len(materials) \in Nat /\ Len(meshes) \in Nat
    BY <1>1, <1>8, <1>13 DEF WorldInv
  <2>2. Grows(Pools, Pools)
    BY <1>1, PoolsGrow
  <2> QED BY <1>8, <1>13, <1>19, <2>1, <2>2, ListedMore
<1>21. IsFiniteSet(shows) /\ ShownOf(e) \notin shows
  <2>1. IsFiniteSet(DOMAIN renderers \ to_draw)
    BY <1>1, FS_Subset DEF WorldInv
  <2>2. IsFiniteSet(shows)
    BY <1>18, <2>1, ShownFinite
  <2>3. ASSUME NEW f \in DOMAIN renderers \ to_draw PROVE ShownOf(f) # ShownOf(e)
    <3>1. f # e
      BY <1>1
    <3>2. ShownOf(f).renderer = f /\ ShownOf(e).renderer = e
      BY DEF ShownOf
    <3> QED BY <3>1, <3>2
  <2> QED BY <1>18, <2>2, <2>3
<1>22. PICK L : L = ListOf(ShownOf(e).material)
  OBVIOUS
<1>23. PICK S : S = SideOf(ShownOf(e).material)
  OBVIOUS
<1>24. PICK lists2 :
         lists2 = [slots[s].commands EXCEPT ![L][S] = Append(slots[s].commands[L][S], cmd)]
  OBVIOUS
<1>25. Listed(Pools, materials, meshes, lists2, shows \cup {ShownOf(e)})
  BY <1>16, <1>17, <1>20, <1>21, <1>22, <1>23, <1>24, ListedOneMore
<1>26. DOMAIN slots = FrameSlots /\ DOMAIN slots[s] = DOMAIN NewSlot
  BY DEF DrawInv, Buffers
<1>27. slots' = [slots EXCEPT ![s].commands[L][S] = Append(@, cmd)]
  <2>1. ShownOf(e).material = show.material
    BY <1>4
  <2> QED BY <1>3, <1>5, <1>6, <1>7, <1>14, <1>22, <1>23, <2>1 DEF DrawRenderer, AddRenderer
<1>28. /\ DOMAIN slots' = FrameSlots /\ DOMAIN slots'[s] = DOMAIN NewSlot
       /\ slots'[s].light_buffer = slots[s].light_buffer
       /\ slots'[s].material_buffer = slots[s].material_buffer
       /\ slots'[s].mesh_buffer = slots[s].mesh_buffer
       /\ slots'[s].commands = lists2
       /\ \A t \in FrameSlots \ {s} : slots'[t] = slots[t]
  BY <1>24, <1>26, <1>27 DEF NewSlot
<1>29. Buffers'
  BY <1>28 DEF DrawInv, Buffers
<1>30. ASSUME NEW t \in FrameSlots \ drawing' PROVE Ready(t)'
  <2>1. Ready(t) /\ t # s
    BY <1>1 DEF DrawInv
  <2> QED BY <1>1, <1>28, <2>1 DEF Ready
<1>31. BeingListed(s)'
  <2>1. \A f : ShownOf(f)' = ShownOf(f)
    BY <1>1 DEF ShownOf
  <2>2. {ShownOf(f) : f \in DOMAIN renderers \ to_draw}' = shows \cup {ShownOf(e)}
    <3>1. DOMAIN renderers \ (to_draw \ {e}) = (DOMAIN renderers \ to_draw) \cup {e}
      BY <1>4
    <3>2. {ShownOf(f) : f \in (DOMAIN renderers \ to_draw) \cup {e}} = shows \cup {ShownOf(e)}
      BY <1>18
    <3>3. {ShownOf(f) : f \in DOMAIN renderers \ to_draw}'
            = {ShownOf(f) : f \in DOMAIN renderers \ (to_draw \ {e})}
      BY <1>1, <2>1
    <3> QED BY <3>1, <3>2, <3>3
  <2>3. Listed(Pools, frame_materials, frame_meshes, slots[s].commands,
               {ShownOf(f) : f \in DOMAIN renderers \ to_draw})'
    BY <1>1, <1>7, <1>12, <1>25, <1>28, <2>2
  <2>4. /\ frame_materials' \in Seq(Materials) /\ frame_meshes' \in Seq(Uniform)
        /\ to_draw' \subseteq DOMAIN renderers'
    BY <1>1, <1>7, <1>8, <1>12, <1>13 DEF BeingListed
  <2>5. shown'[s] = {ShownOf(f) : f \in DOMAIN renderers}'
    BY <1>1, <2>1 DEF BeingListed
  <2>6. point_lights' <= Len(slots'[s].light_buffer.data)
    BY <1>1, <1>28 DEF BeingListed
  <2> QED BY <2>3, <2>4, <2>5, <2>6 DEF BeingListed
<1> QED BY <1>1, <1>2, <1>29, <1>30, <1>31 DEF DrawInv

LEMMA EndDrawingKeeps ==
  ASSUME DrawInv, NEW s \in FrameSlots, EndDrawing(s)
  PROVE  DrawInv'
<1>1. /\ drawing = {s} /\ drawing' = {} /\ shown' = shown /\ to_draw = {}
      /\ renderers' = renderers /\ point_lights' = point_lights /\ poolVars' = poolVars
      /\ Pools' = Pools /\ BeingListed(s) /\ WorldInv
  BY DEF EndDrawing, MeshPassWrites, worldVars, poolVars, Pools, DrawInv
<1>2. WorldInv'
  BY <1>1 DEF WorldInv, poolVars
<1>3. PICK old : old = slots[s]
  OBVIOUS
<1>4. PICK materials : materials = WriteData(old.material_buffer, frame_materials)
  OBVIOUS
<1>5. PICK meshes : meshes = WriteData(old.mesh_buffer, frame_meshes)
  OBVIOUS
<1>6. /\ frame_materials \in Seq(Materials) /\ frame_meshes \in Seq(Uniform)
      /\ Holds(old.material_buffer, Materials) /\ Holds(old.mesh_buffer, Uniform)
      /\ Holds(old.light_buffer, {"light"})
      /\ DOMAIN slots = FrameSlots /\ DOMAIN old = DOMAIN NewSlot
  BY <1>1, <1>3 DEF BeingListed, DrawInv, Buffers
<1>7. Holds(materials, Materials) /\ Extends(frame_materials, materials.data)
  BY <1>4, <1>6, WriteDataHolds
<1>8. Holds(meshes, Uniform) /\ Extends(frame_meshes, meshes.data)
  BY <1>5, <1>6, WriteDataHolds
<1>9. slots' = [slots EXCEPT ![s] =
        [old EXCEPT !.material_buffer = materials, !.mesh_buffer = meshes,
                    !.material_descriptor = Describe(materials),
                    !.mesh_descriptor = Describe(meshes),
                    !.light_descriptor = Describe(old.light_buffer)]]
  BY <1>3, <1>4, <1>5 DEF EndDrawing, MeshPassWrites, Described
<1>10. /\ DOMAIN slots' = FrameSlots /\ DOMAIN slots'[s] = DOMAIN NewSlot
       /\ slots'[s].light_buffer = old.light_buffer /\ slots'[s].commands = old.commands
       /\ slots'[s].material_buffer = materials /\ slots'[s].mesh_buffer = meshes
       /\ slots'[s].material_descriptor = Describe(materials)
       /\ slots'[s].mesh_descriptor = Describe(meshes)
       /\ slots'[s].light_descriptor = Describe(old.light_buffer)
       /\ \A t \in FrameSlots \ {s} : slots'[t] = slots[t]
  BY <1>6, <1>9 DEF NewSlot
<1>11. Buffers'
  BY <1>6, <1>7, <1>8, <1>10 DEF DrawInv, Buffers
<1>12. Ready(s)'
  <2>1. shown[s] = {ShownOf(e) : e \in DOMAIN renderers}
    BY <1>1 DEF BeingListed
  <2>2. DOMAIN renderers \ to_draw = DOMAIN renderers
    BY <1>1
  <2>3. Listed(Pools, frame_materials, frame_meshes, old.commands, shown[s])
    BY <1>1, <1>3, <2>1, <2>2 DEF BeingListed
  <2>4. /\ Len(frame_materials) \in Nat
        /\ Len(materials.data) \in Nat /\ Len(meshes.data) \in Nat
    BY <1>1, <1>6, <1>7, <1>8 DEF WorldInv, Holds
  <2>5. Grows(Pools, Pools)
    BY <1>1, PoolsGrow
  <2>6. Listed(Pools, materials.data, meshes.data, old.commands, shown[s])
    BY <1>6, <1>7, <1>8, <2>3, <2>4, <2>5, ListedMore
  <2>7. ASSUME NEW d \in shown[s] PROVE d.lights <= Len(old.light_buffer.data)
    <3>1. PICK e \in DOMAIN renderers : d = ShownOf(e)
      BY <2>1
    <3>2. d.lights = point_lights
      BY <3>1 DEF ShownOf
    <3> QED BY <1>1, <1>3, <3>2 DEF BeingListed
  <2> QED BY <1>1, <1>10, <2>6, <2>7 DEF Ready
<1>13. ASSUME NEW t \in FrameSlots \ {s} PROVE Ready(t)'
  <2>1. Ready(t)
    BY <1>1 DEF DrawInv
  <2> QED BY <1>1, <1>10, <2>1 DEF Ready
<1> QED BY <1>1, <1>2, <1>11, <1>12, <1>13 DEF DrawInv

\* The lines of the overlay are cleared when they have been drawn, and are due
\* while they are not.
LEMMA OverlayKeeps ==
  ASSUME OverlayInv, DrawNext PROVE OverlayInv'
<1>1. CASE UNCHANGED overlayVars
  BY <1>1 DEF OverlayInv, LinesDrawnOnce, overlayVars
<1>2. ASSUME NEW s \in FrameSlots, BeginDrawing(s) PROVE OverlayInv'
  BY <1>2 DEF BeginDrawing, OverlayInv, LinesDrawnOnce
<1>3. ASSUME NEW s \in FrameSlots, EndDrawing(s) PROVE OverlayInv'
  <2>1. PICK own \in 0 .. MaxOverlayLines : OverlayBegins(own)
    BY <1>3 DEF EndDrawing
  <2>2. own \in Nat /\ debug_draw \in Nat /\ overlay_enabled' = overlay_enabled
    BY <2>1, DrawAssumption DEF OverlayInv, OverlayBegins
  <2>3. CASE ~overlay_enabled
    BY <2>1, <2>2, <2>3 DEF OverlayBegins, OverlayInv, LinesDrawnOnce
  <2>4. CASE overlay_enabled
    <3>1. PICK counted : counted = 2 ^ IndexBits
      OBVIOUS
    <3>2. counted \in Nat
      BY <3>1, DrawAssumption
    <3>3. debug_draw' = 0 /\ lines_due' = 0
      BY <2>1, <2>4 DEF OverlayBegins, Cleared
    <3>4. PICK lines \in Nat : lines = debug_draw + own
      BY <2>2
    <3>5. lines_drawn' = lines
      BY <2>1, <2>4, <3>4 DEF OverlayBegins, OverlayInv
    <3>6. index_count' = (2 * lines) % counted
      BY <2>1, <2>4, <3>1, <3>4 DEF OverlayBegins
    <3>7. 2 * lines < counted => index_count' = 2 * lines
      <4>1. \A n \in Nat : n < counted => n % counted = n
        BY <3>2
      <4>2. 2 * lines \in Nat
        BY <3>4
      <4> QED BY <3>6, <4>1, <4>2
    <3> QED BY <3>1, <3>3, <3>5, <3>7 DEF OverlayInv, LinesDrawnOnce
  <2> QED BY <2>3, <2>4
<1>4. ASSUME NEW s \in FrameSlots, NEW e \in Renderers, DrawRenderer(s, e) PROVE OverlayInv'
  BY <1>1, <1>4 DEF DrawRenderer
<1>5. CASE Changed
  BY <1>1, <1>5 DEF Changed
<1>6. ASSUME NEW lines \in 0 .. MaxOverlayLines - debug_draw, UiUpdates(lines)
      PROVE  OverlayInv'
  BY <1>6, DrawAssumption DEF UiUpdates, OverlayInv, LinesDrawnOnce
<1> QED BY <1>2, <1>3, <1>4, <1>5, <1>6 DEF DrawNext

\* ui.update leaves the frames alone.
LEMMA UiUpdatesKeeps ==
  ASSUME DrawInv, NEW lines, UiUpdates(lines)
  PROVE  DrawInv'
BY DEF UiUpdates, DrawInv, WorldInv, Buffers, Ready, BeingListed, ShownOf, worldVars, poolVars,
   Pools

\* A command of a list that is ready finds in the buffers, and in their reach,
\* what it draws.
LEMMA DrawnIs ==
  ASSUME DrawInv, NEW s \in FrameSlots \ drawing, NEW cmd \in Command, NEW d \in shown[s],
         Draws(Pools, slots[s].material_buffer.data, slots[s].mesh_buffer.data, cmd, d)
  PROVE  /\ InReach(s, cmd) /\ Drawn(s, cmd) = d /\ cmd.textures = d.material
         /\ WholeMesh(cmd, d.mesh)
<1>1. PICK meshes : meshes = slots[s].mesh_buffer
  OBVIOUS
<1>2. PICK materials : materials = slots[s].material_buffer
  OBVIOUS
<1>3. PICK lights : lights = slots[s].light_buffer
  OBVIOUS
<1>4. /\ Holds(meshes, Uniform) /\ Holds(materials, Materials) /\ Holds(lights, {"light"})
  BY <1>1, <1>2, <1>3 DEF DrawInv, Buffers
<1>5. /\ Len(meshes.data) <= meshes.size /\ Len(materials.data) <= materials.size
      /\ Len(lights.data) <= lights.size /\ meshes.data \in Seq(Uniform)
      /\ meshes.size \in Nat /\ materials.size \in Nat /\ lights.size \in Nat
      /\ Len(meshes.data) \in Nat /\ Len(materials.data) \in Nat /\ Len(lights.data) \in Nat
  BY <1>4 DEF Holds
<1>6. /\ slots[s].mesh_descriptor = Describe(meshes)
      /\ slots[s].material_descriptor = Describe(materials)
      /\ slots[s].light_descriptor = Describe(lights) /\ d.lights <= Len(lights.data)
  BY <1>1, <1>2, <1>3 DEF DrawInv, Ready
<1>7. d \in Shown /\ d.lights \in Nat
  BY DEF DrawInv, Shown
<1>8. cmd.mesh_idx \in Nat /\ cmd.vertex_offset \in Nat /\ cmd.index_offset \in Nat
  BY DEF Command
<1>9. PICK uniform : uniform = meshes.data[cmd.mesh_idx + 1]
  OBVIOUS
<1>10. /\ cmd.mesh_idx < Len(meshes.data) /\ cmd.textures = d.material
       /\ uniform.model = d.renderer /\ uniform.light_count = d.lights
       /\ uniform.material_idx < Len(materials.data)
       /\ materials.data[uniform.material_idx + 1] = d.material
       /\ Located(Pools, cmd, d.mesh)
  BY <1>1, <1>2, <1>9 DEF Draws
<1>11. uniform \in Uniform /\ uniform.material_idx \in Nat
  <2>1. cmd.mesh_idx + 1 \in 1 .. Len(meshes.data)
    BY <1>5, <1>8, <1>10
  <2>2. uniform \in Uniform
    BY <1>5, <1>9, <2>1
  <2> QED BY <2>2 DEF Uniform
<1>12. Reaches(slots[s].mesh_descriptor, slots[s].mesh_buffer, cmd.mesh_idx)
  BY <1>1, <1>5, <1>6, <1>8, <1>10 DEF Reaches, Describe
<1>13. Reaches(slots[s].material_descriptor, slots[s].material_buffer, uniform.material_idx)
  BY <1>2, <1>5, <1>6, <1>10, <1>11 DEF Reaches, Describe
<1>14. ASSUME NEW n \in 0 .. uniform.light_count - 1
       PROVE  Reaches(slots[s].light_descriptor, slots[s].light_buffer, n)
  <2>1. n \in Nat /\ n < Len(lights.data) /\ n < lights.size
    BY <1>5, <1>6, <1>7, <1>10
  <2> QED BY <1>3, <1>6, <2>1 DEF Reaches, Describe
<1>15. InReach(s, cmd)
  BY <1>1, <1>9, <1>12, <1>13, <1>14 DEF InReach
<1>16. index_pool[cmd.index_offset + 1] = d.mesh /\ WholeMesh(cmd, d.mesh)
  <2>1. d.mesh \in Meshes /\ WholeMesh(cmd, d.mesh)
    BY <1>10 DEF Located, WholeMesh, Pools
  <2>2. cmd.index_num \in Nat \ {0} /\ InPool(index_pool, cmd.index_offset, cmd.index_num, d.mesh)
    BY <2>1, DrawAssumption DEF WholeMesh
  <2>3. 1 \in 1 .. cmd.index_num
    BY <2>2
  <2> QED BY <2>1, <2>2, <2>3 DEF InPool
<1>17. Drawn(s, cmd) = [renderer |-> d.renderer, mesh |-> d.mesh, material |-> d.material,
                        lights |-> d.lights]
  BY <1>1, <1>2, <1>9, <1>10, <1>16 DEF Drawn
<1>18. Drawn(s, cmd) = d
  BY <1>7, <1>17 DEF Shown
<1> QED BY <1>10, <1>15, <1>16, <1>18

\* What is ready is drawn as it was shown.
LEMMA ReadyIsDrawn ==
  ASSUME DrawInv PROVE FramesDrawn
<1> SUFFICES ASSUME NEW s \in FrameSlots \ drawing,
                    NEW phase \in {"depth", "forward", "transparent"}
             PROVE  LET cmds == Executed(s, phase)
                        due == {d \in shown[s] : ListOf(d.material) = ListDrawn(phase)}
                    IN  /\ \A n \in DOMAIN cmds :
                             /\ InReach(s, cmds[n])
                             /\ cmds[n].textures = Drawn(s, cmds[n]).material
                             /\ WholeMesh(cmds[n], Drawn(s, cmds[n]).mesh)
                        /\ Len(cmds) = Cardinality(due)
                        /\ {Drawn(s, cmds[n]) : n \in DOMAIN cmds} = due
  BY DEF FramesDrawn
<1>1. PICK L : L = ListDrawn(phase)
  OBVIOUS
<1>2. L \in Phases /\ "single_sided" \in Sides /\ "double_sided" \in Sides
  BY <1>1 DEF ListDrawn, Phases, Sides
<1>3. PICK due : due = InList(shown[s], L)
  OBVIOUS
<1>4. due = {d \in shown[s] : ListOf(d.material) = ListDrawn(phase)} /\ due \subseteq shown[s]
  BY <1>1, <1>3 DEF InList
<1>5. PICK one : one = slots[s].commands[L]["single_sided"]
  OBVIOUS
<1>6. PICK two : two = slots[s].commands[L]["double_sided"]
  OBVIOUS
<1>7. PICK cmds : cmds = one \o two
  OBVIOUS
<1>8. Executed(s, phase) = cmds
  BY <1>1, <1>5, <1>6, <1>7 DEF Executed
<1>9. Listed(Pools, slots[s].material_buffer.data, slots[s].mesh_buffer.data, slots[s].commands,
             shown[s])
  BY DEF DrawInv, Ready
<1>10. slots[s].commands \in [Phases -> [Sides -> Seq(Command)]]
  BY <1>9 DEF Listed
<1>11. one \in Seq(Command) /\ two \in Seq(Command)
  BY <1>2, <1>5, <1>6, <1>10
<1>12. /\ cmds \in Seq(Command) /\ Len(cmds) = Len(one) + Len(two)
       /\ \A n \in 1 .. Len(one) + Len(two) :
            cmds[n] = IF n <= Len(one) THEN one[n] ELSE two[n - Len(one)]
  BY <1>7, <1>11, ConcatProperties
<1>13. ASSUME NEW n \in DOMAIN cmds
       PROVE  \/ \E m \in DOMAIN one : cmds[n] = one[m]
              \/ \E m \in DOMAIN two : cmds[n] = two[m]
  <2>1. n \in 1 .. Len(one) + Len(two) /\ Len(one) \in Nat /\ Len(two) \in Nat
    BY <1>11, <1>12
  <2>2. CASE n <= Len(one)
    BY <1>11, <1>12, <2>1, <2>2
  <2>3. CASE ~(n <= Len(one))
    <3>1. n - Len(one) \in DOMAIN two
      BY <1>11, <2>1, <2>3
    <3> QED BY <1>12, <2>1, <2>3, <3>1
  <2> QED BY <2>2, <2>3
<1>14. ASSUME NEW m \in DOMAIN one PROVE \E n \in DOMAIN cmds : cmds[n] = one[m]
  <2>1. m \in 1 .. Len(one) + Len(two) /\ m <= Len(one) /\ m \in DOMAIN cmds
    BY <1>11, <1>12
  <2> QED BY <1>12, <2>1
<1>15. ASSUME NEW m \in DOMAIN two PROVE \E n \in DOMAIN cmds : cmds[n] = two[m]
  <2>1. /\ Len(one) + m \in 1 .. Len(one) + Len(two) /\ ~(Len(one) + m <= Len(one))
        /\ Len(one) + m \in DOMAIN cmds /\ (Len(one) + m) - Len(one) = m
    BY <1>11, <1>12
  <2> QED BY <1>12, <2>1
<1> DEFINE D(cmd, d) ==
      Draws(Pools, slots[s].material_buffer.data, slots[s].mesh_buffer.data, cmd, d)
<1>16. ASSUME NEW n \in DOMAIN cmds PROVE \E d \in due : D(cmds[n], d)
  <2>1. \A side \in Sides : \A m \in DOMAIN slots[s].commands[L][side] :
          \E d \in InList(shown[s], L) : D(slots[s].commands[L][side][m], d)
    BY <1>2, <1>9 DEF Listed
  <2>2. CASE \E m \in DOMAIN one : cmds[n] = one[m]
    BY <1>2, <1>3, <1>5, <2>1, <2>2
  <2>3. CASE \E m \in DOMAIN two : cmds[n] = two[m]
    BY <1>2, <1>3, <1>6, <2>1, <2>3
  <2> QED BY <1>13, <2>2, <2>3
<1>17. ASSUME NEW d \in due PROVE \E n \in DOMAIN cmds : D(cmds[n], d)
  <2>1. PICK side \in Sides : \E m \in DOMAIN slots[s].commands[L][side] :
          D(slots[s].commands[L][side][m], d)
    BY <1>2, <1>3, <1>9 DEF Listed
  <2>2. CASE side = "single_sided"
    BY <1>5, <1>14, <2>1, <2>2
  <2>3. CASE side = "double_sided"
    BY <1>6, <1>15, <2>1, <2>3
  <2> QED BY <2>2, <2>3 DEF Sides
<1>18. Len(cmds) = Cardinality(due)
  <2>1. Len(slots[s].commands[L]["single_sided"]) + Len(slots[s].commands[L]["double_sided"])
          = Cardinality(InList(shown[s], L))
    BY <1>2, <1>9 DEF Listed
  <2> QED BY <1>3, <1>5, <1>6, <1>12, <2>1, Zenon
<1>19. ASSUME NEW n \in DOMAIN cmds, NEW d \in due, D(cmds[n], d)
       PROVE  /\ InReach(s, cmds[n]) /\ Drawn(s, cmds[n]) = d
              /\ cmds[n].textures = Drawn(s, cmds[n]).material
              /\ WholeMesh(cmds[n], Drawn(s, cmds[n]).mesh)
  <2>1. cmds[n] \in Command
    BY <1>12
  <2>2. d \in shown[s]
    BY <1>4
  <2>3. Draws(Pools, slots[s].material_buffer.data, slots[s].mesh_buffer.data, cmds[n], d)
    BY <1>19
  <2>4. /\ InReach(s, cmds[n]) /\ Drawn(s, cmds[n]) = d /\ cmds[n].textures = d.material
        /\ WholeMesh(cmds[n], d.mesh)
    BY <2>1, <2>2, <2>3, DrawnIs
  <2> QED BY <2>4
<1> HIDE DEF D
<1>20. {Drawn(s, cmds[n]) : n \in DOMAIN cmds} = due
  <2>1. ASSUME NEW n \in DOMAIN cmds PROVE Drawn(s, cmds[n]) \in due
    BY <1>16, <1>19
  <2>2. ASSUME NEW d \in due PROVE \E n \in DOMAIN cmds : d = Drawn(s, cmds[n])
    BY <1>17, <1>19
  <2> QED BY <2>1, <2>2
<1>21. ASSUME NEW n \in DOMAIN cmds
       PROVE  /\ InReach(s, cmds[n]) /\ cmds[n].textures = Drawn(s, cmds[n]).material
              /\ WholeMesh(cmds[n], Drawn(s, cmds[n]).mesh)
  <2>1. PICK d \in due : D(cmds[n], d)
    BY <1>16
  <2> QED BY <1>19, <2>1
<1> QED BY <1>4, <1>8, <1>18, <1>20, <1>21

LEMMA ListsGoOn ==
  ASSUME ListsInv, DrawNext PROVE ListsInv'
<1>1. OverlayInv'
  BY OverlayKeeps DEF ListsInv
<1>2. /\ first_available_vertex' \in Nat /\ first_available_index' \in Nat
      /\ PoolsHold' => PoolsHold
  <2>1. CASE UNCHANGED poolVars
    BY <2>1 DEF ListsInv, PoolsHold, poolVars
  <2>2. ASSUME NEW a \in Meshes, LoadMesh(a)
        PROVE  /\ first_available_vertex' \in Nat /\ first_available_index' \in Nat
               /\ PoolsHold' => PoolsHold
    <3>1. /\ VertexNum[a] \in Nat /\ IndexNum[a] \in Nat /\ PoolSize \in Nat
          /\ first_available_vertex \in Nat /\ first_available_index \in Nat
          /\ first_available_vertex' = first_available_vertex + VertexNum[a]
          /\ first_available_index' = first_available_index + IndexNum[a]
      BY <2>2, DrawAssumption DEF LoadMesh, ListsInv
    <3> QED BY <3>1 DEF PoolsHold
  <2>3. (\E a \in Meshes : LoadMesh(a)) \/ UNCHANGED poolVars
    BY DEF DrawNext, Refresh, Disappear, LightsChange, UiUpdates, BeginDrawing, EndDrawing,
       DrawRenderer, worldVars
  <2> QED BY <2>1, <2>2, <2>3
<1>3. ASSUME PoolsHold' PROVE DrawInv'
  <2>1. DrawInv /\ WorldInv
    BY <1>2, <1>3 DEF ListsInv, DrawInv
  <2>2. ASSUME NEW a \in Meshes, LoadMesh(a), Changed PROVE DrawInv'
    BY <1>3, <2>1, <2>2, LoadMeshKeeps, ChangedKeeps
  <2>3. ASSUME NEW e \in Renderers, NEW show \in Shows, Refresh(e, show), Changed PROVE DrawInv'
    BY <2>1, <2>3, RefreshKeeps, ChangedKeeps
  <2>4. ASSUME NEW e \in Renderers, Disappear(e), Changed PROVE DrawInv'
    BY <2>1, <2>4, DisappearKeeps, ChangedKeeps
  <2>5. ASSUME NEW n \in 0 .. MaxLights, LightsChange(n), Changed PROVE DrawInv'
    BY <2>1, <2>5, LightsChangeKeeps, ChangedKeeps
  <2>6. ASSUME NEW s \in FrameSlots, BeginDrawing(s) PROVE DrawInv'
    BY <2>1, <2>6, BeginDrawingKeeps
  <2>7. ASSUME NEW s \in FrameSlots, EndDrawing(s) PROVE DrawInv'
    BY <2>1, <2>7, EndDrawingKeeps
  <2>8. ASSUME NEW s \in FrameSlots, NEW e \in Renderers, DrawRenderer(s, e) PROVE DrawInv'
    BY <2>1, <2>8, DrawRendererKeeps
  <2>9. ASSUME NEW lines \in 0 .. MaxOverlayLines - debug_draw, UiUpdates(lines) PROVE DrawInv'
    BY <2>1, <2>9, UiUpdatesKeeps
  <2> QED BY <2>2, <2>3, <2>4, <2>5, <2>6, <2>7, <2>8, <2>9 DEF DrawNext
<1> QED BY <1>1, <1>2, <1>3 DEF ListsInv

LEMMA ListsHold == DrawSpec => []ListsInv
<1>1. DrawInit => ListsInv
  BY DrawInit_Inv
<1>2. ListsInv /\ [DrawNext]_drawVars => ListsInv'
  <2> SUFFICES ASSUME ListsInv, [DrawNext]_drawVars PROVE ListsInv'
    OBVIOUS
  <2>1. CASE UNCHANGED drawVars
    <3>1. DrawInv => DrawInv'
      BY <2>1 DEF DrawInv, WorldInv, Buffers, Ready, BeingListed, ShownOf, drawVars, worldVars,
         poolVars, Pools
    <3>2. OverlayInv'
      BY <2>1 DEF ListsInv, OverlayInv, LinesDrawnOnce, drawVars, overlayVars
    <3>3. /\ first_available_vertex' = first_available_vertex
          /\ first_available_index' = first_available_index
      BY <2>1 DEF drawVars, worldVars, poolVars
    <3> QED BY <3>1, <3>2, <3>3 DEF ListsInv, PoolsHold
  <2> QED BY <2>1, ListsGoOn
<1> QED BY <1>1, <1>2, PTL DEF DrawSpec

\* As long as the pools hold all meshes that were loaded, what the GPU draws from
\* a frame's command lists and buffers is what the world showed when the frame
\* was begun, each thing once: for any number of entities, meshes of any size,
\* materials and lights, and however often buffers grow.  The overlay draws each
\* line once, whichever frames are rendered.
THEOREM FramesDrawWhatIsShown == DrawSpec => []DrawnAsShown
<1>1. ListsInv => DrawnAsShown
  BY ReadyIsDrawn DEF ListsInv, OverlayInv, DrawnAsShown
<1> QED BY <1>1, ListsHold, PTL
=============================================================================
