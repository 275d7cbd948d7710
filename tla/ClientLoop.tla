------------------------------ MODULE ClientLoop ------------------------------
(***************************************************************************)
(* run() of client_main.cc with the display it drives: the objects it      *)
(* builds, its loop, and how all of it is taken down again, on the way out *)
(* of the loop or by an exception.  A display is a window of SDL or a      *)
(* session of OpenXR; what the user and the OpenXR runtime do reaches it   *)
(* as events, which are polled one at a time while more may come.          *)
(*                                                                         *)
(* What a frame renders is the business of Frames, whether its submission  *)
(* ever finishes is told here; the messages of client->update() are        *)
(* NetworkSession's.                                                       *)
(***************************************************************************)
EXTENDS Naturals, Sequences, SequencesExt

CONSTANTS
  HeadsetViews,     \* views of the stereo configuration
  MaxEvents         \* events until the client is interrupted: a bound

ASSUME LoopAssumption == HeadsetViews \in Nat \ {0}

VARIABLES
  device,           \* "sdl" or "openxr": args.display
  at,               \* where run() is
  built,            \* the objects of run() that exist, oldest first
  avatar,           \* SdlDisplay::avatar: an entity of the world
  render_passes,    \* the objects that Renderer::render_passes points to
  interrupted,      \* g_interrupted
  failed,           \* an exception leaves run()
  dangling,         \* objects that were used after their destruction
  poll_info,        \* should_quit, should_run
  should_render,
  viewports,        \* how many the display has
  session_state,    \* what the OpenXR display knows of ...
  session,          \* ... the state of the runtime's session
  sessionRunning,   \* begun, and not ended since
  frameWaited,      \* a frame was waited for since it was begun
  beginFailed,      \* xrBeginSession has failed
  ended,            \* xrEndSession was called in this poll
  events,           \* what pollEvents will find
  given,            \* how many there have been
  outgrown,         \* the window's size is no longer the one of its swapchain
  stalled           \* frames in flight whose fence nothing will signal

objectVars == <<built, avatar, render_passes, failed, dangling>>
displayVars == <<poll_info, should_render, viewports, session_state, beginFailed, ended>>
sessionVars == <<session, sessionRunning, frameWaited>>
outsideVars == <<interrupted, events, given>>
swapchainVars == <<outgrown, stalled>>
loopVars ==
  <<device, at, objectVars, displayVars, sessionVars, outsideVars, swapchainVars>>

\* What run() builds, and whatever may throw while it does, in this order.
Objects == <<"display", "gpu", "session", "world", "renderer", "glyphs", "mesh_pass",
             "overlay_pass", "ui", "avatar", "client">>
NotObjects == {"session", "avatar"}
Passes == {"mesh_pass", "overlay_pass", "ui"}

PollSteps == {"loop", "polling", "polled"}
FrameSteps == {"update", "render", "end"}
MayThrow == (ToSet(Objects) \ {"avatar"}) \cup {"polling", "render"}

StepAfter(o) ==
  IF o = "client" THEN "loop" ELSE Objects[1 + CHOOSE n \in DOMAIN Objects : Objects[n] = o]
-----------------------------------------------------------------------------
LoopInit ==
  /\ device \in {"sdl", "openxr"} /\ at = "display"
  /\ built = <<>> /\ avatar = FALSE /\ render_passes = {}
  /\ interrupted = FALSE /\ failed = FALSE /\ dangling = {}
  /\ poll_info = [should_quit |-> FALSE, should_run |-> FALSE] /\ should_render = FALSE
  /\ viewports = 0 /\ session_state = "unknown"
  /\ session = "none" /\ sessionRunning = FALSE /\ frameWaited = FALSE
  /\ beginFailed = FALSE /\ ended = FALSE /\ events = <<>> /\ given = 0
  /\ outgrown = FALSE /\ stalled = 0

\* A constructor has come to its end; it may have thrown before, see Throw.
ConstructObject(o) ==
  /\ at = o /\ at' = StepAfter(o) /\ built' = Append(built, o)
  /\ UNCHANGED <<device, avatar, failed, dangling, displayVars, sessionVars, outsideVars,
                 swapchainVars>>

BuildDisplay == ConstructObject("display") /\ UNCHANGED render_passes
BuildGpu == ConstructObject("gpu") /\ UNCHANGED render_passes

\* Display::createSession: only OpenXR's runtime has one.
CreateSession ==
  /\ at = "session" /\ at' = StepAfter("session")
  /\ session' = IF device = "openxr" THEN "unknown" ELSE session
  /\ UNCHANGED <<device, objectVars, displayVars, sessionRunning, frameWaited, outsideVars,
                 swapchainVars>>

BuildWorld == ConstructObject("world") /\ UNCHANGED render_passes
BuildRenderer == ConstructObject("renderer") /\ UNCHANGED render_passes

BuildGlyphs == ConstructObject("glyphs") /\ UNCHANGED render_passes

\* The renderer is given the first two passes when both are there.
AddRenderPasses(some) == render_passes' = render_passes \cup some

BuildMeshPass == ConstructObject("mesh_pass") /\ UNCHANGED render_passes
BuildOverlayPass ==
  ConstructObject("overlay_pass") /\ AddRenderPasses({"mesh_pass", "overlay_pass"})
BuildUserInterface == ConstructObject("ui") /\ AddRenderPasses({"ui"})

\* Display::getAvatar
GetAvatar ==
  /\ at = "avatar" /\ at' = StepAfter("avatar") /\ avatar' = (device = "sdl")
  /\ UNCHANGED <<device, built, render_passes, failed, dangling, displayVars, sessionVars,
                 outsideVars, swapchainVars>>

BuildClient == ConstructObject("client") /\ UNCHANGED render_passes

Build ==
  \/ BuildDisplay \/ BuildGpu \/ CreateSession \/ BuildWorld \/ BuildRenderer \/ BuildGlyphs
  \/ BuildMeshPass \/ BuildOverlayPass \/ BuildUserInterface \/ GetAvatar \/ BuildClient

\* log_ftl throws.
Throw ==
  /\ at \in MayThrow /\ at' = "unwind" /\ failed' = TRUE
  /\ UNCHANGED <<device, built, avatar, render_passes, dangling, displayVars, sessionVars,
                 outsideVars, swapchainVars>>

\* while (!g_interrupted); a window that has no viewport makes one, in its size,
\* before it looks at events.
StartPoll ==
  /\ at = "loop"
  /\ \/ interrupted /\ at' = "left" /\ UNCHANGED <<poll_info, viewports, ended, outgrown>>
     \/ /\ ~interrupted /\ at' = "polling" /\ ended' = FALSE
        /\ viewports' = IF device = "sdl" THEN 1 ELSE viewports
        /\ outgrown' = (outgrown /\ viewports > 0)
        /\ poll_info' = [should_quit |-> FALSE, should_run |-> device = "sdl"]
  /\ UNCHANGED <<device, objectVars, should_render, session_state, beginFailed, sessionVars,
                 outsideVars, stalled>>

Stay == poll_info

SdlViewports(e) == IF e = "resized" THEN 0 ELSE viewports

\* vkDeviceWaitIdle returns.
DeviceIdles == stalled = 0

\* SdlDisplay::pollEvents on one event; ~SdlViewport waits for the device.
SdlEvent ==
  /\ at = "polling" /\ device = "sdl" /\ events # <<>>
  /\ Head(events) = "resized" /\ viewports > 0 => DeviceIdles
  /\ viewports' = SdlViewports(Head(events))
  /\ poll_info' = IF Head(events) = "quit" THEN [should_quit |-> TRUE, should_run |-> FALSE]
                  ELSE Stay
  /\ events' = Tail(events)
  /\ UNCHANGED <<device, at, objectVars, should_render, session_state, beginFailed, ended,
                 sessionVars, interrupted, given, swapchainVars>>

Closing == {"stopping", "exiting", "loss_pending"}

\* OpenXrDisplay::pollEvents on a session state: a session that is ready is
\* begun, and its viewports are added to those there are; one that stops is
\* ended.
XrEvent ==
  /\ at = "polling" /\ device = "openxr" /\ events # <<>> /\ Head(events) # "instance_loss"
  /\ session_state' = Head(events) /\ events' = Tail(events)
  /\ \/ /\ Head(events) = "ready"
        /\ \E works \in BOOLEAN :
             /\ sessionRunning' = (sessionRunning \/ works)
             /\ beginFailed' = (beginFailed \/ ~works)
             /\ viewports' = IF works THEN viewports + HeadsetViews ELSE viewports
             /\ frameWaited' = (frameWaited /\ ~works)
        /\ UNCHANGED ended
     \/ /\ Head(events) \in Closing
        /\ sessionRunning' = (sessionRunning /\ session # "stopping")
        /\ ended' = TRUE
        /\ UNCHANGED <<viewports, beginFailed, frameWaited>>
     \/ /\ Head(events) \notin Closing \cup {"ready"}
        /\ UNCHANGED <<viewports, beginFailed, sessionRunning, frameWaited, ended>>
  /\ UNCHANGED <<device, at, objectVars, poll_info, should_render, session, interrupted, given,
                 swapchainVars>>

XrInstanceLoss ==
  /\ at = "polling" /\ device = "openxr" /\ events # <<>> /\ Head(events) = "instance_loss"
  /\ poll_info' = [poll_info EXCEPT !.should_quit = TRUE]
  /\ events' = Tail(events) /\ at' = "polled"
  /\ UNCHANGED <<device, objectVars, should_render, viewports, session_state, beginFailed,
                 ended, sessionVars, interrupted, given, swapchainVars>>

RunsAlways(state) == TRUE                                      \* a mutant
Runs(state) == state \in {"ready", "visible", "focused"}

\* No event is left: OpenXR decides by the last state, SDL has decided.
EndPoll ==
  /\ at = "polling" /\ events = <<>> /\ at' = "polled"
  /\ poll_info' = IF device = "sdl" THEN Stay
                  ELSE [should_quit |-> session_state \in Closing,
                        should_run |-> Runs(session_state)]
  /\ UNCHANGED <<device, objectVars, should_render, viewports, session_state, beginFailed,
                 ended, sessionVars, outsideVars, swapchainVars>>

QuitIgnored == FALSE                                           \* a mutant
QuitAsked == poll_info.should_quit

AfterPoll ==
  /\ at = "polled"
  /\ at' = IF QuitAsked THEN "left" ELSE IF poll_info.should_run THEN "begin" ELSE "network"
  /\ UNCHANGED <<device, objectVars, displayVars, sessionVars, outsideVars, swapchainVars>>

RendersAlways == TRUE                                          \* a mutant
WindowRenders == viewports > 0

\* A window is rendered if it has its viewport; the runtime says whether it
\* wants a frame, and says no to a session that does not run.
BeginDisplayFrame ==
  /\ at = "begin" /\ at' = "update"
  /\ \/ device = "sdl" /\ should_render' = WindowRenders
     \/ device = "openxr" /\ should_render' \in {FALSE, sessionRunning}
  /\ frameWaited' = (frameWaited \/ sessionRunning)
  /\ UNCHANGED <<device, objectVars, poll_info, viewports, session_state, beginFailed, ended,
                 session, sessionRunning, outsideVars, swapchainVars>>

\* scripts->update, world.update and ui.update (which never ask to break),
\* endFrame and client->update.
Frame ==
  /\ at \in {"update", "end", "network"}
  /\ at' = CASE at = "update" -> IF should_render THEN "render" ELSE "end"
             [] at = "end" -> "network"
             [] at = "network" -> "loop"
  /\ UNCHANGED <<device, objectVars, displayVars, sessionVars, outsideVars, swapchainVars>>

PipelinedFrames == 2

\* renderFrame: it waits without a limit for the frame that had its fence
\* before.  What it submits waits for the image that it acquires.  The
\* swapchain of a window that has outgrown it may refuse to give one, which
\* nobody notices: the semaphore is never signalled, and neither are this
\* fence and any after it.
SubmitFrame ==
  /\ at = "render" /\ stalled < PipelinedFrames /\ at' = "end"
  /\ \E refused \in {FALSE, outgrown} :
       stalled' = IF refused \/ stalled > 0 THEN stalled + 1 ELSE 0
  /\ UNCHANGED <<device, objectVars, displayVars, sessionVars, outsideVars, outgrown>>
-----------------------------------------------------------------------------
(* The way out.                                                             *)
Dead(objects) == objects \ ToSet(built)

LetGoOfNothing == UNCHANGED <<render_passes, avatar>>          \* a mutant
\* renderer.destroyFrameData() and display->destroySession(): both wait for the
\* device.
LetGo == render_passes' = {} /\ avatar' = FALSE

LeaveLoop ==
  /\ at = "left" /\ DeviceIdles /\ at' = "unwind" /\ LetGo
  /\ dangling' = dangling \cup Dead(render_passes) \cup Dead(IF avatar THEN {"world"} ELSE {})
  /\ viewports' = 0 /\ session' = "none" /\ sessionRunning' = FALSE
  /\ UNCHANGED <<device, built, failed, frameWaited, poll_info, should_render, session_state,
                 beginFailed, ended, outsideVars, swapchainVars>>

\* Destructors run, youngest object first: ~Renderer calls destroyFrameData for
\* the passes it still has, ~GpuInstance calls destroySession, which deletes
\* the avatar's entity.  These two wait for the device.
Destruct ==
  /\ at = "unwind" /\ built # <<>>
  /\ Last(built) \in {"renderer", "gpu"} => DeviceIdles
  /\ built' = Front(built)
  /\ dangling' = dangling
       \cup (IF Last(built) = "renderer" THEN Dead(render_passes) ELSE {})
       \cup (IF Last(built) = "gpu" /\ avatar THEN Dead({"world"}) ELSE {})
  /\ render_passes' = IF Last(built) = "renderer" THEN {} ELSE render_passes
  /\ avatar' = (avatar /\ Last(built) # "gpu")
  /\ session' = IF Last(built) = "gpu" THEN "none" ELSE session
  /\ viewports' = IF Last(built) = "gpu" THEN 0 ELSE viewports
  /\ sessionRunning' = (sessionRunning /\ Last(built) # "gpu")
  /\ UNCHANGED <<device, at, failed, frameWaited, poll_info, should_render, session_state,
                 beginFailed, ended, outsideVars, swapchainVars>>

Gone == at = "unwind" /\ built = <<>>
Ended == Gone /\ UNCHANGED loopVars

ClientSteps ==
  \/ Build \/ StartPoll \/ SdlEvent \/ XrEvent \/ XrInstanceLoss \/ EndPoll \/ AfterPoll
  \/ BeginDisplayFrame \/ Frame \/ SubmitFrame \/ LeaveLoop \/ Destruct
-----------------------------------------------------------------------------
(* The user, and the runtime.                                               *)
Interrupt ==
  /\ at \notin ToSet(Objects) \cup {"left", "unwind"} /\ ~interrupted /\ interrupted' = TRUE
  /\ UNCHANGED <<device, at, objectVars, displayVars, sessionVars, events, given, swapchainVars>>

Window(e) ==
  /\ device = "sdl" /\ at \in PollSteps /\ given < MaxEvents
  /\ events' = Append(events, e) /\ given' = given + 1
  /\ UNCHANGED <<device, at, objectVars, displayVars, sessionVars, interrupted, swapchainVars>>

\* The window is resized under its swapchain; the event that says so is one of
\* Window's, and may come later.
Outgrow ==
  /\ device = "sdl" /\ at \in PollSteps /\ viewports > 0 /\ outgrown' = TRUE
  /\ UNCHANGED <<device, at, objectVars, displayVars, sessionVars, outsideVars, stalled>>

RuntimeMoves ==
  {<<"unknown", "idle">>, <<"idle", "ready">>, <<"idle", "exiting">>,
   <<"synchronized", "visible">>, <<"visible", "synchronized">>, <<"visible", "focused">>,
   <<"focused", "visible">>, <<"synchronized", "stopping">>}

\* The states of an OpenXR session: it is synchronized once it runs frames,
\* and idle again once it has been ended; it may be lost at any time.
RuntimeMay(state) ==
  \/ <<session, state>> \in RuntimeMoves
  \/ session = "ready" /\ state = "synchronized" /\ frameWaited
  \/ session = "stopping" /\ state = "idle" /\ ~sessionRunning
  \/ session \notin {"loss_pending", "exiting"} /\ state = "loss_pending"

Runtime(state) ==
  /\ device = "openxr" /\ session # "none" /\ at # "unwind" /\ given < MaxEvents
  /\ \/ RuntimeMay(state) /\ session' = state
     \/ state = "instance_loss" /\ session' = session
  /\ events' = Append(events, state) /\ given' = given + 1
  /\ UNCHANGED <<device, at, objectVars, displayVars, sessionRunning, frameWaited, interrupted,
                 swapchainVars>>

States == {"idle", "ready", "synchronized", "visible", "focused", "stopping", "exiting",
           "loss_pending", "instance_loss"}

LoopNext ==
  \/ ClientSteps \/ Throw \/ Ended \/ Interrupt \/ Outgrow
  \/ \E e \in {"quit", "resized"} : Window(e)
  \/ \E s \in States : Runtime(s)

LoopSpec == LoopInit /\ [][LoopNext]_loopVars
LoopFairness == WF_loopVars(ClientSteps)
-----------------------------------------------------------------------------
LoopTypeOK ==
  /\ device \in {"sdl", "openxr"}
  /\ at \in ToSet(Objects) \cup PollSteps \cup FrameSteps
            \cup {"begin", "network", "left", "unwind"}
  /\ ToSet(built) \subseteq ToSet(Objects) \ NotObjects
  /\ render_passes \subseteq Passes /\ dangling \subseteq ToSet(Objects)
  /\ {avatar, interrupted, failed, should_render, sessionRunning, frameWaited, beginFailed, ended,
      poll_info.should_quit, poll_info.should_run, outgrown} \subseteq BOOLEAN
  /\ viewports \in Nat /\ ToSet(events) \subseteq States \cup {"quit", "resized"}
  /\ session \in States \cup {"none", "unknown"} /\ session_state \in States \cup {"unknown"}
  /\ given \in 0 .. MaxEvents /\ stalled \in 0 .. PipelinedFrames

\* renderFrame always finds viewports: a window whose viewport has gone with a
\* resize, and a headset whose session could not be begun, skip it.
RenderedViewportsExist == at = "render" => viewports > 0

\* Frames are begun, rendered and ended in a session that runs, if it could be
\* begun: whatever states the runtime goes through, and however many of them a
\* poll finds at once.
FramesInRunningSession ==
  device = "openxr" /\ at \in FrameSteps => sessionRunning \/ beginFailed

\* Whoever leaves the loop without an exception finds all objects alive: the
\* renderer forgets its passes and the display its avatar before the passes
\* and the world go.
CleanExit == dangling # {} => failed

\* The same with an exception.
NothingDangles == dangling = {}

\* Once the client is interrupted, or its window is closed, everything is taken
\* down: unless a frame was rendered to a swapchain that its window had
\* outgrown, which may leave the client waiting for ever, at its next frame but
\* one, at the resize's event or on its way out.
ClientLeaves ==
  /\ interrupted ~> Gone \/ stalled > 0
  /\ (at = "polled" /\ poll_info.should_quit) ~> Gone \/ stalled > 0

\* A session that was ended makes the client quit.
EndedSessionQuits == at = "polled" /\ ended => poll_info.should_quit
=============================================================================
