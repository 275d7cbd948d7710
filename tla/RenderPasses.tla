----------------------------- MODULE RenderPasses -----------------------------
(***************************************************************************)
(* The two render passes the Renderer creates, as the GPU executes them:   *)
(* four subpasses of the main pass, which draw into images of the          *)
(* viewport, and the composite pass, which reads what came of it.          *)
(*                                                                         *)
(* A subpass goes through four stages.  Stages of different subpasses may  *)
(* overlap or change places unless a subpass dependency, a semaphore or    *)
(* a frame's fence keeps them apart; the images are not per frame.  What   *)
(* Vulkan says of dependencies, layouts, load and store operations and     *)
(* attachments a subpass does not preserve is modelled beside what the     *)
(* code declares.  One viewport; the swapchain's image is left to Frames.  *)
(***************************************************************************)
EXTENDS Integers

CONSTANTS
  FramesInFlight,   \* frames the GPU may be given at a time: two
  MaxFrame          \* frames that are rendered: a bound

ASSUME PassesAssumption == FramesInFlight \in Nat \ {0} /\ MaxFrame \in Nat

VARIABLES
  msaa_enabled,     \* display->getSampleCount() > 1
  done,             \* the stages that have been executed: <<frame, subpass, stage>>
  content           \* image -> <<frame, subpass>> that wrote it last, or
                    \* Undefined(frame) where a frame left nothing in it

passesVars == <<msaa_enabled, done, content>>

\* Stages, in their logical order.
EarlyTests == 1
FragmentShader == 2
LateTests == 3
ColorOutput == 4
Stages == 1 .. 4

\* Renderer::get*Subpass, and the only subpass of the composite pass.
DepthSubpass == 0
OverlaySubpass == 1
ForwardSubpass == 2
TransparentSubpass == 3
CompositeSubpass == 4
MainSubpasses == 0 .. 3
Subpasses == MainSubpasses \cup {CompositeSubpass}

\* The images of a viewport that one pass leaves to the other.
ViewportImages == {"hdr", "overlay"}
NoSubpass == 5
Undefined(f) == <<f, NoSubpass>>

\* What a frame executes.  The composite pass has no depth attachment, so it
\* tests none.
MainStages(f) == {<<f, s, k>> : s \in MainSubpasses, k \in Stages}
CompositeStages(f) == {<<f, CompositeSubpass, k>> : k \in {FragmentShader, ColorOutput}}
StagesUpTo(n) == UNION {MainStages(f) \cup CompositeStages(f) : f \in 1 .. n}

Stage == StagesUpTo(MaxFrame)
-----------------------------------------------------------------------------
(* What the subpasses use.                                                  *)
ColorAttachments(s) ==
  CASE s = OverlaySubpass -> IF msaa_enabled THEN {"overlay_msaa"} ELSE {"overlay"}
    [] s \in {ForwardSubpass, TransparentSubpass} ->
         IF msaa_enabled THEN {"hdr_msaa"} ELSE {"hdr"}
    [] OTHER -> {}

ResolveAttachments(s) ==
  CASE ~msaa_enabled -> {}
    [] s = OverlaySubpass -> {"overlay"}
    [] s = TransparentSubpass -> {"hdr"}
    [] OTHER -> {}

InputAttachments(s) == IF s = CompositeSubpass THEN {"hdr", "overlay"} ELSE {}
DepthAttachments(s) == IF s \in MainSubpasses THEN {"depth"} ELSE {}

Uses(s) == ColorAttachments(s) \cup ResolveAttachments(s) \cup DepthAttachments(s)

\* depth_state.write_enable, as the passes of each phase set it; in the first
\* subpass the attachment is cleared too.
WritesDepth(s) == s \in {DepthSubpass, TransparentSubpass}

Reads(s, stage) ==
  CASE stage \in {EarlyTests, LateTests} -> DepthAttachments(s)
    [] stage = FragmentShader -> InputAttachments(s)
    [] OTHER -> ColorAttachments(s)

Writes(s, stage) ==
  CASE stage \in {EarlyTests, LateTests} /\ WritesDepth(s) -> DepthAttachments(s)
    [] stage = ColorOutput -> ColorAttachments(s) \cup ResolveAttachments(s)
    [] OTHER -> {}

-----------------------------------------------------------------------------
(* What keeps them in order.                                                *)
Dependency(src, dst, srcStage, dstStage) ==
  [src |-> src, dst |-> dst, srcStage |-> srcStage, dstStage |-> dstStage]

\* A mutant: a dependency fewer.
WithoutTransparent ==
  {Dependency(0, 1, LateTests, EarlyTests), Dependency(0, 2, LateTests, EarlyTests),
   Dependency(1, 2, EarlyTests, EarlyTests), Dependency(1, 3, EarlyTests, EarlyTests)}

\* o_d, f_d, f_o, t_f, t_o of the main pass.
Dependencies ==
  {Dependency(0, 1, LateTests, EarlyTests),
   Dependency(0, 2, LateTests, EarlyTests),
   Dependency(1, 2, EarlyTests, EarlyTests),
   Dependency(2, 3, ColorOutput, ColorOutput),
   Dependency(1, 3, EarlyTests, EarlyTests)}

CompositeFromStart == ColorOutput                              \* a mutant
\* c_m: from this stage on, the composite pass comes after the color output of
\* everything submitted before.
CompositeFrom == FragmentShader

\* Stages that come before x = <<f, s, stage>>.  Frames are submitted in order,
\* each when renderFrame has waited for the fence of the one that had its slot
\* before.
Before(x) ==
  LET f == x[1]
      s == x[2]
      stage == x[3]
      logicalOrder ==
        {y \in MainStages(f) \cup CompositeStages(f) : y[2] = s /\ y[3] < stage}
      dependencies ==
        UNION {{<<f, d.src, k>> : k \in 1 .. d.srcStage} :
                 d \in {e \in Dependencies : e.dst = s /\ stage >= e.dstStage}}
      barrier == IF s = CompositeSubpass /\ stage >= CompositeFrom
                 THEN StagesUpTo(f - 1) \cup MainStages(f) ELSE {}
      semaphore == IF s = CompositeSubpass /\ stage = ColorOutput THEN MainStages(f) ELSE {}
      fences == StagesUpTo(f - FramesInFlight)
  IN  logicalOrder \cup dependencies \cup barrier \cup semaphore \cup fences

\* An attachment becomes undefined in a subpass that neither uses nor preserves
\* it (the code preserves none) and depends on one that used it.
Lost(s) ==
  {a \in ViewportImages : a \notin Uses(s)
                  /\ \E d \in Dependencies : d.dst = s /\ a \in Uses(d.src)}

\* The main pass takes its images from VK_IMAGE_LAYOUT_UNDEFINED, whatever was
\* in them, before the first subpass that uses them.
Discarded(s) ==
  {a \in Uses(s) : s \in MainSubpasses /\ \A r \in 0 .. s - 1 : a \notin Uses(r)}

\* VK_ATTACHMENT_STORE_OP_DONT_CARE: the composite pass does not keep what it reads.
NotStored(s, stage) == IF stage = ColorOutput THEN InputAttachments(s) ELSE {}

-----------------------------------------------------------------------------
PassesInit ==
  /\ msaa_enabled \in BOOLEAN
  /\ done = {}
  /\ content = [a \in ViewportImages |-> Undefined(0)]

\* Nothing keeps the stage from being executed.
MayBegin(x) == x \notin done /\ Before(x) \subseteq done

\* Any of these may be the next to come to its end, and any two of them may be
\* executed at the same time.
running == {x \in Stage : MayBegin(x)}

\* What a stage makes of an image.
Effect(f, s, stage, a) ==
  IF a \in Writes(s, stage) THEN <<f, s>>
  ELSE IF \/ stage = EarlyTests /\ a \in Lost(s) \cup Discarded(s)
          \/ a \in NotStored(s, stage)
  THEN Undefined(f)
  ELSE content[a]

ExecuteStage(x) ==
  /\ MayBegin(x)
  /\ done' = done \cup {x}
  /\ content' = [a \in ViewportImages |-> Effect(x[1], x[2], x[3], a)]
  /\ UNCHANGED msaa_enabled

PassesNext == \E x \in Stage : ExecuteStage(x)

PassesSpec == PassesInit /\ [][PassesNext]_passesVars
-----------------------------------------------------------------------------
Conflict(x, y) ==
  LET wx == Writes(x[2], x[3])
      wy == Writes(y[2], y[3])
  IN  (wx \cap (wy \cup Reads(y[2], y[3]))) \cup (wy \cap Reads(x[2], x[3]))

\* Two subpasses of a frame never use a color image at the same time, if one of
\* them writes it, nor does anything else test or write depth while the depth
\* prepass fills the depth image.
ColorAccessesOrdered ==
  \A x, y \in running :
    x[1] = y[1] /\ x[2] < y[2]
      => Conflict(x, y) \subseteq IF x[2] = DepthSubpass THEN {} ELSE {"depth"}

\* The composite pass reads the HDR image as the transparent subpass of its
\* frame left it, or as another frame in flight with it did, since nothing
\* orders their main passes: never what its own frame had drawn by halves or
\* not stored, and never anything of a frame that was over when it began.
CompositeReadsForward ==
  \A f \in 1 .. MaxFrame : MayBegin(<<f, CompositeSubpass, FragmentShader>>)
    => \/ content["hdr"] = <<f, TransparentSubpass>>
       \/ /\ content["hdr"][1] # f
          /\ content["hdr"][1] \in 1 .. MaxFrame
          /\ content["hdr"][1] > f - FramesInFlight
          /\ content["hdr"][1] < f + FramesInFlight

\* The composite pass combines forward and overlay: it reads the overlay as the
\* overlay subpass of its frame drew it.
OverlayReachesComposite ==
  \A f \in 1 .. MaxFrame : MayBegin(<<f, CompositeSubpass, FragmentShader>>)
    => content["overlay"] = <<f, OverlaySubpass>>

\* Frames in flight do not use a color image at the same time, if one of them
\* writes it.
FramesKeptApart ==
  \A x, y \in running : x[1] # y[1] => Conflict(x, y) \subseteq {"depth"}

\* The forward subpass compares with the depth the prepass left: nothing
\* changes it meanwhile.
ForwardSeesPrepass ==
  \A x, y \in running :
    x # y /\ x[1] = y[1] /\ x[2] = ForwardSubpass => Conflict(x, y) = {}
=============================================================================
