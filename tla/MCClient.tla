------------------------------- MODULE MCClient -------------------------------
(***************************************************************************)
(* The parts of the client program, each on a small instance.  They are    *)
(* checked side by side: a behaviour moves one of them, the others stay    *)
(* where they began.  They meet where one module's comment names another.  *)
(***************************************************************************)
EXTENDS Frames, RenderPasses, ClientLoop, UiScripts, WorldScripts, UiShapes,
        DrawLists

VARIABLE part

\* Meshes of different sizes, the longer one of fewer vertices.
MCVertexNum == CHOOSE f \in [Meshes -> 1 .. 3] : \A a, b \in Meshes : a # b => f[a] # f[b]
MCIndexNum == [a \in Meshes |-> 4 - MCVertexNum[a]]

allVars == <<part, vars, passesVars, loopVars, drawVars, shapeVars, uiVars,
             scriptVars>>
-----------------------------------------------------------------------------
\* A part that does not move has been set up in one way.
Still ==
  /\ part # "frames" => display = "sdl" /\ ~queue_stall /\ ~resizable
  /\ part # "passes" => ~msaa_enabled
  /\ part # "loop" => device = "sdl"
  /\ part # "overlay" => ~overlay_enabled
  /\ part # "shapes" => shape = "ring" /\ spokeCount = 3 /\ first_index = 0
  /\ part # "ui" => Len(panels) = 1

ClientInit ==
  /\ part \in {"frames", "passes", "loop", "lists", "overlay", "shapes", "ui", "world"}
  /\ FramesInit /\ PassesInit /\ LoopInit /\ DrawInit
  /\ ShapeInit /\ UiInit /\ ScriptsInit
  /\ Still

\* A window has fewer kinds of events than a headset, and needs fewer of them.
MaxWindowEvents == 4

FramesMove(A) ==
  /\ part = "frames" /\ A
  /\ UNCHANGED <<part, passesVars, loopVars, drawVars, shapeVars, uiVars,
                 scriptVars>>
PassesMove ==
  /\ part = "passes" /\ PassesNext
  /\ UNCHANGED <<part, vars, loopVars, drawVars, shapeVars, uiVars,
                 scriptVars>>
LoopMoves(A) ==
  /\ part = "loop" /\ A /\ (device = "sdl" => given' <= MaxWindowEvents)
  /\ UNCHANGED <<part, vars, passesVars, drawVars, shapeVars, uiVars,
                 scriptVars>>
\* The lists of meshes and the overlay's share nothing but the frame: each is
\* looked at while the other one rests.
ListsMove ==
  /\ DrawNext
  /\ \/ part = "lists" /\ debug_draw' = debug_draw
     \/ part = "overlay" /\ changes' = changes
  /\ UNCHANGED <<part, vars, passesVars, loopVars, shapeVars, uiVars,
                 scriptVars>>
ShapesMove ==
  /\ part = "shapes" /\ ShapeNext
  /\ UNCHANGED <<part, vars, passesVars, loopVars, drawVars, uiVars,
                 scriptVars>>
UiMoves ==
  /\ part = "ui" /\ UiNext
  /\ UNCHANGED <<part, vars, passesVars, loopVars, drawVars, shapeVars,
                 scriptVars>>
WorldMoves ==
  /\ part = "world" /\ ScriptsNext
  /\ UNCHANGED <<part, vars, passesVars, loopVars, drawVars, shapeVars, uiVars>>

ClientNext ==
  \/ FramesMove(Next) \/ PassesMove \/ LoopMoves(LoopNext) \/ ListsMove \/ ShapesMove
  \/ UiMoves \/ WorldMoves

\* The fairness of Frames and of ClientLoop.
ClientSpec ==
  /\ ClientInit /\ [][ClientNext]_allVars
  /\ WF_allVars(FramesMove(RenderFrame)) /\ WF_allVars(FramesMove(Gpu))
  /\ WF_allVars(FramesMove(Shower)) /\ WF_allVars(LoopMoves(ClientSteps))
=============================================================================
