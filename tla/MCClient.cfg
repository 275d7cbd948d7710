SPECIFICATION ClientSpec
CONSTANTS
  FrameCount = 2
  ImageCount = 2
  EyeCount = 2
  FramesInFlight = 2
  MaxFrame = 2
  HeadsetViews = 2
  MaxEvents = 6
  Renderers = {r1, r2}
  Materials = {m1, m2}
  Meshes = {a1, a2}
  Transparent = {m2}
  DoubleSided = {m2}
  FrameSlots = {0, 1}
  VertexNum <- MCVertexNum
  IndexNum <- MCIndexNum
  PoolSize = 4
  MaxLights = 2
  MaxChanges = 4
  MaxOverlayLines = 2
  IndexBits = 3
  SpokeCounts = {3, 4, 5, 6}
  FirstVertices = {0, 5}
  PanelCounts = {1, 2}
  MaxStyles = 2
  MaxScripts = 3
  Prefabs = 2
  MaxScripted = 4
  MaxCalls = 3
  MaxPasses = 2
INVARIANTS
  ReusedBehindFence
  ColorAccessesOrdered
  CompositeReadsForward
  RenderedViewportsExist
  FramesInRunningSession
  CleanExit
  DrawnAsShown
  ShapesAreWhole
  IdsDenoteTheirObjects
  CallbacksHaveTheirObject
  ScriptsUpdatedOnce
  WorldScriptFindsWorld
PROPERTIES
  ImplementsPipeline
  FramesFinish
  ClientLeaves
CHECK_DEADLOCK FALSE
