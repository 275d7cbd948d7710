------------------------------- MODULE DrawLists -------------------------------
(***************************************************************************)
(* What the mesh pass and the overlay pass put into a frame's buffers and  *)
(* command lists, and what the GPU finds there when it executes the frame, *)
(* which may be after the next frame has begun.  Buffers grow by being     *)
(* replaced (GpuVector, GpuBuffer); a descriptor names the buffer it was   *)
(* updated with, and as much of it as there was.  The pools of vertices    *)
(* and indices do not grow, and nobody looks whether a mesh fits.          *)
(*                                                                         *)
(* That a slot is only begun again when the GPU is through with it is      *)
(* shown in Frames.                                                        *)
(***************************************************************************)
EXTENDS Naturals, Sequences, SequencesExt, FiniteSets

CONSTANTS
  Renderers,        \* entities with a MeshRendererComponent and a WorldTransform
  Materials,        \* material assets
  Meshes,           \* mesh assets
  VertexNum,        \* mesh -> number of its vertices
  IndexNum,         \* mesh -> number of its indices
  PoolSize,         \* elements of either pool: 1024 * 1024
  Transparent,      \* materials with enable_blend
  DoubleSided,      \* materials with is_double_sided
  FrameSlots,       \* frames in flight
  MaxLights,        \* point lights in the world: a bound
  MaxChanges,       \* changes of the world: a bound
  MaxOverlayLines,  \* lines of the UI in a frame, and of the overlay pass: a bound
  IndexBits         \* width of DebugDrawList::Index, 16 in the code

ASSUME DrawAssumption ==
  /\ VertexNum \in [Meshes -> Nat \ {0}] /\ IndexNum \in [Meshes -> Nat \ {0}]
  /\ PoolSize \in Nat /\ IndexBits \in Nat /\ 2 ^ IndexBits \in Nat
  /\ MaxLights \in Nat /\ MaxOverlayLines \in Nat

VARIABLES
  renderers,        \* what each renderer whose assets are loaded shows
  point_lights,     \* number of PointLightComponents
  vertex_pool,      \* the mesh each vertex that was written belongs to
  index_pool,       \* the mesh each index that was written belongs to
  first_available_vertex,
  first_available_index,
  mesh_assets,      \* the loaded meshes: where they are in the pools
  slots,            \* frame_data of MeshPass
  changes,          \* how often the world has changed
  drawing,          \* the slot whose frame is being begun, if any
  to_draw,          \* renderers the loop of MeshPass::beginFrame has not come to
  frame_materials,  \* its local lists
  frame_meshes,
  shown,            \* per slot, what the world showed when the frame was begun
  overlay_enabled,  \* CVar "enabled" of the overlay pass
  debug_draw,       \* lines in OverlayPass::_debug_draw
  index_count,      \* frame.index_count of the frame that was begun last
  ui_updated,       \* ui.update has returned, the frame may be rendered
  lines_due,        \* lines ui.update has drawn since the overlay drew any
  lines_drawn       \* lines the frame that was begun last has to draw

poolVars == <<vertex_pool, index_pool, first_available_vertex, first_available_index, mesh_assets>>
worldVars == <<renderers, point_lights, poolVars, changes>>
overlayVars == <<overlay_enabled, debug_draw, index_count, ui_updated, lines_due, lines_drawn>>
drawVars == <<worldVars, slots, drawing, to_draw, frame_materials, frame_meshes, shown,
              overlayVars>>

Shows == [mesh : Meshes, material : Materials]
-----------------------------------------------------------------------------
(* GpuVector over GpuBuffer.                                                *)
NewVector == [buffer |-> 1, size |-> 1, data |-> <<>>]

Larger(needed, size) == IF needed > 2 * size THEN needed ELSE 2 * size

WriteData(vector, data) ==
  IF Len(data) > vector.size
  THEN [buffer |-> vector.buffer + 1, size |-> Larger(Len(data), vector.size), data |-> data]
  ELSE [vector EXCEPT !.data = data \o SubSeq(@, Len(data) + 1, Len(@))]

\* GpuDescriptorSet::updateStorageBuffer, and what a shader may read by it.
Describe(vector) == [buffer |-> vector.buffer, range |-> vector.size]
Reaches(descriptor, vector, idx) ==
  /\ descriptor.buffer = vector.buffer
  /\ idx < descriptor.range /\ idx < Len(vector.data)
-----------------------------------------------------------------------------
(* MeshPass::beginFrame                                                     *)
NoCommands == [single_sided |-> <<>>, double_sided |-> <<>>]
NoLists == [forward |-> NoCommands, transparent |-> NoCommands]

NewSlot == [material_buffer |-> NewVector, mesh_buffer |-> NewVector, light_buffer |-> NewVector,
            material_descriptor |-> Describe(NewVector), mesh_descriptor |-> Describe(NewVector),
            light_descriptor |-> Describe(NewVector), commands |-> NoLists]

ListOf(material) == IF material \in Transparent THEN "transparent" ELSE "forward"
SideOf(material) == IF material \in DoubleSided THEN "double_sided" ELSE "single_sided"

\* material_assets: a material has one index and one set of textures per frame.
MaterialIndex(materials, m) ==
  IF Contains(materials, m) THEN (CHOOSE i \in DOMAIN materials : materials[i] = m) - 1
  ELSE Len(materials)

Clear(commands) == NoLists

\* Lights are written, lists emptied.
MeshPassBegins(s) ==
  /\ drawing' = {s} /\ to_draw' = DOMAIN renderers
  /\ frame_materials' = <<>> /\ frame_meshes' = <<>>
  /\ slots' = [slots EXCEPT
       ![s].light_buffer = WriteData(@, [n \in 1 .. point_lights |-> "light"]),
       ![s].commands = Clear(@)]
  /\ shown' = [shown EXCEPT ![s] =
       {[renderer |-> e, mesh |-> renderers[e].mesh, material |-> renderers[e].material,
         lights |-> point_lights] : e \in DOMAIN renderers}]

\* One renderer of the group: its material, its mesh uniform, its command.
AddRenderer(s, e) ==
  LET show == renderers[e]
      idx == MaterialIndex(frame_materials, show.material)
      materials == IF idx < Len(frame_materials) THEN frame_materials
                   ELSE Append(frame_materials, show.material)
      asset == mesh_assets[show.mesh]
      cmd == [mesh_idx |-> Len(frame_meshes), textures |-> materials[idx + 1],
              vertex_offset |-> asset.vertex_offset, index_offset |-> asset.index_offset,
              index_num |-> asset.index_num]
  IN  /\ to_draw' = to_draw \ {e}
      /\ frame_materials' = materials
      /\ frame_meshes' = Append(frame_meshes, [model |-> e, light_count |-> point_lights,
                                               material_idx |-> idx])
      /\ slots' = [slots EXCEPT
           ![s].commands[ListOf(show.material)][SideOf(show.material)] = Append(@, cmd)]

DescribedBefore(old, new) == Describe(old)                     \* a mutant
\* The descriptors are updated after the buffers have been written.
Described(old, new) == Describe(new)

MeshPassWrites(s) ==
  LET old == slots[s]
      materialBuffer == WriteData(old.material_buffer, frame_materials)
      meshBuffer == WriteData(old.mesh_buffer, frame_meshes)
  IN  /\ to_draw = {} /\ drawing' = {} /\ frame_materials' = <<>> /\ frame_meshes' = <<>>
      /\ slots' = [slots EXCEPT ![s] =
           [@ EXCEPT !.material_buffer = materialBuffer, !.mesh_buffer = meshBuffer,
                     !.material_descriptor = Described(old.material_buffer, materialBuffer),
                     !.mesh_descriptor = Described(old.mesh_buffer, meshBuffer),
                     !.light_descriptor = Describe(old.light_buffer)]]
-----------------------------------------------------------------------------
(* OverlayPass::beginFrame                                                  *)
Cleared(lines) == 0

\* The lines ui.update has drawn, in this frame and in those that were not
\* rendered, and those of grid, transforms, lights and pointers.  A list that is
\* not enabled is neither drawn nor cleared.
OverlayBegins(own) ==
  LET lines == debug_draw + own
  IN  \/ /\ overlay_enabled
         /\ index_count' = (2 * lines) % 2 ^ IndexBits /\ debug_draw' = Cleared(lines)
         /\ lines_drawn' = lines_due + own /\ lines_due' = 0
         /\ UNCHANGED <<overlay_enabled, ui_updated>>
      \/ /\ ~overlay_enabled
         /\ index_count' = 0
         /\ UNCHANGED <<overlay_enabled, debug_draw, ui_updated, lines_due, lines_drawn>>
-----------------------------------------------------------------------------
DrawInit ==
  /\ renderers = [e \in {} |-> 0] /\ point_lights = 0
  /\ changes = 0 /\ vertex_pool = <<>> /\ index_pool = <<>>
  /\ first_available_vertex = 0 /\ first_available_index = 0 /\ mesh_assets = [a \in {} |-> 0]
  /\ drawing = {} /\ to_draw = {} /\ frame_materials = <<>> /\ frame_meshes = <<>>
  /\ slots = [s \in FrameSlots |-> NewSlot] /\ shown = [s \in FrameSlots |-> {}]
  /\ overlay_enabled \in BOOLEAN /\ debug_draw = 0
  /\ index_count = 0 /\ ui_updated = FALSE /\ lines_due = 0 /\ lines_drawn = 0

\* Renderer::transferDataToBuffer, which waits until the copy is done.
Transferred(pool, num, a) == pool \o [n \in 1 .. num |-> a]

\* What is copied to places behind the end of a pool is lost, or it overwrites
\* other buffers, and may be the pools themselves.
Spoilt == [n \in 1 .. PoolSize |-> "unknown"]
Overrun(pool, num, a) ==
  {SubSeq(Transferred(pool, num, a), 1, Min({Len(pool) + num, PoolSize})), Spoilt}

\* MeshAsset::_load allocates from the pools, which are not given back, and
\* copies its vertices and indices there.
LoadMesh(a) ==
  LET asset == [vertex_offset |-> first_available_vertex,
                index_offset |-> first_available_index, index_num |-> IndexNum[a]]
      fits == /\ first_available_vertex + VertexNum[a] <= PoolSize
              /\ first_available_index + IndexNum[a] <= PoolSize
  IN  /\ a \notin DOMAIN mesh_assets
      /\ mesh_assets' = [b \in DOMAIN mesh_assets \cup {a} |->
                           IF b = a THEN asset ELSE mesh_assets[b]]
      /\ first_available_vertex' = first_available_vertex + VertexNum[a]
      /\ first_available_index' = first_available_index + IndexNum[a]
      /\ \/ /\ fits
            /\ vertex_pool' = Transferred(vertex_pool, VertexNum[a], a)
            /\ index_pool' = Transferred(index_pool, IndexNum[a], a)
         \/ /\ ~fits
            /\ vertex_pool' \in Overrun(vertex_pool, VertexNum[a], a)
            /\ index_pool' \in Overrun(index_pool, IndexNum[a], a)
      /\ UNCHANGED <<renderers, point_lights>>

\* MeshRendererComponent::refresh, and the components that come and go.
Refresh(e, show) ==
  /\ show.mesh \in DOMAIN mesh_assets
  /\ renderers' = [f \in DOMAIN renderers \cup {e} |-> IF f = e THEN show ELSE renderers[f]]
  /\ UNCHANGED <<point_lights, poolVars>>

Disappear(e) ==
  /\ e \in DOMAIN renderers
  /\ renderers' = [f \in DOMAIN renderers \ {e} |-> renderers[f]]
  /\ UNCHANGED <<point_lights, poolVars>>

LightsChange(n) ==
  /\ n # point_lights /\ point_lights' = n
  /\ UNCHANGED <<renderers, poolVars>>

\* The world changes between frames.
Changed ==
  /\ changes < MaxChanges /\ changes' = changes + 1 /\ drawing = {}
  /\ UNCHANGED <<slots, drawing, to_draw, frame_materials, frame_meshes, shown, overlayVars>>

\* ui.update, in every frame that runs.  A frame need not be rendered.
UiUpdates(lines) ==
  /\ drawing = {} /\ ui_updated' = TRUE
  /\ debug_draw' = debug_draw + lines /\ lines_due' = lines_due + lines
  /\ UNCHANGED <<worldVars, slots, drawing, to_draw, frame_materials, frame_meshes, shown,
                 overlay_enabled, index_count, lines_drawn>>

\* renderFrame, after the ui.update of the same frame: the beginFrame of the passes.
BeginDrawing(s) ==
  /\ drawing = {} /\ ui_updated /\ MeshPassBegins(s)
  /\ ui_updated' = FALSE /\ index_count' = 0 /\ lines_drawn' = 0
  /\ UNCHANGED <<worldVars, overlay_enabled, debug_draw, lines_due>>

DrawRenderer(s, e) ==
  /\ s \in drawing /\ e \in to_draw /\ AddRenderer(s, e)
  /\ UNCHANGED <<drawing, shown, worldVars, overlayVars>>

EndDrawing(s) ==
  /\ s \in drawing /\ MeshPassWrites(s)
  /\ \E own \in 0 .. MaxOverlayLines : OverlayBegins(own)
  /\ UNCHANGED <<to_draw, shown, worldVars>>

DrawNext ==
  \/ \E a \in Meshes : LoadMesh(a) /\ Changed
  \/ \E e \in Renderers : \E show \in Shows : Refresh(e, show) /\ Changed
  \/ \E e \in Renderers : Disappear(e) /\ Changed
  \/ \E n \in 0 .. MaxLights : LightsChange(n) /\ Changed
  \/ \E lines \in 0 .. MaxOverlayLines - debug_draw : UiUpdates(lines)
  \/ \E s \in FrameSlots : \/ BeginDrawing(s) \/ EndDrawing(s)
                           \/ \E e \in Renderers : DrawRenderer(s, e)

DrawSpec == DrawInit /\ [][DrawNext]_drawVars
-----------------------------------------------------------------------------
\* MeshPass::renderViewport and executeMeshCommands
ListDrawn(phase) == IF phase = "transparent" THEN "transparent" ELSE "forward"
Executed(s, phase) ==
  LET list == slots[s].commands[ListDrawn(phase)] IN list.single_sided \o list.double_sided

\* What a draw command draws: the shader finds the transform, the material and
\* the lights in the buffers.
Drawn(s, cmd) ==
  LET uniform == slots[s].mesh_buffer.data[cmd.mesh_idx + 1]
  IN  [renderer |-> uniform.model, mesh |-> index_pool[cmd.index_offset + 1],
       material |-> slots[s].material_buffer.data[uniform.material_idx + 1],
       lights |-> uniform.light_count]

\* A mesh's elements are in the pool, at their place.
InPool(pool, offset, num, a) ==
  offset + num <= Len(pool) /\ \A n \in 1 .. num : pool[offset + n] = a

\* All of the mesh's triangles, with the vertices they index.
WholeMesh(cmd, a) ==
  /\ cmd.index_num = IndexNum[a] /\ InPool(index_pool, cmd.index_offset, cmd.index_num, a)
  /\ InPool(vertex_pool, cmd.vertex_offset, VertexNum[a], a)

InReach(s, cmd) ==
  /\ Reaches(slots[s].mesh_descriptor, slots[s].mesh_buffer, cmd.mesh_idx)
  /\ LET uniform == slots[s].mesh_buffer.data[cmd.mesh_idx + 1]
     IN  /\ Reaches(slots[s].material_descriptor, slots[s].material_buffer, uniform.material_idx)
         /\ \A n \in 0 .. uniform.light_count - 1 :
              Reaches(slots[s].light_descriptor, slots[s].light_buffer, n)

\* Whatever was loaded when a frame was begun is drawn by it, once in each phase
\* of its material, with its own transform, material, textures, vertices, indices
\* and lights; it is found in buffers that exist and through descriptors that
\* reach it, although the buffers grow and keep what earlier frames have written.
FramesDrawn ==
  \A s \in FrameSlots \ drawing : \A phase \in {"depth", "forward", "transparent"} :
    LET cmds == Executed(s, phase)
        due == {d \in shown[s] : ListOf(d.material) = ListDrawn(phase)}
    IN  /\ \A n \in DOMAIN cmds :
             /\ InReach(s, cmds[n]) /\ cmds[n].textures = Drawn(s, cmds[n]).material
             /\ WholeMesh(cmds[n], Drawn(s, cmds[n]).mesh)
        /\ Len(cmds) = Cardinality(due)
        /\ {Drawn(s, cmds[n]) : n \in DOMAIN cmds} = due

\* All meshes that were ever loaded have fitted in the pools.
PoolsHold == first_available_vertex <= PoolSize /\ first_available_index <= PoolSize

\* A frame's overlay draws each line that was drawn since the overlay of the
\* frame rendered before, once: those of frames that were not rendered in
\* between too, none that was rendered already, all of them while their indices
\* can be counted.
LinesDrawnOnce ==
  overlay_enabled /\ 2 * lines_drawn < 2 ^ IndexBits => index_count = 2 * lines_drawn

\* As long as the pools hold all meshes, what a frame's command lists and buffers
\* make the GPU draw is what the world showed when the frame was begun; and the
\* overlay draws each line in one frame, whichever frames are rendered.
DrawnAsShown == (PoolsHold => FramesDrawn) /\ LinesDrawnOnce
=============================================================================
