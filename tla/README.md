# Mondradiko: a verification project

Mondradiko is a shared virtual world: a domain *server* keeps a world of
entities, *clients* connect to it over GameNetworkingSockets, load the same
asset bundles and see the world's updates. This directory holds TLA+ models of
the program's core logic, TLC configurations that check them, and proofs of
what matters most for every instance. All definitions follow the C++ source;
`PROJECT.json` maps each of them to the lines it stands for.

## The system

| Part | State | Operations | Talks to |
|---|---|---|---|
| Domain server (`core/network/NetworkServer.cc`, `server/server_main.cc`) | table of clients by `ClientId`, event queue, poll group | status callbacks, `receiveEvents`, `onJoinRequest`, `onAvatarUpdate`, `sendQueuedEvents`, shutdown | clients (messages), world (avatars, snapshots), filesystem (checksums) |
| Network client (`core/network/NetworkClient.cc`) | `ClientState`, connection handle, event queue | status callbacks, `requestJoin`, `updateAvatar`, `receiveEvents`, flush, `disconnect` | server, world (`processEvent`), UI (announcements) |
| Avatars (`core/avatars`) | an entity with a pointer and a transform | serialize, deserialize | both ends |
| Entity hierarchy (`RelationshipComponent`, `World::adopt`, `World::orphan`) | ring of siblings, first child and counter per entity | `_adopt`, `_orphan` | prefabs, scripts, `World::update` |
| World (`core/world/World.cc`) | entt registry of components | `update`, `processEvent`, spawn operations | everything above |
| World synchronization (`WorldEventSorter.cc`, `World::updateComponents`) | snapshots, client copies of components | serialize all components, create and overwrite on the client | server, client |
| Physics (`core/physics`) | Bullet bodies | `update`, body destruction | world |
| Scripts (`core/scripting`) | wasm instances, object registry, static objects, component scripts | instantiate, update, bind, pin, look up, spawn | world, UI, assets |
| Assets (`core/filesystem`, `core/assets`) | bundles, lump cache, pool, aliases | load registry, load lump, hash check, decompress, load asset | everything |
| Client program (`client/client_main.cc`) | the objects of `run()`, the interrupt | build, loop, leave, unwind | displays, renderer, world, UI, network client |
| Displays (`core/displays`) | OpenXR or SDL session, viewports, swapchains | poll, begin, end frame; acquire, release | renderer, client program, the runtime or the windowing system |
| Renderer (`core/renderer/Renderer.cc`) | frames in flight, semaphores, fences, render passes | `renderFrame`, add and destroy frames | displays, passes, the GPU |
| Passes (`MeshPass`, `OverlayPass`, `core/gpu`) | growing buffers, descriptors, command lists per frame | `beginFrame`, `renderViewport`, write data | world, assets, renderer |
| UI (`core/ui`) | panels, styles, the UI script, draw lists | load and bind the script, callbacks, draw shapes | scripts, displays (input), renderer |
| Bundler (`bundler`, `converter`) | lumps in the making, their threads, aliases | convert the manifest's assets, pack, compress and write lumps, write the registry | bundle files |
| CVars (`core/cvars`), code generators | a tree of values; generated bindings | parse | everything |

What is hard in it:

- **concurrency**: the program has one main loop per process, but the network
  library has its own thread, and the GPU and whoever shows the images run beside
  it. A connection can be lost between any two calls;
  the program learns of it by a callback that waits until it is dispatched.
- **ordering**: messages of one connection are ordered, callbacks and messages
  are not ordered with each other; the server expands an event for "all
  clients" when it flushes, not when it is queued.
- **failure**: peers die, joins are denied halfway, the server is interrupted
  in any state, scripts trap after their entity was created, lumps are bad; a
  bundler may be killed, or rewrite the bundle a program is reading.
- **reuse**: frame data, swapchain images and object ids are used again; what
  they were used for before must be over.
- **nesting**: a script that is called may call the engine, which calls scripts,
  while components are being iterated over or the script is being exchanged.
- **linked data**: the hierarchy lives in entity ids of five fields per
  component, moved several at a time by `adopt`, and 0 is both "none" and the
  first id.

What makes each part correct:

- *session*: one table entry per connection; an entry goes with its connection
  and with its avatar; only matching clients join; every avatar has one owner,
  or is the leftover of a denial; eligible clients do join, others are denied.
- *hierarchy*: each parent's children form one ring, complete and counted; what
  following the links leads to are trees.
- *world update*: every entity of the hierarchy is processed once, after its
  parent, and placed relative to it.
- *synchronization*: a client shows the last snapshot it received, and what it
  shows beyond it is its own or left behind by what the server destroyed.
- *scripts*: an object id names the object it was given for; a script's objects
  are pinned while the engine points to them; each script is updated once a pass.
- *assets*: no asset comes from a lump whose size or hash was wrong when it was
  checked, and an id gives the asset it names; a finished bundle loads; an asset
  has one object, with its references; loading terminates.
- *client program*: nothing is used after its destruction; an interrupt ends it,
  unless the GPU was made to wait for an image it was refused.
- *displays, renderer*: frames are begun and ended in pairs, in states that
  allow it; nothing in flight is reused; what a pass reads has been written.
- *passes*: a frame draws what the world showed when it was begun, as long as the
  pools hold all meshes; a line of the overlay is drawn in one frame.

## Modules

```
NetworkSession  -- implements -->  Membership          NetworkSession_proofs
    (server, clients, library)                          
WorldHierarchy  -- implements -->  Forest              WorldHierarchy_proofs
    (prefabs, scripts, update)
    -- uses -->  Relationship   (adopt, orphan)        Relationship_proofs
WorldSync  -- uses -->  EntityRegistry                 WorldSync_proofs
    (broadcasts, client's copy)   (entt's ids)
AssetBundle  -- extends -->  AssetBundleBuilder        AssetBundle_proofs
    (registry, lumps, loadAsset)  (bundler, threads)
AssetPool                                              AssetPool_proofs
    (load, prefabs, materials)
Frames  -- implements -->  FramePipeline               Client_proofs
    (renderFrame, GPU, images)
RenderPasses    (subpasses, frames in flight)          Client_proofs
ClientLoop      (run(), both displays)                 Client_proofs
DrawLists       (mesh pass, overlay pass, buffers)     Client_proofs
UiScripts       (panels and their script)              Scripts_proofs
WorldScripts    (component scripts, world script)      Scripts_proofs
UiShapes        (circles and rings)                    Client_proofs
MCClient  -- the seven above side by side
MCSession, MCHierarchy, MCRelationship, MCSync, MCBundle, MCPool:
    values of the constants for TLC
```

Definitions whose comment says *mutant* are small plausible bugs, one for each
property; putting one in the place of the definition it varies makes TLC find
that property violated. No specification uses them.

### NetworkSession

One server and a set of client processes. A client calls `connect()` once, so a
connection is named by its client. `spc` and `cpc` say where the main loops are
(`world`, `callbacks`, `receive`); the loops are cut wherever the library's
thread can come between: one dispatched callback, one received message, one
flush. Actions carry the names of the handlers. Three things are fused: a flush
with the end of the receive loop before it, `updateAvatar` with the client's
flush, and a run of `AvatarUpdate` messages, of which the second does what the
first did.

The server's world is here `pose`: the avatar entities and who moved them
last. `event_queue` keeps the destination and either the number of a snapshot
or whom an announcement welcomes. The server never sends `AssignClientId`, so
`ClientState` is `Disconnected` or `Connecting` for ever.

GameNetworkingSockets is external and modelled from its use: each end of a
connection has a state (`clientEnd`, `serverEnd`), status callbacks of one
connection are dispatched in the order of its states, messages are reliable and
in order, either end may be lost at any time (`ServerLost`, `ClientLost`), and a
closed handle delivers nothing more.

`Membership` is what the server promises whatever the network does: a client
arrives, may become a member with a body nobody else has, may leave, and never
comes back; only eligible clients become members. `NetworkSession` implements it
through the mapping at its end (a client's phase is read off the table).

### Relationship

The component's five fields as functions over entity ids; an entity without the
component has the values its constructor would give. `Orphan` and `Adopt` are
`World::orphan` and `World::adopt` for *every* pair of entities, though the
program today calls `adopt` only for fresh children and never calls `orphan`:
this is the contract of the data structure.

### WorldHierarchy

A process's world between updates (`BeginPrefab`, `EndPrefab`, `SpawnChild`,
`AdoptSpawned`, `AddTransform`) and `World::update` step by step: clear and
physics, free transforms, top-level entities, then the queue, with the loop over
an entity's children cut after each child. A matrix product is kept as the
sequence of its factors, so `world_transform` says exactly which transforms, in
which order, placed an entity. `owner` and `visited` are ghosts: who really
adopted an entity, and what this update has processed. Ids are handed out in
increasing order, as entt does while nothing is destroyed; no code path destroys
an entity of the hierarchy.

`Create` and `Adopt` are those of `Relationship` by definition, so that the links
change in no other way is no result; what they come to is. `Forest` says what the
links stand for: a set of children for each entity, that only grows, and only by a
root that is not above its new parent. `WorldHierarchy` implements it with
`Walked` for the children: those the loop of `World::update` meets, from
`first_child` along `next_child`.

### EntityRegistry and WorldSync

`EntityRegistry` is entt's registry (vendored, in one header), as far as the world
uses it: `create()`, `create(hint)` and `destroy()`. An id is an index
and a version; destroyed indices wait in a list, the last one first, and are
handed out with the next version. `IsRegistry` is its type.

`WorldSync` has two of them. The server (`ServerSpawn`, `AvatarArrives`,
`ServerWrite`, `AvatarLeaves`) changes entities and components as prefabs,
scripts and visitors do, and `Broadcast` sends all synchronized components, by
type (`WorldEventSorter`). The client takes a message (`ReceiveWorldUpdate`,
which is `processEvent`) and writes it one component at a time
(`UpdateComponent`: `EnsureEntity` is the `valid`/`create` pair,
`WriteComponent` the `writeData` or `emplace`). The loop is cut there to state
what holds inside it, not because anything may come between: the client's other
steps wait for `Idle`. On an SDL display the client has made its avatar before
it connects; this is `local`, which is empty with a headset. A client with a
server has no world script (`--world-script` needs `--serverless`). Components
are kept by *index*, since entt's pools ignore versions. What a component holds
is a value of `Data`, or `LocalData` when the client wrote it. `latest`, `named`
and `departed` are ghosts: the last message, every id named so far, every id the
server has destroyed. The messages travel in order and none is lost, as
`NetworkSession` says of one connection.

### AssetBundleBuilder and AssetBundle

`AssetBundleBuilder` is the bundler: `StartBundler`, `ConvertAsset` for each
asset a converter hands over (`Refused` and `Packing` are the two halves of
`addAsset`), `BuildBundle`, the finalizer threads (`FinalizeLump` up to where the
file is opened and emptied, `WriteLump` for the rest; for each lump that was
launched, in any order and beside the conversion), `WriteRegistry`, and
`Interrupt`, which kills it anywhere and leaves cut short what was being written.
An asset stands for its bytes; ids, sizes and references are functions of it.
An asset turned away for its length leaves `asset_id` unset, so any id may be
found there.

`AssetBundle` extends it with a program that loads the bundle from the same
directory: `loadRegistry` one turn of a loop at a time (`RegisterAsset`,
`CacheLump`, `ValidateLump`, `ValidateHash`), then `loadAsset`: `LoadAsset` from a
lump that was read before, or `CheckSize`, `CheckHash` and `Decompress` for one
that was not. `AssetLump` opens the file anew for each of these three, and bundler
and program are two processes that interleave freely, so the file may be another
one each time. A file that is open for writing has been emptied (`CutShort`); to
decompress one gives any size and none of the bytes (`Garbled`), or throws. A
lump's 64-bit hash
is taken to be different for different contents, the 32-bit ids of assets are
not. The checksum of a lump that could not be compressed was never set and is
taken to fit no file. `fresh`, `untouched` and `raced` are ghosts: whether the
files were whole when loading began, whether a bundler has run since, and which
lumps' files were written between their last hash and their reading.

### AssetPool

`AssetPool::load` and the loads it makes itself: `stack` is the stack of calls,
`LoadReference` the next turn of the loop in `PrefabAsset::_load`, or the next
texture of `MaterialAsset::_load`, and `Hit`, `Refuse`, `FailToRead`, `Begin`
and `Finish` the ways through `load`. Whether reading succeeds is open each
time, since `AssetBundle` says it may change. `PoolAssumption` says that assets
refer to older assets only; the builder sees to it, as an asset's bytes hold the
ids of its references and its id is a hash of its bytes. A collision of hashes
with an id, or an id that was never set, is what it excludes.

### Frames and FramePipeline

`Frames` is `renderFrame` cut wherever something else can come between: the
fence, the main submission, each viewport's acquire, the composite submission,
each release. Beside it run the GPU (`StartSubmission` in order,
`FinishSubmission` for the oldest, so submissions overlap but signal in order)
and whoever shows the images (`SignalAcquire`, `Show`, `StopReading`), which is
external and modelled from what Vulkan and OpenXR promise. A window that is
resized has a swapchain out of date until it is polled (`Resize`,
`RecreateViewport`). Semaphores are sets of who is signalled; commands are kinds
and slots. `FramePipeline` is what pipelining promises: slots are taken in turn,
none before its last frame is through, and frames finish in order. A slot is in
flight (`InFlight`) from its fence's reset to its signal, and `Ahead` says which of
two such frames was begun first.

### RenderPasses

The two render passes as the GPU executes them: each subpass goes through four
stages, and a stage may begin (`MayBegin`) when what `Before` names is done - the
declared dependencies, the semaphore, the fence of the frame that had the slot
before, and no more. All stages that may begin may also be `running` at the same
time, of whatever frame; `ExecuteStage` is the next of them to come to its end.
`Uses`, `Reads` and `Writes` are the attachments of the subpasses. What a stage
makes of an image (`Effect`) includes what is `Discarded` by the main pass's
layouts, `NotStored` by the composite pass, and `Lost` because a subpass neither
uses nor preserves it. The images belong to the viewport, not to a frame, so two
frames in flight use the same ones.

### ClientLoop

`run()` of `client_main.cc`: the objects in the order they are built, any of
whose constructors may throw (`Throw`); the loop with `pollEvents` one event at
a time, for a window (`SdlEvent`) and for a headset (`XrEvent`),
`BeginDisplayFrame`, `Frame` and `SubmitFrame`; and the way out, `LeaveLoop` and
`Destruct` for each object, youngest first. `Window`, `Outgrow`, `Interrupt` and
`Runtime` are what happens outside; `RuntimeMay` is the state machine of an OpenXR
session. `dangling` collects what is reached after its destruction.

A window may outgrow its swapchain before the event that says so is polled
(`outgrown`). Acquiring an image may then fail, which `SdlViewport` does not look
at; the frame is submitted to wait for a semaphore nobody signals. `stalled`
counts such frames and those behind them: with two, the next `renderFrame` waits
for its fence for ever, and from the first on whatever waits for the device does
(`DeviceIdles`): a viewport's destruction, the end of the loop, the destructors.

### DrawLists

What the mesh pass writes for a frame. `BeginDrawing` writes the lights and
empties the lists, each `DrawRenderer` is one turn of the loop over the renderers
(in any order: that of an entt group is not fixed), with the loop's local lists
in `frame_materials` and `frame_meshes`, and `EndDrawing` writes the buffers,
which are replaced when they grow, and the descriptors, which name a buffer and
its size at the time; the overlay pass then has its lines (`OverlayBegins`).
`drawing` is the slot whose frame is being begun. `UiUpdates` comes before, in
every frame that runs: `renderFrame` need not follow, and then the lines it has
drawn stay in the list. Between frames the world changes: meshes are loaded into
the pools, renderers appear, change and go. The pools of vertices and indices are
as long as `PoolSize`, which nobody compares with: what is copied behind their end
is lost or spoils what is there (`Overrun`). `Drawn` follows a command through the
buffers and the pools as the shader does, at any time until the slot is begun
again.

### UiShapes

`drawCircle` and `drawRing` write vertices backwards over the spokes they read,
and make triangles from the vertex remembered last. Memory is kept in cells of
two floats.

### UiScripts and WorldScripts

`UiScripts` is the user interface's script: `loadUiScript`, `bindUiScript` for
each panel, the construction of its object with any calls of the script to the
engine in between (`createGlyphStyle`), callbacks, the exchange of the script,
and the end. `registry` is `ScriptEnvironment`'s, which gives ids out again;
`script[n].ids` remembers what script `n` was told each id is. Pins are the
collector's counters. A script uses ids it was given.

`WorldScripts` has the scripts of components and the world script. `calls` is
the stack of calls into scripts; a script inside a call may spawn scripted
entities (`Spawn`), whose constructors run before it goes on. `BeginPass`,
`UpdateScript` and `EndPass` are the update, over what the view held when it
began. `environment`, `host` and `static_world` are the world script's
environment, the world's pointer to it and its own to the world, on the way in
and out. What spawning does to the hierarchy is in `WorldHierarchy`.

### MCClient

The parts of the client program are checked by one run, side by side: `part`
chooses the one that moves, the others stay as they began. They are separate
because they share no variables: `ClientLoop` calls `renderFrame`, which is
`Frames`; that a slot of `DrawLists` is only begun again when the GPU is through
with it is what `Frames` shows; `RenderPasses` takes its fence and semaphore from
it. The parts are extended, so that the run checks the very properties that the
theorems state of `Spec`, `PassesSpec`, `LoopSpec`, `DrawSpec`, `ShapeSpec`,
`UiSpec` and `ScriptsSpec`.

## What TLC checks

| Run | Configuration | Shows |
|---|---|---|
| `session` | 2 clients (one with the server's lumps, one with the same in another order), 2 avatars, no snapshots | `NoGhostClients`, `AvatarOwnership`, `JoinedClientsMatch`, `AvatarsAccountedFor`, `ClosedHandleUnused`, and that the table implements `Membership` |
| `session_live` | 1 client, 2 snapshots, fairness | `EligibleClientsJoin`, `ClosedClientsLeave`, `SnapshotsInOrder` |
| `relationship` | 4 entities, interchangeable | `SiblingLinks`, `ChildCount`, `OneRing` |
| `hierarchy` | ids 1..4, prefabs nested 3 deep, every choice of transforms and bodies | `EachVisitedOnce`, `ChildrenFollowParents`, and that the world implements `Forest` |
| `sync` | 2 indices and 2 versions on the server, the client's avatar, 2 types, 2 values, 2 broadcasts | `SnapshotShown`, `OnlyLeftovers`, `LocalIdsStay` |
| `bundle` | 5 assets, two of which share an id, one too long, one with a reference; lumps of size 3; 2 runs of the bundler; LZ4; a loader with room for 2 lumps and 2 assets in each | `AssetsHaveTheirIds`, `IntactBundlesServe`, `BuiltBundlesLoad`, `ExportsServe` |
| `pool` | 3 prefabs, a material, 2 textures, a missing id, fairness | `OneObjectPerAsset`, `ReferencesResolved`, `LoadsReturn` |
| `client` | see below | frames: `ReusedBehindFence`, `FramesFinish`, and that they implement `FramePipeline`; passes: `ColorAccessesOrdered`, `CompositeReadsForward`; loop: `RenderedViewportsExist`, `FramesInRunningSession`, `CleanExit`, `ClientLeaves`; lists: `DrawnAsShown`; shapes: `ShapesAreWhole`; UI: `IdsDenoteTheirObjects`, `CallbacksHaveTheirObject`; world: `ScriptsUpdatedOnce`, `WorldScriptFindsWorld` |
| `material_loaded` | as `pool` | *violation* of `MaterialsIncludeTextures` |
| `null_entity` | ids 0..2 | *violation* of `ChildrenFollowParents` |
| `hint_used` | 1 index on the server, the client's avatar | *violation* of `HintUsed` |
| `frames_image` | 2 frames, 2 images, 2 viewports | *violation* of `CompositedIntoAcquired` |

The `client` run has 2 frames in flight, 2 images in a swapchain and 2 viewports
on a headset; both frames of `RenderPasses` in flight; 6 events of a headset or 4
of a window, and 2 views in `ClientLoop`; 2 renderers and materials, one of them
transparent and double sided, 2 meshes of which one has more vertices and the
other more indices, pools of 4, 2 lights, 4 changes of the world, 2 lines and an
index of 3 bits in `DrawLists`; 3 to 6 spokes; 1 or 2 panels, 2 styles and 3
scripts; 2 prefabs, 4 scripted entities, calls 3 deep and 2 passes. The mesh
pass's lists and the overlay's lines, which share nothing but the frame, move one
at a time.

Why these bounds are enough. Entries of the client table meet only through ids,
avatars and the queue, so two clients show every conflict of two entries; the
second one's denial also makes the avatar pool run through both ways out of
`onJoinRequest`. Two snapshots are the fewest that can come in the wrong order.
Four entities give a ring of three siblings, whose middle is neither first nor
second, with a parent to move from and, with fewer children, one to move to;
they also give hierarchies of depth four. `MaxClientId` equals the clients that
can be in the table; `MaxSnapshots` and `MaxDepth` bound counters and nesting.
In `sync`, two indices let one be used again while the other stays, two versions
are one reuse, and two broadcasts are a message and one that must replace it;
what the server does after its last broadcast reaches nobody and is cut off. Two
types are one that avatars have and one that only lasting entities have.
In `bundle`, assets of length 1, 3 and 4 and lumps of 3 give lumps that are
filled, closed early and never begun; a compressed lump may be longer or shorter
than its contents; the second run of the bundler is the one that leaves files of
two builds. More than 2 lumps, or 2 assets in one, pass the builder and not the
loader. In `pool`, the outermost prefab meets an asset for the first time, in the
pool, missing, and of another type, and an inner one makes the stack three deep.

In `client`: a second frame in flight is what the first can be confused with,
and a third would be its successor again; the proofs say so for any number. The
two frames of `RenderPasses` are both in flight, as the code always has two; that
nothing of a frame that was over is read takes a third frame to show, and is left
to the proof. A pool of 4 holds one mesh or, for the shorter of its vertices or
indices, both, so meshes fit, or overrun one pool or the other. Six events take a session to
`focused`, or through `stopping` to its end. Two changes make
a buffer grow after a frame has used it, four let every kind of change come
between two frames of a slot. Two lines are one of a frame that is not
rendered and one of the next. `drawCircle` and `drawRing` run with 64 spokes in
the code; from 3 on every overlap of a spoke with a vertex occurs. Three scripts
are a load, a reload and a reload that fails; with two styles ids are given out
again. Three calls deep is a script constructed by one that is constructed
by one that is updated.

Deadlock is off where a program may stop for good: a client that has exited, a
server that was interrupted, and the parts of `client` that come to an end
(in `Frames` and `ClientLoop`, also one whose acquire signalled nothing because
its swapchain was out of date).

Fairness (`FairSpec`). Both programs run their loops, which the code does
unconditionally until they are interrupted; a flush or a dispatched callback
needs weak fairness, receiving needs strong fairness because the loop leaves and
re-enters the receive phase. The network carries a handshake (weak fairness of
`Network`) and notices a peer that closed. Nothing is assumed that makes a
client connect or quit, the server stop, a snapshot fall due or a connection
fail. A `load` that has begun goes on (weak fairness of its steps in `AssetPool`):
it runs in one thread and waits for nothing.

In the `client` run the client's loop goes on (`RenderFrame`, `ClientSteps`), the
driver executes what it was given (`Gpu`) and images are shown and released
(`Shower`), each weakly fair: none of them is disabled and enabled again by
another before it has moved. `FramesFinish` is claimed of a window that is not
resized: with a swapchain out of date `vkAcquireNextImageKHR` signals no
semaphore, the code waits for it all the same, and the frame never finishes. For
the same reason fairness does not make `renderFrame` or `vkDeviceWaitIdle` return:
`SubmitFrame`, `SdlEvent`, `LeaveLoop` and `Destruct` are disabled where they would
wait for such a frame, and `ClientLeaves` says that an interrupted client ends *or*
has submitted a frame that can never finish (`stalled`). Copies into the pools wait
for the queue too; a client that is held up there has `stalled` set already.

What the violations show. `null_entity`: the registry's first id is 0, which is
`NullEntity`. The root of a server's first initial prefab has it, so its
children have a `parent` field that reads "none": `World::update` queues them as
top-level entities as well, and gives them their local transform only.
`hint_used`: a visitor
leaves, its avatar's index is used again, and the client has another entity
there, its own or the old one. `create(hint)` then makes a third one, against
the comment beside the call. `SnapshotShown` says that the component is shown all
the same, by way of the index. `material_loaded`: `MaterialAsset::isLoaded` is said to
include the textures and asks for the albedo texture alone. If another texture
could not be read, the material is drawn, and the null handle of that texture is
followed. `frames_image`: the composite commands take the framebuffer of the
image acquired a frame ago, since they are recorded before the acquire; another
image is handed back and shown.

Some definitions say what the code does *not* guarantee, and no run checks them.
`EmplacedOnce` (`WorldHierarchy`): an entity with a rigid body and a transform
that is in no hierarchy is given a `WorldTransform` by physics and once more by
`emplace` for the free transforms, which entt forbids; in `ChildrenFollowParents`
the transform wins, as it does in a build without assertions. In `RenderPasses`,
`OverlayReachesComposite` (no subpass preserves the overlay image, which the
forward subpass after it may make undefined), `FramesKeptApart` (the images are
not per frame, and nothing orders the main passes of two frames, so
`CompositeReadsForward` has to allow the other frame's result),
`ForwardSeesPrepass` (the transparent subpass writes depth and waits for the
forward subpass's color only). In `ClientLoop`,
`NothingDangles` (an exception skips `destroyFrameData`, so the renderer calls
passes that have gone) and `EndedSessionQuits` (a later state in the same poll
overrides one that asks to quit; `ClientLeaves` speaks of what the poll decides at
its end, and does not catch this). In `WorldScripts`, `HostIsAlive` (an
environment whose constructor throws leaves its pointer in the world). The
properties that are checked say when all is well: without an exception, within
one frame, of the color images, for meshes that fit, for files that stay as they
are between a check and its use. Each module has a type invariant, which its runs
were checked with while they were written; those of `Relationship` and
`AssetPool`, and `OneIdPerConnection`, are proved.

What the passing runs say about known hazards: a lump that fails its check stays
in the cache and the next load skips the check (`LoadAsset`, the last two cases),
and `AssetsHaveTheirIds` holds all the same because no data was read;
`IntactBundlesServe` says that it happens only to files changed under the
program. The hash is not taken of the bytes that are kept: a lump that a bundler
rewrites after `assertHash` and before `decompress` is served unchecked, with
another asset's bytes under an id, which `AssetsHaveTheirIds` has to except
(`raced`). `ClosedHandleUnused` says that the handle `onDisconnect` forgets to
clear is neither received nor sent on; `disconnect()` does close it a second time,
which the library refuses. The bundler ignores that an asset was turned away, but exports only
names it knows (`ExportsServe`); it does not know the loader's limits on lumps
and assets, which `BuiltBundlesLoad` has to except.

## What TLAPS proves

| Theorem | States, for every value of the constants | Assumes |
|---|---|---|
| `TypesHold`, `SiblingsStayLinked`, `ChildrenAreCounted`, `ChildrenFormOneRing` (`Relationship_proofs`) | `TypeOK`, `SiblingLinks`, `ChildCount`, `OneRing` | finitely many entities, none with id `NullEntity` |
| `OneId`, `NoGhosts`, `AvatarsAreOwned`, `OnlyMatchingJoin`, `ClosedHandlesRest`, `OneLeftPerDenial` (`NetworkSession_proofs`) | `OneIdPerConnection`, `NoGhostClients`, `AvatarOwnership`, `JoinedClientsMatch`, `ClosedHandleUnused`, `AvatarsAccountedFor` | the named assumption |
| `SnapshotsAreInOrder` (`NetworkSession_proofs`) | `SnapshotsInOrder` | the named assumption |
| `NobodyForgotten` (`NetworkSession_proofs`) | `NobodyIsForgotten`: what `EligibleClientsJoin` takes for granted of every state | the named assumption |
| `TableIsMembership` (`NetworkSession_proofs`) | the session implements `Membership` | the named assumption |
| `WorldImplementsForest`, `WorldKeepsSiblings` (`WorldHierarchy_proofs`) | the world implements `Forest`; its sibling links hold | 0 is not an entity |
| `UpdateVisitsOnce`, `UpdatePlacesChildren` (`WorldHierarchy_proofs`) | `EachVisitedOnce`, `ChildrenFollowParents` | 0 is not an entity |
| `LocalIdsSurvive`, `BroadcastsAreShown`, `OnlyAvatarsAreLeft` (`WorldSync_proofs`) | `LocalIdsStay`, `SnapshotShown`, `OnlyLeftovers` | the named assumption |
| `IdsServed`, `IntactServe`, `FinishedLoad`, `AliasesServe` (`AssetBundle_proofs`) | `AssetsHaveTheirIds`, `IntactBundlesServe`, `BuiltBundlesLoad`, `ExportsServe` | the named assumption |
| `PoolTypes`, `AssetsAreShared`, `ReferencesAreResolved` (`AssetPool_proofs`) | `TypeOK`, `OneObjectPerAsset`, `ReferencesResolved` | assets refer to older ones |
| `FramesReusedBehindFence` (`Client_proofs`) | `ReusedBehindFence` | there are frames, images and viewports |
| `FramesArePipelined` (`Client_proofs`) | the frames implement `FramePipeline` | there are frames, images and viewports |
| `SubpassesKeepApart`, `CompositeHasHdr` (`Client_proofs`) | `ColorAccessesOrdered`, `CompositeReadsForward` | the named assumption |
| `AlwaysViewports`, `FramesNeedSession`, `ExitIsClean` (`Client_proofs`) | `RenderedViewportsExist`, `FramesInRunningSession`, `CleanExit` | the named assumption |
| `FramesDrawWhatIsShown` (`Client_proofs`) | `DrawnAsShown` | a mesh has vertices and indices, the bounds are natural |
| `CirclesAndRingsAreWhole` (`Client_proofs`) | `ShapesAreWhole` | at least three spokes |
| `ScriptsAreUpdatedOnce`, `WorldScriptHasItsWorld` (`Scripts_proofs`) | `ScriptsUpdatedOnce`, `WorldScriptFindsWorld` | nothing |
| `IdsStayTrue`, `CallbacksAreServed` (`Scripts_proofs`) | `IdsDenoteTheirObjects`, `CallbacksHaveTheirObject` | numbers of panels are natural |

That 0 is not an entity is needed: the run `null_entity` shows that with an
entity 0 its children are left where they are.

*Hierarchy.* The invariant is the conjunction of the four properties, each of
which needs the others: unlinking a child is right only if its neighbours link
back to it (`Linked`), the new first child is a child only if the ring goes on
beyond it (`Connected`), and the counter says which case of `_adopt` applies
(`Counted`). `Connected` says that a nonempty set of children closed under
`next_child` is all of them; it is a first-order substitute for "the walk meets
everybody", so it can be proved of any number of entities. `adopt` orphans and
then links, and `Rings` is the invariant as a predicate on the five fields, so
that the state in between can be spoken of.

*Session.* `NoGhostClients` is not inductive. `Callbacks` adds what the waiting
callbacks of a connection say about its end, and `Settled` that an entry of the
table has at most "Closed" waiting; then a lost connection always has the
callback that removes its entry. `AvatarOwnership` is inductive on top of it.
`JoinedClientsMatch` also says that no joined client was ever denied; it follows
once the denied are known not to match (`DeniedDoNot`), since what a client has
loaded does not change. `ClosedHandleUnused` needs to know that no callback
waits on a closed connection: one would set the state that update() tests.
`AvatarsAccountedFor` compares two numbers. Every handler leaves the unowned
avatars and the denied spectators as they are, but for one: a denial adds one to
each, if the client was not denied before. It was not, because it asks once:
`AskedOnce` follows the one join request through the client's callbacks, its
queue and the connection, and says that nothing was denied before it arrived.
For the refinement, `Mapped` spells out which member of `Membership` a client is,
from the table and its connection; each handler then is a step of `Membership` or
leaves all members as they are. `OrderInv` orders the snapshots by where they
are: what a client has applied is no newer than what is on its way to it, and that
no newer than what the server has queued, each queue in order, and all of it at
most `snapshots`.

`EligibleClientsJoin` rests on a fact of every state, `NobodyIsForgotten`, defined
beside its proof: while neither end of its connection is lost, a client with the
right lumps that is connected is joined, or the callback that makes it ask, its
request in the client's queue or its request on the wire is there; and the
welcome of a joined client was displayed, or is queued or on the wire. It needs
that the poll group and the table agree (a message of a connection without an
entry would be dropped) and that the whole queue goes to every entry
(`WholeQueue`). What stays with TLC is that what exists is handled.

*World.* Every action changes the hierarchy by `create`, by `adopt` or not at
all (`StepsAreRelationship`, a lemma that follows from the definitions); what is
proved of `Relationship` then holds here by instantiating its proofs. That the
world implements `Forest` takes more: by the rings, what is reached from
`first_child` along `next_child` is everybody whose parent this is
(`WalkFindsKids`); the program adopts children that are roots of trees no parent
of theirs is in (`Rooted`: what is being built or spawned has no parent yet, and
parents are older, `Built`); and `adopt` then leaves all other walks as they were.

*World update.* `EachVisitedOnce` needs the rings. `Downward` says that whoever
is in the queue came by its parent, and that the children of a processed entity
have all been enqueued, but for those of the walk along `next_child`; `Walking`
says that the walk has enqueued the ring from the first child to the one before
its own. When the walk comes back to the first child, what it has enqueued is
closed under `next_child`, so it is all the children, as there is one ring only;
and a child that was enqueued before would be behind the walk. No entity is
missed: one that was missed would have a missed parent, and parents are older
(`Built`), so there would be no oldest. `ChildrenFollowParents` adds to this what
the queue says of each entity (`Aimed`: the second part of an element is the
closest ancestor that has a place, or none) and what has been placed so far
(`Worked`: a place is written once, after the one it is relative to). `Ancestors`
is the least set closed under owners rather than a recursive function, so that
both TLC and the proofs can use it; that an entity's ancestors are its owner and
the owner's ancestors is proved (`AncestorsUp`).

*Synchronization.* First, `create`, `create(hint)` and `destroy` are shown to
keep a registry sound and every other id valid; `LocalIdsStay`
follows. `SnapshotShown` speaks of the end of the loop only, so `WrittenInv`
says the same of what the loop has written so far. It is kept because two
components of one message never share an index (`OneEach`), and that holds
because a message lists entities valid at one moment (`ServerInv`), which in
turn needs the server's pools to hold valid entities only. `OnlyLeftovers` holds
because each component of a broadcast is in every later one and on the server
(`Follows`), unless its entity was destroyed in between; only avatars are, and
those have no component but a transform (`AvatarsOnlyMove`).

*Bundles.* The builder adds up sizes to place assets, the loader adds up sizes
to find them, and between them are files that a later run, a failure or a kill
may have changed. `Laid` gives a list of offsets for the assets of a lump: in
the builder's lumps it ends with `total_size` (`Sound`); for each entry of a
registry such a list exists (`Coherent`), so the loader's `asset_offset` is an
element of it (`Offset`), and what has been looked up is where the list says, in
the only lump that has the entry's checksum (`Placed`). What is read
of a lump has that checksum, unless the file was written since it was hashed
(`Whole`): this gives `AssetsHaveTheirIds` without a word on who wrote the file
before. `IntactBundlesServe` and `BuiltBundlesLoad` need that
a bundle the bundler has finished is whole (`RegistrySound`), hence that what was
hashed has been written (`Written`), and that it stays so while no bundler runs.
`ExportsServe` needs that ids are given once (`OnceInLumps`), for then every id of
the registry is looked up.

*Pool.* `OneObjectPerAsset` needs `Pending` (what is being loaded is not in the
pool), and that needs `Climb`: each asset on the stack is older than those that
wait for it, so a load never comes round to itself. `ReferencesResolved` needs
to know of every call on the stack what its references so far became
(`Underway`) and that it waits for the one above it (`Waiting`).

*Frames.* `ReusedBehindFence` speaks of the moment a frame is recorded, so
`FencesInv` follows the fence: a signalled fence has no commands of its frame
left (`FenceTells`), which holds because the composite commands are the last of
their frame in the queue (`CompositeLast`) and carry the fence; between its reset
and their submission nothing can signal it (`Unfenced`). The refinement follows:
a slot is taken behind its fence, so it is not in flight, and the frame that
finishes is the oldest, because among composite commands the GPU takes the first.
The order of frames is a relation (`Ahead`) rather than a sequence, so that no
step of the argument selects frames from the queue.

*Passes.* `Waited` says that whatever runs or has run has waited for what it
comes after; `ColorAccessesOrdered` follows for each two subpasses that share an
image, along the dependencies between them. `CompositeReadsForward` is about the
last writer, so `HdrLast` follows the image: after a frame's transparent subpass
has drawn, the image is its result until its composite pass is done, or belongs to
another frame. That one was not over when this began, by the fences, and this one
is not over before it, for the same reason; and it has drawn to the end, or was
in flight when it lost the image.

*Client loop.* A headset's states come through a queue, and a poll may find any
number of them. `LastReport` ties the runtime's state to the newest report,
polled or not, and `Begun` says that from "ready" on the session has been begun or
will be when its report is polled: so a poll that ends in a state to render in has
begun the session (`Framing`), and that asked for the views (`Viewing`).
`CleanExit` needs what `run()` has built at each of its steps (`BuiltSoFar`) and
that without an exception nothing is registered when the destructors run
(`LetGoInTime`).

*Draw lists.* `DrawnAsShown` looks through commands, indices, buffers and the
pools at once, and all of them grow. `Listed` says that lists of commands
draw a set of things, each once, given the pools and two lists of uniforms;
what makes it inductive is that it stays true when any of them has more put
behind it (`ListedMore`), since indices and offsets only point at what was there.
While the loop runs it holds of the local lists and the renderers the loop has
come to (`BeingListed`): a turn adds a renderer that is not in the set, so the
number of commands and the set grow by one together (`ListedOneMore`). `EndDrawing`
puts the local lists at the front of buffers that may hold more from earlier
frames (`WriteDataHolds`), so it holds of the buffers from then on (`Ready`), until
the slot is begun again, however many meshes are loaded in between
(`ChangedKeeps`). A descriptor made after the last write reaches all of its buffer
(`DrawnIs`). All this holds under `PoolsHold`, which is false for good once it is
false, since nothing is given back (`ListsInv`). For the overlay, a list that is
enabled holds exactly the lines drawn since the last frame that was rendered
(`OverlayInv`).

*Shapes.* `Vertices` says which spokes are still in front and which have become
vertices: a spoke is written to cells behind all that have not been read. `Made`
says what the triangles so far are and what is remembered of the last. A finished
disk or ring then is explicit, and `EdgeOf` turns "these triangles have this edge"
into equations between numbers of vertices; with two spokes two of them would
have the same solutions, with three or more they have not.

*World scripts.* A pass walks an array to which constructors and updates append.
`PassInv` says what is due behind the iterator and before it; it holds because a
script that may not be updated yet (its constructor is running) lies behind the
iterator or is not due, and that because a script is constructed once
(`CallsFit`). `HostInv` ties the world's host, the environment and its static
world together along `run()`.

*UI scripts.* Ids are given out again as soon as they are free, so
`IdsDenoteTheirObjects` needs to know that what frees ids never frees one the
running script knows: `Known` says that the script knows panels bound to it and
their styles only, `StylesOwned` that a style belongs to one panel, and binding
a panel frees the styles of a panel that is not bound yet. `StoredApart` says
what `storeInRegistry` does: its loop takes the first free entry, which exists
by the least-number principle (`FirstRemoved`).
`CallbacksHaveTheirObject` follows what a panel points to: it is an object of its
script, pinned once, and of no other panel (`ThisPinned`), but for the panel
whose constructor runs, which has the one of the script before (`Building`);
whatever is pinned is some panel's (`PinsHeld`), whatever is registered a panel or
a style of one (`Covered`), so that destroying the panels leaves nothing. `Alive`
says which of the two scripts of an exchange each panel belongs to, and that
both live until all panels are bound.

Only model-checked:

- liveness: `EligibleClientsJoin`, `ClosedClientsLeave`, `LoadsReturn`,
  `FramesFinish`, `ClientLeaves`, as leads-to under fairness is out of the
  prover's reach. Of the first, `NobodyForgotten` proves what does not need
  fairness.

## Not modelled, and the plan

What is left, in this order:

1. Bundles in more detail: initial prefabs, several bundles with ids in common,
   errors of decompression.
2. Transfers of images with their layouts (`transferDataToImage`), and the
   creation of pipelines by a pass as formats change.
3. The pointer of the UI: rays, hovering and selecting as panels come and go.

Left out for good: CVars (a tree read once from a file: parsing), the code
generators, what the converters compute (vertices, images, text), Bullet's
simulation, layout of text and glyph images, camera movement and input of both
displays, shaders, and the creation of Vulkan instances and devices (sequences of
calls that may throw, as `ClientLoop` lets every constructor). `sendTestEvent`
has no caller, nothing sends a `SpawnEntity` event, `onUpdateScripts` is empty,
interrupts of scripts have no caller, and nothing reads the transform authority
flag. Contents of announcements, logging and the fields of poses are data no
property tells apart.
