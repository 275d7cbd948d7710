--------------------------- MODULE WorldHierarchy ---------------------------
(***************************************************************************)
(* The world of one process between two calls of World::update, and        *)
(* World::update itself: entities are created by prefabs and by scripts,   *)
(* adopted on the way, and every update recomputes each WorldTransform     *)
(* along the hierarchy (core/world/World.cc).                              *)
(*                                                                         *)
(* A matrix product is the sequence of its factors: a WorldTransform is    *)
(* the list of the local transforms it was multiplied from, or the         *)
(* transform the physics step made.  EntityIds are numbers because 0 is    *)
(* NullEntity and also the first id the registry hands out.                *)
(***************************************************************************)
EXTENDS Integers, Sequences, FiniteSets, SequencesExt

CONSTANTS
  Entities,            \* ids the registry hands out, in increasing order
  MaxDepth             \* bound on nested prefabs

NullEntity == 0        \* core/world/Entity.h
NoEntity == -1         \* not an id: "nobody", where the code has no value

ASSUME HierarchyAssumption ==
  /\ Entities \subseteq Nat /\ IsFiniteSet(Entities)
  /\ MaxDepth \in Nat

VARIABLES
  live,                \* valid entities
  parent, first_child, prev_child, next_child, child_num,
                       \* the fields of RelationshipComponent
  related,             \* entities with a RelationshipComponent
  transform,           \* entities with a TransformComponent
  rigid_body,          \* entities with a RigidBodyComponent
  world_transform,     \* WorldTransform components: id -> factors
  building,            \* the calls of PrefabAsset::instantiate in progress
  spawning,            \* spawnChild between create() and adopt(): <<self, new>>
  phase,               \* where World::update is
  process_queue,       \* its deque of <<child, parent>>, the back first
  walk,                \* its loop over one entity's children
  visited,             \* ghost: entities this update has processed
  owner                \* ghost: who adopted an entity, NullEntity or not

relVars == <<parent, first_child, prev_child, next_child, child_num>>
components == <<related, transform, rigid_body>>
creating == <<building, spawning>>
updating == <<phase, process_queue, walk, visited>>
vars == <<live, relVars, components, world_transform, creating, updating, owner>>

R == INSTANCE Relationship

NoWalk == [self |-> NoEntity, parent |-> NullEntity, child |-> NoEntity]

Local(e) == <<"local", e>>
Body(e) == <<"body", e>>

Init ==
  /\ R!Init
  /\ related = {} /\ transform = {} /\ rigid_body = {}
  /\ world_transform = <<>>
  /\ building = <<>> /\ spawning = <<>>
  /\ phase = "idle" /\ process_queue = <<>> /\ walk = NoWalk /\ visited = {}
  /\ owner = [e \in Entities |-> NoEntity]

-----------------------------------------------------------------------------
(* Creating entities                                                       *)

\* entt hands out the next id; nothing here destroys an entity.
Create(e) ==
  /\ \A f \in Entities \ live : e <= f
  /\ R!Create(e)

\* A mutant: adopt() emplaces the parent's component again.
AdoptAfresh(p, c) ==
  /\ p \in live /\ c \in live
  /\ parent' = [parent EXCEPT ![p] = NullEntity, ![c] = p]
  /\ first_child' = [first_child EXCEPT ![p] = c]
  /\ child_num' = [child_num EXCEPT ![p] = 1]
  /\ related' = related \cup {p, c}
  /\ owner' = [owner EXCEPT ![c] = p]
  /\ UNCHANGED <<live, prev_child, next_child>>

\* World::adopt
Adopt(p, c) ==
  /\ R!Adopt(p, c)
  /\ related' = related \cup {p, c}
  /\ owner' = [owner EXCEPT ![c] = p]

Mutable == phase = "idle" /\ spawning = <<>>

\* PrefabAsset::instantiate creates the entity and its components.
BeginPrefab(e, hasTransform, hasBody) ==
  /\ Mutable /\ Len(building) < MaxDepth
  /\ Create(e)
  /\ transform' = IF hasTransform THEN transform \cup {e} ELSE transform
  /\ rigid_body' = IF hasBody THEN rigid_body \cup {e} ELSE rigid_body
  /\ building' = Append(building, e)
  /\ UNCHANGED <<related, world_transform, spawning, updating, owner>>

\* ... and returns it to the instantiate() of its parent, which adopts it.
EndPrefab ==
  /\ Mutable /\ building # <<>>
  /\ building' = Front(building)
  /\ IF Len(building) > 1
     THEN Adopt(Last(Front(building)), Last(building))
     ELSE UNCHANGED <<live, relVars, related, owner>>
  /\ UNCHANGED <<transform, rigid_body, world_transform, spawning, updating>>

\* Entity.spawnChild and its variants, called by a script of any entity, also
\* by the constructor of a script of a prefab that is still being built.
SpawnChild(self, e, hasTransform) ==
  /\ Mutable /\ self \in live
  /\ Create(e)
  /\ transform' = IF hasTransform THEN transform \cup {e} ELSE transform
  /\ spawning' = <<self, e>>
  /\ UNCHANGED <<related, rigid_body, world_transform, building, updating, owner>>

AdoptSpawned ==
  /\ spawning # <<>>
  /\ Adopt(spawning[1], spawning[2])
  /\ spawning' = <<>>
  /\ UNCHANGED <<transform, rigid_body, world_transform, building, updating>>

\* Entity.addTransform
AddTransform(e) ==
  /\ Mutable /\ e \in live \ transform
  /\ transform' = transform \cup {e}
  /\ UNCHANGED <<live, relVars, related, rigid_body, world_transform, creating,
                 updating, owner>>

-----------------------------------------------------------------------------
(* World::update                                                           *)

world == <<live, relVars, components, creating, owner>>

\* Clear the WorldTransforms; Physics::update sets those of rigid bodies.
StartUpdate ==
  /\ phase = "idle" /\ building = <<>> /\ spawning = <<>>
  /\ world_transform' = [e \in rigid_body |-> <<Body(e)>>]
  /\ phase' = "free"
  /\ UNCHANGED <<world, process_queue, walk, visited>>

Set(f, e, value) == [d \in DOMAIN f \cup {e} |-> IF d = e THEN value ELSE f[d]]

\* The entities the "free transforms" group holds.
FreeTransforms == transform \ related

\* Process free transforms.  emplace() on an entity that has a WorldTransform
\* already adds a second one, which the next lookup finds.
ProcessFree ==
  /\ phase = "free"
  /\ world_transform' = [e \in DOMAIN world_transform \cup FreeTransforms |->
       IF e \in FreeTransforms THEN <<Local(e)>> ELSE world_transform[e]]
  /\ phase' = "roots"
  /\ UNCHANGED <<world, process_queue, walk, visited>>

RootsAll == related                                           \* a mutant

Roots == {e \in related : ~R!_hasParent(e)}

\* Find all top-level entities, in the order the registry's view has them.
FindRoots ==
  /\ phase = "roots"
  /\ \E order \in SetToSeqs(Roots) :
       process_queue' = [i \in DOMAIN order |-> <<order[i], NullEntity>>]
  /\ phase' = "hierarchy"
  /\ UNCHANGED <<world, world_transform, walk, visited>>

\* A mutant: the parent's own transform is taken for its WorldTransform.
LocalOfParent(p) == IF p = NullEntity THEN <<>> ELSE <<Local(p)>>

ParentTransform(p) == IF p = NullEntity THEN <<>> ELSE world_transform[p]

\* Whom the children of self are placed relative to.
TransformParent(self, parent_id) ==
  IF self \in DOMAIN world_transform' THEN self ELSE parent_id

\* Take the next entity off the queue, multiply its transform with its
\* parent's, and start on its children.
ProcessEntity ==
  /\ phase = "hierarchy" /\ walk = NoWalk /\ process_queue # <<>>
  /\ LET self == Head(process_queue)[1]
         parent_id == Head(process_queue)[2]
     IN  /\ world_transform' =
              IF self \in transform
              THEN Set(world_transform, self,
                       Append(ParentTransform(parent_id), Local(self)))
              ELSE world_transform
         /\ walk' = IF child_num[self] > 0
                    THEN [self |-> self, child |-> first_child[self],
                          parent |-> TransformParent(self, parent_id)]
                    ELSE NoWalk
         /\ visited' = visited \cup {self}
  /\ process_queue' = Tail(process_queue)
  /\ UNCHANGED <<world, phase>>

\* The loop along next_child, until it is back at first_child.
EnqueueChild ==
  /\ walk # NoWalk
  /\ process_queue' = Append(process_queue, <<walk.child, walk.parent>>)
  /\ walk' = IF next_child[walk.child] = first_child[walk.self] THEN NoWalk
             ELSE [walk EXCEPT !.child = next_child[@]]
  /\ UNCHANGED <<world, world_transform, phase, visited>>

EndHierarchy ==
  /\ phase = "hierarchy" /\ walk = NoWalk /\ process_queue = <<>>
  /\ phase' = "done"
  /\ UNCHANGED <<world, world_transform, process_queue, walk, visited>>

\* update() calls the scripts, whose changes are the actions above, and returns.
Return ==
  /\ phase = "done"
  /\ phase' = "idle" /\ visited' = {}
  /\ UNCHANGED <<world, world_transform, process_queue, walk>>

Next ==
  \/ \E e \in Entities, hasTransform, hasBody \in BOOLEAN :
       BeginPrefab(e, hasTransform, hasBody)
  \/ EndPrefab
  \/ \E self, e \in Entities, hasTransform \in BOOLEAN :
       SpawnChild(self, e, hasTransform)
  \/ AdoptSpawned
  \/ \E e \in Entities : AddTransform(e)
  \/ StartUpdate \/ ProcessFree \/ FindRoots
  \/ ProcessEntity \/ EnqueueChild \/ EndHierarchy \/ Return

Spec == Init /\ [][Next]_vars

-----------------------------------------------------------------------------
TypeOK ==
  /\ R!TypeOK
  /\ related \subseteq live /\ transform \subseteq live /\ rigid_body \subseteq live
  /\ DOMAIN world_transform \subseteq live
  /\ \A e \in DOMAIN world_transform :
       world_transform[e] \in Seq({"local", "body"} \X Entities)
  /\ building \in Seq(live) /\ (spawning # <<>> => spawning \in live \X live)
  /\ phase \in {"idle", "free", "roots", "hierarchy", "done"}
  /\ process_queue \in Seq(related \X (related \cup {NullEntity}))
  /\ walk = NoWalk \/ walk \in [self : related, child : related,
                                parent : related \cup {NullEntity}]
  /\ visited \subseteq related
  /\ owner \in [Entities -> Entities \cup {NoEntity}]

Queued == {process_queue[i][1] : i \in DOMAIN process_queue}

\* An update processes no entity twice, whatever the shape of the hierarchy:
\* what waits in the queue waits there once and was not processed before.  So
\* the loop also ends, and by then every entity with a RelationshipComponent
\* has been processed: none is out of reach of the top-level entities.
EachVisitedOnce ==
  /\ Cardinality(Queued) = Len(process_queue)
  /\ Queued \cap visited = {}
  /\ phase = "done" => visited = related

Owners(e) == {owner[e]} \ {NoEntity}

\* Who is in every set that holds e's owner and the owners of its elements.
Ancestors(e) ==
  {a \in Entities : \A S \in SUBSET Entities :
     Owners(e) \subseteq S /\ (\A b \in S : Owners(b) \subseteq S) => a \in S}

\* The closest ancestor with a transform or a rigid body, if there is one.
Anchor(e) ==
  LET moved == Ancestors(e) \cap (transform \cup rigid_body)
  IN  IF moved = {} THEN NoEntity
      ELSE CHOOSE a \in moved : moved \subseteq Ancestors(a) \cup {a}

\* After an update, every entity with a transform is placed relative to the
\* closest entity above it that has a place, and the others are where their
\* rigid body is.
ChildrenFollowParents ==
  phase = "done" =>
    /\ DOMAIN world_transform = transform \cup rigid_body
    /\ \A e \in transform :
         world_transform[e] =
           Append(IF Anchor(e) = NoEntity THEN <<>> ELSE world_transform[Anchor(e)],
                  Local(e))
    /\ \A e \in rigid_body \ transform : world_transform[e] = <<Body(e)>>

\* The children that the loop of World::update finds: first_child, and from
\* there on whatever next_child leads to.
Walked(p) ==
  IF child_num[p] > 0
  THEN {c \in Entities : \A S \in SUBSET Entities :
          first_child[p] \in S /\ (\A e \in S : next_child[e] \in S) => c \in S}
  ELSE {}

F == INSTANCE Forest WITH children <- [p \in Entities |-> Walked(p)]

\* What World::update finds by following links are trees, which only ever grow
\* together: a step creates a root, or makes a root that is not above the parent
\* one more child of it.  Whatever prefabs and scripts adopt, nobody's children
\* are lost or given to somebody else, and no entity comes to be below itself.
ImplementsForest == F!Spec

\* What entt asserts of emplace(), and what an entity with a rigid body and a
\* transform outside any hierarchy violates: the entity has no such component
\* yet.
EmplacedOnce ==
  [][phase = "free" /\ phase' = "roots"
     => FreeTransforms \cap DOMAIN world_transform = {}]_vars
=============================================================================
