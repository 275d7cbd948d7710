------------------------------- MODULE AssetPool -------------------------------
(***************************************************************************)
(* The assets a program has in use.  AssetPool::load gives out a handle to *)
(* the one object made of an asset, and makes it when there is none: it    *)
(* reads the asset and lets it load the assets it refers to, so load calls *)
(* itself.  An object enters the pool when all of that is done.            *)
(*                                                                         *)
(* Reading an asset may fail (AssetBundle says when); the pool does not    *)
(* remember that, and tries again the next time.  Objects stay until the   *)
(* program ends.  An id that reaches load may come from a prefab, a        *)
(* component, a script's alias or an initial prefab: here it is any, and   *)
(* Absent has NullAsset among others.                                      *)
(***************************************************************************)
EXTENDS Naturals, Sequences

CONSTANTS
  Kinds,            \* assets::AssetType
  Assets,           \* ids of the assets in the loaded bundles
  KindOf,           \* asset -> type
  Refs,             \* asset -> the references it holds, in order
  Absent,           \* ids that are asked for and in no bundle
  Initialized,      \* types given to initializeAssetType
  Dummies,          \* those of which this process makes dummies that load
                    \* nothing: meshes, materials and textures on a server
  Rank              \* asset -> when its bundle was given it

Ids == Assets \cup Absent
Reference == [id : Ids, kind : Kinds, slot : {"child", "albedo", "other"}]

\* An asset holds ids that were handed out before it was serialized
\* (ConvertAsset of AssetBundleBuilder).
ASSUME PoolAssumption ==
  /\ Assets \cap Absent = {}
  /\ KindOf \in [Assets -> Kinds]
  /\ Refs \in [Assets -> Seq(Reference)]
  /\ Rank \in [Assets -> Nat]
  /\ \A id \in Assets : \A k \in DOMAIN Refs[id] :
       Refs[id][k].id \in Assets => Rank[Refs[id][k].id] < Rank[id]

VARIABLES
  pool,             \* AssetPool::pool: id -> number of the object
  objects,          \* the assets loaded so far: their ids and their handles
  stack,            \* calls of load that are loading references, innermost last
  handles,          \* the handles load has returned to the rest of the program
  unread            \* ghost: ids whose asset could not be read, once at least

vars == <<pool, objects, stack, handles, unread>>

Init ==
  pool = <<>> /\ objects = <<>> /\ stack = <<>> /\ handles = {} /\ unread = {}

\* A handle is the number of an object, or 0.
Null == 0

Top == stack[Len(stack)]
Pop == SubSeq(stack, 1, Len(stack) - 1)

\* The references _load goes through.
ToLoad(id) == IF KindOf[id] \in Dummies THEN <<>> ELSE Refs[id]

\* load returns: to the caller, or to the load that called it.
Return(id, handle, frames) ==
  IF frames = <<>>
  THEN /\ stack' = <<>>
       /\ handles' = IF handle = Null THEN handles
                     ELSE handles \cup {[id |-> id, object |-> handle]}
  ELSE /\ stack' = [frames EXCEPT ![Len(frames)].refs = Append(@, handle)]
       /\ UNCHANGED handles

\* A mutant: whatever is in the pool is of the type asked for.
HitAnyKind(kind, id) ==
  id \in DOMAIN pool /\ Return(id, pool[id], stack) /\ UNCHANGED <<pool, objects, unread>>

\* The pool has the asset.
Hit(kind, id) ==
  /\ id \in DOMAIN pool
  /\ Return(id, IF KindOf[id] = kind THEN pool[id] ELSE Null, stack)
  /\ UNCHANGED <<pool, objects, unread>>

\* Whether load can make an object of it: the type is initialized, a bundle
\* has the asset, and it is of that type.
Loadable(kind, id) == kind \in Initialized /\ id \in Assets /\ KindOf[id] = kind

\* A mutant: load tries again until it can be made.
Retry(kind, id) == id \notin DOMAIN pool /\ ~Loadable(kind, id) /\ UNCHANGED vars

Refuse(kind, id) ==
  /\ id \notin DOMAIN pool /\ ~Loadable(kind, id)
  /\ Return(id, Null, stack)
  /\ UNCHANGED <<pool, objects, unread>>

\* Its lump is damaged, or the object refuses what is in it.
FailToRead(kind, id) ==
  /\ id \notin DOMAIN pool /\ Loadable(kind, id)
  /\ Return(id, Null, stack)
  /\ unread' = unread \cup {id}
  /\ UNCHANGED <<pool, objects>>

\* A mutant: the pool is not asked first.
BeginAnyway(kind, id) ==
  /\ Loadable(kind, id)
  /\ stack' = Append(stack, [id |-> id, refs |-> <<>>])
  /\ UNCHANGED <<pool, objects, handles, unread>>

\* It is read, and its _load begins.
Begin(kind, id) ==
  /\ id \notin DOMAIN pool /\ Loadable(kind, id)
  /\ stack' = Append(stack, [id |-> id, refs |-> <<>>])
  /\ UNCHANGED <<pool, objects, handles, unread>>

Load(kind, id) ==
  Hit(kind, id) \/ Refuse(kind, id) \/ FailToRead(kind, id) \/ Begin(kind, id)

\* Any part of the program asks for an asset.
Call == stack = <<>> /\ \E kind \in Kinds, id \in Ids : Load(kind, id)

\* _load asks for the next asset its own refers to.
LoadReference ==
  /\ stack # <<>> /\ Len(Top.refs) < Len(ToLoad(Top.id))
  /\ LET ref == ToLoad(Top.id)[Len(Top.refs) + 1] IN Load(ref.kind, ref.id)

\* pool.emplace keeps what is there; the handle is that of the new object.
Emplaced(id, object) ==
  [x \in DOMAIN pool \cup {id} |-> IF x \in DOMAIN pool THEN pool[x] ELSE object]

\* _load is done.
Finish ==
  /\ stack # <<>> /\ Len(Top.refs) >= Len(ToLoad(Top.id))
  /\ objects' = Append(objects, Top)
  /\ pool' = Emplaced(Top.id, Len(objects) + 1)
  /\ Return(Top.id, Len(objects) + 1, Pop)
  /\ UNCHANGED unread

Next == Call \/ LoadReference \/ Finish

Spec == Init /\ [][Next]_vars

\* A load goes on until it returns: it waits for nothing.
FairSpec == Spec /\ WF_vars(LoadReference \/ Finish)

-----------------------------------------------------------------------------
(* Properties                                                              *)

Frame == [id : Assets, refs : Seq(Nat)]

\* Types.
TypeOK ==
  /\ objects \in Seq(Frame)
  /\ stack \in Seq(Frame)
  /\ DOMAIN pool \subseteq Assets
  /\ \A id \in DOMAIN pool : pool[id] \in DOMAIN objects
  /\ handles \subseteq [id : Assets, object : DOMAIN objects]
  /\ unread \subseteq Assets

\* Nobody has an object of an asset besides the one in the pool.  It would be
\* otherwise if loading an asset came round to the asset itself: load does not
\* look at the assets that are being loaded.
OneObjectPerAsset ==
  \A n \in DOMAIN objects :
    objects[n].id \in DOMAIN pool /\ pool[objects[n].id] = n

\* A loaded asset has a handle for each of its references, in order and to an
\* object of the asset and the type that it refers to; a null one only if that
\* asset is missing, is of another type, or could not be read.
ReferencesResolved ==
  \A n \in DOMAIN objects :
    LET refs == ToLoad(objects[n].id)
    IN  /\ Len(objects[n].refs) = Len(refs)
        /\ \A k \in DOMAIN refs :
             IF objects[n].refs[k] = Null
             THEN ~Loadable(refs[k].kind, refs[k].id) \/ refs[k].id \in unread
             ELSE /\ objects[n].refs[k] \in 1..n - 1
                  /\ objects[objects[n].refs[k]].id = refs[k].id
                  /\ KindOf[refs[k].id] = refs[k].kind

\* Every call of load returns.
LoadsReturn == stack # <<>> ~> stack = <<>>

\* MaterialAsset::isLoaded: whether its albedo texture is.  A mesh is drawn
\* with materials that are loaded only.
MaterialIsLoaded(n) ==
  \E k \in DOMAIN objects[n].refs :
    Refs[objects[n].id][k].slot = "albedo" /\ objects[n].refs[k] # Null

\* isLoaded is there "to include the textures", as the comment beside it says:
\* a material it calls loaded has all of them.
MaterialsIncludeTextures ==
  \A n \in DOMAIN objects :
    KindOf[objects[n].id] = "MaterialAsset" /\ MaterialIsLoaded(n)
      => \A k \in DOMAIN objects[n].refs : objects[n].refs[k] # Null

=============================================================================
