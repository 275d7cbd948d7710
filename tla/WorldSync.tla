------------------------------ MODULE WorldSync ------------------------------
(***************************************************************************)
(* How a client's world follows the server's: at intervals the server      *)
(* broadcasts every synchronized component it has (WorldEventSorter), and  *)
(* the client writes each of them into its own registry under the server's *)
(* id (World::processEvent, World::updateComponents).                      *)
(*                                                                         *)
(* Both processes have a registry of the same kind that hands out the same *)
(* ids, and the client has made an entity of its own, the avatar of its    *)
(* display, before it connects; it has no world script, which needs        *)
(* --serverless.  Nothing tells a client that an entity or a component is  *)
(* gone.                                                                   *)
(*                                                                         *)
(* entt keeps a component at the index of its entity, whatever the         *)
(* version, so a client's components are a function of indices.            *)
(***************************************************************************)
EXTENDS Integers, Sequences, FiniteSets, EntityRegistry

CONSTANTS
  Types,            \* synchronized component types, in the order of broadcast
  Data,             \* what a component may hold
  LocalData,        \* what the client's own entity holds
  MaxEntities,      \* bound on the server's indices
  MaxVersion,       \* bound on the versions of an index (12 bits in entt)
  MaxSnapshots      \* bound on broadcasts

ComponentTypes == {Types[i] : i \in DOMAIN Types}
Moving == "transform"      \* the one type of component an avatar has

ASSUME SyncAssumption ==
  /\ Types \in Seq(STRING) /\ Moving \in ComponentTypes
  /\ LocalData \notin Data
  /\ MaxEntities \in Nat /\ MaxVersion \in Nat /\ MaxSnapshots \in Nat

VARIABLES
  serverRegistry,   \* the server's World::registry: its entities
  serverPool,       \* and its components: type -> id -> data
  avatars,          \* entities of visitors' avatars
  snapshots,        \* broadcasts made
  news,             \* broadcasts on their way to the client, in order
  registry,         \* the client's World::registry: its entities
  pool,             \* and its components: type -> index -> data
  local,            \* the entities the client made itself: at most one
  updating,         \* type -> ids that updateComponents has still to write
  latest,           \* ghost: the last broadcast the client received
  named,            \* ghost: every id a broadcast has named to the client
  departed          \* ghost: entities the server has destroyed

serverVars == <<serverRegistry, serverPool, avatars, snapshots, departed>>
clientVars == <<registry, pool, local, updating, latest, named>>
vars == <<serverVars, news, clientVars>>

NoComponents == [type \in ComponentTypes |-> <<>>]

\* The ids an UpdateComponents event lists, for each type.
Listed(message) == [type \in ComponentTypes |-> DOMAIN message[type]]
\* updateComponents is not in its loop.
Idle == updating = [type \in ComponentTypes |-> {}]

\* Emplace a component or write to the one there is.
Written(f, e, data) == [d \in DOMAIN f \cup {e} |-> IF d = e THEN data ELSE f[d]]

\* Before it connects, a client on an SDL display has made its avatar; one on
\* an OpenXR display has made nothing.
Init ==
  /\ serverRegistry = EmptyRegistry /\ serverPool = NoComponents
  /\ avatars = {} /\ snapshots = 0 /\ departed = {}
  /\ news = <<>>
  /\ \/ registry = EmptyRegistry /\ local = {}
     \/ registry = Created(EmptyRegistry) /\ local = {NextId(EmptyRegistry)}
  /\ pool = NoComponents
  /\ updating = [type \in ComponentTypes |-> {}]
  /\ latest = NoComponents /\ named = {}

-----------------------------------------------------------------------------
(* The server                                                              *)

ServerIds == Ids(serverRegistry)

\* Bounds: what changes after the last broadcast never reaches the client.
CanChange == snapshots < MaxSnapshots
CanCreate == CanChange /\ NextId(serverRegistry).index < MaxEntities

\* A prefab or a script makes an entity with some components.
ServerSpawn(types, data) ==
  /\ CanCreate
  /\ serverRegistry' = Created(serverRegistry)
  /\ serverPool' = [type \in ComponentTypes |->
       IF type \in types
       THEN Written(serverPool[type], NextId(serverRegistry), data)
       ELSE serverPool[type]]
  /\ UNCHANGED <<avatars, snapshots, departed, news, clientVars>>

\* A visitor comes: an avatar has no transform until it is moved.
AvatarArrives ==
  /\ CanCreate
  /\ serverRegistry' = Created(serverRegistry)
  /\ avatars' = avatars \cup {NextId(serverRegistry)}
  /\ UNCHANGED <<serverPool, snapshots, departed, news, clientVars>>

\* A script adds a component or writes to it, adopt() links an entity, a
\* visitor moves its avatar.
ServerWrite(id, type, data) ==
  /\ CanChange
  /\ id \in avatars => type = Moving
  /\ serverPool' = [serverPool EXCEPT ![type] = Written(@, id, data)]
  /\ serverPool' # serverPool
  /\ UNCHANGED <<serverRegistry, avatars, snapshots, departed, news, clientVars>>

\* A visitor leaves: its avatar's entity is destroyed with all its components.
AvatarLeaves(id) ==
  /\ CanChange /\ id.version < MaxVersion
  /\ serverRegistry' = Destroyed(serverRegistry, id)
  /\ serverPool' = [type \in ComponentTypes |->
       [e \in DOMAIN serverPool[type] \ {id} |-> serverPool[type][e]]]
  /\ avatars' = avatars \ {id}
  /\ departed' = departed \cup {id}
  /\ UNCHANGED <<snapshots, news, clientVars>>

\* A mutant: only the components that have changed since the last broadcast.
OnlyChanges ==
  [type \in ComponentTypes |->
     IF news = <<>> THEN serverPool[type]
     ELSE LET sent == news[Len(news)][type]
          IN  [id \in {e \in DOMAIN serverPool[type] :
                         e \notin DOMAIN sent \/ sent[e] # serverPool[type][e]}
                 |-> serverPool[type][id]]]

\* One UpdateComponents event for each type: every entity that has it.
ComponentUpdates == serverPool

\* updateWorld: the interval has passed, and broadcastGlobalEvents is sent.
Broadcast ==
  /\ CanChange
  /\ snapshots' = snapshots + 1
  /\ news' = Append(news, ComponentUpdates)
  /\ UNCHANGED <<serverRegistry, serverPool, avatars, departed, clientVars>>

-----------------------------------------------------------------------------
(* The client                                                              *)

\* The visitor moves.
LocalMove(id) ==
  /\ Idle
  /\ pool' = [pool EXCEPT ![Moving] = Written(@, id.index, LocalData)]
  /\ UNCHANGED <<serverVars, news, registry, local, updating, latest, named>>

\* A WorldUpdate message arrives; processEvent goes through its events.
ReceiveWorldUpdate ==
  /\ Idle /\ news # <<>>
  /\ latest' = Head(news) /\ updating' = Listed(Head(news))
  /\ news' = Tail(news)
  /\ UNCHANGED <<serverVars, registry, pool, local, named>>

\* A mutant: an entity of another version makes way for the one of the server.
MakeWay(id) ==
  IF Valid(registry, id) THEN registry
  ELSE IF id.index \in registry.alive
       THEN CreatedAt(Destroyed(registry, IdAt(registry, id.index)), id)
       ELSE CreatedAt(registry, id)

\* The registry after the check of one id.
EnsureEntity(id) == IF Valid(registry, id) THEN registry ELSE CreatedAt(registry, id)

\* A mutant: a component the client has already is only refreshed.
EmplaceOnly(type, id) ==
  pool' = IF id.index \in DOMAIN pool[type] THEN pool
          ELSE [pool EXCEPT ![type] = Written(@, id.index, latest[type][id])]

\* writeData() or emplace(), under the id the server gave.
WriteComponent(type, id) ==
  pool' = [pool EXCEPT ![type] = Written(@, id.index, latest[type][id])]

\* One turn of the loop of updateComponents.  The types come in order, the
\* entities of one in the order of the server's pool, which may be any.
UpdateComponent(i, id) ==
  /\ id \in updating[Types[i]]
  /\ \A j \in 1..(i - 1) : updating[Types[j]] = {}
  /\ registry' = EnsureEntity(id)
  /\ WriteComponent(Types[i], id)
  /\ named' = named \cup {id}
  /\ updating' = [updating EXCEPT ![Types[i]] = @ \ {id}]
  /\ UNCHANGED <<serverVars, news, local, latest>>

Server ==
  \/ \E types \in SUBSET ComponentTypes, data \in Data : ServerSpawn(types, data)
  \/ AvatarArrives
  \/ \E id \in ServerIds, type \in ComponentTypes, data \in Data :
       ServerWrite(id, type, data)
  \/ \E id \in avatars : AvatarLeaves(id)
  \/ Broadcast

Client ==
  \/ \E id \in local : LocalMove(id)
  \/ ReceiveWorldUpdate
  \/ \E i \in DOMAIN Types : \E id \in updating[Types[i]] : UpdateComponent(i, id)

\* The bound on broadcasts is reached, and the client has worked through them.
AllShown == ~CanChange /\ news = <<>> /\ Idle /\ UNCHANGED vars

Next == Server \/ Client \/ AllShown

Spec == Init /\ [][Next]_vars

-----------------------------------------------------------------------------
\* Components of some entities, by type.
IsPool(p, ids, data) ==
  /\ DOMAIN p = ComponentTypes
  /\ \A type \in ComponentTypes :
       /\ DOMAIN p[type] \subseteq ids
       /\ \A id \in DOMAIN p[type] : p[type][id] \in data

TypeOK ==
  /\ IsRegistry(serverRegistry) /\ IsRegistry(registry)
  /\ IsPool(serverPool, ServerIds, Data)
  /\ IsPool(pool, Indices(registry), Data \cup {LocalData})
  /\ avatars \subseteq ServerIds
  /\ snapshots \in 0..MaxSnapshots
  /\ \A k \in DOMAIN news : IsPool(news[k], EntityId, Data)
  /\ IsPool(latest, EntityId, Data)
  /\ \A type \in ComponentTypes : updating[type] \subseteq DOMAIN latest[type]
  /\ local \subseteq EntityId /\ named \subseteq EntityId /\ departed \subseteq EntityId

LocalIndices == {id.index : id \in local}

\* Once the client has worked through a broadcast, it shows every component of
\* it with the data the server sent, except where an entity of its own has the
\* same index.
SnapshotShown ==
  Idle =>
    \A type \in ComponentTypes : \A id \in DOMAIN latest[type] :
      /\ id.index \in DOMAIN pool[type]
      /\ id.index \notin LocalIndices => pool[type][id.index] = latest[type][id]

\* What the client shows beyond the last broadcast is its own, or was left
\* behind by an entity that the server has destroyed: never something the
\* server still has.
OnlyLeftovers ==
  Idle =>
    \A type \in ComponentTypes : \A i \in DOMAIN pool[type] :
      \/ \E id \in DOMAIN latest[type] : id.index = i
      \/ i \in LocalIndices
      \/ type = Moving /\ \E id \in departed : id.index = i

\* The id the client's display holds stays valid, whatever the server sends.
LocalIdsStay == \A id \in local : Valid(registry, id)

\* What updateComponents takes for granted when it discards the id that
\* create() returns: the hint was used, so the entity is valid now.
HintUsed == \A id \in named : Valid(registry, id)
=============================================================================
