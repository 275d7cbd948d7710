------------------------------ MODULE WorldScripts ------------------------------
(***************************************************************************)
(* The scripts of a world: the scripts of its components, which are        *)
(* updated in one pass over them and may spawn further scripted entities   *)
(* from their constructors and updates, and the world script, which runs   *)
(* in an environment of its own that the world is linked to.               *)
(*                                                                         *)
(* A script inside a call makes any sequence of calls to the engine.  No   *)
(* script can take an entity or a script away.                             *)
(***************************************************************************)
EXTENDS Naturals, Sequences, SequencesExt, Functions

CONSTANTS
  Prefabs,          \* scripted entities of the initial prefabs
  MaxScripted,      \* scripted entities that there ever are: a bound
  MaxCalls,         \* depth of calls: a bound
  MaxPasses         \* updates: a bound

VARIABLES
  run_at,           \* where run() of the server or client is
  components,       \* entities with a ScriptComponent, as they are stored
  instances,        \* what the ScriptComponents know of their instances
  to_visit,         \* iterator of ComponentScriptEnvironment::update
  calls,            \* scripts that are being called, the innermost last
  due,              \* who had an update when the pass began
  updated,          \* how often each has been updated in this pass
  passes,
  environment,      \* the WorldScriptEnvironment
  host,             \* World::_host_environment
  static_world,     \* the World among the environment's static objects
  thrown,
  dangling_host     \* an environment was used after its end

componentVars == <<components, instances, to_visit, due, updated, passes>>
hostVars == <<environment, host, static_world, thrown, dangling_host>>
scriptVars == <<run_at, calls, componentVars, hostVars>>

WorldScript == 0                                               \* as an entity
NoInstance == [instance |-> FALSE, update |-> FALSE]
-----------------------------------------------------------------------------
(* ComponentScriptEnvironment                                               *)
AttachedLast(e) == NoInstance                                  \* a mutant
\* The component gets the instance before the script's constructor runs.
AttachedFirst(e) == [instance |-> TRUE, update |-> FALSE]

\* instantiateScript: emplaces the component and calls the constructor.
instantiateScript(e) ==
  /\ Len(components) < MaxScripted /\ Len(calls) < MaxCalls /\ ~Contains(components, e)
  /\ components' = Append(components, e)
  /\ instances' = [f \in DOMAIN instances \cup {e} |->
                     IF f = e THEN AttachedFirst(e) ELSE instances[f]]
  /\ calls' = Append(calls, [entity |-> e, method |-> "constructor"])
  /\ UNCHANGED <<to_visit, due, updated, passes>>

\* AS_construct has returned; without an object, or an #update among the
\* exports, the script is never updated.
Construct(works, exported) ==
  /\ calls # <<>> /\ Last(calls).method = "constructor"
  /\ instances' = [instances EXCEPT ![Last(calls).entity] =
                     [instance |-> TRUE, update |-> works /\ exported]]
  /\ calls' = Front(calls)
  /\ UNCHANGED <<run_at, components, to_visit, due, updated, passes, hostVars>>

FirstToVisit == Len(components)
NextToVisit == to_visit - 1
Unvisited == to_visit > 0

\* A view over one component goes from the last to the first that there were.
BeginPass ==
  /\ run_at = "world" /\ calls = <<>> /\ passes < MaxPasses
  /\ run_at' = "components" /\ passes' = passes + 1
  /\ to_visit' = FirstToVisit
  /\ due' = {e \in DOMAIN instances : instances[e].update}
  /\ updated' = [e \in {} |-> 0]
  /\ UNCHANGED <<calls, components, instances, hostVars>>

UpdateScript ==
  /\ run_at = "components" /\ calls = <<>> /\ Unvisited
  /\ LET e == components[to_visit]
     IN  IF instances[e].update
         THEN /\ calls' = <<[entity |-> e, method |-> "update"]>>
              /\ updated' = [f \in DOMAIN updated \cup {e} |->
                               IF f # e THEN updated[f]
                               ELSE IF e \in DOMAIN updated THEN updated[e] + 1 ELSE 1]
         ELSE UNCHANGED <<calls, updated>>
  /\ to_visit' = NextToVisit
  /\ UNCHANGED <<run_at, components, instances, due, passes, hostVars>>

EndPass ==
  /\ run_at = "components" /\ calls = <<>> /\ ~Unvisited /\ run_at' = "loop"
  /\ UNCHANGED <<calls, componentVars, hostVars>>
-----------------------------------------------------------------------------
(* What a script does in a call, and how it returns, well or by a trap.     *)
HasInstance(e) == e \in DOMAIN instances /\ instances[e].instance

\* Entity_spawnScriptedChild on an entity with a ScriptComponent, of which it
\* takes the asset: a component script names itself, the world script any.
Spawn(self) ==
  /\ calls # <<>> /\ Last(calls).entity \in {self, WorldScript}
  /\ self \in DOMAIN instances
  /\ instantiateScript(Len(components) + 1)
  /\ UNCHANGED <<run_at, hostVars>>

ReturnFromUpdate ==
  /\ calls # <<>> /\ Last(calls).method # "constructor" /\ calls' = Front(calls)
  /\ UNCHANGED <<run_at, componentVars, hostVars>>
-----------------------------------------------------------------------------
(* StaticScriptObject<World> and WorldScriptEnvironment.                    *)
ScriptsInit ==
  /\ run_at = "prefabs" /\ components = <<>> /\ instances = [e \in {} |-> NoInstance]
  /\ to_visit = 0 /\ calls = <<>> /\ due = {} /\ updated = [e \in {} |-> 0] /\ passes = 0
  /\ environment = "none" /\ host = "none" /\ static_world = "absent"
  /\ thrown = FALSE /\ dangling_host = FALSE

\* World::initializePrefabs.
Prefab ==
  /\ run_at = "prefabs" /\ calls = <<>> /\ Len(components) < Prefabs
  /\ instantiateScript(Len(components) + 1)
  /\ UNCHANGED <<run_at, hostVars>>

NoWorldScript ==
  /\ run_at = "prefabs" /\ calls = <<>> /\ run_at' = "loop"
  /\ UNCHANGED <<calls, componentVars, hostVars>>

\* linkToEnvironment: leaves the host there was, and puts the world among the
\* static objects of the new one, if there is one.
LinkTo(env) ==
  /\ dangling_host' = (dangling_host \/ (host # "none" /\ environment = "dead"))
  /\ host' = env
  /\ static_world' = IF env # "none" THEN "stored"
                     ELSE IF host = "none" THEN static_world ELSE "null"

LinksLate == UNCHANGED <<host, static_world, dangling_host>>   \* a mutant
LinksFirst == LinkTo("environment")

NewEnvironment ==
  /\ run_at = "prefabs" /\ calls = <<>> /\ environment = "none"
  /\ run_at' = "linked" /\ environment' = "alive" /\ LinksFirst
  /\ UNCHANGED <<calls, componentVars, thrown>>

\* log_ftl: no WASI, no script file, no module, no instance.  What there is of
\* the environment goes, its destructor does not run.
EnvironmentThrows ==
  /\ run_at = "linked" /\ run_at' = "unwind" /\ environment' = "dead" /\ thrown' = TRUE
  /\ UNCHANGED <<calls, componentVars, host, static_world, dangling_host>>

CallWorldScript(method) == calls' = <<[entity |-> WorldScript, method |-> method]>>

\* runCallback("_start")
StartWorldScript ==
  /\ run_at = "linked" /\ run_at' = "loop" /\ CallWorldScript("_start")
  /\ UNCHANGED <<componentVars, hostVars>>

\* if (scripts) scripts->update(dt), then world.update(dt)
UpdateWorldScript ==
  /\ run_at = "loop" /\ calls = <<>> /\ run_at' = "world"
  /\ IF environment = "alive" THEN CallWorldScript("on_update") ELSE UNCHANGED calls
  /\ UNCHANGED <<componentVars, hostVars>>

LeaveRun ==
  /\ run_at = "loop" /\ calls = <<>> /\ run_at' = "unwind"
  /\ UNCHANGED <<calls, componentVars, hostVars>>

LeavesHost == LinkTo("none")

\* ~WorldScriptEnvironment
DeleteEnvironment ==
  /\ run_at = "unwind" /\ environment = "alive" /\ environment' = "dead" /\ LeavesHost
  /\ UNCHANGED <<run_at, calls, componentVars, thrown>>

\* ~World, which is older.
DeleteWorld ==
  /\ run_at = "unwind" /\ environment # "alive" /\ run_at' = "gone" /\ LinkTo("none")
  /\ UNCHANGED <<calls, componentVars, environment, thrown>>

ScriptsNext ==
  \/ Prefab \/ NoWorldScript \/ NewEnvironment \/ EnvironmentThrows \/ StartWorldScript
  \/ UpdateWorldScript \/ BeginPass \/ UpdateScript \/ EndPass \/ LeaveRun
  \/ DeleteEnvironment \/ DeleteWorld \/ ReturnFromUpdate
  \/ \E works, exported \in BOOLEAN : Construct(works, exported)
  \/ \E self \in 1 .. MaxScripted : Spawn(self)

ScriptsSpec == ScriptsInit /\ [][ScriptsNext]_scriptVars
-----------------------------------------------------------------------------
\* A script that runs is the instance of its component, so that what it spawns
\* finds the asset to share: also in its constructor, and when that spawns.
RunningScriptsAttached ==
  \A n \in DOMAIN calls : calls[n].entity # WorldScript => HasInstance(calls[n].entity)

\* A pass updates every script that could be updated when it began once, and
\* none of those that are spawned meanwhile; and what runs is the instance of
\* its entity's component.
ScriptsUpdatedOnce ==
  /\ run_at = "components" /\ ~Unvisited => updated = [e \in due |-> 1]
  /\ RunningScriptsAttached

\* The world script finds the world in whatever it calls, from its start on;
\* and unless its environment could not be made, the world does not reach for
\* it when it is gone.
WorldScriptFindsWorld ==
  /\ \A n \in DOMAIN calls : calls[n].entity = WorldScript => static_world = "stored"
  /\ dangling_host => thrown

\* The same when the environment could not be made.
HostIsAlive == ~dangling_host
=============================================================================
