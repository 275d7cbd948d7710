---------------------------- MODULE Scripts_proofs ----------------------------
(***************************************************************************)
(* Scripts of the world and of the user interface: what they are given     *)
(* stays what it is, for any number of scripts, panels, styles and calls.  *)
(***************************************************************************)
EXTENDS WorldScripts, UiScripts, FiniteSetTheorems, SequenceTheorems,
        WellFoundedInduction, TLAPS

Methods == {"constructor", "update", "_start", "on_update"}
Calls == [entity : Nat, method : Methods]

\* The n-th call runs the constructor of e.
Constructs(n, e) == calls[n].method = "constructor" /\ calls[n].entity = e

(* What holds of the components and of the calls at all times.              *)
Stored ==
  /\ components \in Seq(Nat) /\ \A k \in DOMAIN components : components[k] = k
  /\ DOMAIN instances = 1 .. Len(components)
  /\ \A e \in DOMAIN instances : instances[e] \in [instance : {TRUE}, update : BOOLEAN]
  /\ to_visit \in 0 .. Len(components)

\* A script is constructed once, and may not be updated before that.
CallsFit ==
  /\ calls \in Seq(Calls)
  /\ \A n \in DOMAIN calls :
       /\ calls[n].entity = WorldScript <=> calls[n].method \in {"_start", "on_update"}
       /\ calls[n].entity # WorldScript => calls[n].entity \in DOMAIN instances
       /\ calls[n].method = "constructor" => ~instances[calls[n].entity].update
  /\ \A n, k \in DOMAIN calls : \A e \in DOMAIN instances :
       Constructs(n, e) /\ Constructs(k, e) => n = k

\* In a pass: those before the iterator are due exactly if they can be updated,
\* and those behind it have been.
PassInv ==
  run_at = "components" =>
    /\ due \subseteq DOMAIN instances
    /\ \A e \in 1 .. to_visit : instances[e].update <=> e \in due
    /\ \A n \in DOMAIN calls :
         calls[n].method = "constructor" =>
           calls[n].entity > to_visit /\ calls[n].entity \notin due
    /\ updated = [e \in {d \in due : d > to_visit} |-> 1]

\* The world script runs while its environment is the world's host.
HostInv ==
  /\ environment \in {"none", "alive", "dead"}
  /\ environment = "none" => host = "none"
  /\ environment = "alive" => host = "environment" /\ static_world = "stored"
  /\ environment = "dead" => host = "none" \/ thrown
  /\ dangling_host => thrown
  /\ run_at \in {"linked", "unwind", "gone"} => calls = <<>>
  /\ run_at = "linked" => environment = "alive"
  /\ \A n \in DOMAIN calls : calls[n].entity = WorldScript => environment = "alive"

ScriptsInv == Stored /\ CallsFit /\ PassInv /\ HostInv
-----------------------------------------------------------------------------
LEMMA ScriptsBegin == ScriptsInit => ScriptsInv
BY DEF ScriptsInit, ScriptsInv, Stored, CallsFit, PassInv, HostInv, Constructs

\* A script is instantiated, by a prefab or by another script.
LEMMA Instantiated ==
  ASSUME ScriptsInv, instantiateScript(Len(components) + 1), UNCHANGED <<run_at, hostVars>>,
         run_at \in {"linked", "unwind", "gone"} => FALSE
  PROVE  ScriptsInv'
<1> DEFINE e == Len(components) + 1
           c == [entity |-> e, method |-> "constructor"]
<1>1. /\ Len(components) \in Nat /\ DOMAIN components = 1 .. Len(components)
      /\ e \in Nat /\ e # 0 /\ e \notin DOMAIN instances /\ e = Len(components) + 1
      /\ Len(calls) \in Nat /\ DOMAIN calls = 1 .. Len(calls)
  BY DEF ScriptsInv, Stored, CallsFit
<1>2. /\ components' = Append(components, e) /\ calls' = Append(calls, c)
      /\ DOMAIN instances' = DOMAIN instances \cup {e}
      /\ instances'[e] = [instance |-> TRUE, update |-> FALSE]
      /\ \A f \in DOMAIN instances : f # e => instances'[f] = instances[f]
      /\ UNCHANGED <<to_visit, due, updated>>
  BY DEF instantiateScript, AttachedFirst
<1>3. c \in Calls /\ c.method = "constructor" /\ c.entity = e
  BY <1>1 DEF Calls, Methods
<1> HIDE DEF c, e
<1>4. /\ components' \in Seq(Nat) /\ Len(components') = e
      /\ \A k \in DOMAIN components' : components'[k] = k
  BY <1>1, <1>2 DEF ScriptsInv, Stored
<1>6. /\ calls' \in Seq(Calls) /\ DOMAIN calls' = DOMAIN calls \cup {Len(calls) + 1}
      /\ calls'[Len(calls) + 1] = c /\ \A n \in DOMAIN calls : calls'[n] = calls[n]
  BY <1>1, <1>2, <1>3 DEF ScriptsInv, CallsFit
<1>7. Stored'
  <2>1. DOMAIN instances' = 1 .. Len(components')
    BY <1>1, <1>2, <1>4 DEF ScriptsInv, Stored
  <2>2. \A f \in DOMAIN instances' : instances'[f] \in [instance : {TRUE}, update : BOOLEAN]
    <3>1. [instance |-> TRUE, update |-> FALSE] \in [instance : {TRUE}, update : BOOLEAN]
      OBVIOUS
    <3>2. \A f \in DOMAIN instances : instances[f] \in [instance : {TRUE}, update : BOOLEAN]
      BY DEF ScriptsInv, Stored
    <3>3. QED
      BY <1>1, <1>2, <3>1, <3>2
  <2>3. to_visit' \in 0 .. Len(components')
    BY <1>1, <1>2, <1>4 DEF ScriptsInv, Stored
  <2>4. QED
    BY <1>4, <2>1, <2>2, <2>3 DEF Stored
<1>8. CallsFit'
  <2>1. \A n \in DOMAIN calls' :
          /\ calls'[n].entity = WorldScript <=> calls'[n].method \in {"_start", "on_update"}
          /\ calls'[n].entity # WorldScript => calls'[n].entity \in DOMAIN instances'
          /\ calls'[n].method = "constructor" => ~instances'[calls'[n].entity].update
    <3>1. ASSUME NEW n \in DOMAIN calls
          PROVE  /\ calls'[n].entity = WorldScript <=> calls'[n].method \in {"_start", "on_update"}
                 /\ calls'[n].entity # WorldScript => calls'[n].entity \in DOMAIN instances'
                 /\ calls'[n].method = "constructor" => ~instances'[calls'[n].entity].update
      <4>1. calls'[n] = calls[n]
        BY <1>6
      <4> QED BY <1>1, <1>2, <4>1 DEF ScriptsInv, CallsFit, WorldScript
    <3>2. ASSUME NEW n \in DOMAIN calls', n = Len(calls) + 1
          PROVE  /\ calls'[n].entity = WorldScript <=> calls'[n].method \in {"_start", "on_update"}
                 /\ calls'[n].entity # WorldScript => calls'[n].entity \in DOMAIN instances'
                 /\ calls'[n].method = "constructor" => ~instances'[calls'[n].entity].update
      <4>1. calls'[n] = c
        BY <1>6, <3>2
      <4> QED BY <1>1, <1>2, <1>3, <4>1 DEF WorldScript
    <3> QED BY <1>6, <3>1, <3>2
  <2>2. \A n, k \in DOMAIN calls' : \A f \in DOMAIN instances' :
          Constructs(n, f)' /\ Constructs(k, f)' => n = k
    BY <1>1, <1>2, <1>3, <1>6 DEF ScriptsInv, CallsFit, Constructs, WorldScript
  <2>3. QED
    BY <1>6, <2>1, <2>2 DEF CallsFit
<1>9. PassInv'
  <2> SUFFICES ASSUME run_at = "components" PROVE PassInv'
    BY DEF PassInv
  <2>1. \A f \in 1 .. to_visit : f \in DOMAIN instances /\ f # e
    BY <1>1 DEF ScriptsInv, Stored
  <2>2. \A f \in 1 .. to_visit' : instances'[f].update <=> f \in due'
    BY <1>2, <2>1 DEF ScriptsInv, PassInv
  <2>3. due' \subseteq DOMAIN instances' /\ e \notin due /\ e > to_visit
    BY <1>1, <1>2 DEF ScriptsInv, Stored, PassInv
  <2>4. \A n \in DOMAIN calls' :
          calls'[n].method = "constructor" =>
            calls'[n].entity > to_visit' /\ calls'[n].entity \notin due'
    BY <1>2, <1>3, <1>6, <2>3 DEF ScriptsInv, PassInv
  <2>5. updated' = [f \in {d \in due' : d > to_visit'} |-> 1]
    BY <1>2 DEF ScriptsInv, PassInv
  <2>6. QED
    BY <2>2, <2>3, <2>4, <2>5 DEF PassInv
<1>10. HostInv'
  BY <1>1, <1>3, <1>6 DEF ScriptsInv, HostInv, hostVars, WorldScript
<1>11. QED
  BY <1>7, <1>8, <1>9, <1>10 DEF ScriptsInv

\* What Front leaves of a stack of calls.
LEMMA CallReturned ==
  ASSUME calls \in Seq(Calls), calls # <<>>, calls' = Front(calls)
  PROVE  /\ calls' \in Seq(Calls) /\ Len(calls) \in Nat \ {0} /\ Len(calls) \in DOMAIN calls
         /\ Last(calls) = calls[Len(calls)]
         /\ DOMAIN calls' = DOMAIN calls \ {Len(calls)}
         /\ \A n \in DOMAIN calls' : calls'[n] = calls[n]
BY DEF Front, Last

\* A constructor has returned: from now on its script may be updated.
LEMMA ConstructStep ==
  ASSUME ScriptsInv, NEW works \in BOOLEAN, NEW exported \in BOOLEAN, Construct(works, exported)
  PROVE  ScriptsInv'
<1> DEFINE last == Len(calls)
           e == calls[last].entity
<1>1. calls \in Seq(Calls) /\ calls # <<>> /\ calls' = Front(calls)
  BY DEF Construct, ScriptsInv, CallsFit
<1>2. /\ calls' \in Seq(Calls) /\ last \in DOMAIN calls /\ Last(calls) = calls[last]
      /\ DOMAIN calls' = DOMAIN calls \ {last} /\ \A n \in DOMAIN calls' : calls'[n] = calls[n]
  BY <1>1, CallReturned
<1>3. calls[last].method = "constructor" /\ e # WorldScript /\ e \in DOMAIN instances
  BY <1>2 DEF Construct, ScriptsInv, CallsFit
<1>4. /\ DOMAIN instances' = DOMAIN instances
      /\ instances'[e] = [instance |-> TRUE, update |-> works /\ exported]
      /\ \A f \in DOMAIN instances : f # e => instances'[f] = instances[f]
      /\ UNCHANGED <<run_at, components, to_visit, due, updated, passes, hostVars>>
  BY <1>2, <1>3 DEF Construct
<1>5. \A n \in DOMAIN calls' : calls'[n].method = "constructor" => calls'[n].entity # e
  BY <1>2, <1>3 DEF ScriptsInv, CallsFit, Constructs
<1> HIDE DEF e
<1>6. Stored'
  <2>1. instances'[e] \in [instance : {TRUE}, update : BOOLEAN]
    BY <1>4
  <2>2. \A f \in DOMAIN instances : instances[f] \in [instance : {TRUE}, update : BOOLEAN]
    BY DEF ScriptsInv, Stored
  <2>3. QED
    BY <1>4, <2>1, <2>2 DEF ScriptsInv, Stored
<1>7. CallsFit'
  BY <1>2, <1>4, <1>5 DEF ScriptsInv, CallsFit, Constructs
<1>8. PassInv'
  <2> SUFFICES ASSUME run_at = "components" PROVE PassInv'
    BY <1>4 DEF PassInv
  <2>1. e > to_visit /\ e \notin due
    BY <1>2, <1>3 DEF e, ScriptsInv, PassInv
  <2>2. \A f \in 1 .. to_visit : f \in DOMAIN instances /\ f # e
    BY <2>1 DEF ScriptsInv, Stored
  <2>3. QED
    BY <1>2, <1>4, <2>2 DEF ScriptsInv, PassInv
<1>9. HostInv'
  BY <1>2, <1>4 DEF ScriptsInv, HostInv, hostVars
<1>10. QED
  BY <1>6, <1>7, <1>8, <1>9 DEF ScriptsInv

LEMMA ReturnStep == ASSUME ScriptsInv, ReturnFromUpdate PROVE ScriptsInv'
<1>1. calls \in Seq(Calls) /\ calls # <<>> /\ calls' = Front(calls)
  BY DEF ReturnFromUpdate, ScriptsInv, CallsFit
<1>2. /\ calls' \in Seq(Calls)
      /\ DOMAIN calls' \subseteq DOMAIN calls /\ \A n \in DOMAIN calls' : calls'[n] = calls[n]
  BY <1>1, CallReturned
<1>3. UNCHANGED <<run_at, componentVars, hostVars>>
  BY DEF ReturnFromUpdate
<1>4. Stored' /\ PassInv'
  BY <1>2, <1>3 DEF ScriptsInv, Stored, PassInv, componentVars
<1>5. CallsFit'
  BY <1>2, <1>3 DEF ScriptsInv, CallsFit, Constructs, componentVars
<1>6. HostInv'
  BY <1>1, <1>2, <1>3 DEF ScriptsInv, HostInv, hostVars
<1>7. QED
  BY <1>4, <1>5, <1>6 DEF ScriptsInv

LEMMA BeginStep == ASSUME ScriptsInv, BeginPass PROVE ScriptsInv'
<1>1. Stored' /\ CallsFit' /\ HostInv'
  <2>1. /\ UNCHANGED <<calls, components, instances, hostVars>> /\ to_visit' = Len(components)
        /\ run_at' = "components" /\ Len(components) \in Nat
    BY DEF BeginPass, FirstToVisit, ScriptsInv, Stored
  <2>2. to_visit' \in 0 .. Len(components)
    BY <2>1
  <2>3. Stored'
    BY <2>1, <2>2 DEF ScriptsInv, Stored
  <2>4. CallsFit'
    BY <2>1 DEF ScriptsInv, CallsFit, Constructs
  <2>5. HostInv'
    BY <2>1 DEF ScriptsInv, HostInv, hostVars
  <2>6. QED
    BY <2>3, <2>4, <2>5
<1>2. PassInv'
  <2>1. Len(components) \in Nat /\ DOMAIN instances = 1 .. Len(components)
    BY DEF ScriptsInv, Stored
  <2>2. {d \in due' : d > to_visit'} = {} /\ updated' = [e \in {} |-> 0]
    BY <2>1 DEF BeginPass, FirstToVisit
  <2>3. updated' = [e \in {d \in due' : d > to_visit'} |-> 1]
    BY <2>2
  <2>4. QED
    BY <2>1, <2>3 DEF BeginPass, FirstToVisit, PassInv
<1>3. QED
  BY <1>1, <1>2 DEF ScriptsInv

\* The iterator moves to the component before.
LEMMA UpdateStep == ASSUME ScriptsInv, UpdateScript PROVE ScriptsInv'
<1>1. /\ to_visit \in 1 .. Len(components) /\ Len(components) \in Nat
      /\ components[to_visit] = to_visit /\ to_visit \in DOMAIN instances
      /\ to_visit' = to_visit - 1 /\ run_at = "components" /\ calls = <<>>
      /\ UNCHANGED <<run_at, components, instances, due, hostVars>>
  BY DEF UpdateScript, Unvisited, NextToVisit, ScriptsInv, Stored
<1>2. instances[to_visit].update <=> to_visit \in due
  BY <1>1 DEF ScriptsInv, PassInv
<1>3. Stored'
  <2>1. to_visit' \in 0 .. Len(components)
    BY <1>1
  <2>2. QED
    BY <1>1, <2>1 DEF ScriptsInv, Stored
<1>4. CASE instances[to_visit].update
  <2> DEFINE c == [entity |-> to_visit, method |-> "update"]
  <2>1. calls' = <<c>>
    BY <1>1, <1>4 DEF UpdateScript
  <2>2. c \in Calls /\ c.entity = to_visit /\ c.method = "update"
    BY <1>1 DEF Calls, Methods
  <2> HIDE DEF c
  <2>3. DOMAIN calls' = {1} /\ calls'[1] = c /\ calls' \in Seq(Calls)
    BY <2>1, <2>2
  <2>4. CallsFit' /\ HostInv'
    BY <1>1, <2>2, <2>3 DEF ScriptsInv, CallsFit, HostInv, Constructs, hostVars, WorldScript
  <2>5. updated' = [f \in DOMAIN updated \cup {to_visit} |->
                      IF f # to_visit THEN updated[f]
                      ELSE IF to_visit \in DOMAIN updated THEN updated[to_visit] + 1 ELSE 1]
    BY <1>1, <1>4 DEF UpdateScript
  <2>6. updated = [f \in {d \in due : d > to_visit} |-> 1]
    BY <1>1 DEF ScriptsInv, PassInv
  <2>7. {d \in due : d > to_visit'} = {d \in due : d > to_visit} \cup {to_visit}
    BY <1>1, <1>2, <1>4 DEF ScriptsInv, Stored, PassInv
  <2>8. updated' = [f \in {d \in due' : d > to_visit'} |-> 1]
    BY <1>1, <2>5, <2>6, <2>7
  <2>9. PassInv'
    BY <1>1, <2>2, <2>3, <2>8 DEF ScriptsInv, PassInv
  <2>10. QED
    BY <1>3, <2>4, <2>9 DEF ScriptsInv
<1>5. CASE ~instances[to_visit].update
  <2>1. UNCHANGED <<calls, updated>>
    BY <1>1, <1>5 DEF UpdateScript
  <2>2. CallsFit' /\ HostInv'
    BY <1>1, <2>1 DEF ScriptsInv, CallsFit, HostInv, Constructs, hostVars
  <2>3. {d \in due : d > to_visit'} = {d \in due : d > to_visit}
    BY <1>1, <1>2, <1>5 DEF ScriptsInv, Stored, PassInv
  <2>4. PassInv'
    BY <1>1, <2>1, <2>3 DEF ScriptsInv, PassInv
  <2>5. QED
    BY <1>3, <2>2, <2>4 DEF ScriptsInv
<1>6. QED
  BY <1>4, <1>5

\* The steps of run(), of the environment and of the world.
LEMMA RunStep ==
  ASSUME ScriptsInv,
         \/ NoWorldScript \/ NewEnvironment \/ EnvironmentThrows \/ StartWorldScript
         \/ UpdateWorldScript \/ EndPass \/ LeaveRun \/ DeleteEnvironment \/ DeleteWorld
         \/ UNCHANGED scriptVars
  PROVE  ScriptsInv'
<1> USE DEF LinksFirst, LeavesHost, LinkTo, hostVars, componentVars, scriptVars
<1>1. UNCHANGED componentVars
  BY DEF NoWorldScript, NewEnvironment, EnvironmentThrows, StartWorldScript,
     UpdateWorldScript, EndPass, LeaveRun, DeleteEnvironment, DeleteWorld
<1>2. Stored'
  BY <1>1 DEF ScriptsInv, Stored
<1>3. \/ UNCHANGED calls
      \/ calls = <<>> /\ \E method \in {"_start", "on_update"} : CallWorldScript(method)
  BY DEF NoWorldScript, NewEnvironment, EnvironmentThrows, StartWorldScript,
     UpdateWorldScript, EndPass, LeaveRun, DeleteEnvironment, DeleteWorld, ScriptsInv, HostInv
<1>4. \/ UNCHANGED calls
      \/ /\ DOMAIN calls' = {1} /\ calls' \in Seq(Calls)
         /\ calls'[1].entity = WorldScript /\ calls'[1].method \in {"_start", "on_update"}
  <2> SUFFICES ASSUME NEW m \in {"_start", "on_update"}, CallWorldScript(m)
               PROVE  /\ DOMAIN calls' = {1} /\ calls' \in Seq(Calls)
                      /\ calls'[1].entity = WorldScript
                      /\ calls'[1].method \in {"_start", "on_update"}
    BY <1>3
  <2> DEFINE c == [entity |-> WorldScript, method |-> m]
  <2>1. c \in Calls /\ c.entity = WorldScript /\ c.method \in {"_start", "on_update"}
    BY DEF Calls, Methods, WorldScript
  <2>2. calls' = <<c>>
    BY DEF CallWorldScript
  <2> HIDE DEF c
  <2>3. DOMAIN calls' = {1} /\ calls'[1] = c /\ calls' \in Seq(Calls)
    BY <2>1, <2>2
  <2>4. QED
    BY <2>1, <2>3
<1>5. CallsFit'
  <2>1. CASE UNCHANGED calls
    BY <1>1, <2>1 DEF ScriptsInv, CallsFit, Constructs
  <2>2. CASE ~ UNCHANGED calls
    BY <1>1, <1>4, <2>2 DEF CallsFit, Constructs
  <2>3. QED
    BY <2>1, <2>2
<1>6. PassInv'
  <2>1. run_at' = "components" => UNCHANGED <<run_at, calls>>
    BY DEF NoWorldScript, NewEnvironment, EnvironmentThrows, StartWorldScript,
       UpdateWorldScript, EndPass, LeaveRun, DeleteEnvironment, DeleteWorld
  <2>2. QED
    BY <1>1, <2>1 DEF ScriptsInv, PassInv
<1>7. HostInv'
  <2> USE DEF ScriptsInv, HostInv
  <2>1. CASE NoWorldScript
    BY <2>1 DEF NoWorldScript
  <2>2. CASE NewEnvironment
    BY <2>2 DEF NewEnvironment
  <2>3. CASE EnvironmentThrows
    BY <2>3 DEF EnvironmentThrows
  <2>4. CASE StartWorldScript
    BY <1>4, <2>4 DEF StartWorldScript
  <2>5. CASE UpdateWorldScript
    BY <1>4, <2>5 DEF UpdateWorldScript
  <2>6. CASE EndPass \/ LeaveRun \/ UNCHANGED scriptVars
    BY <2>6 DEF EndPass, LeaveRun
  <2>7. CASE DeleteEnvironment
    <3>1. /\ run_at = "unwind" /\ environment' = "dead" /\ host' = "none"
          /\ UNCHANGED <<run_at, calls, thrown>>
      BY <2>7 DEF DeleteEnvironment
    <3>2. dangling_host' => dangling_host
      BY <2>7 DEF DeleteEnvironment
    <3>3. calls = <<>>
      BY <3>1
    <3>4. DOMAIN calls = {}
      BY <3>3
    <3>5. QED
      BY <3>1, <3>2, <3>3, <3>4
  <2>8. CASE DeleteWorld
    BY <2>8 DEF DeleteWorld
  <2>9. QED
    BY <2>1, <2>2, <2>3, <2>4, <2>5, <2>6, <2>7, <2>8
<1>8. QED
  BY <1>2, <1>5, <1>6, <1>7 DEF ScriptsInv

LEMMA ScriptsStep == ASSUME ScriptsInv, [ScriptsNext]_scriptVars PROVE ScriptsInv'
<1>1. CASE Prefab
  BY <1>1, Instantiated DEF Prefab
<1>2. ASSUME NEW self \in 1 .. MaxScripted, Spawn(self) PROVE ScriptsInv'
  BY <1>2, Instantiated DEF Spawn, ScriptsInv, HostInv
<1>3. CASE \E works, exported \in BOOLEAN : Construct(works, exported)
  BY <1>3, ConstructStep
<1>4. CASE ReturnFromUpdate
  BY <1>4, ReturnStep
<1>5. CASE BeginPass
  BY <1>5, BeginStep
<1>6. CASE UpdateScript
  BY <1>6, UpdateStep
<1>7. QED
  BY <1>1, <1>2, <1>3, <1>4, <1>5, <1>6, RunStep DEF ScriptsNext

THEOREM ScriptsHold == ScriptsSpec => []ScriptsInv
<1>1. ScriptsInv /\ [ScriptsNext]_scriptVars => ScriptsInv'
  BY ScriptsStep
<1>2. QED
  BY ScriptsBegin, <1>1, PTL DEF ScriptsSpec

\* However scripts spawn others while they are updated and constructed, a pass
\* updates each script that there was once; and a script that runs is the instance
\* of its component.
THEOREM ScriptsAreUpdatedOnce == ScriptsSpec => []ScriptsUpdatedOnce
<1>1. ScriptsInv /\ run_at = "components" /\ ~Unvisited => updated = [e \in due |-> 1]
  <2> SUFFICES ASSUME ScriptsInv, run_at = "components", ~Unvisited
               PROVE  updated = [e \in due |-> 1]
    OBVIOUS
  <2>1. /\ due \subseteq 1 .. Len(components) /\ Len(components) \in Nat
        /\ to_visit \in 0 .. Len(components)
    BY DEF ScriptsInv, Stored, PassInv
  <2>2. to_visit = 0
    BY <2>1 DEF Unvisited
  <2>3. \A d \in due : d > to_visit
    BY <2>1, <2>2
  <2>4. {d \in due : d > to_visit} = due
    BY <2>3
  <2>5. QED
    BY <2>4 DEF ScriptsInv, PassInv
<1>2. ScriptsInv => RunningScriptsAttached
  BY DEF ScriptsInv, Stored, CallsFit, RunningScriptsAttached, HasInstance
<1>3. ScriptsInv => ScriptsUpdatedOnce
  BY <1>1, <1>2 DEF ScriptsUpdatedOnce
<1>4. QED
  BY ScriptsHold, <1>3, PTL

\* Whenever the world script runs, the world is among its static objects; the
\* world does not reach for an environment that has ended, unless the
\* environment's constructor threw.
THEOREM WorldScriptHasItsWorld == ScriptsSpec => []WorldScriptFindsWorld
<1>1. ScriptsInv => WorldScriptFindsWorld
  BY DEF ScriptsInv, HostInv, WorldScriptFindsWorld
<1>2. QED
  BY ScriptsHold, <1>1, PTL
-----------------------------------------------------------------------------
(* The user interface.                                                      *)
Objects == [class : {"none", "panel", "style"}, number : Nat]
Pointers == [script : Nat, number : Nat]
Panels == [key : Nat, script : Nat, this : Pointers, styles : Seq(Nat)]
UiScriptsSet == [runtime : BOOLEAN, objects : Nat, pins : Seq(Nat), ids : SUBSET (Nat \X Objects)]

(* What everything is.                                                      *)
UiTypes ==
  /\ registry \in Seq(Objects) /\ script \in Seq(UiScriptsSet) /\ styles_made \in Nat
  /\ \A p \in DOMAIN panels : panels[p] \in Panels /\ panels[p].script <= Len(script)
  /\ ui_script \in 0 .. Len(script)
  /\ ui_at \in {"bind", "construct", "delete", "ready"} => ui_script # 0
  /\ in_call # 0 => ui_at \in {"construct", "ready"}

\* Each panel has the id it got first, and no style is
\* registered that is still to be made.
Registered ==
  /\ \A p \in DOMAIN panels : p \in DOMAIN registry /\ panels[p].key = p - 1
  /\ \A p \in DOMAIN panels : registry[p] = ThePanel(p)
  /\ \A i \in DOMAIN registry : registry[i].class = "style" => registry[i].number <= styles_made

\* The styles of a panel are styles, and no other panel's.
StylesOwned ==
  \A p \in DOMAIN panels : \A i \in StyleIds(p) :
    /\ i + 1 \in DOMAIN registry /\ registry[i + 1].class = "style"
    /\ \A q \in DOMAIN panels : i \in StyleIds(q) => p = q

\* Panel p has been bound to the script, and i is its id or one of its styles'.
BoundTo(p, i, o) ==
  panels[p].script = ui_script /\ (o = ThePanel(p) \/ i \in StyleIds(p))

\* What the script knows is there, and is a panel bound to it or a style of one.
Known ==
  ui_script # 0 =>
    \A k \in script[ui_script].ids :
      /\ k[1] + 1 \in DOMAIN registry /\ registry[k[1] + 1] = k[2]
      /\ \E p \in DOMAIN panels : BoundTo(p, k[1], k[2])

UiInv == UiTypes /\ Registered /\ StylesOwned /\ Known

\* What is left of it when the interface has gone: no call.
UiHeld == IF ui_at = "gone" THEN in_call = 0 ELSE UiInv

\* The first of the removed entries is taken, or a new one.
LEMMA FirstRemoved ==
  ASSUME NEW reg \in Seq(Objects), NEW i \in DOMAIN reg, reg[i] = Removed
  PROVE  \E k \in DOMAIN reg : reg[k] = Removed /\ \A j \in 1 .. k - 1 : reg[j] # Removed
<1> DEFINE T == {k \in DOMAIN reg : reg[k] = Removed}
<1>1. T \subseteq Nat /\ T # {} /\ DOMAIN reg = 1 .. Len(reg) /\ Len(reg) \in Nat
  OBVIOUS
<1> HIDE DEF T
<1>2. PICK k \in T : \A j \in T : <<j, k>> \notin OpToRel(<, Nat)
  BY <1>1, WFMin, NatLessThanWellFounded, Zenon
<1>3. k \in Nat /\ \A j \in T : j \in Nat /\ ~(j < k)
  <2>1. k \in Nat /\ \A j \in T : j \in Nat /\ <<j, k>> \in Nat \X Nat
    BY <1>1
  <2>2. QED
    BY <1>2, <2>1, Zenon DEF OpToRel
<1>4. k \in DOMAIN reg /\ reg[k] = Removed
  BY DEF T
<1>5. ASSUME NEW j \in 1 .. k - 1 PROVE reg[j] # Removed
  <2>1. j \in DOMAIN reg /\ j < k
    BY <1>1, <1>3, <1>4
  <2>2. j \notin T
    BY <1>3, <2>1
  <2>3. QED
    BY <2>1, <2>2 DEF T
<1>6. QED
  BY <1>4, <1>5

LEMMA StoredApart ==
  ASSUME NEW reg \in Seq(Objects), NEW object \in Objects, object # Removed,
         \A i \in DOMAIN reg : reg[i] # object
  PROVE  \E k \in 1 .. Len(reg) + 1 :
           /\ storeInRegistry(reg, object) \in Seq(Objects)
           /\ DOMAIN storeInRegistry(reg, object) = DOMAIN reg \cup {k}
           /\ storeInRegistry(reg, object)[k] = object
           /\ k \in DOMAIN reg => reg[k] = Removed
           /\ \A i \in DOMAIN reg : i # k => storeInRegistry(reg, object)[i] = reg[i]
           /\ IdOf(storeInRegistry(reg, object), object) = k - 1
<1> DEFINE new == storeInRegistry(reg, object)
           slot == CHOOSE k \in DOMAIN reg :
                     reg[k] = Removed /\ \A j \in 1 .. k - 1 : reg[j] # Removed
<1>1. Len(reg) \in Nat /\ DOMAIN reg = 1 .. Len(reg)
  OBVIOUS
<1>2. ASSUME NEW k \in 1 .. Len(reg) + 1, new[k] = object,
             DOMAIN new = DOMAIN reg \cup {k},
             \A i \in DOMAIN reg : i # k => new[i] = reg[i]
      PROVE  IdOf(new, object) = k - 1
  <2> HIDE DEF new
  <2>1. \A i \in DOMAIN new : new[i] = object => i = k
    BY <1>2
  <2>2. (CHOOSE i \in DOMAIN new : new[i] = object) = k
    BY <1>2, <2>1
  <2>3. QED
    BY <2>2 DEF IdOf
<1>3. CASE Contains(reg, Removed)
  <2>1. \E k \in DOMAIN reg : reg[k] = Removed /\ \A j \in 1 .. k - 1 : reg[j] # Removed
    BY <1>1, <1>3, FirstRemoved DEF Contains
  <2>2. slot \in DOMAIN reg /\ reg[slot] = Removed
    BY <2>1
  <2>3. new = [reg EXCEPT ![slot] = object]
    BY <1>3 DEF storeInRegistry
  <2> HIDE DEF slot, new
  <2>4. /\ new \in Seq(Objects) /\ DOMAIN new = DOMAIN reg \cup {slot} /\ new[slot] = object
        /\ \A i \in DOMAIN reg : i # slot => new[i] = reg[i] /\ slot \in 1 .. Len(reg) + 1
    BY <1>1, <2>2, <2>3
  <2>5. slot \in 1 .. Len(reg) + 1
    BY <1>1, <2>2
  <2>6. IdOf(new, object) = slot - 1
    BY <1>2, <2>4, <2>5
  <2>7. QED
    BY <2>2, <2>4, <2>5, <2>6 DEF new
<1>4. CASE ~Contains(reg, Removed)
  <2>1. new = Append(reg, object)
    BY <1>4 DEF storeInRegistry
  <2> HIDE DEF new
  <2>2. /\ new \in Seq(Objects) /\ DOMAIN new = DOMAIN reg \cup {Len(reg) + 1}
        /\ new[Len(reg) + 1] = object /\ \A i \in DOMAIN reg : new[i] = reg[i]
        /\ Len(reg) + 1 \in 1 .. Len(reg) + 1 /\ Len(reg) + 1 \notin DOMAIN reg
    BY <1>1, <2>1
  <2>3. IdOf(new, object) = (Len(reg) + 1) - 1
    BY <1>2, <2>2
  <2>4. QED
    BY <2>2, <2>3 DEF new
<1>5. QED
  BY <1>3, <1>4

\* Pinning and unpinning leave alone what a script knows.
LEMMA PinsOnly ==
  ASSUME NEW s \in UiScriptsSet, NEW ptr \in Pointers
  PROVE  /\ AS_pin(s, ptr) \in UiScriptsSet /\ AS_pin(s, ptr).ids = s.ids
         /\ AS_unpin(s, ptr) \in UiScriptsSet /\ AS_unpin(s, ptr).ids = s.ids
<1> DEFINE n == ptr.number
           up == [s.pins EXCEPT ![n] = @ + 1]
           down == [s.pins EXCEPT ![n] = IF @ = 0 THEN 0 ELSE @ - 1]
<1>1. s.pins \in Seq(Nat)
  BY DEF UiScriptsSet
<1>2. ASSUME NEW q \in Seq(Nat), NEW m
      PROVE  /\ [q EXCEPT ![m] = @ + 1] \in Seq(Nat)
             /\ [q EXCEPT ![m] = IF @ = 0 THEN 0 ELSE @ - 1] \in Seq(Nat)
  <2>1. \A j \in DOMAIN q : q[j] \in Nat /\ q[j] + 1 \in Nat
                          /\ (IF q[j] = 0 THEN 0 ELSE q[j] - 1) \in Nat
    OBVIOUS
  <2>2. CASE m \in DOMAIN q
    <3>1. m \in 1 .. Len(q)
      BY <2>2
    <3>2. \A e \in Nat : [q EXCEPT ![m] = e] \in Seq(Nat)
      BY <3>1, ExceptSeq
    <3>3. QED
      BY <2>1, <2>2, <3>2
  <2>3. CASE m \notin DOMAIN q
    <3>1. ASSUME NEW e PROVE [q EXCEPT ![m] = e] = q
      <4>1. q = [j \in DOMAIN q |-> q[j]]
        OBVIOUS
      <4>2. [q EXCEPT ![m] = e] = [j \in DOMAIN q |-> q[j]]
        BY <2>3
      <4>3. QED
        BY <4>1, <4>2
    <3>2. QED
      BY <3>1
  <2>4. QED
    BY <2>2, <2>3
<1>3. /\ AS_pin(s, ptr) = s \/ AS_pin(s, ptr) = [s EXCEPT !.pins = up]
      /\ AS_unpin(s, ptr) = s \/ AS_unpin(s, ptr) = [s EXCEPT !.pins = down]
  BY DEF AS_pin, AS_unpin, UiScriptsSet
<1>4. up \in Seq(Nat) /\ down \in Seq(Nat)
  BY <1>1, <1>2
<1> HIDE DEF up, down
<1>5. QED
  BY <1>3, <1>4 DEF UiScriptsSet

LEMMA UiBegin == ASSUME PanelCounts \subseteq Nat, UiInit PROVE UiInv
<1> PICK n \in PanelCounts :
      /\ ui_at = "module" /\ ui_script = 0 /\ old_script = 0 /\ live_scripts = {}
      /\ panels = [p \in 1 .. n |-> [key |-> p - 1, script |-> 0, this |-> NullPointer,
                                     styles |-> <<>>]]
      /\ registry = [p \in 1 .. n |-> ThePanel(p)]
      /\ script = <<>> /\ in_call = 0 /\ styles_made = 0 /\ called_dead = FALSE
  BY DEF UiInit
<1>1. n \in Nat /\ DOMAIN panels = 1 .. n /\ DOMAIN registry = 1 .. n
  OBVIOUS
<1>2. ASSUME NEW p \in 1 .. n
      PROVE  /\ panels[p] \in Panels /\ panels[p].script = 0 /\ panels[p].key = p - 1
             /\ panels[p].styles = <<>> /\ registry[p] = ThePanel(p) /\ ThePanel(p) \in Objects
  BY <1>1 DEF Panels, Pointers, NullPointer, ThePanel, Objects
<1>3. script \in Seq(UiScriptsSet) /\ Len(script) = 0
  OBVIOUS
<1>4. registry \in Seq(Objects)
  <2>1. \A p \in 1 .. n : ThePanel(p) \in Objects
    BY <1>2
  <2>2. QED
    BY <1>1, <2>1
<1>5. UiTypes
  <2>1. ASSUME NEW p \in DOMAIN panels
        PROVE  panels[p] \in Panels /\ panels[p].script <= Len(script)
    <3>1. p \in 1 .. n
      BY <1>1
    <3>2. panels[p] \in Panels /\ panels[p].script = 0
      BY <1>2, <3>1
    <3>3. QED
      BY ONLY <1>3, <3>2
  <2>2. ui_script \in 0 .. Len(script) /\ styles_made \in Nat
    BY <1>3
  <2>3. in_call = 0 /\ ui_at \notin {"bind", "construct", "delete", "ready"}
    OBVIOUS
  <2>4. QED
    BY <1>3, <1>4, <2>1, <2>2, <2>3 DEF UiTypes
<1>6. Registered
  BY <1>1, <1>2 DEF Registered, ThePanel
<1>7. StylesOwned
  BY <1>1, <1>2 DEF StylesOwned, StyleIds, ToSet
<1>8. QED
  BY <1>5, <1>6, <1>7 DEF UiInv, Known

\* The steps that leave the panels, the scripts and the registry alone.
LEMMA UiQuiet ==
  ASSUME UiInv, UNCHANGED <<panels, registry, ui_script, script, styles_made>>,
         ui_at' \in {"bind", "construct", "delete", "ready"} =>
           ui_at \in {"bind", "construct", "delete", "ready"},
         in_call' # 0 => ui_at' \in {"construct", "ready"}
  PROVE  UiInv'
<1>1. UiTypes'
  BY DEF UiInv, UiTypes
<1>2. Registered'
  BY DEF UiInv, Registered
<1>3. StylesOwned' /\ Known'
  BY DEF UiInv, StylesOwned, Known, BoundTo, StyleIds
<1>4. QED
  BY <1>1, <1>2, <1>3 DEF UiInv

\* A new script knows nothing.
LEMMA LoadStep ==
  ASSUME UiInv, NEW runtime \in BOOLEAN, loadUiScript(runtime) PROVE UiInv'
<1> DEFINE s == NewScript(runtime)
<1>1. /\ ui_at = "module" /\ ui_at' = "bind" /\ script' = Append(script, s)
      /\ ui_script' = Len(script) + 1 /\ UNCHANGED <<panels, registry, in_call, styles_made>>
  BY DEF loadUiScript
<1>2. s \in UiScriptsSet /\ s.ids = {}
  BY DEF NewScript, UiScriptsSet
<1> HIDE DEF s
<1>3. /\ script' \in Seq(UiScriptsSet) /\ Len(script') = Len(script) + 1 /\ Len(script) \in Nat
      /\ script'[ui_script'] = s
  BY <1>1, <1>2 DEF UiInv, UiTypes
<1>4. UiTypes'
  <2>1. \A p \in DOMAIN panels : panels[p].script \in Nat /\ panels[p].script <= Len(script')
    BY <1>3 DEF UiInv, UiTypes, Panels
  <2>2. ui_script' \in 0 .. Len(script') /\ ui_script' # 0
    BY <1>1, <1>3
  <2>3. in_call' = 0
    BY <1>1 DEF UiInv, UiTypes
  <2>4. QED
    BY <1>1, <1>3, <2>1, <2>2, <2>3 DEF UiInv, UiTypes
<1>5. Registered' /\ StylesOwned'
  BY <1>1 DEF UiInv, Registered, StylesOwned, StyleIds
<1>6. Known'
  BY <1>2, <1>3 DEF Known
<1>7. QED
  BY <1>4, <1>5, <1>6 DEF UiInv

\* A panel that is bound loses the styles of its old script, which the new one
\* does not know.
LEMMA BindStep == ASSUME UiInv, NEW p \in DOMAIN panels, bindUiScript(p) PROVE UiInv'
<1>1. /\ ui_at = "bind" /\ ui_at' = "construct" /\ in_call' = p /\ panels[p].script # ui_script
      /\ UNCHANGED <<ui_script, styles_made>>
      /\ ui_script # 0 /\ ui_script \in DOMAIN script
  BY DEF bindUiScript, UiInv, UiTypes
<1>2. /\ DOMAIN panels' = DOMAIN panels
      /\ panels'[p] = [panels[p] EXCEPT !.script = ui_script, !.styles = <<>>]
      /\ \A q \in DOMAIN panels : q # p => panels'[q] = panels[q]
  BY DEF bindUiScript, NoStyles
<1>3. /\ panels'[p] \in Panels /\ panels'[p].script = ui_script /\ panels'[p].styles = <<>>
      /\ panels'[p].key = panels[p].key
  <2>1. panels[p] \in Panels /\ ui_script \in Nat /\ <<>> \in Seq(Nat)
    BY DEF UiInv, UiTypes
  <2>2. panels'[p] = [key |-> panels[p].key, script |-> ui_script, this |-> panels[p].this,
                      styles |-> <<>>]
    BY <1>2, <2>1 DEF Panels
  <2>3. QED
    BY <2>1, <2>2 DEF Panels
<1>4. StyleIds(p)' = {} /\ \A q \in DOMAIN panels : q # p => StyleIds(q)' = StyleIds(q)
  BY <1>2, <1>3 DEF StyleIds, ToSet
<1>5. /\ registry' \in Seq(Objects) /\ DOMAIN registry' = DOMAIN registry
      /\ \A i \in DOMAIN registry :
           registry'[i] = IF i - 1 \in StyleIds(p) THEN Removed ELSE registry[i]
  <2>1. registry' = [i \in DOMAIN registry |->
                       IF i - 1 \in StyleIds(p) THEN Removed ELSE registry[i]]
    BY DEF bindUiScript, WithoutStyles, removeAll
  <2>2. Removed \in Objects
    BY DEF Removed, Objects
  <2>3. QED
    BY <2>1, <2>2 DEF UiInv, UiTypes
<1>6. /\ script' \in Seq(UiScriptsSet) /\ Len(script') = Len(script)
      /\ script'[ui_script].ids = script[ui_script].ids \cup {<<panels[p].key, ThePanel(p)>>}
  <2> DEFINE known == script[ui_script].ids \cup {<<panels[p].key, ThePanel(p)>>}
             new == [script[ui_script] EXCEPT !.ids = known]
             left(n) == AS_unpin(script[n], panels[p].this)
  <2>1. script' = [n \in DOMAIN script |->
                     IF n = panels[p].script THEN left(n)
                     ELSE IF n = ui_script THEN new ELSE script[n]]
    BY DEF bindUiScript
  <2>2. \A n \in DOMAIN script : left(n) \in UiScriptsSet
    <3>1. panels[p].this \in Pointers
      BY DEF UiInv, UiTypes, Panels
    <3>2. QED
      BY <3>1, PinsOnly DEF UiInv, UiTypes
  <2>3. new \in UiScriptsSet /\ new.ids = known
    <3>1. panels[p].key \in Nat /\ ThePanel(p) \in Objects
      BY DEF UiInv, UiTypes, Registered, Panels, ThePanel, Objects
    <3>2. script[ui_script] \in UiScriptsSet
      BY <1>1 DEF UiInv, UiTypes
    <3>3. known \in SUBSET (Nat \X Objects)
      BY <3>1, <3>2 DEF UiScriptsSet
    <3> HIDE DEF known
    <3>4. QED
      BY <3>2, <3>3 DEF UiScriptsSet
  <2> HIDE DEF new, left
  <2>4. script \in Seq(UiScriptsSet) /\ DOMAIN script = 1 .. Len(script) /\ Len(script) \in Nat
    BY DEF UiInv, UiTypes
  <2>5. \A n \in DOMAIN script : script'[n] \in UiScriptsSet
    BY <2>1, <2>2, <2>3, <2>4
  <2>6. DOMAIN script' = 1 .. Len(script)
    BY <2>1, <2>4
  <2>7. script' = [n \in 1 .. Len(script) |-> script'[n]]
    BY <2>1, <2>4
  <2>8. script' \in Seq(UiScriptsSet) /\ Len(script') = Len(script)
    BY <2>4, <2>5, <2>6, <2>7
  <2>9. script'[ui_script] = new
    BY <1>1, <2>1
  <2>10. QED
    BY <2>3, <2>8, <2>9 DEF known
<1>7. UiTypes'
  <2>1. ui_script \in 0 .. Len(script) /\ ui_script # 0 /\ Len(script) \in Nat
    BY <1>1 DEF UiInv, UiTypes
  <2>2. ASSUME NEW q \in DOMAIN panels'
        PROVE  panels'[q] \in Panels /\ panels'[q].script <= Len(script')
    <3>1. panels[q] \in Panels /\ panels[q].script <= Len(script)
      BY <1>2 DEF UiInv, UiTypes
    <3>2. CASE q = p
      BY <1>3, <1>6, <2>1, <3>2
    <3>3. CASE q # p
      <4>1. panels'[q] = panels[q]
        BY <1>2, <3>3
      <4>2. QED
        BY <1>6, <3>1, <4>1
    <3>4. QED
      BY <3>2, <3>3
  <2>3. styles_made' \in Nat
    BY <1>1 DEF UiInv, UiTypes
  <2>4. QED
    BY <1>1, <1>5, <1>6, <2>1, <2>2, <2>3 DEF UiTypes
<1>8. Registered'
  <2>1. \A q \in DOMAIN panels : registry[q] = ThePanel(q) /\ q \in DOMAIN registry
    BY <1>1 DEF UiInv, Registered
  <2>2. \A q \in DOMAIN panels : q - 1 \notin StyleIds(p)
    <3>1. ASSUME NEW q \in DOMAIN panels
          PROVE  registry[(q - 1) + 1].class = "panel"
      <4>1. q \in DOMAIN registry /\ registry[q].class = "panel"
        <5>1. q \in DOMAIN registry /\ registry[q] = ThePanel(q)
          BY <2>1
        <5>2. ThePanel(q).class = "panel"
          BY DEF ThePanel
        <5>3. QED
          BY <5>1, <5>2
      <4>2. DOMAIN registry = 1 .. Len(registry)
        BY DEF UiInv, UiTypes
      <4>3. (q - 1) + 1 = q
        BY <4>1, <4>2
      <4>4. QED
        BY <4>1, <4>3
    <3>2. QED
      BY <1>1, <3>1 DEF UiInv, StylesOwned
  <2>3. \A i \in DOMAIN registry :
          registry'[i].class = "style" => registry'[i].number <= styles_made
    BY <1>5 DEF UiInv, Registered, Removed
  <2>4. \A q \in DOMAIN panels : registry'[q] = ThePanel(q)
    BY <1>5, <2>1, <2>2
  <2>5. \A q \in DOMAIN panels : panels'[q].key = q - 1
    BY <1>2, <1>3 DEF UiInv, Registered
  <2>6. QED
    BY <1>1, <1>2, <1>5, <2>1, <2>3, <2>4, <2>5 DEF Registered, ThePanel
<1>9. StylesOwned'
  <2> SUFFICES ASSUME NEW q \in DOMAIN panels, NEW i \in StyleIds(q)'
               PROVE  /\ i + 1 \in DOMAIN registry' /\ registry'[i + 1].class = "style"
                      /\ \A r \in DOMAIN panels : i \in StyleIds(r)' => q = r
    BY <1>2 DEF StylesOwned
  <2>1. q # p /\ i \in StyleIds(q) /\ i \notin StyleIds(p)
    BY <1>1, <1>4 DEF UiInv, StylesOwned
  <2>2. /\ i + 1 \in DOMAIN registry /\ registry[i + 1].class = "style"
        /\ \A r \in DOMAIN panels : i \in StyleIds(r) => q = r
    BY <1>1, <2>1 DEF UiInv, StylesOwned
  <2>3. i \in Nat
    BY <2>1 DEF UiInv, UiTypes, Panels, StyleIds, ToSet
  <2>4. registry'[i + 1] = registry[i + 1]
    BY <1>5, <2>1, <2>2, <2>3
  <2>5. QED
    BY <1>4, <1>5, <2>2, <2>4
<1>10. Known'
  <2> SUFFICES ASSUME NEW k \in script'[ui_script].ids
               PROVE  /\ k[1] + 1 \in DOMAIN registry' /\ registry'[k[1] + 1] = k[2]
                      /\ \E q \in DOMAIN panels' : BoundTo(q, k[1], k[2])'
    BY <1>1 DEF Known
  <2>1. CASE k = <<panels[p].key, ThePanel(p)>>
    <3>1. k[1] = p - 1 /\ k[2] = ThePanel(p) /\ k[1] + 1 = p
      BY <2>1 DEF UiInv, Registered, UiTypes
    <3>2. p \in DOMAIN registry' /\ registry'[p] = ThePanel(p)
      BY <1>1, <1>2, <1>8 DEF Registered, ThePanel
    <3>3. BoundTo(p, k[1], k[2])'
      BY <1>1, <1>3, <3>1 DEF BoundTo, ThePanel
    <3>4. QED
      BY <1>2, <3>1, <3>2, <3>3
  <2>2. CASE k \in script[ui_script].ids
    <3>1. /\ k[1] + 1 \in DOMAIN registry /\ registry[k[1] + 1] = k[2]
          /\ \E q \in DOMAIN panels : BoundTo(q, k[1], k[2])
      BY <1>1, <2>2 DEF UiInv, Known, UiTypes
    <3>2. PICK q \in DOMAIN panels : BoundTo(q, k[1], k[2])
      BY <3>1
    <3>3. k[1] \in Nat
      <4>1. script[ui_script].ids \in SUBSET (Nat \X Objects)
        <5>1. script[ui_script] \in UiScriptsSet
          BY <1>1 DEF UiInv, UiTypes
        <5>2. QED
          BY <5>1 DEF UiScriptsSet
      <4>2. k \in Nat \X Objects
        BY <2>2, <4>1
      <4>3. QED
        BY <4>2
    <3>4. q # p
      BY <1>1, <3>2 DEF BoundTo
    <3>5. BoundTo(q, k[1], k[2])'
      BY <1>1, <1>2, <1>4, <3>2, <3>4 DEF BoundTo, ThePanel
    <3>6. k[1] \notin StyleIds(p)
      <4>1. CASE k[2] = ThePanel(q)
        BY <1>1, <3>1, <4>1 DEF UiInv, StylesOwned, ThePanel
      <4>2. CASE k[1] \in StyleIds(q)
        BY <1>1, <3>4, <4>2 DEF UiInv, StylesOwned
      <4>3. QED
        BY <3>2, <4>1, <4>2 DEF BoundTo
    <3>7. registry'[k[1] + 1] = registry[k[1] + 1]
      BY <1>5, <3>1, <3>3, <3>6
    <3>8. QED
      BY <1>2, <1>5, <3>1, <3>5, <3>7
  <2>3. QED
    BY <1>6, <2>1, <2>2
<1>11. QED
  BY <1>7, <1>8, <1>9, <1>10 DEF UiInv

\* A new style is registered where nothing is, and its id says where.
LEMMA StyleStored ==
  ASSUME UiInv, NEW p \in DOMAIN panels, createGlyphStyle(p)
  PROVE  \E k \in 1 .. Len(registry) + 1 :
           /\ registry' \in Seq(Objects) /\ DOMAIN registry' = DOMAIN registry \cup {k}
           /\ registry'[k] = TheStyle(styles_made + 1)
           /\ k \in DOMAIN registry => registry[k] = Removed
           /\ \A i \in DOMAIN registry : i # k => registry'[i] = registry[i]
           /\ IdOf(registry', TheStyle(styles_made + 1)) = k - 1
<1> DEFINE style == TheStyle(styles_made + 1)
<1>1. registry' = storeInRegistry(registry, style)
  BY DEF createGlyphStyle
<1>2. styles_made \in Nat /\ registry \in Seq(Objects) /\ Len(registry) \in Nat
  BY DEF UiInv, UiTypes
<1>3. style \in Objects /\ style # Removed /\ style.class = "style"
      /\ style.number = styles_made + 1
  BY <1>2 DEF TheStyle, Removed, Objects
<1>4. \A i \in DOMAIN registry : registry[i] # style
  <2> SUFFICES ASSUME NEW i \in DOMAIN registry, registry[i] = style PROVE FALSE
    OBVIOUS
  <2>1. registry[i].number <= styles_made
    BY <1>3 DEF UiInv, Registered
  <2>2. QED
    BY <1>2, <1>3, <2>1
<1> HIDE DEF style
<1>5. QED
  BY <1>1, <1>2, <1>3, <1>4, StoredApart DEF style

\* A style is registered where nothing is, and belongs to the panel alone.
LEMMA StyleStep == ASSUME UiInv, NEW p \in DOMAIN panels, createGlyphStyle(p) PROVE UiInv'
<1> DEFINE style == TheStyle(styles_made + 1)
           id == IdOf(registry', style)
           known == script[ui_script].ids \cup {<<id, style>>}
<1>1. /\ ui_script # 0 /\ ui_script \in DOMAIN script
      /\ <<panels[p].key, ThePanel(p)>> \in script[ui_script].ids
      /\ registry' = storeInRegistry(registry, style) /\ styles_made' = styles_made + 1
      /\ panels' = [panels EXCEPT ![p].styles = Append(@, id)]
      /\ script' = [script EXCEPT ![ui_script].ids = known]
      /\ UNCHANGED <<ui_at, ui_script, in_call>>
  BY DEF createGlyphStyle, Running, UiInv, UiTypes
<1>2. styles_made \in Nat /\ registry \in Seq(Objects) /\ Len(registry) \in Nat
  BY DEF UiInv, UiTypes
<1>3. style \in Objects /\ style # Removed /\ style.class = "style"
      /\ style.number = styles_made + 1
  BY <1>2 DEF TheStyle, Removed, Objects
<1>4. PICK k \in 1 .. Len(registry) + 1 :
        /\ registry' \in Seq(Objects) /\ DOMAIN registry' = DOMAIN registry \cup {k}
        /\ registry'[k] = style
        /\ k \in DOMAIN registry => registry[k] = Removed
        /\ \A i \in DOMAIN registry : i # k => registry'[i] = registry[i]
        /\ id = k - 1
  BY StyleStored
<1> HIDE DEF style
<1>6. id \in Nat /\ id + 1 = k
  BY <1>2, <1>4
<1> HIDE DEF id
<1>7. \A q \in DOMAIN panels : panels[q] \in Panels /\ id \notin StyleIds(q) /\ q # k
  <2> SUFFICES ASSUME NEW q \in DOMAIN panels
               PROVE  panels[q] \in Panels /\ id \notin StyleIds(q) /\ q # k
    OBVIOUS
  <2>1. panels[q] \in Panels
    BY DEF UiInv, UiTypes
  <2>2. ASSUME id \in StyleIds(q) PROVE FALSE
    <3>1. k \in DOMAIN registry /\ registry[k].class = "style"
      BY <1>1, <1>6, <2>2 DEF UiInv, StylesOwned
    <3>2. QED
      BY <1>4, <3>1 DEF Removed
  <2>3. ASSUME q = k PROVE FALSE
    <3>1. k \in DOMAIN registry /\ registry[k] = ThePanel(k)
      BY <1>1, <2>3 DEF UiInv, Registered
    <3>2. QED
      BY <1>4, <3>1 DEF Removed, ThePanel
  <2>4. QED
    BY <2>1, <2>2, <2>3
<1>8. panels[p].script = ui_script
  <2> DEFINE old == <<panels[p].key, ThePanel(p)>>
  <2>1. PICK q \in DOMAIN panels : BoundTo(q, old[1], old[2])
    BY <1>1 DEF UiInv, Known
  <2>2. old[1] = panels[p].key /\ old[2] = ThePanel(p)
    OBVIOUS
  <2>3. registry[old[1] + 1] = ThePanel(p)
    BY <1>1, <2>2 DEF UiInv, Known
  <2> HIDE DEF old
  <2>4. CASE ThePanel(p) = ThePanel(q)
    BY <2>1, <2>4 DEF BoundTo, ThePanel
  <2>5. CASE old[1] \in StyleIds(q)
    BY <1>1, <2>3, <2>5 DEF UiInv, StylesOwned, ThePanel
  <2>6. QED
    BY <2>1, <2>2, <2>4, <2>5 DEF BoundTo
<1>9. /\ DOMAIN panels' = DOMAIN panels
      /\ \A q \in DOMAIN panels :
           /\ panels'[q] \in Panels /\ panels'[q].script = panels[q].script
           /\ panels'[q].key = panels[q].key
      /\ StyleIds(p)' = StyleIds(p) \cup {id}
      /\ \A q \in DOMAIN panels : q # p => StyleIds(q)' = StyleIds(q)
  <2> DEFINE more == Append(panels[p].styles, id)
  <2>1. panels[p] \in Panels /\ panels[p].styles \in Seq(Nat)
    BY <1>7 DEF Panels
  <2>2. more \in Seq(Nat) /\ ToSet(more) = ToSet(panels[p].styles) \cup {id}
    <3>1. /\ more \in Seq(Nat)
          /\ DOMAIN more = DOMAIN panels[p].styles \cup {Len(panels[p].styles) + 1}
          /\ more[Len(panels[p].styles) + 1] = id
          /\ \A i \in DOMAIN panels[p].styles : more[i] = panels[p].styles[i]
      BY <1>6, <2>1
    <3> HIDE DEF more
    <3>2. QED
      BY <3>1 DEF ToSet
  <2>3. panels' = [panels EXCEPT ![p].styles = more]
    BY <1>1
  <2> HIDE DEF more
  <2>4. /\ DOMAIN panels' = DOMAIN panels
        /\ panels'[p] = [panels[p] EXCEPT !.styles = more]
        /\ \A q \in DOMAIN panels : q # p => panels'[q] = panels[q]
    BY <2>3
  <2>5. /\ panels'[p] \in Panels /\ panels'[p].script = panels[p].script
        /\ panels'[p].key = panels[p].key /\ panels'[p].styles = more
    BY <2>1, <2>2, <2>4 DEF Panels
  <2>6. QED
    BY <1>7, <2>2, <2>4, <2>5 DEF StyleIds
<1>10. /\ script' \in Seq(UiScriptsSet) /\ Len(script') = Len(script)
       /\ script'[ui_script].ids = known
  <2>1. script \in Seq(UiScriptsSet) /\ script[ui_script] \in UiScriptsSet
        /\ ui_script \in 1 .. Len(script)
    BY <1>1 DEF UiInv, UiTypes
  <2>2. known \in SUBSET (Nat \X Objects)
    BY <1>3, <1>6, <2>1 DEF UiScriptsSet
  <2> DEFINE new == [script[ui_script] EXCEPT !.ids = known]
  <2>3. script' = [script EXCEPT ![ui_script] = new]
    BY <1>1
  <2> HIDE DEF known
  <2>4. new \in UiScriptsSet /\ new.ids = known
    BY <2>1, <2>2 DEF UiScriptsSet
  <2> HIDE DEF new
  <2>5. QED
    BY <2>1, <2>3, <2>4, ExceptSeq
<1>11. UiTypes'
  <2>1. \A q \in DOMAIN panels' : panels'[q] \in Panels /\ panels'[q].script <= Len(script')
    BY <1>9, <1>10 DEF UiInv, UiTypes
  <2>2. styles_made' \in Nat
    BY <1>1, <1>2
  <2>3. QED
    BY <1>1, <1>4, <1>10, <2>1, <2>2 DEF UiInv, UiTypes
<1>12. Registered'
  <2>1. \A q \in DOMAIN panels : /\ q \in DOMAIN registry' /\ panels'[q].key = q - 1
                                 /\ registry'[q] = ThePanel(q)
    BY <1>1, <1>4, <1>7, <1>9 DEF UiInv, Registered
  <2>2. \A i \in DOMAIN registry' :
          registry'[i].class = "style" => registry'[i].number <= styles_made'
    <3> SUFFICES ASSUME NEW i \in DOMAIN registry', registry'[i].class = "style"
                 PROVE  registry'[i].number <= styles_made'
      OBVIOUS
    <3>1. CASE i = k
      BY <1>1, <1>2, <1>3, <1>4, <3>1
    <3>2. CASE i # k
      <4>1. registry[i] \in Objects /\ registry'[i] = registry[i] /\ i \in DOMAIN registry
        BY <1>2, <1>4, <3>2
      <4>2. registry[i].number <= styles_made /\ registry[i].number \in Nat
        BY <4>1 DEF UiInv, Registered, Objects
      <4>3. QED
        BY <1>1, <1>2, <4>1, <4>2
    <3>3. QED
      BY <3>1, <3>2
  <2>3. QED
    BY <1>9, <2>1, <2>2 DEF Registered, ThePanel
<1>13. StylesOwned'
  <2> SUFFICES ASSUME NEW q \in DOMAIN panels, NEW i \in StyleIds(q)'
               PROVE  /\ i + 1 \in DOMAIN registry' /\ registry'[i + 1].class = "style"
                      /\ \A r \in DOMAIN panels : i \in StyleIds(r)' => q = r
    BY <1>9 DEF StylesOwned
  <2>1. CASE i = id
    BY <1>3, <1>4, <1>6, <1>7, <1>9, <2>1
  <2>2. CASE i # id
    <3>1. i \in StyleIds(q) /\ \A r \in DOMAIN panels : i \in StyleIds(r)' => i \in StyleIds(r)
      BY <1>9, <2>2
    <3>2. /\ i + 1 \in DOMAIN registry /\ registry[i + 1].class = "style"
          /\ \A r \in DOMAIN panels : i \in StyleIds(r) => q = r
      BY <1>1, <3>1 DEF UiInv, StylesOwned
    <3>3. i + 1 # k
      BY <1>4, <3>2 DEF Removed
    <3>4. QED
      BY <1>4, <3>1, <3>2, <3>3
  <2>3. QED
    BY <2>1, <2>2
<1>14. Known'
  <2> SUFFICES ASSUME NEW j \in known
               PROVE  /\ j[1] + 1 \in DOMAIN registry' /\ registry'[j[1] + 1] = j[2]
                      /\ \E q \in DOMAIN panels' : BoundTo(q, j[1], j[2])'
    BY <1>1, <1>10 DEF Known
  <2>1. CASE j = <<id, style>>
    <3>1. j[1] = id /\ j[2] = style
      BY <2>1
    <3>2. BoundTo(p, j[1], j[2])'
      BY <1>1, <1>8, <1>9, <3>1 DEF BoundTo
    <3>3. QED
      BY <1>4, <1>6, <1>9, <3>1, <3>2
  <2>2. CASE j \in script[ui_script].ids
    <3>1. /\ j[1] + 1 \in DOMAIN registry /\ registry[j[1] + 1] = j[2]
          /\ \E q \in DOMAIN panels : BoundTo(q, j[1], j[2])
      BY <1>1, <2>2 DEF UiInv, Known
    <3>2. PICK q \in DOMAIN panels : BoundTo(q, j[1], j[2])
      BY <3>1
    <3>3. BoundTo(q, j[1], j[2])'
      BY <1>1, <1>9, <3>2 DEF BoundTo, ThePanel
    <3>4. j[1] + 1 # k
      <4>1. CASE j[2] = ThePanel(q)
        BY <1>4, <3>1, <4>1 DEF Removed, ThePanel
      <4>2. CASE j[1] \in StyleIds(q)
        BY <1>1, <1>4, <4>2 DEF UiInv, StylesOwned, Removed
      <4>3. QED
        BY <3>2, <4>1, <4>2 DEF BoundTo
    <3>5. QED
      BY <1>4, <1>9, <3>1, <3>3, <3>4
  <2>3. QED
    BY <2>1, <2>2 DEF known
<1>15. QED
  BY <1>11, <1>12, <1>13, <1>14 DEF UiInv

\* What a constructor returns is pinned and kept in its panel.
LEMMA ConstructedStep ==
  ASSUME UiInv, NEW works \in BOOLEAN, Constructed(works) PROVE UiInv'
<1> DEFINE s == [script[ui_script] EXCEPT !.objects = @ + 1, !.pins = Append(@, 0)]
           ptr == IF works THEN [script |-> ui_script, number |-> s.objects]
                  ELSE FailedThis(in_call)
           new == IF works THEN AS_pin(s, ptr) ELSE script[ui_script]
<1>1. /\ ui_at = "construct" /\ ui_at' \in {"bind", "delete"} /\ in_call' = 0
      /\ script' = [script EXCEPT ![ui_script] = new]
      /\ panels' = [panels EXCEPT ![in_call].this = ptr]
      /\ UNCHANGED <<registry, ui_script, styles_made>>
  BY DEF Constructed
<1>2. /\ script \in Seq(UiScriptsSet) /\ ui_script \in 1 .. Len(script)
      /\ script[ui_script] \in UiScriptsSet /\ Len(script) \in Nat
  BY <1>1 DEF UiInv, UiTypes
<1>3. s \in UiScriptsSet /\ s.ids = script[ui_script].ids
  <2>1. script[ui_script].objects + 1 \in Nat /\ Append(script[ui_script].pins, 0) \in Seq(Nat)
    BY <1>2 DEF UiScriptsSet
  <2>2. QED
    BY <1>2, <2>1 DEF UiScriptsSet
<1>4. ptr \in Pointers
  BY <1>2, <1>3 DEF Pointers, UiScriptsSet, FailedThis, NullPointer
<1>5. new \in UiScriptsSet /\ new.ids = script[ui_script].ids
  BY <1>2, <1>3, <1>4, PinsOnly
<1> HIDE DEF new, ptr, s
<1>6. /\ script' \in Seq(UiScriptsSet) /\ Len(script') = Len(script)
      /\ script'[ui_script].ids = script[ui_script].ids
  BY <1>1, <1>2, <1>5, ExceptSeq
<1>7. /\ DOMAIN panels' = DOMAIN panels
      /\ \A p \in DOMAIN panels : /\ panels'[p] \in Panels /\ panels'[p].key = panels[p].key
                                  /\ panels'[p].script = panels[p].script
                                  /\ panels'[p].styles = panels[p].styles
  BY <1>1, <1>4 DEF UiInv, UiTypes, Panels
<1>8. UiTypes'
  <2>1. \A p \in DOMAIN panels' : panels'[p] \in Panels /\ panels'[p].script <= Len(script')
    BY <1>6, <1>7 DEF UiInv, UiTypes
  <2>2. QED
    BY <1>1, <1>2, <1>6, <2>1 DEF UiInv, UiTypes
<1>9. Registered' /\ StylesOwned'
  <2>1. \A p \in DOMAIN panels : StyleIds(p)' = StyleIds(p)
    BY <1>7 DEF StyleIds
  <2>2. Registered'
    BY <1>1, <1>7 DEF UiInv, Registered, ThePanel
  <2>3. StylesOwned'
    BY <1>1, <1>7, <2>1 DEF UiInv, StylesOwned
  <2>4. QED
    BY <2>2, <2>3
<1>10. Known'
  BY <1>1, <1>6, <1>7 DEF UiInv, Known, BoundTo, StyleIds
<1>11. QED
  BY <1>8, <1>9, <1>10 DEF UiInv

LEMMA UiStep == ASSUME UiHeld, [UiNext]_uiVars PROVE UiHeld'
<1>1. CASE ui_at = "gone"
  BY <1>1 DEF UiHeld, UiNext, uiVars, LoadThrows, loadUiScript, bindUiScript, createGlyphStyle,
     Running, Constructed, DeleteOldScript, runCallback, Returned, Reload, Close,
     DestroyInterface
<1> SUFFICES ASSUME ui_at # "gone", UiInv PROVE UiHeld'
  BY <1>1 DEF UiHeld
<1>2. CASE LoadThrows \/ DeleteOldScript \/ Returned \/ Reload \/ Close \/ UNCHANGED uiVars
  <2>1. UNCHANGED <<panels, registry, ui_script, script, styles_made>>
    BY <1>2 DEF LoadThrows, DeleteOldScript, Returned, Reload, Close, uiVars
  <2>2. /\ ui_at' # "gone"
        /\ ui_at' \in {"bind", "construct", "delete", "ready"} =>
             ui_at \in {"bind", "construct", "delete", "ready"}
        /\ in_call' # 0 => ui_at' \in {"construct", "ready"}
    BY <1>2 DEF LoadThrows, DeleteOldScript, Returned, Reload, Close, uiVars, UiInv, UiTypes
  <2>3. QED
    BY <2>1, <2>2, UiQuiet DEF UiHeld
<1>3. ASSUME NEW p \in DOMAIN panels, runCallback(p) PROVE UiHeld'
  BY <1>3, UiQuiet DEF runCallback, UiHeld
<1>4. ASSUME NEW runtime \in BOOLEAN, loadUiScript(runtime) PROVE UiHeld'
  BY <1>4, LoadStep DEF loadUiScript, UiHeld
<1>5. ASSUME NEW p \in DOMAIN panels, bindUiScript(p) PROVE UiHeld'
  BY <1>5, BindStep DEF bindUiScript, UiHeld
<1>6. ASSUME NEW p \in DOMAIN panels, createGlyphStyle(p) PROVE UiHeld'
  BY <1>6, StyleStep DEF createGlyphStyle, UiHeld
<1>7. ASSUME NEW works \in BOOLEAN, Constructed(works) PROVE UiHeld'
  BY <1>7, ConstructedStep DEF Constructed, UiHeld
<1>8. CASE DestroyInterface
  BY <1>8 DEF DestroyInterface, UiHeld, UiInv, UiTypes
<1>9. QED
  BY <1>2, <1>3, <1>4, <1>5, <1>6, <1>7, <1>8 DEF UiNext

\* Whenever a UI script runs, each id it was ever given denotes the object it
\* was given it for, though the ids of the styles of scripts before it are given
\* out again: for any number of panels, styles and scripts.
THEOREM IdsStayTrue == ASSUME PanelCounts \subseteq Nat PROVE UiSpec => []IdsDenoteTheirObjects
<1>1. UiInit => UiHeld
  BY UiBegin DEF UiHeld, UiInit
<1>2. UiHeld /\ [UiNext]_uiVars => UiHeld'
  BY UiStep
<1>3. UiHeld => IdsDenoteTheirObjects
  <2> SUFFICES ASSUME UiHeld, in_call # 0, NEW known \in script[ui_script].ids
               PROVE  getFromRegistry(registry, known[1]) = known[2]
    BY DEF IdsDenoteTheirObjects
  <2>1. UiInv /\ ui_script # 0 /\ ui_script \in DOMAIN script
    BY DEF UiHeld, UiInv, UiTypes
  <2>2. known[1] + 1 \in DOMAIN registry /\ registry[known[1] + 1] = known[2]
    BY <2>1 DEF UiInv, Known
  <2>3. known \in Nat \X Objects
    <3>1. script[ui_script] \in UiScriptsSet
      BY <2>1 DEF UiInv, UiTypes
    <3>2. QED
      BY <3>1 DEF UiScriptsSet
  <2>4. known[1] \in Nat /\ known[1] + 1 <= Len(registry) /\ Len(registry) \in Nat
    BY <2>1, <2>2, <2>3 DEF UiInv, UiTypes
  <2>5. QED
    BY <2>2, <2>4 DEF getFromRegistry
<1>4. QED
  BY <1>1, <1>2, <1>3, PTL DEF UiSpec
-----------------------------------------------------------------------------
(* The objects of the user interface's panels: whose they are, who keeps   *)
(* them and when they are let go of.                                       *)

\* The panel's constructor runs: until it returns, what the panel has is
\* its object of the script before.
Building(p) == ui_at = "construct" /\ in_call = p
Holds(p, n, k) == ~Building(p) /\ panels[p].this = [script |-> n, number |-> k]

\* While scripts are exchanged a panel has the old one or the new one, and both
\* live.
Alive ==
  /\ ~called_dead /\ old_script \in Nat
  /\ in_call # 0 => in_call \in DOMAIN panels
  /\ ui_script # 0 => ui_script \in live_scripts
  /\ ui_at = "destroy" => ui_script # 0
  /\ ui_at \in {"bind", "construct", "delete"} => old_script < ui_script
  /\ ui_at \in {"bind", "construct"} =>
       /\ old_script # 0 => old_script \in live_scripts
       /\ \A p \in DOMAIN panels : panels[p].script \in {old_script, ui_script}
  /\ ui_at \notin {"bind", "construct"} =>
       \A p \in DOMAIN panels : panels[p].script = ui_script

\* An object is pinned once or not at all, and only for a panel that has it.
PinsHeld ==
  \A n \in DOMAIN script :
    /\ Len(script[n].pins) = script[n].objects
    /\ \A k \in DOMAIN script[n].pins :
         /\ script[n].pins[k] \in {0, 1}
         /\ script[n].pins[k] = 1 =>
              script[n].runtime /\ \E p \in DOMAIN panels : Holds(p, n, k)

\* What a panel has is an object of its script, pinned and no other panel's.
ThisPinned ==
  \A p \in DOMAIN panels : ~Building(p) /\ panels[p].this # NullPointer =>
    /\ panels[p].this.script = panels[p].script /\ panels[p].script \in DOMAIN script
    /\ panels[p].this.number \in DOMAIN script[panels[p].script].pins
    /\ script[panels[p].script].runtime =>
         script[panels[p].script].pins[panels[p].this.number] = 1
    /\ \A q \in DOMAIN panels : ~Building(q) /\ panels[q].this = panels[p].this => p = q

\* Whatever is registered is a panel or a panel's style.
Covered ==
  \A i \in DOMAIN registry : registry[i] # Removed =>
    \E p \in DOMAIN panels : i = p \/ i - 1 \in StyleIds(p)

PinInv == IsFiniteSet(DOMAIN panels) /\ Alive /\ PinsHeld /\ ThisPinned /\ Covered

Kept == IF ui_at = "gone" THEN ~called_dead /\ NothingLeftBehind ELSE PinInv

\* Letting go takes one pin of one object.
LEMMA UnpinOne ==
  ASSUME NEW s \in UiScriptsSet, NEW ptr \in Pointers
  PROVE  /\ AS_unpin(s, ptr) \in UiScriptsSet
         /\ AS_unpin(s, ptr).runtime = s.runtime /\ AS_unpin(s, ptr).objects = s.objects
         /\ Len(AS_unpin(s, ptr).pins) = Len(s.pins)
         /\ \A k \in DOMAIN s.pins :
              AS_unpin(s, ptr).pins[k] =
                IF ptr # NullPointer /\ s.runtime /\ k = ptr.number
                THEN IF s.pins[k] = 0 THEN 0 ELSE s.pins[k] - 1
                ELSE s.pins[k]
<1>1. PICK r : r = AS_unpin(s, ptr)
  OBVIOUS
<1>2. s.pins \in Seq(Nat) /\ r \in UiScriptsSet
  BY <1>1, PinsOnly DEF UiScriptsSet
<1>3. CASE ptr = NullPointer \/ ~s.runtime \/ ptr.number \notin DOMAIN s.pins
  <2>1. r = s
    BY <1>1, <1>3 DEF AS_unpin
  <2> QED BY <1>1, <1>2, <1>3, <2>1
<1>4. CASE ~(ptr = NullPointer \/ ~s.runtime \/ ptr.number \notin DOMAIN s.pins)
  <2>1. PICK down : down = [s.pins EXCEPT ![ptr.number] = IF @ = 0 THEN 0 ELSE @ - 1]
    OBVIOUS
  <2>2. r = [s EXCEPT !.pins = down]
    BY <1>1, <1>4, <2>1 DEF AS_unpin, UiScriptsSet
  <2>3. r.runtime = s.runtime /\ r.objects = s.objects /\ r.pins = down
    BY <2>2 DEF UiScriptsSet
  <2>4. DOMAIN down = DOMAIN s.pins
    BY <2>1
  <2>5. Len(down) = Len(s.pins)
    BY <1>2, <2>3, <2>4 DEF UiScriptsSet
  <2>6. \A k \in DOMAIN s.pins :
          down[k] = IF k = ptr.number THEN IF s.pins[k] = 0 THEN 0 ELSE s.pins[k] - 1
                    ELSE s.pins[k]
    BY <2>1
  <2> QED BY <1>1, <1>2, <1>4, <2>3, <2>5, <2>6
<1> QED BY <1>3, <1>4

LEMMA PinBegin == ASSUME PanelCounts \subseteq Nat, UiInit PROVE PinInv
<1> PICK n \in PanelCounts :
      /\ ui_at = "module" /\ ui_script = 0 /\ old_script = 0 /\ live_scripts = {}
      /\ panels = [p \in 1 .. n |-> [key |-> p - 1, script |-> 0, this |-> NullPointer,
                                     styles |-> <<>>]]
      /\ registry = [p \in 1 .. n |-> ThePanel(p)]
      /\ script = <<>> /\ in_call = 0 /\ styles_made = 0 /\ called_dead = FALSE
  BY DEF UiInit
<1>1. /\ n \in Nat /\ DOMAIN panels = 1 .. n /\ DOMAIN registry = 1 .. n /\ DOMAIN script = {}
      /\ \A p \in DOMAIN panels : panels[p].script = 0 /\ panels[p].this = NullPointer
  OBVIOUS
<1>2. IsFiniteSet(DOMAIN panels)
  BY <1>1, FS_Interval
<1>3. Alive
  BY <1>1 DEF Alive
<1>4. PinsHeld /\ ThisPinned /\ Covered
  BY <1>1 DEF PinsHeld, ThisPinned, Covered
<1> QED BY <1>2, <1>3, <1>4 DEF PinInv

\* Steps that leave the pins and what the panels have alone.
LEMMA PinsSame ==
  ASSUME PinInv, DOMAIN panels' = DOMAIN panels, DOMAIN script' = DOMAIN script,
         \A p \in DOMAIN panels :
           /\ panels'[p].this = panels[p].this /\ panels'[p].script = panels[p].script
           /\ Building(p)' = Building(p),
         \A n \in DOMAIN script :
           /\ script'[n].pins = script[n].pins /\ script'[n].objects = script[n].objects
           /\ script'[n].runtime = script[n].runtime
  PROVE  IsFiniteSet(DOMAIN panels') /\ PinsHeld' /\ ThisPinned'
<1>1. ASSUME NEW p \in DOMAIN panels, NEW n, NEW k, Holds(p, n, k) PROVE Holds(p, n, k)'
  BY <1>1 DEF Holds
<1>2. PinsHeld'
  BY <1>1 DEF PinInv, PinsHeld
<1>3. ThisPinned'
  BY DEF PinInv, ThisPinned
<1> QED BY <1>2, <1>3 DEF PinInv

LEMMA CoveredSame ==
  ASSUME Covered, UNCHANGED registry, DOMAIN panels' = DOMAIN panels,
         \A p \in DOMAIN panels : panels'[p].styles = panels[p].styles
  PROVE  Covered'
BY DEF Covered, StyleIds

LEMMA QuietPins ==
  ASSUME UiInv, PinInv,
         \/ LoadThrows \/ DeleteOldScript \/ Returned \/ Reload \/ Close
         \/ \E p \in DOMAIN panels : runCallback(p)
         \/ UNCHANGED uiVars
  PROVE  PinInv'
<1>1. UNCHANGED <<panels, registry, ui_script, old_script, script>>
  BY DEF LoadThrows, DeleteOldScript, Returned, Reload, Close, runCallback, uiVars
<1>2. \A p \in DOMAIN panels : Building(p)' = Building(p)
  BY DEF Building, LoadThrows, DeleteOldScript, Returned, Reload, Close, runCallback, uiVars
<1>3. Alive'
  <2>1. ui_at \in {"delete", "ready"} => ui_script # 0
    BY DEF UiInv, UiTypes
  <2>2. CASE LoadThrows
    BY <1>1, <2>1, <2>2 DEF LoadThrows, PinInv, Alive
  <2>3. CASE DeleteOldScript
    BY <1>1, <2>1, <2>3 DEF DeleteOldScript, PinInv, Alive
  <2>4. CASE Returned \/ Reload \/ Close
    BY <1>1, <2>1, <2>4 DEF Returned, Reload, Close, PinInv, Alive
  <2>5. ASSUME NEW p \in DOMAIN panels, runCallback(p)
        PROVE  Alive'
    BY <1>1, <2>1, <2>5 DEF runCallback, Called, PinInv, Alive
  <2>6. CASE UNCHANGED uiVars
    BY <2>6 DEF uiVars, PinInv, Alive
  <2> QED BY <2>2, <2>3, <2>4, <2>5, <2>6
<1>4. Covered'
  BY <1>1, CoveredSame DEF PinInv
<1> QED BY <1>1, <1>2, <1>3, <1>4, PinsSame DEF PinInv

\* A new script has no objects yet.
LEMMA LoadPins ==
  ASSUME UiInv, PinInv, NEW runtime \in BOOLEAN, loadUiScript(runtime) PROVE PinInv'
<1>1. PICK s : s = NewScript(runtime)
  OBVIOUS
<1>2. /\ ui_at = "module" /\ ui_at' = "bind" /\ script' = Append(script, s)
      /\ ui_script' = Len(script) + 1 /\ old_script' = ui_script
      /\ live_scripts' = live_scripts \cup {Len(script) + 1}
      /\ UNCHANGED <<panels, registry, in_call, called_dead>>
  BY <1>1 DEF loadUiScript
<1>3. script \in Seq(UiScriptsSet) /\ ui_script \in 0 .. Len(script) /\ Len(script) \in Nat
  BY DEF UiInv, UiTypes
<1>4. /\ DOMAIN script' = DOMAIN script \cup {Len(script) + 1}
      /\ \A n \in DOMAIN script : script'[n] = script[n]
      /\ script'[Len(script) + 1] = s /\ DOMAIN script = 1 .. Len(script)
  BY <1>2, <1>3
<1>5. s.pins = <<>> /\ s.objects = 0 /\ Len(s.pins) = 0 /\ DOMAIN s.pins = {}
  BY <1>1 DEF NewScript
<1>6. Alive'
  BY <1>2, <1>3 DEF PinInv, Alive
<1>7. \A p \in DOMAIN panels : ~Building(p) /\ ~Building(p)'
  BY <1>2 DEF Building
<1>8. PinsHeld'
  <2>1. ASSUME NEW n \in DOMAIN script
        PROVE  /\ Len(script'[n].pins) = script'[n].objects
               /\ \A k \in DOMAIN script'[n].pins :
                    /\ script'[n].pins[k] \in {0, 1}
                    /\ script'[n].pins[k] = 1 =>
                         script'[n].runtime /\ \E p \in DOMAIN panels : Holds(p, n, k)
    BY <1>4 DEF PinInv, PinsHeld
  <2>2. \A p \in DOMAIN panels : \A n, k : Holds(p, n, k) => Holds(p, n, k)'
    BY <1>2, <1>7 DEF Holds
  <2> QED BY <1>2, <1>4, <1>5, <2>1, <2>2 DEF PinsHeld
<1>9. ThisPinned'
  BY <1>2, <1>4, <1>7 DEF PinInv, ThisPinned
<1>10. Covered' /\ IsFiniteSet(DOMAIN panels')
  BY <1>2, CoveredSame DEF PinInv
<1> QED BY <1>6, <1>8, <1>9, <1>10 DEF PinInv

\* A panel changes scripts: the old one is told to let go of its object.
LEMMA BindPins ==
  ASSUME UiInv, PinInv, NEW p \in DOMAIN panels, bindUiScript(p) PROVE PinInv'
<1>1. /\ ui_at = "bind" /\ ui_at' = "construct" /\ in_call = 0 /\ in_call' = p
      /\ panels[p].script # ui_script
      /\ UNCHANGED <<ui_script, old_script, live_scripts>>
      /\ IF panels[p].script = 0 THEN UNCHANGED called_dead ELSE Called(panels[p].script)
  BY DEF bindUiScript
<1>2. /\ DOMAIN panels' = DOMAIN panels
      /\ panels'[p] = [panels[p] EXCEPT !.script = ui_script, !.styles = <<>>]
      /\ \A q \in DOMAIN panels : q # p => panels'[q] = panels[q]
  BY DEF bindUiScript, NoStyles
<1>3. /\ \A q \in DOMAIN panels : panels[q] \in Panels /\ panels[q].this \in Pointers
      /\ script \in Seq(UiScriptsSet)
      /\ \A n \in DOMAIN script : n \in Nat /\ script[n] \in UiScriptsSet
  BY DEF UiInv, UiTypes, Panels
<1>4. /\ panels'[p].script = ui_script /\ panels'[p].styles = <<>>
      /\ \A q \in DOMAIN panels : panels'[q].this = panels[q].this
  BY <1>2, <1>3 DEF Panels
<1>5. PICK old, ptr : old = panels[p].script /\ ptr = panels[p].this
  OBVIOUS
<1>6. \A q \in DOMAIN panels : ~Building(q) /\ (Building(q)' <=> q = p)
  BY <1>1 DEF Building
<1>7. ptr # NullPointer => ptr = [script |-> old, number |-> ptr.number]
  BY <1>3, <1>5, <1>6 DEF PinInv, ThisPinned, Pointers
<1>8. /\ DOMAIN script' = DOMAIN script
      /\ \A n \in DOMAIN script :
           /\ script'[n].objects = script[n].objects /\ script'[n].runtime = script[n].runtime
           /\ Len(script'[n].pins) = Len(script[n].pins)
           /\ script'[n].pins \in Seq(Nat) /\ script[n].pins \in Seq(Nat)
           /\ \A k \in DOMAIN script[n].pins :
                script'[n].pins[k] =
                  IF n = old /\ ptr # NullPointer /\ script[n].runtime /\ k = ptr.number
                  THEN IF script[n].pins[k] = 0 THEN 0 ELSE script[n].pins[k] - 1
                  ELSE script[n].pins[k]
  <2>1. script' = [n \in DOMAIN script |->
                     IF n = old THEN AS_unpin(script[n], ptr)
                     ELSE IF n = ui_script
                          THEN [script[n] EXCEPT
                                  !.ids = @ \cup {<<panels[p].key, ThePanel(p)>>}]
                          ELSE script[n]]
    BY <1>5 DEF bindUiScript
  <2>2. DOMAIN script' = DOMAIN script
    BY <2>1
  <2> SUFFICES ASSUME NEW n \in DOMAIN script
               PROVE  /\ script'[n].objects = script[n].objects
                      /\ script'[n].runtime = script[n].runtime
                      /\ Len(script'[n].pins) = Len(script[n].pins)
                      /\ script'[n].pins \in Seq(Nat) /\ script[n].pins \in Seq(Nat)
                      /\ \A k \in DOMAIN script[n].pins :
                           script'[n].pins[k] =
                             IF n = old /\ ptr # NullPointer /\ script[n].runtime
                                /\ k = ptr.number
                             THEN IF script[n].pins[k] = 0 THEN 0 ELSE script[n].pins[k] - 1
                             ELSE script[n].pins[k]
    BY <2>2
  <2>3. script[n] \in UiScriptsSet /\ script[n].pins \in Seq(Nat) /\ ptr \in Pointers
    BY <1>3, <1>5 DEF UiScriptsSet
  <2>4. CASE n = old
    <3>1. script'[n] = AS_unpin(script[n], ptr)
      BY <2>1, <2>4
    <3>2. AS_unpin(script[n], ptr).pins \in Seq(Nat)
      BY <2>3, UnpinOne DEF UiScriptsSet
    <3> QED BY <2>3, <2>4, <3>1, <3>2, UnpinOne
  <2>5. CASE n # old
    <3>1. /\ script'[n].objects = script[n].objects /\ script'[n].runtime = script[n].runtime
          /\ script'[n].pins = script[n].pins
      BY <2>1, <2>3, <2>5 DEF UiScriptsSet
    <3> QED BY <2>3, <2>5, <3>1
  <2> QED BY <2>4, <2>5
<1>9. \A n \in DOMAIN script : DOMAIN script'[n].pins = DOMAIN script[n].pins
  BY <1>8
<1>10. Alive'
  <2>1. \A q \in DOMAIN panels : panels'[q].script \in {old_script, ui_script}
    BY <1>1, <1>2, <1>4 DEF PinInv, Alive
  <2>2. ~called_dead'
    BY <1>1 DEF PinInv, Alive, Called
  <2> QED BY <1>1, <1>2, <2>1, <2>2 DEF PinInv, Alive
<1>11. PinsHeld'
  <2> SUFFICES ASSUME NEW n \in DOMAIN script, NEW k \in DOMAIN script[n].pins
               PROVE  /\ script'[n].pins[k] \in {0, 1}
                      /\ script'[n].pins[k] = 1 =>
                           script[n].runtime /\ \E q \in DOMAIN panels : Holds(q, n, k)'
    BY <1>2, <1>8, <1>9 DEF PinInv, PinsHeld
  <2>1. script[n].pins[k] \in {0, 1}
    BY DEF PinInv, PinsHeld
  <2>2. CASE n = old /\ ptr # NullPointer /\ script[n].runtime /\ k = ptr.number
    BY <1>8, <2>1, <2>2
  <2>3. CASE ~(n = old /\ ptr # NullPointer /\ script[n].runtime /\ k = ptr.number)
    <3>1. script'[n].pins[k] = script[n].pins[k]
      BY <1>8, <2>3
    <3> SUFFICES ASSUME script[n].pins[k] = 1
                 PROVE  script[n].runtime /\ \E q \in DOMAIN panels : Holds(q, n, k)'
      BY <2>1, <3>1
    <3>2. PICK q \in DOMAIN panels : script[n].runtime /\ Holds(q, n, k)
      BY DEF PinInv, PinsHeld
    <3>3. q # p
      <4> SUFFICES ASSUME q = p PROVE FALSE
        OBVIOUS
      <4>1. ptr = [script |-> n, number |-> k] /\ n # 0
        BY <1>3, <1>5, <3>2 DEF Holds, UiInv, UiTypes
      <4>2. ptr # NullPointer /\ ptr.number = k
        BY <4>1 DEF NullPointer
      <4>3. ptr.script = n
        BY <4>1
      <4>4. ptr.script = old
        BY <1>5, <1>6, <4>2 DEF PinInv, ThisPinned
      <4> QED BY <2>3, <3>2, <4>2, <4>3, <4>4
    <3>4. Holds(q, n, k)'
      BY <1>4, <1>6, <3>2, <3>3 DEF Holds
    <3> QED BY <3>2, <3>4
  <2> QED BY <2>2, <2>3
<1>12. ThisPinned'
  <2> SUFFICES ASSUME NEW q \in DOMAIN panels, q # p, panels[q].this # NullPointer
               PROVE  /\ panels[q].this.script = panels[q].script
                      /\ panels[q].script \in DOMAIN script
                      /\ panels[q].this.number \in DOMAIN script[panels[q].script].pins
                      /\ script[panels[q].script].runtime =>
                           script'[panels[q].script].pins[panels[q].this.number] = 1
                      /\ \A r \in DOMAIN panels : panels[r].this = panels[q].this => q = r
    BY <1>2, <1>4, <1>6, <1>8, <1>9 DEF ThisPinned
  <2>1. PICK n, k : n = panels[q].script /\ k = panels[q].this.number
    OBVIOUS
  <2>2. /\ panels[q].this.script = n /\ n \in DOMAIN script /\ k \in DOMAIN script[n].pins
        /\ script[n].runtime => script[n].pins[k] = 1
        /\ \A r \in DOMAIN panels : panels[r].this = panels[q].this => q = r
    BY <1>6, <2>1 DEF PinInv, ThisPinned
  <2>3. panels[q].this = [script |-> n, number |-> k]
    BY <1>3, <2>1, <2>2 DEF Pointers
  <2>4. ~(n = old /\ ptr # NullPointer /\ k = ptr.number)
    BY <1>5, <1>7, <2>2, <2>3
  <2>5. script[n].runtime => script'[n].pins[k] = 1
    BY <1>8, <2>2, <2>4
  <2> QED BY <2>1, <2>2, <2>5
<1>13. Covered'
  <2>1. registry' = [i \in DOMAIN registry |->
                       IF i - 1 \in StyleIds(p) THEN Removed ELSE registry[i]]
    BY DEF bindUiScript, WithoutStyles, removeAll
  <2>2. \A q \in DOMAIN panels : q # p => StyleIds(q)' = StyleIds(q)
    BY <1>2 DEF StyleIds
  <2>3. \A i \in DOMAIN registry' : registry'[i] # Removed =>
          i \in DOMAIN registry /\ registry[i] # Removed /\ i - 1 \notin StyleIds(p)
    BY <2>1
  <2> QED BY <1>2, <2>2, <2>3 DEF PinInv, Covered
<1> QED BY <1>2, <1>10, <1>11, <1>12, <1>13 DEF PinInv

\* The new style is a panel's.
LEMMA StylePins ==
  ASSUME UiInv, PinInv, NEW p \in DOMAIN panels, createGlyphStyle(p) PROVE PinInv'
<1>1. PICK k, id :
        /\ k \in 1 .. Len(registry) + 1
        /\ DOMAIN registry' = DOMAIN registry \cup {k}
        /\ k \in DOMAIN registry => registry[k] = Removed
        /\ \A i \in DOMAIN registry : i # k => registry'[i] = registry[i]
        /\ id = k - 1 /\ id = IdOf(registry', TheStyle(styles_made + 1))
  BY StyleStored
<1>2. PICK more, known :
        /\ panels' = [panels EXCEPT ![p].styles = more] /\ more = Append(panels[p].styles, id)
        /\ script' = [script EXCEPT ![ui_script].ids = known]
        /\ UNCHANGED <<ui_at, in_call, ui_script, old_script, live_scripts, called_dead>>
  BY <1>1 DEF createGlyphStyle
<1>3. /\ panels[p] \in Panels /\ panels[p].styles \in Seq(Nat)
      /\ \A n \in DOMAIN script : script[n] \in UiScriptsSet
      /\ registry \in Seq(Objects) /\ Len(registry) \in Nat
  BY DEF UiInv, UiTypes, Panels
<1>4. /\ DOMAIN panels' = DOMAIN panels /\ panels'[p] = [panels[p] EXCEPT !.styles = more]
      /\ \A q \in DOMAIN panels : q # p => panels'[q] = panels[q]
  BY <1>2
<1>5. /\ panels'[p].styles = more
      /\ \A q \in DOMAIN panels :
           panels'[q].this = panels[q].this /\ panels'[q].script = panels[q].script
  BY <1>3, <1>4 DEF Panels
<1>6. /\ DOMAIN script' = DOMAIN script
      /\ \A n \in DOMAIN script :
           /\ script'[n].pins = script[n].pins /\ script'[n].objects = script[n].objects
           /\ script'[n].runtime = script[n].runtime
  BY <1>2, <1>3 DEF UiScriptsSet
<1>7. \A q \in DOMAIN panels : Building(q)' = Building(q)
  BY <1>2 DEF Building
<1>8. Alive'
  BY <1>2, <1>4, <1>5 DEF PinInv, Alive
<1>9. Covered'
  <2>1. id \in Nat
    BY <1>1, <1>3
  <2>2. StyleIds(p)' = StyleIds(p) \cup {id}
    <3>1. /\ DOMAIN more = DOMAIN panels[p].styles \cup {Len(panels[p].styles) + 1}
          /\ more[Len(panels[p].styles) + 1] = id
          /\ \A i \in DOMAIN panels[p].styles : more[i] = panels[p].styles[i]
      BY <1>2, <1>3, <2>1
    <3> QED BY <1>5, <3>1 DEF StyleIds, ToSet
  <2>3. \A q \in DOMAIN panels : q # p => StyleIds(q)' = StyleIds(q)
    BY <1>4 DEF StyleIds
  <2>4. \A i \in DOMAIN registry' : i = k \/ (i \in DOMAIN registry /\ registry'[i] = registry[i])
    BY <1>1
  <2> QED BY <1>1, <1>4, <2>2, <2>3, <2>4 DEF PinInv, Covered
<1> QED BY <1>4, <1>5, <1>6, <1>7, <1>8, <1>9, PinsSame DEF PinInv

\* The constructor returns: its object is new, and pinned once.
LEMMA ConstructedPins ==
  ASSUME UiInv, PinInv, NEW works \in BOOLEAN, Constructed(works) PROVE PinInv'
<1>1. PICK p, n, s : /\ p = in_call /\ n = ui_script
                     /\ s = [script[n] EXCEPT !.objects = @ + 1, !.pins = Append(@, 0)]
  OBVIOUS
<1>2. PICK ptr : ptr = IF works THEN [script |-> n, number |-> s.objects] ELSE NullPointer
  OBVIOUS
<1>3. PICK new : new = IF works THEN AS_pin(s, ptr) ELSE script[n]
  OBVIOUS
<1>4. /\ ui_at = "construct" /\ p \in DOMAIN panels /\ panels[p].script = n
      /\ in_call' = 0 /\ ui_at' = IF AllBound THEN "delete" ELSE "bind"
      /\ script' = [script EXCEPT ![n] = new]
      /\ panels' = [panels EXCEPT ![p].this = ptr]
      /\ Called(n) /\ UNCHANGED <<registry, ui_script, old_script, live_scripts>>
  BY <1>1, <1>2, <1>3 DEF Constructed, Running, FailedThis, PinInv, Alive
<1>5. /\ n \in DOMAIN script /\ n # 0 /\ n \in Nat
      /\ \A m \in DOMAIN script : script[m] \in UiScriptsSet
      /\ \A q \in DOMAIN panels : panels[q] \in Panels
  <2>1. script \in Seq(UiScriptsSet) /\ ui_script \in 0 .. Len(script) /\ ui_script # 0
    BY <1>4 DEF UiInv, UiTypes
  <2>2. n \in DOMAIN script /\ n # 0 /\ n \in Nat
    BY <1>1, <2>1
  <2>3. \A q \in DOMAIN panels : panels[q] \in Panels
    BY DEF UiInv, UiTypes
  <2> QED BY <2>1, <2>2, <2>3
<1>6. script[n].pins \in Seq(Nat)
  BY <1>5 DEF UiScriptsSet
<1>7. PICK j, longer : j = script[n].objects + 1 /\ longer = Append(script[n].pins, 0)
  OBVIOUS
<1>8. j = Len(script[n].pins) + 1 /\ j \in Nat
  BY <1>5, <1>6, <1>7 DEF PinInv, PinsHeld
<1>9. /\ longer \in Seq(Nat) /\ DOMAIN longer = DOMAIN script[n].pins \cup {j}
      /\ \A k \in DOMAIN script[n].pins : longer[k] = script[n].pins[k] /\ k # j
      /\ longer[j] = 0 /\ Len(longer) = j
  BY <1>6, <1>7, <1>8
<1>10. /\ s \in UiScriptsSet /\ s.objects = j /\ s.pins = longer
       /\ s.runtime = script[n].runtime
  BY <1>1, <1>5, <1>7, <1>8, <1>9 DEF UiScriptsSet
<1>11. /\ DOMAIN panels' = DOMAIN panels /\ panels'[p].this = ptr
       /\ \A q \in DOMAIN panels : q # p => panels'[q].this = panels[q].this
       /\ \A q \in DOMAIN panels :
            panels'[q].script = panels[q].script /\ panels'[q].styles = panels[q].styles
  BY <1>4, <1>5 DEF Panels
<1>12. /\ DOMAIN script' = DOMAIN script /\ script'[n] = new
       /\ \A m \in DOMAIN script : m # n => script'[m] = script[m]
  BY <1>4, <1>5
<1>13. \A q \in DOMAIN panels : (Building(q) <=> q = p) /\ ~Building(q)'
  BY <1>1, <1>4 DEF Building
<1>14. Alive'
  BY <1>1, <1>4, <1>5, <1>11 DEF PinInv, Alive, AllBound, Called
<1>15. Covered'
  BY <1>4, <1>11, CoveredSame DEF PinInv
<1>16. \A q \in DOMAIN panels : \A m, k : Holds(q, m, k) => q # p /\ Holds(q, m, k)'
  BY <1>11, <1>13 DEF Holds
<1>17. ASSUME NEW m \in DOMAIN script, NEW k \in DOMAIN script[m].pins
       PROVE  /\ script[m].pins[k] \in {0, 1}
              /\ script[m].pins[k] = 1 =>
                   script[m].runtime /\ \E q \in DOMAIN panels : Holds(q, m, k)'
  BY <1>16 DEF PinInv, PinsHeld
<1>18. ASSUME NEW q \in DOMAIN panels, q # p, panels[q].this # NullPointer
       PROVE  /\ panels[q].this.script = panels[q].script /\ panels[q].script \in DOMAIN script
              /\ panels[q].this.number \in DOMAIN script[panels[q].script].pins
              /\ script[panels[q].script].runtime =>
                   script[panels[q].script].pins[panels[q].this.number] = 1
              /\ \A r \in DOMAIN panels : r # p /\ panels[r].this = panels[q].this => q = r
  BY <1>13, <1>18 DEF PinInv, ThisPinned
<1>19. CASE works
  <2>1. ptr = [script |-> n, number |-> j] /\ ptr # NullPointer
        /\ ptr.number = j /\ ptr.script = n
    BY <1>2, <1>5, <1>10, <1>19 DEF NullPointer
  <2>2. /\ new.objects = j /\ new.runtime = s.runtime /\ DOMAIN new.pins = DOMAIN longer
        /\ Len(new.pins) = j
        /\ \A k \in DOMAIN longer : k # j => new.pins[k] = longer[k]
        /\ new.pins[j] = IF s.runtime THEN 1 ELSE 0
    <3>1. CASE ~s.runtime
      <4>1. new = s
        BY <1>3, <1>19, <3>1 DEF AS_pin
      <4> QED BY <1>9, <1>10, <3>1, <4>1
    <3>2. CASE s.runtime
      <4>1. PICK up : up = [longer EXCEPT ![j] = 1]
        OBVIOUS
      <4>2. up = [s.pins EXCEPT ![ptr.number] = @ + 1]
        BY <1>9, <1>10, <2>1, <4>1
      <4>3. new = [s EXCEPT !.pins = up]
        BY <1>3, <1>19, <2>1, <3>2, <4>2 DEF AS_pin, UiScriptsSet
      <4>4. /\ DOMAIN up = DOMAIN longer /\ up \in Seq(Nat) /\ Len(up) = j
            /\ up[j] = 1 /\ \A k \in DOMAIN longer : k # j => up[k] = longer[k]
        BY <1>8, <1>9, <4>1
      <4>5. new.pins = up /\ new.objects = s.objects /\ new.runtime = s.runtime
        BY <1>10, <4>3, <4>4 DEF UiScriptsSet
      <4> QED BY <1>10, <3>2, <4>4, <4>5
    <3> QED BY <3>1, <3>2
  <2>3. /\ DOMAIN new.pins = DOMAIN script[n].pins \cup {j} /\ new.runtime = script[n].runtime
        /\ j \notin DOMAIN script[n].pins
        /\ \A k \in DOMAIN script[n].pins : new.pins[k] = script[n].pins[k]
        /\ new.pins[j] = IF script[n].runtime THEN 1 ELSE 0
    BY <1>9, <1>10, <2>2
  <2>4. Holds(p, n, j)'
    BY <1>4, <1>11, <1>13, <2>1 DEF Holds
  <2>5. PinsHeld'
    <3>1. ASSUME NEW m \in DOMAIN script
          PROVE  /\ Len(script'[m].pins) = script'[m].objects
                 /\ \A k \in DOMAIN script'[m].pins :
                      /\ script'[m].pins[k] \in {0, 1}
                      /\ script'[m].pins[k] = 1 =>
                           script'[m].runtime /\ \E q \in DOMAIN panels : Holds(q, m, k)'
      <4>1. CASE m = n
        <5>1. Len(script'[n].pins) = script'[n].objects
          BY <1>12, <2>2
        <5>2. ASSUME NEW k \in DOMAIN script'[n].pins
              PROVE  /\ script'[n].pins[k] \in {0, 1}
                     /\ script'[n].pins[k] = 1 =>
                          script'[n].runtime /\ \E q \in DOMAIN panels : Holds(q, n, k)'
          <6>1. CASE k = j
            BY <1>4, <1>12, <2>3, <2>4, <6>1
          <6>2. CASE k # j
            BY <1>5, <1>12, <1>17, <2>3, <6>2
          <6> QED BY <6>1, <6>2
        <5> QED BY <4>1, <5>1, <5>2
      <4>2. CASE m # n
        BY <1>12, <1>17, <4>2 DEF PinInv, PinsHeld
      <4> QED BY <4>1, <4>2
    <3> QED BY <1>11, <1>12, <3>1 DEF PinsHeld
  <2>6. ThisPinned'
    <3>1. ASSUME NEW q \in DOMAIN panels, panels'[q].this # NullPointer
          PROVE  /\ panels'[q].this.script = panels[q].script
                 /\ panels[q].script \in DOMAIN script
                 /\ panels'[q].this.number \in DOMAIN script'[panels[q].script].pins
                 /\ script'[panels[q].script].runtime =>
                      script'[panels[q].script].pins[panels'[q].this.number] = 1
                 /\ \A r \in DOMAIN panels : panels'[r].this = panels'[q].this => q = r
      <4>1. \A r \in DOMAIN panels : r # p => panels'[r].this # ptr
        <5> SUFFICES ASSUME NEW r \in DOMAIN panels, r # p, panels[r].this = ptr PROVE FALSE
          BY <1>11
        <5>1. panels[r].script = n /\ j \in DOMAIN script[n].pins
          BY <1>18, <2>1
        <5> QED BY <2>3, <5>1
      <4>2. CASE q = p
        BY <1>4, <1>5, <1>11, <1>12, <2>1, <2>3, <4>1, <4>2
      <4>3. CASE q # p
        <5>1. panels'[q].this = panels[q].this /\ panels[q].this # NullPointer
          BY <1>11, <3>1, <4>3
        <5>2. PICK m, k : m = panels[q].script /\ k = panels[q].this.number
          OBVIOUS
        <5>3. /\ panels[q].this.script = m /\ m \in DOMAIN script /\ k \in DOMAIN script[m].pins
              /\ script[m].runtime => script[m].pins[k] = 1
              /\ \A r \in DOMAIN panels : r # p /\ panels[r].this = panels[q].this => q = r
          BY <1>18, <4>3, <5>1, <5>2
        <5>4. /\ k \in DOMAIN script'[m].pins /\ script'[m].runtime = script[m].runtime
              /\ script'[m].pins[k] = script[m].pins[k]
          BY <1>12, <2>3, <5>3
        <5>5. \A r \in DOMAIN panels : panels'[r].this = panels'[q].this => q = r
          BY <1>11, <4>1, <4>3, <5>1, <5>3
        <5> QED BY <5>1, <5>2, <5>3, <5>4, <5>5
      <4> QED BY <4>2, <4>3
    <3> QED BY <1>11, <1>12, <1>13, <3>1 DEF ThisPinned
  <2> QED BY <1>11, <1>14, <1>15, <2>5, <2>6 DEF PinInv
<1>20. CASE ~works
  <2>1. ptr = NullPointer /\ \A m \in DOMAIN script : script'[m] = script[m]
    BY <1>2, <1>3, <1>12, <1>20
  <2>2. PinsHeld'
    BY <1>11, <1>12, <1>17, <2>1 DEF PinInv, PinsHeld
  <2>3. ThisPinned'
    BY <1>11, <1>12, <1>13, <1>18, <2>1 DEF ThisPinned
  <2> QED BY <1>11, <1>14, <1>15, <2>2, <2>3 DEF PinInv
<1> QED BY <1>19, <1>20

\* When the interface goes, the panels are what all that is pinned is pinned
\* for, and what all that is registered belongs to.
LEMMA DestroyPins ==
  ASSUME UiInv, PinInv, DestroyInterface PROVE Kept'
<1>1. PICK n, s : n = ui_script /\ s = script[n]
  OBVIOUS
<1>2. /\ ui_at = "destroy" /\ ui_at' = "gone" /\ Called(n)
      /\ script' = [script EXCEPT ![n] = AS_unpinAll(s)]
      /\ registry' = removeAll(registry,
                       UNION {{panels[p].key} \cup StyleIds(p) : p \in DOMAIN panels})
  BY <1>1 DEF DestroyInterface
<1>3. /\ n # 0 /\ n \in DOMAIN script /\ n \in live_scripts
      /\ \A m \in DOMAIN script : m \in Nat /\ m # 0 /\ script[m] \in UiScriptsSet
      /\ \A p \in DOMAIN panels : panels[p] \in Panels /\ panels[p].script = n
  <2>1. n # 0 /\ n \in live_scripts /\ \A p \in DOMAIN panels : panels[p].script = n
    BY <1>1, <1>2 DEF PinInv, Alive
  <2>2. /\ script \in Seq(UiScriptsSet) /\ n \in 0 .. Len(script)
        /\ \A p \in DOMAIN panels : panels[p] \in Panels
    BY <1>1 DEF UiInv, UiTypes
  <2> QED BY <2>1, <2>2
<1>4. ~called_dead'
  BY <1>2, <1>3 DEF Called, PinInv, Alive
<1>5. ToSet(registry') \subseteq {Removed}
  <2>1. PICK gone : gone = UNION {{panels[p].key} \cup StyleIds(p) : p \in DOMAIN panels}
    OBVIOUS
  <2>2. registry' = [i \in DOMAIN registry |-> IF i - 1 \in gone THEN Removed ELSE registry[i]]
    BY <1>2, <2>1 DEF removeAll
  <2>3. ASSUME NEW i \in DOMAIN registry, registry[i] # Removed
        PROVE  i - 1 \in gone
    <3>1. PICK p \in DOMAIN panels : i = p \/ i - 1 \in StyleIds(p)
      BY <2>3 DEF PinInv, Covered
    <3>2. panels[p].key = p - 1
      BY <1>2 DEF UiInv, Registered
    <3>3. i - 1 \in {panels[p].key} \cup StyleIds(p)
      BY <3>1, <3>2
    <3> QED BY <2>1, <3>3
  <2>4. \A i \in DOMAIN registry' : registry'[i] = Removed
    BY <2>2, <2>3
  <2> QED BY <2>4 DEF ToSet
<1>6. ASSUME NEW m \in DOMAIN script, NEW k \in DOMAIN script[m].pins, script[m].pins[k] # 0
      PROVE  /\ m = n /\ script[n].runtime /\ script[m].pins[k] = 1
             /\ \E p \in DOMAIN panels : panels[p].this.number = k
  <2>1. PICK p \in DOMAIN panels :
          /\ script[m].pins[k] = 1 /\ script[m].runtime
          /\ ~Building(p) /\ panels[p].this = [script |-> m, number |-> k]
    BY <1>6 DEF PinInv, PinsHeld, Holds
  <2>2. panels[p].this.script = m /\ panels[p].this.number = k
    BY <2>1
  <2>3. panels[p].this # NullPointer
    BY <1>3, <2>2 DEF NullPointer
  <2>4. m = n
    BY <1>3, <2>1, <2>2, <2>3 DEF PinInv, ThisPinned
  <2> QED BY <2>1, <2>2, <2>4
<1>7. ASSUME NEW m \in DOMAIN script', NEW k \in DOMAIN script'[m].pins
      PROVE  script'[m].pins[k] = 0
  <2>1. m \in DOMAIN script
    BY <1>2
  <2>2. CASE m # n \/ ~s.runtime
    <3>1. script'[m] = script[m]
      BY <1>1, <1>2, <1>3, <2>1, <2>2 DEF AS_unpinAll
    <3> QED BY <1>1, <1>6, <2>1, <2>2, <3>1
  <2>3. CASE m = n /\ s.runtime
    <3>1. PICK down : down = [i \in DOMAIN s.pins |->
             LET held == Cardinality({p \in DOMAIN panels : panels[p].this.number = i})
             IN  IF s.pins[i] < held THEN 0 ELSE s.pins[i] - held]
      OBVIOUS
    <3>2. s \in UiScriptsSet /\ s.pins \in Seq(Nat)
      BY <1>1, <1>3 DEF UiScriptsSet
    <3>3. script'[m].pins = down
      <4>1. script'[m] = [s EXCEPT !.pins = down]
        BY <1>1, <1>2, <1>3, <2>3, <3>1 DEF AS_unpinAll
      <4> QED BY <3>2, <4>1 DEF UiScriptsSet
    <3>4. k \in DOMAIN s.pins
      BY <3>1, <3>3
    <3>5. PICK having : having = {p \in DOMAIN panels : panels[p].this.number = k}
      OBVIOUS
    <3>6. down[k] = IF s.pins[k] < Cardinality(having) THEN 0 ELSE s.pins[k] - Cardinality(having)
      BY <3>1, <3>4, <3>5
    <3>7. IsFiniteSet(having)
      BY <3>5, FS_Subset DEF PinInv
    <3>8. /\ Cardinality(having) \in Nat
          /\ having # {} => Cardinality(having) # 0
      BY <3>7, FS_CardinalityType, FS_EmptySet
    <3>9. s.pins[k] = 0 \/ (s.pins[k] = 1 /\ having # {})
      BY <1>1, <1>6, <2>1, <2>3, <3>4, <3>5
    <3> QED BY <3>3, <3>6, <3>8, <3>9
  <2> QED BY <2>2, <2>3
<1> QED BY <1>2, <1>4, <1>5, <1>7 DEF Kept, NothingLeftBehind

LEMMA PinStep == ASSUME UiHeld, Kept, [UiNext]_uiVars PROVE Kept'
<1>1. CASE ui_at = "gone"
  BY <1>1 DEF Kept, NothingLeftBehind, UiHeld, UiNext, uiVars, LoadThrows, loadUiScript,
     bindUiScript, createGlyphStyle, Running, Constructed, DeleteOldScript, runCallback, Returned,
     Reload, Close, DestroyInterface
<1>2. CASE ui_at # "gone"
  <2>1. UiInv /\ PinInv
    BY <1>2 DEF UiHeld, Kept
  <2>2. CASE DestroyInterface
    BY <2>1, <2>2, DestroyPins
  <2>3. CASE ~DestroyInterface
    <3>1. PinInv'
      BY <2>1, <2>3, QuietPins, LoadPins, BindPins, StylePins, ConstructedPins DEF UiNext
    <3>2. ui_at' # "gone"
      BY <1>2, <2>3 DEF UiNext, uiVars, LoadThrows, loadUiScript, bindUiScript,
         createGlyphStyle, Constructed, DeleteOldScript, runCallback, Returned, Reload, Close
    <3> QED BY <3>1, <3>2 DEF Kept
  <2> QED BY <2>2, <2>3
<1> QED BY <1>1, <1>2

\* A panel's callbacks are given an object of the script they run in, pinned
\* once; no deleted script is called, and nothing is left registered or pinned
\* when the interface goes: for any number of panels, objects and scripts, and
\* whichever constructors and exchanges of scripts fail.
THEOREM CallbacksAreServed ==
  ASSUME PanelCounts \subseteq Nat PROVE UiSpec => []CallbacksHaveTheirObject
<1>1. UiInit => UiHeld /\ Kept
  BY UiBegin, PinBegin DEF UiHeld, Kept, UiInit
<1>2. UiHeld /\ Kept /\ [UiNext]_uiVars => (UiHeld /\ Kept)'
  BY UiStep, PinStep
<1>3. UiHeld /\ Kept => CallbacksHaveTheirObject
  <2> SUFFICES ASSUME UiHeld, Kept PROVE CallbacksHaveTheirObject
    OBVIOUS
  <2>1. NothingLeftBehind /\ ~called_dead
    BY DEF Kept, NothingLeftBehind, PinInv, Alive
  <2>2. ASSUME ui_at = "ready", in_call # 0, panels[in_call].this # NullPointer
        PROVE  /\ panels[in_call].this.script = ui_script
               /\ script[ui_script].runtime =>
                    script[ui_script].pins[panels[in_call].this.number] = 1
    <3>1. /\ in_call \in DOMAIN panels /\ panels[in_call].script = ui_script
          /\ ~Building(in_call) /\ ThisPinned
      BY <2>2 DEF Kept, PinInv, Alive, Building
    <3> QED BY <2>2, <3>1 DEF ThisPinned
  <2> QED BY <2>1, <2>2 DEF CallbacksHaveTheirObject
<1> QED BY <1>1, <1>2, <1>3, PTL DEF UiSpec
=============================================================================
