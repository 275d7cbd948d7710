------------------------------- MODULE UiScripts -------------------------------
(***************************************************************************)
(* The user interface's panels and the script that runs them.  A script    *)
(* names the engine's objects by ids into a registry, which gives out the  *)
(* ids of removed objects again and does not look at their class; the      *)
(* engine names a script's objects by pointers, which are good as long as  *)
(* the script's collector is told to keep the object, and only in that     *)
(* script.  The script is loaded again (F5) while the panels stay.         *)
(*                                                                         *)
(* What the script does inside a call is any sequence of calls back into   *)
(* the engine; it uses ids it was given.                                   *)
(***************************************************************************)
EXTENDS Naturals, Sequences, FiniteSets, SequencesExt

CONSTANTS
  PanelCounts,      \* the constructor makes one panel; all code goes over a list
  MaxStyles,        \* styles that are ever made: a bound
  MaxScripts        \* scripts that are ever loaded: a bound

VARIABLES
  ui_at,            \* where UserInterface is
  panels,           \* what each panel has: key, ui_script, _this_ptr, _styles (ids)
  registry,         \* object_registry of the environment
  ui_script,        \* UserInterface::ui_script, 0 if none
  old_script,       \* of loadUiScript
  live_scripts,     \* not deleted yet
  script,           \* per loaded script: does it export the AssemblyScript
                    \* runtime, what objects it made, how often each is pinned,
                    \* and what it was told each id is
  in_call,          \* the panel whose callback or constructor runs, 0 if none
  styles_made,
  called_dead       \* a script was called after its deletion

uiVars == <<ui_at, panels, registry, ui_script, old_script, live_scripts, script, in_call,
            styles_made, called_dead>>

Removed == [class |-> "none", number |-> 0]
ThePanel(p) == [class |-> "panel", number |-> p]
TheStyle(n) == [class |-> "style", number |-> n]
NullPointer == [script |-> 0, number |-> 0]
-----------------------------------------------------------------------------
(* ScriptEnvironment's registry, ids from 0.                                *)
storeInRegistry(reg, object) ==
  IF Contains(reg, Removed)
  THEN [reg EXCEPT ![CHOOSE i \in DOMAIN reg :
                       reg[i] = Removed /\ \A j \in 1 .. i - 1 : reg[j] # Removed] = object]
  ELSE Append(reg, object)
IdOf(reg, object) == (CHOOSE i \in DOMAIN reg : reg[i] = object) - 1
getFromRegistry(reg, id) == IF id >= Len(reg) THEN Removed ELSE reg[id + 1]
removeAll(reg, ids) == [i \in DOMAIN reg |-> IF i - 1 \in ids THEN Removed ELSE reg[i]]
-----------------------------------------------------------------------------
(* ScriptInstance: AS_pin and AS_unpin fail on a null pointer and when the  *)
(* runtime is not exported.                                                 *)
NewScript(runtime) == [runtime |-> runtime, objects |-> 0, pins |-> <<>>, ids |-> {}]

AS_pin(s, ptr) ==
  IF ptr = NullPointer \/ ~s.runtime THEN s ELSE [s EXCEPT !.pins[ptr.number] = @ + 1]
AS_unpin(s, ptr) ==
  IF ptr = NullPointer \/ ~s.runtime \/ ptr.number \notin DOMAIN s.pins THEN s
  ELSE [s EXCEPT !.pins[ptr.number] = IF @ = 0 THEN 0 ELSE @ - 1]

Called(n) == called_dead' = (called_dead \/ n \notin live_scripts)
-----------------------------------------------------------------------------
UiInit ==
  \E n \in PanelCounts :
    /\ ui_at = "module" /\ ui_script = 0 /\ old_script = 0 /\ live_scripts = {}
    /\ panels = [p \in 1 .. n |-> [key |-> p - 1, script |-> 0, this |-> NullPointer,
                                   styles |-> <<>>]]
    /\ registry = [p \in 1 .. n |-> ThePanel(p)]
    /\ script = <<>> /\ in_call = 0 /\ styles_made = 0 /\ called_dead = FALSE

\* log_ftl in loadUiScript, before or in the constructor of UiScript: the
\* panels keep the script they have.  From the constructor of UserInterface
\* nothing is taken down, from the key F5 everything.
LoadThrows ==
  /\ ui_at = "module"
  /\ ui_at' = IF ui_script = 0 THEN "leaked" ELSE "destroy"
  /\ UNCHANGED <<panels, registry, ui_script, old_script, live_scripts, script, in_call,
                 styles_made, called_dead>>

loadUiScript(runtime) ==
  /\ ui_at = "module" /\ Len(script) < MaxScripts
  /\ script' = Append(script, NewScript(runtime))
  /\ ui_script' = Len(script) + 1 /\ old_script' = ui_script
  /\ live_scripts' = live_scripts \cup {Len(script) + 1}
  /\ ui_at' = "bind"
  /\ UNCHANGED <<panels, registry, in_call, styles_made, called_dead>>

StyleIds(p) == ToSet(panels[p].styles)

KeepStyles(p) == panels[p].styles                              \* a mutant
NoStyles(p) == <<>>

WithoutStyles(p) == removeAll(registry, StyleIds(p))

\* UiPanel::bindUiScript up to AS_construct: let go of the old script's object
\* and of the styles it made.
bindUiScript(p) ==
  /\ ui_at = "bind" /\ in_call = 0 /\ panels[p].script # ui_script
  /\ \A q \in 1 .. p - 1 : panels[q].script = ui_script
  /\ IF panels[p].script = 0 THEN UNCHANGED called_dead ELSE Called(panels[p].script)
  /\ script' = [n \in DOMAIN script |->
                  IF n = panels[p].script THEN AS_unpin(script[n], panels[p].this)
                  ELSE IF n = ui_script
                       THEN [script[n] EXCEPT !.ids = @ \cup {<<panels[p].key, ThePanel(p)>>}]
                       ELSE script[n]]
  /\ registry' = WithoutStyles(p)
  /\ panels' = [panels EXCEPT ![p].script = ui_script, ![p].styles = NoStyles(p)]
  /\ in_call' = p /\ ui_at' = "construct"
  /\ UNCHANGED <<ui_script, old_script, live_scripts, styles_made>>

Running == in_call # 0 /\ panels[in_call].script = ui_script

\* UiPanel::createGlyphStyle, called by the script on a panel it knows.
createGlyphStyle(p) ==
  /\ Running /\ styles_made < MaxStyles
  /\ <<panels[p].key, ThePanel(p)>> \in script[ui_script].ids
  /\ getFromRegistry(registry, panels[p].key) = ThePanel(p)
  /\ LET style == TheStyle(styles_made + 1)
     IN  /\ registry' = storeInRegistry(registry, style)
         /\ panels' = [panels EXCEPT ![p].styles = Append(@, IdOf(registry', style))]
         /\ script' = [script EXCEPT ![ui_script].ids =
                         @ \cup {<<IdOf(registry', style), style>>}]
  /\ styles_made' = styles_made + 1
  /\ UNCHANGED <<ui_at, ui_script, old_script, live_scripts, in_call, called_dead>>

StaleThis(p) == panels[p].this                                 \* a mutant
FailedThis(p) == NullPointer

AllBound == \A p \in DOMAIN panels : panels[p].script = ui_script

\* AS_construct returns: the new object is pinned; without one the panel has
\* none.
Constructed(works) ==
  /\ ui_at = "construct" /\ Running
  /\ LET s == [script[ui_script] EXCEPT !.objects = @ + 1, !.pins = Append(@, 0)]
         ptr == IF works THEN [script |-> ui_script, number |-> s.objects]
                ELSE FailedThis(in_call)
     IN  /\ script' = [script EXCEPT ![ui_script] = IF works THEN AS_pin(s, ptr) ELSE @]
         /\ panels' = [panels EXCEPT ![in_call].this = ptr]
  /\ Called(ui_script)
  /\ in_call' = 0 /\ ui_at' = IF AllBound THEN "delete" ELSE "bind"
  /\ UNCHANGED <<registry, ui_script, old_script, live_scripts, styles_made>>

DeleteOldScript ==
  /\ ui_at = "delete" /\ ui_at' = "ready"
  /\ live_scripts' = live_scripts \ {old_script}
  /\ UNCHANGED <<panels, registry, ui_script, old_script, script, in_call, styles_made,
                 called_dead>>

\* UiPanel::update, onHover and the others: the callback is given _this_ptr.
runCallback(p) ==
  /\ ui_at = "ready" /\ in_call = 0 /\ in_call' = p /\ Called(panels[p].script)
  /\ UNCHANGED <<ui_at, panels, registry, ui_script, old_script, live_scripts, script,
                 styles_made>>

Returned ==
  /\ ui_at = "ready" /\ in_call # 0 /\ in_call' = 0
  /\ UNCHANGED <<ui_at, panels, registry, ui_script, old_script, live_scripts, script,
                 styles_made, called_dead>>

Reload ==
  /\ ui_at = "ready" /\ in_call = 0 /\ ui_at' = "module"
  /\ UNCHANGED <<panels, registry, ui_script, old_script, live_scripts, script, in_call,
                 styles_made, called_dead>>

Close ==
  /\ ui_at = "ready" /\ in_call = 0 /\ ui_at' = "destroy"
  /\ UNCHANGED <<panels, registry, ui_script, old_script, live_scripts, script, in_call,
                 styles_made, called_dead>>

\* AS_unpin for every panel: an object loses a pin for each that has it.
AS_unpinAll(s) ==
  IF ~s.runtime THEN s
  ELSE [s EXCEPT !.pins = [k \in DOMAIN s.pins |->
          LET held == Cardinality({p \in DOMAIN panels : panels[p].this.number = k})
          IN  IF s.pins[k] < held THEN 0 ELSE s.pins[k] - held]]

\* ~UserInterface: ~UiPanel unpins its object and deletes its styles, and
\* ~DynamicScriptObject takes them and the panel out of the registry; then the
\* script goes.
DestroyInterface ==
  /\ ui_at = "destroy" /\ ui_at' = "gone"
  /\ script' = [script EXCEPT ![ui_script] = AS_unpinAll(@)]
  /\ Called(ui_script)
  /\ registry' = removeAll(registry, UNION {{panels[p].key} \cup StyleIds(p) : p \in DOMAIN panels})
  /\ live_scripts' = live_scripts \ {ui_script}
  /\ UNCHANGED <<panels, ui_script, old_script, in_call, styles_made>>

UiNext ==
  \/ LoadThrows \/ DeleteOldScript \/ Returned \/ Reload \/ Close \/ DestroyInterface
  \/ \E runtime \in BOOLEAN : loadUiScript(runtime)
  \/ \E p \in DOMAIN panels : bindUiScript(p) \/ createGlyphStyle(p) \/ runCallback(p)
  \/ \E works \in BOOLEAN : Constructed(works)

UiSpec == UiInit /\ [][UiNext]_uiVars
-----------------------------------------------------------------------------
\* Whenever a script runs, each id it was ever given denotes the object it was
\* given it for, although ids are given out again: the objects a script knows
\* live as long as the script does.
IdsDenoteTheirObjects ==
  in_call # 0 => \A known \in script[ui_script].ids : getFromRegistry(registry, known[1]) = known[2]

\* When the interface has gone the registry is empty and nothing is pinned.
NothingLeftBehind ==
  ui_at = "gone" =>
    /\ ToSet(registry) \subseteq {Removed}
    /\ \A n \in DOMAIN script : \A k \in DOMAIN script[n].pins : script[n].pins[k] = 0

\* A callback is given an object of the script it is run in, if that could
\* construct one, and its collector keeps the object; no script is called that
\* has been deleted, whenever scripts are exchanged and however that fails; and
\* nothing stays registered or pinned when the interface goes.
CallbacksHaveTheirObject ==
  /\ NothingLeftBehind
  /\ ~called_dead
  /\ ui_at = "ready" /\ in_call # 0 /\ panels[in_call].this # NullPointer =>
       LET ptr == panels[in_call].this
       IN  /\ ptr.script = ui_script
           /\ script[ui_script].runtime => script[ui_script].pins[ptr.number] = 1
=============================================================================
