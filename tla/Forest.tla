-------------------------------- MODULE Forest --------------------------------
(***************************************************************************)
(* What the links between entities stand for: trees.  An entity starts as  *)
(* the root of a tree of its own; a root may become a child in another     *)
(* tree, once, with all that is below it; nothing else ever happens to     *)
(* anybody's children.                                                     *)
(***************************************************************************)
CONSTANT Entities

VARIABLES
  live,        \* entities there are
  children     \* entity -> the entities directly below it

vars == <<live, children>>

Init ==
  /\ live = {}
  /\ children = [e \in Entities |-> {}]

Plant(e) ==
  /\ e \in Entities \ live
  /\ live' = live \cup {e}
  /\ UNCHANGED children

IsRoot(c) == \A p \in Entities : c \notin children[p]

\* A set that children do not lead out of holds c, but not p.
IsOutside(p, c) ==
  \E S \in SUBSET Entities :
    c \in S /\ p \notin S /\ \A e \in S : children[e] \subseteq S

Graft(p, c) ==
  /\ p \in live /\ c \in live
  /\ IsRoot(c) /\ IsOutside(p, c)
  /\ children' = [children EXCEPT ![p] = @ \cup {c}]
  /\ UNCHANGED live

Next == \E e, p \in Entities : Plant(e) \/ Graft(p, e)

Spec == Init /\ [][Next]_vars
=============================================================================
