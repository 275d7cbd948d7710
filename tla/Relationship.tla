---------------------------- MODULE Relationship ----------------------------
(***************************************************************************)
(* The entity hierarchy: RelationshipComponent and the two World           *)
(* operations on it, adopt() and orphan().  A parent holds the id of one   *)
(* child, and its children form a ring of prev_child/next_child links.     *)
(*                                                                         *)
(* Each field of the component is a function over all entity ids.  An      *)
(* entity that has no component yet has the values its constructor would   *)
(* give it, so emplacing one changes nothing here.                         *)
(***************************************************************************)
EXTENDS Integers, FiniteSets

CONSTANTS
  Entities,      \* ids the registry hands out
  NullEntity     \* 0 in core/world/Entity.h

ASSUME EntityAssumption == IsFiniteSet(Entities)

VARIABLES
  live,          \* entities created so far
  parent, first_child, prev_child, next_child, child_num

relVars == <<parent, first_child, prev_child, next_child, child_num>>
vars == <<live, relVars>>

Init ==
  /\ live = {}
  /\ parent = [e \in Entities |-> NullEntity]
  /\ first_child = [e \in Entities |-> NullEntity]
  /\ prev_child = [e \in Entities |-> e]
  /\ next_child = [e \in Entities |-> e]
  /\ child_num = [e \in Entities |-> 0]

_hasParent(e) == parent[e] # NullEntity

\* registry.create()
Create(e) ==
  /\ e \in Entities \ live
  /\ live' = live \cup {e}
  /\ UNCHANGED relVars

\* Mutants: the back link of the next sibling stays, the counter stays.
PrevUnmoved(c) == prev_child
NumUnmoved(c) == child_num

(* The fields as _orphan(c) leaves them.                                    *)
OrphanPrev(c) == IF _hasParent(c)
                 THEN [prev_child EXCEPT ![next_child[c]] = prev_child[c]]
                 ELSE prev_child
OrphanNext(c) == IF _hasParent(c)
                 THEN [next_child EXCEPT ![prev_child[c]] = next_child[c]]
                 ELSE next_child
OrphanFirst(c) == IF _hasParent(c) /\ first_child[parent[c]] = c
                  THEN [first_child EXCEPT ![parent[c]] = next_child[c]]
                  ELSE first_child
OrphanNum(c) == IF _hasParent(c)
                THEN [child_num EXCEPT ![parent[c]] = @ - 1]
                ELSE child_num

\* World::orphan.  The child's own links are left as they were.
Orphan(c) ==
  /\ c \in live
  /\ prev_child' = OrphanPrev(c)
  /\ next_child' = OrphanNext(c)
  /\ first_child' = OrphanFirst(c)
  /\ child_num' = OrphanNum(c)
  /\ parent' = IF _hasParent(c) THEN [parent EXCEPT ![c] = NullEntity] ELSE parent
  /\ UNCHANGED live

\* A mutant: the new child is linked behind its siblings in one direction only.
LinkOneWay(p, c) ==
  LET prev == OrphanPrev(c)
      next == OrphanNext(c)
      first == OrphanFirst(c)[p]
      second == next[first]
  IN  IF OrphanNum(c)[p] # 0
      THEN /\ prev_child' = [prev EXCEPT ![c] = prev[second]]
           /\ next_child' = [next EXCEPT ![c] = next[first], ![first] = c]
           /\ first_child' = OrphanFirst(c)
      ELSE /\ prev_child' = [prev EXCEPT ![c] = c]
           /\ next_child' = [next EXCEPT ![c] = c]
           /\ first_child' = [OrphanFirst(c) EXCEPT ![p] = c]

\* Link c, just orphaned, into the ring of p: behind the first child, or as a
\* ring of its own.
Link(p, c) ==
  LET prev == OrphanPrev(c)
      next == OrphanNext(c)
      first == OrphanFirst(c)[p]
      second == next[first]
  IN  IF OrphanNum(c)[p] # 0
      THEN /\ prev_child' = [prev EXCEPT ![c] = prev[second], ![second] = c]
           /\ next_child' = [next EXCEPT ![c] = next[first], ![first] = c]
           /\ first_child' = OrphanFirst(c)
      ELSE /\ prev_child' = [prev EXCEPT ![c] = c]
           /\ next_child' = [next EXCEPT ![c] = c]
           /\ first_child' = [OrphanFirst(c) EXCEPT ![p] = c]

\* World::adopt, which orphans the child from a former parent first.
Adopt(p, c) ==
  /\ p \in live /\ c \in live
  /\ Link(p, c)
  /\ child_num' = [OrphanNum(c) EXCEPT ![p] = @ + 1]
  /\ parent' = [parent EXCEPT ![c] = p]
  /\ UNCHANGED live

Next ==
  \/ \E e \in Entities : Create(e) \/ Orphan(e)
  \/ \E p, c \in Entities : Adopt(p, c)

Spec == Init /\ [][Next]_vars

-----------------------------------------------------------------------------
Kids(p) == {c \in Entities : parent[c] = p}

\* The fields of every component have their types.
TypeOK ==
  /\ live \subseteq Entities
  /\ parent \in [Entities -> Entities \cup {NullEntity}]
  /\ first_child \in [Entities -> Entities \cup {NullEntity}]
  /\ prev_child \in [Entities -> Entities]
  /\ next_child \in [Entities -> Entities]
  /\ child_num \in [Entities -> Nat]

\* Siblings are linked both ways, with each other only: whatever adopt and
\* orphan did before, no link leads into another parent's ring or to an orphan.
SiblingLinks ==
  \A e \in Entities : _hasParent(e) =>
    /\ next_child[prev_child[e]] = e /\ prev_child[next_child[e]] = e
    /\ parent[prev_child[e]] = parent[e] /\ parent[next_child[e]] = parent[e]

\* A parent counts its children right, and its first child is one of them.
ChildCount ==
  \A p \in Entities :
    /\ child_num[p] = Cardinality(Kids(p))
    /\ child_num[p] > 0 => first_child[p] \in Kids(p)

\* The children of a parent form one ring: the only nonempty set of them that
\* next_child does not lead out of is all of them.
OneRing ==
  \A p \in Entities : \A S \in SUBSET Kids(p) :
    S # {} /\ (\A e \in S : next_child[e] \in S) => S = Kids(p)
=============================================================================
