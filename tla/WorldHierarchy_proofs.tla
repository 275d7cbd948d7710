------------------------ MODULE WorldHierarchy_proofs ------------------------
(***************************************************************************)
(* A world whose entities are not NullEntity implements a forest: its      *)
(* links stay rings, as Relationship_proofs shows of adopt(), and what     *)
(* they lead to are trees.  An update goes through them once and places    *)
(* every child relative to its parent.                                     *)
(***************************************************************************)
EXTENDS WorldHierarchy, FiniteSetTheorems, SequenceTheorems, TLAPS

RP == INSTANCE Relationship_proofs

Known == live \subseteq Entities

LEMMA KnownStep == ASSUME Known, [Next]_vars PROVE Known'
BY DEF Known, Next, vars, relVars, world, BeginPrefab, EndPrefab, SpawnChild,
       AdoptSpawned, AddTransform, StartUpdate, ProcessFree, FindRoots, ProcessEntity,
       EnqueueChild, EndHierarchy, Return, Create, Adopt, R!Create, R!Adopt

\* Every step of the world is a create, an adoption or no step of Relationship.
LEMMA StepRefines == ASSUME Known, [Next]_vars PROVE [R!Next]_(R!vars)
<1> USE DEF R!vars, R!relVars, relVars
<1>1. ASSUME NEW e \in Entities, NEW hasTransform \in BOOLEAN, NEW hasBody \in BOOLEAN,
             BeginPrefab(e, hasTransform, hasBody)
      PROVE  R!Next
  BY <1>1 DEF BeginPrefab, Create, R!Next
<1>2. ASSUME NEW self \in Entities, NEW e \in Entities, NEW hasTransform \in BOOLEAN,
             SpawnChild(self, e, hasTransform)
      PROVE  R!Next
  BY <1>2 DEF SpawnChild, Create, R!Next
<1>3. ASSUME NEW p, NEW c, Adopt(p, c)
      PROVE  R!Next
  BY <1>3 DEF Adopt, R!Adopt, R!Next, Known
<1>4. CASE EndPrefab
  <2>1. CASE Len(building) > 1
    BY <1>3, <1>4, <2>1 DEF EndPrefab
  <2>2. CASE ~(Len(building) > 1)
    BY <1>4, <2>2 DEF EndPrefab
  <2>3. QED
    BY <2>1, <2>2
<1>5. CASE AdoptSpawned
  BY <1>3, <1>5 DEF AdoptSpawned
<1>6. CASE \/ \E e \in Entities : AddTransform(e)
           \/ StartUpdate \/ ProcessFree \/ FindRoots \/ ProcessEntity
           \/ EnqueueChild \/ EndHierarchy \/ Return
  BY <1>6 DEF world, AddTransform, StartUpdate, ProcessFree, FindRoots, ProcessEntity,
     EnqueueChild, EndHierarchy, Return
<1>7. CASE UNCHANGED vars
  BY <1>7 DEF vars
<1>8. QED
  BY <1>1, <1>2, <1>4, <1>5, <1>6, <1>7 DEF Next

\* Nothing but create() and adopt() writes the links, by the definitions of the
\* two.
LEMMA StepsAreRelationship == Spec => R!Spec
<1>1. Init => Known /\ R!Init
  BY DEF Init, Known, R!Init
<1>2. Known /\ [Next]_vars => Known'
  BY KnownStep
<1>3. Known /\ [Next]_vars => [R!Next]_(R!vars)
  BY StepRefines
<1>4. QED
  BY <1>1, <1>2, <1>3, PTL DEF Spec, R!Spec

\* So everything that Relationship_proofs shows of the hierarchy is true of the
\* world's.
LEMMA WorldKeepsRings ==
  ASSUME NullEntity \notin Entities PROVE Spec => []RP!IInv
<1>1. R!Init => RP!Init
  BY DEF R!Init, RP!Init
<1>2. [R!Next]_(R!vars) => [RP!Next]_(RP!vars)
  BY DEF R!Next, RP!Next, R!vars, RP!vars, R!relVars, RP!relVars, R!Create, RP!Create,
     R!Orphan, RP!Orphan, R!Adopt, RP!Adopt, R!Link, RP!Link,
     R!OrphanPrev, RP!OrphanPrev, R!OrphanNext, RP!OrphanNext,
     R!OrphanFirst, RP!OrphanFirst, R!OrphanNum, RP!OrphanNum,
     R!_hasParent, RP!_hasParent
<1>3. RP!IsFiniteSet(Entities)
  BY HierarchyAssumption DEF IsFiniteSet, RP!IsFiniteSet
<1>4. RP!Spec => []RP!IInv
  BY <1>3, RP!AlwaysRings
<1>5. QED
  BY <1>1, <1>2, <1>4, StepsAreRelationship, PTL
     DEF R!Spec, RP!Spec

\* So in a world without an entity 0, sibling links always lead both ways.
THEOREM WorldKeepsSiblings ==
  ASSUME NullEntity \notin Entities PROVE Spec => []R!SiblingLinks
<1>1. RP!IInv => R!SiblingLinks
  BY DEF RP!IInv, RP!Rings, RP!Linked, R!SiblingLinks, R!_hasParent
<1>2. QED
  BY <1>1, WorldKeepsRings, PTL

-----------------------------------------------------------------------------
(* World::update goes through the hierarchy once                           *)

Kids(p) == {c \in Entities : parent[c] = p}

\* What the walk needs of the rings.
Ringed ==
  /\ \A e \in Entities :
       /\ parent[e] \in Entities \cup {NullEntity} /\ child_num[e] \in Nat
       /\ child_num[e] > 0 <=> Kids(e) # {}
       /\ child_num[e] > 0 => first_child[e] \in Kids(e)
  /\ \A e \in Entities : parent[e] # NullEntity =>
       next_child[e] \in Kids(parent[e]) /\ prev_child[next_child[e]] = e
  /\ \A p \in Entities : \A S \in SUBSET Kids(p) :
       S # {} /\ (\A e \in S : next_child[e] \in S) => S = Kids(p)

LEMMA RingsRinged == RP!IInv => Ringed
<1> SUFFICES ASSUME RP!IInv PROVE Ringed
  OBVIOUS
<1>1. \A p : RP!KidsIn(parent, p) = Kids(p)
  BY DEF RP!KidsIn, Kids
<1>2. RP!IsFiniteSet(Entities)
  BY HierarchyAssumption DEF IsFiniteSet, RP!IsFiniteSet
<1>3. \A p : RP!Cardinality(RP!KidsIn(parent, p)) = 0 <=> RP!KidsIn(parent, p) = {}
  BY <1>2, RP!KidsFinite
<1>4. /\ RP!Typed(parent, first_child, prev_child, next_child, child_num)
      /\ RP!Linked(parent, prev_child, next_child)
      /\ RP!Counted(parent, first_child, child_num)
      /\ RP!Connected(parent, next_child)
  BY DEF RP!IInv, RP!Rings
<1>5. \A e \in Entities :
        /\ parent[e] \in Entities \cup {NullEntity} /\ child_num[e] \in Nat
        /\ next_child[e] \in Entities
  BY <1>4 DEF RP!Typed
<1>6. \A e \in Entities :
        /\ child_num[e] > 0 <=> Kids(e) # {}
        /\ child_num[e] > 0 => first_child[e] \in Kids(e)
  BY <1>1, <1>3, <1>4, <1>5 DEF RP!Counted
<1>7. \A e \in Entities : parent[e] # NullEntity =>
        next_child[e] \in Kids(parent[e]) /\ prev_child[next_child[e]] = e
  BY <1>4, <1>5 DEF RP!Linked, Kids
<1>8. \A p \in Entities : \A S \in SUBSET Kids(p) :
        S # {} /\ (\A e \in S : next_child[e] \in S) => S = Kids(p)
  BY <1>1, <1>4 DEF RP!Connected
<1> QED BY <1>5, <1>6, <1>7, <1>8 DEF Ringed

-----------------------------------------------------------------------------
(* A queue of pairs, of which the first elements are told apart            *)

Firsts(q) == {q[i][1] : i \in DOMAIN q}
Once(q) == \A i, j \in DOMAIN q : q[i][1] = q[j][1] => i = j

LEMMA OneBehind ==
  ASSUME NEW S, NEW q \in Seq(S), NEW x \in S, Once(q), x[1] \notin Firsts(q)
  PROVE  /\ Append(q, x) \in Seq(S) /\ Once(Append(q, x))
         /\ Firsts(Append(q, x)) = Firsts(q) \cup {x[1]}
<1>1. PICK r : r = Append(q, x)
  OBVIOUS
<1>2. /\ r \in Seq(S) /\ DOMAIN q = 1..Len(q) /\ Len(q) \in Nat
      /\ DOMAIN r = 1..(Len(q) + 1)
      /\ \A i \in 1..Len(q) : r[i] = q[i]
      /\ r[Len(q) + 1] = x
  BY <1>1
<1>3. Firsts(r) = Firsts(q) \cup {x[1]}
  BY <1>2 DEF Firsts
<1>4. Once(r)
  BY <1>2 DEF Once, Firsts
<1> QED BY <1>1, <1>2, <1>3, <1>4

LEMMA OneFromFront ==
  ASSUME NEW S, NEW q \in Seq(S), q # <<>>, Once(q)
  PROVE  /\ Tail(q) \in Seq(S) /\ Once(Tail(q)) /\ Head(q) \in S
         /\ Head(q)[1] \in Firsts(q)
         /\ Firsts(Tail(q)) = Firsts(q) \ {Head(q)[1]}
<1>1. PICK r : r = Tail(q)
  OBVIOUS
<1>2. /\ r \in Seq(S) /\ DOMAIN q = 1..Len(q) /\ Len(q) \in Nat \ {0}
      /\ DOMAIN r = 1..(Len(q) - 1)
      /\ \A i \in DOMAIN r : r[i] = q[i + 1]
      /\ Head(q) = q[1] /\ q[1] \in S
  BY <1>1
<1>3. Firsts(r) \subseteq Firsts(q) \ {q[1][1]}
  <2> SUFFICES ASSUME NEW i \in DOMAIN r PROVE r[i][1] \in Firsts(q) \ {q[1][1]}
    BY DEF Firsts
  <2>1. i + 1 \in DOMAIN q /\ 1 \in DOMAIN q /\ i + 1 # 1
    BY <1>2
  <2> QED BY <1>2, <2>1 DEF Firsts, Once
<1>4. Firsts(q) \ {q[1][1]} \subseteq Firsts(r)
  <2> SUFFICES ASSUME NEW i \in DOMAIN q, i # 1 PROVE q[i][1] \in Firsts(r)
    BY DEF Firsts
  <2>1. i - 1 \in DOMAIN r /\ r[i - 1] = q[i]
    BY <1>2
  <2> QED BY <2>1 DEF Firsts
<1>5. Once(r)
  <2> SUFFICES ASSUME NEW i \in DOMAIN r, NEW j \in DOMAIN r, r[i][1] = r[j][1]
               PROVE  i = j
    BY DEF Once
  <2>1. i + 1 \in DOMAIN q /\ j + 1 \in DOMAIN q
    BY <1>2
  <2>2. i + 1 = j + 1
    BY <1>2, <2>1 DEF Once
  <2> QED BY <1>2, <2>2
<1>6. q[1][1] \in Firsts(q)
  BY <1>2 DEF Firsts
<1> QED BY <1>1, <1>2, <1>3, <1>4, <1>5, <1>6

LEMMA FirstsCounted ==
  ASSUME NEW S, NEW q \in Seq(S), Once(q)
  PROVE  Cardinality(Firsts(q)) = Len(q)
<1>1. Len(q) \in Nat /\ DOMAIN q = 1..Len(q)
  OBVIOUS
<1>2. PICK f : f = [i \in 1..Len(q) |-> q[i][1]]
  OBVIOUS
<1>3. f \in Surjection(1..Len(q), Firsts(q))
  BY <1>1, <1>2 DEF Surjection, Firsts
<1>4. f \in Injection(1..Len(q), Firsts(q))
  BY <1>1, <1>2 DEF Injection, IsInjective, Firsts, Once
<1>5. IsFiniteSet(1..Len(q)) /\ Cardinality(1..Len(q)) = Len(q)
  BY <1>1, FS_Interval
<1> QED BY <1>3, <1>4, <1>5, FS_Surjection

-----------------------------------------------------------------------------
(* Building: parents are older than their children                         *)

\* Ids are handed out in order, and an entity is adopted by one that was there
\* before it.
Built ==
  /\ live \subseteq Entities /\ related \subseteq Entities
  /\ \A e \in live, f \in Entities \ live : e < f
  /\ building \in Seq(Entities)
  /\ \A i \in DOMAIN building : building[i] \in live
  /\ \A i, j \in DOMAIN building : i < j => building[i] < building[j]
  /\ spawning # <<>> => /\ phase = "idle"
                        /\ spawning[1] \in live /\ spawning[2] \in live
                        /\ spawning[1] < spawning[2]
  /\ parent \in [Entities -> Entities \cup {NullEntity}]
  /\ \A e \in Entities : parent[e] # NullEntity =>
       parent[e] \in related /\ e \in related /\ parent[e] < e

\* One more entity, younger than all others.
LEMMA Younger ==
  ASSUME Built, NEW e \in Entities, Create(e)
  PROVE  /\ live' = live \cup {e} /\ live' \subseteq Entities
         /\ \A l \in live : l < e
         /\ \A l \in live', f \in Entities \ live' : l < f
         /\ UNCHANGED relVars
<1>1. /\ e \in Entities \ live /\ live' = live \cup {e} /\ UNCHANGED relVars
      /\ \A f \in Entities \ live : e <= f
  BY DEF Create, R!Create, R!relVars, relVars
<1>2. \A l \in live : l < e
  BY <1>1 DEF Built
<1>3. ASSUME NEW f \in Entities \ live'
      PROVE  e < f
  <2>1. f \in Entities \ live /\ f # e /\ f \in Nat /\ e \in Nat /\ e <= f
    BY <1>1, <1>3, HierarchyAssumption DEF HierarchyAssumption
  <2> QED BY <2>1
<1>4. \A l \in live', f \in Entities \ live' : l < f
  BY <1>1, <1>3 DEF Built
<1> QED BY <1>1, <1>2, <1>4 DEF Built

LEMMA AdoptOlder ==
  ASSUME Built, NEW p \in live, NEW c \in live, p < c, Adopt(p, c)
  PROVE  /\ live' = live /\ related' \subseteq Entities
         /\ parent' \in [Entities -> Entities \cup {NullEntity}]
         /\ \A e \in Entities : parent'[e] # NullEntity =>
              parent'[e] \in related' /\ e \in related' /\ parent'[e] < e
<1>1. /\ live' = live /\ related' = related \cup {p, c} /\ parent' = [parent EXCEPT ![c] = p]
  BY DEF Adopt, R!Adopt
<1>2. p \in Entities /\ c \in Entities
  BY DEF Built
<1> QED BY <1>1, <1>2 DEF Built

LEMMA BuiltStep == Built /\ [Next]_vars => Built'
<1> SUFFICES ASSUME Built, [Next]_vars PROVE Built'
  OBVIOUS
<1>1. ASSUME NEW e \in Entities, NEW hasTransform \in BOOLEAN, NEW hasBody \in BOOLEAN,
             BeginPrefab(e, hasTransform, hasBody)
      PROVE  Built'
  <2>1. /\ Create(e) /\ building' = Append(building, e) /\ related' = related
        /\ UNCHANGED <<spawning, phase>>
    BY <1>1 DEF BeginPrefab, updating
  <2>2. /\ building' \in Seq(Entities)
        /\ DOMAIN building = 1..Len(building) /\ Len(building) \in Nat
        /\ DOMAIN building' = 1..(Len(building) + 1)
        /\ \A i \in 1..Len(building) : building'[i] = building[i]
        /\ building'[Len(building) + 1] = e
    BY <2>1 DEF Built
  <2>3. \A i \in DOMAIN building' : building'[i] \in live'
    BY <2>1, <2>2, Younger DEF Built
  <2>4. ASSUME NEW i \in DOMAIN building', NEW j \in DOMAIN building', i < j
        PROVE  building'[i] < building'[j]
    <3>1. i \in DOMAIN building
      BY <2>2, <2>4
    <3>2. CASE j = Len(building) + 1
      BY <2>1, <2>2, <3>1, <3>2, Younger DEF Built
    <3>3. CASE j # Len(building) + 1
      BY <2>2, <2>4, <3>1, <3>3 DEF Built
    <3> QED BY <3>2, <3>3
  <2>5. UNCHANGED parent
    BY <2>1, Younger DEF relVars
  <2> QED BY <2>1, <2>2, <2>3, <2>4, <2>5, Younger DEF Built
<1>2. CASE EndPrefab
  <2>1. /\ building # <<>> /\ building' = Front(building) /\ UNCHANGED <<spawning, phase>>
    BY <1>2 DEF EndPrefab, updating
  <2>2. /\ building' \in Seq(Entities) /\ DOMAIN building' \subseteq DOMAIN building
        /\ DOMAIN building = 1..Len(building) /\ Len(building) \in Nat
        /\ \A i \in DOMAIN building' : building'[i] = building[i]
    BY <2>1 DEF Built, Front
  <2>3. CASE Len(building) > 1
    <3>1. PICK n : n = Len(building)
      OBVIOUS
    <3>2. /\ Last(Front(building)) = building[n - 1] /\ Last(building) = building[n]
          /\ n - 1 \in DOMAIN building /\ n \in DOMAIN building /\ n - 1 < n
      BY <2>2, <2>3, <3>1 DEF Front, Last, Built
    <3>3. Adopt(building[n - 1], building[n])
      BY <1>2, <2>3, <3>2 DEF EndPrefab
    <3>4. building[n - 1] < building[n] /\ building[n - 1] \in live /\ building[n] \in live
      BY <3>2 DEF Built
    <3> QED BY <2>1, <2>2, <3>3, <3>4, AdoptOlder DEF Built
  <2>4. CASE ~(Len(building) > 1)
    <3>1. UNCHANGED <<live, parent, related>>
      BY <1>2, <2>4 DEF EndPrefab, relVars
    <3> QED BY <2>1, <2>2, <3>1 DEF Built
  <2> QED BY <2>3, <2>4
<1>3. ASSUME NEW self \in Entities, NEW e \in Entities, NEW hasTransform \in BOOLEAN,
             SpawnChild(self, e, hasTransform)
      PROVE  Built'
  <2>1. /\ phase = "idle" /\ self \in live /\ Create(e) /\ spawning' = <<self, e>>
        /\ UNCHANGED <<related, building, phase>>
    BY <1>3 DEF SpawnChild, Mutable, updating
  <2>2. UNCHANGED parent
    BY <2>1, Younger DEF relVars
  <2>3. spawning'[1] = self /\ spawning'[2] = e
    BY <2>1
  <2> QED BY <2>1, <2>2, <2>3, Younger DEF Built
<1>4. CASE AdoptSpawned
  <2>1. /\ spawning # <<>> /\ Adopt(spawning[1], spawning[2]) /\ spawning' = <<>>
        /\ UNCHANGED <<building, phase>>
    BY <1>4 DEF AdoptSpawned, updating
  <2> QED BY <2>1, AdoptOlder DEF Built
<1>5. CASE \/ \E e \in Entities : AddTransform(e)
           \/ StartUpdate \/ ProcessFree \/ FindRoots \/ ProcessEntity
           \/ EnqueueChild \/ EndHierarchy \/ Return
  <2>1. /\ UNCHANGED <<live, parent, related, building, spawning>>
        /\ phase' = phase \/ spawning = <<>> \/ phase # "idle"
    BY <1>5 DEF world, relVars, components, creating, updating, AddTransform, StartUpdate,
       ProcessFree, FindRoots, ProcessEntity, EnqueueChild, EndHierarchy, Return
  <2> QED BY <2>1 DEF Built
<1>6. CASE UNCHANGED vars
  BY <1>6 DEF vars, relVars, components, creating, updating, Built
<1> QED BY <1>1, <1>2, <1>3, <1>4, <1>5, <1>6 DEF Next

LEMMA AlwaysBuilt == Spec => []Built
<1>1. Init => Built
  <2> SUFFICES ASSUME Init PROVE Built
    OBVIOUS
  <2>1. building = <<>> /\ DOMAIN building = {} /\ building \in Seq(Entities)
    BY DEF Init
  <2> QED BY <2>1 DEF Init, R!Init, Built
<1> QED BY <1>1, BuiltStep, PTL DEF Spec

-----------------------------------------------------------------------------
(* The links are a forest                                                  *)

\* Whoever may be adopted next is nobody's child yet.
Rooted ==
  /\ \A e \in Entities \ live : parent[e] = NullEntity
  /\ \A i \in DOMAIN building : parent[building[i]] = NullEntity
  /\ spawning # <<>> => /\ parent[spawning[2]] = NullEntity
                        /\ \A i \in DOMAIN building : building[i] # spawning[2]

\* A step adopts a root that is older than nobody above it, creates an entity,
\* or leaves the hierarchy as it is.
Grows ==
  \/ \E e \in Entities : Create(e)
  \/ \E p, c \in live : p < c /\ parent[c] = NullEntity /\ Adopt(p, c)
  \/ UNCHANGED <<live, relVars>>

LEMMA RootedStep ==
  ASSUME Built, Rooted, [Next]_vars PROVE Rooted' /\ Grows
<1>1. ASSUME NEW e \in Entities, NEW hasTransform \in BOOLEAN, NEW hasBody \in BOOLEAN,
             BeginPrefab(e, hasTransform, hasBody)
      PROVE  Rooted' /\ Grows
  <2>1. /\ Create(e) /\ building' = Append(building, e)
        /\ spawning = <<>> /\ spawning' = <<>>
    BY <1>1 DEF BeginPrefab, Mutable
  <2>2. live' = live \cup {e} /\ e \in Entities \ live /\ parent' = parent
    BY <2>1 DEF Create, R!Create, R!relVars
  <2>3. /\ DOMAIN building' = 1..(Len(building) + 1)
        /\ DOMAIN building = 1..Len(building) /\ Len(building) \in Nat
        /\ \A i \in 1..Len(building) : building'[i] = building[i]
        /\ building'[Len(building) + 1] = e
    BY <2>1 DEF Built
  <2>4. \A i \in DOMAIN building' : parent[building'[i]] = NullEntity
    <3> SUFFICES ASSUME NEW i \in DOMAIN building' PROVE parent[building'[i]] = NullEntity
      OBVIOUS
    <3>1. CASE i \in 1..Len(building)
      BY <2>3, <3>1 DEF Rooted
    <3>2. CASE i = Len(building) + 1
      BY <2>2, <2>3, <3>2 DEF Rooted
    <3> QED BY <2>3, <3>1, <3>2
  <2> QED BY <2>1, <2>2, <2>4 DEF Rooted, Grows
<1>2. CASE EndPrefab
  <2>1. /\ building # <<>> /\ building' = Front(building)
        /\ spawning = <<>> /\ spawning' = <<>>
    BY <1>2 DEF EndPrefab, Mutable
  <2>2. PICK n \in Nat : n = Len(building)
    BY DEF Built
  <2>3. /\ DOMAIN building' = 1..(n - 1) /\ DOMAIN building = 1..n
        /\ \A i \in 1..(n - 1) : building'[i] = building[i]
    BY <2>1, <2>2 DEF Built, Front
  <2>4. CASE n > 1
    <3>1. /\ Last(Front(building)) = building[n - 1] /\ Last(building) = building[n]
          /\ n - 1 \in DOMAIN building /\ n \in DOMAIN building
      BY <2>2, <2>3, <2>4 DEF Front, Last, Built
    <3>2. Adopt(building[n - 1], building[n])
      BY <1>2, <2>2, <2>4, <3>1 DEF EndPrefab
    <3>3. /\ live' = live /\ parent' = [parent EXCEPT ![building[n]] = building[n - 1]]
          /\ building[n] \in live /\ building[n - 1] \in live
          /\ building[n - 1] < building[n] /\ parent[building[n]] = NullEntity
      BY <3>1, <3>2 DEF Adopt, R!Adopt, Built, Rooted
    <3>4. \A i \in 1..(n - 1) : building[i] # building[n]
      <4> SUFFICES ASSUME NEW i \in 1..(n - 1) PROVE building[i] # building[n]
        OBVIOUS
      <4>1. building[i] < building[n]
        BY <2>2, <2>3, <3>1 DEF Built
      <4>2. building[n] \in Nat
        BY <3>3, HierarchyAssumption DEF Built, HierarchyAssumption
      <4> QED BY <4>1, <4>2
    <3>5. Grows
      BY <3>2, <3>3 DEF Grows
    <3>6. \A e \in Entities : e # building[n] => parent'[e] = parent[e]
      BY <3>3 DEF Built
    <3>7. \A i \in DOMAIN building' : parent'[building'[i]] = NullEntity
      BY <2>3, <3>4, <3>6 DEF Built, Rooted
    <3> QED BY <2>1, <3>3, <3>5, <3>6, <3>7 DEF Rooted
  <2>5. CASE ~(n > 1)
    <3>1. UNCHANGED <<live, relVars>>
      BY <1>2, <2>2, <2>5 DEF EndPrefab
    <3> QED BY <2>1, <2>3, <3>1 DEF Rooted, Grows, relVars
  <2> QED BY <2>4, <2>5
<1>3. ASSUME NEW self \in Entities, NEW e \in Entities, NEW hasTransform \in BOOLEAN,
             SpawnChild(self, e, hasTransform)
      PROVE  Rooted' /\ Grows
  <2>1. Create(e) /\ spawning' = <<self, e>> /\ building' = building
    BY <1>3 DEF SpawnChild
  <2>2. live' = live \cup {e} /\ e \in Entities \ live /\ parent' = parent
    BY <2>1 DEF Create, R!Create, R!relVars
  <2>3. spawning'[2] = e /\ \A i \in DOMAIN building : building[i] # e
    BY <2>1, <2>2 DEF Built
  <2> QED BY <2>1, <2>2, <2>3 DEF Rooted, Grows
<1>4. CASE AdoptSpawned
  <2>1. PICK p, c : p = spawning[1] /\ c = spawning[2]
    OBVIOUS
  <2>2. /\ spawning # <<>> /\ Adopt(p, c) /\ spawning' = <<>> /\ building' = building
    BY <1>4, <2>1 DEF AdoptSpawned
  <2>3. /\ p \in live /\ c \in live /\ p < c /\ parent[c] = NullEntity
        /\ \A i \in DOMAIN building : building[i] # c
    BY <2>1, <2>2 DEF Built, Rooted
  <2>4. live' = live /\ parent' = [parent EXCEPT ![c] = p]
    BY <2>2 DEF Adopt, R!Adopt
  <2>5. \A e \in Entities : e # c => parent'[e] = parent[e]
    BY <2>4 DEF Built
  <2>6. \A i \in DOMAIN building : parent'[building[i]] = NullEntity
    BY <2>3, <2>5 DEF Built, Rooted
  <2>7. Grows
    BY <2>2, <2>3 DEF Grows
  <2>8. \A e \in Entities \ live' : parent'[e] = NullEntity
    BY <2>3, <2>4, <2>5 DEF Rooted
  <2> QED BY <2>2, <2>6, <2>7, <2>8 DEF Rooted
<1>5. CASE \/ \E e \in Entities : AddTransform(e)
           \/ StartUpdate \/ ProcessFree \/ FindRoots \/ ProcessEntity
           \/ EnqueueChild \/ EndHierarchy \/ Return
  <2>1. UNCHANGED <<live, relVars, building, spawning>>
    BY <1>5 DEF world, creating, AddTransform, StartUpdate, ProcessFree, FindRoots,
       ProcessEntity, EnqueueChild, EndHierarchy, Return
  <2> QED BY <2>1 DEF Rooted, Grows, relVars
<1>6. CASE UNCHANGED vars
  <2>1. UNCHANGED <<live, relVars, building, spawning>>
    BY <1>6 DEF vars, creating
  <2> QED BY <2>1 DEF Rooted, Grows, relVars
<1> QED BY <1>1, <1>2, <1>3, <1>4, <1>5, <1>6 DEF Next

\* In a ring, following next_child from the first child finds all children.
Found == \A p \in Entities : Walked(p) = Kids(p)

LEMMA WalkFindsKids ==
  ASSUME NullEntity \notin Entities, Ringed PROVE Found
<1> SUFFICES ASSUME NEW p \in Entities PROVE Walked(p) = Kids(p)
  BY DEF Found
<1>1. CASE child_num[p] > 0
  <2>1. first_child[p] \in Kids(p) /\ Kids(p) \in SUBSET Entities
    BY <1>1 DEF Ringed, Kids
  <2>2. \A e \in Kids(p) : next_child[e] \in Kids(p)
    <3> SUFFICES ASSUME NEW e \in Kids(p) PROVE next_child[e] \in Kids(p)
      OBVIOUS
    <3>1. e \in Entities /\ parent[e] = p
      BY DEF Kids
    <3> QED BY <3>1 DEF Ringed
  <2>3. PICK W : W = Walked(p)
    OBVIOUS
  <2>4. W = {c \in Entities : \A S \in SUBSET Entities :
              first_child[p] \in S /\ (\A e \in S : next_child[e] \in S) => c \in S}
    BY <1>1, <2>3 DEF Walked
  <2>5. W \subseteq Kids(p)
    BY <2>1, <2>2, <2>4
  <2>6. first_child[p] \in W
    BY <2>1, <2>4
  <2>7. \A e \in W : next_child[e] \in W
    <3> SUFFICES ASSUME NEW e \in W PROVE next_child[e] \in W
      OBVIOUS
    <3>1. next_child[e] \in Entities
      BY <2>1, <2>2, <2>5
    <3> QED BY <2>4, <3>1
  <2>8. W = Kids(p)
    BY <2>5, <2>6, <2>7 DEF Ringed
  <2> QED BY <2>3, <2>8
<1>2. CASE ~(child_num[p] > 0)
  BY <1>2 DEF Ringed, Walked
<1> QED BY <1>1, <1>2

LEMMA ForestStep ==
  ASSUME NullEntity \notin Entities, Built, Found, Found', Grows
  PROVE  [F!Next]_(F!vars)
<1> DEFINE children == [p \in Entities |-> Walked(p)]
<1>1. \A p \in Entities : Walked(p) = Kids(p) /\ Walked(p)' = Kids(p)'
  BY DEF Found
<1>2. CASE \E e \in Entities : Create(e)
  <2>1. PICK e \in Entities : Create(e)
    BY <1>2
  <2>2. /\ e \in Entities \ live /\ live' = live \cup {e}
        /\ UNCHANGED <<parent, first_child, prev_child, next_child, child_num>>
    BY <2>1 DEF Create, R!Create, R!relVars
  <2>3. children' = children
    BY <2>2 DEF Walked
  <2>4. F!Plant(e)
    BY <2>2, <2>3 DEF F!Plant
  <2> QED BY <2>4 DEF F!Next
<1>3. CASE \E p, c \in live : p < c /\ parent[c] = NullEntity /\ Adopt(p, c)
  <2>1. PICK p \in live, c \in live : p < c /\ parent[c] = NullEntity /\ Adopt(p, c)
    BY <1>3
  <2>2. /\ live' = live /\ parent' = [parent EXCEPT ![c] = p]
        /\ p \in Entities /\ c \in Entities
    BY <2>1 DEF Adopt, R!Adopt, Built
  <2>3. \A q \in Entities : Kids(q)' = IF q = p THEN Kids(q) \cup {c} ELSE Kids(q)
    <3>1. \A e \in Entities : parent'[e] = IF e = c THEN p ELSE parent[e]
      BY <2>2 DEF Built
    <3> QED BY <2>1, <2>2, <3>1 DEF Kids
  <2>4. children' = [children EXCEPT ![p] = @ \cup {c}]
    BY <1>1, <2>2, <2>3
  <2>5. F!IsRoot(c)
    <3>1. \A q \in Entities : c \notin Kids(q)
      BY <2>1, <2>2 DEF Kids
    <3> QED BY <1>1, <3>1 DEF F!IsRoot
  <2>6. F!IsOutside(p, c)
    <3> DEFINE S == {e \in Entities : ~(e < c)}
    <3>1. c \in S /\ p \notin S /\ S \in SUBSET Entities
      BY <2>1, <2>2, HierarchyAssumption DEF HierarchyAssumption
    <3>2. ASSUME NEW e \in S PROVE children[e] \subseteq S
      <4> SUFFICES ASSUME NEW k \in Kids(e) PROVE k \in S
        BY <1>1, <3>2
      <4>1. k \in Entities /\ e \in Entities /\ e < k
        BY <3>2 DEF Kids, Built
      <4> QED BY <2>2, <3>2, <4>1, HierarchyAssumption DEF HierarchyAssumption
    <3> QED BY <3>1, <3>2 DEF F!IsOutside
  <2>7. F!Graft(p, c)
    BY <2>2, <2>4, <2>5, <2>6 DEF F!Graft
  <2> QED BY <2>2, <2>7 DEF F!Next
<1>4. CASE UNCHANGED <<live, relVars>>
  <2>1. children' = children
    BY <1>4 DEF Walked, relVars
  <2> QED BY <1>4, <2>1 DEF F!vars
<1> QED BY <1>2, <1>3, <1>4 DEF Grows

\* Following the links as World::update does finds trees that only grow
\* together: in a world without an entity 0, whatever prefabs and scripts build,
\* adopt() never loses a child, moves it, or puts an entity below itself.
THEOREM WorldImplementsForest ==
  ASSUME NullEntity \notin Entities PROVE Spec => ImplementsForest
<1>1. Init => Rooted
  <2> SUFFICES ASSUME Init PROVE Rooted
    OBVIOUS
  <2>1. building = <<>> /\ DOMAIN building = {}
    BY DEF Init
  <2> QED BY <2>1 DEF Init, R!Init, Rooted
<1>2. Init => F!Init
  <2> SUFFICES ASSUME Init PROVE F!Init
    OBVIOUS
  <2>1. \A p \in Entities : Walked(p) = {}
    BY DEF Init, R!Init, Walked
  <2> QED BY <2>1 DEF Init, R!Init, F!Init
<1>3. Built /\ Rooted /\ [Next]_vars => Rooted' /\ Grows
  BY RootedStep
<1>4. Built /\ Found /\ Found' /\ Grows => [F!Next]_(F!vars)
  BY ForestStep
<1>5. RP!IInv => Found
  BY RingsRinged, WalkFindsKids
<1> QED
  BY <1>1, <1>2, <1>3, <1>4, <1>5, AlwaysBuilt, WorldKeepsRings, PTL
     DEF Spec, F!Spec, ImplementsForest

-----------------------------------------------------------------------------
(* Updating: the queue, the loop over one entity's children, and who has   *)
(* been processed                                                          *)

Links == [self : Entities, child : Entities, parent : Entities \cup {NullEntity}]

\* Who is in the queue or was.
Seen == Firsts(process_queue) \cup visited

\* Children of the walk's entity that it has enqueued.
Enqueued == Kids(walk.self) \cap Seen

Queue ==
  /\ process_queue \in Seq(Entities \X (Entities \cup {NullEntity}))
  /\ Once(process_queue)
  /\ Firsts(process_queue) \cap visited = {}
  /\ visited \subseteq Entities
  /\ phase \in {"idle", "free", "roots"} => process_queue = <<>> /\ visited = {}
  /\ phase = "done" => process_queue = <<>>

\* Whoever is seen has come by its parent, and a visited entity's children
\* have all been seen, but for the walk's.
Downward ==
  /\ Seen \subseteq related
  /\ \A e \in Seen : parent[e] # NullEntity => parent[e] \in visited
  /\ \A e \in visited : Kids(e) \subseteq Seen \/ (walk # NoWalk /\ walk.self = e)
  /\ phase \in {"hierarchy", "done"} =>
       \A e \in related : parent[e] = NullEntity => e \in Seen

\* The walk has enqueued a part of the ring: from the first child to the one
\* before its own.
Walking ==
  walk # NoWalk =>
    /\ phase = "hierarchy" /\ walk \in Links /\ walk.self \in visited
    /\ walk.child \in Kids(walk.self) /\ walk.child \notin Seen
    /\ first_child[walk.self] \in Enqueued \cup {walk.child}
    /\ \A e \in Enqueued : next_child[e] \in Enqueued \cup {walk.child}
    /\ \A e \in Enqueued \cup {walk.child} :
         e = first_child[walk.self] \/ prev_child[e] \in Enqueued

UpdateInv == Queue /\ Downward /\ Walking

LEMMA NoWalkApart == NoWalk \notin Links
<1>1. -1 \notin Nat
  OBVIOUS
<1>2. NoWalk.self \notin Entities
  BY <1>1, HierarchyAssumption DEF NoWalk, NoEntity, HierarchyAssumption
<1> QED BY <1>2 DEF Links

\* Nothing builds while the world is updated.
LEMMA BuildsWhenIdle ==
  ASSUME Built, Queue, Downward, Walking,
         \/ \E e \in Entities, hasTransform, hasBody \in BOOLEAN :
              BeginPrefab(e, hasTransform, hasBody)
         \/ EndPrefab \/ AdoptSpawned
         \/ \E self, e \in Entities, hasTransform \in BOOLEAN :
              SpawnChild(self, e, hasTransform)
  PROVE  UpdateInv'
<1>1. phase = "idle" /\ UNCHANGED updating
  BY DEF BeginPrefab, EndPrefab, AdoptSpawned, SpawnChild, Mutable, Built
<1>2. process_queue = <<>> /\ visited = {} /\ walk = NoWalk
  BY <1>1 DEF Queue, Walking
<1>3. UNCHANGED <<phase, process_queue, walk, visited>>
  BY <1>1 DEF updating
<1>4. Firsts(process_queue) = {}
  BY <1>2 DEF Firsts
<1> QED BY <1>1, <1>2, <1>3, <1>4 DEF UpdateInv, Queue, Downward, Walking, Seen

\* What leaves the hierarchy, the queue and the walk alone.
LEMMA UpdateRests ==
  ASSUME UpdateInv, UNCHANGED <<relVars, related, phase, process_queue, walk, visited>>
  PROVE  UpdateInv'
BY DEF relVars, UpdateInv, Queue, Downward, Walking, Seen, Enqueued, Kids

LEMMA PhaseStep ==
  ASSUME UpdateInv, StartUpdate \/ ProcessFree \/ EndHierarchy \/ Return
  PROVE  UpdateInv'
<1>1. /\ UNCHANGED <<relVars, related, process_queue, walk>>
      /\ walk = NoWalk
      /\ phase' \in {"free", "roots"} => phase \in {"idle", "free"} /\ visited' = visited
      /\ phase' = "idle" => phase = "done" /\ visited' = {}
      /\ phase' = "done" => phase = "hierarchy" /\ process_queue = <<>> /\ visited' = visited
      /\ phase' \in {"free", "roots", "idle", "done"}
  BY DEF UpdateInv, Walking, StartUpdate, ProcessFree, EndHierarchy, Return, world, components
<1>2. UNCHANGED <<parent>>
  BY <1>1 DEF relVars
<1>3. Queue'
  BY <1>1 DEF UpdateInv, Queue
<1>4. Downward'
  <2>1. CASE phase' = "idle"
    <3>1. process_queue' = <<>> /\ visited' = {} /\ DOMAIN process_queue' = {}
      BY <1>1, <2>1 DEF UpdateInv, Queue
    <3> QED BY <2>1, <3>1 DEF Downward, Seen, Firsts
  <2>2. CASE phase' # "idle"
    <3>1. visited' = visited
      BY <1>1, <2>2
    <3> QED BY <1>1, <1>2, <2>2, <3>1 DEF UpdateInv, Downward, Seen, Kids
  <2> QED BY <2>1, <2>2
<1>5. Walking'
  BY <1>1 DEF Walking
<1> QED BY <1>3, <1>4, <1>5 DEF UpdateInv

LEMMA FindRootsStep ==
  ASSUME Built, UpdateInv, FindRoots
  PROVE  UpdateInv'
<1>1. PICK order \in SetToSeqs(Roots) :
        process_queue' = [i \in DOMAIN order |-> <<order[i], NullEntity>>]
  BY DEF FindRoots
<1>2. /\ phase = "roots" /\ phase' = "hierarchy" /\ visited = {} /\ walk = NoWalk
      /\ UNCHANGED <<relVars, related, walk, visited>>
  BY DEF FindRoots, world, components, UpdateInv, Queue, Walking
<1>3. Roots \subseteq Entities /\ Roots \subseteq related
      /\ \A e \in related : e \in Roots <=> parent[e] = NullEntity
  BY DEF Roots, Built, R!_hasParent
<1>4. IsFiniteSet(Roots)
  BY <1>3, HierarchyAssumption, FS_Subset DEF HierarchyAssumption
<1>5. PICK n \in Nat : n = Cardinality(Roots)
  BY <1>4, FS_CardinalityType
<1>6. order \in [1..n -> Roots] /\ \A i, j \in 1..n : i # j => order[i] # order[j]
  BY <1>1, <1>5 DEF SetToSeqs
<1>7. \A e \in Roots : \E i \in 1..n : order[i] = e
  <2>1. order \in Injection(1..n, Roots)
    BY <1>6 DEF Injection, IsInjective
  <2>2. Cardinality(1..n) = n
    BY <1>5, FS_Interval
  <2>3. order \in Surjection(1..n, Roots)
    BY <1>4, <1>5, <2>1, <2>2, FS_Injection
  <2> QED BY <2>3 DEF Surjection
<1>8. /\ process_queue' \in Seq(Entities \X (Entities \cup {NullEntity}))
      /\ DOMAIN process_queue' = 1..n
      /\ \A i \in 1..n : process_queue'[i][1] = order[i]
  <2>1. process_queue' = [i \in 1..n |-> <<order[i], NullEntity>>]
    BY <1>1, <1>6
  <2>2. \A i \in 1..n : <<order[i], NullEntity>> \in Entities \X (Entities \cup {NullEntity})
    BY <1>3, <1>6
  <2> QED BY <1>5, <2>1, <2>2
<1>9. Firsts(process_queue') = Roots
  BY <1>6, <1>7, <1>8 DEF Firsts
<1>10. Queue'
  BY <1>2, <1>6, <1>8 DEF Queue, Once
<1>11. Downward'
  <2>1. UNCHANGED parent
    BY <1>2 DEF relVars
  <2> QED BY <1>2, <1>3, <1>9, <2>1 DEF Downward, Seen
<1>12. Walking'
  BY <1>2 DEF Walking
<1> QED BY <1>10, <1>11, <1>12 DEF UpdateInv

\* An entity comes off the queue: none of its children has been seen.
LEMMA ProcessStep ==
  ASSUME NullEntity \notin Entities, Built, Ringed, UpdateInv, ProcessEntity
  PROVE  UpdateInv'
<1>1. PICK self, parent_id : self = Head(process_queue)[1] /\ parent_id = Head(process_queue)[2]
  OBVIOUS
<1>2. /\ phase = "hierarchy" /\ walk = NoWalk /\ process_queue # <<>>
      /\ process_queue' = Tail(process_queue) /\ visited' = visited \cup {self}
      /\ walk' = IF child_num[self] > 0
                 THEN [self |-> self, child |-> first_child[self],
                       parent |-> TransformParent(self, parent_id)]
                 ELSE NoWalk
      /\ UNCHANGED <<relVars, related, phase>>
  BY <1>1 DEF ProcessEntity, world, components
<1>3. /\ process_queue' \in Seq(Entities \X (Entities \cup {NullEntity}))
      /\ Once(process_queue')
      /\ self \in Entities /\ parent_id \in Entities \cup {NullEntity}
      /\ self \in Firsts(process_queue)
      /\ Firsts(process_queue') = Firsts(process_queue) \ {self}
  <2> PICK S : S = Entities \X (Entities \cup {NullEntity})
    OBVIOUS
  <2>1. process_queue \in Seq(S) /\ process_queue # <<>> /\ Once(process_queue)
    BY <1>2 DEF UpdateInv, Queue
  <2>2. Head(process_queue) \in Entities \X (Entities \cup {NullEntity})
    BY <2>1, OneFromFront
  <2> QED BY <1>1, <1>2, <2>1, <2>2, OneFromFront
<1>4. Seen' = Seen /\ self \notin visited
  BY <1>2, <1>3 DEF UpdateInv, Queue, Seen
<1>5. Queue'
  BY <1>2, <1>3 DEF UpdateInv, Queue
<1>6. UNCHANGED <<parent, first_child, prev_child, next_child, child_num>>
  BY <1>2 DEF relVars
<1>7. \A e \in Kids(self) : e \notin Seen
  BY <1>3, <1>4 DEF UpdateInv, Downward, Kids
<1>8. CASE child_num[self] > 0
  <2>1. walk' = [self |-> self, child |-> first_child[self],
                 parent |-> TransformParent(self, parent_id)]
    BY <1>2, <1>8
  <2>2. /\ walk'.self = self /\ walk'.child = first_child[self]
        /\ first_child[self] \in Kids(self) /\ first_child[self] \in Entities
        /\ TransformParent(self, parent_id) \in Entities \cup {NullEntity}
    BY <1>3, <1>8, <2>1 DEF Ringed, Kids, TransformParent
  <2>3. walk' \in Links /\ walk' # NoWalk
    BY <1>3, <2>1, <2>2, NoWalkApart DEF Links
  <2>4. Enqueued' = {}
    BY <1>4, <1>6, <1>7, <2>2 DEF Enqueued, Kids
  <2>5. Downward'
    BY <1>2, <1>4, <1>6, <2>2, <2>3 DEF UpdateInv, Downward, Kids
  <2>6. Walking'
    BY <1>2, <1>4, <1>6, <1>7, <2>2, <2>3, <2>4 DEF Walking, Kids
  <2> QED BY <1>5, <2>5, <2>6 DEF UpdateInv
<1>9. CASE ~(child_num[self] > 0)
  <2>1. walk' = NoWalk /\ Kids(self) = {}
    BY <1>2, <1>3, <1>9 DEF Ringed
  <2>2. Downward'
    BY <1>2, <1>4, <1>6, <2>1 DEF UpdateInv, Downward, Kids
  <2>3. Walking'
    BY <2>1 DEF Walking
  <2> QED BY <1>5, <2>2, <2>3 DEF UpdateInv
<1> QED BY <1>8, <1>9

\* One more child is enqueued.  The ring leads to a child that was not, or back
\* to the first: then the children seen are closed under next_child, and as
\* there is one ring only, they are all.
LEMMA EnqueueStep ==
  ASSUME NullEntity \notin Entities, Built, Ringed, UpdateInv, EnqueueChild
  PROVE  UpdateInv'
<1>1. PICK self, child, first, next :
        /\ self = walk.self /\ child = walk.child /\ first = first_child[self]
        /\ next = next_child[child]
  OBVIOUS
<1>2. /\ walk # NoWalk /\ process_queue' = Append(process_queue, <<child, walk.parent>>)
      /\ walk' = IF next = first THEN NoWalk ELSE [walk EXCEPT !.child = next]
      /\ UNCHANGED <<relVars, related, phase, visited>>
  BY <1>1 DEF EnqueueChild, world, components
<1>3. /\ phase = "hierarchy" /\ walk \in Links /\ self \in visited
      /\ child \in Kids(self) /\ child \notin Seen
      /\ first \in Enqueued \cup {child}
      /\ \A e \in Enqueued : next_child[e] \in Enqueued \cup {child}
      /\ \A e \in Enqueued \cup {child} : e = first \/ prev_child[e] \in Enqueued
  BY <1>1, <1>2 DEF UpdateInv, Walking
<1>4. /\ self \in Entities /\ child \in Entities /\ parent[child] = self
      /\ walk.parent \in Entities \cup {NullEntity}
      /\ next \in Kids(self) /\ next \in Entities /\ prev_child[next] = child
      /\ child \in related
  BY <1>1, <1>3 DEF Links, Kids, Ringed, Built
<1>5. /\ process_queue' \in Seq(Entities \X (Entities \cup {NullEntity}))
      /\ Once(process_queue')
      /\ Firsts(process_queue') = Firsts(process_queue) \cup {child}
  <2> PICK S : S = Entities \X (Entities \cup {NullEntity})
    OBVIOUS
  <2>1. /\ process_queue \in Seq(S) /\ Once(process_queue)
        /\ <<child, walk.parent>> \in S /\ <<child, walk.parent>>[1] = child
        /\ child \notin Firsts(process_queue)
    BY <1>3, <1>4 DEF UpdateInv, Queue, Seen
  <2> QED BY <1>2, <2>1, OneBehind
<1>6. Seen' = Seen \cup {child}
  BY <1>2, <1>5 DEF Seen
<1>7. UNCHANGED <<parent, first_child, prev_child, next_child, child_num>>
  BY <1>2 DEF relVars
<1>8. Queue'
  BY <1>2, <1>3, <1>5 DEF UpdateInv, Queue, Seen
<1>9. PICK D : D = Enqueued
  OBVIOUS
<1>10. D = Kids(self) \cap Seen /\ Kids(self) \cap Seen' = D \cup {child}
  BY <1>1, <1>3, <1>6, <1>9 DEF Enqueued
<1>11. \A e \in Entities : Kids(e)' = Kids(e)
  BY <1>7 DEF Kids
<1>12. CASE next = first
  <2>1. walk' = NoWalk
    BY <1>2, <1>12
  <2>2. Kids(self) = D \cup {child}
    <3>1. D \cup {child} \subseteq Kids(self)
      BY <1>3, <1>10
    <3>2. \A e \in D \cup {child} : next_child[e] \in D \cup {child}
      BY <1>1, <1>3, <1>9, <1>12
    <3> QED BY <1>4, <3>1, <3>2 DEF Ringed
  <2>3. Kids(self) \subseteq Seen'
    BY <1>10, <2>2
  <2>4. Downward'
    BY <1>1, <1>2, <1>3, <1>4, <1>6, <1>7, <1>11, <2>1, <2>3
       DEF UpdateInv, Downward, Queue
  <2>5. Walking'
    BY <2>1 DEF Walking
  <2> QED BY <1>8, <2>4, <2>5 DEF UpdateInv
<1>13. CASE next # first
  <2>1. walk' = [walk EXCEPT !.child = next]
    BY <1>2, <1>13
  <2>2. walk' \in Links /\ walk'.self = self /\ walk'.child = next /\ walk' # NoWalk
    BY <1>1, <1>3, <1>4, <2>1, NoWalkApart DEF Links
  <2>3. Enqueued' = D \cup {child}
    BY <1>4, <1>10, <1>11, <2>2 DEF Enqueued
  <2>4. next \notin D \cup {child}
    <3>1. next # child
      <4> SUFFICES ASSUME next = child PROVE FALSE
        OBVIOUS
      <4>1. {child} \in SUBSET Kids(self) /\ \A e \in {child} : next_child[e] \in {child}
        BY <1>1, <1>3
      <4>2. {child} # {} /\ {child} = Kids(self)
        BY <1>4, <4>1 DEF Ringed
      <4>3. first \in Kids(self)
        BY <1>3, <1>9, <1>10
      <4> QED BY <1>13, <4>2, <4>3
    <3>2. next \notin D
      <4> SUFFICES ASSUME next \in D PROVE FALSE
        OBVIOUS
      <4>1. prev_child[next] \in D
        BY <1>3, <1>9, <1>13
      <4> QED BY <1>3, <1>4, <1>10, <4>1
    <3> QED BY <3>1, <3>2
  <2>5. next \notin Seen'
    BY <1>4, <1>10, <2>4
  <2>6. Downward'
    <3>1. \A e \in visited' : Kids(e)' \subseteq Seen' \/ (walk' # NoWalk /\ walk'.self = e)
      BY <1>1, <1>2, <1>6, <1>11, <2>2 DEF UpdateInv, Downward, Queue
    <3> QED BY <1>2, <1>3, <1>4, <1>6, <1>7, <3>1 DEF UpdateInv, Downward
  <2>7. Walking'
    <3>1. /\ first \in D \cup {child} \cup {next}
          /\ \A e \in D \cup {child} : next_child[e] \in D \cup {child} \cup {next}
          /\ \A e \in D \cup {child} \cup {next} : e = first \/ prev_child[e] \in D \cup {child}
      BY <1>1, <1>3, <1>4, <1>9
    <3>2. /\ first_child'[walk'.self] = first /\ next_child' = next_child
          /\ prev_child' = prev_child /\ phase' = "hierarchy" /\ walk'.self \in visited'
      BY <1>1, <1>2, <1>3, <1>7, <2>2
    <3>3. (walk.child \in Kids(walk.self))'
      BY <1>4, <1>7, <2>2 DEF Kids
    <3> QED BY <2>2, <2>3, <2>5, <3>1, <3>2, <3>3 DEF Walking
  <2> QED BY <1>8, <2>6, <2>7 DEF UpdateInv
<1> QED BY <1>12, <1>13

LEMMA AlwaysUpdates ==
  ASSUME NullEntity \notin Entities PROVE Spec => []UpdateInv
<1>1. Init => UpdateInv
  <2> SUFFICES ASSUME Init PROVE UpdateInv
    OBVIOUS
  <2>1. process_queue = <<>> /\ DOMAIN process_queue = {} /\ \A S : process_queue \in Seq(S)
    BY DEF Init
  <2> QED BY <2>1 DEF Init, UpdateInv, Queue, Downward, Walking, Seen, Firsts, Once
<1>2. Built /\ Ringed /\ UpdateInv /\ [Next]_vars => UpdateInv'
  <2> SUFFICES ASSUME Built, Ringed, UpdateInv, [Next]_vars PROVE UpdateInv'
    OBVIOUS
  <2>1. CASE UNCHANGED vars
    BY <2>1, UpdateRests DEF vars, components, updating
  <2>2. CASE \E e \in Entities : AddTransform(e)
    BY <2>2, UpdateRests DEF AddTransform, updating
  <2> QED BY <2>1, <2>2, BuildsWhenIdle, PhaseStep, FindRootsStep, ProcessStep, EnqueueStep
          DEF Next, UpdateInv
<1> QED BY <1>1, <1>2, AlwaysBuilt, WorldKeepsRings, RingsRinged, PTL DEF Spec

\* When nothing waits any more, everybody has been processed: an entity that
\* was not would have a parent that was not, which is older.
LEMMA NobodyMissed ==
  ASSUME NullEntity \notin Entities, Built, UpdateInv, phase = "done"
  PROVE  visited = related
<1> DEFINE Missed == related \ visited
<1>1. /\ process_queue = <<>> /\ walk = NoWalk /\ Firsts(process_queue) = {}
      /\ Seen = visited
  <2>1. process_queue = <<>> /\ walk = NoWalk
    BY DEF UpdateInv, Queue, Walking
  <2>2. DOMAIN process_queue = {}
    BY <2>1
  <2> QED BY <2>1, <2>2 DEF Firsts, Seen
<1>2. /\ visited \subseteq related /\ related \subseteq Nat
      /\ \A e \in visited : Kids(e) \subseteq visited
      /\ \A e \in related : parent[e] = NullEntity => e \in visited
  BY <1>1, HierarchyAssumption DEF UpdateInv, Downward, Built, HierarchyAssumption
<1>3. \A e \in Missed : parent[e] \in Missed /\ parent[e] < e
  <2> SUFFICES ASSUME NEW e \in Missed PROVE parent[e] \in Missed /\ parent[e] < e
    OBVIOUS
  <2>1. e \in Entities /\ parent[e] # NullEntity
    BY <1>2 DEF Built
  <2>2. parent[e] \in related /\ parent[e] < e
    BY <2>1 DEF Built
  <2>3. e \in Kids(parent[e])
    BY <2>1 DEF Kids
  <2> QED BY <1>2, <2>2, <2>3
<1>4. Missed \subseteq Nat
  BY <1>2
<1> HIDE DEF Missed
<1>5. ASSUME Missed # {}
      PROVE  FALSE
  <2>1. PICK e \in Missed : \A d \in Missed : <<d, e>> \notin OpToRel(<, Nat)
    BY <1>4, <1>5, WFMin, NatLessThanWellFounded, Zenon
  <2>2. parent[e] \in Nat /\ e \in Nat /\ parent[e] < e /\ parent[e] \in Missed
    BY <1>3, <1>4
  <2>3. <<parent[e], e>> \in OpToRel(<, Nat)
    BY <2>2 DEF OpToRel
  <2> QED BY <2>1, <2>2, <2>3, Zenon
<1> QED BY <1>2, <1>5 DEF Missed

\* World::update processes every entity with a RelationshipComponent, and none
\* twice, for any number of entities and whatever prefabs and scripts have made
\* of the hierarchy: its queue and its loop along next_child.
THEOREM UpdateVisitsOnce ==
  ASSUME NullEntity \notin Entities PROVE Spec => []EachVisitedOnce
<1>1. Built /\ UpdateInv => EachVisitedOnce
  <2> SUFFICES ASSUME Built, UpdateInv PROVE EachVisitedOnce
    OBVIOUS
  <2>1. Queued = Firsts(process_queue)
    BY DEF Queued, Firsts
  <2>2. Cardinality(Queued) = Len(process_queue)
    BY <2>1, FirstsCounted DEF UpdateInv, Queue
  <2>3. Queued \cap visited = {}
    BY <2>1 DEF UpdateInv, Queue
  <2> QED BY <2>2, <2>3, NobodyMissed DEF EachVisitedOnce
<1> QED BY <1>1, AlwaysBuilt, AlwaysUpdates, PTL

-----------------------------------------------------------------------------
(* Where an update places entities                                         *)

\* The ghost tells what the hierarchy does.
Owned ==
  /\ owner \in [Entities -> Entities \cup {NoEntity}]
  /\ \A e \in Entities :
       owner[e] = IF parent[e] = NullEntity THEN NoEntity ELSE parent[e]

Placed == transform \cup rigid_body

\* Ancestors are the owner and its ancestors; they are all older.
LEMMA AncestorsUp ==
  ASSUME Built, Owned, NEW e \in Entities
  PROVE  /\ owner[e] = NoEntity => Ancestors(e) = {}
         /\ owner[e] # NoEntity =>
              owner[e] \in Entities /\ Ancestors(e) = {owner[e]} \cup Ancestors(owner[e])
         /\ \A a \in Ancestors(e) : a \in Entities /\ a < e
<1>1. NoEntity \notin Entities /\ Entities \subseteq Nat
  <2>1. -1 \notin Nat
    OBVIOUS
  <2> QED BY <2>1, HierarchyAssumption DEF NoEntity, HierarchyAssumption
<1>2. \A b \in Entities : owner[b] # NoEntity => owner[b] \in Entities /\ owner[b] < b
  BY DEF Built, Owned
<1>3. \A b \in Entities : Owners(b) \subseteq Entities
  BY <1>2 DEF Owners
<1>4. ASSUME owner[e] = NoEntity
      PROVE  Ancestors(e) = {}
  <2>1. Owners(e) = {} /\ {} \in SUBSET Entities
    BY <1>4 DEF Owners
  <2> QED BY <2>1 DEF Ancestors
<1>5. ASSUME owner[e] # NoEntity
      PROVE  Ancestors(e) = {owner[e]} \cup Ancestors(owner[e])
  <2>1. PICK p \in Entities : p = owner[e] /\ Owners(e) = {p}
    BY <1>2, <1>5 DEF Owners
  <2>2. ASSUME NEW S \in SUBSET Entities, p \in S, \A b \in S : Owners(b) \subseteq S
        PROVE  Ancestors(p) \subseteq S
    BY <2>2 DEF Ancestors
  <2>3. {p} \cup Ancestors(p) \subseteq Ancestors(e)
    BY <2>1, <2>2 DEF Ancestors
  <2>4. PICK S : S = {p} \cup Ancestors(p)
    OBVIOUS
  <2>5. S \in SUBSET Entities
    BY <2>4 DEF Ancestors
  <2>6. Owners(p) \subseteq Ancestors(p)
    BY <1>3 DEF Ancestors
  <2>7. \A b \in Ancestors(p) : Owners(b) \subseteq Ancestors(p)
    BY <1>3 DEF Ancestors
  <2>8. Ancestors(e) \subseteq S
    BY <2>1, <2>4, <2>5, <2>6, <2>7 DEF Ancestors
  <2> QED BY <2>1, <2>3, <2>4, <2>8
<1>6. \A a \in Ancestors(e) : a \in Entities /\ a < e
  <2>1. PICK S : S = {x \in Entities : x < e}
    OBVIOUS
  <2>2. S \in SUBSET Entities /\ Owners(e) \subseteq S
    BY <1>2, <2>1 DEF Owners
  <2>3. ASSUME NEW b \in S
        PROVE  Owners(b) \subseteq S
    <3> SUFFICES ASSUME NEW o \in Owners(b) PROVE o \in S
      OBVIOUS
    <3>1. b \in Entities /\ b < e /\ o \in Entities /\ o < b
      BY <1>2, <2>1 DEF Owners
    <3>2. b \in Nat /\ o \in Nat /\ e \in Nat
      BY <1>1, <3>1
    <3>3. o < e
      BY <3>1, <3>2
    <3> QED BY <2>1, <3>1, <3>3
  <2>4. Ancestors(e) \subseteq S
    BY <2>2, <2>3 DEF Ancestors
  <2> QED BY <2>1, <2>4
<1> QED BY <1>2, <1>4, <1>5, <1>6

\* The one of a chain of ancestors that is below the others.
Nearest(moved) == CHOOSE a \in moved : moved \subseteq Ancestors(a) \cup {a}

\* The anchor is the owner, if that has a place, or else the owner's anchor.
LEMMA AnchorUp ==
  ASSUME Built, Owned, NEW e \in Entities
  PROVE  /\ owner[e] = NoEntity => Anchor(e) = NoEntity
         /\ owner[e] # NoEntity /\ owner[e] \in Placed => Anchor(e) = owner[e]
         /\ owner[e] # NoEntity /\ owner[e] \notin Placed => Anchor(e) = Anchor(owner[e])
<1>1. \A d \in Entities : \A M : M = Ancestors(d) \cap Placed =>
        Anchor(d) = IF M = {} THEN NoEntity ELSE Nearest(M)
  BY DEF Anchor, Placed, Nearest
<1>2. CASE owner[e] = NoEntity
  BY <1>1, <1>2, AncestorsUp
<1>3. CASE owner[e] # NoEntity
  <2>1. PICK p \in Entities : p = owner[e] /\ Ancestors(e) = {p} \cup Ancestors(p)
    BY <1>3, AncestorsUp
  <2>2. PICK M : M = Ancestors(e) \cap Placed
    OBVIOUS
  <2>3. CASE p \notin Placed
    <3>1. M = Ancestors(p) \cap Placed
      BY <2>1, <2>2, <2>3
    <3>2. Anchor(e) = IF M = {} THEN NoEntity ELSE Nearest(M)
      BY <1>1, <2>2
    <3>3. Anchor(p) = IF M = {} THEN NoEntity ELSE Nearest(M)
      BY <1>1, <3>1
    <3>4. owner[e] = p
      BY <2>1
    <3> QED BY <1>3, <2>3, <3>2, <3>3, <3>4
  <2>4. CASE p \in Placed
    <3>1. p \in M /\ M \subseteq Ancestors(p) \cup {p}
      BY <2>1, <2>2, <2>4
    <3>2. PICK a : a = Nearest(M)
      OBVIOUS
    <3>3. a \in M /\ M \subseteq Ancestors(a) \cup {a}
      BY <3>1, <3>2 DEF Nearest
    <3>4. Anchor(e) = a
      BY <1>1, <2>2, <3>1, <3>2
    <3>5. a \in Entities /\ (a = p \/ a < p) /\ (a = p \/ p < a)
      BY <3>1, <3>3, AncestorsUp
    <3>6. a = p
      BY <3>5, HierarchyAssumption DEF HierarchyAssumption
    <3> QED BY <2>1, <2>4, <3>4, <3>6
  <2> QED BY <1>3, <2>1, <2>3, <2>4
<1> QED BY <1>2, <1>3

\* Whoever is seen, its ancestors have been processed.
LEMMA AncestorsVisited ==
  ASSUME Built, Owned, UpdateInv, NEW e \in Seen
  PROVE  Ancestors(e) \subseteq visited
<1>1. visited \in SUBSET Entities /\ visited \subseteq Seen /\ Seen \subseteq Entities
  BY DEF UpdateInv, Queue, Downward, Built, Seen
<1>2. \A b \in Seen : Owners(b) \subseteq visited
  BY <1>1 DEF UpdateInv, Downward, Owned, Owners
<1> QED BY <1>1, <1>2 DEF Ancestors

\* Where the queue and the walk say that children are placed.
Place(e) == IF Anchor(e) = NoEntity THEN NullEntity ELSE Anchor(e)

\* The factors that an entity's transform is multiplied to.
Chain(e) == IF Anchor(e) = NoEntity THEN <<>> ELSE world_transform[Anchor(e)]

Worked ==
  /\ DOMAIN world_transform = rigid_body \cup (transform \ related) \cup (transform \cap visited)
  /\ \A e \in rigid_body \ transform : world_transform[e] = <<Body(e)>>
  /\ \A e \in transform \ related : world_transform[e] = <<Local(e)>>
  /\ \A e \in transform \cap visited : world_transform[e] = Append(Chain(e), Local(e))

Aimed ==
  /\ \A e \in Seen : Anchor(e) = NoEntity \/ Anchor(e) \in Ancestors(e) \cap Placed
  /\ \A i \in DOMAIN process_queue : process_queue[i][2] = Place(process_queue[i][1])
  /\ walk # NoWalk =>
       walk.parent = IF walk.self \in Placed THEN walk.self ELSE Place(walk.self)

PlaceInv ==
  /\ Placed \subseteq Entities /\ Owned
  /\ phase = "free" => world_transform = [e \in rigid_body |-> <<Body(e)>>]
  /\ phase \in {"roots", "hierarchy", "done"} => Worked /\ Aimed

\* The same of any owners and any places.
AncestorsIn(owns, e) ==
  {a \in Entities : \A S \in SUBSET Entities :
     {owns[e]} \ {NoEntity} \subseteq S /\ (\A b \in S : {owns[b]} \ {NoEntity} \subseteq S)
     => a \in S}

AnchorIn(owns, places, e) ==
  LET moved == AncestorsIn(owns, e) \cap places
  IN  IF moved = {} THEN NoEntity
      ELSE CHOOSE a \in moved : moved \subseteq AncestorsIn(owns, a) \cup {a}

LEMMA AnchorOfState ==
  \A e : /\ Ancestors(e) = AncestorsIn(owner, e)
         /\ Anchor(e) = AnchorIn(owner, transform \cup rigid_body, e)
BY DEF Ancestors, Owners, AncestorsIn, Anchor, AnchorIn

\* While the world is updated, nobody's anchor changes.
LEMMA AnchorsRest ==
  ASSUME UNCHANGED <<owner, transform, rigid_body>>
  PROVE  \A e : Anchor(e)' = Anchor(e) /\ Ancestors(e)' = Ancestors(e) /\ Place(e)' = Place(e)
<1>1. (\A e : /\ Ancestors(e) = AncestorsIn(owner, e)
              /\ Anchor(e) = AnchorIn(owner, transform \cup rigid_body, e))'
  BY AnchorOfState, PTL
<1>2. \A e : Ancestors(e)' = Ancestors(e) /\ Anchor(e)' = Anchor(e)
  BY <1>1, AnchorOfState
<1> QED BY <1>2 DEF Place

LEMMA WorkRests ==
  ASSUME Worked, UNCHANGED <<owner, transform, rigid_body, related, world_transform, visited>>
  PROVE  Worked'
<1>1. \A e : Anchor(e)' = Anchor(e)
  BY AnchorsRest
<1>2. \A e : Chain(e)' = Chain(e)
  BY <1>1 DEF Chain
<1> QED BY <1>2 DEF Worked

LEMMA AimRests ==
  ASSUME Aimed, UNCHANGED <<owner, transform, rigid_body, process_queue, walk, visited>>
  PROVE  Aimed'
<1>1. \A e : Anchor(e)' = Anchor(e) /\ Ancestors(e)' = Ancestors(e) /\ Place(e)' = Place(e)
  BY AnchorsRest
<1> QED BY <1>1 DEF Aimed, Seen, Placed

\* adopt() makes the same of the ghost as of the hierarchy.
LEMMA AdoptOwns ==
  ASSUME NullEntity \notin Entities, Built, Owned, NEW p \in live, NEW c \in live, Adopt(p, c)
  PROVE  Owned'
<1>1. parent' = [parent EXCEPT ![c] = p] /\ owner' = [owner EXCEPT ![c] = p]
  BY DEF Adopt, R!Adopt
<1>2. p \in Entities /\ c \in Entities /\ p # NullEntity
  BY DEF Built
<1> QED BY <1>1, <1>2 DEF Owned, Built

LEMMA PlacesWhenIdle ==
  ASSUME NullEntity \notin Entities, Built, PlaceInv,
         \/ \E e \in Entities, hasTransform, hasBody \in BOOLEAN :
              BeginPrefab(e, hasTransform, hasBody)
         \/ EndPrefab \/ AdoptSpawned
         \/ \E self, e \in Entities, hasTransform \in BOOLEAN :
              SpawnChild(self, e, hasTransform)
         \/ \E e \in Entities : AddTransform(e)
  PROVE  PlaceInv'
<1>1. phase' = "idle"
  BY DEF BeginPrefab, EndPrefab, AdoptSpawned, SpawnChild, AddTransform, Mutable, Built,
         updating
<1>2. Placed' \subseteq Entities
  BY DEF PlaceInv, Placed, Built, BeginPrefab, EndPrefab, AdoptSpawned, SpawnChild, AddTransform
<1>3. Owned'
  <2>1. CASE EndPrefab /\ Len(building) > 1
    <3>1. /\ Len(building) \in Nat /\ DOMAIN building = 1..Len(building)
          /\ Last(Front(building)) = building[Len(building) - 1]
          /\ Last(building) = building[Len(building)]
      BY <2>1 DEF Built, Front, Last
    <3>2. Last(Front(building)) \in live /\ Last(building) \in live
      BY <2>1, <3>1 DEF Built
    <3> QED BY <2>1, <3>2, AdoptOwns DEF PlaceInv, EndPrefab
  <2>2. CASE EndPrefab /\ ~(Len(building) > 1)
    BY <2>2 DEF PlaceInv, Owned, EndPrefab, relVars
  <2>3. CASE AdoptSpawned
    BY <2>3, AdoptOwns DEF PlaceInv, AdoptSpawned, Built
  <2>4. CASE \/ \E e \in Entities, hasTransform, hasBody \in BOOLEAN :
                  BeginPrefab(e, hasTransform, hasBody)
             \/ \E self, e \in Entities, hasTransform \in BOOLEAN :
                  SpawnChild(self, e, hasTransform)
    <3>1. UNCHANGED <<relVars, owner>>
      BY <2>4, Younger DEF BeginPrefab, SpawnChild
    <3> QED BY <3>1 DEF PlaceInv, Owned, relVars
  <2>5. CASE \E e \in Entities : AddTransform(e)
    BY <2>5 DEF PlaceInv, Owned, AddTransform, relVars
  <2> QED BY <2>1, <2>2, <2>3, <2>4, <2>5
<1> QED BY <1>1, <1>2, <1>3 DEF PlaceInv

LEMMA PhasePlaces ==
  ASSUME UpdateInv, PlaceInv, StartUpdate \/ EndHierarchy \/ Return
  PROVE  PlaceInv'
<1>1. UNCHANGED <<parent, owner, transform, rigid_body, related>>
  BY DEF StartUpdate, EndHierarchy, Return, world, relVars, components
<1>2. (Placed \subseteq Entities /\ Owned)'
  BY <1>1 DEF PlaceInv, Placed, Owned
<1>3. CASE StartUpdate
  BY <1>1, <1>2, <1>3 DEF StartUpdate, PlaceInv
<1>4. CASE EndHierarchy
  <2>1. /\ phase = "hierarchy" /\ phase' = "done"
        /\ UNCHANGED <<world_transform, process_queue, walk, visited>>
    BY <1>4 DEF EndHierarchy
  <2> QED BY <1>1, <1>2, <2>1, WorkRests, AimRests DEF PlaceInv
<1>5. CASE Return
  BY <1>2, <1>5 DEF Return, PlaceInv
<1> QED BY <1>3, <1>4, <1>5

LEMMA FreePlaces ==
  ASSUME UpdateInv, PlaceInv, ProcessFree
  PROVE  PlaceInv'
<1>1. /\ UNCHANGED <<parent, owner, transform, rigid_body, related, process_queue, walk, visited>>
      /\ phase = "free" /\ phase' = "roots"
      /\ process_queue = <<>> /\ visited = {} /\ walk = NoWalk
  BY DEF ProcessFree, world, relVars, components, UpdateInv, Queue, Walking
<1>2. (Placed \subseteq Entities /\ Owned)'
  BY <1>1 DEF PlaceInv, Placed, Owned
<1>3. Worked'
  <2>1. /\ DOMAIN world_transform = rigid_body
        /\ \A e \in rigid_body : world_transform[e] = <<Body(e)>>
    BY <1>1 DEF PlaceInv
  <2>2. /\ DOMAIN world_transform' = rigid_body \cup (transform \ related)
        /\ \A e \in transform \ related : world_transform'[e] = <<Local(e)>>
        /\ \A e \in rigid_body \ transform : world_transform'[e] = <<Body(e)>>
    BY <2>1 DEF ProcessFree, FreeTransforms
  <2> QED BY <1>1, <2>2 DEF Worked
<1>4. Aimed'
  <2>1. Seen' = {} /\ DOMAIN process_queue' = {} /\ walk' = NoWalk
    BY <1>1 DEF Seen, Firsts
  <2> QED BY <2>1 DEF Aimed
<1> QED BY <1>1, <1>2, <1>3, <1>4 DEF PlaceInv

LEMMA RootPlaces ==
  ASSUME Built, UpdateInv, PlaceInv, FindRoots
  PROVE  PlaceInv'
<1>1. /\ UNCHANGED <<parent, owner, transform, rigid_body, related, walk, visited,
                     world_transform>>
      /\ phase = "roots" /\ phase' = "hierarchy" /\ visited = {} /\ walk = NoWalk
  BY DEF FindRoots, world, relVars, components, UpdateInv, Queue, Walking
<1>2. (Placed \subseteq Entities /\ Owned)'
  BY <1>1 DEF PlaceInv, Placed, Owned
<1>3. Worked'
  BY <1>1, WorkRests DEF PlaceInv
<1>4. PICK order \in SetToSeqs(Roots) :
        process_queue' = [i \in DOMAIN order |-> <<order[i], NullEntity>>]
  BY DEF FindRoots
<1>5. \A i \in DOMAIN process_queue' :
        process_queue'[i][1] \in Roots /\ process_queue'[i][2] = NullEntity
  <2>1. \A i \in DOMAIN order : order[i] \in Roots
    BY DEF SetToSeqs
  <2> QED BY <1>4, <2>1
<1>6. \A e \in Roots : e \in Entities /\ owner[e] = NoEntity
  BY DEF Roots, R!_hasParent, Built, PlaceInv, Owned
<1>7. \A e \in Roots : Anchor(e) = NoEntity /\ Place(e) = NullEntity
  BY <1>6, AnchorUp DEF PlaceInv, Place
<1>8. \A e : Anchor(e)' = Anchor(e) /\ Place(e)' = Place(e)
  BY <1>1, AnchorsRest
<1>9. Seen' \subseteq Roots /\ walk' = NoWalk
  BY <1>1, <1>5 DEF Seen, Firsts
<1>10. Aimed'
  BY <1>5, <1>7, <1>8, <1>9 DEF Aimed
<1> QED BY <1>1, <1>2, <1>3, <1>10 DEF PlaceInv

\* The entity off the queue is placed relative to its anchor, which has its own
\* place already and keeps it.
LEMMA ProcessPlaces ==
  ASSUME NullEntity \notin Entities, Built, UpdateInv, PlaceInv, ProcessEntity
  PROVE  PlaceInv'
<1>1. PICK self, parent_id : self = Head(process_queue)[1] /\ parent_id = Head(process_queue)[2]
  OBVIOUS
<1>2. /\ phase = "hierarchy" /\ phase' = "hierarchy" /\ process_queue # <<>>
      /\ process_queue' = Tail(process_queue) /\ visited' = visited \cup {self}
      /\ world_transform' = IF self \in transform
                            THEN Set(world_transform, self,
                                     Append(ParentTransform(parent_id), Local(self)))
                            ELSE world_transform
      /\ walk' = IF child_num[self] > 0
                 THEN [self |-> self, child |-> first_child[self],
                       parent |-> TransformParent(self, parent_id)]
                 ELSE NoWalk
      /\ UNCHANGED <<parent, owner, transform, rigid_body, related>>
  BY <1>1 DEF ProcessEntity, world, relVars, components
<1>3. Worked /\ Aimed /\ Owned /\ Placed \subseteq Entities
  BY <1>2 DEF PlaceInv
<1>4. /\ 1 \in DOMAIN process_queue /\ Head(process_queue) = process_queue[1]
      /\ DOMAIN process_queue' \subseteq DOMAIN process_queue
      /\ \A i \in DOMAIN process_queue' :
           i + 1 \in DOMAIN process_queue /\ process_queue'[i] = process_queue[i + 1]
  BY <1>2 DEF UpdateInv, Queue
<1>5. /\ self \in Firsts(process_queue) /\ self \in Seen /\ self \notin visited
      /\ self \in related /\ visited \subseteq Seen /\ Seen \subseteq Entities
      /\ Seen' \subseteq Seen
  <2>1. self \in Firsts(process_queue) /\ Firsts(process_queue') \subseteq Firsts(process_queue)
    BY <1>1, <1>4 DEF Firsts
  <2> QED BY <1>2, <2>1 DEF UpdateInv, Queue, Downward, Built, Seen
<1>6. \A e \in Seen : /\ Ancestors(e) \subseteq visited
                      /\ Anchor(e) = NoEntity \/ Anchor(e) \in Ancestors(e) \cap Placed
  BY <1>3, AncestorsVisited DEF Aimed
<1>7. parent_id = Place(self)
  BY <1>1, <1>3, <1>4 DEF Aimed
<1>8. ParentTransform(parent_id) = Chain(self)
  <2>1. CASE Anchor(self) = NoEntity
    BY <1>7, <2>1 DEF Place, ParentTransform, Chain
  <2>2. CASE Anchor(self) # NoEntity
    <3>1. Anchor(self) # NullEntity
      BY <1>5, <1>6, <2>2
    <3> QED BY <1>7, <2>2, <3>1 DEF Place, ParentTransform, Chain
  <2> QED BY <2>1, <2>2
<1>9. /\ DOMAIN world_transform' = rigid_body \cup (transform \ related)
                                   \cup (transform \cap visited')
      /\ \A e \in DOMAIN world_transform : e # self => world_transform'[e] = world_transform[e]
      /\ self \in transform => world_transform'[self] = Append(Chain(self), Local(self))
  <2>1. CASE self \in transform
    BY <1>2, <1>3, <1>8, <2>1 DEF Worked, Set
  <2>2. CASE self \notin transform
    BY <1>2, <1>3, <2>2 DEF Worked
  <2> QED BY <2>1, <2>2
<1>10. \A e : Anchor(e)' = Anchor(e) /\ Ancestors(e)' = Ancestors(e) /\ Place(e)' = Place(e)
  BY <1>2, AnchorsRest
<1>11. \A e \in Seen : Chain(e)' = Chain(e)
  <2> SUFFICES ASSUME NEW e \in Seen PROVE Chain(e)' = Chain(e)
    OBVIOUS
  <2>1. CASE Anchor(e) = NoEntity
    BY <1>10, <2>1 DEF Chain
  <2>2. CASE Anchor(e) # NoEntity
    <3>1. Anchor(e) \in visited /\ Anchor(e) \in Placed /\ Anchor(e) # self
      BY <1>5, <1>6, <2>2
    <3>2. Anchor(e) \in DOMAIN world_transform
      BY <1>3, <3>1 DEF Worked, Placed
    <3>3. world_transform'[Anchor(e)] = world_transform[Anchor(e)]
      BY <1>9, <3>1, <3>2
    <3> QED BY <1>10, <2>2, <3>3 DEF Chain
  <2> QED BY <2>1, <2>2
<1>12. Worked'
  <2>1. \A e \in rigid_body \ transform : world_transform'[e] = <<Body(e)>>
    BY <1>2, <1>3, <1>9 DEF Worked
  <2>2. \A e \in transform \ related : world_transform'[e] = <<Local(e)>>
    BY <1>3, <1>5, <1>9 DEF Worked
  <2>3. \A e \in transform \cap visited : world_transform'[e] = Append(Chain(e)', Local(e))
    BY <1>3, <1>5, <1>9, <1>11 DEF Worked
  <2>4. self \in transform => world_transform'[self] = Append(Chain(self)', Local(self))
    BY <1>5, <1>9, <1>11
  <2> QED BY <1>2, <1>9, <2>1, <2>2, <2>3, <2>4 DEF Worked
<1>13. Aimed'
  <2>1. \A e \in Seen' : Anchor(e)' = NoEntity \/ Anchor(e)' \in Ancestors(e)' \cap Placed'
    BY <1>2, <1>5, <1>6, <1>10 DEF Placed
  <2>2. \A i \in DOMAIN process_queue' : process_queue'[i][2] = Place(process_queue'[i][1])
    BY <1>3, <1>4 DEF Aimed
  <2>3. self \in DOMAIN world_transform' <=> self \in Placed
    BY <1>2, <1>5, <1>9 DEF Placed
  <2>4. walk' # NoWalk => walk'.self = self /\ walk'.parent = TransformParent(self, parent_id)
    BY <1>2
  <2>5. walk' # NoWalk =>
          walk'.parent = IF walk'.self \in Placed THEN walk'.self ELSE Place(walk'.self)
    BY <1>7, <2>3, <2>4 DEF TransformParent
  <2>6. Placed' = Placed
    BY <1>2 DEF Placed
  <2> QED BY <1>10, <2>1, <2>2, <2>5, <2>6 DEF Aimed
<1>14. (Placed \subseteq Entities /\ Owned)'
  BY <1>2, <1>3 DEF Placed, Owned
<1> QED BY <1>2, <1>12, <1>13, <1>14 DEF PlaceInv

\* A child is placed relative to the entity that the loop passes on: its
\* parent, or where that has no place, what the parent is placed relative to.
LEMMA EnqueuePlaces ==
  ASSUME NullEntity \notin Entities, Built, UpdateInv, PlaceInv, EnqueueChild
  PROVE  PlaceInv'
<1>1. PICK self, child : self = walk.self /\ child = walk.child
  OBVIOUS
<1>2. /\ walk # NoWalk /\ process_queue' = Append(process_queue, <<child, walk.parent>>)
      /\ walk' # NoWalk => walk' = [walk EXCEPT !.child = next_child[child]]
      /\ UNCHANGED <<parent, owner, transform, rigid_body, related, world_transform, visited,
                     phase>>
  BY <1>1 DEF EnqueueChild, world, relVars, components
<1>3. /\ phase = "hierarchy" /\ walk \in Links /\ self \in visited
      /\ child \in Kids(self) /\ child \in Entities /\ self \in Entities /\ self \in Seen
  BY <1>1, <1>2 DEF UpdateInv, Walking, Links, Kids, Seen
<1>4. Worked /\ Aimed /\ Owned /\ Placed \subseteq Entities
  BY <1>3 DEF PlaceInv
<1>5. NoEntity \notin Entities
  <2>1. -1 \notin Nat
    OBVIOUS
  <2> QED BY <2>1, HierarchyAssumption DEF NoEntity, HierarchyAssumption
<1>6. owner[child] = self /\ owner[child] # NoEntity
  BY <1>3, <1>4, <1>5 DEF Owned, Kids
<1>7. Ancestors(child) = {self} \cup Ancestors(self)
  BY <1>3, <1>4, <1>6, AncestorsUp
<1>8. /\ self \in Placed => Anchor(child) = self
      /\ self \notin Placed => Anchor(child) = Anchor(self)
  BY <1>3, <1>4, <1>6, AnchorUp
<1>9. Anchor(child) = NoEntity \/ Anchor(child) \in Ancestors(child) \cap Placed
  BY <1>3, <1>4, <1>7, <1>8 DEF Aimed
<1>10. walk.parent = Place(child)
  BY <1>1, <1>2, <1>3, <1>4, <1>5, <1>8 DEF Aimed, Place
<1>11. Worked'
  BY <1>2, <1>4, WorkRests
<1>12. \A e : Anchor(e)' = Anchor(e) /\ Ancestors(e)' = Ancestors(e) /\ Place(e)' = Place(e)
  BY <1>2, AnchorsRest
<1>13. Placed' = Placed
  BY <1>2 DEF Placed
<1>14. Aimed'
  <2>1. PICK n \in Nat : n = Len(process_queue)
    BY DEF UpdateInv, Queue
  <2>2. /\ DOMAIN process_queue = 1..n /\ DOMAIN process_queue' = 1..(n + 1)
        /\ \A i \in 1..n : process_queue'[i] = process_queue[i]
        /\ process_queue'[n + 1] = <<child, walk.parent>>
    BY <1>2, <2>1 DEF UpdateInv, Queue
  <2>3. \A i \in DOMAIN process_queue' : process_queue'[i][2] = Place(process_queue'[i][1])
    <3> SUFFICES ASSUME NEW i \in DOMAIN process_queue'
                 PROVE  process_queue'[i][2] = Place(process_queue'[i][1])
      OBVIOUS
    <3>1. CASE i \in 1..n
      BY <1>4, <2>2, <3>1 DEF Aimed
    <3>2. CASE i = n + 1
      BY <1>10, <2>2, <3>2
    <3> QED BY <2>1, <2>2, <3>1, <3>2
  <2>4. Seen' \subseteq Seen \cup {child}
    <3> SUFFICES ASSUME NEW i \in DOMAIN process_queue'
                 PROVE  process_queue'[i][1] \in Firsts(process_queue) \cup {child}
      BY <1>2 DEF Seen, Firsts
    <3>1. CASE i \in 1..n
      BY <2>2, <3>1 DEF Firsts
    <3>2. CASE i = n + 1
      BY <2>2, <3>2
    <3> QED BY <2>1, <2>2, <3>1, <3>2
  <2>5. \A e \in Seen' : Anchor(e) = NoEntity \/ Anchor(e) \in Ancestors(e) \cap Placed
    BY <1>4, <1>9, <2>4 DEF Aimed
  <2>6. walk' # NoWalk => walk'.self = walk.self /\ walk'.parent = walk.parent
    BY <1>2, <1>3 DEF Links
  <2>7. walk' # NoWalk =>
          walk'.parent = IF walk'.self \in Placed THEN walk'.self ELSE Place(walk'.self)
    BY <1>2, <1>4, <2>6 DEF Aimed
  <2> QED BY <1>12, <1>13, <2>3, <2>5, <2>7 DEF Aimed
<1>15. (Placed \subseteq Entities /\ Owned)'
  BY <1>2, <1>4 DEF Placed, Owned
<1> QED BY <1>2, <1>3, <1>11, <1>14, <1>15 DEF PlaceInv

LEMMA AlwaysPlaced ==
  ASSUME NullEntity \notin Entities PROVE Spec => []PlaceInv
<1>1. Init => PlaceInv
  <2> SUFFICES ASSUME Init PROVE PlaceInv
    OBVIOUS
  <2>1. parent = [e \in Entities |-> NullEntity] /\ owner = [e \in Entities |-> NoEntity]
    BY DEF Init, R!Init
  <2> QED BY <2>1 DEF Init, PlaceInv, Placed, Owned
<1>2. Built /\ UpdateInv /\ PlaceInv /\ [Next]_vars => PlaceInv'
  <2> SUFFICES ASSUME Built, UpdateInv, PlaceInv, [Next]_vars PROVE PlaceInv'
    OBVIOUS
  <2>1. CASE UNCHANGED vars
    <3>1. UNCHANGED <<parent, owner, transform, rigid_body, related, world_transform,
                      process_queue, walk, visited, phase>>
      BY <2>1 DEF vars, relVars, components, updating
    <3>2. (Placed \subseteq Entities /\ Owned)'
      BY <3>1 DEF PlaceInv, Placed, Owned
    <3> QED BY <3>1, <3>2, WorkRests, AimRests DEF PlaceInv
  <2> QED BY <2>1, PlacesWhenIdle, PhasePlaces, FreePlaces, RootPlaces, ProcessPlaces,
             EnqueuePlaces DEF Next
<1> QED BY <1>1, <1>2, AlwaysBuilt, AlwaysUpdates, PTL DEF Spec

\* After World::update, whatever was built before it, every transform is its
\* entity's own one on top of that of the closest placed ancestor, also across
\* ancestors without a transform; a rigid body without a transform is where
\* physics put it.
THEOREM UpdatePlacesChildren ==
  ASSUME NullEntity \notin Entities PROVE Spec => []ChildrenFollowParents
<1>1. Built /\ UpdateInv /\ PlaceInv => ChildrenFollowParents
  <2> SUFFICES ASSUME Built, UpdateInv, PlaceInv, phase = "done"
               PROVE  /\ DOMAIN world_transform = transform \cup rigid_body
                      /\ \A e \in transform : world_transform[e] = Append(Chain(e), Local(e))
                      /\ \A e \in rigid_body \ transform : world_transform[e] = <<Body(e)>>
    BY DEF ChildrenFollowParents, Chain
  <2>1. visited = related /\ Worked /\ Owned /\ Placed \subseteq Entities
    BY NobodyMissed DEF PlaceInv
  <2>2. DOMAIN world_transform = transform \cup rigid_body
    BY <2>1 DEF Worked
  <2>3. ASSUME NEW e \in transform \ related
        PROVE  world_transform[e] = Append(Chain(e), Local(e))
    <3>1. e \in Entities /\ owner[e] = NoEntity
      BY <2>1, <2>3 DEF Placed, Owned, Built
    <3>2. Chain(e) = <<>>
      BY <2>1, <3>1, AnchorUp DEF Chain
    <3> QED BY <2>1, <2>3, <3>2 DEF Worked
  <2>4. \A e \in transform \cap related : world_transform[e] = Append(Chain(e), Local(e))
    BY <2>1 DEF Worked
  <2>5. \A e \in rigid_body \ transform : world_transform[e] = <<Body(e)>>
    BY <2>1 DEF Worked
  <2> QED BY <2>2, <2>3, <2>4, <2>5
<1> QED BY <1>1, AlwaysBuilt, AlwaysUpdates, AlwaysPlaced, PTL
=============================================================================
