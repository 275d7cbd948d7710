------------------------- MODULE Relationship_proofs -------------------------
(***************************************************************************)
(* The hierarchy's invariant, for any finite set of entities.  It needs    *)
(* NullEntity not to be the id of an entity: see the run null_entity for   *)
(* what happens when it is.                                                *)
(*                                                                         *)
(* adopt() orphans the child and then links it, so the proof goes through  *)
(* the hierarchy between the two: Rings is the invariant as a predicate on *)
(* any values of the five fields.                                          *)
(***************************************************************************)
EXTENDS Relationship, FiniteSetTheorems, TLAPS

KidsIn(par, p) == {c \in Entities : par[c] = p}

Typed(par, fst, prv, nxt, num) ==
  /\ par \in [Entities -> Entities \cup {NullEntity}]
  /\ fst \in [Entities -> Entities \cup {NullEntity}]
  /\ prv \in [Entities -> Entities]
  /\ nxt \in [Entities -> Entities]
  /\ num \in [Entities -> Nat]

Linked(par, prv, nxt) ==
  \A e \in Entities : par[e] # NullEntity =>
    /\ nxt[prv[e]] = e /\ prv[nxt[e]] = e
    /\ par[prv[e]] = par[e] /\ par[nxt[e]] = par[e]

Counted(par, fst, num) ==
  \A p \in Entities :
    /\ num[p] = Cardinality(KidsIn(par, p))
    /\ num[p] > 0 => fst[p] \in KidsIn(par, p)

Connected(par, nxt) ==
  \A p \in Entities : \A S \in SUBSET KidsIn(par, p) :
    S # {} /\ (\A e \in S : nxt[e] \in S) => S = KidsIn(par, p)

Rings(par, fst, prv, nxt, num) ==
  /\ Typed(par, fst, prv, nxt, num)
  /\ Linked(par, prv, nxt)
  /\ Counted(par, fst, num)
  /\ Connected(par, nxt)

IInv == live \subseteq Entities /\ Rings(parent, first_child, prev_child, next_child, child_num)

OrphanParent(c) == [parent EXCEPT ![c] = NullEntity]

-----------------------------------------------------------------------------
(* Sets of children are finite, and change by one element.                 *)

LEMMA KidsFinite ==
  ASSUME NEW par, NEW p
  PROVE  /\ IsFiniteSet(KidsIn(par, p))
         /\ Cardinality(KidsIn(par, p)) \in Nat
         /\ Cardinality(KidsIn(par, p)) = 0 <=> KidsIn(par, p) = {}
<1>1. IsFiniteSet(KidsIn(par, p))
  BY FS_Subset, EntityAssumption DEF KidsIn
<1>2. QED
  BY <1>1, FS_CardinalityType, FS_EmptySet

LEMMA KidsLose ==
  ASSUME NEW par, NEW p, NEW c \in KidsIn(par, p)
  PROVE  Cardinality(KidsIn(par, p) \ {c}) = Cardinality(KidsIn(par, p)) - 1
BY KidsFinite, FS_RemoveElement

LEMMA KidsGain ==
  ASSUME NEW par, NEW p, NEW c, c \notin KidsIn(par, p)
  PROVE  Cardinality(KidsIn(par, p) \cup {c}) = Cardinality(KidsIn(par, p)) + 1
BY KidsFinite, FS_AddElement

-----------------------------------------------------------------------------
(* _orphan                                                                 *)

\* Orphaning a child closes the ring behind it.
LEMMA OrphanKeepsRings ==
  ASSUME NullEntity \notin Entities, IInv, NEW c \in Entities
  PROVE  /\ Rings(OrphanParent(c), OrphanFirst(c), OrphanPrev(c), OrphanNext(c), OrphanNum(c))
         /\ OrphanParent(c)[c] = NullEntity
<1> DEFINE par == OrphanParent(c)
           fst == OrphanFirst(c)
           prv == OrphanPrev(c)
           nxt == OrphanNext(c)
           num == OrphanNum(c)
           q == parent[c]
<1> USE DEF Typed, _hasParent
<1>0. Typed(parent, first_child, prev_child, next_child, child_num)
  BY DEF IInv, Rings
<1>c. par[c] = NullEntity
  BY <1>0 DEF OrphanParent
<1>1. CASE ~_hasParent(c)
  <2>1. par = parent
    BY <1>0, <1>1 DEF OrphanParent
  <2>2. fst = first_child /\ prv = prev_child /\ nxt = next_child /\ num = child_num
    BY <1>1 DEF OrphanFirst, OrphanPrev, OrphanNext, OrphanNum
  <2>3. QED
    BY <1>c, <2>1, <2>2 DEF IInv
<1>2. CASE _hasParent(c)
  <2>q. q \in Entities
    BY <1>0, <1>2
  <2>0. Linked(parent, prev_child, next_child) /\ Counted(parent, first_child, child_num)
        /\ Connected(parent, next_child)
    BY DEF IInv, Rings
  <2>1. par = [parent EXCEPT ![c] = NullEntity]
    BY DEF OrphanParent
  <2>2. prv = [prev_child EXCEPT ![next_child[c]] = prev_child[c]]
    BY <1>2 DEF OrphanPrev
  <2>3. nxt = [next_child EXCEPT ![prev_child[c]] = next_child[c]]
    BY <1>2 DEF OrphanNext
  <2>4. num = [child_num EXCEPT ![q] = @ - 1]
    BY <1>2 DEF OrphanNum
  <2>5. fst = IF first_child[q] = c THEN [first_child EXCEPT ![q] = next_child[c]]
                                    ELSE first_child
    BY <1>2 DEF OrphanFirst
  <2>6. /\ next_child[prev_child[c]] = c /\ prev_child[next_child[c]] = c
        /\ parent[prev_child[c]] = q /\ parent[next_child[c]] = q
    BY <1>2, <2>0 DEF Linked
  <2>7. c \in KidsIn(parent, q)
    BY DEF KidsIn
  <2>8. /\ KidsIn(par, q) = KidsIn(parent, q) \ {c}
        /\ \A p \in Entities : p # q => KidsIn(par, p) = KidsIn(parent, p)
    BY <1>0, <2>1, <2>q DEF KidsIn
  <2>9. child_num[q] = Cardinality(KidsIn(parent, q)) /\ child_num[q] # 0
    BY <2>0, <2>7, <2>q, KidsFinite DEF Counted
  <2>10. Typed(par, fst, prv, nxt, num)
    BY <1>0, <2>q, <2>1, <2>2, <2>3, <2>4, <2>5, <2>9
  <2>11. Linked(par, prv, nxt)
    <3> SUFFICES ASSUME NEW e \in Entities, par[e] # NullEntity
                 PROVE  /\ nxt[prv[e]] = e /\ prv[nxt[e]] = e
                        /\ par[prv[e]] = par[e] /\ par[nxt[e]] = par[e]
      BY DEF Linked
    <3>1. e # c /\ par[e] = parent[e] /\ parent[e] # NullEntity
      BY <1>0, <2>1
    <3>2. /\ next_child[prev_child[e]] = e /\ prev_child[next_child[e]] = e
          /\ parent[prev_child[e]] = parent[e] /\ parent[next_child[e]] = parent[e]
      BY <2>0, <3>1 DEF Linked
    <3>3. nxt[prv[e]] = e /\ par[prv[e]] = par[e]
      BY <1>0, <2>1, <2>2, <2>3, <2>6, <3>1, <3>2
    <3>4. prv[nxt[e]] = e /\ par[nxt[e]] = par[e]
      BY <1>0, <2>1, <2>2, <2>3, <2>6, <3>1, <3>2
    <3>5. QED
      BY <3>3, <3>4
  <2>12. \A p \in Entities : num[p] = Cardinality(KidsIn(par, p))
    BY <1>0, <2>0, <2>q, <2>4, <2>7, <2>8, <2>9, KidsLose DEF Counted
  <2>13. Connected(par, nxt)
    <3> SUFFICES ASSUME NEW p \in Entities, NEW S \in SUBSET KidsIn(par, p),
                        S # {}, \A e \in S : nxt[e] \in S
                 PROVE  S = KidsIn(par, p)
      BY DEF Connected
    <3>1. CASE p # q
      <4>1. KidsIn(par, p) = KidsIn(parent, p)
        BY <2>8, <3>1
      <4>2. \A e \in S : e # prev_child[c]
        BY <2>6, <3>1, <4>1 DEF KidsIn
      <4>3. \A e \in S : nxt[e] = next_child[e]
        BY <1>0, <2>3, <4>1, <4>2 DEF KidsIn
      <4>4. QED
        BY <2>0, <4>1, <4>3 DEF Connected
    <3>2. CASE p = q /\ prev_child[c] \in S
      <4> DEFINE T == S \cup {c}
      <4>1. T \subseteq KidsIn(parent, q)
        BY <2>7, <2>8, <3>2
      <4>2. \A e \in S : e # prev_child[c] => next_child[e] \in S
        BY <1>0, <2>3, <2>8, <3>2 DEF KidsIn
      <4>3. next_child[c] \in S
        BY <1>0, <2>3, <3>2
      <4>4. \A e \in T : next_child[e] \in T
        BY <2>6, <4>2, <4>3
      <4>5. T = KidsIn(parent, q)
        BY <2>0, <2>q, <4>1, <4>4 DEF Connected
      <4>6. QED
        BY <2>8, <3>2, <4>5
    <3>3. CASE p = q /\ prev_child[c] \notin S
      <4>1. S \subseteq KidsIn(parent, q) /\ c \notin S
        BY <2>8, <3>3
      <4>2. \A e \in S : next_child[e] \in S
        BY <1>0, <2>3, <3>3, <4>1 DEF KidsIn
      <4>3. S = KidsIn(parent, q)
        BY <2>0, <2>q, <4>1, <4>2 DEF Connected
      <4>4. QED
        BY <2>7, <4>1, <4>3
    <3>4. QED
      BY <3>1, <3>2, <3>3
  <2>14. next_child[c] = c => KidsIn(parent, q) = {c}
    <3>1. {c} \in SUBSET KidsIn(parent, q) /\ {c} # {}
      BY <2>7
    <3>2. next_child[c] = c => \A e \in {c} : next_child[e] \in {c}
      OBVIOUS
    <3>3. QED
      BY <2>0, <2>q, <3>1, <3>2 DEF Connected
  <2>15. \A p \in Entities : num[p] > 0 => fst[p] \in KidsIn(par, p)
    <3> SUFFICES ASSUME NEW p \in Entities, num[p] > 0
                 PROVE  fst[p] \in KidsIn(par, p)
      OBVIOUS
    <3>1. CASE p # q
      BY <1>0, <2>0, <2>q, <2>4, <2>5, <2>8, <3>1 DEF Counted
    <3>2. CASE p = q
      <4>1. KidsIn(parent, q) # {c}
        BY <2>8, <2>12, <3>2, KidsFinite
      <4>2. next_child[c] \in KidsIn(parent, q) \ {c}
        BY <1>0, <2>6, <2>14, <4>1 DEF KidsIn
      <4>3. first_child[q] \in KidsIn(parent, q)
        BY <1>0, <2>0, <2>q, <2>9 DEF Counted
      <4>4. fst[q] = IF first_child[q] = c THEN next_child[c] ELSE first_child[q]
        BY <1>0, <2>q, <2>5
      <4>5. QED
        BY <2>8, <3>2, <4>2, <4>3, <4>4
    <3>3. QED
      BY <3>1, <3>2
  <2>16. QED
    BY <1>c, <2>10, <2>11, <2>12, <2>13, <2>15 DEF Rings, Counted
<1>3. QED
  BY <1>1, <1>2

-----------------------------------------------------------------------------
(* _adopt, after it has orphaned the child                                 *)

\* The fields once c is linked into the ring of p.
LinkedPrev(p, c, fst, prv, nxt, num) ==
  IF num[p] # 0 THEN [prv EXCEPT ![c] = prv[nxt[fst[p]]], ![nxt[fst[p]]] = c]
                ELSE [prv EXCEPT ![c] = c]
LinkedNext(p, c, fst, nxt, num) ==
  IF num[p] # 0 THEN [nxt EXCEPT ![c] = nxt[fst[p]], ![fst[p]] = c]
                ELSE [nxt EXCEPT ![c] = c]
LinkedFirst(p, c, fst, num) ==
  IF num[p] # 0 THEN fst ELSE [fst EXCEPT ![p] = c]

\* Linking an orphan into a ring, or as a ring of its own, leaves rings.
LEMMA LinkKeepsRings ==
  ASSUME NullEntity \notin Entities,
         NEW par, NEW fst, NEW prv, NEW nxt, NEW num,
         Rings(par, fst, prv, nxt, num),
         NEW p \in Entities, NEW c \in Entities, par[c] = NullEntity
  PROVE  Rings([par EXCEPT ![c] = p], LinkedFirst(p, c, fst, num),
               LinkedPrev(p, c, fst, prv, nxt, num), LinkedNext(p, c, fst, nxt, num),
               [num EXCEPT ![p] = @ + 1])
<1> DEFINE par1 == [par EXCEPT ![c] = p]
           fst1 == LinkedFirst(p, c, fst, num)
           prv1 == LinkedPrev(p, c, fst, prv, nxt, num)
           nxt1 == LinkedNext(p, c, fst, nxt, num)
           num1 == [num EXCEPT ![p] = @ + 1]
           K == KidsIn(par, p)
<1> USE DEF Typed
<1>0. /\ Typed(par, fst, prv, nxt, num) /\ Linked(par, prv, nxt)
      /\ Counted(par, fst, num) /\ Connected(par, nxt)
  BY DEF Rings
<1>1. c \notin K
  BY DEF KidsIn
<1>2. /\ KidsIn(par1, p) = K \cup {c}
      /\ \A r \in Entities : r # p => KidsIn(par1, r) = KidsIn(par, r)
  BY <1>0 DEF KidsIn
<1>3. \A r \in Entities : num1[r] = Cardinality(KidsIn(par1, r))
  <2> SUFFICES ASSUME NEW r \in Entities PROVE num1[r] = Cardinality(KidsIn(par1, r))
    OBVIOUS
  <2>1. CASE r # p
    BY <1>0, <1>2, <2>1 DEF Counted
  <2>2. CASE r = p
    <3>1. Cardinality(K \cup {c}) = Cardinality(K) + 1
      BY <1>1, KidsGain
    <3>2. num[p] = Cardinality(K)
      BY <1>0 DEF Counted
    <3>3. QED
      BY <1>0, <1>2, <2>2, <3>1, <3>2
  <2>3. QED
    BY <2>1, <2>2
<1>4. CASE num[p] # 0
  <2> DEFINE f == fst[p]
             s == nxt[f]
  <2>1. f \in K /\ f \in Entities /\ par[f] = p
    <3>1. num[p] > 0
      BY <1>0, <1>4
    <3>2. fst[p] \in KidsIn(par, p)
      BY <1>0, <3>1 DEF Counted
    <3>3. QED
      BY <3>2 DEF KidsIn
  <2>2. s \in Entities /\ par[s] = p /\ prv[s] = f
    BY <1>0, <2>1 DEF Linked
  <2>3. c # f /\ c # s
    BY <2>1, <2>2
  <2>4. /\ prv1 = [prv EXCEPT ![c] = f, ![s] = c]
        /\ nxt1 = [nxt EXCEPT ![c] = s, ![f] = c]
        /\ fst1 = fst
    BY <1>4, <2>2 DEF LinkedPrev, LinkedNext, LinkedFirst
  <2> HIDE DEF fst1, prv1, nxt1, f, s
  <2>5. Typed(par1, fst1, prv1, nxt1, num1)
    BY <1>0, <2>1, <2>2, <2>4
  <2>6. Linked(par1, prv1, nxt1)
    <3> SUFFICES ASSUME NEW e \in Entities, par1[e] # NullEntity
                 PROVE  /\ nxt1[prv1[e]] = e /\ prv1[nxt1[e]] = e
                        /\ par1[prv1[e]] = par1[e] /\ par1[nxt1[e]] = par1[e]
      BY DEF Linked
    <3>1. CASE e = c
      BY <1>0, <2>1, <2>2, <2>3, <2>4, <3>1
    <3>2. CASE e # c
      <4>1. /\ par[e] # NullEntity
            /\ nxt[prv[e]] = e /\ prv[nxt[e]] = e
            /\ par[prv[e]] = par[e] /\ par[nxt[e]] = par[e]
        BY <1>0, <3>2 DEF Linked
      <4>2. nxt1[prv1[e]] = e /\ par1[prv1[e]] = par1[e]
        <5>1. CASE e = s
          BY <1>0, <2>1, <2>2, <2>3, <2>4, <5>1
        <5>2. CASE e # s
          <6>1. prv[e] \in Entities /\ prv[e] # c /\ prv[e] # f
            BY <1>0, <4>1, <5>2 DEF s
          <6>2. prv1[e] = prv[e] /\ nxt1[prv[e]] = e
            BY <1>0, <2>4, <3>2, <4>1, <5>2, <6>1
          <6>3. QED
            BY <1>0, <3>2, <4>1, <6>1, <6>2
        <5>3. QED
          BY <5>1, <5>2
      <4>3. nxt[f] = s
        BY DEF s
      <4>4. prv1[nxt1[e]] = e /\ par1[nxt1[e]] = par1[e]
        BY <1>0, <2>1, <2>2, <2>3, <2>4, <3>2, <4>1, <4>3
      <4>5. QED
        BY <4>2, <4>4
    <3>3. QED
      BY <3>1, <3>2
  <2>7. Connected(par1, nxt1)
    <3> SUFFICES ASSUME NEW r \in Entities, NEW S \in SUBSET KidsIn(par1, r),
                        S # {}, \A e \in S : nxt1[e] \in S
                 PROVE  S = KidsIn(par1, r)
      BY DEF Connected
    <3>1. CASE r # p
      <4>1. S \subseteq KidsIn(par, r) /\ f \notin S /\ c \notin S
        BY <1>2, <2>1, <3>1 DEF KidsIn
      <4>2. \A e \in S : nxt[e] \in S
        BY <1>0, <2>4, <4>1 DEF KidsIn
      <4>3. QED
        BY <1>0, <1>2, <3>1, <4>1, <4>2 DEF Connected
    <3>2. CASE r = p
      <4> DEFINE T == S \ {c}
      <4>1. T \subseteq K
        BY <1>2, <3>2
      <4>2. c \in S => s \in S
        BY <1>0, <2>3, <2>4
      <4>3. T # {}
        BY <2>3, <4>2
      <4>4. \A e \in T : nxt[e] \in T
        <5> SUFFICES ASSUME NEW e \in T PROVE nxt[e] \in T
          OBVIOUS
        <5>1. e \in Entities /\ par[e] = p
          BY <4>1 DEF KidsIn
        <5>2. CASE e = f
          <6>1. c \in S
            BY <1>0, <2>1, <2>3, <2>4, <5>2
          <6>2. nxt[e] = s
            BY <5>2 DEF s
          <6>3. QED
            BY <2>3, <4>2, <6>1, <6>2
        <5>3. CASE e # f
          <6>1. nxt1[e] = nxt[e]
            BY <1>0, <2>4, <5>1, <5>3
          <6>2. par[nxt[e]] = p
            BY <1>0, <5>1 DEF Linked
          <6>3. QED
            BY <6>1, <6>2
        <5>4. QED
          BY <5>2, <5>3
      <4>5. T = K
        BY <1>0, <4>1, <4>3, <4>4 DEF Connected
      <4>6. c \in S
        BY <1>0, <2>1, <2>3, <2>4, <4>5
      <4>7. QED
        BY <1>2, <3>2, <4>5, <4>6
    <3>3. QED
      BY <3>1, <3>2
  <2>8. \A r \in Entities : num1[r] > 0 => fst1[r] \in KidsIn(par1, r)
    <3> SUFFICES ASSUME NEW r \in Entities, num1[r] > 0
                 PROVE  fst1[r] \in KidsIn(par1, r)
      OBVIOUS
    <3>1. CASE r # p
      BY <1>0, <1>2, <2>4, <3>1 DEF Counted
    <3>2. CASE r = p
      BY <1>2, <2>1, <2>4, <3>2 DEF f
    <3>3. QED
      BY <3>1, <3>2
  <2>9. Counted(par1, fst1, num1)
    BY <1>3, <2>8 DEF Counted
  <2> HIDE DEF par1, num1
  <2>10. Rings(par1, fst1, prv1, nxt1, num1)
    BY <2>5, <2>6, <2>7, <2>9 DEF Rings
  <2>11. QED
    BY <2>10 DEF par1, fst1, prv1, nxt1, num1
<1>5. CASE num[p] = 0
  <2>1. K = {}
    BY <1>0, <1>5, KidsFinite DEF Counted
  <2>2. /\ prv1 = [prv EXCEPT ![c] = c]
        /\ nxt1 = [nxt EXCEPT ![c] = c]
        /\ fst1 = [fst EXCEPT ![p] = c]
    BY <1>5 DEF LinkedPrev, LinkedNext, LinkedFirst
  <2> HIDE DEF fst1, prv1, nxt1
  <2>3. Typed(par1, fst1, prv1, nxt1, num1)
    BY <1>0, <2>2
  <2>4. Linked(par1, prv1, nxt1)
    <3> SUFFICES ASSUME NEW e \in Entities, par1[e] # NullEntity
                 PROVE  /\ nxt1[prv1[e]] = e /\ prv1[nxt1[e]] = e
                        /\ par1[prv1[e]] = par1[e] /\ par1[nxt1[e]] = par1[e]
      BY DEF Linked
    <3>1. CASE e = c
      BY <1>0, <2>2, <3>1
    <3>2. CASE e # c
      <4>1. /\ par[e] # NullEntity /\ par1[e] = par[e]
            /\ nxt[prv[e]] = e /\ prv[nxt[e]] = e
            /\ par[prv[e]] = par[e] /\ par[nxt[e]] = par[e]
        BY <1>0, <3>2 DEF Linked
      <4>2. prv[e] # c /\ nxt[e] # c
        BY <4>1
      <4>3. prv1[e] = prv[e] /\ nxt1[e] = nxt[e]
        BY <1>0, <2>2, <3>2
      <4>4. QED
        BY <1>0, <2>2, <4>1, <4>2, <4>3
    <3>3. QED
      BY <3>1, <3>2
  <2>5. Connected(par1, nxt1)
    <3> SUFFICES ASSUME NEW r \in Entities, NEW S \in SUBSET KidsIn(par1, r),
                        S # {}, \A e \in S : nxt1[e] \in S
                 PROVE  S = KidsIn(par1, r)
      BY DEF Connected
    <3>1. CASE r # p
      <4>1. S \subseteq KidsIn(par, r) /\ c \notin S
        BY <1>2, <3>1 DEF KidsIn
      <4>2. \A e \in S : nxt[e] \in S
        BY <1>0, <2>2, <4>1 DEF KidsIn
      <4>3. QED
        BY <1>0, <1>2, <3>1, <4>1, <4>2 DEF Connected
    <3>2. CASE r = p
      <4> HIDE DEF par1
      <4>1. KidsIn(par1, r) = {c}
        BY <1>2, <2>1, <3>2
      <4>2. S \subseteq {c}
        BY <4>1
      <4>3. PICK x \in S : TRUE
        OBVIOUS
      <4>4. x = c
        BY <4>2, <4>3
      <4>5. S = {c}
        BY <4>2, <4>3, <4>4
      <4>6. QED
        BY <4>1, <4>5
    <3>3. QED
      BY <3>1, <3>2
  <2>6. \A r \in Entities : num1[r] > 0 => fst1[r] \in KidsIn(par1, r)
    BY <1>0, <1>2, <2>2 DEF Counted
  <2>7. Counted(par1, fst1, num1)
    BY <1>3, <2>6 DEF Counted
  <2> HIDE DEF par1, num1
  <2>8. Rings(par1, fst1, prv1, nxt1, num1)
    BY <2>3, <2>4, <2>5, <2>7 DEF Rings
  <2>9. QED
    BY <2>8 DEF par1, fst1, prv1, nxt1, num1
<1>6. QED
  BY <1>4, <1>5

-----------------------------------------------------------------------------
(* The invariant                                                           *)

LEMMA InitRings ==
  ASSUME NullEntity \notin Entities, Init PROVE IInv
<1> USE DEF Init
<1>1. Typed(parent, first_child, prev_child, next_child, child_num)
  BY DEF Typed
<1>2. \A p \in Entities : KidsIn(parent, p) = {}
  BY DEF KidsIn
<1>3. Linked(parent, prev_child, next_child)
  BY DEF Linked
<1>4. Counted(parent, first_child, child_num)
  BY <1>2, KidsFinite DEF Counted
<1>5. Connected(parent, next_child)
  BY <1>2 DEF Connected
<1>6. QED
  BY <1>1, <1>3, <1>4, <1>5 DEF IInv, Rings

\* Every operation keeps the rings.
LEMMA NextRings ==
  ASSUME NullEntity \notin Entities, IInv, [Next]_vars PROVE IInv'
<1>1. ASSUME NEW e \in Entities, Create(e) PROVE IInv'
  <2>1. live' \subseteq Entities
    BY <1>1 DEF Create, IInv
  <2>2. /\ parent' = parent /\ first_child' = first_child /\ prev_child' = prev_child
        /\ next_child' = next_child /\ child_num' = child_num
    BY <1>1 DEF Create, relVars
  <2> QED BY <2>1, <2>2 DEF IInv
<1>2. ASSUME NEW c \in Entities, Orphan(c) PROVE IInv'
  <2>1. parent' = OrphanParent(c)
    <3>1. CASE _hasParent(c)
      BY <1>2, <3>1 DEF Orphan, OrphanParent
    <3>2. CASE ~_hasParent(c)
      BY <1>2, <3>2 DEF Orphan, OrphanParent, _hasParent, IInv, Rings, Typed
    <3>3. QED
      BY <3>1, <3>2
  <2>2. /\ first_child' = OrphanFirst(c) /\ prev_child' = OrphanPrev(c)
        /\ next_child' = OrphanNext(c) /\ child_num' = OrphanNum(c) /\ live' = live
    BY <1>2 DEF Orphan
  <2>3. Rings(parent', first_child', prev_child', next_child', child_num')
    BY <2>1, <2>2, OrphanKeepsRings
  <2>4. QED
    BY <2>2, <2>3 DEF IInv, Rings, Typed, Linked, Counted, Connected, KidsIn
<1>3. ASSUME NEW p \in Entities, NEW c \in Entities, Adopt(p, c) PROVE IInv'
  <2> DEFINE par == OrphanParent(c)
             fst == OrphanFirst(c)
             prv == OrphanPrev(c)
             nxt == OrphanNext(c)
             num == OrphanNum(c)
  <2>1. Rings(par, fst, prv, nxt, num) /\ par[c] = NullEntity
    BY OrphanKeepsRings
  <2>2. /\ parent' = [par EXCEPT ![c] = p]
        /\ child_num' = [num EXCEPT ![p] = @ + 1] /\ live' = live
    BY <1>3 DEF Adopt, OrphanParent, IInv, Rings, Typed
  <2>3. /\ first_child' = LinkedFirst(p, c, fst, num)
        /\ prev_child' = LinkedPrev(p, c, fst, prv, nxt, num)
        /\ next_child' = LinkedNext(p, c, fst, nxt, num)
    BY <1>3 DEF Adopt, Link, LinkedFirst, LinkedPrev, LinkedNext
  <2> HIDE DEF par, fst, prv, nxt, num
  <2>4. Rings(parent', first_child', prev_child', next_child', child_num')
    BY <2>1, <2>2, <2>3, LinkKeepsRings
  <2>5. QED
    BY <2>2, <2>4 DEF IInv, Rings, Typed, Linked, Counted, Connected, KidsIn
<1>4. CASE UNCHANGED vars
  BY <1>4 DEF vars, relVars, IInv, Rings, Typed, Linked, Counted, Connected, KidsIn
<1>5. QED
  BY <1>1, <1>2, <1>3, <1>4 DEF Next

LEMMA AlwaysRings ==
  ASSUME NullEntity \notin Entities PROVE Spec => []IInv
<1>1. Init => IInv
  BY InitRings
<1>2. IInv /\ [Next]_vars => IInv'
  BY NextRings
<1>3. QED
  BY <1>1, <1>2, PTL DEF Spec

\* Every field of every RelationshipComponent always has its type; child_num
\* in particular never drops below zero.
THEOREM TypesHold ==
  ASSUME NullEntity \notin Entities PROVE Spec => []TypeOK
<1>1. IInv => TypeOK
  BY DEF IInv, Rings, Typed, TypeOK
<1>2. QED
  BY <1>1, AlwaysRings, PTL

\* After any sequence of adopt() and orphan() calls, sibling links lead both
\* ways and stay among the children of one parent.
THEOREM SiblingsStayLinked ==
  ASSUME NullEntity \notin Entities PROVE Spec => []SiblingLinks
<1>1. IInv => SiblingLinks
  BY DEF IInv, Rings, Linked, SiblingLinks, _hasParent
<1>2. QED
  BY <1>1, AlwaysRings, PTL

\* child_num is the number of children, and first_child is one of them while
\* there is any.
THEOREM ChildrenAreCounted ==
  ASSUME NullEntity \notin Entities PROVE Spec => []ChildCount
<1>1. IInv => ChildCount
  BY DEF IInv, Rings, Counted, ChildCount, Kids, KidsIn
<1>2. QED
  BY <1>1, AlwaysRings, PTL

\* The children of a parent form a single ring.
THEOREM ChildrenFormOneRing ==
  ASSUME NullEntity \notin Entities PROVE Spec => []OneRing
<1>1. IInv => OneRing
  BY DEF IInv, Rings, Connected, OneRing, Kids, KidsIn
<1>2. QED
  BY <1>1, AlwaysRings, PTL
=============================================================================
