--------------------------- MODULE WorldSync_proofs ---------------------------
(* What holds of world synchronization for any number of entities, versions,  *)
(* component types and broadcasts.                                            *)
EXTENDS WorldSync, SequenceTheorems, TLAPS

-----------------------------------------------------------------------------
(* EntityRegistry: whatever is created and destroyed, a registry stays sound  *)
(* and the other ids stay valid.                                              *)

\* Skipping one element of a list moves those behind it up by one.
LEMMA WithoutOne ==
  ASSUME NEW S, NEW list \in Seq(S), NEW i, \E k \in DOMAIN list : list[k] = i
  PROVE  \E k \in DOMAIN list :
           /\ list[k] = i
           /\ Without(list, i) \in Seq(S)
           /\ Len(Without(list, i)) = Len(list) - 1
           /\ \A j \in 1..(Len(list) - 1) :
                Without(list, i)[j] = IF j < k THEN list[j] ELSE list[j + 1]
<1>1. PICK k \in 1..Len(list) : list[k] = i /\ k = CHOOSE m \in DOMAIN list : list[m] = i
  OBVIOUS
<1>2. PICK front : front = SubSeq(list, 1, k - 1)
  OBVIOUS
<1>3. PICK back : back = SubSeq(list, k + 1, Len(list))
  OBVIOUS
<1>4. Without(list, i) = front \o back
  BY <1>1, <1>2, <1>3 DEF Without
<1>5. front \in Seq(S) /\ Len(front) = k - 1 /\ \A j \in 1..(k - 1) : front[j] = list[j]
  <2>1. \A j \in 1..(k - 1) : list[j] \in S
    OBVIOUS
  <2> QED BY <1>2, <2>1, SubSeqProperties, k - 1 \in Int, 1 \in Int
<1>6. back \in Seq(S) /\ Len(back) = Len(list) - k
      /\ \A j \in 1..(Len(list) - k) : back[j] = list[k + j]
  <2>1. \A j \in (k + 1)..Len(list) : list[j] \in S
    OBVIOUS
  <2>2. back \in Seq(S) /\ Len(back) = (IF k + 1 <= Len(list) THEN Len(list) - (k + 1) + 1 ELSE 0)
        /\ \A j \in 1..(Len(list) - (k + 1) + 1) : back[j] = list[(k + 1) + j - 1]
    BY <1>3, <2>1, SubSeqProperties, k + 1 \in Int, Len(list) \in Int
  <2> QED BY <2>2
<1>7. /\ front \o back \in Seq(S)
      /\ Len(front \o back) = Len(list) - 1
      /\ \A j \in 1..(Len(list) - 1) :
           (front \o back)[j] = IF j <= k - 1 THEN front[j] ELSE back[j - (k - 1)]
  <2>1. /\ front \o back \in Seq(S)
        /\ Len(front \o back) = Len(front) + Len(back)
        /\ \A j \in 1..(Len(front) + Len(back)) :
             (front \o back)[j] = IF j <= Len(front) THEN front[j] ELSE back[j - Len(front)]
    BY <1>5, <1>6, ConcatProperties, Zenon
  <2>2. Len(front) + Len(back) = Len(list) - 1
    BY <1>5, <1>6
  <2> QED BY <2>1, <2>2, <1>5
<1>8. ASSUME NEW j \in 1..(Len(list) - 1)
      PROVE  (front \o back)[j] = IF j < k THEN list[j] ELSE list[j + 1]
  <2>1. CASE j < k
    BY <1>5, <1>7, <2>1
  <2>2. CASE ~(j < k)
    <3>1. j - (k - 1) \in 1..(Len(list) - k) /\ k + (j - (k - 1)) = j + 1
      BY <2>2
    <3> QED BY <1>6, <1>7, <2>2, <3>1
  <2> QED BY <2>1, <2>2
<1> QED BY <1>1, <1>4, <1>7, <1>8

\* The indices of a registry are the numbers below its size.
LEMMA IndicesBelow ==
  ASSUME NEW r, r.version \in Seq(Nat)
  PROVE  /\ Size(r) \in Nat
         /\ Indices(r) = {i \in Nat : i < Size(r)}
         /\ \A i \in Indices(r) : i \in Nat /\ i + 1 \in DOMAIN r.version
                                  /\ r.version[i + 1] \in Nat
<1>1. Size(r) \in Nat /\ DOMAIN r.version = 1..Size(r)
  BY DEF Size
<1>2. ASSUME NEW i \in Nat, i < Size(r) PROVE i \in Indices(r)
  <2>1. i + 1 \in DOMAIN r.version /\ i = (i + 1) - 1
    BY <1>1, <1>2
  <2> QED BY <2>1 DEF Indices
<1>3. ASSUME NEW i \in Indices(r)
      PROVE  i \in Nat /\ i < Size(r) /\ i + 1 \in DOMAIN r.version
  <2>1. PICK j \in DOMAIN r.version : i = j - 1
    BY DEF Indices
  <2> QED BY <2>1, <1>1
<1>4. \A i \in Indices(r) : r.version[i + 1] \in Nat
  BY <1>3
<1> QED BY <1>1, <1>2, <1>3, <1>4

\* create() keeps a registry sound and its entities valid, and makes one more.
LEMMA CreatedSound ==
  ASSUME NEW r, IsRegistry(r)
  PROVE  /\ IsRegistry(Created(r))
         /\ Indices(r) \subseteq Indices(Created(r))
         /\ NextId(r) \in EntityId
         /\ Valid(Created(r), NextId(r))
         /\ \A id : Valid(r, id) => Valid(Created(r), id)
<1> DEFINE c == Created(r)
<1>0. r.version \in Seq(Nat) /\ r.alive \subseteq Indices(r)
      /\ r.destroyed \in Seq(Indices(r))
  BY DEF IsRegistry
<1>0a. r = [version |-> r.version, alive |-> r.alive, destroyed |-> r.destroyed]
  BY DEF IsRegistry
<1>1. CASE r.destroyed = <<>>
  <2>1. c = [version |-> Append(r.version, 0), alive |-> r.alive \cup {Size(r)},
             destroyed |-> <<>>]
    BY <1>1, <1>0a DEF Created
  <2>2. /\ Len(c.version) = Len(r.version) + 1
        /\ c.version \in Seq(Nat)
        /\ c.version[Len(r.version) + 1] = 0
        /\ \A i \in Indices(r) : c.version[i + 1] = r.version[i + 1]
    BY <2>1, <1>0 DEF Indices
  <2>3. Indices(c) = Indices(r) \cup {Size(r)} /\ Size(r) \in Nat
    BY <2>2, <1>0 DEF Indices, Size
  <2>4. Indices(r) \subseteq r.alive
    <3>1. DOMAIN r.destroyed = {}
      BY <1>1
    <3> QED BY <3>1 DEF IsRegistry
  <2>5. IsRegistry(c)
    <3>1. c.alive = Indices(c) /\ c.destroyed = <<>> /\ DOMAIN c.destroyed = {}
      <4>1. c.alive = r.alive \cup {Size(r)} /\ c.destroyed = <<>>
        BY <2>1
      <4>2. r.alive = Indices(r)
        BY <2>4, <1>0
      <4>3. DOMAIN c.destroyed = {}
        BY <4>1
      <4> QED BY <4>1, <4>2, <4>3, <2>3
    <3>2. c \in [version : Seq(Nat), alive : SUBSET Indices(c), destroyed : Seq(Indices(c))]
      <4>1. c.destroyed \in Seq(Indices(c))
        BY <3>1
      <4> QED BY <2>1, <2>2, <3>1, <4>1
    <3> QED BY <3>1, <3>2 DEF IsRegistry
  <2>6. NextId(r) = [index |-> Size(r), version |-> 0]
    BY <1>1 DEF NextId
  <2>7. Valid(c, NextId(r))
    BY <2>1, <2>2, <2>6 DEF Valid, IdAt, Size
  <2>8. ASSUME NEW id, Valid(r, id) PROVE Valid(c, id)
    <3>1. id.index \in Indices(r) /\ id.index \in c.alive
      BY <2>1, <2>8, <1>0 DEF Valid
    <3>2. IdAt(c, id.index) = IdAt(r, id.index)
      BY <2>2, <3>1 DEF IdAt
    <3> QED BY <2>8, <3>1, <3>2 DEF Valid
  <2>9. NextId(r) \in EntityId
    BY <2>3, <2>6 DEF EntityId
  <2> QED BY <2>3, <2>5, <2>7, <2>8, <2>9
<1>2. CASE r.destroyed # <<>>
  <2> DEFINE h == Head(r.destroyed)
  <2>1. c = [version |-> r.version, alive |-> r.alive \cup {h},
             destroyed |-> Tail(r.destroyed)]
    BY <1>2, <1>0a DEF Created
  <2>2. h = r.destroyed[1] /\ h \in Indices(r) /\ 1 \in DOMAIN r.destroyed
    BY <1>0, <1>2
  <2>3. /\ c.destroyed \in Seq(Indices(r))
        /\ DOMAIN c.destroyed = 1..(Len(r.destroyed) - 1)
        /\ \A k \in DOMAIN c.destroyed :
             k + 1 \in DOMAIN r.destroyed /\ c.destroyed[k] = r.destroyed[k + 1]
    BY <1>0, <1>2, <2>1
  <2>4. Indices(c) = Indices(r)
    BY <2>1 DEF Indices
  <2>5. c \in [version : Seq(Nat), alive : SUBSET Indices(c), destroyed : Seq(Indices(c))]
    BY <1>0, <2>1, <2>2, <2>3, <2>4
  <2>6. \A k \in DOMAIN c.destroyed : c.destroyed[k] \notin c.alive
    <3> SUFFICES ASSUME NEW k \in DOMAIN c.destroyed PROVE c.destroyed[k] \notin c.alive
      OBVIOUS
    <3>1. r.destroyed[k + 1] \notin r.alive
      BY <2>3 DEF IsRegistry
    <3>2. r.destroyed[k + 1] # r.destroyed[1]
      <4>1. k + 1 # 1
        BY <2>3
      <4> QED BY <4>1, <2>2, <2>3 DEF IsRegistry
    <3> QED BY <3>1, <3>2, <2>1, <2>2, <2>3
  <2>7. \A i \in Indices(c) \ c.alive : \E k \in DOMAIN c.destroyed : c.destroyed[k] = i
    <3> SUFFICES ASSUME NEW i \in Indices(c) \ c.alive
                 PROVE  \E k \in DOMAIN c.destroyed : c.destroyed[k] = i
      OBVIOUS
    <3>1. PICK k \in DOMAIN r.destroyed : r.destroyed[k] = i
      BY <2>1, <2>4 DEF IsRegistry
    <3>2. k # 1
      BY <3>1, <2>1, <2>2
    <3>3. k - 1 \in DOMAIN c.destroyed /\ (k - 1) + 1 = k
      BY <3>1, <3>2, <2>3, <1>0
    <3> QED BY <3>1, <3>3, <2>3
  <2>8. \A j, k \in DOMAIN c.destroyed : c.destroyed[j] = c.destroyed[k] => j = k
    <3> SUFFICES ASSUME NEW j \in DOMAIN c.destroyed, NEW k \in DOMAIN c.destroyed,
                        c.destroyed[j] = c.destroyed[k]
                 PROVE  j = k
      OBVIOUS
    <3>1. j + 1 = k + 1
      BY <2>3 DEF IsRegistry
    <3> QED BY <3>1, <2>3
  <2>9. IsRegistry(c)
    BY <2>5, <2>6, <2>7, <2>8 DEF IsRegistry
  <2>10. NextId(r) = [index |-> h, version |-> r.version[h + 1]]
    BY <1>2 DEF NextId, IdAt
  <2>11. h \in Nat /\ r.version[h + 1] \in Nat
    BY <2>2, <1>0, IndicesBelow
  <2>12. Valid(c, NextId(r))
    BY <2>1, <2>10 DEF Valid, IdAt
  <2>13. ASSUME NEW id, Valid(r, id) PROVE Valid(c, id)
    BY <2>1, <2>13 DEF Valid, IdAt
  <2>14. NextId(r) \in EntityId
    BY <2>10, <2>11 DEF EntityId
  <2> QED BY <2>4, <2>9, <2>12, <2>13, <2>14
<1> QED BY <1>1, <1>2

\* create(hint) for an index in the list of destroyed ones.
LEMMA RecycledSound ==
  ASSUME NEW r, IsRegistry(r), NEW hint \in EntityId,
         hint.index < Size(r), hint.index \notin r.alive
  PROVE  /\ IsRegistry(CreatedAt(r, hint))
         /\ Indices(CreatedAt(r, hint)) = Indices(r)
         /\ Valid(CreatedAt(r, hint), hint)
         /\ \A id : Valid(r, id) => Valid(CreatedAt(r, hint), id)
<1> DEFINE i == hint.index
           c == CreatedAt(r, hint)
           w == Without(r.destroyed, i)
<1>0. /\ r.version \in Seq(Nat) /\ r.alive \subseteq Indices(r)
      /\ r.destroyed \in Seq(Indices(r))
      /\ i \in Nat /\ hint.version \in Nat
  BY DEF IsRegistry, EntityId
<1>1. c = [version |-> [r.version EXCEPT ![i + 1] = hint.version],
           alive |-> r.alive \cup {i}, destroyed |-> w]
  <2>1. ~(i >= Size(r))
    BY <1>0, IndicesBelow
  <2> QED BY <2>1 DEF CreatedAt
<1>2. i \in Indices(r) /\ i + 1 \in DOMAIN r.version
  BY <1>0, IndicesBelow
<1>3. \E k \in DOMAIN r.destroyed : r.destroyed[k] = i
  BY <1>2 DEF IsRegistry
<1>4. PICK k \in DOMAIN r.destroyed :
        /\ r.destroyed[k] = i
        /\ w \in Seq(Indices(r))
        /\ Len(w) = Len(r.destroyed) - 1
        /\ \A j \in 1..(Len(r.destroyed) - 1) :
             w[j] = IF j < k THEN r.destroyed[j] ELSE r.destroyed[j + 1]
  <2>1. PICK S : S = Indices(r)
    OBVIOUS
  <2>2. PICK d : d = r.destroyed
    OBVIOUS
  <2>3. d \in Seq(S) /\ \E k \in DOMAIN d : d[k] = i
    BY <1>0, <1>3, <2>1, <2>2
  <2>4. \E k \in DOMAIN d :
          /\ d[k] = i
          /\ Without(d, i) \in Seq(S)
          /\ Len(Without(d, i)) = Len(d) - 1
          /\ \A j \in 1..(Len(d) - 1) :
               Without(d, i)[j] = IF j < k THEN d[j] ELSE d[j + 1]
    BY <2>3, WithoutOne
  <2> QED BY <2>1, <2>2, <2>4
<1> HIDE DEF w
<1>5. /\ c.version \in Seq(Nat) /\ DOMAIN c.version = DOMAIN r.version
      /\ c.version[i + 1] = hint.version
      /\ \A j \in Indices(r) : j # i => c.version[j + 1] = r.version[j + 1]
  <2>1. c.version = [r.version EXCEPT ![i + 1] = hint.version]
    BY <1>1
  <2>2. c.version \in Seq(Nat)
    BY <1>0, <1>2, <2>1, ExceptSeq
  <2>3. DOMAIN c.version = DOMAIN r.version
    BY <2>1
  <2>4. c.version[i + 1] = hint.version
    BY <2>1, <1>2
  <2>5. ASSUME NEW j \in Indices(r), j # i PROVE c.version[j + 1] = r.version[j + 1]
    <3>1. j \in Nat /\ j + 1 \in DOMAIN r.version
      BY <1>0, IndicesBelow
    <3>2. j + 1 # i + 1
      BY <1>0, <2>5, <3>1
    <3> QED BY <3>1, <3>2, <2>1
  <2> QED BY <2>2, <2>3, <2>4, <2>5
<1>6. Indices(c) = Indices(r)
  BY <1>5 DEF Indices
<1>7. DOMAIN w = 1..(Len(r.destroyed) - 1) /\ DOMAIN r.destroyed = 1..Len(r.destroyed)
      /\ Len(r.destroyed) \in Nat
  BY <1>0, <1>4
<1> DEFINE at(j) == IF j < k THEN j ELSE j + 1
<1>8. \A j \in DOMAIN w : at(j) \in DOMAIN r.destroyed /\ at(j) # k /\ w[j] = r.destroyed[at(j)]
  BY <1>4, <1>7
<1>9. IsRegistry(c)
  <2>1. c \in [version : Seq(Nat), alive : SUBSET Indices(c), destroyed : Seq(Indices(c))]
    BY <1>0, <1>1, <1>2, <1>4, <1>5, <1>6
  <2>2. \A j \in DOMAIN w : w[j] \notin r.alive \cup {i}
    BY <1>4, <1>8 DEF IsRegistry
  <2>3. ASSUME NEW x \in Indices(r) \ (r.alive \cup {i})
        PROVE  \E j \in DOMAIN w : w[j] = x
    <3>1. PICK m \in DOMAIN r.destroyed : r.destroyed[m] = x
      BY DEF IsRegistry
    <3>2. m # k
      BY <1>4, <3>1
    <3>3. CASE m < k
      BY <1>4, <1>7, <3>1, <3>3
    <3>4. CASE m > k
      <4>1. m - 1 \in DOMAIN w /\ ~(m - 1 < k) /\ (m - 1) + 1 = m
        BY <1>7, <3>4
      <4>2. w[m - 1] = r.destroyed[m]
        BY <4>1, <1>4, <1>7
      <4> QED BY <4>1, <4>2, <3>1
    <3> QED BY <3>2, <3>3, <3>4, <1>7
  <2>4. ASSUME NEW j \in DOMAIN w, NEW m \in DOMAIN w, w[j] = w[m] PROVE j = m
    <3>1. at(j) = at(m)
      BY <1>8, <2>4 DEF IsRegistry
    <3> QED BY <3>1, <1>7
  <2>5. c.alive = r.alive \cup {i} /\ c.destroyed = w
    BY <1>1
  <2> QED BY <2>1, <2>2, <2>3, <2>4, <2>5, <1>6 DEF IsRegistry
<1>10. Valid(c, hint)
  <2>1. hint = [index |-> i, version |-> hint.version]
    BY DEF EntityId
  <2> QED BY <2>1, <1>1, <1>5 DEF Valid, IdAt
<1>11. ASSUME NEW id, Valid(r, id) PROVE Valid(c, id)
  <2>1. id.index \in Indices(r) /\ id.index \in c.alive /\ id.index # i
    BY <1>0, <1>1, <1>11 DEF Valid
  <2>2. IdAt(c, id.index) = IdAt(r, id.index)
    BY <1>5, <2>1 DEF IdAt
  <2> QED BY <2>1, <2>2, <1>11 DEF Valid
<1> QED BY <1>6, <1>9, <1>10, <1>11

\* create(hint) for an index beyond the last one.
LEMMA NewIndexSound ==
  ASSUME NEW r, IsRegistry(r), NEW hint \in EntityId, hint.index >= Size(r)
  PROVE  /\ IsRegistry(CreatedAt(r, hint))
         /\ Indices(r) \subseteq Indices(CreatedAt(r, hint))
         /\ Valid(CreatedAt(r, hint), hint)
         /\ \A id : Valid(r, id) => Valid(CreatedAt(r, hint), id)
<1> DEFINE i == hint.index
           c == CreatedAt(r, hint)
           n == i - Size(r)
           zeros == [k \in 1..n |-> 0]
           holes == [k \in 1..n |-> i - k]
<1>0. /\ r.version \in Seq(Nat) /\ r.alive \subseteq Indices(r)
      /\ r.destroyed \in Seq(Indices(r))
      /\ i \in Nat /\ hint.version \in Nat
  BY DEF IsRegistry, EntityId
<1>1. Size(r) \in Nat /\ n \in Nat /\ n = i - Size(r) /\ Indices(r) = {j \in Nat : j < Size(r)}
      /\ Len(r.version) = Size(r)
  BY <1>0, IndicesBelow DEF Size
<1>2. c = [version |-> (r.version \o zeros) \o <<hint.version>>,
           alive |-> r.alive \cup {i}, destroyed |-> holes \o r.destroyed]
  BY DEF CreatedAt
<1>3. zeros \in Seq(Nat) /\ Len(zeros) = n
  BY <1>1
<1>4. holes \in Seq(Nat) /\ Len(holes) = n /\ \A k \in 1..n : holes[k] = i - k
  <2>1. \A k \in 1..n : i - k \in Nat
    BY <1>0, <1>1
  <2> QED BY <1>1, <2>1
<1> HIDE DEF c, n, zeros, holes
<1>5. /\ r.version \o zeros \in Seq(Nat)
      /\ Len(r.version \o zeros) = i
      /\ \A j \in 1..Size(r) : (r.version \o zeros)[j] = r.version[j]
  <2>1. /\ r.version \o zeros \in Seq(Nat)
        /\ Len(r.version \o zeros) = Size(r) + n
        /\ \A j \in 1..(Size(r) + n) : (r.version \o zeros)[j] =
             IF j <= Size(r) THEN r.version[j] ELSE zeros[j - Size(r)]
    <3>1. /\ r.version \o zeros \in Seq(Nat)
          /\ Len(r.version \o zeros) = Len(r.version) + Len(zeros)
          /\ \A j \in 1..(Len(r.version) + Len(zeros)) : (r.version \o zeros)[j] =
               IF j <= Len(r.version) THEN r.version[j] ELSE zeros[j - Len(r.version)]
      BY <1>0, <1>3, ConcatProperties, Zenon
    <3> QED BY <3>1, <1>1, <1>3
  <2> QED BY <2>1, <1>0, <1>1
<1>6. /\ c.version \in Seq(Nat) /\ Len(c.version) = i + 1
      /\ c.version[i + 1] = hint.version
      /\ \A j \in 1..Size(r) : c.version[j] = r.version[j]
  <2> DEFINE v == r.version \o zeros
             t == <<hint.version>>
  <2>1. c.version = v \o t
    BY <1>2
  <2>2. t \in Seq(Nat) /\ Len(t) = 1 /\ t[1] = hint.version
    BY <1>0
  <2>3. v \in Seq(Nat) /\ Len(v) = i /\ \A j \in 1..Size(r) : v[j] = r.version[j]
    BY <1>5
  <2> HIDE DEF v, t
  <2>4. /\ v \o t \in Seq(Nat) /\ Len(v \o t) = i + 1
        /\ \A j \in 1..(i + 1) : (v \o t)[j] = IF j <= i THEN v[j] ELSE t[j - i]
    <3>1. /\ v \o t \in Seq(Nat) /\ Len(v \o t) = Len(v) + Len(t)
          /\ \A j \in 1..(Len(v) + Len(t)) :
               (v \o t)[j] = IF j <= Len(v) THEN v[j] ELSE t[j - Len(v)]
      BY <2>2, <2>3, ConcatProperties, Zenon
    <3> QED BY <3>1, <2>2, <2>3
  <2>5. (v \o t)[i + 1] = t[1]
    <3>1. i + 1 \in 1..(i + 1) /\ ~(i + 1 <= i) /\ (i + 1) - i = 1
      BY <1>0
    <3> QED BY <2>4, <3>1
  <2>6. \A j \in 1..Size(r) : (v \o t)[j] = v[j]
    <3>1. \A j \in 1..Size(r) : j \in 1..(i + 1) /\ j <= i
      BY <1>0, <1>1
    <3> QED BY <2>4, <3>1
  <2>7. \A j \in 1..Size(r) : (v \o t)[j] = r.version[j]
    BY <2>3, <2>6
  <2>8. (v \o t)[i + 1] = hint.version
    BY <2>2, <2>5
  <2>9. v \o t \in Seq(Nat) /\ Len(v \o t) = i + 1
    BY <2>4
  <2> QED BY <2>1, <2>7, <2>8, <2>9, Zenon
<1>7. Indices(c) = 0..i /\ Indices(r) \subseteq Indices(c)
  <2>1. Size(c) = i + 1
    BY <1>6 DEF Size
  <2>2. Indices(c) = {j \in Nat : j < Size(c)}
    BY <1>6, IndicesBelow
  <2> QED BY <2>1, <2>2, <1>0, <1>1
<1>8. /\ c.destroyed \in Seq(Indices(c))
      /\ Len(c.destroyed) = n + Len(r.destroyed)
      /\ \A k \in 1..(n + Len(r.destroyed)) :
           c.destroyed[k] = IF k <= n THEN i - k ELSE r.destroyed[k - n]
  <2>1. holes \in Seq(Indices(c))
    <3>1. \A k \in 1..n : i - k \in 0..i
      BY <1>0, <1>1
    <3>2. holes \in [1..n -> 0..i] /\ n \in Nat
      BY <3>1, <1>1 DEF holes
    <3>3. holes \in Seq(0..i)
      BY <3>2, SeqDef
    <3> QED BY <3>3, <1>7
  <2>2. r.destroyed \in Seq(Indices(c))
    BY <1>0, <1>7, SeqMonotonic
  <2>3. c.destroyed = holes \o r.destroyed
    BY <1>2
  <2>4. /\ holes \o r.destroyed \in Seq(Indices(c))
        /\ Len(holes \o r.destroyed) = Len(holes) + Len(r.destroyed)
        /\ \A k \in 1..(Len(holes) + Len(r.destroyed)) :
             (holes \o r.destroyed)[k] =
                IF k <= Len(holes) THEN holes[k] ELSE r.destroyed[k - Len(holes)]
    BY <2>1, <2>2, ConcatProperties, Zenon
  <2> QED BY <2>3, <2>4, <1>1, <1>4
<1>9. c.alive = r.alive \cup {i}
  BY <1>2
<1>10. DOMAIN r.destroyed = 1..Len(r.destroyed) /\ Len(r.destroyed) \in Nat
       /\ DOMAIN c.destroyed = 1..(n + Len(r.destroyed))
       /\ \A k \in DOMAIN r.destroyed :
            r.destroyed[k] \in Nat /\ r.destroyed[k] < Size(r) /\ r.destroyed[k] \notin r.alive
  <2>1. DOMAIN r.destroyed = 1..Len(r.destroyed) /\ Len(r.destroyed) \in Nat
    BY <1>0
  <2>2. DOMAIN c.destroyed = 1..(n + Len(r.destroyed))
    BY <1>8
  <2>3. \A k \in DOMAIN r.destroyed : r.destroyed[k] \in Indices(r)
    BY <1>0
  <2> QED BY <2>1, <2>2, <2>3, <1>1 DEF IsRegistry
<1>11. IsRegistry(c)
  <2>1. c \in [version : Seq(Nat), alive : SUBSET Indices(c), destroyed : Seq(Indices(c))]
    <3>1. c.alive \subseteq Indices(c)
      BY <1>0, <1>7, <1>9
    <3> QED BY <3>1, <1>2, <1>6, <1>8
  <2>2. ASSUME NEW k \in DOMAIN c.destroyed PROVE c.destroyed[k] \notin c.alive
    <3>1. CASE k <= n
      <4>1. c.destroyed[k] = i - k /\ i - k >= Size(r) /\ i - k # i
        BY <3>1, <1>0, <1>1, <1>8, <1>10
      <4>2. \A a \in r.alive : a \in Nat /\ a < Size(r)
        BY <1>0, <1>1
      <4> QED BY <4>1, <4>2, <1>0, <1>1, <1>9
    <3>2. CASE ~(k <= n)
      <4>1. k - n \in DOMAIN r.destroyed /\ c.destroyed[k] = r.destroyed[k - n]
        <5>1. k \in 1 .. n + Len(r.destroyed) /\ k - n \in 1 .. Len(r.destroyed)
          BY <3>2, <1>1, <1>10
        <5> QED BY <3>2, <5>1, <1>8, <1>10
      <4>2. c.destroyed[k] \in Nat /\ c.destroyed[k] < Size(r) /\ c.destroyed[k] \notin r.alive
        BY <4>1, <1>10
      <4>3. c.destroyed[k] # i
        BY <4>2, <1>0, <1>1
      <4> QED BY <4>2, <4>3, <1>9
    <3> QED BY <3>1, <3>2
  <2>3. ASSUME NEW x \in Indices(c) \ c.alive
        PROVE  \E k \in DOMAIN c.destroyed : c.destroyed[k] = x
    <3>0. x \in 0..i /\ x # i /\ x \notin r.alive
      BY <1>7, <1>9
    <3>1. CASE x >= Size(r)
      <4>0. x \in Nat /\ i - x >= 1 /\ i - x <= n /\ i - (i - x) = x
        <5>1. x \in Nat /\ x < i /\ i \in Nat /\ Size(r) \in Nat
          BY <3>0, <1>0, <1>1
        <5>2. n = i - Size(r)
          BY <1>1
        <5> QED BY <5>1, <5>2, <3>1
      <4>1. i - x \in 1 .. n /\ i - x \in 1 .. n + Len(r.destroyed)
        BY <4>0, <1>0, <1>1, <1>10
      <4>2. c.destroyed[i - x] = x
        BY <4>0, <4>1, <1>8
      <4> QED BY <4>1, <4>2, <1>10
    <3>2. CASE x < Size(r)
      <4>1. PICK k \in DOMAIN r.destroyed : r.destroyed[k] = x
        BY <3>0, <3>2, <1>1 DEF IsRegistry
      <4>2. k + n \in DOMAIN c.destroyed /\ ~(k + n <= n) /\ (k + n) - n = k
        BY <1>1, <1>10
      <4> QED BY <4>1, <4>2, <1>8, <1>10
    <3> QED BY <3>0, <3>1, <3>2, <1>0, <1>1
  <2>4. ASSUME NEW j \in DOMAIN c.destroyed, NEW k \in DOMAIN c.destroyed,
               c.destroyed[j] = c.destroyed[k]
        PROVE  j = k
    <3> DEFINE low(m) == ~(m <= n)
    <3>1. \A m \in DOMAIN c.destroyed : ~low(m) => c.destroyed[m] = i - m /\ i - m >= Size(r)
      BY <1>0, <1>1, <1>8, <1>10
    <3>2. \A m \in DOMAIN c.destroyed : low(m) =>
            m - n \in DOMAIN r.destroyed /\ c.destroyed[m] = r.destroyed[m - n]
      <4> SUFFICES ASSUME NEW m \in DOMAIN c.destroyed, ~(m <= n)
                   PROVE  /\ m - n \in DOMAIN r.destroyed
                          /\ c.destroyed[m] = r.destroyed[m - n]
        OBVIOUS
      <4>1. m \in 1..(n + Len(r.destroyed)) /\ n \in Nat
        BY <1>1, <1>10
      <4>2. m - n \in 1..Len(r.destroyed)
        BY <4>1, <1>10
      <4> QED BY <4>1, <4>2, <1>8, <1>10
    <3>3. CASE ~low(j) /\ ~low(k)
      BY <3>1, <3>3, <2>4, <1>0, <1>10, <1>1
    <3>4. CASE low(j) /\ low(k)
      <4>1. j - n = k - n
        BY <3>2, <3>4, <2>4 DEF IsRegistry
      <4> QED BY <4>1, <1>1, <1>10
    <3>5. \A m \in DOMAIN c.destroyed : low(m) =>
            c.destroyed[m] \in Nat /\ c.destroyed[m] < Size(r)
      BY <3>2, <1>10
    <3>6. \A m \in DOMAIN c.destroyed : ~low(m) => ~(c.destroyed[m] < Size(r))
      <4>1. \A m \in DOMAIN c.destroyed : i - m \in Int
        BY <1>0, <1>10
      <4> QED BY <3>1, <4>1, <1>1
    <3> QED BY <3>3, <3>4, <3>5, <3>6, <2>4
  <2> QED BY <2>1, <2>2, <2>3, <2>4 DEF IsRegistry
<1>12. Valid(c, hint)
  <2>1. hint = [index |-> i, version |-> hint.version]
    BY DEF EntityId
  <2> QED BY <2>1, <1>6, <1>9 DEF Valid, IdAt
<1>13. ASSUME NEW id, Valid(r, id) PROVE Valid(c, id)
  <2>1. id.index \in Indices(r) /\ id.index \in c.alive
    BY <1>0, <1>9, <1>13 DEF Valid
  <2>2. id.index + 1 \in 1..Size(r)
    BY <2>1, <1>1
  <2>3. IdAt(c, id.index) = IdAt(r, id.index)
    BY <1>6, <2>2 DEF IdAt
  <2> QED BY <2>1, <2>3, <1>13 DEF Valid
<1> QED BY <1>7, <1>11, <1>12, <1>13 DEF c

\* create(hint), whatever the hint.
LEMMA CreatedAtSound ==
  ASSUME NEW r, IsRegistry(r), NEW hint \in EntityId
  PROVE  /\ IsRegistry(CreatedAt(r, hint))
         /\ Indices(r) \subseteq Indices(CreatedAt(r, hint))
         /\ hint.index \in Indices(CreatedAt(r, hint))
         /\ \A id : Valid(r, id) => Valid(CreatedAt(r, hint), id)
<1>0. r.version \in Seq(Nat) /\ Size(r) \in Nat /\ hint.index \in Nat
      /\ r.alive \subseteq Indices(r)
  BY IndicesBelow DEF IsRegistry, EntityId
<1>1. CASE hint.index >= Size(r)
  <2>1. Valid(CreatedAt(r, hint), hint) /\ IsRegistry(CreatedAt(r, hint))
    BY <1>1, NewIndexSound
  <2>2. hint.index \in Indices(CreatedAt(r, hint))
    BY <2>1 DEF Valid, IsRegistry
  <2> QED BY <1>1, <2>1, <2>2, NewIndexSound
<1>2. CASE hint.index < Size(r) /\ hint.index \in r.alive
  <2>1. ~(hint.index >= Size(r))
    BY <1>0, <1>2
  <2>2. CreatedAt(r, hint) = Created(r)
    BY <1>2, <2>1 DEF CreatedAt
  <2> QED BY <1>0, <1>2, <2>2, CreatedSound
<1>3. CASE hint.index < Size(r) /\ hint.index \notin r.alive
  <2>1. hint.index \in Indices(r)
    BY <1>0, <1>3, IndicesBelow
  <2> QED BY <1>3, <2>1, RecycledSound
<1> QED BY <1>0, <1>1, <1>2, <1>3

\* destroy() keeps a registry sound and the other entities valid.
LEMMA DestroyedSound ==
  ASSUME NEW r, IsRegistry(r), NEW id, Valid(r, id)
  PROVE  /\ IsRegistry(Destroyed(r, id))
         /\ Indices(Destroyed(r, id)) = Indices(r)
         /\ \A d : Valid(r, d) /\ d # id => Valid(Destroyed(r, id), d)
<1> DEFINE i == id.index
           c == Destroyed(r, id)
<1>0. /\ r.version \in Seq(Nat) /\ r.alive \subseteq Indices(r)
      /\ r.destroyed \in Seq(Indices(r)) /\ i \in r.alive
      /\ id = IdAt(r, i)
  BY DEF IsRegistry, Valid
<1>1. c = [version |-> [r.version EXCEPT ![i + 1] = @ + 1],
           alive |-> r.alive \ {i}, destroyed |-> <<i>> \o r.destroyed]
  BY DEF Destroyed
<1>2. i \in Nat /\ i + 1 \in DOMAIN r.version /\ r.version[i + 1] \in Nat
  BY <1>0, IndicesBelow
<1> HIDE DEF c
<1>3. /\ c.version \in Seq(Nat) /\ DOMAIN c.version = DOMAIN r.version
      /\ \A j \in Indices(r) : j # i => c.version[j + 1] = r.version[j + 1]
  <2>1. c.version = [r.version EXCEPT ![i + 1] = r.version[i + 1] + 1]
    BY <1>1
  <2>2. c.version \in Seq(Nat)
    <3>1. PICK m, v : m = i + 1 /\ v = r.version[i + 1] + 1
      OBVIOUS
    <3>2. m \in 1 .. Len(r.version) /\ v \in Nat
      BY <1>0, <1>2, <3>1
    <3>3. [r.version EXCEPT ![m] = v] \in Seq(Nat)
      BY <1>0, <3>2, ExceptSeq
    <3> QED BY <2>1, <3>1, <3>3
  <2>3. DOMAIN c.version = DOMAIN r.version
    BY <2>1
  <2>4. ASSUME NEW j \in Indices(r), j # i PROVE c.version[j + 1] = r.version[j + 1]
    <3>1. j \in Nat /\ j + 1 \in DOMAIN r.version
      BY <1>0, IndicesBelow
    <3>2. j + 1 # i + 1
      BY <1>2, <2>4, <3>1
    <3> QED BY <3>1, <3>2, <2>1
  <2> QED BY <2>2, <2>3, <2>4
<1>4. Indices(c) = Indices(r)
  BY <1>3 DEF Indices
<1>5. /\ c.destroyed \in Seq(Indices(r)) /\ c.destroyed[1] = i
      /\ DOMAIN c.destroyed = 1..(Len(r.destroyed) + 1)
      /\ DOMAIN r.destroyed = 1..Len(r.destroyed) /\ Len(r.destroyed) \in Nat
      /\ \A k \in 2..(Len(r.destroyed) + 1) : c.destroyed[k] = r.destroyed[k - 1]
  <2>1. c.destroyed = <<i>> \o r.destroyed
    BY <1>1
  <2>2. i \in Indices(r)
    BY <1>0
  <2>3. <<i>> \in Seq(Indices(r)) /\ Len(<<i>>) = 1 /\ <<i>>[1] = i
    BY <2>2
  <2>4. /\ <<i>> \o r.destroyed \in Seq(Indices(r))
        /\ Len(<<i>> \o r.destroyed) = Len(<<i>>) + Len(r.destroyed)
        /\ \A k \in 1..(Len(<<i>>) + Len(r.destroyed)) :
             (<<i>> \o r.destroyed)[k] =
                IF k <= Len(<<i>>) THEN <<i>>[k] ELSE r.destroyed[k - Len(<<i>>)]
    BY <1>0, <2>3, ConcatProperties, Zenon
  <2>5. DOMAIN r.destroyed = 1..Len(r.destroyed) /\ Len(r.destroyed) \in Nat
    BY <1>0
  <2>6. Len(c.destroyed) = Len(r.destroyed) + 1
    BY <2>1, <2>3, <2>4, <2>5
  <2>7. DOMAIN c.destroyed = 1..(Len(r.destroyed) + 1)
    BY <2>1, <2>4, <2>6
  <2>8. \A k \in 1..(1 + Len(r.destroyed)) :
          c.destroyed[k] = IF k <= 1 THEN i ELSE r.destroyed[k - 1]
    BY <2>1, <2>3, <2>4, <2>5
  <2> QED BY <2>1, <2>4, <2>5, <2>7, <2>8
<1>6. c.alive = r.alive \ {i}
  BY <1>1
<1>7. IsRegistry(c)
  <2>1. c \in [version : Seq(Nat), alive : SUBSET Indices(c), destroyed : Seq(Indices(c))]
    <3>1. c.alive \in SUBSET Indices(c)
      BY <1>0, <1>4, <1>6
    <3>2. c.destroyed \in Seq(Indices(c))
      BY <1>4, <1>5
    <3>3. c = [version |-> c.version, alive |-> c.alive, destroyed |-> c.destroyed]
      BY <1>1
    <3> QED BY <1>3, <3>1, <3>2, <3>3
  <2>2. ASSUME NEW k \in DOMAIN c.destroyed
        PROVE  k = 1 \/ /\ k - 1 \in DOMAIN r.destroyed
                        /\ c.destroyed[k] = r.destroyed[k - 1]
    <3>1. k = 1 \/ (k \in 2..(Len(r.destroyed) + 1) /\ k - 1 \in DOMAIN r.destroyed)
      BY <1>5
    <3> QED BY <1>5, <3>1
  <2>3. \A k \in DOMAIN r.destroyed : r.destroyed[k] \notin r.alive
    BY DEF IsRegistry
  <2>4. \A k \in DOMAIN c.destroyed : c.destroyed[k] \notin c.alive
    BY <1>5, <1>6, <2>2, <2>3
  <2>5. ASSUME NEW x \in Indices(c) \ c.alive
        PROVE  \E k \in DOMAIN c.destroyed : c.destroyed[k] = x
    <3>1. CASE x = i
      <4>1. 1 \in DOMAIN c.destroyed
        BY <1>5
      <4> QED BY <3>1, <4>1, <1>5
    <3>2. CASE x # i
      <4>1. PICK k \in DOMAIN r.destroyed : r.destroyed[k] = x
        BY <1>4, <1>6, <3>2 DEF IsRegistry
      <4>2. k + 1 \in 2..(Len(r.destroyed) + 1) /\ (k + 1) - 1 = k
            /\ k + 1 \in DOMAIN c.destroyed
        BY <1>5
      <4> QED BY <4>1, <4>2, <1>5
    <3> QED BY <3>1, <3>2
  <2>6. ASSUME NEW j \in DOMAIN c.destroyed, NEW k \in DOMAIN c.destroyed,
               c.destroyed[j] = c.destroyed[k]
        PROVE  j = k
    <3>1. CASE j = 1 /\ k = 1
      BY <3>1
    <3>2. CASE j = 1 /\ k # 1
      BY <3>2, <1>0, <1>5, <2>2, <2>3, <2>6
    <3>3. CASE j # 1 /\ k = 1
      BY <3>3, <1>0, <1>5, <2>2, <2>3, <2>6
    <3>4. CASE j # 1 /\ k # 1
      <4>1. j - 1 = k - 1
        BY <3>4, <2>2, <2>6 DEF IsRegistry
      <4> QED BY <4>1, <1>5
    <3> QED BY <3>1, <3>2, <3>3, <3>4
  <2> QED BY <2>1, <2>4, <2>5, <2>6 DEF IsRegistry
<1>8. ASSUME NEW d, Valid(r, d), d # id PROVE Valid(c, d)
  <2>1. d.index \in r.alive /\ d = IdAt(r, d.index) /\ d.index # i
    BY <1>0, <1>8 DEF Valid
  <2>2. IdAt(c, d.index) = IdAt(r, d.index)
    BY <1>0, <1>3, <2>1 DEF IdAt
  <2> QED BY <2>1, <2>2, <1>6 DEF Valid
<1> QED BY <1>4, <1>7, <1>8 DEF c

-----------------------------------------------------------------------------
(* Components of some of the entities                                      *)

\* Functions from some of S to V.
Partial(S, V) == UNION {[D -> V] : D \in SUBSET S}

LEMMA PartialElim ==
  ASSUME NEW S, NEW V, NEW f \in Partial(S, V)
  PROVE  /\ DOMAIN f \subseteq S
         /\ f \in [DOMAIN f -> V]
         /\ \A x \in DOMAIN f : f[x] \in V
<1>1. PICK D \in SUBSET S : f \in [D -> V]
  BY DEF Partial
<1> QED BY <1>1

LEMMA PartialIntro ==
  ASSUME NEW S, NEW V, NEW D \in SUBSET S, NEW f \in [D -> V]
  PROVE  f \in Partial(S, V)
BY DEF Partial

LEMMA PartialGrows ==
  ASSUME NEW S, NEW T, S \subseteq T, NEW V
  PROVE  Partial(S, V) \subseteq Partial(T, V)
<1> SUFFICES ASSUME NEW f \in Partial(S, V) PROVE f \in Partial(T, V)
  OBVIOUS
<1>1. DOMAIN f \in SUBSET T /\ f \in [DOMAIN f -> V]
  BY PartialElim
<1> QED BY <1>1, PartialIntro

\* Writing one component keeps to the entities and the values.
LEMMA WrittenOne ==
  ASSUME NEW S, NEW V, NEW f \in Partial(S, V), NEW e \in S, NEW data \in V
  PROVE  Written(f, e, data) \in Partial(S, V)
<1>1. DOMAIN f \subseteq S /\ \A x \in DOMAIN f : f[x] \in V
  BY PartialElim
<1>2. Written(f, e, data) \in [DOMAIN f \cup {e} -> V]
  BY <1>1 DEF Written
<1> QED BY <1>1, <1>2, PartialIntro

\* Dropping one entity from a pool.
LEMMA DroppedOne ==
  ASSUME NEW S, NEW V, NEW f \in Partial(S, V), NEW e
  PROVE  [d \in DOMAIN f \ {e} |-> f[d]] \in Partial(S \ {e}, V)
<1>1. DOMAIN f \subseteq S /\ \A x \in DOMAIN f : f[x] \in V
  BY PartialElim
<1>2. [d \in DOMAIN f \ {e} |-> f[d]] \in [DOMAIN f \ {e} -> V]
  BY <1>1
<1> QED BY <1>1, <1>2, PartialIntro

-----------------------------------------------------------------------------
(* The entities of one registry                                            *)

\* The ids of a sound registry are the valid ones, one for each index.
LEMMA IdsValid ==
  ASSUME NEW r, IsRegistry(r)
  PROVE  /\ Ids(r) = {id \in EntityId : Valid(r, id)}
         /\ \A c, d \in Ids(r) : c.index = d.index => c = d
<1>1. r.version \in Seq(Nat) /\ r.alive \subseteq Indices(r)
  BY DEF IsRegistry
<1>2. ASSUME NEW i \in r.alive
      PROVE  IdAt(r, i) \in EntityId /\ IdAt(r, i).index = i
  <2>1. i \in Nat /\ r.version[i + 1] \in Nat
    BY <1>1, IndicesBelow
  <2> QED BY <2>1 DEF IdAt, EntityId
<1>3. Ids(r) \subseteq {id \in EntityId : Valid(r, id)}
  BY <1>2 DEF Ids, Valid
<1>4. {id \in EntityId : Valid(r, id)} \subseteq Ids(r)
  BY DEF Ids, Valid
<1> QED BY <1>2, <1>3, <1>4 DEF Ids

\* The check of updateComponents: whether the entity is there or is created,
\* there is an index to hold its components, and nothing that was valid is lost.
LEMMA EnsureSound ==
  ASSUME IsRegistry(registry), NEW id \in EntityId
  PROVE  /\ IsRegistry(EnsureEntity(id))
         /\ Indices(registry) \subseteq Indices(EnsureEntity(id))
         /\ id.index \in Indices(EnsureEntity(id))
         /\ \A d : Valid(registry, d) => Valid(EnsureEntity(id), d)
<1>1. CASE Valid(registry, id)
  BY <1>1 DEF EnsureEntity, Valid, IsRegistry
<1>2. CASE ~Valid(registry, id)
  BY <1>2, CreatedAtSound DEF EnsureEntity
<1> QED BY <1>1, <1>2

-----------------------------------------------------------------------------
(* The inductive invariant                                                 *)

\* A broadcast names at most one entity for each index: it is made of the
\* entities that are valid at one moment.
OneEach(m) ==
  \A type \in ComponentTypes : \A c, d \in DOMAIN m[type] : c.index = d.index => c = d
Message == {m \in [ComponentTypes -> Partial(EntityId, Data)] : OneEach(m)}

ServerInv ==
  /\ IsRegistry(serverRegistry)
  /\ serverPool \in [ComponentTypes -> Partial(ServerIds, Data)]
  /\ avatars \subseteq ServerIds

NewsInv ==
  /\ news \in Seq(Message) /\ latest \in Message
  /\ updating \in [ComponentTypes -> SUBSET EntityId]
  /\ \A type \in ComponentTypes : updating[type] \subseteq DOMAIN latest[type]

ClientInv ==
  /\ IsRegistry(registry)
  /\ pool \in [ComponentTypes -> Partial(Indices(registry), Data \cup {LocalData})]
  /\ LocalIdsStay

\* What updateComponents has written so far is there.
Shown(type, id) ==
  /\ id.index \in DOMAIN pool[type]
  /\ id.index \notin LocalIndices => pool[type][id.index] = latest[type][id]
WrittenInv ==
  \A type \in ComponentTypes : \A id \in DOMAIN latest[type] \ updating[type] :
    Shown(type, id)

IInv == ServerInv /\ NewsInv /\ ClientInv /\ WrittenInv

LEMMA NothingYet ==
  /\ \A S, V : NoComponents \in [ComponentTypes -> Partial(S, V)]
  /\ NoComponents \in Message
  /\ \A type \in ComponentTypes : DOMAIN NoComponents[type] = {}
<1>1. DOMAIN <<>> = {} /\ \A V : <<>> \in [{} -> V]
  OBVIOUS
<1>2. \A S, V : <<>> \in Partial(S, V)
  BY <1>1, PartialIntro
<1>3. \A type \in ComponentTypes : NoComponents[type] = <<>>
  BY DEF NoComponents
<1> QED BY <1>1, <1>2, <1>3 DEF NoComponents, Message, OneEach

LEMMA InitInv == Init => IInv
<1> SUFFICES ASSUME Init PROVE IInv
  OBVIOUS
<1>1. IsRegistry(EmptyRegistry)
  <2>1. DOMAIN <<>> = {} /\ \A S : <<>> \in Seq(S)
    OBVIOUS
  <2> QED BY <2>1 DEF IsRegistry, EmptyRegistry, Indices
<1>2. ServerInv
  BY <1>1, NothingYet DEF Init, ServerInv
<1>3. NewsInv
  <2>1. news \in Seq(Message) /\ latest \in Message
    BY NothingYet DEF Init
  <2> QED BY <2>1 DEF Init, NewsInv
<1>4. ClientInv
  <2>1. IsRegistry(registry) /\ LocalIdsStay
    BY <1>1, CreatedSound DEF Init, LocalIdsStay
  <2> QED BY <2>1, NothingYet DEF Init, ClientInv
<1>5. WrittenInv
  BY NothingYet DEF Init, WrittenInv
<1> QED BY <1>2, <1>3, <1>4, <1>5 DEF IInv

\* A step of the server, but a broadcast, changes nothing the client has.
LEMMA ServerStep ==
  ASSUME ServerInv, Server, ~Broadcast
  PROVE  ServerInv' /\ UNCHANGED <<news, clientVars>>
<1> DEFINE new == NextId(serverRegistry)
<1>0. /\ IsRegistry(serverRegistry) /\ avatars \subseteq ServerIds
      /\ serverPool \in [ComponentTypes -> Partial(ServerIds, Data)]
  BY DEF ServerInv
<1>1. IsRegistry(Created(serverRegistry))
      /\ Ids(serverRegistry) \cup {new} \subseteq Ids(Created(serverRegistry))
  BY <1>0, CreatedSound, IdsValid
<1>2. Partial(ServerIds, Data) \subseteq Partial(Ids(Created(serverRegistry)), Data)
  BY <1>1, PartialGrows DEF ServerIds
<1> HIDE DEF new
<1>3. ASSUME NEW types \in SUBSET ComponentTypes, NEW data \in Data, ServerSpawn(types, data)
      PROVE  ServerInv' /\ UNCHANGED <<news, clientVars>>
  <2>1. ASSUME NEW type \in ComponentTypes
        PROVE  Written(serverPool[type], new, data)
                 \in Partial(Ids(Created(serverRegistry)), Data)
    BY <1>0, <1>1, <1>2, WrittenOne
  <2>2. serverPool' = [type \in ComponentTypes |->
          IF type \in types THEN Written(serverPool[type], new, data)
          ELSE serverPool[type]]
    BY <1>3 DEF ServerSpawn, new
  <2>3. serverPool' \in [ComponentTypes -> Partial(Ids(Created(serverRegistry)), Data)]
    BY <1>0, <1>2, <2>1, <2>2
  <2> QED BY <1>0, <1>1, <1>3, <2>3 DEF ServerSpawn, ServerInv, ServerIds
<1>4. CASE AvatarArrives
  <2>1. /\ serverPool' = serverPool /\ serverRegistry' = Created(serverRegistry)
        /\ avatars' = avatars \cup {new} /\ UNCHANGED <<news, clientVars>>
    BY <1>4 DEF AvatarArrives, new
  <2>2. serverPool' \in [ComponentTypes -> Partial(Ids(Created(serverRegistry)), Data)]
    BY <1>0, <1>2, <2>1
  <2> QED BY <1>0, <1>1, <2>1, <2>2 DEF ServerInv, ServerIds
<1>5. ASSUME NEW id \in ServerIds, NEW type \in ComponentTypes, NEW data \in Data,
             ServerWrite(id, type, data)
      PROVE  ServerInv' /\ UNCHANGED <<news, clientVars>>
  <2>1. serverPool' = [serverPool EXCEPT ![type] = Written(serverPool[type], id, data)]
    BY <1>5 DEF ServerWrite
  <2>2. Written(serverPool[type], id, data) \in Partial(ServerIds, Data)
    BY <1>0, WrittenOne
  <2>3. serverPool' \in [ComponentTypes -> Partial(ServerIds, Data)]
    BY <1>0, <2>1, <2>2
  <2> QED BY <1>0, <1>5, <2>3 DEF ServerWrite, ServerInv, ServerIds
<1>6. ASSUME NEW id \in avatars, AvatarLeaves(id)
      PROVE  ServerInv' /\ UNCHANGED <<news, clientVars>>
  <2>1. Valid(serverRegistry, id)
    BY <1>0, IdsValid DEF ServerIds
  <2>2. IsRegistry(Destroyed(serverRegistry, id))
        /\ ServerIds \ {id} \subseteq Ids(Destroyed(serverRegistry, id))
    BY <1>0, <2>1, DestroyedSound, IdsValid DEF ServerIds
  <2>3. \A type \in ComponentTypes :
          [e \in DOMAIN serverPool[type] \ {id} |-> serverPool[type][e]]
            \in Partial(Ids(Destroyed(serverRegistry, id)), Data)
    <3>1. ASSUME NEW type \in ComponentTypes
          PROVE  [e \in DOMAIN serverPool[type] \ {id} |-> serverPool[type][e]]
                   \in Partial(ServerIds \ {id}, Data)
      BY <1>0, DroppedOne
    <3>2. Partial(ServerIds \ {id}, Data)
            \subseteq Partial(Ids(Destroyed(serverRegistry, id)), Data)
      BY <2>2, PartialGrows
    <3> QED BY <3>1, <3>2
  <2>4. serverPool' \in [ComponentTypes -> Partial(Ids(Destroyed(serverRegistry, id)), Data)]
    BY <1>6, <2>3 DEF AvatarLeaves
  <2> QED BY <1>0, <1>6, <2>2, <2>4 DEF AvatarLeaves, ServerInv, ServerIds
<1> QED BY <1>3, <1>4, <1>5, <1>6 DEF Server

\* What the server has is a message: its entities are valid at this moment.
LEMMA PoolIsMessage ==
  ASSUME ServerInv PROVE ComponentUpdates \in Message
<1>1. /\ IsRegistry(serverRegistry)
      /\ serverPool \in [ComponentTypes -> Partial(ServerIds, Data)]
  BY DEF ServerInv
<1>2. ServerIds \subseteq EntityId
      /\ \A c, d \in ServerIds : c.index = d.index => c = d
  BY <1>1, IdsValid DEF ServerIds
<1>3. serverPool \in [ComponentTypes -> Partial(EntityId, Data)]
  BY <1>1, <1>2, PartialGrows
<1>4. \A type \in ComponentTypes : DOMAIN serverPool[type] \subseteq ServerIds
  BY <1>1, PartialElim
<1> QED BY <1>2, <1>3, <1>4 DEF Message, OneEach, ComponentUpdates

\* A broadcast is one more message on its way.
LEMMA BroadcastStep == IInv /\ Broadcast => IInv'
<1> SUFFICES ASSUME IInv, Broadcast PROVE IInv'
  OBVIOUS
<1>1. news' \in Seq(Message)
  BY PoolIsMessage DEF IInv, NewsInv, Broadcast
<1>2. UNCHANGED <<serverRegistry, serverPool, avatars, clientVars>>
  BY DEF Broadcast
<1> QED BY <1>1, <1>2 DEF IInv, ServerInv, ServerIds, NewsInv, ClientInv, LocalIdsStay,
        WrittenInv, Shown, LocalIndices, clientVars

\* The client moves an entity of its own: only at that index does its pool change.
LEMMA LocalMoveStep ==
  ASSUME IInv, NEW id \in local, LocalMove(id)
  PROVE  IInv'
<1> DEFINE Values == Data \cup {LocalData}
           at == id.index
<1>0. /\ IsRegistry(registry) /\ Valid(registry, id) /\ Moving \in ComponentTypes
      /\ pool \in [ComponentTypes -> Partial(Indices(registry), Values)]
  BY SyncAssumption DEF IInv, ClientInv, LocalIdsStay
<1>1. at \in Indices(registry)
  BY <1>0 DEF Valid, IsRegistry
<1>2. /\ pool' = [pool EXCEPT ![Moving] = Written(pool[Moving], at, LocalData)]
      /\ UNCHANGED <<serverVars, news, registry, local, updating, latest>>
  BY DEF LocalMove
<1> HIDE DEF at
<1>3. /\ Written(pool[Moving], at, LocalData) \in Partial(Indices(registry), Values)
      /\ DOMAIN pool[Moving] \subseteq DOMAIN Written(pool[Moving], at, LocalData)
      /\ \A i \in DOMAIN pool[Moving] : i # at =>
           Written(pool[Moving], at, LocalData)[i] = pool[Moving][i]
  <2>1. LocalData \in Values /\ pool[Moving] \in Partial(Indices(registry), Values)
    BY <1>0
  <2> HIDE DEF Values
  <2>2. Written(pool[Moving], at, LocalData) \in Partial(Indices(registry), Values)
    BY <1>1, <2>1, WrittenOne
  <2> QED BY <2>2 DEF Written
<1>4. ASSUME NEW type \in ComponentTypes
      PROVE  /\ DOMAIN pool[type] \subseteq DOMAIN pool'[type]
             /\ \A i \in DOMAIN pool[type] : i # at => pool'[type][i] = pool[type][i]
  BY <1>0, <1>2, <1>3
<1>5. pool' \in [ComponentTypes -> Partial(Indices(registry), Values)]
  BY <1>0, <1>2, <1>3
<1>6. at \in LocalIndices /\ LocalIndices' = LocalIndices
  BY <1>2 DEF LocalIndices, at
<1>7. WrittenInv'
  BY <1>2, <1>4, <1>6 DEF IInv, WrittenInv, Shown
<1>8. ServerInv' /\ NewsInv' /\ ClientInv'
  BY <1>2, <1>5 DEF IInv, ServerInv, ServerIds, NewsInv, ClientInv, LocalIdsStay, serverVars
<1> QED BY <1>7, <1>8 DEF IInv

\* A message is received: none of it is written yet.
LEMMA ReceiveStep == IInv /\ ReceiveWorldUpdate => IInv'
<1> SUFFICES ASSUME IInv, ReceiveWorldUpdate PROVE IInv'
  OBVIOUS
<1>1. /\ news \in Seq(Message) /\ news # <<>>
      /\ latest' = Head(news) /\ updating' = Listed(Head(news)) /\ news' = Tail(news)
      /\ UNCHANGED <<serverVars, registry, pool, local>>
  BY DEF IInv, NewsInv, ReceiveWorldUpdate
<1>2. Head(news) \in Message /\ Tail(news) \in Seq(Message)
  BY <1>1
<1>3. \A type \in ComponentTypes :
        updating'[type] = DOMAIN latest'[type] /\ DOMAIN latest'[type] \subseteq EntityId
  <2>1. \A type \in ComponentTypes : Head(news)[type] \in Partial(EntityId, Data)
    BY <1>2 DEF Message
  <2> QED BY <1>1, <2>1, PartialElim DEF Listed
<1>4. NewsInv'
  <2>1. updating' \in [ComponentTypes -> SUBSET EntityId]
    BY <1>1, <1>3 DEF Listed
  <2> QED BY <1>1, <1>2, <1>3, <2>1 DEF NewsInv
<1>5. WrittenInv'
  BY <1>3 DEF WrittenInv
<1>6. ServerInv' /\ ClientInv'
  BY <1>1 DEF IInv, ServerInv, ServerIds, ClientInv, LocalIdsStay, serverVars
<1> QED BY <1>4, <1>5, <1>6 DEF IInv

\* One component is written, at an index that no other entity of the message
\* has: what was written before it stays.
LEMMA UpdateStep ==
  ASSUME IInv, NEW i \in DOMAIN Types, NEW id \in updating[Types[i]], UpdateComponent(i, id)
  PROVE  IInv'
<1> DEFINE type == Types[i]
           Values == Data \cup {LocalData}
           at == id.index
           data == latest[type][id]
           new == Written(pool[type], at, data)
<1>0. /\ type \in ComponentTypes /\ id \in updating[type] /\ latest \in Message
      /\ IsRegistry(registry) /\ LocalIdsStay
      /\ updating \in [ComponentTypes -> SUBSET EntityId]
      /\ \A t \in ComponentTypes : updating[t] \subseteq DOMAIN latest[t]
      /\ pool \in [ComponentTypes -> Partial(Indices(registry), Values)]
  BY DEF ComponentTypes, IInv, NewsInv, ClientInv
<1>1. /\ registry' = EnsureEntity(id)
      /\ pool' = [pool EXCEPT ![type] = new]
      /\ updating' = [updating EXCEPT ![type] = updating[type] \ {id}]
      /\ UNCHANGED <<serverVars, news, local, latest>>
  BY DEF UpdateComponent, WriteComponent
<1> HIDE DEF type
<1>2. id \in EntityId /\ id \in DOMAIN latest[type] /\ data \in Values
  <2>1. latest[type] \in Partial(EntityId, Data)
    BY <1>0 DEF Message
  <2> QED BY <1>0, <2>1, PartialElim
<1>3. /\ IsRegistry(registry') /\ Indices(registry) \subseteq Indices(registry')
      /\ at \in Indices(registry')
      /\ \A d : Valid(registry, d) => Valid(registry', d)
  BY <1>0, <1>1, <1>2, EnsureSound
<1> HIDE DEF at, data
<1>4. Partial(Indices(registry), Values) \subseteq Partial(Indices(registry'), Values)
  BY <1>3, PartialGrows
<1>5. /\ new \in Partial(Indices(registry'), Values)
      /\ DOMAIN new = DOMAIN pool[type] \cup {at}
      /\ new[at] = data
      /\ \A x \in DOMAIN pool[type] : x # at => new[x] = pool[type][x]
  <2>1. pool[type] \in Partial(Indices(registry'), Values)
    BY <1>0, <1>4
  <2> HIDE DEF Values
  <2>2. new \in Partial(Indices(registry'), Values)
    BY <1>2, <1>3, <2>1, WrittenOne
  <2> QED BY <2>2 DEF Written
<1> HIDE DEF new
<1>6. pool' \in [ComponentTypes -> Partial(Indices(registry'), Values)]
  BY <1>0, <1>1, <1>4, <1>5
<1>7. ClientInv'
  BY <1>0, <1>1, <1>3, <1>6 DEF ClientInv, LocalIdsStay
<1>8. NewsInv'
  <2>1. updating' \in [ComponentTypes -> SUBSET EntityId]
    BY <1>0, <1>1
  <2>2. \A t \in ComponentTypes : updating'[t] \subseteq DOMAIN latest'[t]
    BY <1>0, <1>1
  <2> QED BY <1>1, <2>1, <2>2 DEF IInv, NewsInv
<1>9. WrittenInv'
  <2> SUFFICES ASSUME NEW t \in ComponentTypes, NEW d \in DOMAIN latest[t] \ updating'[t]
               PROVE  Shown(t, d)'
    BY <1>1 DEF WrittenInv
  <2>1. latest' = latest /\ LocalIndices' = LocalIndices
    BY <1>1 DEF LocalIndices
  <2>2. CASE t # type
    <3>1. updating'[t] = updating[t] /\ pool'[t] = pool[t]
      BY <1>0, <1>1, <2>2
    <3>2. Shown(t, d)
      BY <3>1 DEF IInv, WrittenInv
    <3> QED BY <2>1, <3>1, <3>2 DEF Shown
  <2>3. CASE t = type /\ d = id
    <3>1. pool'[t] = new
      BY <1>0, <1>1, <2>3
    <3> QED BY <1>5, <2>1, <2>3, <3>1 DEF Shown, at, data
  <2>4. CASE t = type /\ d # id
    <3>1. pool'[t] = new /\ d \in DOMAIN latest[t] \ updating[t]
      BY <1>0, <1>1, <2>4
    <3>2. Shown(t, d)
      BY <3>1 DEF IInv, WrittenInv
    <3>3. d.index # id.index
      BY <1>0, <1>2, <2>4 DEF Message, OneEach
    <3> QED BY <1>5, <2>1, <2>4, <3>1, <3>2, <3>3 DEF Shown, at
  <2> QED BY <2>2, <2>3, <2>4
<1>10. ServerInv'
  BY <1>1 DEF IInv, ServerInv, ServerIds, serverVars
<1> QED BY <1>7, <1>8, <1>9, <1>10 DEF IInv

LEMMA StepInv == IInv /\ [Next]_vars => IInv'
<1> SUFFICES ASSUME IInv, [Next]_vars PROVE IInv'
  OBVIOUS
<1>1. ASSUME ServerInv' /\ UNCHANGED <<news, clientVars>> PROVE IInv'
  BY <1>1 DEF IInv, NewsInv, ClientInv, LocalIdsStay, WrittenInv, Shown, LocalIndices,
     clientVars
<1>2. CASE Server
  <2>1. CASE Broadcast
    BY <2>1, BroadcastStep
  <2>2. CASE ~Broadcast
    BY <1>1, <1>2, <2>2, ServerStep DEF IInv
  <2> QED BY <2>1, <2>2
<1>3. CASE Client
  BY <1>3, LocalMoveStep, ReceiveStep, UpdateStep DEF Client
<1>4. CASE UNCHANGED vars
  BY <1>1, <1>4 DEF vars, serverVars, clientVars, IInv, ServerInv, ServerIds
<1> QED BY <1>2, <1>3, <1>4 DEF Next, AllShown

LEMMA Inductive == Spec => []IInv
<1>1. Init => IInv
  BY InitInv
<1>2. IInv /\ [Next]_vars => IInv'
  BY StepInv
<1> QED BY <1>1, <1>2, PTL DEF Spec

-----------------------------------------------------------------------------
\* Whatever a server sends, an id that the display or a script of the client
\* holds stays valid.
THEOREM LocalIdsSurvive == Spec => []LocalIdsStay
<1>1. IInv => LocalIdsStay
  BY DEF IInv, ClientInv
<1> QED BY <1>1, Inductive, PTL

\* A client that has worked through a broadcast shows all of it, but for the
\* indices of its own entities.
THEOREM BroadcastsAreShown == Spec => []SnapshotShown
<1>1. IInv => SnapshotShown
  <2> SUFFICES ASSUME IInv, Idle, NEW type \in ComponentTypes, NEW id \in DOMAIN latest[type]
               PROVE  Shown(type, id)
    BY DEF SnapshotShown, Shown
  <2>1. updating[type] = {}
    BY DEF Idle
  <2> QED BY <2>1 DEF IInv, WrittenInv
<1> QED BY <1>1, Inductive, PTL

-----------------------------------------------------------------------------
(* What the client has beyond the last broadcast                           *)

\* A component of one broadcast is in a later one, unless its entity was
\* destroyed in between; only avatars are, and they have a transform at most.
Left(type, id) == type = Moving /\ id \in departed
Follows(before, after) ==
  \A type \in ComponentTypes : \A id \in DOMAIN before[type] :
    id \in DOMAIN after[type] \/ Left(type, id)

AvatarsOnlyMove ==
  \A id \in avatars, type \in ComponentTypes : id \in DOMAIN serverPool[type] => type = Moving

InOrder ==
  /\ Follows(latest, serverPool)
  /\ \A k \in DOMAIN news : Follows(latest, news[k]) /\ Follows(news[k], serverPool)
  /\ \A j, k \in DOMAIN news : j < k => Follows(news[j], news[k])

Accounted ==
  \A type \in ComponentTypes : \A i \in DOMAIN pool[type] :
    \/ \E id \in DOMAIN latest[type] : id.index = i
    \/ i \in LocalIndices
    \/ \E id \in departed : Left(type, id) /\ id.index = i

LeftInv == AvatarsOnlyMove /\ InOrder /\ Accounted

\* create() returns an id that was not valid.
LEMMA NextIdIsNew ==
  ASSUME NEW r, IsRegistry(r)
  PROVE  NextId(r) \notin Ids(r)
<1>1. /\ r.version \in Seq(Nat) /\ r.alive \subseteq Indices(r)
      /\ r.destroyed \in Seq(Indices(r))
  BY DEF IsRegistry
<1>2. \A id \in Ids(r) : id.index \in r.alive
  BY DEF Ids, IdAt
<1>3. CASE r.destroyed = <<>>
  <2>1. NextId(r).index = Size(r)
    BY <1>3 DEF NextId
  <2>2. Size(r) \notin r.alive
    <3>1. Size(r) \in Nat /\ Indices(r) = {i \in Nat : i < Size(r)}
      BY <1>1, IndicesBelow
    <3>2. ~(Size(r) < Size(r))
      BY <3>1
    <3> QED BY <1>1, <3>1, <3>2
  <2> QED BY <1>2, <2>1, <2>2
<1>4. CASE r.destroyed # <<>>
  <2>1. NextId(r).index = r.destroyed[1] /\ 1 \in DOMAIN r.destroyed
    BY <1>1, <1>4 DEF NextId, IdAt
  <2> QED BY <1>2, <2>1 DEF IsRegistry
<1> QED BY <1>3, <1>4

\* On the server a component goes only with its avatar.
LEMMA ServerKeeps ==
  ASSUME IInv, LeftInv, Server, ~Broadcast
  PROVE  LeftInv'
<1>1. /\ IsRegistry(serverRegistry) /\ avatars \subseteq ServerIds
      /\ \A type \in ComponentTypes : DOMAIN serverPool[type] \subseteq ServerIds
  BY PartialElim DEF IInv, ServerInv
<1>2. UNCHANGED <<news, latest, pool, local>>
  BY ServerStep DEF IInv, clientVars
<1>3. NextId(serverRegistry) \notin ServerIds
  BY <1>1, NextIdIsNew DEF ServerIds
<1>4. /\ departed \subseteq departed'
      /\ AvatarsOnlyMove'
      /\ \A type \in ComponentTypes : \A id \in DOMAIN serverPool[type] :
           id \in DOMAIN serverPool'[type] \/ (type = Moving /\ id \in departed')
  <2>1. ASSUME NEW types \in SUBSET ComponentTypes, NEW data \in Data, ServerSpawn(types, data)
        PROVE  <1>4!:
    <3>1. /\ avatars' = avatars /\ departed' = departed
          /\ \A type \in ComponentTypes :
               DOMAIN serverPool'[type] \in
                 {DOMAIN serverPool[type], DOMAIN serverPool[type] \cup {NextId(serverRegistry)}}
      BY <2>1 DEF ServerSpawn, Written
    <3> QED BY <1>1, <1>3, <3>1 DEF LeftInv, AvatarsOnlyMove
  <2>2. CASE AvatarArrives
    <3>1. /\ avatars' = avatars \cup {NextId(serverRegistry)} /\ departed' = departed
          /\ serverPool' = serverPool
      BY <2>2 DEF AvatarArrives
    <3> QED BY <1>1, <1>3, <3>1 DEF LeftInv, AvatarsOnlyMove
  <2>3. ASSUME NEW id \in ServerIds, NEW type \in ComponentTypes, NEW data \in Data,
               ServerWrite(id, type, data)
        PROVE  <1>4!:
    <3>1. /\ avatars' = avatars /\ departed' = departed
          /\ id \in avatars => type = Moving
          /\ serverPool' = [serverPool EXCEPT ![type] = Written(serverPool[type], id, data)]
          /\ DOMAIN Written(serverPool[type], id, data) = DOMAIN serverPool[type] \cup {id}
          /\ DOMAIN serverPool = ComponentTypes
      BY <2>3 DEF ServerWrite, Written, IInv, ServerInv
    <3>2. \A t \in ComponentTypes :
            DOMAIN serverPool'[t] =
              IF t = type THEN DOMAIN serverPool[t] \cup {id} ELSE DOMAIN serverPool[t]
      BY <3>1
    <3> QED BY <3>1, <3>2 DEF LeftInv, AvatarsOnlyMove
  <2>4. ASSUME NEW id \in avatars, AvatarLeaves(id)
        PROVE  <1>4!:
    <3>1. /\ avatars' = avatars \ {id} /\ departed' = departed \cup {id}
          /\ \A type \in ComponentTypes : DOMAIN serverPool'[type] = DOMAIN serverPool[type] \ {id}
      BY <2>4 DEF AvatarLeaves
    <3> QED BY <3>1 DEF LeftInv, AvatarsOnlyMove
  <2> QED BY <2>1, <2>2, <2>3, <2>4 DEF Server
<1>5. ASSUME NEW m, Follows(m, serverPool)
      PROVE  \A type \in ComponentTypes : \A id \in DOMAIN m[type] :
               id \in DOMAIN serverPool'[type] \/ (type = Moving /\ id \in departed')
  BY <1>4, <1>5 DEF Follows, Left
<1>6. InOrder'
  BY <1>2, <1>4, <1>5 DEF LeftInv, InOrder, Follows, Left
<1>7. Accounted'
  BY <1>2, <1>4 DEF LeftInv, Accounted, LocalIndices, Left
<1> QED BY <1>4, <1>6, <1>7 DEF LeftInv

\* A broadcast follows whatever was sent before it.
LEMMA BroadcastFollows ==
  ASSUME IInv, LeftInv, Broadcast
  PROVE  LeftInv'
<1>1. /\ news' = Append(news, serverPool)
      /\ UNCHANGED <<serverPool, avatars, departed, pool, local, latest>>
  BY DEF Broadcast, ComponentUpdates, clientVars
<1>2. news \in Seq(Message) /\ serverPool \in Message
  BY PoolIsMessage DEF IInv, NewsInv, ComponentUpdates
<1>3. /\ DOMAIN news = 1..Len(news) /\ Len(news) \in Nat
      /\ DOMAIN news' = 1..(Len(news) + 1)
      /\ \A k \in DOMAIN news : news'[k] = news[k]
      /\ news'[Len(news) + 1] = serverPool
  BY <1>1, <1>2
<1>4. AvatarsOnlyMove' /\ Accounted'
  BY <1>1 DEF LeftInv, AvatarsOnlyMove, Accounted, LocalIndices, Left
<1>5. \A k \in DOMAIN news' :
        \/ k \in DOMAIN news /\ news'[k] = news[k]
        \/ k = Len(news) + 1 /\ news'[k] = serverPool
  BY <1>3
<1>6. Follows(serverPool, serverPool)
  BY DEF Follows
<1>7. /\ \A k \in DOMAIN news' : Follows(latest, news'[k]) /\ Follows(news'[k], serverPool)
      /\ \A j, k \in DOMAIN news' : j < k => Follows(news'[j], news'[k])
  BY <1>3, <1>5, <1>6 DEF LeftInv, InOrder
<1>8. InOrder'
  BY <1>1, <1>7 DEF LeftInv, InOrder, Follows, Left
<1> QED BY <1>4, <1>8 DEF LeftInv

\* What the last broadcast showed is in the next, or was left behind.
LEMMA ReceiveFollows ==
  ASSUME IInv, LeftInv, ReceiveWorldUpdate
  PROVE  LeftInv'
<1>1. /\ news \in Seq(Message) /\ news # <<>>
      /\ latest' = Head(news) /\ news' = Tail(news)
      /\ UNCHANGED <<serverPool, avatars, departed, pool, local>>
  BY DEF IInv, NewsInv, ReceiveWorldUpdate, serverVars
<1>2. /\ 1 \in DOMAIN news /\ latest' = news[1]
      /\ DOMAIN news' = 1..(Len(news) - 1)
      /\ \A k \in DOMAIN news' : k + 1 \in DOMAIN news /\ news'[k] = news[k + 1] /\ 1 < k + 1
      /\ \A j, k \in DOMAIN news' : j < k => j + 1 < k + 1
  BY <1>1
<1>3. AvatarsOnlyMove'
  BY <1>1 DEF LeftInv, AvatarsOnlyMove
<1>4. InOrder'
  BY <1>1, <1>2 DEF LeftInv, InOrder, Follows, Left
<1>5. Follows(latest, latest')
  BY <1>2 DEF LeftInv, InOrder
<1>6. Accounted'
  BY <1>1, <1>5 DEF LeftInv, Accounted, LocalIndices, Left, Follows
<1> QED BY <1>3, <1>4, <1>6 DEF LeftInv

\* What the client writes is the broadcast's, or its own.
LEMMA ClientAccounts ==
  ASSUME IInv, LeftInv, Client, ~ReceiveWorldUpdate
  PROVE  LeftInv'
<1>1. /\ UNCHANGED <<serverPool, avatars, departed, news, latest>>
      /\ local \subseteq local'
  BY DEF Client, LocalMove, UpdateComponent, serverVars
<1>2. AvatarsOnlyMove' /\ InOrder'
  BY <1>1 DEF LeftInv, AvatarsOnlyMove, InOrder, Follows, Left
<1>3. \A type \in ComponentTypes : \A i \in DOMAIN pool'[type] \ DOMAIN pool[type] :
        \/ \E id \in DOMAIN latest[type] : id.index = i
        \/ i \in LocalIndices'
  <2>2. ASSUME NEW id \in local, LocalMove(id)
        PROVE  <1>3!:
    BY <2>2 DEF LocalMove, Written, LocalIndices, IInv, ClientInv
  <2>3. ASSUME NEW i \in DOMAIN Types, NEW id \in updating[Types[i]], UpdateComponent(i, id)
        PROVE  <1>3!:
    <3>1. Types[i] \in ComponentTypes /\ id \in DOMAIN latest[Types[i]]
      BY DEF ComponentTypes, IInv, NewsInv
    <3>2. pool' = [pool EXCEPT ![Types[i]] =
                     Written(pool[Types[i]], id.index, latest[Types[i]][id])]
      BY <2>3 DEF UpdateComponent, WriteComponent
    <3> QED BY <3>1, <3>2 DEF Written, IInv, ClientInv
  <2> QED BY <2>2, <2>3 DEF Client
<1>4. Accounted'
  BY <1>1, <1>3 DEF LeftInv, Accounted, LocalIndices, Left
<1> QED BY <1>2, <1>4 DEF LeftInv

LEMMA NothingLeftYet == Init => LeftInv
<1> SUFFICES ASSUME Init PROVE LeftInv
  OBVIOUS
<1>1. DOMAIN news = {}
  BY DEF Init
<1> QED BY <1>1, NothingYet DEF Init, LeftInv, AvatarsOnlyMove, InOrder, Follows, Accounted

\* What a client shows beyond the last broadcast was once the transform of an
\* avatar that has left, or is its own, in any number of broadcasts: of all
\* that the server destroys without a word, nothing else is left behind.
THEOREM OnlyAvatarsAreLeft == Spec => []OnlyLeftovers
<1>1. IInv /\ LeftInv /\ [Next]_vars => LeftInv'
  <2> SUFFICES ASSUME IInv, LeftInv, [Next]_vars PROVE LeftInv'
    OBVIOUS
  <2>1. CASE UNCHANGED vars
    BY <2>1 DEF vars, serverVars, clientVars, LeftInv, AvatarsOnlyMove, InOrder, Follows,
       Accounted, LocalIndices, Left
  <2> QED BY <2>1, ServerKeeps, BroadcastFollows, ReceiveFollows, ClientAccounts
         DEF Next, AllShown
<1>2. LeftInv => OnlyLeftovers
  BY DEF LeftInv, Accounted, OnlyLeftovers, Left
<1> QED BY <1>1, <1>2, NothingLeftYet, Inductive, PTL DEF Spec
=============================================================================
