--------------------------- MODULE AssetPool_proofs ---------------------------
(* What holds of the pool for any bundles, as long as an asset refers only to *)
(* assets that were there before it.                                          *)
EXTENDS AssetPool, SequenceTheorems, TLAPS

\* What the induction needs beside TypeOK and OneObjectPerAsset: the assets
\* being loaded are not in the pool, and each of them is older than those that
\* wait for it.
Pending == \A i \in DOMAIN stack : stack[i].id \notin DOMAIN pool

Climb ==
  \A i, j \in DOMAIN stack : i < j => Rank[stack[j].id] < Rank[stack[i].id]

PoolInv == TypeOK /\ Pending /\ Climb /\ OneObjectPerAsset

-----------------------------------------------------------------------------
(* Sequences of frames                                                     *)

LEMMA ToLoadType ==
  ASSUME NEW id \in Assets
  PROVE  /\ ToLoad(id) \in Seq(Reference)
         /\ \A k \in 1..Len(ToLoad(id)) :
              /\ ToLoad(id)[k] \in Reference
              /\ ToLoad(id)[k].id \in Assets => Rank[ToLoad(id)[k].id] < Rank[id]
<1>1. ToLoad(id) \in Seq(Reference)
  BY PoolAssumption, EmptySeq DEF ToLoad
<1>2. CASE KindOf[id] \in Dummies
  BY <1>1, <1>2 DEF ToLoad
<1>3. CASE KindOf[id] \notin Dummies
  <2>1. ToLoad(id) = Refs[id]
    BY <1>3 DEF ToLoad
  <2>2. DOMAIN Refs[id] = 1..Len(Refs[id])
    BY PoolAssumption, LenProperties
  <2>3. \A k \in 1..Len(Refs[id]) : Refs[id][k] \in Reference
    BY PoolAssumption, ElementOfSeq
  <2> QED BY <1>1, <2>1, <2>2, <2>3, PoolAssumption
<1> QED BY <1>2, <1>3

\* Returning a handle to some calls of load leaves those calls alone but for
\* the innermost, which gets the handle.
LEMMA ReturnStack ==
  ASSUME NEW frames \in Seq(Frame), NEW handle \in Nat, NEW id,
         Return(id, handle, frames)
  PROVE  /\ stack' \in Seq(Frame)
         /\ Len(stack') = Len(frames)
         /\ DOMAIN stack' = DOMAIN frames
         /\ \A i \in DOMAIN frames : stack'[i].id = frames[i].id
         /\ \A i \in DOMAIN frames :
              stack'[i].refs = IF i = Len(frames) THEN Append(frames[i].refs, handle)
                               ELSE frames[i].refs
<1>0. Len(frames) \in Nat /\ DOMAIN frames = 1..Len(frames)
      /\ \A i \in 1..Len(frames) : frames[i] \in Frame
  BY LenProperties, ElementOfSeq
<1>1. CASE frames = <<>>
  BY <1>0, <1>1 DEF Return
<1>2. CASE frames # <<>>
  <2> DEFINE n == Len(frames)
             f == [frames[n] EXCEPT !.refs = Append(@, handle)]
  <2>1. n \in 1..Len(frames)
    BY <1>0, <1>2, EmptySeq
  <2>2. frames[n] \in Frame
    BY <1>0, <2>1
  <2>3. f \in Frame /\ f.id = frames[n].id /\ f.refs = Append(frames[n].refs, handle)
    BY <2>2, AppendProperties DEF Frame
  <2>4. stack' = [frames EXCEPT ![n] = f]
    BY <1>2 DEF Return
  <2> HIDE DEF f
  <2>5. /\ stack' \in Seq(Frame) /\ Len(stack') = Len(frames)
        /\ \A i \in 1..Len(frames) : stack'[i] = IF i = n THEN f ELSE frames[i]
    BY <2>1, <2>3, <2>4, ExceptSeq
  <2>6. DOMAIN stack' = 1..Len(stack')
    BY <2>5, LenProperties
  <2> QED BY <1>0, <2>3, <2>5, <2>6
<1> QED BY <1>1, <1>2

\* The calls that are left when the innermost returns.
LEMMA PopStack ==
  ASSUME stack \in Seq(Frame), stack # <<>>
  PROVE  /\ Len(stack) \in 1..Len(stack)
         /\ DOMAIN stack = 1..Len(stack)
         /\ Top \in Frame
         /\ Pop \in Seq(Frame)
         /\ Len(Pop) = Len(stack) - 1
         /\ DOMAIN Pop = 1..Len(stack) - 1
         /\ \A i \in DOMAIN Pop : Pop[i] = stack[i]
<1>1. Len(stack) \in Nat /\ Len(stack) # 0 /\ DOMAIN stack = 1..Len(stack)
      /\ \A i \in 1..Len(stack) : stack[i] \in Frame
  BY EmptySeq, LenProperties, ElementOfSeq
<1> DEFINE m == Len(stack) - 1
<1>2. m \in Nat /\ \A i \in 1..m : stack[i] \in Frame
  BY <1>1
<1>3. Pop = SubSeq(stack, 1, m)
  BY DEF Pop
<1>4. Len(stack) = m + 1
  BY <1>1
<1> HIDE DEF m
<1>5. /\ SubSeq(stack, 1, m) \in Seq(Frame)
      /\ Len(SubSeq(stack, 1, m)) = IF 1 <= m THEN m - 1 + 1 ELSE 0
      /\ \A i \in 1..m - 1 + 1 : SubSeq(stack, 1, m)[i] = stack[1 + i - 1]
  BY <1>2, SubSeqProperties
<1>6. /\ Pop \in Seq(Frame) /\ Len(Pop) = m
      /\ \A i \in 1..m : Pop[i] = stack[i]
  <2>1. m - 1 + 1 = m
    BY <1>2
  <2>2. Len(Pop) = m
    BY <1>2, <1>3, <1>5, <2>1
  <2>3. ASSUME NEW i \in 1..m PROVE Pop[i] = stack[i]
    <3>1. 1 + i - 1 = i
      BY <1>2
    <3> QED BY <1>3, <1>5, <2>1, <3>1
  <2> QED BY <1>3, <1>5, <2>2, <2>3
<1>7. DOMAIN Pop = 1..m
  BY <1>6, LenProperties
<1>8. Top \in Frame
  BY <1>1 DEF Top
<1>9. Len(stack) - 1 = m /\ Len(stack) \in 1..Len(stack)
  BY <1>1, <1>4, <1>2
<1> QED BY <1>1, <1>6, <1>7, <1>8, <1>9

-----------------------------------------------------------------------------
(* load                                                                    *)

\* The handles of the rest of the program, when load returns one of an object
\* there is.
LEMMA ReturnHandles ==
  ASSUME TypeOK, NEW frames, NEW id \in Ids,
         NEW handle \in {Null} \cup DOMAIN objects',
         handle # Null => id \in Assets,
         DOMAIN objects \subseteq DOMAIN objects',
         Return(id, handle, frames)
  PROVE  handles' \subseteq [id : Assets, object : DOMAIN objects']
<1>1. handles \subseteq [id : Assets, object : DOMAIN objects']
  BY DEF TypeOK
<1>2. \/ handles' = handles
      \/ handle # Null /\ handles' = handles \cup {[id |-> id, object |-> handle]}
  BY DEF Return
<1> QED BY <1>1, <1>2

\* An answer without a new object.
LEMMA AnswerKeeps ==
  ASSUME PoolInv, NEW id \in Ids, NEW handle \in {Null} \cup DOMAIN objects,
         handle # Null => id \in Assets,
         Return(id, handle, stack), UNCHANGED <<pool, objects>>,
         unread' \subseteq Assets
  PROVE  PoolInv'
<1>1. handle \in Nat
  <2>1. DOMAIN objects = 1..Len(objects) /\ Len(objects) \in Nat
    BY LenProperties DEF PoolInv, TypeOK
  <2> QED BY <2>1 DEF Null
<1>2. /\ stack' \in Seq(Frame) /\ DOMAIN stack' = DOMAIN stack
      /\ \A i \in DOMAIN stack : stack'[i].id = stack[i].id
  BY <1>1, ReturnStack DEF PoolInv, TypeOK
<1>3. handles' \subseteq [id : Assets, object : DOMAIN objects']
  BY ReturnHandles DEF PoolInv
<1>4. TypeOK'
  BY <1>2, <1>3 DEF PoolInv, TypeOK
<1>5. Pending' /\ Climb'
  BY <1>2 DEF PoolInv, Pending, Climb
<1>6. OneObjectPerAsset'
  BY DEF PoolInv, OneObjectPerAsset
<1> QED BY <1>4, <1>5, <1>6 DEF PoolInv

\* A call of load for an asset older than all that wait for it.
LEMMA LoadKeeps ==
  ASSUME PoolInv, NEW kind \in Kinds, NEW id \in Ids, Load(kind, id),
         stack # <<>> /\ id \in Assets => Rank[id] < Rank[Top.id]
  PROVE  PoolInv'
<1>1. CASE Hit(kind, id)
  <2>1. id \in Assets /\ pool[id] \in DOMAIN objects
    BY <1>1 DEF Hit, PoolInv, TypeOK
  <2> DEFINE handle == IF KindOf[id] = kind THEN pool[id] ELSE Null
  <2>2. Return(id, handle, stack) /\ UNCHANGED <<pool, objects, unread>>
    BY <1>1 DEF Hit
  <2>3. handle \in {Null} \cup DOMAIN objects
    BY <2>1
  <2>4. unread' \subseteq Assets
    BY <2>2 DEF PoolInv, TypeOK
  <2> HIDE DEF handle
  <2> QED BY <2>1, <2>2, <2>3, <2>4, AnswerKeeps
<1>2. CASE Refuse(kind, id)
  <2>1. Return(id, Null, stack) /\ UNCHANGED <<pool, objects, unread>>
    BY <1>2 DEF Refuse
  <2>2. unread' \subseteq Assets
    BY <2>1 DEF PoolInv, TypeOK
  <2> QED BY <2>1, <2>2, AnswerKeeps
<1>3. CASE FailToRead(kind, id)
  <2>1. Return(id, Null, stack) /\ UNCHANGED <<pool, objects>>
    BY <1>3 DEF FailToRead
  <2>2. unread' \subseteq Assets
    BY <1>3 DEF FailToRead, Loadable, PoolInv, TypeOK
  <2> QED BY <2>1, <2>2, AnswerKeeps
<1>4. CASE Begin(kind, id)
  <2> DEFINE frame == [id |-> id, refs |-> <<>>]
             n == Len(stack)
  <2>1. id \in Assets /\ id \notin DOMAIN pool
        /\ stack' = Append(stack, frame) /\ UNCHANGED <<pool, objects, handles, unread>>
    BY <1>4 DEF Begin, Loadable
  <2>2. frame \in Frame /\ frame.id = id
    BY <2>1, EmptySeq DEF Frame
  <2>3. stack \in Seq(Frame) /\ n \in Nat /\ DOMAIN stack = 1..n
        /\ \A i \in 1..n : stack[i] \in Frame
    BY LenProperties, ElementOfSeq DEF PoolInv, TypeOK
  <2> HIDE DEF frame
  <2>4. stack' \in Seq(Frame) /\ Len(stack') = n + 1
        /\ (\A i \in 1..n : stack'[i] = stack[i]) /\ stack'[n + 1] = frame
    BY <2>1, <2>2, <2>3, AppendProperties
  <2>5. DOMAIN stack' = 1..n + 1
    BY <2>4, LenProperties
  <2> HIDE DEF n
  <2>6. TypeOK'
    BY <2>1, <2>4 DEF PoolInv, TypeOK
  <2>7. Pending'
    BY <2>1, <2>2, <2>3, <2>4, <2>5 DEF PoolInv, Pending
  <2>8. Climb'
    <3>1. ASSUME NEW i \in 1..n PROVE Rank[id] < Rank[stack[i].id]
      <4>1. stack # <<>> /\ Top = stack[n]
        BY <2>3, <3>1, EmptySeq DEF Top, n
      <4>2. Rank[id] < Rank[stack[n].id]
        BY <2>1, <4>1
      <4>3. i = n \/ Rank[stack[n].id] < Rank[stack[i].id]
        BY <2>3, <3>1 DEF PoolInv, Climb
      <4>4. stack[n].id \in Assets /\ stack[i].id \in Assets
        BY <2>3, <3>1 DEF Frame
      <4>5. Rank[id] \in Nat /\ Rank[stack[n].id] \in Nat /\ Rank[stack[i].id] \in Nat
        BY <2>1, <4>4, PoolAssumption
      <4> QED BY <4>2, <4>3, <4>5
    <3>2. SUFFICES ASSUME NEW i \in 1..n + 1, NEW j \in 1..n + 1, i < j
                   PROVE  Rank[stack'[j].id] < Rank[stack'[i].id]
      BY <2>5 DEF Climb
    <3>3. i \in 1..n
      BY <2>3, <3>2
    <3>4. CASE j \in 1..n
      BY <2>3, <2>4, <3>2, <3>3, <3>4 DEF PoolInv, Climb
    <3>5. CASE j = n + 1
      BY <2>2, <2>4, <3>1, <3>3, <3>5
    <3> QED BY <2>3, <3>4, <3>5
  <2>9. OneObjectPerAsset'
    BY <2>1 DEF PoolInv, OneObjectPerAsset
  <2> QED BY <2>6, <2>7, <2>8, <2>9 DEF PoolInv
<1> QED BY <1>1, <1>2, <1>3, <1>4 DEF Load

-----------------------------------------------------------------------------
(* The steps of the pool                                                   *)

LEMMA InitPool == Init => PoolInv
<1> SUFFICES ASSUME Init PROVE PoolInv
  OBVIOUS
<1>1. DOMAIN objects = {} /\ DOMAIN stack = {} /\ DOMAIN pool = {}
  BY DEF Init
<1>2. objects \in Seq(Frame) /\ stack \in Seq(Frame)
  BY EmptySeq DEF Init
<1> QED BY <1>1, <1>2 DEF Init, PoolInv, TypeOK, Pending, Climb, OneObjectPerAsset

LEMMA FinishKeeps ==
  ASSUME PoolInv, Finish
  PROVE  PoolInv'
<1> DEFINE n == Len(stack)
           new == Len(objects) + 1
<1>1. /\ stack \in Seq(Frame) /\ stack # <<>> /\ objects \in Seq(Frame)
      /\ objects' = Append(objects, Top) /\ pool' = Emplaced(Top.id, new)
      /\ Return(Top.id, new, Pop) /\ unread' = unread
  BY DEF Finish, PoolInv, TypeOK
<1>2. /\ n \in 1..n /\ DOMAIN stack = 1..n /\ Top \in Frame
      /\ Pop \in Seq(Frame) /\ Len(Pop) = n - 1 /\ DOMAIN Pop = 1..n - 1
      /\ \A i \in 1..n - 1 : Pop[i] = stack[i]
  BY <1>1, PopStack
<1>3. /\ Len(objects) \in Nat /\ DOMAIN objects = 1..Len(objects)
      /\ objects' \in Seq(Frame) /\ Len(objects') = new
      /\ (\A i \in 1..Len(objects) : objects'[i] = objects[i]) /\ objects'[new] = Top
  BY <1>1, <1>2, LenProperties, AppendProperties
<1>4. DOMAIN objects' = 1..new
  BY <1>3, LenProperties
<1>5. Top = stack[n] /\ Top.id \in Assets
  BY <1>2 DEF Top, Frame
<1>6. /\ Top.id \notin DOMAIN pool
      /\ \A i \in 1..n - 1 : stack[i].id # Top.id
  <2>1. ASSUME NEW i \in 1..n - 1 PROVE stack[i].id # Top.id
    <3>1. i \in 1..n /\ i < n
      BY <1>2
    <3>2. Rank[Top.id] < Rank[stack[i].id]
      BY <1>2, <1>5, <3>1 DEF PoolInv, Climb
    <3>3. Rank[Top.id] \in Nat
      BY <1>5, PoolAssumption
    <3> QED BY <3>2, <3>3
  <2> QED BY <1>2, <1>5, <2>1 DEF PoolInv, Pending
<1>7. /\ DOMAIN pool' = DOMAIN pool \cup {Top.id}
      /\ \A id \in DOMAIN pool : pool'[id] = pool[id]
      /\ pool'[Top.id] = new
  BY <1>1, <1>6 DEF Emplaced
<1>8. /\ stack' \in Seq(Frame) /\ DOMAIN stack' = 1..n - 1
      /\ \A i \in 1..n - 1 : stack'[i].id = stack[i].id
  <2>1. new \in Nat
    BY <1>3
  <2> HIDE DEF new
  <2> QED BY <1>1, <1>2, <2>1, ReturnStack
<1>9. handles' \subseteq [id : Assets, object : DOMAIN objects']
  <2>1. new \in DOMAIN objects' /\ DOMAIN objects \subseteq DOMAIN objects'
    BY <1>3, <1>4
  <2>2. Top.id \in Ids
    BY <1>5 DEF Ids
  <2> HIDE DEF new
  <2> QED BY <1>1, <1>5, <2>1, <2>2, ReturnHandles DEF PoolInv
<1> HIDE DEF n, new
<1>10. TypeOK'
  <2>1. \A id \in DOMAIN pool' : pool'[id] \in DOMAIN objects'
    <3>1. \A id \in DOMAIN pool : pool[id] \in 1..Len(objects)
      BY <1>3 DEF PoolInv, TypeOK
    <3>2. 1..Len(objects) \subseteq 1..new /\ new \in 1..new
      BY <1>3 DEF new
    <3> QED BY <1>4, <1>7, <3>1, <3>2
  <2>2. DOMAIN pool' \subseteq Assets
    BY <1>5, <1>7 DEF PoolInv, TypeOK
  <2> QED BY <1>1, <1>3, <1>8, <1>9, <2>1, <2>2 DEF PoolInv, TypeOK
<1>11. Pending'
  <2> SUFFICES ASSUME NEW i \in 1..n - 1 PROVE stack'[i].id \notin DOMAIN pool'
    BY <1>8 DEF Pending
  <2>1. i \in DOMAIN stack
    BY <1>2
  <2>2. stack[i].id \notin DOMAIN pool
    BY <2>1 DEF PoolInv, Pending
  <2> QED BY <1>6, <1>7, <1>8, <2>2
<1>12. Climb'
  <2>1. 1..n - 1 \subseteq DOMAIN stack
    BY <1>2
  <2> QED BY <1>8, <2>1 DEF PoolInv, Climb
<1>13. OneObjectPerAsset'
  <2> SUFFICES ASSUME NEW k \in 1..new
               PROVE  objects'[k].id \in DOMAIN pool' /\ pool'[objects'[k].id] = k
    BY <1>4 DEF OneObjectPerAsset
  <2>1. CASE k = new
    BY <1>3, <1>7, <2>1
  <2>2. CASE k \in 1..Len(objects)
    BY <1>3, <1>7, <2>2 DEF PoolInv, OneObjectPerAsset
  <2>3. k = new \/ k \in 1..Len(objects)
    BY <1>3 DEF new
  <2> QED BY <2>1, <2>2, <2>3
<1> QED BY <1>10, <1>11, <1>12, <1>13 DEF PoolInv

LEMMA NextKeeps == PoolInv /\ [Next]_vars => PoolInv'
<1> SUFFICES ASSUME PoolInv, [Next]_vars PROVE PoolInv'
  OBVIOUS
<1>1. CASE Call
  <2>1. PICK kind \in Kinds, id \in Ids : Load(kind, id)
    BY <1>1 DEF Call
  <2>2. stack = <<>>
    BY <1>1 DEF Call
  <2> QED BY <2>1, <2>2, LoadKeeps
<1>2. CASE LoadReference
  <2> DEFINE ref == ToLoad(Top.id)[Len(Top.refs) + 1]
  <2>1. stack # <<>> /\ stack \in Seq(Frame) /\ Load(ref.kind, ref.id)
        /\ Len(Top.refs) < Len(ToLoad(Top.id))
    BY <1>2 DEF LoadReference, PoolInv, TypeOK
  <2>2. Top \in Frame
    BY <2>1, PopStack
  <2>3. Top.id \in Assets /\ Top.refs \in Seq(Nat)
    BY <2>2 DEF Frame
  <2>4. Len(Top.refs) + 1 \in 1..Len(ToLoad(Top.id))
    BY <2>1, <2>3, ToLoadType, LenProperties
  <2>5. ref \in Reference /\ (ref.id \in Assets => Rank[ref.id] < Rank[Top.id])
    BY <2>3, <2>4, ToLoadType
  <2> HIDE DEF ref
  <2>6. ref.kind \in Kinds /\ ref.id \in Ids
    BY <2>5 DEF Reference
  <2> QED BY <2>1, <2>5, <2>6, LoadKeeps
<1>3. CASE Finish
  BY <1>3, FinishKeeps
<1>4. CASE UNCHANGED vars
  BY <1>4 DEF vars, PoolInv, TypeOK, Pending, Climb, OneObjectPerAsset
<1> QED BY <1>1, <1>2, <1>3, <1>4 DEF Next

\* Types of the pool, for any bundles.
THEOREM PoolTypes == Spec => []TypeOK
<1>1. PoolInv => TypeOK
  BY DEF PoolInv
<1> QED BY InitPool, NextKeeps, <1>1, PTL DEF Spec

\* Handles of one asset are handles of one object: the recursive calls of load
\* never come round to an asset that is being loaded.
THEOREM AssetsAreShared == Spec => []OneObjectPerAsset
<1>1. PoolInv => OneObjectPerAsset
  BY DEF PoolInv
<1> QED BY InitPool, NextKeeps, <1>1, PTL DEF Spec

-----------------------------------------------------------------------------
(* What the references of an asset became                                  *)

\* The handle that loading a reference gave.
Resolved(handle, ref) ==
  IF handle = Null THEN ~Loadable(ref.kind, ref.id) \/ ref.id \in unread
  ELSE /\ handle \in DOMAIN objects /\ objects[handle].id = ref.id
       /\ KindOf[ref.id] = ref.kind

\* A load that is going on has the handles of its first references ...
SoFar(frame) ==
  /\ Len(frame.refs) <= Len(ToLoad(frame.id))
  /\ \A k \in 1..Len(frame.refs) : Resolved(frame.refs[k], ToLoad(frame.id)[k])

\* ... and, if another load is going on inside it, that is for the next one.
Awaits(frame, id) ==
  LET k == Len(frame.refs) + 1
  IN  /\ Len(frame.refs) < Len(ToLoad(frame.id))
      /\ ToLoad(frame.id)[k].id = id
      /\ Loadable(ToLoad(frame.id)[k].kind, id)

Underway == \A i \in DOMAIN stack : SoFar(stack[i])
Waiting == \A i \in 1..Len(stack) - 1 : Awaits(stack[i], stack[i + 1].id)
Indexed == \A id \in DOMAIN pool : objects[pool[id]].id = id

RefInv == PoolInv /\ Indexed /\ Underway /\ Waiting /\ ReferencesResolved

\* More objects and more failures leave what is resolved.
ObjectsGrow ==
  /\ \A n \in DOMAIN objects :
       n \in DOMAIN objects' /\ objects'[n].id = objects[n].id
  /\ unread \subseteq unread'

LEMMA ResolvedStays ==
  ASSUME ObjectsGrow, NEW handle, NEW ref, Resolved(handle, ref)
  PROVE  Resolved(handle, ref)'
BY DEF ObjectsGrow, Resolved, Loadable

LEMMA SoFarStays ==
  ASSUME ObjectsGrow, NEW frame, SoFar(frame)
  PROVE  SoFar(frame)'
BY ResolvedStays DEF SoFar, ToLoad

\* A handle returned to the innermost of some calls, for the reference it is at.
LEMMA ReturnResolves ==
  ASSUME ObjectsGrow, NEW frames \in Seq(Frame), NEW handle \in Nat, NEW id,
         Return(id, handle, frames),
         \A i \in DOMAIN frames : SoFar(frames[i]),
         \A i \in 1..Len(frames) - 1 : Awaits(frames[i], frames[i + 1].id),
         frames # <<>> =>
           LET top == frames[Len(frames)]
           IN  /\ Len(top.refs) < Len(ToLoad(top.id))
               /\ Resolved(handle, ToLoad(top.id)[Len(top.refs) + 1])'
  PROVE  Underway' /\ Waiting'
<1> DEFINE n == Len(frames)
<1>1. n \in Nat /\ DOMAIN frames = 1..n /\ \A i \in 1..n : frames[i] \in Frame
  BY LenProperties, ElementOfSeq
<1>2. /\ stack' \in Seq(Frame) /\ Len(stack') = n /\ DOMAIN stack' = 1..n
      /\ \A i \in 1..n : stack'[i].id = frames[i].id
      /\ \A i \in 1..n : stack'[i].refs = IF i = n THEN Append(frames[i].refs, handle)
                                          ELSE frames[i].refs
  BY <1>1, ReturnStack
<1> HIDE DEF n
<1>3. ASSUME NEW i \in 1..n PROVE SoFar(stack[i])'
  <2>1. SoFar(frames[i]) /\ SoFar(frames[i])'
    BY <1>1, <1>3, SoFarStays
  <2>2. CASE i # n
    <3>1. stack'[i].id = frames[i].id /\ stack'[i].refs = frames[i].refs
      BY <1>2, <1>3, <2>2
    <3>2. PICK old : old = frames[i]
      OBVIOUS
    <3>3. PICK new : new = stack'[i]
      OBVIOUS
    <3>4. SoFar(old)' /\ old.id = new.id /\ old.refs = new.refs
      BY <2>1, <3>1, <3>2, <3>3
    <3>5. SoFar(new)'
      BY <3>4 DEF SoFar, ToLoad, Resolved
    <3> QED BY <3>3, <3>5
  <2>3. CASE i = n
    <3> DEFINE f == frames[n]
               m == Len(f.refs)
    <3>0. n \in 1..n /\ n # 0
      BY <1>1, <1>3, <2>3
    <3>1. frames # <<>> /\ f.refs \in Seq(Nat)
      <4>1. f \in Frame
        BY <1>1, <3>0
      <4>2. Len(<<>>) = 0
        OBVIOUS
      <4>3. Len(frames) # 0
        BY <3>0 DEF n
      <4> QED BY <4>1, <4>2, <4>3 DEF Frame
    <3>2. /\ m < Len(ToLoad(f.id))
          /\ Resolved(handle, ToLoad(f.id)[m + 1])'
      BY <3>1 DEF n
    <3>3. /\ m \in Nat /\ Len(Append(f.refs, handle)) = m + 1
          /\ \A k \in 1..m : Append(f.refs, handle)[k] = f.refs[k]
          /\ Append(f.refs, handle)[m + 1] = handle
      BY <3>1, AppendProperties, LenProperties
    <3>4. stack'[i].id = f.id /\ stack'[i].refs = Append(f.refs, handle)
      BY <1>2, <1>3, <2>3
    <3>5. \A k \in 1..m : Resolved(f.refs[k], ToLoad(f.id)[k])'
      BY <2>1, <2>3 DEF SoFar
    <3>6. f.id \in Assets
      BY <1>1, <1>3, <2>3 DEF Frame
    <3>7. Len(ToLoad(f.id)) \in Nat
      BY <3>6, ToLoadType, LenProperties
    <3> HIDE DEF f, m
    <3>8. ASSUME NEW k \in 1..m + 1
          PROVE  Resolved(Append(f.refs, handle)[k], ToLoad(f.id)[k])'
      <4>1. CASE k = m + 1
        BY <3>2, <3>3, <4>1
      <4>2. CASE k \in 1..m
        BY <3>3, <3>5, <4>2
      <4> QED BY <3>3, <3>8, <4>1, <4>2
    <3>9. Len(stack'[i].refs) = m + 1 /\ m + 1 <= Len(ToLoad(stack[i].id))'
      BY <3>2, <3>3, <3>4, <3>7 DEF ToLoad
    <3>10. \A k \in 1..m + 1 : Resolved(stack[i].refs[k], ToLoad(stack[i].id)[k])'
      <4>1. ASSUME NEW k \in 1..m + 1
            PROVE  Resolved(stack[i].refs[k], ToLoad(stack[i].id)[k])'
        BY <3>4, <3>8 DEF Resolved, ToLoad
      <4> QED BY <4>1
    <3> QED BY <3>9, <3>10 DEF SoFar
  <2> QED BY <2>2, <2>3
<1>4. Underway'
  BY <1>2, <1>3 DEF Underway
<1>5. Waiting'
  <2> SUFFICES ASSUME NEW i \in 1..n - 1 PROVE Awaits(stack[i], stack[i + 1].id)'
    BY <1>2 DEF Waiting
  <2>1. i \in 1..n /\ i + 1 \in 1..n /\ i # n
    BY <1>1
  <2>2. Awaits(frames[i], frames[i + 1].id)
    BY DEF n
  <2> QED BY <1>2, <2>1, <2>2 DEF Awaits, Loadable, ToLoad
<1> QED BY <1>4, <1>5

\* No new objects, and failures at most added.
LEMMA SameObjects ==
  ASSUME RefInv, UNCHANGED <<pool, objects>>, unread \subseteq unread'
  PROVE  ObjectsGrow /\ Indexed' /\ ReferencesResolved'
<1>1. ObjectsGrow
  BY DEF ObjectsGrow
<1>2. Indexed'
  BY DEF RefInv, Indexed
<1>3. ReferencesResolved'
  BY DEF RefInv, ReferencesResolved, Loadable, ToLoad
<1> QED BY <1>1, <1>2, <1>3

\* A call of load for the reference that the innermost load has come to.
LEMMA LoadResolves ==
  ASSUME RefInv, NEW kind \in Kinds, NEW id \in Ids, Load(kind, id),
         stack # <<>> =>
           LET k == Len(Top.refs) + 1
           IN  /\ Len(Top.refs) < Len(ToLoad(Top.id))
               /\ ToLoad(Top.id)[k].id = id /\ ToLoad(Top.id)[k].kind = kind
  PROVE  Underway' /\ Waiting' /\ Indexed' /\ ReferencesResolved'
<1> DEFINE n == Len(stack)
<1>1. /\ stack \in Seq(Frame) /\ n \in Nat /\ DOMAIN stack = 1..n
      /\ \A i \in 1..n : stack[i] \in Frame
  BY LenProperties, ElementOfSeq DEF RefInv, PoolInv, TypeOK
<1>2. UNCHANGED <<pool, objects>> /\ unread \subseteq unread'
  BY DEF Load, Hit, Refuse, FailToRead, Begin
<1>3. ObjectsGrow /\ Indexed' /\ ReferencesResolved'
  BY <1>2, SameObjects
<1>4. ASSUME NEW handle \in {Null} \cup DOMAIN objects, Return(id, handle, stack),
             handle = Null => ~Loadable(kind, id) \/ id \in unread',
             handle # Null => objects[handle].id = id /\ KindOf[id] = kind
      PROVE  Underway' /\ Waiting'
  <2>1. handle \in Nat
    <3>1. DOMAIN objects = 1..Len(objects) /\ Len(objects) \in Nat
      BY LenProperties DEF RefInv, PoolInv, TypeOK
    <3> QED BY <3>1, <1>4 DEF Null
  <2> PICK frames \in Seq(Frame) : frames = stack
    BY <1>1
  <2>2. /\ \A i \in DOMAIN frames : SoFar(frames[i])
        /\ \A i \in 1..Len(frames) - 1 : Awaits(frames[i], frames[i + 1].id)
    BY DEF RefInv, Underway, Waiting
  <2> DEFINE top == frames[Len(frames)]
             ref == ToLoad(top.id)[Len(top.refs) + 1]
  <2>3. ASSUME frames # <<>>
        PROVE  Len(top.refs) < Len(ToLoad(top.id)) /\ Resolved(handle, ref)'
    <3>1. Len(top.refs) < Len(ToLoad(top.id)) /\ ref.id = id /\ ref.kind = kind
      BY <2>3 DEF Top
    <3>2. ref' = ref
      BY DEF ToLoad
    <3> HIDE DEF ref, top
    <3>3. Resolved(handle, ref)'
      BY <1>2, <1>4, <3>1, <3>2 DEF Resolved, Loadable
    <3> QED BY <3>1, <3>3
  <2>4. Return(id, handle, frames)
    BY <1>4
  <2> QED BY <1>3, <2>1, <2>2, <2>3, <2>4, ReturnResolves
<1>5. CASE Hit(kind, id)
  <2>1. id \in Assets /\ pool[id] \in DOMAIN objects /\ objects[pool[id]].id = id
    BY <1>5 DEF Hit, RefInv, PoolInv, TypeOK, Indexed
  <2> DEFINE handle == IF KindOf[id] = kind THEN pool[id] ELSE Null
  <2>2. Return(id, handle, stack)
    BY <1>5 DEF Hit
  <2>3. handle \in {Null} \cup DOMAIN objects
    BY <2>1
  <2>4. DOMAIN objects = 1..Len(objects) /\ Len(objects) \in Nat
    BY LenProperties DEF RefInv, PoolInv, TypeOK
  <2>5. handle = Null => ~Loadable(kind, id)
    BY <2>1, <2>4 DEF Null, Loadable
  <2>6. handle # Null => objects[handle].id = id /\ KindOf[id] = kind
    BY <2>1
  <2> HIDE DEF handle
  <2>7. Underway' /\ Waiting'
    BY <2>2, <2>3, <2>5, <2>6, <1>4
  <2> QED BY <1>3, <2>7
<1>6. CASE Refuse(kind, id)
  <2>1. Return(id, Null, stack) /\ ~Loadable(kind, id)
    BY <1>6 DEF Refuse
  <2>2. Underway' /\ Waiting'
    BY <2>1, <1>4
  <2> QED BY <1>3, <2>2
<1>7. CASE FailToRead(kind, id)
  <2>1. Return(id, Null, stack) /\ id \in unread'
    BY <1>7 DEF FailToRead
  <2>2. Underway' /\ Waiting'
    BY <2>1, <1>4
  <2> QED BY <1>3, <2>2
<1>8. CASE Begin(kind, id)
  <2> DEFINE frame == [id |-> id, refs |-> <<>>]
  <2>1. Loadable(kind, id) /\ id \in Assets /\ stack' = Append(stack, frame)
    BY <1>8 DEF Begin, Loadable
  <2>2. frame \in Frame /\ frame.id = id /\ Len(frame.refs) = 0
    BY <2>1, EmptySeq DEF Frame
  <2> HIDE DEF frame
  <2>3. stack' \in Seq(Frame) /\ Len(stack') = n + 1
        /\ (\A i \in 1..n : stack'[i] = stack[i]) /\ stack'[n + 1] = frame
    BY <2>1, <2>2, <1>1, AppendProperties
  <2>4. DOMAIN stack' = 1..n + 1
    BY <2>3, LenProperties
  <2>5. Len(ToLoad(id)) \in Nat
    BY <2>1, ToLoadType, LenProperties
  <2>6. stack # <<>> => Top = stack[n]
    BY DEF Top
  <2>7. n # 0 => stack # <<>>
    OBVIOUS
  <2> HIDE DEF n
  <2>8. ASSUME NEW i \in 1..n + 1 PROVE SoFar(stack[i])'
    <3>1. CASE i = n + 1
      <4>1. stack'[i].id = id /\ Len(stack'[i].refs) = 0
        BY <2>2, <2>3, <3>1
      <4>2. 0 <= Len(ToLoad(stack[i].id))'
        BY <2>5, <4>1 DEF ToLoad
      <4>3. 1..Len(stack[i].refs)' = {}
        BY <4>1
      <4> QED BY <4>1, <4>2, <4>3 DEF SoFar
    <3>2. CASE i \in 1..n
      <4>1. SoFar(stack[i]) /\ stack'[i] = stack[i]
        BY <1>1, <2>3, <3>2 DEF RefInv, Underway
      <4> DEFINE f == stack[i]
      <4>2. SoFar(f)
        BY <4>1
      <4> QED BY <1>2, <4>1 DEF SoFar, Resolved, ToLoad, Loadable
    <3> QED BY <1>1, <2>8, <3>1, <3>2
  <2>9. Underway'
    BY <2>4, <2>8 DEF Underway
  <2>10. ASSUME NEW i \in 1..n PROVE Awaits(stack[i], stack[i + 1].id)'
    <3>1. CASE i = n
      <4>1. stack'[i] = stack[n] /\ stack'[i + 1].id = id
        BY <1>1, <2>2, <2>3, <3>1
      <4>2. n # 0
        BY <1>1, <2>10
      <4>3. Awaits(stack[n], id)
        BY <4>2, <2>1, <2>6, <2>7 DEF Awaits
      <4> QED BY <4>1, <4>3 DEF Awaits, Loadable, ToLoad
    <3>2. CASE i \in 1..n - 1
      <4>1. Awaits(stack[i], stack[i + 1].id)
        BY <3>2 DEF RefInv, Waiting, n
      <4>2. stack'[i] = stack[i] /\ stack'[i + 1] = stack[i + 1]
        BY <1>1, <2>3, <3>2
      <4> QED BY <4>1, <4>2 DEF Awaits, Loadable, ToLoad
    <3> QED BY <1>1, <2>10, <3>1, <3>2
  <2>11. Waiting'
    <3>1. Len(stack') - 1 = n
      BY <1>1, <2>3
    <3> QED BY <2>10, <3>1 DEF Waiting
  <2> QED BY <1>3, <2>9, <2>11
<1> QED BY <1>5, <1>6, <1>7, <1>8 DEF Load

LEMMA InitRefInv == Init => RefInv
<1> SUFFICES ASSUME Init PROVE RefInv
  OBVIOUS
<1>1. DOMAIN objects = {} /\ DOMAIN stack = {} /\ DOMAIN pool = {} /\ Len(stack) = 0
  BY DEF Init
<1>2. 1..Len(stack) - 1 = {}
  BY <1>1
<1> QED BY <1>1, <1>2, InitPool
        DEF RefInv, Indexed, Underway, Waiting, ReferencesResolved

\* The innermost load ends: its object has all its handles, and is the one
\* that the load around it waits for.
LEMMA FinishResolves ==
  ASSUME RefInv, Finish
  PROVE  Underway' /\ Waiting' /\ Indexed' /\ ReferencesResolved'
<1> DEFINE n == Len(stack)
           new == Len(objects) + 1
<1>1. /\ stack \in Seq(Frame) /\ stack # <<>> /\ objects \in Seq(Frame)
      /\ objects' = Append(objects, Top) /\ pool' = Emplaced(Top.id, new)
      /\ Return(Top.id, new, Pop) /\ unread' = unread
      /\ Len(Top.refs) >= Len(ToLoad(Top.id))
  BY DEF Finish, RefInv, PoolInv, TypeOK
<1>2. /\ n \in 1..n /\ DOMAIN stack = 1..n /\ Top \in Frame
      /\ Pop \in Seq(Frame) /\ Len(Pop) = n - 1 /\ DOMAIN Pop = 1..n - 1
      /\ \A i \in 1..n - 1 : Pop[i] = stack[i]
  BY <1>1, PopStack
<1>3. /\ Len(objects) \in Nat /\ DOMAIN objects = 1..Len(objects)
      /\ (\A i \in 1..Len(objects) : objects'[i] = objects[i]) /\ objects'[new] = Top
      /\ DOMAIN objects' = 1..new
  BY <1>1, <1>2, LenProperties, AppendProperties
<1>4. Top = stack[n] /\ SoFar(Top)
  BY <1>2 DEF Top, RefInv, Underway
<1> HIDE DEF n, new
<1>5. new \in Nat /\ new # Null /\ new - 1 = Len(objects) /\ 1..new = DOMAIN objects \cup {new}
  BY <1>3 DEF new, Null
<1>6. ObjectsGrow
  BY <1>1, <1>3, <1>5 DEF ObjectsGrow
<1>7. Indexed'
  <2>1. \A id \in DOMAIN pool : pool[id] \in DOMAIN objects /\ objects[pool[id]].id = id
    BY DEF RefInv, PoolInv, TypeOK, Indexed
  <2> SUFFICES ASSUME NEW id \in DOMAIN pool' PROVE objects'[pool'[id]].id = id
    BY DEF Indexed
  <2>2. CASE id \in DOMAIN pool
    BY <1>1, <1>3, <2>1, <2>2 DEF Emplaced
  <2>3. CASE id \notin DOMAIN pool
    BY <1>1, <1>3, <2>3 DEF Emplaced
  <2> QED BY <2>2, <2>3
<1>8. ReferencesResolved'
  <2> DEFINE refs(m) == ToLoad(objects[m].id)
             Good(m) ==
               /\ Len(objects[m].refs) = Len(refs(m))
               /\ \A k \in DOMAIN refs(m) :
                    IF objects[m].refs[k] = Null
                    THEN ~Loadable(refs(m)[k].kind, refs(m)[k].id) \/ refs(m)[k].id \in unread
                    ELSE /\ objects[m].refs[k] \in 1..m - 1
                         /\ objects[objects[m].refs[k]].id = refs(m)[k].id
                         /\ KindOf[refs(m)[k].id] = refs(m)[k].kind
  <2>1. \A m \in 1..Len(objects) : Good(m)
    BY <1>3 DEF RefInv, ReferencesResolved
  <2> SUFFICES ASSUME NEW m \in 1..new PROVE Good(m)'
    BY <1>3 DEF ReferencesResolved
  <2>2. CASE m \in 1..Len(objects)
    <3>1. Good(m) /\ objects'[m] = objects[m] /\ unread' = unread
      BY <1>1, <1>3, <2>1, <2>2
    <3>2. \A k \in 1..m - 1 : objects'[k] = objects[k]
      BY <1>3, <2>2
    <3> QED BY <3>1, <3>2 DEF ToLoad, Loadable
  <2>3. CASE m = new
    <3> PICK top \in Frame : top = Top
      BY <1>2
    <3> DEFINE r == ToLoad(top.id)
    <3>1. r \in Seq(Reference) /\ Len(r) \in Nat /\ DOMAIN r = 1..Len(r)
      BY ToLoadType, LenProperties DEF Frame
    <3>2. Len(top.refs) \in Nat /\ \A k \in 1..Len(top.refs) : top.refs[k] \in Nat
      BY LenProperties, ElementOfSeq DEF Frame
    <3>3. Len(top.refs) = Len(r) /\ \A k \in 1..Len(r) : Resolved(top.refs[k], r[k])
      BY <1>1, <1>4, <3>1, <3>2 DEF SoFar
    <3>4. objects'[m] = top /\ m - 1 = Len(objects) /\ unread' = unread
      BY <1>1, <1>3, <1>5, <2>3
    <3>5. ToLoad(top.id)' = r
      BY DEF ToLoad
    <3> HIDE DEF r
    <3>6. ASSUME NEW k \in 1..Len(r), top.refs[k] # Null
          PROVE  /\ top.refs[k] \in 1..m - 1
                 /\ objects'[top.refs[k]].id = r[k].id /\ KindOf[r[k].id] = r[k].kind
      BY <1>3, <3>3, <3>4, <3>6 DEF Resolved
    <3>7. ASSUME NEW k \in 1..Len(r), top.refs[k] = Null
          PROVE  ~Loadable(r[k].kind, r[k].id) \/ r[k].id \in unread'
      BY <3>3, <3>4, <3>7 DEF Resolved
    <3>8. (refs(m))' = r
      BY <3>4, <3>5 DEF ToLoad
    <3> QED BY <3>1, <3>3, <3>4, <3>6, <3>7, <3>8 DEF Loadable
  <2> QED BY <1>5, <1>3, <2>2, <2>3
<1>9. Underway' /\ Waiting'
  <2> PICK frames \in Seq(Frame) : frames = Pop
    BY <1>2
  <2> PICK done \in Frame : done = Top
    BY <1>2
  <2> PICK handle \in Nat : handle = new
    BY <1>5
  <2>1. Len(frames) = n - 1 /\ DOMAIN frames = 1..n - 1 /\ n \in Nat
        /\ \A i \in 1..n - 1 : frames[i] = stack[i] /\ frames[i] \in Frame
    BY <1>2, ElementOfSeq
  <2>2. \A i \in DOMAIN frames : SoFar(frames[i])
    BY <1>2, <2>1 DEF RefInv, Underway
  <2>3. \A i \in 1..n - 1 : Awaits(stack[i], stack[i + 1].id)
    BY DEF RefInv, Waiting, n
  <2>4. \A i \in 1..Len(frames) - 1 : Awaits(frames[i], frames[i + 1].id)
    BY <2>1, <2>3
  <2> DEFINE top == frames[Len(frames)]
             k == Len(top.refs) + 1
             ref == ToLoad(top.id)[k]
  <2>5. ASSUME frames # <<>>
        PROVE  Len(top.refs) < Len(ToLoad(top.id)) /\ Resolved(handle, ref)'
    <3>1. n - 1 \in 1..n - 1
      <4>1. Len(frames) # 0
        BY <2>5, EmptySeq
      <4> QED BY <2>1, <4>1
    <3>2. top = stack[n - 1] /\ stack[n - 1 + 1] = done
      BY <1>4, <2>1, <3>1
    <3>3. Awaits(top, done.id)
      BY <2>3, <3>1, <3>2
    <3>4. Len(top.refs) < Len(ToLoad(top.id)) /\ ref.id = done.id /\ KindOf[ref.id] = ref.kind
      BY <3>3 DEF Awaits, Loadable
    <3>5. ref' = ref
      BY DEF ToLoad
    <3> HIDE DEF ref, top
    <3>6. handle \in DOMAIN objects' /\ objects'[handle] = done /\ handle # Null
      BY <1>3, <1>5
    <3>7. Resolved(handle, ref)'
      BY <3>4, <3>5, <3>6 DEF Resolved
    <3> QED BY <3>4, <3>7
  <2>6. Return(done.id, handle, frames)
    BY <1>1
  <2> QED BY <1>6, <2>2, <2>4, <2>5, <2>6, ReturnResolves
<1> QED BY <1>7, <1>8, <1>9

LEMMA NextResolves == RefInv /\ [Next]_vars => RefInv'
<1> SUFFICES ASSUME RefInv, [Next]_vars PROVE RefInv'
  OBVIOUS
<1>1. PoolInv /\ PoolInv'
  BY NextKeeps DEF RefInv
<1>2. CASE Call
  <2>1. PICK kind \in Kinds, id \in Ids : Load(kind, id)
    BY <1>2 DEF Call
  <2>2. stack = <<>>
    BY <1>2 DEF Call
  <2> QED BY <1>1, <2>1, <2>2, LoadResolves DEF RefInv
<1>3. CASE LoadReference
  <2> DEFINE ref == ToLoad(Top.id)[Len(Top.refs) + 1]
  <2>1. stack # <<>> /\ stack \in Seq(Frame) /\ Load(ref.kind, ref.id)
        /\ Len(Top.refs) < Len(ToLoad(Top.id))
    BY <1>1, <1>3 DEF LoadReference, PoolInv, TypeOK
  <2>2. Top \in Frame
    BY <2>1, PopStack
  <2>3. Top.id \in Assets /\ Top.refs \in Seq(Nat)
    BY <2>2 DEF Frame
  <2>4. Len(Top.refs) + 1 \in 1..Len(ToLoad(Top.id))
    BY <2>1, <2>3, ToLoadType, LenProperties
  <2>5. ref \in Reference
    BY <2>3, <2>4, ToLoadType
  <2>6. ref.kind \in Kinds /\ ref.id \in Ids
    BY <2>5 DEF Reference
  <2>7. Underway' /\ Waiting' /\ Indexed' /\ ReferencesResolved'
    BY <2>1, <2>6, LoadResolves
  <2> QED BY <1>1, <2>7 DEF RefInv
<1>4. CASE Finish
  BY <1>1, <1>4, FinishResolves DEF RefInv
<1>5. CASE UNCHANGED vars
  <2>1. UNCHANGED <<pool, objects, stack, unread>>
    BY <1>5 DEF vars
  <2>2. Indexed' /\ ReferencesResolved'
    BY <2>1, SameObjects
  <2>3. Underway'
    BY <2>1 DEF RefInv, Underway, SoFar, Resolved, ToLoad, Loadable
  <2>4. Waiting'
    BY <2>1 DEF RefInv, Waiting, Awaits, ToLoad, Loadable
  <2> QED BY <1>1, <2>2, <2>3, <2>4 DEF RefInv
<1> QED BY <1>2, <1>3, <1>4, <1>5 DEF Next

\* Whatever an asset refers to, it has the handle of once it is loaded, unless
\* that is missing, of another type, or could not be read.
THEOREM ReferencesAreResolved == Spec => []ReferencesResolved
<1>1. RefInv => ReferencesResolved
  BY DEF RefInv
<1> QED BY InitRefInv, NextResolves, <1>1, PTL DEF Spec

=============================================================================
