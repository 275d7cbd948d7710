---------------------------- MODULE EntityRegistry ----------------------------
(* entt::basic_registry's entities, as the world uses them: an id is an      *)
(* index with the version of its use, destroyed indices wait in a list and   *)
(* are handed out again, the last one first.                                 *)
(*   version   the version each index has, or will have when it is next used *)
(*   alive     indices of valid entities                                     *)
(*   destroyed the other indices, the next to be recycled first              *)
EXTENDS Integers, Sequences

EntityId == [index : Nat, version : Nat]

EmptyRegistry == [version |-> <<>>, alive |-> {}, destroyed |-> <<>>]

\* Sequences count from 1, indices from 0.
Indices(r) == {i - 1 : i \in DOMAIN r.version}
Size(r)    == Len(r.version)
IdAt(r, i) == [index |-> i, version |-> r.version[i + 1]]

Valid(r, id) == id.index \in r.alive /\ IdAt(r, id.index) = id
Ids(r)       == {IdAt(r, i) : i \in r.alive}

\* create(): the last index destroyed, or else a new one.
NextId(r) == IF r.destroyed = <<>> THEN [index |-> Size(r), version |-> 0]
             ELSE IdAt(r, Head(r.destroyed))

Created(r) ==
  IF r.destroyed = <<>>
  THEN [r EXCEPT !.version = Append(@, 0), !.alive = @ \cup {Size(r)}]
  ELSE [r EXCEPT !.destroyed = Tail(@), !.alive = @ \cup {Head(r.destroyed)}]

\* The list with the first i in it skipped.
Without(list, i) ==
  LET k == CHOOSE k \in DOMAIN list : list[k] = i
  IN  SubSeq(list, 1, k - 1) \o SubSeq(list, k + 1, Len(list))

\* create(hint): hint itself if its index is not in use, or else create().
\* Indices skipped on the way to a new one are listed as destroyed.
CreatedAt(r, hint) ==
  LET i == hint.index
      skipped == i - Size(r)
  IN  IF i >= Size(r)
      THEN [version   |-> r.version \o [k \in 1..skipped |-> 0] \o <<hint.version>>,
            alive     |-> r.alive \cup {i},
            destroyed |-> [k \in 1..skipped |-> i - k] \o r.destroyed]
      ELSE IF i \in r.alive THEN Created(r)
      ELSE [version   |-> [r.version EXCEPT ![i + 1] = hint.version],
            alive     |-> r.alive \cup {i},
            destroyed |-> Without(r.destroyed, i)]

Destroyed(r, id) ==
  [version   |-> [r.version EXCEPT ![id.index + 1] = @ + 1],
   alive     |-> r.alive \ {id.index},
   destroyed |-> <<id.index>> \o r.destroyed]

\* A registry is sound if exactly the indices not alive are listed, each once.
IsRegistry(r) ==
  /\ r \in [version : Seq(Nat), alive : SUBSET Indices(r), destroyed : Seq(Indices(r))]
  /\ \A k \in DOMAIN r.destroyed : r.destroyed[k] \notin r.alive
  /\ \A i \in Indices(r) \ r.alive : \E k \in DOMAIN r.destroyed : r.destroyed[k] = i
  /\ \A j, k \in DOMAIN r.destroyed : r.destroyed[j] = r.destroyed[k] => j = k
=============================================================================
