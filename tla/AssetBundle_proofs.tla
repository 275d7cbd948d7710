-------------------------- MODULE AssetBundle_proofs --------------------------
(***************************************************************************)
(* What a bundle serves, for any assets, sizes, lumps and limits, and      *)
(* whenever the bundler runs, fails or is killed.                          *)
(*                                                                         *)
(* The builder and the loader add up sizes in two places; a list of        *)
(* offsets, the same for both, ties what one has written to what the       *)
(* other looks up.                                                         *)
(***************************************************************************)
EXTENDS AssetBundle, SequenceTheorems, TLAPS

\* What is in a lump: assets at offsets.
Data == UNION {[D -> Assets] : D \in SUBSET Nat}
Checksums == {<<>>} \cup {<<d>> : d \in Data}

Lump ==
  [assets : Seq(Assets), data : Data, total_size : Nat,
   thread : {"none", "running", "writing", "done"}, checksum : Checksums]

File == [data : Data, size : Nat, contents : Nat]

Entry == [file_size : Nat, checksum : Checksums, assets : Seq([id : Ids, size : Nat])]

\* Nothing in data goes beyond a size.
Extends(data, size) == \A k \in DOMAIN data : k + Size[data[k]] <= size

\* The assets lie one after the other: off says where, and ends with the size
\* of all.
Laid(assets, data, off) ==
  /\ off \in [1..(Len(assets) + 1) -> Nat]
  /\ off[1] = 0 /\ off[Len(assets) + 1] <= MaxLumpSize
  /\ \A j \in 1..Len(assets) :
       /\ off[j] \in DOMAIN data /\ data[off[j]] = assets[j]
       /\ off[j + 1] = off[j] + Size[assets[j]]
  /\ Extends(data, off[Len(assets) + 1])

Offsets(lump, off) ==
  /\ Laid(lump.assets, lump.data, off)
  /\ lump.thread # "done" => lump.total_size = off[Len(lump.assets) + 1]

\* A lump of the builder.
Sound(lump) ==
  /\ lump \in Lump
  /\ lump.checksum \in {<<>>, <<lump.data>>}
  /\ lump.thread # "done" => lump.checksum = <<>>
  /\ \E off : Offsets(lump, off)

\* What the registry says of a lump.
Listed(assets) == [j \in DOMAIN assets |-> [id |-> IdOf[assets[j]], size |-> Size[assets[j]]]]

Describes(entry, assets, data, off) ==
  /\ assets \in Seq(Assets) /\ data \in Data
  /\ entry.assets = Listed(assets) /\ Laid(assets, data, off)
  /\ entry.checksum \in {<<>>, <<data>>}

\* No id is given twice.
OnceInLumps ==
  \A i, k \in DOMAIN lumps : \A j \in DOMAIN lumps[i].assets, l \in DOMAIN lumps[k].assets :
    IdOf[lumps[i].assets[j]] = IdOf[lumps[k].assets[l]] => i = k /\ j = l

Once(list) ==
  \A i, k \in DOMAIN list : \A j \in DOMAIN list[i].assets, l \in DOMAIN list[k].assets :
    list[i].assets[j].id = list[k].assets[l].id => i = k /\ j = l

Has(list, id) == \E i \in DOMAIN list : \E j \in DOMAIN list[i].assets : list[i].assets[j].id = id

\* The registry of a bundle, whatever became of its lumps.
Coherent(list) ==
  /\ list \in Seq(Entry) /\ Once(list)
  /\ \A i \in DOMAIN list : \E assets, data, off : Describes(list[i], assets, data, off)

Exporting(exports, list) == \A x \in DOMAIN exports : Has(list, exports[x])

\* A file is the one that is expected.
Fits(i, size, checksum) ==
  i \in DOMAIN files /\ files[i].size = size /\ <<files[i].data>> = checksum

BuildTypes ==
  /\ bpc \in {"idle", "adding", "joining"} /\ lumps \in Seq(Lump)
  /\ \A i \in DOMAIN files : files[i] \in File /\ Extends(files[i].data, files[i].contents)
  /\ bpc = "idle" => lumps = <<>>
  /\ bpc # "idle" => ~whole

LumpsSound == \A i \in DOMAIN lumps : Sound(lumps[i])

\* What was hashed has been written.
Written ==
  \A i \in DOMAIN lumps :
    lumps[i].checksum # <<>> => Fits(i, lumps[i].total_size, lumps[i].checksum)

RegistrySound ==
  /\ registry # <<>> => /\ Coherent(registry[1].lumps)
                        /\ Exporting(registry[1].exports, registry[1].lumps)
  /\ whole => /\ registry # <<>>
              /\ \A i \in DOMAIN registry[1].lumps :
                   Fits(i, registry[1].lumps[i].file_size, registry[1].lumps[i].checksum)

BuildInv == BuildTypes /\ LumpsSound /\ OnceInLumps /\ Written /\ RegistrySound
-----------------------------------------------------------------------------
(* The builder                                                             *)
LEMMA WithDef ==
  ASSUME NEW f, NEW x, NEW v
  PROVE  /\ DOMAIN With(f, x, v) = DOMAIN f \cup {x}
         /\ With(f, x, v)[x] = v
         /\ \A y \in DOMAIN f : y # x => With(f, x, v)[y] = f[y]
BY DEF With

LEMMA DataElim ==
  ASSUME NEW d \in Data
  PROVE  DOMAIN d \subseteq Nat /\ \A k \in DOMAIN d : d[k] \in Assets
BY DEF Data

LEMMA DataWith ==
  ASSUME NEW d \in Data, NEW n \in Nat, NEW a \in Assets
  PROVE  With(d, n, a) \in Data
<1>1. With(d, n, a) \in [DOMAIN d \cup {n} -> Assets]
  BY DataElim DEF With
<1>2. DOMAIN d \cup {n} \in SUBSET Nat
  BY DataElim
<1> QED BY <1>1, <1>2 DEF Data

LEMMA NoData == <<>> \in Data
<1>1. <<>> \in [{} -> Assets]
  OBVIOUS
<1> QED BY <1>1 DEF Data

\* One more asset at the end of what is laid out.
LEMMA LaidOn ==
  ASSUME NEW assets \in Seq(Assets), NEW data \in Data, NEW off, Laid(assets, data, off),
         NEW a \in Assets, off[Len(assets) + 1] + Size[a] <= MaxLumpSize
  PROVE  LET end == off[Len(assets) + 1] IN
         Laid(Append(assets, a), With(data, end, a),
              [j \in 1..(Len(assets) + 2) |-> IF j = Len(assets) + 2 THEN end + Size[a]
                                              ELSE off[j]])
<1> DEFINE n == Len(assets)
           end == off[n + 1]
           longer == Append(assets, a)
           more == With(data, end, a)
           offs == [j \in 1..(n + 2) |-> IF j = n + 2 THEN end + Size[a] ELSE off[j]]
<1>0. n \in Nat /\ off \in [1..(n + 1) -> Nat]
  BY DEF Laid
<1>1. /\ n \in Nat /\ end \in Nat /\ MaxLumpSize \in Nat
      /\ \A b \in Assets : Size[b] \in Nat /\ Size[b] > 0
  <2>1. end \in Nat
    BY <1>0
  <2> QED BY <1>0, <2>1, BuilderAssumption DEF BuilderAssumption
<1>2. /\ longer \in Seq(Assets) /\ Len(longer) = n + 1 /\ longer[n + 1] = a
      /\ \A j \in 1..n : longer[j] = assets[j] /\ assets[j] \in Assets
  BY <1>1
<1>3. /\ DOMAIN more = DOMAIN data \cup {end} /\ more[end] = a
      /\ \A k \in DOMAIN data : k # end => more[k] = data[k]
  <2> HIDE DEF end
  <2> QED BY DEF With
<1>4. \A k \in DOMAIN data : k \in Nat /\ data[k] \in Assets /\ k + Size[data[k]] <= end
                             /\ Size[data[k]] > 0 /\ k # end
  BY <1>1, DataElim, BuilderAssumption DEF BuilderAssumption, Laid, Extends
<1> HIDE DEF longer, more
<1>5. offs \in [1..(Len(longer) + 1) -> Nat]
  BY <1>1, <1>2 DEF Laid
<1>6. offs[1] = 0 /\ offs[Len(longer) + 1] = end + Size[a] /\ end + Size[a] <= MaxLumpSize
  BY <1>1, <1>2 DEF Laid
<1>7. ASSUME NEW j \in 1..Len(longer)
      PROVE  /\ offs[j] \in DOMAIN more /\ more[offs[j]] = longer[j]
             /\ offs[j + 1] = offs[j] + Size[longer[j]]
  <2>1. CASE j = n + 1
    <3>1. offs[j] = end /\ offs[j + 1] = end + Size[a]
      BY <2>1, <1>1
    <3> QED BY <3>1, <2>1, <1>2, <1>3
  <2>2. CASE j # n + 1
    <3>1. j \in 1..n
      BY <2>2, <1>1, <1>2
    <3>2. offs[j] = off[j] /\ offs[j + 1] = off[j + 1]
      BY <3>1, <1>1
    <3>3. /\ off[j] \in DOMAIN data /\ data[off[j]] = assets[j]
          /\ off[j + 1] = off[j] + Size[assets[j]]
      BY <3>1 DEF Laid
    <3> QED BY <3>1, <3>2, <3>3, <1>2, <1>3, <1>4
  <2> QED BY <2>1, <2>2
<1>8. Extends(more, end + Size[a])
  <2> SUFFICES ASSUME NEW k \in DOMAIN more PROVE k + Size[more[k]] <= end + Size[a]
    BY DEF Extends
  <2>1. CASE k = end BY <2>1, <1>1, <1>3
  <2>2. CASE k # end
    <3>1. k \in DOMAIN data /\ more[k] = data[k]
      BY <2>2, <1>3
    <3> QED BY <3>1, <1>1, <1>4
  <2> QED BY <2>1, <2>2
<1>9. Laid(longer, more, offs)
  <2> HIDE DEF offs, end
  <2> QED BY <1>5, <1>6, <1>7, <1>8 DEF Laid
<1> QED BY <1>9 DEF longer, more

LEMMA AppendedSound ==
  ASSUME NEW lump, Sound(lump), lump.thread = "none",
         NEW a \in Assets, lump.total_size + Size[a] <= MaxLumpSize
  PROVE  /\ Sound(Appended(lump, a)) /\ Appended(lump, a).assets = Append(lump.assets, a)
         /\ Appended(lump, a).checksum = <<>>
<1> DEFINE new == Appended(lump, a)
<1>1. lump \in Lump /\ lump.checksum = <<>>
  BY DEF Sound
<1>2. PICK off : Offsets(lump, off)
  BY DEF Sound
<1>3. /\ lump.assets \in Seq(Assets) /\ lump.data \in Data /\ lump.total_size \in Nat
      /\ lump.total_size = off[Len(lump.assets) + 1]
      /\ Laid(lump.assets, lump.data, off)
  BY <1>1, <1>2 DEF Offsets, Lump
<1>4. /\ new.assets = Append(lump.assets, a) /\ new.thread = "none" /\ new.checksum = <<>>
      /\ new.data = With(lump.data, lump.total_size, a)
      /\ new.total_size = lump.total_size + Size[a]
  BY <1>1 DEF Appended, Lump
<1>5. new.data \in Data
  BY <1>3, <1>4, DataWith
<1>6. Append(lump.assets, a) \in Seq(Assets)
  BY <1>3
<1>7. Size[a] \in Nat
  BY BuilderAssumption DEF BuilderAssumption
<1>8. new \in Lump
  <2>1. lump.total_size + Size[a] \in Nat
    BY <1>3, <1>7
  <2> QED BY <1>1, <1>4, <1>5, <1>6, <2>1 DEF Lump, Appended, Checksums
<1>9. \E o : Offsets(new, o)
  <2> DEFINE n == Len(lump.assets)
             longer == Append(lump.assets, a)
             o == [j \in 1..(n + 2) |-> IF j = n + 2 THEN off[n + 1] + Size[a] ELSE off[j]]
  <2>1. Laid(longer, With(lump.data, off[n + 1], a), o)
    BY <1>3, LaidOn
  <2>2. n \in Nat /\ Len(longer) = n + 1
    BY <1>3
  <2>3. o[n + 2] = off[n + 1] + Size[a]
    BY <2>2
  <2>4. o[Len(longer) + 1] = new.total_size
    <3>1. Len(longer) + 1 = n + 2
      BY <2>2
    <3> QED BY <3>1, <2>3, <1>3, <1>4
  <2> HIDE DEF o, longer
  <2>5. Laid(new.assets, new.data, o)
    BY <2>1, <1>3, <1>4 DEF longer
  <2> QED BY <2>4, <2>5, <1>4 DEF Offsets, longer
<1> QED BY <1>4, <1>8, <1>9 DEF Sound

LEMMA AllocatedSound ==
  /\ Sound(AllocateLump) /\ AllocateLump.thread = "none" /\ AllocateLump.total_size = 0
  /\ AllocateLump.assets = <<>>
<1> DEFINE o == [j \in 1..1 |-> 0]
<1>1. AllocateLump \in Lump
  BY NoData DEF AllocateLump, Lump, Checksums
<1>2. Laid(<<>>, <<>>, o)
  BY BuilderAssumption DEF BuilderAssumption, Laid, Extends
<1>3. Offsets(AllocateLump, o)
  BY <1>2 DEF Offsets, AllocateLump
<1> QED BY <1>1, <1>3 DEF Sound, AllocateLump

LEMMA LaunchedSound ==
  ASSUME NEW lump, Sound(lump)
  PROVE  /\ Sound(LaunchFinalizer(lump)) /\ LaunchFinalizer(lump).assets = lump.assets
         /\ LaunchFinalizer(lump).checksum = lump.checksum
         /\ LaunchFinalizer(lump).total_size = lump.total_size
<1> DEFINE new == LaunchFinalizer(lump)
<1>1. CASE lump.thread # "none"
  BY <1>1 DEF LaunchFinalizer
<1>2. CASE lump.thread = "none"
  <2>1. new = [lump EXCEPT !.thread = "running"] /\ lump \in Lump
    BY <1>2 DEF LaunchFinalizer, Sound
  <2>2. /\ new.assets = lump.assets /\ new.data = lump.data /\ new.checksum = lump.checksum
        /\ new.total_size = lump.total_size /\ new.thread = "running" /\ new \in Lump
    BY <2>1 DEF Lump
  <2>3. PICK off : Offsets(lump, off)
    BY DEF Sound
  <2>4. Offsets(new, off)
    BY <2>2, <2>3, <1>2 DEF Offsets
  <2> QED BY <2>2, <2>4, <1>2 DEF Sound
<1> QED BY <1>1, <1>2

\* An asset that is not turned away is put into one lump, the others stay what
\* they are.
Put(new, m, a) ==
  /\ DOMAIN new = DOMAIN lumps \cup {m} /\ new[m].checksum = <<>>
  /\ \A j \in DOMAIN new[m].assets :
       \/ new[m].assets[j] = a /\ j = Len(new[m].assets)
       \/ /\ m \in DOMAIN lumps /\ j \in DOMAIN lumps[m].assets
          /\ new[m].assets[j] = lumps[m].assets[j]
  /\ \A i \in DOMAIN lumps \ {m} :
       /\ new[i].assets = lumps[i].assets /\ new[i].checksum = lumps[i].checksum
       /\ new[i].total_size = lumps[i].total_size

LEMMA PackedInto ==
  ASSUME BuildInv, NEW a \in Assets, ~Refused(a), Packing(a) # lumps,
         NEW new, new = Packing(a)
  PROVE  /\ new \in Seq(Lump) /\ \A i \in DOMAIN new : Sound(new[i])
         /\ \E m \in DOMAIN new : Put(new, m, a)
<1> DEFINE last == Len(lumps)
<1>1. /\ lumps \in Seq(Lump) /\ last \in Nat /\ DOMAIN lumps = 1..last
      /\ \A i \in 1..last : Sound(lumps[i])
  BY DEF BuildInv, BuildTypes, LumpsSound
<1>2. Size[a] \in Nat /\ Size[a] <= MaxLumpSize
  BY BuilderAssumption DEF BuilderAssumption, Refused
<1>3. PICK first : first = Appended(AllocateLump, a)
  OBVIOUS
<1>4. Sound(first) /\ first.assets = <<a>> /\ first.checksum = <<>>
  <2>1. AllocateLump.total_size + Size[a] <= MaxLumpSize
    BY <1>2, AllocatedSound
  <2> QED BY <2>1, <1>3, AllocatedSound, AppendedSound
<1>5. Len(<<a>>) = 1 /\ DOMAIN <<a>> = 1..1 /\ <<a>>[1] = a
  OBVIOUS
<1>6. first \in Lump
  BY <1>4 DEF Sound
<1>7. CASE lumps = <<>>
  <2>1. new = <<first>>
    BY <1>7, <1>3 DEF Packing
  <2>2. new \in Seq(Lump) /\ DOMAIN new = {1} /\ new[1] = first /\ DOMAIN lumps = {}
    BY <2>1, <1>6, <1>7
  <2>3. Put(new, 1, a)
    BY <2>2, <1>4, <1>5 DEF Put
  <2> QED BY <2>2, <2>3, <1>4
<1>8. CASE lumps # <<>> /\ lumps[last].total_size + Size[a] > MaxLumpSize
  <2>1. PICK launched : launched = [lumps EXCEPT ![last] = LaunchFinalizer(@)]
    OBVIOUS
  <2>2. last \in 1..last /\ Sound(lumps[last])
    BY <1>1, <1>8
  <2>3. /\ Sound(LaunchFinalizer(lumps[last])) /\ LaunchFinalizer(lumps[last]) \in Lump
    BY <2>2, LaunchedSound DEF Sound
  <2>4. /\ launched \in Seq(Lump) /\ Len(launched) = last /\ DOMAIN launched = 1..last
        /\ launched[last] = LaunchFinalizer(lumps[last])
        /\ \A i \in 1..last : i # last => launched[i] = lumps[i]
    BY <1>1, <2>1, <2>2, <2>3, ExceptSeq
  <2>5. \A i \in 1..last :
          /\ Sound(launched[i])
          /\ launched[i].assets = lumps[i].assets /\ launched[i].checksum = lumps[i].checksum
          /\ launched[i].total_size = lumps[i].total_size
    BY <1>1, <2>2, <2>3, <2>4, LaunchedSound
  <2>6. new = Append(launched, first)
    BY <1>3, <1>8, <2>1 DEF Packing
  <2> HIDE DEF last
  <2>7. /\ new \in Seq(Lump) /\ DOMAIN new = 1..(last + 1) /\ new[last + 1] = first
        /\ \A i \in 1..last : new[i] = launched[i]
    BY <2>4, <2>6, <1>6, <1>1
  <2>8. \A i \in DOMAIN new : Sound(new[i])
    BY <2>5, <2>7, <1>1, <1>4
  <2>9. DOMAIN new = DOMAIN lumps \cup {last + 1} /\ last + 1 \in DOMAIN new
    BY <2>7, <1>1
  <2>10. DOMAIN lumps \ {last + 1} \subseteq 1..last
    BY <1>1
  <2>11. Put(new, last + 1, a)
    BY <2>5, <2>7, <2>9, <2>10, <1>4, <1>5 DEF Put
  <2> QED BY <2>7, <2>8, <2>9, <2>11
<1>9. CASE lumps # <<>> /\ ~(lumps[last].total_size + Size[a] > MaxLumpSize)
  <2>1. lumps[last].thread = "none" /\ new = [lumps EXCEPT ![last] = Appended(@, a)]
    BY <1>9 DEF Packing
  <2>2. last \in 1..last /\ Sound(lumps[last]) /\ lumps[last] \in Lump
    BY <1>1, <1>9 DEF Sound
  <2>3. lumps[last].total_size + Size[a] <= MaxLumpSize
    <3>1. lumps[last].total_size \in Nat
      BY <2>2 DEF Lump
    <3> QED BY <3>1, <1>2, <1>9, BuilderAssumption DEF BuilderAssumption
  <2>4. PICK grown : grown = Appended(lumps[last], a)
    OBVIOUS
  <2>5. Sound(grown) /\ grown.assets = Append(lumps[last].assets, a) /\ grown.checksum = <<>>
    BY <2>1, <2>2, <2>3, <2>4, AppendedSound
  <2>6. grown \in Lump /\ lumps[last].assets \in Seq(Assets)
    BY <2>2, <2>5 DEF Sound, Lump
  <2>7. /\ new \in Seq(Lump) /\ DOMAIN new = 1..last /\ new[last] = grown
        /\ \A i \in 1..last : i # last => new[i] = lumps[i]
    <3>1. new = [lumps EXCEPT ![last] = grown]
      BY <2>1, <2>4
    <3>2. /\ new \in Seq(Lump) /\ Len(new) = Len(lumps)
          /\ \A i \in 1..Len(lumps) : new[i] = IF i = last THEN grown ELSE lumps[i]
      BY <1>1, <2>2, <2>6, <3>1, ExceptSeq
    <3> HIDE DEF last
    <3>3. DOMAIN new = 1..Len(new)
      BY <3>2
    <3> QED BY <1>1, <2>2, <3>2, <3>3 DEF last
  <2> HIDE DEF last
  <2>8. \A i \in DOMAIN new : Sound(new[i])
    BY <2>5, <2>7, <1>1
  <2>9. \A j \in DOMAIN grown.assets :
          \/ grown.assets[j] = a /\ j = Len(grown.assets)
          \/ j \in DOMAIN lumps[last].assets /\ grown.assets[j] = lumps[last].assets[j]
    BY <2>5, <2>6
  <2>10. Put(new, last, a)
    BY <2>2, <2>5, <2>7, <2>9, <1>1 DEF Put
  <2> QED BY <2>2, <2>7, <2>8, <2>10
<1> QED BY <1>7, <1>8, <1>9

\* As long as the bundler runs, no bundle is whole.
LEMMA BusyBuilder ==
  ASSUME BuildInv, bpc # "idle", UNCHANGED <<registry, whole>>
  PROVE  RegistrySound'
BY DEF BuildInv, BuildTypes, RegistrySound

LEMMA ConvertKeeps ==
  ASSUME BuildInv, NEW a \in Assets, ConvertAsset(a)
  PROVE  BuildInv'
<1>1. bpc = "adding" /\ UNCHANGED <<bpc, files, registry, builds, whole>> /\ AddAsset(a)
  BY DEF ConvertAsset
<1>2. RegistrySound'
  BY <1>1, BusyBuilder
<1>3. CASE lumps' = lumps
  <2>1. UNCHANGED <<bpc, lumps, files, whole>>
    BY <1>1, <1>3
  <2> QED BY <2>1, <1>2 DEF BuildInv, BuildTypes, LumpsSound, OnceInLumps, Written, Fits
<1>4. CASE lumps' # lumps
  <2>1. ~Refused(a) /\ lumps' = Packing(a) /\ Packing(a) # lumps
    BY <1>1, <1>4 DEF AddAsset
  <2>2. PICK new : new = Packing(a)
    OBVIOUS
  <2>3. /\ new \in Seq(Lump) /\ \A i \in DOMAIN new : Sound(new[i])
        /\ \E m \in DOMAIN new : Put(new, m, a)
    BY <2>1, <2>2, PackedInto
  <2>4. PICK m \in DOMAIN new : Put(new, m, a)
    BY <2>3
  <2>5. \A i \in DOMAIN lumps : \A j \in DOMAIN lumps[i].assets :
          IdOf[lumps[i].assets[j]] # IdOf[a]
    BY <2>1 DEF Refused, UsedIds
  <2>6. lumps' = new
    BY <2>1, <2>2
  <2>7. BuildTypes'
    BY <1>1, <2>3, <2>6 DEF BuildInv, BuildTypes
  <2>8. LumpsSound'
    BY <2>3, <2>6 DEF LumpsSound
  <2>9. OnceInLumps'
    <3>1. SUFFICES ASSUME NEW i \in DOMAIN new, NEW k \in DOMAIN new,
                          NEW j \in DOMAIN new[i].assets, NEW l \in DOMAIN new[k].assets,
                          IdOf[new[i].assets[j]] = IdOf[new[k].assets[l]]
                   PROVE  i = k /\ j = l
      BY <2>6 DEF OnceInLumps
    <3>2. /\ \/ i = m /\ new[i].assets[j] = a /\ j = Len(new[m].assets)
             \/ /\ i \in DOMAIN lumps /\ j \in DOMAIN lumps[i].assets
                /\ new[i].assets[j] = lumps[i].assets[j]
          /\ \/ k = m /\ new[k].assets[l] = a /\ l = Len(new[m].assets)
             \/ /\ k \in DOMAIN lumps /\ l \in DOMAIN lumps[k].assets
                /\ new[k].assets[l] = lumps[k].assets[l]
      BY <2>4 DEF Put
    <3> QED BY <3>1, <3>2, <2>5 DEF BuildInv, OnceInLumps
  <2>10. Written'
    <3>1. SUFFICES ASSUME NEW i \in DOMAIN new, new[i].checksum # <<>>
                   PROVE  Fits(i, new[i].total_size, new[i].checksum)
      BY <2>6, <1>1 DEF Written, Fits
    <3>2. /\ i \in DOMAIN lumps /\ new[i].checksum = lumps[i].checksum
          /\ new[i].total_size = lumps[i].total_size
      BY <3>1, <2>4 DEF Put
    <3> QED BY <3>1, <3>2 DEF BuildInv, Written
  <2> QED BY <1>2, <2>7, <2>8, <2>9, <2>10 DEF BuildInv
<1> QED BY <1>3, <1>4

\* What a finalizer makes of its lump, and the file it writes.
LEMMA Finalized ==
  ASSUME NEW lump, Sound(lump), lump.thread \in {"running", "writing"}
  PROVE  LET ok == [lump EXCEPT !.thread = "done", !.total_size = FileSize(lump),
                                !.checksum = <<lump.data>>]
             file == [data |-> lump.data, size |-> FileSize(lump), contents |-> lump.total_size]
         IN  /\ Sound(ok) /\ ok.assets = lump.assets
             /\ ok.checksum = <<lump.data>> /\ ok.total_size = FileSize(lump)
             /\ file \in File /\ Extends(file.data, file.contents)
<1> DEFINE ok == [lump EXCEPT !.thread = "done", !.total_size = FileSize(lump),
                              !.checksum = <<lump.data>>]
           file == [data |-> lump.data, size |-> FileSize(lump), contents |-> lump.total_size]
<1>1. /\ lump \in Lump /\ lump.assets \in Seq(Assets) /\ lump.data \in Data
      /\ lump.total_size \in Nat /\ lump.checksum = <<>>
  BY DEF Sound, Lump
<1>2. PICK off : Offsets(lump, off)
  BY DEF Sound
<1>3. /\ Laid(lump.assets, lump.data, off) /\ lump.total_size = off[Len(lump.assets) + 1]
      /\ lump.total_size <= MaxLumpSize /\ Extends(lump.data, lump.total_size)
  BY <1>2 DEF Offsets, Laid
<1>4. FileSize(lump) \in Nat
  BY <1>1, <1>3, BuilderAssumption DEF BuilderAssumption, FileSize
<1>5. /\ ok \in Lump /\ ok.assets = lump.assets /\ ok.data = lump.data
      /\ ok.thread = "done" /\ ok.checksum = <<lump.data>> /\ ok.total_size = FileSize(lump)
  BY <1>1, <1>4 DEF Lump, Checksums
<1>6. file \in File /\ Extends(file.data, file.contents)
  BY <1>1, <1>3, <1>4 DEF File
<1> HIDE DEF ok, file
<1>7. Sound(ok)
  BY <1>3, <1>5 DEF Sound, Offsets
<1> QED BY <1>5, <1>6, <1>7 DEF ok, file

\* A finalizer that only gets further, or gives up.
LEMMA Threaded ==
  ASSUME NEW lump, Sound(lump), lump.thread = "running", NEW thread \in {"writing", "done"}
  PROVE  LET new == [lump EXCEPT !.thread = thread]
         IN  Sound(new) /\ new.assets = lump.assets /\ new.checksum = <<>>
<1> DEFINE new == [lump EXCEPT !.thread = thread]
<1>1. lump \in Lump /\ lump.checksum = <<>>
  BY DEF Sound
<1>2. PICK off : Offsets(lump, off)
  BY DEF Sound
<1>3. /\ new \in Lump /\ new.assets = lump.assets /\ new.data = lump.data
      /\ new.total_size = lump.total_size /\ new.thread = thread /\ new.checksum = <<>>
  BY <1>1 DEF Lump
<1> HIDE DEF new
<1>4. Offsets(new, off)
  BY <1>2, <1>3 DEF Offsets
<1> QED BY <1>3, <1>4 DEF Sound, new

\* A step that leaves the assets where they are, and the checksums, or writes
\* what it hashed.
LEMMA SameAssets ==
  ASSUME BuildInv, lumps' \in Seq(Lump), DOMAIN lumps' = DOMAIN lumps,
         \A i \in DOMAIN lumps : lumps'[i].assets = lumps[i].assets
  PROVE  OnceInLumps'
BY DEF BuildInv, OnceInLumps

\* A step of the finalizer of one lump, which writes its file or does not.
LEMMA ThreadKeeps ==
  ASSUME BuildInv, NEW i \in DOMAIN lumps, NEW new, NEW file,
         lumps[i].thread # "none", lumps[i].thread # "done",
         lumps' = [lumps EXCEPT ![i] = new], Sound(new), new.assets = lumps[i].assets,
         \/ files' = files
         \/ files' = With(files, i, file) /\ file \in File /\ Extends(file.data, file.contents),
         new.checksum # <<>> => /\ i \in DOMAIN files' /\ files'[i].size = new.total_size
                                /\ <<files'[i].data>> = new.checksum,
         UNCHANGED <<bpc, registry, whole>>
  PROVE  BuildInv'
<1>1. /\ lumps \in Seq(Lump) /\ DOMAIN lumps = 1..Len(lumps) /\ Sound(lumps[i])
      /\ bpc # "idle" /\ bpc \in {"adding", "joining"} /\ new \in Lump
  BY DEF BuildInv, BuildTypes, LumpsSound, Sound
<1>2. RegistrySound'
  BY <1>1, BusyBuilder
<1>3. /\ lumps' \in Seq(Lump) /\ DOMAIN lumps' = DOMAIN lumps /\ lumps'[i] = new
      /\ \A k \in DOMAIN lumps : k # i => lumps'[k] = lumps[k]
  BY <1>1, ExceptSeq
<1>4. /\ \A k \in DOMAIN files : k # i => k \in DOMAIN files' /\ files'[k] = files[k]
      /\ \A k \in DOMAIN files' : \/ k \in DOMAIN files /\ files'[k] = files[k]
                                  \/ files'[k] = file /\ file \in File
                                     /\ Extends(file.data, file.contents)
  BY WithDef DEF With
<1>5. BuildTypes'
  BY <1>1, <1>3, <1>4 DEF BuildInv, BuildTypes
<1>6. LumpsSound'
  BY <1>3 DEF BuildInv, LumpsSound
<1>7. OnceInLumps'
  BY <1>3, SameAssets
<1>8. Written'
  BY <1>3, <1>4 DEF BuildInv, Written, Fits
<1> QED BY <1>2, <1>5, <1>6, <1>7, <1>8 DEF BuildInv

LEMMA CutShortFile == CutShort \in File /\ Extends(CutShort.data, CutShort.contents)
BY NoData DEF CutShort, File, Extends

LEMMA FinalizeKeeps ==
  ASSUME BuildInv, NEW i \in DOMAIN lumps, FinalizeLump(i)
  PROVE  BuildInv'
<1> DEFINE writing == [lumps[i] EXCEPT !.thread = "writing"]
           done == [lumps[i] EXCEPT !.thread = "done"]
<1>1. Sound(lumps[i]) /\ lumps[i].thread = "running" /\ UNCHANGED <<bpc, registry, whole>>
  BY DEF FinalizeLump, BuildInv, LumpsSound
<1>2. /\ Sound(writing) /\ writing.assets = lumps[i].assets /\ writing.checksum = <<>>
      /\ Sound(done) /\ done.assets = lumps[i].assets /\ done.checksum = <<>>
  BY <1>1, Threaded
<1>3. \/ lumps' = [lumps EXCEPT ![i] = writing] /\ files' = With(files, i, CutShort)
      \/ lumps' = [lumps EXCEPT ![i] = done] /\ files' = files
  BY DEF FinalizeLump
<1> HIDE DEF writing, done
<1> QED BY <1>1, <1>2, <1>3, CutShortFile, ThreadKeeps

LEMMA WriteLumpKeeps ==
  ASSUME BuildInv, NEW i \in DOMAIN lumps, WriteLump(i)
  PROVE  BuildInv'
<1> DEFINE lump == lumps[i]
           ok == [lump EXCEPT !.thread = "done", !.total_size = FileSize(lump),
                              !.checksum = <<lump.data>>]
           file == [data |-> lump.data, size |-> FileSize(lump), contents |-> lump.total_size]
<1>1. Sound(lump) /\ lump.thread = "writing" /\ UNCHANGED <<bpc, registry, whole>>
  BY DEF WriteLump, BuildInv, LumpsSound
<1>2. /\ Sound(ok) /\ ok.assets = lump.assets
      /\ ok.checksum = <<lump.data>> /\ ok.total_size = FileSize(lump)
      /\ file \in File /\ Extends(file.data, file.contents)
  BY <1>1, Finalized
<1>3. lumps' = [lumps EXCEPT ![i] = ok] /\ files' = With(files, i, file)
  BY DEF WriteLump
<1>4. file.data = lump.data /\ file.size = FileSize(lump)
  OBVIOUS
<1> HIDE DEF ok, file, lump
<1>5. /\ i \in DOMAIN files' /\ files'[i].size = ok.total_size
      /\ <<files'[i].data>> = ok.checksum
  <2>1. i \in DOMAIN files' /\ files'[i] = file
    BY <1>3 DEF With
  <2>2. ok.total_size = FileSize(lump) /\ ok.checksum = <<lump.data>>
    BY <1>2
  <2> QED BY <1>4, <2>1, <2>2
<1>6. lumps[i].thread # "none" /\ lumps[i].thread # "done" /\ ok.assets = lumps[i].assets
  BY <1>1, <1>2 DEF lump
<1> QED BY <1>1, <1>2, <1>3, <1>5, <1>6, ThreadKeeps

LEMMA BuildBundleKeeps ==
  ASSUME BuildInv, BuildBundle
  PROVE  BuildInv'
<1>1. /\ bpc = "adding" /\ bpc' = "joining" /\ UNCHANGED <<files, registry, whole>>
      /\ lumps' = [i \in DOMAIN lumps |-> LaunchFinalizer(lumps[i])]
  BY DEF BuildBundle
<1>2. RegistrySound'
  BY <1>1, BusyBuilder
<1>3. /\ lumps \in Seq(Lump) /\ Len(lumps) \in Nat /\ DOMAIN lumps = 1..Len(lumps)
      /\ \A i \in DOMAIN lumps : Sound(lumps[i])
  BY DEF BuildInv, BuildTypes, LumpsSound
<1>4. \A i \in DOMAIN lumps :
        /\ Sound(lumps'[i]) /\ lumps'[i].assets = lumps[i].assets
        /\ lumps'[i].checksum = lumps[i].checksum
        /\ lumps'[i].total_size = lumps[i].total_size
  BY <1>1, <1>3, LaunchedSound
<1>5. DOMAIN lumps' = DOMAIN lumps
  BY <1>1
<1>6. \A i \in DOMAIN lumps : LaunchFinalizer(lumps[i]) \in Lump
  BY <1>3, LaunchedSound DEF Sound
<1>7. lumps' \in Seq(Lump)
  BY <1>1, <1>3, <1>6
<1>8. BuildTypes'
  BY <1>1, <1>7 DEF BuildInv, BuildTypes
<1>9. LumpsSound'
  BY <1>4, <1>5 DEF LumpsSound
<1>10. OnceInLumps'
  BY <1>4, <1>5, <1>7, SameAssets
<1>11. Written'
  BY <1>1, <1>4, <1>5 DEF BuildInv, Written, Fits
<1> QED BY <1>2, <1>8, <1>9, <1>10, <1>11 DEF BuildInv

LEMMA ListedDef ==
  ASSUME NEW assets
  PROVE  /\ DOMAIN Listed(assets) = DOMAIN assets
         /\ \A j \in DOMAIN assets : /\ Listed(assets)[j].id = IdOf[assets[j]]
                                     /\ Listed(assets)[j].size = Size[assets[j]]
BY DEF Listed

\* What the registry says of a lump.
LEMMA Entered ==
  ASSUME NEW lump, Sound(lump)
  PROVE  /\ LumpEntry(lump) \in Entry
         /\ LumpEntry(lump).assets = Listed(lump.assets)
         /\ LumpEntry(lump).file_size = lump.total_size
         /\ LumpEntry(lump).checksum = lump.checksum
         /\ \E assets, data, off : Describes(LumpEntry(lump), assets, data, off)
<1>1. /\ lump \in Lump /\ lump.assets \in Seq(Assets) /\ lump.data \in Data
      /\ lump.total_size \in Nat /\ lump.checksum \in Checksums
  BY DEF Sound, Lump
<1>2. /\ LumpEntry(lump).assets = Listed(lump.assets)
      /\ LumpEntry(lump).file_size = lump.total_size
      /\ LumpEntry(lump).checksum = lump.checksum
      /\ LumpEntry(lump) = [file_size |-> lump.total_size, checksum |-> lump.checksum,
                            assets |-> Listed(lump.assets)]
  BY DEF LumpEntry, Listed
<1>3. \A j \in DOMAIN lump.assets :
        [id |-> IdOf[lump.assets[j]], size |-> Size[lump.assets[j]]] \in [id : Ids, size : Nat]
  <2>1. \A j \in DOMAIN lump.assets : lump.assets[j] \in Assets
    BY <1>1
  <2>2. \A a \in Assets : IdOf[a] \in Ids /\ Size[a] \in Nat
    BY BuilderAssumption DEF BuilderAssumption
  <2> QED BY <2>1, <2>2
<1>4. Listed(lump.assets) \in Seq([id : Ids, size : Nat])
  <2>1. DOMAIN lump.assets = 1..Len(lump.assets) /\ Len(lump.assets) \in Nat
    BY <1>1
  <2> QED BY <1>3, <2>1 DEF Listed
<1>5. LumpEntry(lump) \in Entry
  BY <1>1, <1>2, <1>4 DEF Entry
<1>6. PICK off : Offsets(lump, off)
  BY DEF Sound
<1>7. Describes(LumpEntry(lump), lump.assets, lump.data, off)
  BY <1>1, <1>2, <1>6 DEF Describes, Offsets, Sound
<1> QED BY <1>2, <1>5, <1>7

LEMMA WriteKeeps ==
  ASSUME BuildInv, WriteRegistry
  PROVE  BuildInv'
<1> DEFINE list == [i \in DOMAIN lumps |-> LumpEntry(lumps[i])]
<1>1. PICK reg : /\ reg = [lumps |-> list, exports |-> Exports]
                 /\ registry' = <<reg>>
  BY DEF WriteRegistry
<1>2. /\ bpc' = "idle" /\ lumps' = <<>> /\ files' = files
      /\ whole' = (\A i \in DOMAIN lumps : lumps[i].checksum # <<>>)
  BY DEF WriteRegistry
<1>3. /\ lumps \in Seq(Lump) /\ Len(lumps) \in Nat /\ DOMAIN lumps = 1..Len(lumps)
      /\ \A i \in DOMAIN lumps : Sound(lumps[i])
  BY DEF BuildInv, BuildTypes, LumpsSound
<1>4. registry' # <<>> /\ registry'[1].lumps = list /\ registry'[1].exports = Exports
  BY <1>1
<1>5. DOMAIN list = DOMAIN lumps
  OBVIOUS
<1>6. \A i \in DOMAIN lumps :
        /\ list[i] \in Entry /\ list[i].assets = Listed(lumps[i].assets)
        /\ list[i].file_size = lumps[i].total_size /\ list[i].checksum = lumps[i].checksum
        /\ \E assets, data, off : Describes(list[i], assets, data, off)
  <2>1. \A i \in DOMAIN lumps : list[i] = LumpEntry(lumps[i])
    OBVIOUS
  <2> HIDE DEF list
  <2> QED BY <1>3, <2>1, Entered
<1>7. \A i \in DOMAIN lumps :
        /\ DOMAIN list[i].assets = DOMAIN lumps[i].assets
        /\ \A j \in DOMAIN lumps[i].assets : list[i].assets[j].id = IdOf[lumps[i].assets[j]]
  <2> HIDE DEF list
  <2> SUFFICES ASSUME NEW i \in DOMAIN lumps
               PROVE  /\ DOMAIN list[i].assets = DOMAIN lumps[i].assets
                      /\ \A j \in DOMAIN lumps[i].assets :
                           list[i].assets[j].id = IdOf[lumps[i].assets[j]]
    OBVIOUS
  <2>1. list[i].assets = Listed(lumps[i].assets)
    BY <1>6
  <2> QED BY <2>1, ListedDef
<1>8. list \in Seq(Entry)
  BY <1>3, <1>6
<1> HIDE DEF list
<1>9. Once(list)
  BY <1>5, <1>7 DEF BuildInv, OnceInLumps, Once
<1>10. Coherent(list)
  BY <1>5, <1>6, <1>8, <1>9 DEF Coherent
<1>11. Exporting(Exports, list)
  <2>1. SUFFICES ASSUME NEW id \in UsedIds PROVE Has(list, id)
    BY DEF Exporting, Exports
  <2>2. PICK i \in DOMAIN lumps : \E j \in DOMAIN lumps[i].assets : IdOf[lumps[i].assets[j]] = id
    BY DEF UsedIds
  <2> QED BY <2>2, <1>5, <1>7 DEF Has
<1>12. whole' => \A i \in DOMAIN list :
                    /\ i \in DOMAIN files' /\ files'[i].size = list[i].file_size
                    /\ <<files'[i].data>> = list[i].checksum
  <2>1. \A i \in DOMAIN lumps : lumps[i].checksum # <<>>
                                => Fits(i, list[i].file_size, list[i].checksum)
    BY <1>5, <1>6 DEF BuildInv, Written
  <2> QED BY <1>2, <1>5, <2>1 DEF Fits
<1>13. RegistrySound'
  BY <1>4, <1>10, <1>11, <1>12 DEF RegistrySound, Fits
<1>14. /\ lumps' \in Seq(Lump) /\ DOMAIN lumps' = {}
  BY <1>2
<1>15. BuildTypes'
  BY <1>2, <1>14 DEF BuildInv, BuildTypes
<1> QED BY <1>13, <1>14, <1>15 DEF BuildInv, LumpsSound, OnceInLumps, Written

\* The lumps are gone, and with them what was to be said of them.
LEMMA EmptyKeeps ==
  ASSUME BuildTypes', RegistrySound', lumps' = <<>>
  PROVE  BuildInv'
<1>1. DOMAIN lumps' = {}
  OBVIOUS
<1> QED BY <1>1 DEF BuildInv, LumpsSound, OnceInLumps, Written

LEMMA StartKeeps ==
  ASSUME BuildInv, StartBundler
  PROVE  BuildInv'
<1>1. /\ bpc' = "adding" /\ ~whole' /\ lumps' = <<>> /\ lumps' \in Seq(Lump)
      /\ UNCHANGED <<files, registry>>
  BY DEF StartBundler
<1>2. BuildTypes'
  BY <1>1 DEF BuildInv, BuildTypes
<1>3. RegistrySound'
  BY <1>1 DEF BuildInv, RegistrySound
<1> QED BY <1>1, <1>2, <1>3, EmptyKeeps

LEMMA InterruptKeeps ==
  ASSUME BuildInv, Interrupt
  PROVE  BuildInv'
<1>1. /\ bpc' = "idle" /\ ~whole' /\ lumps' = <<>> /\ lumps' \in Seq(Lump) /\ files' = files
      /\ registry' = registry \/ registry' = <<>>
  BY DEF Interrupt, BuildInv, BuildTypes
<1>2. BuildTypes'
  BY <1>1 DEF BuildInv, BuildTypes
<1>3. RegistrySound'
  BY <1>1 DEF BuildInv, RegistrySound
<1> QED BY <1>1, <1>2, <1>3, EmptyKeeps

\* The bundler keeps its invariant, and wakes no bundle that was whole.
LEMMA BuilderKeeps ==
  ASSUME BuildInv, BuildNext
  PROVE  BuildInv'
BY StartKeeps, ConvertKeeps, FinalizeKeeps, WriteLumpKeeps, BuildBundleKeeps, WriteKeeps,
   InterruptKeeps
   DEF BuildNext

LEMMA BuilderRests ==
  ASSUME BuildInv, BuildNext, bpc = "idle"
  PROVE  bpc' # "idle"
<1>1. DOMAIN lumps = {}
  BY DEF BuildInv, BuildTypes
<1> QED BY <1>1 DEF BuildNext, StartBundler, ConvertAsset, BuildBundle, WriteRegistry, Interrupt

LEMMA BuilderBegins == BuildInit => BuildInv
<1> SUFFICES ASSUME BuildInit PROVE BuildInv
  OBVIOUS
<1>1. lumps = <<>> /\ lumps \in Seq(Lump) /\ DOMAIN lumps = {} /\ DOMAIN files = {}
  BY DEF BuildInit
<1>2. BuildTypes /\ RegistrySound
  BY <1>1 DEF BuildInit, BuildTypes, RegistrySound
<1> QED BY <1>1, <1>2 DEF BuildInv, LumpsSound, OnceInLumps, Written
-----------------------------------------------------------------------------
(* The loader                                                              *)
Cached ==
  [lump : {"none", "loaded", "bad"}, data : Data, loaded_size : Nat, file_size : Nat,
   checksum : Checksums]

LookupEntry == [lump_index : Nat, offset : Nat, size : Nat]

\* Where a lookup entry points to, in the only lump that has this checksum,
\* there is an asset with its id.
Placed(id, entry, checksum) ==
  \A d \in Data : checksum = <<d>> =>
    /\ entry.offset \in DOMAIN d
    /\ IdOf[d[entry.offset]] = id /\ Size[d[entry.offset]] = entry.size

\* The loop over lumps has been there.
Past(i, j) == i < lump_index \/ (i = lump_index /\ j < asset_index)

\* loadRegistry adds up what the builder added up.
Offset ==
  lump_index <= Len(entries) =>
    \E assets, data, off :
      /\ Describes(entries[lump_index], assets, data, off)
      /\ asset_index \in 1..(Len(assets) + 1) /\ asset_offset = off[asset_index]

Counting ==
  /\ Coherent(entries)
  /\ lump_index \in 1..(Len(entries) + 1)
  /\ lump_index > Len(entries) => asset_index = 1 /\ asset_offset = 0
  /\ Len(lump_cache) = lump_index - 1
  /\ \A i \in DOMAIN lump_cache :
       /\ lump_cache[i].checksum = entries[i].checksum
       /\ lump_cache[i].file_size = entries[i].file_size

\* What has been looked up so far is all there is to look up, and no more.
Registered ==
  /\ \A id \in DOMAIN asset_lookup :
       /\ asset_lookup[id] \in LookupEntry
       /\ \E i \in DOMAIN entries : \E j \in DOMAIN entries[i].assets :
            /\ Past(i, j) /\ entries[i].assets[j].id = id
            /\ asset_lookup[id].lump_index = i
            /\ Placed(id, asset_lookup[id], entries[i].checksum)
  /\ \A i \in DOMAIN entries : \A j \in DOMAIN entries[i].assets :
       Past(i, j) => entries[i].assets[j].id \in DOMAIN asset_lookup

\* Files of a whole bundle nobody has touched.
Expected ==
  fresh /\ untouched =>
    \A i \in DOMAIN entries : Fits(i, entries[i].file_size, entries[i].checksum)

FitsCache(i) == Fits(i, lump_cache[i].file_size, lump_cache[i].checksum)

\* The loops are over: every lookup entry points into a lump of the cache.
LookedUp ==
  /\ asset_index = 1 /\ asset_offset = 0
  /\ \A id \in DOMAIN asset_lookup :
       /\ asset_lookup[id] \in LookupEntry
       /\ asset_lookup[id].lump_index \in DOMAIN lump_cache
       /\ Placed(id, asset_lookup[id], lump_cache[asset_lookup[id].lump_index].checksum)
  /\ \A alias \in DOMAIN bundle_exports : bundle_exports[alias] \in DOMAIN asset_lookup

Unread == \A i \in DOMAIN lump_cache : lump_cache[i].lump = "none"

\* Where loadAsset may be called, or has been.
Serving == {"ready", "lumphash", "lumpdata", "crashed"}

LoadTypes ==
  /\ lpc \in {"off", "lumps", "files", "filehash"} \cup Serving
  /\ lump_cache \in Seq(Cached)
  /\ untouched => bpc = "idle" /\ raced = {}
  /\ lpc \notin Serving => raced = {}

OffInv ==
  lpc = "off" =>
    /\ lump_index = 1 /\ asset_index = 1 /\ asset_offset = 0
    /\ asset_lookup = <<>> /\ lump_cache = <<>>

LumpsInv == lpc = "lumps" => Counting /\ Offset /\ Registered /\ Unread /\ Expected
                             /\ Exporting(bundle_exports, entries)

FilesInv ==
  lpc \in {"files", "filehash"} =>
    /\ LookedUp /\ Unread
    /\ lump_index \in 1..(Len(lump_cache) + 1)
    /\ \A i \in 1..(lump_index - 1) : i \in DOMAIN files /\ (untouched => FitsCache(i))
    /\ fresh /\ untouched => \A i \in DOMAIN lump_cache : FitsCache(i)

\* The file whose hash is due has the right size, if nobody has touched it since.
HashDue ==
  lpc = "filehash" =>
    /\ lump_index <= Len(lump_cache) /\ lump_index \in DOMAIN files
    /\ untouched => AssertFileSize(lump_index)

\* A lump that was read is the one the registry describes.
Whole(lump) == lump.checksum = <<lump.data>> /\ Extends(lump.data, lump.loaded_size)

ServingInv ==
  lpc \in Serving =>
    /\ LookedUp /\ lump_index = 1
    /\ \A i \in DOMAIN lump_cache :
         /\ i \in DOMAIN files
         /\ lump_cache[i].lump = "loaded" /\ i \notin raced => Whole(lump_cache[i])
         /\ untouched => FitsCache(i) /\ lump_cache[i].lump # "bad"

\* Between the steps of loadAsset: a file whose hash was right is as it was.
ReadingInv ==
  /\ lpc \in {"lumphash", "lumpdata"} =>
       request.id \in DOMAIN asset_lookup /\ request.answer = "none"
  /\ lpc = "lumpdata" /\ Wanted \notin raced => AssertHash(Wanted)

AnswerInv ==
  /\ lpc \notin Serving => request = NoRequest
  /\ AssetsHaveTheirIds /\ IntactBundlesServe

LoadInv ==
  /\ LoadTypes /\ OffInv /\ LumpsInv /\ FilesInv /\ HashDue
  /\ ServingInv /\ ReadingInv /\ AnswerInv /\ BuiltBundlesLoad

BundleInv == BuildInv /\ LoadInv
-----------------------------------------------------------------------------
LEMMA EntriesElim ==
  ASSUME NEW list, Coherent(list)
  PROVE  /\ list \in Seq(Entry) /\ Len(list) \in Nat /\ DOMAIN list = 1..Len(list)
         /\ \A i \in DOMAIN list :
              /\ list[i].file_size \in Nat /\ list[i].checksum \in Checksums
              /\ list[i].assets \in Seq([id : Ids, size : Nat])
              /\ Len(list[i].assets) \in Nat
              /\ DOMAIN list[i].assets = 1..Len(list[i].assets)
<1>1. list \in Seq(Entry) /\ Len(list) \in Nat /\ DOMAIN list = 1..Len(list)
  BY DEF Coherent
<1>2. ASSUME NEW i \in DOMAIN list
      PROVE  /\ list[i].file_size \in Nat /\ list[i].checksum \in Checksums
             /\ list[i].assets \in Seq([id : Ids, size : Nat])
             /\ Len(list[i].assets) \in Nat
             /\ DOMAIN list[i].assets = 1..Len(list[i].assets)
  <2>1. list[i] \in Entry
    BY <1>1
  <2>2. list[i].assets \in Seq([id : Ids, size : Nat])
    BY <2>1 DEF Entry
  <2> QED BY <2>1, <2>2 DEF Entry
<1> QED BY <1>1, <1>2

\* Every lump begins at offset 0.
LEMMA LumpBegins ==
  ASSUME NEW list, Coherent(list), NEW i \in DOMAIN list
  PROVE  \E assets, data, off : /\ Describes(list[i], assets, data, off)
                                /\ 1 \in 1..(Len(assets) + 1) /\ 0 = off[1]
<1>1. PICK assets, data, off : Describes(list[i], assets, data, off)
  BY DEF Coherent
<1>2. Len(assets) \in Nat /\ off[1] = 0
  BY <1>1 DEF Describes, Laid
<1> QED BY <1>1, <1>2

LEMMA FilesStay ==
  ASSUME BuildNext
  PROVE  DOMAIN files \subseteq DOMAIN files'
BY DEF BuildNext, StartBundler, ConvertAsset, FinalizeLump, WriteLump, BuildBundle,
       WriteRegistry, Interrupt, With

LEMMA BuildStep ==
  ASSUME BundleInv, Build
  PROVE  LoadInv'
<1>1. /\ UNCHANGED <<lpc, result, entries, lump_index, asset_index, asset_offset, asset_lookup,
                     lump_cache, bundle_exports, request>>
      /\ UNCHANGED fresh
  BY DEF Build, loadVars
<1>2. /\ ~untouched'
      /\ raced' = raced \cup (IF lpc = "lumpdata" /\ files'[Wanted] # files[Wanted]
                              THEN {Wanted} ELSE {})
  BY BuilderRests DEF Build, BundleInv, LoadInv, LoadTypes
<1>3. DOMAIN files \subseteq DOMAIN files' /\ Wanted' = Wanted
  BY <1>1, FilesStay DEF Build, Wanted
<1>4. LoadTypes' /\ OffInv'
  BY <1>1, <1>2 DEF BundleInv, LoadInv, LoadTypes, OffInv, Serving
<1>5. LumpsInv'
  BY <1>1, <1>2 DEF BundleInv, LoadInv, LumpsInv, Counting, Offset, Registered, Unread,
     Expected, Past
<1>6. FilesInv' /\ HashDue'
  BY <1>1, <1>2, <1>3 DEF BundleInv, LoadInv, FilesInv, HashDue, LookedUp, Unread
<1>7. ServingInv'
  BY <1>1, <1>2, <1>3 DEF BundleInv, LoadInv, ServingInv, LookedUp
<1>8. ReadingInv'
  <2>1. ASSUME lpc' = "lumpdata", Wanted' \notin raced'
        PROVE  AssertHash(Wanted)'
    <3>1. Wanted \notin raced /\ files'[Wanted] = files[Wanted]
      BY <2>1, <1>1, <1>2, <1>3
    <3> QED BY <2>1, <3>1, <1>1, <1>3 DEF BundleInv, LoadInv, ReadingInv, AssertHash
  <2> QED BY <2>1, <1>1 DEF BundleInv, LoadInv, ReadingInv
<1>9. AnswerInv' /\ BuiltBundlesLoad'
  BY <1>1, <1>2, <1>3 DEF BundleInv, LoadInv, AnswerInv, AssetsHaveTheirIds, IntactBundlesServe,
     BuiltBundlesLoad
<1> QED BY <1>4, <1>5, <1>6, <1>7, <1>8, <1>9 DEF LoadInv

\* Giving up is right, unless the bundle was whole and within the limits.
LEMMA FailStep ==
  ASSUME BundleInv, NEW reason, Fail(reason), lpc \in {"lumps", "files", "filehash"},
         fresh /\ untouched => BeyondLimits
  PROVE  LoadInv'
<1>1. /\ lpc' = "off" /\ lump_index' = 1 /\ asset_index' = 1 /\ asset_offset' = 0
      /\ asset_lookup' = <<>> /\ lump_cache' = <<>>
      /\ UNCHANGED <<entries, request, fresh, untouched, raced, bpc>>
  BY DEF Fail, buildVars
<1>2. lump_cache' \in Seq(Cached)
  BY <1>1
<1>3. LoadTypes' /\ OffInv' /\ LumpsInv' /\ FilesInv' /\ HashDue'
  BY <1>1, <1>2 DEF BundleInv, LoadInv, LoadTypes, OffInv, LumpsInv, FilesInv, HashDue, Serving
<1>4. ServingInv' /\ ReadingInv' /\ AnswerInv'
  BY <1>1 DEF BundleInv, LoadInv, ServingInv, ReadingInv, AnswerInv, Serving, NoRequest,
     AssetsHaveTheirIds, IntactBundlesServe
<1>5. BuiltBundlesLoad'
  BY <1>1 DEF BuiltBundlesLoad, BeyondLimits
<1> QED BY <1>3, <1>4, <1>5 DEF LoadInv

LEMMA LoadRegistryStep ==
  ASSUME BundleInv, LoadRegistry
  PROVE  LoadInv'
<1>1. /\ lpc = "off" /\ fresh' = whole /\ untouched' = (bpc = "idle")
      /\ UNCHANGED <<lump_index, asset_index, asset_offset, asset_lookup, lump_cache, request>>
      /\ UNCHANGED <<files, registry, bpc, raced>>
  BY DEF LoadRegistry, buildVars
<1>2. /\ lump_index = 1 /\ asset_index = 1 /\ asset_offset = 0
      /\ asset_lookup = <<>> /\ lump_cache = <<>> /\ request = NoRequest
      /\ DOMAIN asset_lookup = {} /\ DOMAIN lump_cache = {} /\ Len(lump_cache) = 0
  BY <1>1 DEF BundleInv, LoadInv, OffInv, AnswerInv, Serving
<1>3. RegistrySound
  BY DEF BundleInv, BuildInv
<1>4. AnswerInv' /\ LoadTypes'
  <2>1. lpc' \in {"off", "lumps"}
    BY <1>1 DEF LoadRegistry
  <2> QED BY <1>1, <1>2, <2>1
          DEF BundleInv, LoadInv, AnswerInv, AssetsHaveTheirIds, IntactBundlesServe, NoRequest,
              LoadTypes, Serving
<1>5. CASE registry = <<>>
  <2>1. lpc' = "off" /\ ~fresh'
    BY <1>1, <1>3, <1>5 DEF LoadRegistry, RegistrySound
  <2> QED BY <1>1, <1>2, <1>4, <2>1
          DEF LoadInv, OffInv, LumpsInv, FilesInv, HashDue, ServingInv, ReadingInv, Serving,
              BuiltBundlesLoad
<1>6. CASE registry # <<>> /\ Len(registry[1].lumps) > MaxLumps
  <2>1. lpc' = "off" /\ entries' = registry[1].lumps
    BY <1>1, <1>6 DEF LoadRegistry
  <2> QED BY <1>1, <1>2, <1>4, <1>6, <2>1
          DEF LoadInv, OffInv, LumpsInv, FilesInv, HashDue, ServingInv, ReadingInv, Serving,
              BuiltBundlesLoad, BeyondLimits
<1>7. CASE registry # <<>> /\ ~(Len(registry[1].lumps) > MaxLumps)
  <2> DEFINE list == registry[1].lumps
  <2>1. /\ lpc' = "lumps" /\ entries' = list /\ bundle_exports' = registry[1].exports
        /\ result' = "none"
    BY <1>1, <1>7 DEF LoadRegistry
  <2>2. /\ Coherent(list) /\ Exporting(registry[1].exports, list)
        /\ whole => \A i \in DOMAIN list : Fits(i, list[i].file_size, list[i].checksum)
    BY <1>3, <1>7 DEF RegistrySound
  <2>3. Len(list) \in Nat /\ DOMAIN list = 1..Len(list)
    BY <2>2 DEF Coherent
  <2> HIDE DEF list
  <2>4. Counting'
    BY <1>1, <1>2, <2>1, <2>2, <2>3 DEF Counting
  <2>5. Offset'
    <3>1. 1 <= Len(list) => 1 \in DOMAIN list
      BY <2>3
    <3> QED BY <1>1, <1>2, <2>1, <2>2, <3>1, LumpBegins DEF Offset
  <2>6. Registered'
    <3>1. \A i \in DOMAIN list : \A j \in DOMAIN list[i].assets : ~(i < 1 \/ (i = 1 /\ j < 1))
      <4> SUFFICES ASSUME NEW i \in DOMAIN list, NEW j \in DOMAIN list[i].assets
                   PROVE  i >= 1 /\ j >= 1
        BY <2>2, EntriesElim
      <4> QED BY <2>2, EntriesElim
    <3> QED BY <3>1, <1>1, <1>2, <2>1 DEF Registered, Past
  <2>7. Unread' /\ Expected'
    BY <1>1, <1>2, <2>1, <2>2 DEF Unread, Expected, Fits
  <2>8. LumpsInv'
    BY <2>1, <2>2, <2>4, <2>5, <2>6, <2>7 DEF LumpsInv
  <2> QED BY <1>4, <2>1, <2>8
          DEF LoadInv, OffInv, FilesInv, HashDue, ServingInv, ReadingInv, Serving,
              BuiltBundlesLoad
<1> QED BY <1>5, <1>6, <1>7

LEMMA TooManyAssetsStep ==
  ASSUME BundleInv, TooManyAssets
  PROVE  LoadInv'
<1>1. lpc = "lumps" /\ Fail("BadSize") /\ lump_index \in 1..Len(entries)
  BY DEF TooManyAssets, BundleInv, LoadInv, LumpsInv, Counting
<1>2. BeyondLimits
  <2>1. DOMAIN entries = 1..Len(entries)
    BY <1>1 DEF BundleInv, LoadInv, LumpsInv, Counting, Coherent
  <2> QED BY <1>1, <2>1 DEF TooManyAssets, BeyondLimits
<1> QED BY <1>1, <1>2, FailStep

\* The next asset of the lump that is looked up lies at asset_offset.
LEMMA NextAsset ==
  ASSUME Counting, Offset, lump_index <= Len(entries),
         asset_index <= Len(entries[lump_index].assets)
  PROVE  LET entry == entries[lump_index].assets[asset_index]
             place == [lump_index |-> lump_index, offset |-> asset_offset, size |-> entry.size]
         IN  /\ lump_index \in DOMAIN entries
             /\ asset_index \in DOMAIN entries[lump_index].assets
             /\ place \in LookupEntry
             /\ Placed(entry.id, place, entries[lump_index].checksum)
             /\ \E assets, data, off :
                  /\ Describes(entries[lump_index], assets, data, off)
                  /\ asset_index + 1 \in 1..(Len(assets) + 1)
                  /\ asset_offset + entry.size = off[asset_index + 1]
<1> DEFINE lump == entries[lump_index]
           entry == lump.assets[asset_index]
           place == [lump_index |-> lump_index, offset |-> asset_offset, size |-> entry.size]
<1>1. PICK assets, data, off :
        /\ Describes(lump, assets, data, off)
        /\ asset_index \in 1..(Len(assets) + 1) /\ asset_offset = off[asset_index]
  BY DEF Offset
<1>2. /\ lump_index \in Nat /\ lump_index \in DOMAIN entries
      /\ DOMAIN lump.assets = 1..Len(lump.assets) /\ Len(lump.assets) \in Nat
  BY EntriesElim DEF Counting
<1>3. /\ assets \in Seq(Assets) /\ data \in Data /\ lump.assets = Listed(assets)
      /\ lump.checksum \in {<<>>, <<data>>} /\ Laid(assets, data, off)
  BY <1>1 DEF Describes
<1>4. Len(assets) \in Nat /\ DOMAIN assets = 1..Len(assets)
  BY <1>3
<1>5. asset_index \in 1..Len(assets) /\ asset_index \in DOMAIN lump.assets
  <2>1. DOMAIN lump.assets = 1..Len(assets)
    BY <1>3, <1>4, ListedDef
  <2>2. Len(lump.assets) = Len(assets)
    BY <2>1, <1>2, <1>4
  <2> QED BY <1>1, <1>2, <2>1, <2>2, <1>4
<1>6. /\ entry.id = IdOf[assets[asset_index]] /\ entry.size = Size[assets[asset_index]]
      /\ entry.size \in Nat
  <2>1. assets[asset_index] \in Assets
    BY <1>3, <1>5
  <2> QED BY <2>1, <1>3, <1>4, <1>5, ListedDef, BuilderAssumption DEF BuilderAssumption
<1>7. /\ off[asset_index] \in DOMAIN data /\ data[off[asset_index]] = assets[asset_index]
      /\ off[asset_index + 1] = off[asset_index] + Size[assets[asset_index]]
      /\ off[asset_index] \in Nat
  BY <1>3, <1>4, <1>5 DEF Laid
<1>8. place \in LookupEntry
  BY <1>1, <1>2, <1>6, <1>7 DEF LookupEntry
<1>9. Placed(entry.id, place, lump.checksum)
  <2>1. ASSUME NEW d \in Data, lump.checksum = <<d>>
        PROVE  d = data
    BY <1>3, <2>1
  <2>2. place.offset = off[asset_index] /\ place.size = entry.size
    BY <1>1
  <2> QED BY <2>1, <2>2, <1>6, <1>7 DEF Placed
<1>10. asset_index + 1 \in 1..(Len(assets) + 1) /\ asset_offset + entry.size = off[asset_index + 1]
  BY <1>1, <1>4, <1>5, <1>6, <1>7
<1> QED BY <1>1, <1>2, <1>5, <1>8, <1>9, <1>10

LEMMA RegisterAssetStep ==
  ASSUME BundleInv, RegisterAsset
  PROVE  LoadInv'
<1> DEFINE lump == entries[lump_index]
           entry == lump.assets[asset_index]
           place == [lump_index |-> lump_index, offset |-> asset_offset, size |-> entry.size]
<1>1. /\ lpc = "lumps" /\ lump_index <= Len(entries) /\ asset_index <= Len(lump.assets)
      /\ LumpsInv
  BY DEF RegisterAsset, BundleInv, LoadInv
<1>2. Counting /\ Offset /\ Registered /\ Unread /\ Expected /\ Exporting(bundle_exports, entries)
  BY <1>1 DEF LumpsInv
<1>3. /\ lump_index \in DOMAIN entries /\ asset_index \in DOMAIN lump.assets
      /\ place \in LookupEntry /\ Placed(entry.id, place, lump.checksum)
  BY <1>1, <1>2, NextAsset
<1>4. PICK assets, data, off :
        /\ Describes(lump, assets, data, off)
        /\ asset_index + 1 \in 1..(Len(assets) + 1)
        /\ asset_offset + entry.size = off[asset_index + 1]
  BY <1>1, <1>2, NextAsset
<1>5. /\ DOMAIN entries = 1..Len(entries) /\ Len(entries) \in Nat
      /\ \A i \in DOMAIN entries : DOMAIN entries[i].assets = 1..Len(entries[i].assets)
  BY <1>2, EntriesElim DEF Counting
<1>6. asset_index \in Nat /\ lump_index \in Nat
  <2>1. Len(lump.assets) \in Nat
    BY <1>2, <1>3, EntriesElim DEF Counting
  <2> QED BY <2>1, <1>3, <1>5
<1>7. entry.id \notin DOMAIN asset_lookup
  <2>1. SUFFICES ASSUME entry.id \in DOMAIN asset_lookup PROVE FALSE
    OBVIOUS
  <2>2. PICK i \in DOMAIN entries : \E j \in DOMAIN entries[i].assets :
               Past(i, j) /\ entries[i].assets[j].id = entry.id
    BY <2>1, <1>2 DEF Registered
  <2>3. PICK j \in DOMAIN entries[i].assets : Past(i, j) /\ entries[i].assets[j].id = entry.id
    BY <2>2
  <2>4. i = lump_index /\ j = asset_index
    BY <2>3, <1>2, <1>3 DEF Counting, Coherent, Once
  <2> QED BY <2>3, <2>4, <1>6 DEF Past
<1>8. /\ asset_lookup' = With(asset_lookup, entry.id, place)
      /\ asset_offset' = asset_offset + entry.size /\ asset_index' = asset_index + 1
      /\ UNCHANGED <<lpc, result, entries, lump_index, lump_cache, bundle_exports, request,
                     fresh, untouched, raced, bpc, files>>
  BY <1>7 DEF RegisterAsset, buildVars
<1>9. /\ DOMAIN asset_lookup' = DOMAIN asset_lookup \cup {entry.id}
      /\ asset_lookup'[entry.id] = place
      /\ \A id \in DOMAIN asset_lookup : asset_lookup'[id] = asset_lookup[id]
  <2> HIDE DEF place, entry
  <2> QED BY <1>7, <1>8 DEF With
<1>10. Counting'
  BY <1>1, <1>2, <1>6, <1>8, <1>5 DEF Counting
<1>11. Offset'
  BY <1>4, <1>8 DEF Offset
<1>12. Registered'
  <2>1. \A i \in DOMAIN entries : \A j \in DOMAIN entries[i].assets :
          Past(i, j)' <=> Past(i, j) \/ (i = lump_index /\ j = asset_index)
    <3> SUFFICES ASSUME NEW i \in DOMAIN entries, NEW j \in DOMAIN entries[i].assets
                 PROVE  Past(i, j)' <=> Past(i, j) \/ (i = lump_index /\ j = asset_index)
      OBVIOUS
    <3>1. i \in Nat /\ j \in Nat
      BY <1>5, <1>2, EntriesElim DEF Counting
    <3> QED BY <3>1, <1>6, <1>8 DEF Past
  <2>2. ASSUME NEW id \in DOMAIN asset_lookup'
        PROVE  /\ asset_lookup'[id] \in LookupEntry
               /\ \E i \in DOMAIN entries : \E j \in DOMAIN entries[i].assets :
                    /\ Past(i, j)' /\ entries[i].assets[j].id = id
                    /\ asset_lookup'[id].lump_index = i
                    /\ Placed(id, asset_lookup'[id], entries[i].checksum)
    <3>1. CASE id = entry.id
      <4>1. PICK i \in DOMAIN entries : i = lump_index
        BY <1>3
      <4>2. PICK j \in DOMAIN entries[i].assets : j = asset_index
        BY <4>1, <1>3
      <4>3. asset_lookup'[id] = place /\ place.lump_index = i
        BY <3>1, <4>1, <1>9
      <4>4. Past(i, j)' /\ entries[i].assets[j].id = id
        BY <2>1, <3>1, <4>1, <4>2
      <4>5. place \in LookupEntry /\ Placed(id, place, entries[i].checksum)
        BY <1>3, <3>1, <4>1
      <4> HIDE DEF place
      <4> QED BY <4>3, <4>4, <4>5
    <3>2. CASE id # entry.id
      <4>1. id \in DOMAIN asset_lookup /\ asset_lookup'[id] = asset_lookup[id]
        BY <3>2, <1>9
      <4> QED BY <4>1, <2>1, <1>2 DEF Registered
    <3> QED BY <3>1, <3>2
  <2>3. ASSUME NEW i \in DOMAIN entries, NEW j \in DOMAIN entries[i].assets, Past(i, j)'
        PROVE  entries[i].assets[j].id \in DOMAIN asset_lookup'
    BY <2>1, <2>3, <1>2, <1>9 DEF Registered
  <2> QED BY <2>2, <2>3, <1>8 DEF Registered
<1>13. LumpsInv'
  BY <1>2, <1>8, <1>10, <1>11, <1>12 DEF LumpsInv, Unread, Expected, Fits
<1> QED BY <1>1, <1>8, <1>13
        DEF BundleInv, LoadInv, LoadTypes, OffInv, FilesInv, HashDue, ServingInv, ReadingInv,
            AnswerInv, Serving, NoRequest, AssetsHaveTheirIds, IntactBundlesServe,
            BuiltBundlesLoad, BeyondLimits

LEMMA CacheLumpStep ==
  ASSUME BundleInv, CacheLump
  PROVE  LoadInv'
<1> DEFINE lump == entries[lump_index]
           cached == [lump |-> "none", data |-> <<>>, loaded_size |-> 0,
                      file_size |-> lump.file_size, checksum |-> lump.checksum]
<1>1. /\ lpc = "lumps" /\ lump_index <= Len(entries) /\ asset_index > Len(lump.assets)
      /\ LumpsInv
  BY DEF CacheLump, BundleInv, LoadInv
<1>2. Counting /\ Offset /\ Registered /\ Unread /\ Expected /\ Exporting(bundle_exports, entries)
  BY <1>1 DEF LumpsInv
<1>3. PICK assets, data, off :
        /\ Describes(lump, assets, data, off)
        /\ asset_index \in 1..(Len(assets) + 1) /\ asset_offset = off[asset_index]
  BY <1>1, <1>2 DEF Offset
<1>4. /\ DOMAIN entries = 1..Len(entries) /\ Len(entries) \in Nat
      /\ \A i \in DOMAIN entries : /\ DOMAIN entries[i].assets = 1..Len(entries[i].assets)
                                   /\ Len(entries[i].assets) \in Nat
                                   /\ entries[i].file_size \in Nat
                                   /\ entries[i].checksum \in Checksums
  BY <1>2, EntriesElim DEF Counting
<1>5. lump_index \in Nat /\ lump_index \in DOMAIN entries /\ asset_index \in Nat
  BY <1>1, <1>2, <1>3, <1>4 DEF Counting, Describes
<1>6. ~(asset_offset > MaxLumpSize)
  <2>1. /\ lump.assets = Listed(assets) /\ Len(assets) \in Nat /\ DOMAIN assets = 1..Len(assets)
        /\ off[Len(assets) + 1] <= MaxLumpSize /\ off \in [1..(Len(assets) + 1) -> Nat]
    BY <1>3 DEF Describes, Laid
  <2>2. Len(lump.assets) = Len(assets)
    <3>1. DOMAIN lump.assets = 1..Len(assets)
      BY <2>1, ListedDef
    <3> QED BY <2>1, <3>1, <1>4, <1>5
  <2>3. asset_index = Len(assets) + 1
    BY <1>1, <1>3, <2>1, <2>2
  <2>4. off[Len(assets) + 1] \in Nat
    BY <2>1
  <2> QED BY <1>3, <2>1, <2>3, <2>4, BuilderAssumption DEF BuilderAssumption
<1>7. /\ lump_cache' = Append(lump_cache, cached)
      /\ lump_index' = lump_index + 1 /\ asset_index' = 1 /\ asset_offset' = 0
      /\ UNCHANGED <<lpc, result, entries, asset_lookup, bundle_exports, request,
                     fresh, untouched, raced, bpc, files>>
  BY <1>6 DEF CacheLump, buildVars
<1>8. /\ cached \in Cached /\ cached.lump = "none"
      /\ cached.file_size = lump.file_size /\ cached.checksum = lump.checksum
  BY <1>4, <1>5, NoData DEF Cached
<1> HIDE DEF cached
<1>9. /\ lump_cache \in Seq(Cached) /\ Len(lump_cache) = lump_index - 1
      /\ DOMAIN lump_cache = 1..(lump_index - 1)
  BY <1>2 DEF BundleInv, LoadInv, LoadTypes, Counting
<1>10. /\ lump_cache' \in Seq(Cached) /\ Len(lump_cache') = lump_index
       /\ DOMAIN lump_cache' = 1..lump_index
       /\ \A i \in DOMAIN lump_cache : lump_cache'[i] = lump_cache[i]
       /\ lump_cache'[lump_index] = cached
  BY <1>5, <1>7, <1>8, <1>9
<1>11. Counting'
  <2>1. \A i \in DOMAIN lump_cache' : /\ lump_cache'[i].checksum = entries[i].checksum
                                      /\ lump_cache'[i].file_size = entries[i].file_size
    <3> SUFFICES ASSUME NEW i \in DOMAIN lump_cache'
                 PROVE  /\ lump_cache'[i].checksum = entries[i].checksum
                        /\ lump_cache'[i].file_size = entries[i].file_size
      OBVIOUS
    <3>1. CASE i = lump_index BY <3>1, <1>8, <1>10
    <3>2. CASE i # lump_index
      <4>1. i \in DOMAIN lump_cache
        BY <3>2, <1>5, <1>9, <1>10
      <4> QED BY <4>1, <1>2, <1>10 DEF Counting
    <3> QED BY <3>1, <3>2
  <2> QED BY <1>1, <1>2, <1>4, <1>5, <1>7, <1>10, <2>1 DEF Counting
<1>12. Unread'
  <2> SUFFICES ASSUME NEW i \in DOMAIN lump_cache' PROVE lump_cache'[i].lump = "none"
    BY DEF Unread
  <2>1. CASE i = lump_index BY <2>1, <1>8, <1>10
  <2>2. CASE i # lump_index
    <3>1. i \in DOMAIN lump_cache
      BY <2>2, <1>5, <1>9, <1>10
    <3> QED BY <3>1, <1>2, <1>10 DEF Unread
  <2> QED BY <2>1, <2>2
<1>13. Offset'
  <2>1. lump_index + 1 <= Len(entries) => lump_index + 1 \in DOMAIN entries
    BY <1>4, <1>5
  <2> QED BY <2>1, <1>2, <1>7, LumpBegins DEF Offset, Counting
<1>14. Registered'
  <2>1. \A i \in DOMAIN entries : \A j \in DOMAIN entries[i].assets : Past(i, j)' <=> Past(i, j)
    <3> SUFFICES ASSUME NEW i \in DOMAIN entries, NEW j \in DOMAIN entries[i].assets
                 PROVE  Past(i, j)' <=> Past(i, j)
      OBVIOUS
    <3>1. /\ i \in Nat /\ j \in Nat /\ j >= 1
          /\ i = lump_index => j < asset_index
      BY <1>1, <1>4, <1>5
    <3> QED BY <3>1, <1>5, <1>7 DEF Past
  <2> QED BY <2>1, <1>2, <1>7 DEF Registered
<1>15. LumpsInv'
  BY <1>2, <1>7, <1>11, <1>12, <1>13, <1>14 DEF LumpsInv, Expected, Fits
<1> QED BY <1>1, <1>7, <1>10, <1>15
        DEF BundleInv, LoadInv, LoadTypes, OffInv, FilesInv, HashDue, ServingInv, ReadingInv,
            AnswerInv, Serving, NoRequest, AssetsHaveTheirIds, IntactBundlesServe,
            BuiltBundlesLoad, BeyondLimits

LEMMA BuildLumpCacheStep ==
  ASSUME BundleInv, BuildLumpCache
  PROVE  LoadInv'
<1>1. /\ lpc = "lumps" /\ lump_index > Len(entries) /\ LumpsInv
      /\ lpc' = "files" /\ lump_index' = 1
      /\ UNCHANGED <<result, entries, asset_index, asset_offset, asset_lookup, lump_cache,
                     bundle_exports, request, fresh, untouched, raced, bpc, files>>
  BY DEF BuildLumpCache, BundleInv, LoadInv, buildVars
<1>2. Counting /\ Registered /\ Unread /\ Expected /\ Exporting(bundle_exports, entries)
  BY <1>1 DEF LumpsInv
<1>3. DOMAIN entries = 1..Len(entries) /\ Len(entries) \in Nat
  BY <1>2, EntriesElim DEF Counting
<1>4. DOMAIN lump_cache = DOMAIN entries /\ Len(lump_cache) \in Nat
  <2>1. DOMAIN lump_cache = 1..Len(lump_cache)
    BY DEF BundleInv, LoadInv, LoadTypes
  <2> QED BY <2>1, <1>1, <1>2, <1>3 DEF Counting
<1>5. \A i \in DOMAIN entries : \A j \in DOMAIN entries[i].assets : Past(i, j)
  BY <1>1, <1>2, <1>3 DEF Past, Counting
<1>6. LookedUp
  <2>1. asset_index = 1 /\ asset_offset = 0
    BY <1>1, <1>2 DEF Counting
  <2>2. ASSUME NEW id \in DOMAIN asset_lookup
        PROVE  /\ asset_lookup[id] \in LookupEntry
               /\ asset_lookup[id].lump_index \in DOMAIN lump_cache
               /\ Placed(id, asset_lookup[id], lump_cache[asset_lookup[id].lump_index].checksum)
    BY <1>2, <1>4 DEF Registered, Counting
  <2>3. \A alias \in DOMAIN bundle_exports : bundle_exports[alias] \in DOMAIN asset_lookup
    BY <1>2, <1>5 DEF Registered, Exporting, Has
  <2> QED BY <2>1, <2>2, <2>3 DEF LookedUp
<1>7. fresh /\ untouched => \A i \in DOMAIN lump_cache : FitsCache(i)
  BY <1>2, <1>4 DEF Expected, FitsCache, Counting
<1>8. FilesInv'
  <2>1. 1 \in 1..(Len(lump_cache) + 1) /\ \A i \in 1..(1 - 1) : FALSE
    BY <1>4
  <2>2. LookedUp' /\ Unread'
    BY <1>1, <1>2, <1>6 DEF LookedUp, Unread
  <2> QED BY <1>1, <1>7, <2>1, <2>2 DEF FilesInv, FitsCache, Fits
<1> QED BY <1>1, <1>8
        DEF BundleInv, LoadInv, LoadTypes, OffInv, LumpsInv, HashDue, ServingInv, ReadingInv,
            AnswerInv, Serving, NoRequest, AssetsHaveTheirIds, IntactBundlesServe,
            BuiltBundlesLoad, BeyondLimits

LEMMA ValidateLumpStep ==
  ASSUME BundleInv, ValidateLump
  PROVE  LoadInv'
<1>1. lpc = "files" /\ FilesInv /\ lump_cache \in Seq(Cached) /\ lump_index <= Len(lump_cache)
  BY DEF ValidateLump, BundleInv, LoadInv, LoadTypes
<1>2. lump_index \in DOMAIN lump_cache
  BY <1>1 DEF FilesInv
<1>3. CASE ~(lump_index \in DOMAIN files /\ AssertFileSize(lump_index))
  <2>1. ~(fresh /\ untouched)
    BY <1>1, <1>2, <1>3 DEF FilesInv, FitsCache, Fits, AssertFileSize
  <2>2. \E reason : Fail(reason)
    BY <1>3 DEF ValidateLump
  <2> QED BY <1>1, <2>1, <2>2, FailStep
<1>4. CASE lump_index \in DOMAIN files /\ AssertFileSize(lump_index)
  <2>1. /\ lpc' = "filehash"
        /\ UNCHANGED <<lump_index, result, entries, asset_index, asset_offset, asset_lookup,
                       lump_cache, bundle_exports, request, fresh, untouched, raced, bpc, files>>
    BY <1>4 DEF ValidateLump, buildVars
  <2>2. FilesInv' /\ HashDue'
    BY <1>1, <1>4, <2>1
       DEF FilesInv, HashDue, LookedUp, Unread, FitsCache, Fits, AssertFileSize
  <2> QED BY <1>1, <2>1, <2>2
          DEF BundleInv, LoadInv, LoadTypes, OffInv, LumpsInv, ServingInv, ReadingInv, AnswerInv,
              Serving, NoRequest, AssetsHaveTheirIds, IntactBundlesServe, BuiltBundlesLoad,
              BeyondLimits
<1> QED BY <1>3, <1>4

LEMMA ValidateHashStep ==
  ASSUME BundleInv, ValidateHash
  PROVE  LoadInv'
<1>1. lpc = "filehash" /\ FilesInv /\ HashDue /\ lump_cache \in Seq(Cached)
  BY DEF ValidateHash, BundleInv, LoadInv, LoadTypes
<1>2. /\ LookedUp /\ Unread /\ lump_index \in 1..(Len(lump_cache) + 1)
      /\ lump_index <= Len(lump_cache) /\ lump_index \in DOMAIN files
      /\ \A i \in 1..(lump_index - 1) : i \in DOMAIN files /\ (untouched => FitsCache(i))
      /\ fresh /\ untouched => \A i \in DOMAIN lump_cache : FitsCache(i)
      /\ untouched => AssertFileSize(lump_index)
  BY <1>1 DEF FilesInv, HashDue
<1>3. /\ Len(lump_cache) \in Nat /\ DOMAIN lump_cache = 1..Len(lump_cache)
      /\ lump_index \in DOMAIN lump_cache
  BY <1>1, <1>2
<1>4. CASE ~AssertHash(lump_index)
  <2>1. ~(fresh /\ untouched)
    BY <1>2, <1>3, <1>4 DEF FitsCache, Fits, AssertHash
  <2>2. Fail("InvalidChecksum")
    BY <1>4 DEF ValidateHash
  <2> QED BY <1>1, <2>1, <2>2, FailStep
<1>5. CASE AssertHash(lump_index)
  <2>1. /\ lump_index' = lump_index + 1 /\ lpc' = "files"
        /\ UNCHANGED <<result, entries, asset_index, asset_offset, asset_lookup, lump_cache,
                       bundle_exports, request, fresh, untouched, raced, bpc, files>>
    BY <1>5 DEF ValidateHash, buildVars
  <2>2. lump_index' \in 1..(Len(lump_cache) + 1)
    BY <1>2, <1>3, <2>1
  <2>3. untouched => FitsCache(lump_index)
    BY <1>2, <1>5 DEF FitsCache, Fits, AssertFileSize, AssertHash
  <2>4. \A i \in 1..(lump_index' - 1) : i \in DOMAIN files /\ (untouched => FitsCache(i))
    <3>1. \A i \in 1..(lump_index' - 1) : i \in 1..(lump_index - 1) \/ i = lump_index
      BY <1>2, <1>3, <2>1
    <3> QED BY <1>2, <2>3, <3>1
  <2>5. FilesInv' /\ HashDue'
    BY <1>1, <1>2, <2>1, <2>2, <2>4
       DEF FilesInv, HashDue, LookedUp, Unread, FitsCache, Fits
  <2> QED BY <1>1, <2>1, <2>5
          DEF BundleInv, LoadInv, LoadTypes, OffInv, LumpsInv, ServingInv, ReadingInv, AnswerInv,
              Serving, NoRequest, AssetsHaveTheirIds, IntactBundlesServe, BuiltBundlesLoad,
              BeyondLimits
<1> QED BY <1>4, <1>5

LEMMA RegistryLoadedStep ==
  ASSUME BundleInv, RegistryLoaded
  PROVE  LoadInv'
<1>1. /\ lpc = "files" /\ lump_index > Len(lump_cache) /\ FilesInv
      /\ lump_cache \in Seq(Cached)
      /\ lpc' = "ready" /\ result' = "Success" /\ lump_index' = 1
      /\ UNCHANGED <<asset_index, asset_offset, asset_lookup, lump_cache,
                     bundle_exports, request, fresh, untouched, raced, bpc, files>>
  BY DEF RegistryLoaded, BundleInv, LoadInv, LoadTypes, buildVars
<1>2. /\ LookedUp /\ Unread /\ lump_index \in 1..(Len(lump_cache) + 1)
      /\ \A i \in 1..(lump_index - 1) : i \in DOMAIN files /\ (untouched => FitsCache(i))
  BY <1>1 DEF FilesInv
<1>3. DOMAIN lump_cache = 1..(lump_index - 1)
  BY <1>1, <1>2
<1>4. ServingInv'
  <2>1. LookedUp'
    BY <1>1, <1>2 DEF LookedUp
  <2> QED BY <1>1, <1>2, <1>3, <2>1 DEF ServingInv, Unread, FitsCache, Fits
<1>5. AnswerInv' /\ ReadingInv' /\ BuiltBundlesLoad'
  BY <1>1 DEF BundleInv, LoadInv, AnswerInv, AssetsHaveTheirIds, IntactBundlesServe,
     BuiltBundlesLoad, ReadingInv, Serving, NoRequest
<1> QED BY <1>1, <1>4, <1>5 DEF BundleInv, LoadInv, LoadTypes, OffInv, LumpsInv, FilesInv,
                                HashDue, Serving

LEMMA QuitStep ==
  ASSUME BundleInv, Quit
  PROVE  LoadInv'
<1>1. /\ lpc \in {"ready", "crashed"} /\ ServingInv
      /\ lpc' = "off" /\ result' = "none" /\ request' = NoRequest /\ raced' = {}
      /\ asset_lookup' = <<>> /\ lump_cache' = <<>>
      /\ UNCHANGED <<lump_index, asset_index, asset_offset, fresh, untouched, bpc>>
  BY DEF Quit, BundleInv, LoadInv, buildVars
<1>2. lump_cache' \in Seq(Cached)
  BY <1>1
<1>3. OffInv'
  BY <1>1 DEF ServingInv, LookedUp, OffInv, Serving
<1>4. AnswerInv' /\ BuiltBundlesLoad'
  BY <1>1 DEF AnswerInv, AssetsHaveTheirIds, IntactBundlesServe, BuiltBundlesLoad, NoRequest
<1>5. LoadTypes'
  BY <1>1, <1>2 DEF BundleInv, LoadInv, LoadTypes
<1> QED BY <1>1, <1>3, <1>4, <1>5
        DEF LoadInv, LumpsInv, FilesInv, HashDue, ServingInv, ReadingInv, Serving

-----------------------------------------------------------------------------
(* loadAsset                                                               *)

\* From a lump that is whole, an entry takes the asset with its id.
LEMMA WholeServes ==
  ASSUME NEW lump \in Cached, Whole(lump), NEW id, NEW entry \in LookupEntry,
         Placed(id, entry, lump.checksum)
  PROVE  AssetAt(lump, entry) \in Assets /\ IdOf[AssetAt(lump, entry)] = id
<1>1. lump.data \in Data /\ lump.loaded_size \in Nat /\ lump.checksum = <<lump.data>>
  BY DEF Cached, Whole
<1>2. /\ entry.offset \in DOMAIN lump.data /\ IdOf[lump.data[entry.offset]] = id
      /\ Size[lump.data[entry.offset]] = entry.size
  BY <1>1 DEF Placed
<1>3. entry.offset + entry.size <= lump.loaded_size
  BY <1>2 DEF Whole, Extends
<1>4. ~(entry.offset + entry.size > lump.loaded_size)
  BY <1>1, <1>3 DEF LookupEntry
<1>5. AssetAt(lump, entry) = lump.data[entry.offset]
  BY <1>2, <1>4 DEF AssetAt
<1> QED BY <1>1, <1>2, <1>5, DataElim

\* While the bundle is used, what has been looked up stays.
LEMMA ServingElim ==
  ASSUME BundleInv, lpc \in Serving
  PROVE  /\ LookedUp /\ lump_index = 1 /\ lump_cache \in Seq(Cached)
         /\ DOMAIN lump_cache = 1..Len(lump_cache)
         /\ \A i \in DOMAIN lump_cache :
              /\ i \in DOMAIN files /\ lump_cache[i] \in Cached
              /\ lump_cache[i].lump = "loaded" /\ i \notin raced => Whole(lump_cache[i])
              /\ untouched => FitsCache(i) /\ lump_cache[i].lump # "bad" /\ i \notin raced
         /\ \A id \in DOMAIN asset_lookup :
              LET i == asset_lookup[id].lump_index
              IN  /\ asset_lookup[id] \in LookupEntry /\ i \in DOMAIN lump_cache
                  /\ Placed(id, asset_lookup[id], lump_cache[i].checksum)
BY DEF BundleInv, LoadInv, LoadTypes, ServingInv, LookedUp

\* What a step of loadAsset leaves alone.
Loading ==
  UNCHANGED <<result, entries, lump_index, asset_index, asset_offset,
              asset_lookup, bundle_exports, fresh, untouched, raced, bpc, files>>

\* A step that replaces one lump of the cache.
LEMMA LumpSet ==
  ASSUME BundleInv, lpc \in Serving, lpc' \in Serving, Loading,
         NEW i \in DOMAIN lump_cache, NEW new \in Cached,
         lump_cache' = [lump_cache EXCEPT ![i] = new],
         new.checksum = lump_cache[i].checksum, new.file_size = lump_cache[i].file_size,
         new.lump = "loaded" /\ i \notin raced => Whole(new),
         untouched => new.lump # "bad"
  PROVE  ServingInv' /\ lump_cache' \in Seq(Cached)
<1>1. /\ LookedUp /\ lump_index = 1 /\ lump_cache \in Seq(Cached)
      /\ DOMAIN lump_cache = 1..Len(lump_cache)
      /\ \A k \in DOMAIN lump_cache :
           /\ k \in DOMAIN files
           /\ lump_cache[k].lump = "loaded" /\ k \notin raced => Whole(lump_cache[k])
           /\ untouched => FitsCache(k) /\ lump_cache[k].lump # "bad"
  BY ServingElim
<1>2. /\ lump_cache' \in Seq(Cached) /\ DOMAIN lump_cache' = DOMAIN lump_cache
      /\ \A k \in DOMAIN lump_cache : lump_cache'[k] = IF k = i THEN new ELSE lump_cache[k]
  <2>1. i \in 1..Len(lump_cache)
    BY <1>1
  <2> QED BY <1>1, <2>1, ExceptSeq
<1>3. \A k \in DOMAIN lump_cache : /\ lump_cache'[k].checksum = lump_cache[k].checksum
                                   /\ lump_cache'[k].file_size = lump_cache[k].file_size
  BY <1>2
<1>4. LookedUp'
  BY <1>1, <1>2, <1>3 DEF Loading, LookedUp
<1>5. \A k \in DOMAIN lump_cache' :
        /\ k \in DOMAIN files'
        /\ lump_cache'[k].lump = "loaded" /\ k \notin raced' => Whole(lump_cache'[k])
        /\ untouched' => lump_cache'[k].lump # "bad"
  BY <1>1, <1>2 DEF Loading
<1>6. ASSUME NEW k \in DOMAIN lump_cache', untouched'
      PROVE  FitsCache(k)'
  BY <1>1, <1>2, <1>3, <1>6 DEF FitsCache, Fits, Loading
<1> QED BY <1>1, <1>2, <1>4, <1>5, <1>6 DEF ServingInv, Loading

\* One that leaves them.
LEMMA LumpsStay ==
  ASSUME BundleInv, lpc \in Serving, lpc' \in Serving, Loading, lump_cache' = lump_cache
  PROVE  ServingInv' /\ lump_cache' \in Seq(Cached)
<1>1. LookedUp /\ ServingInv /\ lump_cache \in Seq(Cached)
  BY ServingElim DEF BundleInv, LoadInv
<1> QED BY <1>1 DEF ServingInv, LookedUp, FitsCache, Fits, Loading

\* What is left to show of a step of loadAsset.
LEMMA LoadAssetKeeps ==
  ASSUME BundleInv, lpc \in Serving, lpc' \in Serving, Loading,
         ServingInv', lump_cache' \in Seq(Cached), ReadingInv',
         AssetsHaveTheirIds', untouched => request'.answer \notin {"failed", "crashed"}
  PROVE  LoadInv'
<1>1. /\ lpc' \notin {"off", "lumps", "files", "filehash"}
      /\ lpc \notin {"off", "lumps", "files", "filehash"}
  BY DEF Serving
<1>2. LoadTypes' /\ OffInv' /\ LumpsInv' /\ FilesInv' /\ HashDue'
  BY <1>1 DEF BundleInv, LoadInv, LoadTypes, OffInv, LumpsInv, FilesInv, HashDue, Loading
<1>3. AnswerInv'
  BY DEF AnswerInv, IntactBundlesServe, Loading
<1>4. BuiltBundlesLoad'
  BY DEF BundleInv, LoadInv, BuiltBundlesLoad, BeyondLimits, Loading
<1> QED BY <1>2, <1>3, <1>4 DEF LoadInv

LEMMA LoadAssetStep ==
  ASSUME BundleInv, NEW id \in Ids, LoadAsset(id)
  PROVE  LoadInv'
<1> DEFINE entry == asset_lookup[id]
           i == entry.lump_index
<1>1. /\ lpc = "ready" /\ id \in DOMAIN asset_lookup /\ Loading /\ lump_cache' = lump_cache
      /\ lpc \in Serving /\ lpc' \in {"ready", "crashed"} /\ lpc' \in Serving
  BY DEF LoadAsset, Loading, Serving, buildVars
<1>2. ServingInv' /\ lump_cache' \in Seq(Cached)
  BY <1>1, LumpsStay
<1>3. /\ entry \in LookupEntry /\ i \in DOMAIN lump_cache /\ lump_cache[i] \in Cached
      /\ Placed(id, entry, lump_cache[i].checksum)
      /\ lump_cache[i].lump = "loaded" /\ i \notin raced => Whole(lump_cache[i])
      /\ untouched => lump_cache[i].lump # "bad" /\ i \notin raced
  BY <1>1, ServingElim
<1>4. ReadingInv'
  BY <1>1 DEF ReadingInv
<1>5. ASSUME request'.id = id PROVE Wanted' = i
  BY <1>1, <1>5 DEF Wanted, Loading
<1>6. CASE lump_cache[i].lump = "loaded"
  <2>1. request' = [id |-> id, answer |-> AssetAt(lump_cache[i], entry)]
    BY <1>6 DEF LoadAsset, Answer
  <2> HIDE DEF entry, i
  <2>2. request'.id = id /\ request'.answer = AssetAt(lump_cache[i], entry)
    BY <2>1
  <2>3. i \notin raced => /\ request'.answer \in Assets /\ IdOf[request'.answer] = id
    BY <1>3, <1>6, <2>2, WholeServes
  <2>4. \A a \in Assets : a \notin {"failed", "crashed"}
    BY LoaderAssumption DEF LoaderAssumption, NoAsset
  <2>5. AssetsHaveTheirIds'
    BY <1>1, <1>5, <2>2, <2>3 DEF AssetsHaveTheirIds, Loading
  <2> QED BY <1>1, <1>2, <1>3, <1>4, <2>3, <2>4, <2>5, LoadAssetKeeps
<1>7. CASE lump_cache[i].lump = "bad"
  <2>1. \/ request' = [id |-> id, answer |-> "failed"]
        \/ request' = [id |-> id, answer |-> "crashed"]
    BY <1>7 DEF LoadAsset, Answer
  <2>2. AssetsHaveTheirIds'
    BY <2>1 DEF AssetsHaveTheirIds
  <2>3. ~untouched
    BY <1>3, <1>7
  <2> QED BY <1>1, <1>2, <1>4, <2>2, <2>3, LoadAssetKeeps
<1> QED BY <1>6, <1>7 DEF LoadAsset

\* A check that fails spoils the lump, and shows that a bundler has been there.
LEMMA RefuseStep ==
  ASSUME BundleInv, lpc \in Serving, Loading, NEW id \in DOMAIN asset_lookup, Refuse(id),
         ~untouched
  PROVE  LoadInv'
<1> DEFINE i == asset_lookup[id].lump_index
           new == [lump_cache[i] EXCEPT !.lump = "bad"]
<1>1. i \in DOMAIN lump_cache /\ lump_cache[i] \in Cached
  BY ServingElim
<1>2. /\ lump_cache' = [lump_cache EXCEPT ![i] = new] /\ lpc' = "ready"
      /\ request' = [id |-> id, answer |-> "failed"]
  BY DEF Refuse, Answer
<1>3. /\ new \in Cached /\ new.lump = "bad" /\ new.checksum = lump_cache[i].checksum
      /\ new.file_size = lump_cache[i].file_size
  BY <1>1 DEF Cached
<1> HIDE DEF new, i
<1>4. lpc' \in Serving
  BY <1>2 DEF Serving
<1>5. ServingInv' /\ lump_cache' \in Seq(Cached)
  BY <1>1, <1>2, <1>3, <1>4, LumpSet
<1>6. ReadingInv' /\ AssetsHaveTheirIds'
  BY <1>2 DEF ReadingInv, AssetsHaveTheirIds
<1> QED BY <1>4, <1>5, <1>6, LoadAssetKeeps

LEMMA CheckSizeStep ==
  ASSUME BundleInv, NEW id \in Ids, CheckSize(id)
  PROVE  LoadInv'
<1> DEFINE i == asset_lookup[id].lump_index
<1>1. lpc = "ready" /\ lpc \in Serving /\ id \in DOMAIN asset_lookup /\ Loading
  BY DEF CheckSize, Loading, Serving, buildVars
<1>2. i \in DOMAIN lump_cache /\ (untouched => FitsCache(i))
  BY <1>1, ServingElim
<1>3. CASE AssertFileSize(i)
  <2>1. /\ lpc' = "lumphash" /\ request' = [id |-> id, answer |-> "none"]
        /\ lump_cache' = lump_cache
    BY <1>3 DEF CheckSize, Answer
  <2>2. lpc' \in Serving
    BY <2>1 DEF Serving
  <2>3. ServingInv' /\ lump_cache' \in Seq(Cached)
    BY <1>1, <2>1, <2>2, LumpsStay
  <2>4. ReadingInv' /\ AssetsHaveTheirIds'
    BY <1>1, <2>1 DEF ReadingInv, AssetsHaveTheirIds, Loading
  <2> QED BY <1>1, <2>1, <2>2, <2>3, <2>4, LoadAssetKeeps
<1>4. CASE ~AssertFileSize(i)
  <2>1. Refuse(id)
    BY <1>4 DEF CheckSize
  <2>2. ~untouched
    BY <1>2, <1>4 DEF FitsCache, Fits, AssertFileSize
  <2> QED BY <1>1, <2>1, <2>2, RefuseStep
<1> QED BY <1>3, <1>4

LEMMA CheckHashStep ==
  ASSUME BundleInv, CheckHash
  PROVE  LoadInv'
<1>1. lpc = "lumphash" /\ lpc \in Serving /\ Loading
  BY DEF CheckHash, Loading, Serving, buildVars
<1>2. request.id \in DOMAIN asset_lookup /\ request.answer = "none"
  BY <1>1 DEF BundleInv, LoadInv, ReadingInv
<1>3. Wanted \in DOMAIN lump_cache /\ (untouched => FitsCache(Wanted))
  BY <1>1, <1>2, ServingElim DEF Wanted
<1>4. CASE AssertHash(Wanted)
  <2>1. lpc' = "lumpdata" /\ request' = request /\ lump_cache' = lump_cache
    BY <1>4 DEF CheckHash
  <2>2. lpc' \in Serving
    BY <2>1 DEF Serving
  <2>3. ServingInv' /\ lump_cache' \in Seq(Cached)
    BY <1>1, <2>1, <2>2, LumpsStay
  <2>4. ReadingInv' /\ AssetsHaveTheirIds'
    BY <1>1, <1>2, <1>4, <2>1
       DEF ReadingInv, AssetsHaveTheirIds, Loading, Wanted, AssertHash
  <2> QED BY <1>1, <1>2, <2>1, <2>2, <2>3, <2>4, LoadAssetKeeps
<1>5. CASE ~AssertHash(Wanted)
  <2>1. Refuse(request.id)
    BY <1>5 DEF CheckHash
  <2>2. ~untouched
    BY <1>3, <1>5 DEF FitsCache, Fits, AssertHash
  <2> QED BY <1>1, <1>2, <2>1, <2>2, RefuseStep
<1> QED BY <1>4, <1>5

\* What Decompress finds in a file, whole or cut short.
Contents ==
  IF files[Wanted] = CutShort THEN Garbled(Wanted) ELSE {Decompressed(Wanted)}

\* A lump with the file's contents, or with something else if it was raced.
LEMMA Read ==
  ASSUME BundleInv, lpc = "lumpdata", NEW lump \in Contents
  PROVE  /\ lump \in Cached /\ lump.lump = "loaded"
         /\ lump.checksum = lump_cache[Wanted].checksum
         /\ lump.file_size = lump_cache[Wanted].file_size
         /\ Wanted \notin raced => Whole(lump)
<1>1. request.id \in DOMAIN asset_lookup /\ lpc \in Serving
  BY DEF BundleInv, LoadInv, ReadingInv, Serving
<1>2. /\ Wanted \in DOMAIN lump_cache /\ Wanted \in DOMAIN files
      /\ lump_cache[Wanted] \in Cached /\ asset_lookup[request.id] \in LookupEntry
      /\ Placed(request.id, asset_lookup[request.id], lump_cache[Wanted].checksum)
  BY <1>1, ServingElim DEF Wanted
<1>3. files[Wanted] \in File /\ Extends(files[Wanted].data, files[Wanted].contents)
  BY <1>2 DEF BundleInv, BuildInv, BuildTypes
<1>4. files[Wanted].data \in Data /\ files[Wanted].contents \in Nat
  BY <1>3 DEF File
<1>5. Wanted \notin raced => <<files[Wanted].data>> = lump_cache[Wanted].checksum
  BY DEF BundleInv, LoadInv, ReadingInv, AssertHash
<1>6. CASE files[Wanted] = CutShort
  <2>1. PICK n \in 0..MaxLumpSize :
          lump = [lump_cache[Wanted] EXCEPT !.lump = "loaded", !.data = <<>>, !.loaded_size = n]
    BY <1>6 DEF Contents, Garbled
  <2>2. n \in Nat /\ <<>> \in Data
    BY NoData, BuilderAssumption DEF BuilderAssumption
  <2>3. /\ lump \in Cached /\ lump.lump = "loaded"
        /\ lump.checksum = lump_cache[Wanted].checksum
        /\ lump.file_size = lump_cache[Wanted].file_size
    BY <1>2, <2>1, <2>2 DEF Cached
  <2>4. Wanted \in raced
    <3>1. files[Wanted].data = <<>>
      BY <1>6 DEF CutShort
    <3>2. SUFFICES ASSUME lump_cache[Wanted].checksum = <<files[Wanted].data>> PROVE FALSE
      BY <1>5
    <3>3. asset_lookup[request.id].offset \in DOMAIN files[Wanted].data
      BY <1>2, <1>4, <3>2 DEF Placed
    <3> QED BY <3>1, <3>3
  <2> QED BY <2>3, <2>4
<1>7. CASE files[Wanted] # CutShort
  <2>1. lump = Decompressed(Wanted)
    BY <1>7 DEF Contents
  <2>2. /\ lump.data = files[Wanted].data /\ lump.loaded_size = files[Wanted].contents
        /\ lump.lump = "loaded" /\ lump \in Cached
        /\ lump.checksum = lump_cache[Wanted].checksum
        /\ lump.file_size = lump_cache[Wanted].file_size
    BY <1>2, <1>4, <2>1 DEF Decompressed, Cached
  <2> QED BY <2>2, <1>3, <1>5 DEF Whole
<1> QED BY <1>6, <1>7

LEMMA DecompressStep ==
  ASSUME BundleInv, Decompress
  PROVE  LoadInv'
<1> DEFINE entry == asset_lookup[request.id]
<1>1. lpc = "lumpdata" /\ lpc \in Serving /\ Loading /\ request.id \in DOMAIN asset_lookup
  BY DEF Decompress, Loading, Serving, buildVars, BundleInv, LoadInv, ReadingInv
<1>2. /\ Wanted \in DOMAIN lump_cache /\ entry \in LookupEntry
      /\ Placed(request.id, entry, lump_cache[Wanted].checksum)
      /\ untouched => FitsCache(Wanted) /\ Wanted \notin raced
  BY <1>1, ServingElim DEF Wanted
<1>3. CASE \E lump \in Contents :
             /\ lump_cache' = [lump_cache EXCEPT ![Wanted] = lump]
             /\ request' = [id |-> request.id, answer |-> AssetAt(lump, entry)]
             /\ lpc' = "ready"
  <2>1. PICK lump \in Contents :
             /\ lump_cache' = [lump_cache EXCEPT ![Wanted] = lump]
             /\ request' = [id |-> request.id, answer |-> AssetAt(lump, entry)]
             /\ lpc' = "ready"
    BY <1>3
  <2>2. /\ lump \in Cached /\ lump.lump = "loaded"
        /\ lump.checksum = lump_cache[Wanted].checksum
        /\ lump.file_size = lump_cache[Wanted].file_size
        /\ Wanted \notin raced => Whole(lump)
    BY <1>1, Read
  <2>3. /\ lpc' \in Serving
        /\ request'.id = request.id /\ request'.answer = AssetAt(lump, entry)
    BY <2>1 DEF Serving
  <2> HIDE DEF entry
  <2>4. ServingInv' /\ lump_cache' \in Seq(Cached)
    BY <1>1, <1>2, <2>1, <2>2, <2>3, LumpSet
  <2>5. Wanted \notin raced => /\ request'.answer \in Assets
                               /\ IdOf[request'.answer] = request.id
    BY <1>2, <2>2, <2>3, WholeServes
  <2>6. \A a \in Assets : a \notin {"failed", "crashed"}
    BY LoaderAssumption DEF LoaderAssumption, NoAsset
  <2>7. Wanted' = Wanted /\ raced' = raced
    BY <1>1, <2>3 DEF Wanted, Loading
  <2>8. ReadingInv' /\ AssetsHaveTheirIds'
    BY <2>1, <2>3, <2>5, <2>7 DEF ReadingInv, AssetsHaveTheirIds
  <2> QED BY <1>1, <1>2, <2>3, <2>4, <2>5, <2>6, <2>8, LoadAssetKeeps
<1>4. CASE /\ request' = [id |-> request.id, answer |-> "crashed"] /\ lpc' = "crashed"
           /\ lump_cache' = lump_cache /\ files[Wanted] = CutShort
  <2>1. lpc' \in Serving
    BY <1>4 DEF Serving
  <2>2. ServingInv' /\ lump_cache' \in Seq(Cached)
    BY <1>1, <1>4, <2>1, LumpsStay
  <2>3. ReadingInv' /\ AssetsHaveTheirIds'
    BY <1>4 DEF ReadingInv, AssetsHaveTheirIds
  <2>4. ~untouched
    <3>1. Wanted \notin raced => files[Wanted] # CutShort
      <4>1. SUFFICES ASSUME Wanted \notin raced, files[Wanted].data = <<>> PROVE FALSE
        BY DEF CutShort
      <4>2. lump_cache[Wanted].checksum = <<files[Wanted].data>>
        BY <1>1, <4>1 DEF BundleInv, LoadInv, ReadingInv, AssertHash
      <4>3. files[Wanted].data \in Data
        BY <4>1, NoData
      <4> QED BY <1>2, <4>1, <4>2, <4>3 DEF Placed
    <3> QED BY <1>2, <1>4, <3>1
  <2> QED BY <1>1, <2>1, <2>2, <2>3, <2>4, LoadAssetKeeps
<1> QED BY <1>3, <1>4 DEF Decompress, Answer, Contents
-----------------------------------------------------------------------------
LEMMA BundleBegins == Init => BundleInv
<1> SUFFICES ASSUME Init PROVE BundleInv
  OBVIOUS
<1>1. BuildInv
  BY BuilderBegins DEF Init
<1>2. lump_cache \in Seq(Cached)
  BY DEF Init
<1> QED BY <1>1, <1>2
        DEF Init, BundleInv, LoadInv, LoadTypes, OffInv, LumpsInv, FilesInv, HashDue, ServingInv,
            ReadingInv, AnswerInv, Serving, AssetsHaveTheirIds, IntactBundlesServe,
            BuiltBundlesLoad, NoRequest

LEMMA BundleKept == BundleInv /\ [Next]_vars => BundleInv'
<1> SUFFICES ASSUME BundleInv, [Next]_vars PROVE BundleInv'
  OBVIOUS
<1>1. BuildInv'
  <2>1. CASE BuildNext
    BY <2>1, BuilderKeeps DEF BundleInv
  <2>2. CASE UNCHANGED buildVars
    BY <2>2 DEF BundleInv, BuildInv, BuildTypes, LumpsSound, OnceInLumps, Written,
       RegistrySound, Fits, buildVars
  <2>3. BuildNext \/ UNCHANGED buildVars
    BY DEF Next, vars, Build, LoadRegistry, TooManyAssets, RegisterAsset, CacheLump,
       BuildLumpCache, ValidateLump, ValidateHash, RegistryLoaded, LoadAsset, CheckSize,
       CheckHash, Decompress, Quit, Fail
  <2> QED BY <2>1, <2>2, <2>3
<1>2. LoadInv'
  <2>1. CASE UNCHANGED vars
    <3>1. UNCHANGED <<files, bpc, lpc, result, entries, lump_index, asset_index, asset_offset,
                      asset_lookup, lump_cache, bundle_exports, request, fresh, untouched,
                      raced>>
      BY <2>1 DEF vars, buildVars, loadVars
    <3>2. LoadTypes' /\ OffInv' /\ LumpsInv'
      BY <3>1 DEF BundleInv, LoadInv, LoadTypes, OffInv, LumpsInv, Counting, Offset,
         Registered, Unread, Expected, Past, Fits
    <3>3. FilesInv' /\ HashDue' /\ ServingInv'
      BY <3>1 DEF BundleInv, LoadInv, FilesInv, HashDue, ServingInv, LookedUp, Unread,
         FitsCache, Fits, AssertFileSize
    <3>4. AnswerInv' /\ ReadingInv' /\ BuiltBundlesLoad'
      BY <3>1 DEF BundleInv, LoadInv, AnswerInv, ReadingInv, AssetsHaveTheirIds,
         IntactBundlesServe, BuiltBundlesLoad, BeyondLimits, Wanted, AssertHash
    <3> QED BY <3>2, <3>3, <3>4 DEF LoadInv
  <2>2. CASE Next
    BY <2>2, BuildStep, LoadRegistryStep, TooManyAssetsStep, RegisterAssetStep, CacheLumpStep,
       BuildLumpCacheStep, ValidateLumpStep, ValidateHashStep, RegistryLoadedStep,
       LoadAssetStep, CheckSizeStep, CheckHashStep, DecompressStep, QuitStep
       DEF Next
  <2> QED BY <2>1, <2>2
<1> QED BY <1>1, <1>2 DEF BundleInv

LEMMA BundleHolds == Spec => []BundleInv
BY BundleBegins, BundleKept, PTL DEF Spec

\* loadAsset hands out assets with the id they are asked for by, whatever the
\* bundler does to the files meanwhile, except to the one that is read, between
\* its hash and its contents.
THEOREM IdsServed == Spec => []AssetsHaveTheirIds
<1>1. BundleInv => AssetsHaveTheirIds
  BY DEF BundleInv, LoadInv, AnswerInv
<1> QED BY <1>1, BundleHolds, PTL

\* While nobody runs the bundler, a bundle that has begun to load serves
\* everything that is in it.
THEOREM IntactServe == Spec => []IntactBundlesServe
<1>1. BundleInv => IntactBundlesServe
  BY DEF BundleInv, LoadInv, AnswerInv
<1> QED BY <1>1, BundleHolds, PTL

\* What the bundler has finished, loadRegistry accepts, up to its limits.
THEOREM FinishedLoad == Spec => []BuiltBundlesLoad
<1>1. BundleInv => BuiltBundlesLoad
  BY DEF BundleInv, LoadInv
<1> QED BY <1>1, BundleHolds, PTL

\* The aliases of a loaded bundle lead to assets.
THEOREM AliasesServe == Spec => []ExportsServe
<1>1. BundleInv => ExportsServe
  BY DEF BundleInv, LoadInv, ServingInv, Serving, LookedUp, ExportsServe
<1> QED BY <1>1, BundleHolds, PTL
=============================================================================
