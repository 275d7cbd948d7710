-------------------------- MODULE AssetBundleBuilder --------------------------
(***************************************************************************)
(* How the bundler writes an asset bundle: it converts the entries of a    *)
(* manifest one after the other, packs the assets into lumps               *)
(* (AssetBundleBuilder), has a thread compress, hash and write each lump   *)
(* that is full, and at the end joins the threads and writes the registry. *)
(*                                                                         *)
(* An asset is what its converter serialized: it stands for its bytes.     *)
(* `IdOf' is the 32-bit hash of them, so two assets may share an id.  The  *)
(* bytes of a lump are the assets at their offsets, and its 64-bit hash is *)
(* taken to tell all lumps apart.  The bundler may be killed at any moment *)
(* and run again in the same directory.  The list of initial prefabs, which *)
(* takes any id, is left out.                                              *)
(***************************************************************************)
EXTENDS Naturals, Sequences

CONSTANTS
  Assets,           \* what converters can serialize
  Ids, IdOf,        \* 32-bit hashes, and that of each asset
  Size,             \* length of an asset
  Refs,             \* ids an asset holds: children, materials, textures;
                    \* NullAsset, for an alias nobody has, not counted
  AliasOf, NoAlias, \* the alias an asset's manifest entry gives it, if any
  NoId,             \* an id no asset has
  LZ4,              \* whether the manifest asks for compression
  Packed,           \* length of an LZ4 frame with so many bytes in it
  MaxLumpSize,      \* ASSET_LUMP_MAX_SIZE
  MaxBuilds         \* bound on runs of the bundler

ASSUME BuilderAssumption ==
  /\ IdOf \in [Assets -> Ids] /\ NoId \notin Ids
  /\ Size \in [Assets -> Nat \ {0}]
  /\ Refs \in [Assets -> SUBSET Ids]
  /\ LZ4 \in BOOLEAN
  /\ MaxLumpSize \in Nat /\ MaxBuilds \in Nat
  /\ \A n \in 0..MaxLumpSize : Packed[n] \in Nat

VARIABLES
  bpc,              \* the bundler: "idle", "adding" or "joining" its threads
  lumps,            \* AssetBundleBuilder::lumps
  asset_aliases,    \* Bundler::asset_aliases: alias -> id
  files,            \* the lump files on disk: index -> contents
  registry,         \* registry.bin: <<>> if there is none that can be read
  builds,           \* runs of the bundler so far
  whole             \* ghost: the last run finished and every lump was written

buildVars == <<bpc, lumps, asset_aliases, files, registry, builds, whole>>

\* f with a value for x.
With(f, x, value) == [y \in DOMAIN f \cup {x} |-> IF y = x THEN value ELSE f[y]]

UsedIds == {IdOf[a] : a \in UNION {{lumps[i].assets[j] : j \in DOMAIN lumps[i].assets}
                                     : i \in DOMAIN lumps}}

\* What new leaves: the checksum is not initialized.
AllocateLump == [assets |-> <<>>, data |-> <<>>, total_size |-> 0,
                 thread |-> "none", checksum |-> <<>>]

LaunchFinalizer(lump) ==
  IF lump.thread = "none" THEN [lump EXCEPT !.thread = "running"] ELSE lump

-----------------------------------------------------------------------------
BuildInit ==
  /\ bpc = "idle" /\ lumps = <<>>
  /\ asset_aliases = <<>>
  /\ files = <<>> /\ registry = <<>>
  /\ builds = 0 /\ whole = FALSE

StartBundler ==
  /\ bpc = "idle" /\ builds < MaxBuilds
  /\ bpc' = "adding" /\ builds' = builds + 1 /\ whole' = FALSE
  /\ lumps' = <<>> /\ asset_aliases' = <<>>
  /\ UNCHANGED <<files, registry>>

Appended(lump, a) ==
  [lump EXCEPT !.assets = Append(@, a), !.data = With(@, lump.total_size, a),
               !.total_size = @ + Size[a]]

\* A mutant: ids are not compared.
TooLong(a) == Size[a] > MaxLumpSize

\* Whether addAsset turns an asset away: too long for a lump, or its id taken.
Refused(a) == Size[a] > MaxLumpSize \/ IdOf[a] \in UsedIds

\* The lumps after an asset that was not turned away.  A lump that is full is
\* handed to its thread and a new one begun.
Packing(a) ==
  LET last == Len(lumps)
  IN  IF lumps = <<>> THEN <<Appended(AllocateLump, a)>>
      ELSE IF lumps[last].total_size + Size[a] > MaxLumpSize
      THEN Append([lumps EXCEPT ![last] = LaunchFinalizer(@)],
                  Appended(AllocateLump, a))
      ELSE IF lumps[last].thread # "none" THEN lumps      \* BadContents
      ELSE [lumps EXCEPT ![last] = Appended(@, a)]

AddAsset(a) == lumps' = IF Refused(a) THEN lumps ELSE Packing(a)

\* The ids the caller may find in asset_id.  addAsset leaves it uninitialized
\* when the asset is too long: anything may be there, the id of an asset or
\* nobody's.
AssetId(a) == IF Size[a] > MaxLumpSize THEN Ids \cup {NoId} ELSE {IdOf[a]}

\* One entry of the manifest, or one asset a converter makes on the way.  The
\* ids it holds were handed out before it was serialized.
ConvertAsset(a) ==
  /\ bpc = "adding"
  /\ Refs[a] \subseteq UsedIds
  /\ AddAsset(a)
  /\ \E id \in AssetId(a) :
       asset_aliases' =
         IF AliasOf[a] = NoAlias \/ AliasOf[a] \in DOMAIN asset_aliases
         THEN asset_aliases ELSE With(asset_aliases, AliasOf[a], id)
  /\ UNCHANGED <<bpc, files, registry, builds, whole>>

\* A finalizer thread: compress, hash, write.  If LZ4 fails, it returns with
\* neither checksum nor file.
FileSize(lump) == IF LZ4 THEN Packed[lump.total_size] ELSE lump.total_size

\* A file that is being written, or whose writer was killed.
CutShort == [data |-> <<>>, size |-> 0, contents |-> 0]

\* Up to where the file is opened, and with it emptied.
FinalizeLump(i) ==
  /\ i \in DOMAIN lumps /\ lumps[i].thread = "running"
  /\ \/ /\ lumps' = [lumps EXCEPT ![i].thread = "writing"]
        /\ files' = With(files, i, CutShort)
     \/ /\ LZ4
        /\ lumps' = [lumps EXCEPT ![i].thread = "done"]
        /\ UNCHANGED files
  /\ UNCHANGED <<bpc, asset_aliases, registry, builds, whole>>

\* The rest.  Nobody looks at the thread's total_size and checksum before it
\* is joined, so they are given here what they were given on the way.
WriteLump(i) ==
  /\ i \in DOMAIN lumps /\ lumps[i].thread = "writing"
  /\ lumps' = [lumps EXCEPT ![i].thread = "done",
                            ![i].total_size = FileSize(lumps[i]),
                            ![i].checksum = <<lumps[i].data>>]
  /\ files' = With(files, i, [data |-> lumps[i].data,
                              size |-> FileSize(lumps[i]),
                              contents |-> lumps[i].total_size])
  /\ UNCHANGED <<bpc, asset_aliases, registry, builds, whole>>

\* buildBundle, until its threads are joined.  Without any lump it reads
\* lumps.back() of nothing; that manifest is left out.
BuildBundle ==
  /\ bpc = "adding" /\ lumps # <<>>
  /\ bpc' = "joining"
  /\ lumps' = [i \in DOMAIN lumps |-> LaunchFinalizer(lumps[i])]
  /\ UNCHANGED <<asset_aliases, files, registry, builds, whole>>

LumpEntry(lump) ==
  [file_size |-> lump.total_size, checksum |-> lump.checksum,
   assets |-> [j \in DOMAIN lump.assets |->
                 [id |-> IdOf[lump.assets[j]], size |-> Size[lump.assets[j]]]]]

AllAliases == asset_aliases                                  \* a mutant

\* addBundleExport takes the ids of this bundle only.
Exports == [alias \in {x \in DOMAIN asset_aliases : asset_aliases[x] \in UsedIds}
              |-> asset_aliases[alias]]

Joined == \A i \in DOMAIN lumps : lumps[i].thread = "done"

\* The rest of buildBundle, and the end of the bundler.
WriteRegistry ==
  /\ bpc = "joining" /\ Joined
  /\ registry' = <<[lumps |-> [i \in DOMAIN lumps |-> LumpEntry(lumps[i])],
                    exports |-> Exports]>>
  /\ whole' = (\A i \in DOMAIN lumps : lumps[i].checksum # <<>>)
  /\ bpc' = "idle" /\ lumps' = <<>> /\ asset_aliases' = <<>>
  /\ UNCHANGED <<files, builds>>

\* The bundler is killed.  What it was writing is left cut short.
Interrupt ==
  /\ bpc # "idle"
  /\ bpc' = "idle" /\ lumps' = <<>> /\ asset_aliases' = <<>>
  /\ registry' \in {registry} \cup (IF bpc = "joining" /\ Joined THEN {<<>>} ELSE {})
  /\ UNCHANGED <<files, builds, whole>>

BuildNext ==
  \/ StartBundler
  \/ \E a \in Assets : ConvertAsset(a)
  \/ \E i \in DOMAIN lumps : FinalizeLump(i) \/ WriteLump(i)
  \/ BuildBundle
  \/ WriteRegistry
  \/ Interrupt

=============================================================================
