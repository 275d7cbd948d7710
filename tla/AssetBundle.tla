------------------------------ MODULE AssetBundle ------------------------------
(***************************************************************************)
(* A program that loads an asset bundle (AssetBundle, AssetLump) from the  *)
(* directory a bundler writes to.  loadRegistry reads the registry, finds  *)
(* out where each asset lies and checks every lump file; loadAsset reads a *)
(* lump when an asset of it is first asked for, checks it again and keeps  *)
(* it.  A lump's file is opened once for its size, once for its hash and   *)
(* once for its contents: the bundler may run, and write the file, between *)
(* any two of these steps.                                                 *)
(***************************************************************************)
EXTENDS AssetBundleBuilder

CONSTANTS
  MaxLumps,         \* ASSET_REGISTRY_MAX_LUMPS
  MaxLumpAssets     \* ASSET_LUMP_MAX_ASSETS

\* What loadAsset answers where it has no asset.
NoAsset == {"none", "failed", "crashed", "garbage"}

ASSUME LoaderAssumption ==
  /\ MaxLumps \in Nat /\ MaxLumpAssets \in Nat
  /\ Assets \cap NoAsset = {}

VARIABLES
  lpc,              \* the loader: "off"; in loadRegistry's loops, over "lumps"
                    \* and "files", where the next file is to be checked or
                    \* its hash is ("filehash"); "ready"; in loadAsset, before
                    \* "lumphash" or "lumpdata" is read; or "crashed"
  result,           \* what loadRegistry returned last
  entries,          \* the registry's lumps, as loadRegistry reads them
  lump_index,       \* loadRegistry's counters
  asset_index,
  asset_offset,
  asset_lookup,     \* AssetBundle's members
  lump_cache,
  bundle_exports,
  request,          \* the last call of loadAsset and its answer
  fresh,            \* ghost: the files were whole when loadRegistry began
  untouched,        \* ghost: no bundler has run since then
  raced             \* ghost: the lumps whose files a bundler wrote after
                    \* loadAsset took their hash and before it read them

loadVars == <<lpc, result, entries, lump_index, asset_index, asset_offset,
              asset_lookup, lump_cache, bundle_exports, request>>
vars == <<buildVars, loadVars, fresh, untouched, raced>>

NoRequest == [id |-> NoId, answer |-> "none"]

Init ==
  /\ BuildInit
  /\ lpc = "off" /\ result = "none" /\ entries = <<>>
  /\ lump_index = 1 /\ asset_index = 1 /\ asset_offset = 0
  /\ asset_lookup = <<>> /\ lump_cache = <<>> /\ bundle_exports = <<>>
  /\ request = NoRequest
  /\ fresh = FALSE /\ untouched = FALSE /\ raced = {}

\* The lump loadAsset has been asked for.
Wanted == asset_lookup[request.id].lump_index

Build ==
  /\ BuildNext
  /\ untouched' = (untouched /\ bpc' = "idle")
  /\ raced' = raced \cup (IF lpc = "lumpdata" /\ files'[Wanted] # files[Wanted]
                          THEN {Wanted} ELSE {})
  /\ UNCHANGED <<loadVars, fresh>>

-----------------------------------------------------------------------------
(* loadRegistry                                                            *)

\* A bundle that fails to load is deleted.
Fail(reason) ==
  /\ lpc' = "off" /\ result' = reason
  /\ lump_index' = 1 /\ asset_index' = 1 /\ asset_offset' = 0
  /\ asset_lookup' = <<>> /\ lump_cache' = <<>> /\ bundle_exports' = <<>>
  /\ UNCHANGED <<entries, request, buildVars, fresh, untouched, raced>>

\* Up to the loop over lumps.
LoadRegistry ==
  /\ lpc = "off"
  /\ fresh' = whole /\ untouched' = (bpc = "idle")
  /\ IF registry = <<>>
     THEN /\ result' = "FileNotFound" /\ entries' = <<>>
          /\ UNCHANGED <<lpc, bundle_exports>>
     ELSE /\ entries' = registry[1].lumps
          /\ IF Len(registry[1].lumps) > MaxLumps
             THEN result' = "BadSize" /\ UNCHANGED <<lpc, bundle_exports>>
             ELSE /\ lpc' = "lumps" /\ result' = "none"
                  /\ bundle_exports' = registry[1].exports
  /\ UNCHANGED <<lump_index, asset_index, asset_offset, asset_lookup, lump_cache,
                 request, buildVars, raced>>

TooManyAssets ==
  /\ lpc = "lumps" /\ lump_index <= Len(entries)
  /\ Len(entries[lump_index].assets) > MaxLumpAssets
  /\ Fail("BadSize")

\* One turn of the loop over the assets of a lump.
RegisterAsset ==
  /\ lpc = "lumps" /\ lump_index <= Len(entries)
  /\ Len(entries[lump_index].assets) <= MaxLumpAssets
  /\ asset_index <= Len(entries[lump_index].assets)
  /\ LET entry == entries[lump_index].assets[asset_index]
     IN  IF entry.id \in DOMAIN asset_lookup THEN Fail("DuplicateAsset")
         ELSE /\ asset_lookup' = With(asset_lookup, entry.id,
                   [lump_index |-> lump_index, offset |-> asset_offset,
                    size |-> entry.size])
              /\ asset_offset' = asset_offset + entry.size
              /\ asset_index' = asset_index + 1
              /\ UNCHANGED <<lpc, result, entries, lump_index, lump_cache,
                             bundle_exports, request, buildVars, fresh, untouched, raced>>

\* The end of a turn of the loop over lumps.
CacheLump ==
  /\ lpc = "lumps" /\ lump_index <= Len(entries)
  /\ asset_index > Len(entries[lump_index].assets)
  /\ IF asset_offset > MaxLumpSize THEN Fail("BadSize")
     ELSE /\ lump_cache' = Append(lump_cache,
               [lump |-> "none", data |-> <<>>, loaded_size |-> 0,
                file_size |-> entries[lump_index].file_size,
                checksum |-> entries[lump_index].checksum])
          /\ lump_index' = lump_index + 1
          /\ asset_index' = 1 /\ asset_offset' = 0
          /\ UNCHANGED <<lpc, result, entries, asset_lookup, bundle_exports,
                         request, buildVars, fresh, untouched, raced>>

BuildLumpCache ==
  /\ lpc = "lumps" /\ lump_index > Len(entries)
  /\ lpc' = "files" /\ lump_index' = 1
  /\ UNCHANGED <<result, entries, asset_index, asset_offset, asset_lookup,
                 lump_cache, bundle_exports, request, buildVars, fresh, untouched, raced>>

AssertFileSize(i) == files[i].size = lump_cache[i].file_size
AnyHash(i) == TRUE                                           \* a mutant
AssertHash(i) == <<files[i].data>> = lump_cache[i].checksum

\* One turn of the loop over lump files: is there one, how long is it ...
ValidateLump ==
  /\ lpc = "files" /\ lump_index <= Len(lump_cache)
  /\ IF lump_index \notin DOMAIN files THEN Fail("FileNotFound")
     ELSE IF ~AssertFileSize(lump_index) THEN Fail("BadSize")
     ELSE /\ lpc' = "filehash"
          /\ UNCHANGED <<result, entries, lump_index, asset_index, asset_offset,
                         asset_lookup, lump_cache, bundle_exports, request,
                         buildVars, fresh, untouched, raced>>

\* ... and what is in it.
ValidateHash ==
  /\ lpc = "filehash"
  /\ IF ~AssertHash(lump_index) THEN Fail("InvalidChecksum")
     ELSE /\ lpc' = "files" /\ lump_index' = lump_index + 1
          /\ UNCHANGED <<result, entries, asset_index, asset_offset, asset_lookup,
                         lump_cache, bundle_exports, request, buildVars, fresh,
                         untouched, raced>>

RegistryLoaded ==
  /\ lpc = "files" /\ lump_index > Len(lump_cache)
  /\ lpc' = "ready" /\ result' = "Success"
  /\ lump_index' = 1 /\ entries' = <<>>
  /\ UNCHANGED <<asset_index, asset_offset, asset_lookup, lump_cache,
                 bundle_exports, request, buildVars, fresh, untouched, raced>>

-----------------------------------------------------------------------------
(* loadAsset                                                               *)

\* A mutant: the size on disk is taken for that of the contents.
SizeOnDisk(i) ==
  [lump_cache[i] EXCEPT !.lump = "loaded", !.data = files[i].data,
                        !.loaded_size = files[i].size]

\* A lump with its file read and decompressed.
Decompressed(i) ==
  [lump_cache[i] EXCEPT !.lump = "loaded", !.data = files[i].data,
                        !.loaded_size = files[i].contents]

\* A lump whose file was cut short when it was read: the size its frame
\* announces, or that of what there was, and none of the bytes.
Garbled(i) == {[lump_cache[i] EXCEPT !.lump = "loaded", !.data = <<>>,
                                     !.loaded_size = n] : n \in 0..MaxLumpSize}

\* AssetLump::loadAsset: the bytes at an offset.  Where no asset begins there
\* is something else.
AssetAt(lump, entry) ==
  IF entry.offset + entry.size > lump.loaded_size THEN "failed"
  ELSE IF entry.offset \in DOMAIN lump.data THEN lump.data[entry.offset]
  ELSE "garbage"

Answer(id, answer) == request' = [id |-> id, answer |-> answer]

\* loadAsset, for a lump that was read before.
LoadAsset(id) ==
  /\ lpc = "ready" /\ id \in DOMAIN asset_lookup
  /\ LET entry == asset_lookup[id]
         lump == lump_cache[entry.lump_index]
     IN  \/ lump.lump = "loaded" /\ Answer(id, AssetAt(lump, entry)) /\ UNCHANGED lpc
         \* The lump failed before: the checks are skipped, loaded_size was
         \* never set, and there is no data.
         \/ lump.lump = "bad" /\ Answer(id, "failed") /\ UNCHANGED lpc
         \/ lump.lump = "bad" /\ Answer(id, "crashed") /\ lpc' = "crashed"
  /\ UNCHANGED <<result, entries, lump_index, asset_index, asset_offset, asset_lookup,
                 lump_cache, bundle_exports, buildVars, fresh, untouched, raced>>

\* A check failed.  The lump is not null any more, and will not be checked again.
Refuse(id) ==
  /\ lump_cache' = [lump_cache EXCEPT ![asset_lookup[id].lump_index].lump = "bad"]
  /\ Answer(id, "failed") /\ lpc' = "ready"

\* loadAsset, for one that was not: its size is checked ...
CheckSize(id) ==
  /\ lpc = "ready" /\ id \in DOMAIN asset_lookup
  /\ lump_cache[asset_lookup[id].lump_index].lump = "none"
  /\ IF AssertFileSize(asset_lookup[id].lump_index)
     THEN lpc' = "lumphash" /\ Answer(id, "none") /\ UNCHANGED lump_cache
     ELSE Refuse(id)
  /\ UNCHANGED <<result, entries, lump_index, asset_index, asset_offset,
                 asset_lookup, bundle_exports, buildVars, fresh, untouched, raced>>

\* ... its hash ...
CheckHash ==
  /\ lpc = "lumphash"
  /\ IF AssertHash(Wanted) THEN lpc' = "lumpdata" /\ UNCHANGED <<lump_cache, request>>
     ELSE Refuse(request.id)
  /\ UNCHANGED <<result, entries, lump_index, asset_index, asset_offset,
                 asset_lookup, bundle_exports, buildVars, fresh, untouched, raced>>

\* ... and its contents are read.  decompress() throws where it cannot read
\* the head of an LZ4 frame.
Decompress ==
  /\ lpc = "lumpdata"
  /\ \/ \E lump \in IF files[Wanted] = CutShort THEN Garbled(Wanted)
                    ELSE {Decompressed(Wanted)} :
          /\ lump_cache' = [lump_cache EXCEPT ![Wanted] = lump]
          /\ Answer(request.id, AssetAt(lump, asset_lookup[request.id]))
          /\ lpc' = "ready"
     \/ /\ LZ4 /\ files[Wanted] = CutShort
        /\ Answer(request.id, "crashed") /\ lpc' = "crashed"
        /\ UNCHANGED lump_cache
  /\ UNCHANGED <<result, entries, lump_index, asset_index, asset_offset,
                 asset_lookup, bundle_exports, buildVars, fresh, untouched, raced>>

\* The program ends, and may be started again.
Quit ==
  /\ lpc \in {"ready", "crashed"}
  /\ lpc' = "off" /\ result' = "none" /\ request' = NoRequest
  /\ asset_lookup' = <<>> /\ lump_cache' = <<>> /\ bundle_exports' = <<>>
  /\ raced' = {}
  /\ UNCHANGED <<entries, lump_index, asset_index, asset_offset, buildVars,
                 fresh, untouched>>

Next ==
  \/ Build
  \/ LoadRegistry \/ TooManyAssets \/ RegisterAsset \/ CacheLump
  \/ BuildLumpCache \/ ValidateLump \/ ValidateHash \/ RegistryLoaded
  \/ \E id \in Ids : LoadAsset(id) \/ CheckSize(id)
  \/ CheckHash \/ Decompress
  \/ Quit

Spec == Init /\ [][Next]_vars

-----------------------------------------------------------------------------
(* Properties                                                              *)

\* Types, and where each process is in its code.
TypeOK ==
  /\ bpc \in {"idle", "adding", "joining"}
  /\ \A i \in DOMAIN lumps :
       /\ lumps[i].total_size \in Nat
       /\ lumps[i].thread \in {"none", "running", "writing", "done"}
       /\ lumps[i].thread = "none" => i = Len(lumps)
  /\ bpc = "adding" /\ lumps # <<>> => lumps[Len(lumps)].thread = "none"
  /\ lpc \in {"off", "lumps", "files", "filehash", "ready", "lumphash", "lumpdata",
              "crashed"}
  /\ result \in {"none", "Success", "FileNotFound", "BadSize", "DuplicateAsset",
                 "InvalidChecksum"}
  /\ \A id \in DOMAIN asset_lookup :
       asset_lookup[id].lump_index \in
         IF lpc = "lumps" THEN 1..lump_index ELSE DOMAIN lump_cache
  /\ request.answer \in NoAsset \cup Assets
  /\ raced \subseteq DOMAIN lump_cache

\* What loadAsset hands out for an id is an asset with that id, however often a
\* bundler has rewritten the files since the bundle was loaded: the offsets
\* loadRegistry adds up are those at which addAsset put the assets, and a lump
\* that is not the one the registry describes is turned away.  Only a file that
\* is written between its hash and its contents gets by, because the hash is
\* not taken of the bytes that are kept.
AssetsHaveTheirIds ==
  request.answer \notin {"none", "failed", "crashed"} /\ Wanted \notin raced
    => request.answer \in Assets /\ IdOf[request.answer] = request.id

\* As long as no bundler has run since the bundle began to load, every asset
\* of it can be loaded, any number of times, in any order.
IntactBundlesServe ==
  untouched => request.answer \notin {"failed", "crashed"}

\* Whether the loader has limits the builder went beyond without noticing.
BeyondLimits ==
  \/ Len(entries) > MaxLumps
  \/ \E i \in DOMAIN entries : Len(entries[i].assets) > MaxLumpAssets

\* A bundle whose build ended and wrote all its lumps is accepted by
\* loadRegistry, unless it has too many lumps or too many assets in one.
BuiltBundlesLoad ==
  /\ fresh /\ untouched
  /\ result \notin {"none", "Success"}
  => BeyondLimits

\* Every alias a loaded bundle exports names an asset it can load, although the
\* bundler's table of aliases may hold ids that addAsset never set.
ExportsServe ==
  lpc = "ready" =>
    \A alias \in DOMAIN bundle_exports : bundle_exports[alias] \in DOMAIN asset_lookup

=============================================================================
