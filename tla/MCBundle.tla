------------------------------- MODULE MCBundle -------------------------------
(* Assets of sizes that leave room in a lump, fill it, and go beyond it; two   *)
(* of them share an id, and one holds the id of another.                       *)
EXTENDS AssetBundle, TLC

CONSTANTS mesh, texture, twin, prefab, oversized, alias

MCAssets == {mesh, texture, twin, prefab, oversized}
MCIdOf == mesh :> 1 @@ texture :> 2 @@ twin :> 2 @@ prefab :> 3 @@ oversized :> 4
MCSize == mesh :> 1 @@ texture :> 1 @@ twin :> 3 @@ prefab :> 1 @@ oversized :> 4
MCRefs == [a \in MCAssets |-> IF a = prefab THEN {1} ELSE {}]
MCAliasOf == [a \in MCAssets |-> IF a \in {texture, oversized} THEN alias ELSE NoAlias]
\* A small lump grows by the header of its frame, a larger one shrinks.
MCPacked == 0 :> 1 @@ 1 :> 2 @@ 2 :> 2 @@ 3 :> 2
=============================================================================
