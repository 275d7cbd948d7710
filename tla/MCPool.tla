-------------------------------- MODULE MCPool --------------------------------
(* A prefab that refers to a prefab twice, to a missing asset and to one of   *)
(* another type; the inner prefab refers to a third; a material with two      *)
(* textures.                                                                  *)
EXTENDS AssetPool, TLC

CONSTANTS outer, inner, leaf, material, albedo, emissive, missing

MCAssets == {outer, inner, leaf, material, albedo, emissive}
MCKindOf == [id \in MCAssets |->
  IF id \in {outer, inner, leaf} THEN "PrefabAsset"
  ELSE IF id = material THEN "MaterialAsset" ELSE "TextureAsset"]
Child(id) == [id |-> id, kind |-> "PrefabAsset", slot |-> "child"]
MCRefs == [id \in MCAssets |->
  CASE id = outer -> <<Child(inner), Child(missing), Child(leaf), Child(inner), Child(albedo)>>
    [] id = inner -> <<Child(leaf)>>
    [] id = material -> <<[id |-> albedo, kind |-> "TextureAsset", slot |-> "albedo"],
                          [id |-> emissive, kind |-> "TextureAsset", slot |-> "other"]>>
    [] OTHER -> <<>>]
MCRank == leaf :> 0 @@ albedo :> 1 @@ emissive :> 2 @@ inner :> 3 @@ outer :> 4 @@ material :> 5
=============================================================================
