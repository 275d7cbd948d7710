SPECIFICATION FairSpec
CONSTANTS
  outer = outer
  inner = inner
  leaf = leaf
  material = material
  albedo = albedo
  emissive = emissive
  missing = missing
  Kinds = {"PrefabAsset", "MaterialAsset", "TextureAsset"}
  Assets <- MCAssets
  KindOf <- MCKindOf
  Refs <- MCRefs
  Absent = {missing}
  Initialized = {"PrefabAsset", "MaterialAsset", "TextureAsset"}
  Dummies = {}
  Rank <- MCRank
INVARIANTS OneObjectPerAsset ReferencesResolved
PROPERTIES LoadsReturn
