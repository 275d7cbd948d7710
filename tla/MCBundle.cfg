CONSTANTS
  mesh = mesh
  texture = texture
  twin = twin
  prefab = prefab
  oversized = oversized
  alias = alias
  NoAlias = NoAlias
  Assets <- MCAssets
  Ids = {1, 2, 3, 4}
  IdOf <- MCIdOf
  Size <- MCSize
  Refs <- MCRefs
  AliasOf <- MCAliasOf
  NoId = 0
  LZ4 = TRUE
  Packed <- MCPacked
  MaxLumpSize = 3
  MaxBuilds = 2
  MaxLumps = 2
  MaxLumpAssets = 2
SPECIFICATION Spec
INVARIANTS AssetsHaveTheirIds IntactBundlesServe BuiltBundlesLoad ExportsServe
