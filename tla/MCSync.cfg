CONSTANTS
  d1 = d1
  d2 = d2
  LocalData = LocalData
  Data = {d1, d2}
  Types <- TwoTypes
  MaxEntities = 2
  MaxVersion = 1
  MaxSnapshots = 2
SYMMETRY DataSymmetry
SPECIFICATION Spec
INVARIANTS SnapshotShown OnlyLeftovers LocalIdsStay
