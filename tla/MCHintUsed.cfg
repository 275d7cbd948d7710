CONSTANTS
  d1 = d1
  d2 = d2
  LocalData = LocalData
  Data = {d1, d2}
  Types <- TwoTypes
  MaxEntities = 1
  MaxVersion = 1
  MaxSnapshots = 2
SPECIFICATION Spec
INVARIANT HintUsed
