SPECIFICATION Spec
CONSTANTS
  Entities <- UsualIds
  MaxDepth = 3
INVARIANTS
  EachVisitedOnce
  ChildrenFollowParents
PROPERTIES
  ImplementsForest

