SPECIFICATION Spec
CONSTANTS
  Entities <- FirstIds
  MaxDepth = 2
INVARIANT ChildrenFollowParents
