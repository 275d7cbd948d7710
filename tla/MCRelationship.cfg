SPECIFICATION Spec
CONSTANTS
  Entities = {e1, e2, e3, e4}
  NullEntity = NullEntity
SYMMETRY Interchangeable
INVARIANTS
  SiblingLinks
  ChildCount
  OneRing
