\* Two binders and terms of up to six parts beside the empty one; three names in two buckets.
SPECIFICATION SpecBase
CONSTANTS
  Levels = {x, y}
  MaxBuilt = 7
  Budgets = {25, 200}
  MaxValue = 4
  Names = {"x", "y", "z"}
  Entries = {e1, e2}
  Buckets = {1, 2}
  Bucket <- BucketOf
  Rooms = {0, 3, 100}
  MaxVersions = 3
  Locals = {"x", "y"}
  MaxLocals = 10
INVARIANTS Sound Exact LinearOnEveryPath DecisionExact RowsMatchIndex LocalsInOrder
PROPERTY ImplementsMap
CHECK_DEADLOCK FALSE
SYMMETRY Symmetry
