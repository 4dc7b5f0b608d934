\* Two requests interleaved, two collections with a hierarchy.
SPECIFICATION Spec
CONSTANTS
  Collections = {c1, c2}
  Flat = {}
  Nodes = {n1}
  Items = {i1, i2}
  Volumes = {}
  Refs = {}
  Requests = {r1, r2}
  MaxCollections = 2
  MaxNodes = 2
  MaxItems = 1
  Null = Null
  Same = Same
SYMMETRY Symmetry
INVARIANTS ItemCountCoversItems ItemsStayInTheirCollection LimitOvershootBounded
CHECK_DEADLOCK FALSE
