\* One request at a time: the code between two concurrent requests.
SPECIFICATION Spec
CONSTANTS
  Collections = {c1, c2}
  Flat = {c2}
  Nodes = {n1, n2}
  Items = {i1, i2}
  Volumes = {1}
  Refs = {m1}
  Requests = {r1}
  MaxCollections = 2
  MaxNodes = 2
  MaxItems = 2
  Null = Null
  Same = Same
INVARIANTS ItemCountExact
PROPERTIES SeriesStayForAReason
CHECK_DEADLOCK FALSE
