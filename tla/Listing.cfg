\* Pages of one row, two writes, two PATCHes at once outside a traversal.
SPECIFICATION Spec
CONSTANTS
  Items = {1, 2, 3}
  Nodes = {11, 12}
  Statuses = {"OWNED", "WISHLIST"}
  Ratings = {"low", "high"}
  Patchers = {p1, p2}
  Limit = 1
  Stamps = {0, 1}
  Libraries <- MCLibraries
  MaxWrites = 2
  None = None
  Same = Same
CONSTRAINT Small
SYMMETRY Symmetry
INVARIANTS NoRowTwice SteadyRowsListed OnlyVisibleShown ViewsAgree
PROPERTIES LonePatchKeepsOthers
CHECK_DEADLOCK FALSE
