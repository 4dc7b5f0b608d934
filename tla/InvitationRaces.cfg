\* Claims, purges, deletions and the command line racing for uses and grants.
SPECIFICATION Spec
CONSTANTS
  Users = {u1, u2}
  Codes = {c1, c2}
  Requests = {r1, r2}
  MaxUses = 2
  MaxClock = 2
  Dates = {1}
  Null = Null
SYMMETRY Symmetry
INVARIANTS UsesAreClaims
PROPERTIES GrantsNeverWorsen
CHECK_DEADLOCK FALSE
