\* Three accounts race for seats; two collections are exposed by two shares.
SPECIFICATION Spec
CONSTANTS
  Users = {u1, u2, u3}
  Collections = {c1, c2}
  Shares = {s1, s2}
  Requests = {r1, r2}
  Statuses = {OWNED}
  MaxUses = 2
  NoUser = NoUser
CONSTRAINT SeatsApart
SYMMETRY Symmetry
INVARIANTS SeatsRespected NoOrphanRows ReceivedMatchesAccess OwnerSeesWhoReads MembersReadAndNeverWrite
PROPERTIES ImplementsShareGrants AccessWidensOnlyByJoining
CHECK_DEADLOCK FALSE
