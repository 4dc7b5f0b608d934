\* One request at a time, a user changing purchase; fairness.
SPECIFICATION FairSpec
CONSTANTS
  Users = {u1}
  Tokens = {t1, t2}
  Requests = {r1}
  PlayStates = {"ACTIVE", "EXPIRED"}
  Dates = {1}
  Window = 2
  MaxClock = 1
  MaxChanges = 2
  Null = Null
INVARIANTS RowSpeaksOfItsToken
PROPERTIES RowsSettle
CHECK_DEADLOCK FALSE
