\* Two requests interleaved: verify, notification, cron.
SPECIFICATION Spec
CONSTANTS
  Users = {u1, u2}
  Tokens = {t1, t2}
  Requests = {r1, r2}
  PlayStates = {"ACTIVE", "PENDING"}
  Dates = {1, 2}
  Window = 2
  MaxClock = 1
  MaxChanges = 1
  Null = Null
SYMMETRY Symmetry
INVARIANTS PremiumOnlyIfPaid
CHECK_DEADLOCK FALSE
