SPECIFICATION Spec
CONSTANTS
  Subjects = {s1, s2}
  Users = {u1, u2}
  Logins = {l1, l2}
  Flows = {f1, f2}
  Callbacks = {c1, c2}
  MaxCodes = 2
  None = None
  Keys = {k1}
  Fetchers = {r1, r2}
  Server = Server
  HasServerKey = TRUE
  MaxReleases = 1
CONSTRAINT Phases
SYMMETRY Symmetry
INVARIANTS OneAccountPerSubject CredentialsHold DisconnectHolds NoWithdrawnToken OlderOnlyByOverlap
CHECK_DEADLOCK FALSE
