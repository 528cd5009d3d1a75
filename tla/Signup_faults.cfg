SPECIFICATION SignupFairSpec
CONSTANTS
  Workers = {w1, w2}
  Emails = {e1, e2}
  Slugs = {s1, s2}
  None = None
  Faults = {"lost", "unacked", "crash"}
CHECK_DEADLOCK FALSE
INVARIANTS SignupTypeOK AccountsAreTrue
PROPERTIES EverybodyGetsIn
