SPECIFICATION Spec
CONSTANTS
  Workers = {w1, w2, w3}
  Tokens = {t1, t2, t3}
  Families = {f1, f2}
  Users = {u1, u2}
  None = None
  Faults = {"lost", "unacked", "crash"}
SYMMETRY Symmetry
CHECK_DEADLOCK FALSE
INVARIANTS TypeOK RotationIsSafe SessionSurvives
PROPERTIES ImplementsSessions
