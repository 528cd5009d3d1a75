SPECIFICATION Spec
CONSTANTS
  Workers = {w1, w2}
  Tokens = {t1, t2, t3}
  Families = {f1}
  Users = {u1}
  None = None
  Faults = {}
SYMMETRY Symmetry
CHECK_DEADLOCK FALSE
INVARIANT ExchangedOnce
