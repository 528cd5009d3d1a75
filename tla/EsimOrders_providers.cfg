SPECIFICATION Spec
CONSTANTS
  Workers = {w1, w2}
  Ids = {i1, i2}
  Refs = {r1, r2}
  Orgs = {o1, o2}
  None = None
  Providers = {"mock", "airalo"}
  Cap = 2
  Tick = 1
  Faults = {"lost", "unacked", "crash"}
SYMMETRY Symmetry
CHECK_DEADLOCK FALSE
INVARIANTS TypeOK OrdersAreBooked UsageIsTrue StatusIsTrue
PROPERTIES UsageNeverFalls
