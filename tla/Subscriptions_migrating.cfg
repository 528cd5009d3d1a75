SPECIFICATION FairSpec
CONSTANTS
  Jobs = {j1, j2}
  NFiles = 3
  Parts <- ThreeFiles
  Faults = {"lost", "unacked", "crash", "misread"}
  Workers = {w1, w2}
  Subs = {s1, s2}
  Orgs = {o1, o2}
  Users = {u1}
  Plans = {p1}
  None = None
  TableFile = 1
  IndexFile = 2
CHECK_DEADLOCK FALSE
INVARIANTS TypeOK RecordedInOrder OneLivePerPlan
PROPERTIES MigrationEnds WhoAsksSubscribes
