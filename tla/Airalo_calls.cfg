SPECIFICATION FairSpec
CONSTANTS
  Workers = {w1, w2}
  Packages = {p1}
  Allowances = {small, large, odd}
  Unreadable = {odd}
  Gone = Gone
  None = None
  Lifetimes <- SomeLifetimes
  Timeout = 1
  Margin = 2
  Faults = {"lost", "garbled", "revoked", "crash"}
CHECK_DEADLOCK FALSE
INVARIANTS TypeOK TokensAreGood
PROPERTIES RequestsEnd RefusalsEnd SoldAsShown
