SPECIFICATION Spec
CONSTANTS
  Workers = {w1, w2}
  Sims = {s1, s2}
  Orgs = {o1, o2}
  None = None
  Explicit = {2}
  SeedImsis = {1}
  SeedKey = SeedKey
  Ops = {"create", "suspend", "resume", "terminate"}
  Faults = {"lost", "unacked", "crash"}
  BootHooks = {TRUE, FALSE}
SYMMETRY Symmetry
INVARIANTS TypeOK DenseMsins CoreIsTrue
PROPERTY TenantIsolation
