SPECIFICATION Spec
CONSTANTS
  Workers = {w1, w2}
  Sims = {s1}
  Orgs = {o1}
  None = None
  Explicit = {}
  SeedImsis = {}
  SeedKey = SeedKey
  Ops = {"create", "suspend", "resume", "terminate"}
  Faults = {}
  BootHooks = {TRUE}
INVARIANT CutLineCannotAttach
CHECK_DEADLOCK FALSE
