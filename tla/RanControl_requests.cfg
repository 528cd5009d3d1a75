SPECIFICATION Spec
CONSTANTS
  Workers = {w1}
  Imsis = {i1, i2}
  Cells = {c1}
  NFs = 2
  NfLimit = 1
  PingLimit = 2
  Interval = 2
  ProbeLimit = 1
  Grace = 3
  WriteTimeout = 4
  Selection = 5
SYMMETRY Symmetry
INVARIANTS TypeOK HealthFollows AnswersAreTrue RepliesArrive
