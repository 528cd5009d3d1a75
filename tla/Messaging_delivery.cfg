SPECIFICATION FairSpec
CONSTANTS
  Senders = {w1, w2}
  Viewers = {v1}
  Users = {u1, u2}
  MaxMessages = 3
  Limit = 1
  Buffered = 1
  Chain <- Bare
  Faults = {"lost", "unacked", "late", "crash"}
CHECK_DEADLOCK FALSE
INVARIANTS TypeOK NoGaps SenderOrder NothingMissed
PROPERTIES HandlersEnd
