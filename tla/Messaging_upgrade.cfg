SPECIFICATION FairSpec
CONSTANTS
  Senders = {w1}
  Viewers = {v1}
  Users = {u1}
  MaxMessages = 1
  Limit = 1
  Buffered = 1
  Chain <- Deployed
  Faults = {}
CHECK_DEADLOCK FALSE
PROPERTIES StreamOpens
