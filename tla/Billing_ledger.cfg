SPECIFICATION FairSpec
CONSTANTS
  Workers = {w1, w2}
  Readers = {r1}
  Accounts = {a1}
  Amounts <- SomeAmounts
  IntMax = 4
  MonthsPerYear = 2
  LastMonth = 2
  MaxEvents = 3
  Faults = {"lost", "unacked", "crash"}
CHECK_DEADLOCK FALSE
INVARIANTS TypeOK AcceptedIsBilled
PROPERTIES ImplementsLedger ReportIsTrue IngestEnds
