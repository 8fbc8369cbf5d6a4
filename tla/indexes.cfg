SPECIFICATION FairSpec
CONSTANTS
  Callers = {u1}
  u1 = u1
  w1 = w1
  Workers = {w1}
  Requests = {"read", "reindex", "delete"}
  Faults = {"error", "lose", "crash"}
  MaxAttempts = 2
  MaxStalls = 1
  MaxOutages = 1
INVARIANTS TypeOK OneIndexer
PROPERTY IndexEnds
