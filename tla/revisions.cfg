SPECIFICATION FairSpec
CONSTANTS
  Editors = {e1, e2, e3}
  e1 = e1
  e2 = e2
  e3 = e3
  NodeCount = 1
  NoMerge = NoMerge
  Missing = Missing
  Edits = {"set", "add"}
  Faults = {"reject", "crash", "race", "compile"}
  MaxAttempts = 2
  Concurrency = 2
  MaxRuns = 1
INVARIANTS TypeOK NoLostEdit LiveMatches TargetAhead
PROPERTIES VersionForward RevisionsEnd
\* the editors are finite: a behaviour ends when all are answered and the queue is empty
CHECK_DEADLOCK FALSE
