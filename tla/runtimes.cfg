SPECIFICATION FairSpec
CONSTANTS
  Callers = {c1, c2}
  c1 = c1
  c2 = c2
  Cleanups = {"reaper", "node"}
  Faults = {"image", "init", "stop", "config", "overlap", "crash"}
  MaxCrashes = 1
INVARIANT OrphansSpared
INVARIANT NoDeadDriver
INVARIANT TypeOK
PROPERTY Reaped
\* the calls are finite: a behaviour ends when all are answered and the runtime is gone or in use
CHECK_DEADLOCK FALSE
