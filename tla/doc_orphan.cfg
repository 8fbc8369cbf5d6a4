SPECIFICATION Spec
CONSTANTS
  Callers = {c1}
  c1 = c1
  c2 = c2
  Cleanups = {"reaper"}
  Faults = {"slow", "crash"}
  MaxCrashes = 1
INVARIANT NoOrphan
\* the calls are finite: a behaviour ends when all are answered and the runtime is gone or in use
CHECK_DEADLOCK FALSE
