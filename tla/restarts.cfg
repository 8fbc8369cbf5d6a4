SPECIFICATION RestartSpec
CONSTANTS
  Threads = {t1}
  Callers = {u1, u2}
  t1 = t1
  u1 = u1
  u2 = u2
  Requests = {"trigger", "resume", "cancel", "acquired"}
  Outcomes = {"done"}
  Faults = {"unauth", "boot"}
  MaxWaits = 0
  MaxAttempts = 2
  MaxCrashes = 2
SYMMETRY Symmetry
INVARIANT NoStrandedAfterBoot
INVARIANT WorkerHoldsJob
INVARIANT OneRun
INVARIANT RestartTypes
\* the requests and the crashes are finite: a behaviour ends when all are answered
CHECK_DEADLOCK FALSE
