SPECIFICATION FairSpec
CONSTANTS
  Threads = {t1}
  Callers = {u1, u2}
  t1 = t1
  u1 = u1
  u2 = u2
  Requests = {"async", "resume", "cancel", "acquired"}
  Outcomes = {"done"}
  Faults = {"unauth"}
  MaxWaits = 0
  MaxAttempts = 1
PROPERTY PausesEnd
INVARIANT OneRun
INVARIANT JobOwned
INVARIANT TypeOK
\* the requests are finite: a behaviour ends when all are answered and every thread is settled
CHECK_DEADLOCK FALSE
